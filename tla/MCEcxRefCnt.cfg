\* Mutex always taken: the count matches the references, the object is
\* destroyed exactly once and only when unreferenced, never leaked, and
\* every call returns; the mutex is held exactly in the critical sections.
CONSTANTS
  Threads <- MCThreads
  MaxRefs = 4
  LockFails = FALSE
  NoThread = NoThread
SPECIFICATION FairSpec
INVARIANT RefCntMatchesReferences
INVARIANT DestroyedOnlyWhenUnreferenced
PROPERTY DroppedKeyIsFreed
PROPERTY CallsReturn
INVARIANT MutexHeldInCriticalSection
PROPERTY ImplementsShared
PROPERTY CountUpdatedUnderMutex
