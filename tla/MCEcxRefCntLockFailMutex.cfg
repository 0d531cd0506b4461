\* wc_LockMutex may fail: the rc tests of up_ref and free keep the mutex
\* held exactly by the threads in a critical section.
CONSTANTS
  Threads <- MCThreads
  MaxRefs = 3
  LockFails = TRUE
  NoThread = NoThread
SPECIFICATION Spec
INVARIANT MutexHeldInCriticalSection
