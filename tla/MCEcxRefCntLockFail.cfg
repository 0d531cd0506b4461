\* wc_LockMutex may fail: wp_ecx_free then decrements refCnt without the
\* mutex, racing wp_ecx_up_ref; the exactly-once destruction is lost.
CONSTANTS
  Threads <- MCThreads
  MaxRefs = 3
  LockFails = TRUE
  NoThread = NoThread
SPECIFICATION Spec
INVARIANT DestroyedOnlyWhenUnreferenced
