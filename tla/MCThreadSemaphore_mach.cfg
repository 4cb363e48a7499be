\* Mach build: semaphore_wait may return KERN_SUCCESS spuriously (comment at
\* semaphore.c:322). Does a thread semaphore still go back to the TSD cache
\* unsignalled?
CONSTANTS
  t1 = t1
  t2 = t2
  Nil = Nil
  Threads <- MCThreads
  MaxDepth = 1
  MaxHandles = 2
  NKeys = 6
  MaxTlsSlots = 6
  TlsCapacity = 8
  MaxSpurious = 1
SYMMETRY ThreadSymmetry
SPECIFICATION Spec
INVARIANT CachedUnsignalled
CHECK_DEADLOCK FALSE
