\* Win32 creation of the library's six TSD keys, then ownership of cached
\* thread semaphores with borrows nested two deep, threads that exit and one
\* spurious return of a kernel wait (Mach).
\* Once MaxHandles handles exist a thread with an empty slot cannot borrow,
\* so the bounded model may stop; so does a run whose threads have exited.
CONSTANTS
  t1 = t1
  t2 = t2
  Nil = Nil
  Threads <- MCThreads
  MaxDepth = 2
  MaxHandles = 4
  NKeys = 6
  MaxTlsSlots = 6
  TlsCapacity = 8
  MaxSpurious = 1
SYMMETRY ThreadSymmetry
SPECIFICATION Spec
INVARIANTS HandlesOwnedOnce KeysInstalled
CHECK_DEADLOCK FALSE
