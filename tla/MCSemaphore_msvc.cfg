\* The semaphore built with the MSVC branch of shims/atomic.h, where
\* dispatch_atomic_cmpxchg yields the old value instead of a success flag.
\* One waiter that reaches the slow path and a signaller are enough.
CONSTANTS
  t1 = t1
  t2 = t2
  t3 = t3
  Threads <- MCThreads2
  Orig = 0
  LongBits = 3
  MaxSignals = 1
  MaxWaits = 1
  MaxSpurious = 0
  Timeouts = {"FOREVER"}
  Atomics = "msvc"
SPECIFICATION Spec
INVARIANT HandlesAccounted
CHECK_DEADLOCK FALSE
