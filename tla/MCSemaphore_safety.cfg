\* Safety of the semaphore protocol with three threads, every timeout kind
\* and one spurious kernel wake-up; a 3-bit long lets signals reach LONG_MIN.
CONSTANTS
  t1 = t1
  t2 = t2
  t3 = t3
  Threads <- MCThreads
  Orig = 1
  LongBits = 3
  MaxSignals = 3
  MaxWaits = 4
  MaxSpurious = 1
  Timeouts = {"NOW", "DEADLINE", "FOREVER"}
  Atomics = "gcc"
SYMMETRY ThreadSymmetry
SPECIFICATION Spec
INVARIANTS WaitersAccounted NoUseAfterFree HandlesAccounted
CHECK_DEADLOCK FALSE
