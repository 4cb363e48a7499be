\* Liveness of the semaphore (no waiter sleeps while a unit is available;
\* a disposable object is disposed) and its refinement of SemaphoreAbstract.
\* Threads may block forever legitimately (a FOREVER wait with no signal
\* left to come), and the clients stop after their bounded calls, so the
\* program may stop: deadlock is not an error here, Settled says which stops
\* are correct.
CONSTANTS
  t1 = t1
  t2 = t2
  t3 = t3
  Threads <- MCThreads2
  Orig = 0
  LongBits = 8
  MaxSignals = 3
  MaxWaits = 3
  MaxSpurious = 1
  Timeouts = {"NOW", "DEADLINE", "FOREVER"}
  Atomics = "gcc"
SPECIFICATION FairSpec
PROPERTIES NoWaiterLeftBehind ObjectReclaimed ImplementsAbstract
CHECK_DEADLOCK FALSE
