\* The notification list and group references under every interleaving of
\* enter, leave and notify, with clients that may leave more often than they
\* entered: the extra leave must crash the process (which then stops).
\* Waiters are checked by MCGroup_wait.cfg.
CONSTANTS
  t1 = t1
  t2 = t2
  t3 = t3
  n1 = n1
  n2 = n2
  n3 = n3
  Nil = Nil
  Threads <- MCThreads
  Nodes <- MCNodes3
  LongBits = 3
  MaxEnters = 2
  MaxGroupWaits = 0
  MaxSpurious = 0
  Timeouts = {"NOW", "DEADLINE", "FOREVER"}
  Balanced = FALSE
SYMMETRY ThreadSymmetry
SPECIFICATION Spec
INVARIANTS TypeOK NoUseAfterFree NotifyOnceInOrder GroupRefsHeld UnbalancedLeaveCrashes
CHECK_DEADLOCK FALSE
