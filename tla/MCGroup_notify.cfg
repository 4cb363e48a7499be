\* Liveness of the notification list: every registered notification is
\* submitted once clients have left as often as they entered. No waiters
\* here (MCGroup_wait.cfg). The clients stop after their
\* bounded calls, so the program may stop.
CONSTANTS
  t1 = t1
  t2 = t2
  t3 = t3
  n1 = n1
  n2 = n2
  n3 = n3
  Nil = Nil
  Threads <- MCThreads
  Nodes <- MCNodes2
  LongBits = 3
  MaxEnters = 2
  MaxGroupWaits = 0
  MaxSpurious = 0
  Timeouts = {"DEADLINE", "FOREVER"}
  Balanced = TRUE
SPECIFICATION FairSpec
PROPERTY AllNotified
CHECK_DEADLOCK FALSE
