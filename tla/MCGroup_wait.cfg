\* Liveness of dispatch_group_wait: every waiter returns once clients have
\* left as often as they entered, despite timeouts and a spurious wake-up.
\* No notifications here (MCGroup_notify.cfg). The clients stop after their
\* bounded calls, so the program may stop.
CONSTANTS
  t1 = t1
  t2 = t2
  t3 = t3
  n1 = n1
  n2 = n2
  n3 = n3
  Nil = Nil
  Threads <- MCThreads
  Nodes <- MCNoNodes
  LongBits = 3
  MaxEnters = 2
  MaxGroupWaits = 2
  MaxSpurious = 1
  Timeouts = {"DEADLINE", "FOREVER"}
  Balanced = TRUE
SPECIFICATION FairSpec
PROPERTY WaitersReturn
CHECK_DEADLOCK FALSE
