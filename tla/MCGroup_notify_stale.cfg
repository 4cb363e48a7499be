\* Can a notification be submitted while an enter made before it was
\* registered is still outstanding?
CONSTANTS
  t1 = t1
  t2 = t2
  t3 = t3
  n1 = n1
  n2 = n2
  n3 = n3
  Nil = Nil
  Threads <- MCThreads
  Nodes <- MCNodes2
  LongBits = 3
  MaxEnters = 2
  MaxGroupWaits = 0
  MaxSpurious = 0
  Timeouts = {"FOREVER"}
  Balanced = TRUE
SYMMETRY ThreadSymmetry
SPECIFICATION Spec
INVARIANT NotifyAfterEmpty
CHECK_DEADLOCK FALSE
