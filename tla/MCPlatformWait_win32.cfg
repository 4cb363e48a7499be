\* Win32 with a deadline whose millisecond count does not fit in a DWORD.
CONSTANTS
  Platforms <- MCWin32
  Deadlines <- MCFarDeadline
  NsecPerMsec = 2
  NsecPerSec = 4
  DwordBits = 3
  MaxTime = 2
  MaxCalls = 1
  MaxSignals = 0
  MaxAborts = 0
SPECIFICATION Spec
INVARIANT NoEarlyTimeout
CHECK_DEADLOCK FALSE
