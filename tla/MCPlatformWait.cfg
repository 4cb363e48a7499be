\* The platform wait on Mach, POSIX and Win32 with near deadlines, one
\* interruption, one signal and two calls: timeouts are honoured and
\* deadline waits return. The thread and the clock stop after their bounds.
CONSTANTS
  Platforms <- MCPlatforms
  Deadlines <- MCNearDeadlines
  NsecPerMsec = 2
  NsecPerSec = 4
  DwordBits = 3
  MaxTime = 4
  MaxCalls = 2
  MaxSignals = 1
  MaxAborts = 1
SPECIFICATION FairSpec
INVARIANTS NoEarlyTimeout ArmedWithinDeadline
PROPERTY DeadlineWaitReturns
CHECK_DEADLOCK FALSE
