--------------------------- MODULE MCPlatformWait ---------------------------
(* Model-checking instance of PlatformWait: all three back ends, a clock   *)
(* in nanoseconds scaled so that NSEC_PER_MSEC = 2 and a DWORD has 3 bits  *)
(* (INFINITE = 7 ms).                                                      *)
EXTENDS PlatformWait

MCPlatforms == {"mach", "posix", "win32"}
MCWin32 == {"win32"}
\* Deadlines within DWORD range: the kernel timeout is at most 6 ms.
MCNearDeadlines == {1, 3}
\* A deadline 8 ms (16 ns) away: 8 ms does not fit in the 3-bit DWORD.
MCFarDeadline == {16}
=============================================================================
