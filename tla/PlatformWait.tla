---------------------------- MODULE PlatformWait ----------------------------
(***************************************************************************)
(* _dispatch_platform_semaphore_wait and _dispatch_platform_semaphore_signal *)
(* of src/src/semaphore.c:168-248 on its three back ends: Mach, POSIX and  *)
(* Win32.  One thread makes bounded calls with a timeout that is FOREVER or *)
(* an absolute deadline (NOW never reaches this function: the              *)
(* dispatch_assert at :191); another signals.  Time is a clock `now` in    *)
(* nanoseconds.  Each call arms a kernel wait, computed from the clock at  *)
(* that moment, and the kernel later returns success (a token was taken),  *)
(* a timeout (the armed expiry has passed) or, on Mach and POSIX, an       *)
(* interruption (KERN_ABORTED, EINTR) after which the code loops and arms  *)
(* again.                                                                  *)
(***************************************************************************)
EXTENDS Integers

CONSTANTS
  Platforms,    \* back ends the build may use: subset of {"mach", "posix", "win32"}
  Deadlines,    \* absolute deadlines (dispatch_time_t) a caller may pass
  NsecPerMsec,  \* NSEC_PER_MSEC, scaled down
  NsecPerSec,   \* NSEC_PER_SEC, scaled down
  DwordBits,    \* width of DWORD, scaled down
  MaxTime,      \* bound: the clock stops here
  MaxCalls,     \* bound: waits the thread makes
  MaxSignals,   \* bound: signals
  MaxAborts     \* bound: kernel interruptions

ASSUME Platforms \subseteq {"mach", "posix", "win32"} /\ Deadlines \subseteq Nat

FOREVER == -1   \* DISPATCH_TIME_FOREVER (~0ull), apart from every deadline
INF == -1                 \* a kernel wait with no expiry
INFINITE == 2^DwordBits - 1   \* Win32 INFINITE (0xFFFFFFFF)

VARIABLES
  platform,  \* the back end of this build
  now,       \* the clock
  timeout,   \* the timeout of the current call
  wpc,       \* "idle", "arm" (entry), "rearm" (loop), "blocked" or "done"
  nsec,      \* the nanoseconds _dispatch_timeout last returned (Mach, Win32)
  expiry,    \* clock value at which the armed kernel wait times out, or INF
  armedAt,   \* clock value when the kernel wait was armed
  kcount,    \* the kernel semaphore's count
  result,    \* what the last call returned (TRUE: decremented)
  doneAt,    \* clock value when the last call returned
  nCalls, nSignals, nAborts

vars == <<platform, now, timeout, wpc, nsec, expiry, armedAt, kcount, result,
          doneAt, nCalls, nSignals, nAborts>>

Init ==
  /\ platform \in Platforms
  /\ now = 0 /\ timeout = FOREVER /\ wpc = "idle"
  /\ nsec = 0 /\ expiry = INF /\ armedAt = 0
  /\ kcount = 0 /\ result = FALSE /\ doneAt = 0
  /\ nCalls = 0 /\ nSignals = 0 /\ nAborts = 0

\* _dispatch_timeout(when): nanoseconds from now until the deadline, 0 if
\* it has passed (declared at internal.h:531, defined outside src/).
DispatchTimeout(d) == IF d > now THEN d - now ELSE 0

Max2(a, b) == IF a >= b THEN a ELSE b

\* A caller of _dispatch_platform_semaphore_wait: FOREVER or a deadline.
Call ==
  /\ wpc \in {"idle", "done"} /\ nCalls < MaxCalls
  /\ \E to \in Deadlines \cup {FOREVER} : timeout' = to
  /\ nCalls' = nCalls + 1
  /\ wpc' = "arm"
  /\ UNCHANGED <<platform, now, nsec, expiry, armedAt, kcount, result, doneAt,
                 nSignals, nAborts>>

Arm(e) ==
  /\ expiry' = e /\ armedAt' = now /\ wpc' = "blocked"

\* Mutant: the timespec is computed once, before the loop, and reused after
\* KERN_ABORTED.
MachArmHoisted ==
  /\ platform = "mach" /\ wpc \in {"arm", "rearm"}
  /\ IF timeout = FOREVER
       THEN Arm(INF) /\ UNCHANGED nsec
       ELSE LET ns == IF wpc = "rearm" THEN nsec ELSE DispatchTimeout(timeout)
            IN nsec' = ns /\ Arm(now + ns)
  /\ UNCHANGED <<platform, now, timeout, kcount, result, doneAt, nCalls,
                 nSignals, nAborts>>

\* Mach: semaphore_wait, or semaphore_timedwait with the timespec split of
\* _dispatch_timeout(timeout), recomputed on every turn of the loop.
MachArm ==
  /\ platform = "mach" /\ wpc \in {"arm", "rearm"}
  /\ IF timeout = FOREVER
       THEN Arm(INF) /\ UNCHANGED nsec
       ELSE LET ns == DispatchTimeout(timeout)
                tv_sec == ns \div NsecPerSec
                tv_nsec == ns % NsecPerSec
            IN nsec' = ns /\ Arm(now + tv_sec * NsecPerSec + tv_nsec)
  /\ UNCHANGED <<platform, now, timeout, kcount, result, doneAt, nCalls,
                 nSignals, nAborts>>

\* Mutant: the relative timeout is passed to sem_timedwait, which takes an
\* absolute time.
PosixArmRelative ==
  /\ platform = "posix" /\ wpc \in {"arm", "rearm"}
  /\ Arm(IF timeout = FOREVER THEN INF ELSE DispatchTimeout(timeout))
  /\ UNCHANGED <<platform, now, timeout, nsec, kcount, result, doneAt, nCalls,
                 nSignals, nAborts>>

\* POSIX: sem_wait, or sem_timedwait with the absolute timespec of the
\* deadline (_dispatch_timeout_ts), recomputed on every turn of the loop.
PosixArm ==
  /\ platform = "posix" /\ wpc \in {"arm", "rearm"}
  /\ Arm(IF timeout = FOREVER THEN INF ELSE timeout)
  /\ UNCHANGED <<platform, now, timeout, nsec, kcount, result, doneAt, nCalls,
                 nSignals, nAborts>>

\* Win32: WaitForSingleObject(sema, INFINITE), or with
\* msec = (DWORD)(_dispatch_timeout(timeout) / NSEC_PER_MSEC).
Win32Msec(ns) == (ns \div NsecPerMsec) % 2^DwordBits

Win32Arm ==
  /\ platform = "win32" /\ wpc \in {"arm", "rearm"}
  /\ IF timeout = FOREVER
       THEN Arm(INF) /\ UNCHANGED nsec
       ELSE LET ns == DispatchTimeout(timeout)
                msec == Win32Msec(ns)
            IN /\ nsec' = ns
               /\ Arm(IF msec = INFINITE THEN INF ELSE now + msec * NsecPerMsec)
  /\ UNCHANGED <<platform, now, timeout, kcount, result, doneAt, nCalls,
                 nSignals, nAborts>>

\* What the kernel may return to a blocked wait now.
Outcomes ==
  (IF kcount > 0 THEN {"success"} ELSE {})
  \cup (IF expiry # INF /\ now >= expiry THEN {"timeout"} ELSE {})
  \cup (IF nAborts < MaxAborts /\ platform # "win32" THEN {"interrupted"} ELSE {})

\* Mutant: the loop runs until the kernel reports success.
RetriesUntilSuccess(kr) == kr # "success"

\* The loop conditions: while (kr == KERN_ABORTED) on Mach,
\* while (ret == -1 && errno == EINTR) on POSIX; Win32 does not loop.
Retries(kr) == kr = "interrupted"

\* The kernel call returns: loop and arm again, or return kr == SUCCESS.
KernelReturn ==
  /\ wpc = "blocked"
  /\ \E kr \in Outcomes :
       /\ kcount' = IF kr = "success" THEN kcount - 1 ELSE kcount
       /\ nAborts' = IF kr = "interrupted" THEN nAborts + 1 ELSE nAborts
       /\ IF Retries(kr)
            THEN wpc' = "rearm" /\ UNCHANGED <<result, doneAt>>
            ELSE wpc' = "done" /\ result' = (kr = "success") /\ doneAt' = now
  /\ UNCHANGED <<platform, now, timeout, nsec, expiry, armedAt, nCalls, nSignals>>

\* _dispatch_platform_semaphore_signal: semaphore_signal, sem_post or
\* ReleaseSemaphore, each adding one to the kernel count.
Signal ==
  /\ nSignals < MaxSignals
  /\ kcount' = kcount + 1 /\ nSignals' = nSignals + 1
  /\ UNCHANGED <<platform, now, timeout, wpc, nsec, expiry, armedAt, result,
                 doneAt, nCalls, nAborts>>

Tick ==
  /\ now < MaxTime /\ now' = now + 1
  /\ UNCHANGED <<platform, timeout, wpc, nsec, expiry, armedAt, kcount, result,
                 doneAt, nCalls, nSignals, nAborts>>

Next ==
  \/ Call \/ MachArm \/ PosixArm \/ Win32Arm \/ KernelReturn \/ Signal \/ Tick

\* Time passes and the kernel returns a wait whose outcome is available;
\* interruptions are bounded, never forced.
Fairness ==
  /\ WF_vars(Tick)
  /\ WF_vars(MachArm) /\ WF_vars(PosixArm) /\ WF_vars(Win32Arm)
  /\ WF_vars(KernelReturn /\ nAborts' = nAborts)

Spec == Init /\ [][Next]_vars
FairSpec == Spec /\ Fairness
-----------------------------------------------------------------------------
\* Resolution of the kernel timer: Win32 waits whole milliseconds.
Resolution == IF platform = "win32" THEN NsecPerMsec ELSE 1

(* The shim contract (spec.md, platform shim): a FOREVER wait never times  *)
(* out, and a deadline wait reports a timeout only once its deadline has   *)
(* passed, up to the platform's timer resolution.  Mach and POSIX          *)
(* recompute the kernel timeout from the deadline after each interruption; *)
(* Win32 converts it to a DWORD count of milliseconds.                     *)
NoEarlyTimeout ==
  wpc = "done" /\ ~result =>
    timeout # FOREVER /\ doneAt + Resolution > timeout

(* A kernel wait armed for a deadline call never runs past the deadline    *)
(* (or past the moment it was armed, if the deadline had already passed): *)
(* a timeout computed before a KERN_ABORTED or EINTR and reused after it   *)
(* would.                                                                  *)
ArmedWithinDeadline ==
  wpc = "blocked" /\ timeout # FOREVER =>
    expiry # INF /\ expiry <= Max2(timeout, armedAt)

(* A deadline wait returns, however often it is interrupted.               *)
DeadlineWaitReturns ==
  (wpc \in {"arm", "rearm", "blocked"} /\ timeout # FOREVER) ~> wpc = "done"
=============================================================================
