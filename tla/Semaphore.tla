------------------------------ MODULE Semaphore ------------------------------
(***************************************************************************)
(* The libdispatch counting semaphore of src/src/semaphore.c: the atomic  *)
(* fast path on dsema_value, the slow path that reconciles spurious       *)
(* kernel wake-ups through dsema_sent_ksignals, and the undo-or-drain     *)
(* protocol of a wait whose deadline expires.                             *)
(*                                                                         *)
(* Every thread runs one operation at a time; each atomic instruction or   *)
(* platform call of the C code is one step, so steps of different threads *)
(* interleave exactly where the code has no lock.  dsema_handle is created *)
(* lazily by _dispatch_semaphore_create_handle, whose CAS loser destroys   *)
(* its own kernel semaphore; each kernel semaphore is a token counter, and *)
(* a kernel wait may also return without consuming a token (the spurious   *)
(* wake-up of rdar 6880961), at most MaxSpurious times.  The object is     *)
(* reference counted by the object layer: each client holds a reference,  *)
(* the slow signal path takes its own, and the last release runs           *)
(* _dispatch_semaphore_dispose.  Each CAS loop is a read of orig and a    *)
(* separate CAS, whose result is read as shims/atomic.h defines it for the *)
(* build (Atomics): a success flag with GCC, the old value with MSVC.      *)
(***************************************************************************)
EXTENDS Integers, FiniteSets

CONSTANTS
  Threads,      \* client threads calling signal and wait
  Orig,         \* the value passed to dispatch_semaphore_create
  LongBits,     \* width of the C long holding dsema_value
  MaxSignals,   \* bound: number of dispatch_semaphore_signal calls
  MaxWaits,     \* bound: number of dispatch_semaphore_wait calls
  MaxSpurious,  \* bound: number of spurious kernel wake-ups
  Timeouts,     \* the dispatch_time_t kinds a wait may be called with
  Atomics       \* the branch of shims/atomic.h the build takes: "gcc" or "msvc"

ASSUME Orig \in Nat /\ LongBits \in Nat \ {0, 1}
ASSUME Timeouts \subseteq {"NOW", "DEADLINE", "FOREVER"}
ASSUME Atomics \in {"gcc", "msvc"}

\* Kernel semaphores, numbered in creation order; 0 is the NULL handle.  At
\* most one create_handle per thread runs before one of them is installed.
Handles == 1..Cardinality(Threads)
NULL == 0

VARIABLES
  dsema_value,          \* the fast-path counter
  dsema_sent_ksignals,  \* kernel signals sent and not yet claimed
  dsema_handle,         \* the kernel semaphore, or NULL until created
  ksema,                \* ksema[h]: token count of kernel semaphore h
  kstate,               \* kstate[h]: "unused", "live" or "destroyed"
  tmp,                  \* tmp[t]: the semaphore t created in create_handle
  refs,                 \* the object's reference count
  holds,                \* holds[t]: client t still owns a reference
  freed,                \* the object has been deallocated
  pc,                   \* pc[t]: where thread t is in its operation
  timeout,              \* timeout[t]: the timeout of t's current wait
  orig,                 \* orig[t]: local of _dispatch_semaphore_wait_slow
  nSignals, nWaits,     \* calls made so far (bounded)
  nSpurious,            \* spurious wake-ups so far (bounded)
  crashed               \* DISPATCH_CLIENT_CRASH was reached

handleVars == <<dsema_handle, ksema, kstate, tmp>>
objVars == <<refs, holds, freed>>
vars == <<dsema_value, dsema_sent_ksignals, handleVars, objVars, pc, timeout,
          orig, nSignals, nWaits, nSpurious, crashed>>

LongMax == 2^(LongBits - 1) - 1
LongMin == -(2^(LongBits - 1))

\* Two's-complement wrap-around of a C long (the atomics are __sync builtins
\* on long, which wrap).
Wrap(x) == ((x - LongMin) % (2^LongBits)) + LongMin

(* Program counters.  "again" is the label of _dispatch_semaphore_wait_slow, *)
(* "timedwait" its default: case, "undo" its DISPATCH_TIME_NOW: case and    *)
(* "drain" its DISPATCH_TIME_FOREVER: case; "w_handle"/"w_install" and      *)
(* "s_handle"/"s_install" are create_handle called by the wait and the      *)
(* signal slow paths; "sent", "ksignal" and "release" are the rest of       *)
(* _dispatch_semaphore_signal_slow.                                         *)
WaitSlowPCs == {"again", "claim", "w_handle", "w_install", "timedwait", "undo",
                "undo_cas", "drain"}
SignalSlowPCs == {"sent", "s_handle", "s_install", "ksignal", "release"}
PCs == {"idle"} \cup WaitSlowPCs \cup SignalSlowPCs

Init ==
  /\ dsema_value = Orig
  /\ dsema_sent_ksignals = 0
  /\ dsema_handle = NULL
  /\ ksema = [h \in Handles |-> 0]
  /\ kstate = [h \in Handles |-> "unused"]
  /\ tmp = [t \in Threads |-> NULL]
  /\ refs = Cardinality(Threads)
  /\ holds = [t \in Threads |-> TRUE]
  /\ freed = FALSE
  /\ pc = [t \in Threads |-> "idle"]
  /\ timeout = [t \in Threads |-> "FOREVER"]
  /\ orig = [t \in Threads |-> 0]
  /\ nSignals = 0 /\ nWaits = 0 /\ nSpurious = 0
  /\ crashed = FALSE

Goto(t, l) == pc' = [pc EXCEPT ![t] = l]

\* DISPATCH_CLIENT_CRASH: the process stops.
ClientCrash == crashed' = TRUE

\* The token count of the installed kernel semaphore.
KTokens == IF dsema_handle = NULL THEN 0 ELSE ksema[dsema_handle]

-----------------------------------------------------------------------------
(* _dispatch_platform_semaphore_create: it retries (sleep(1)) until the    *)
(* kernel has a semaphore, so it always returns a fresh one.               *)
PlatformCreate == CHOOSE h \in Handles : kstate[h] = "unused"

(* _dispatch_platform_semaphore_dispose: a no-op on NULL.                  *)
PlatformDispose(h) ==
  kstate' = IF h = NULL THEN kstate ELSE [kstate EXCEPT ![h] = "destroyed"]

(* _dispatch_semaphore_create_handle, first step: return if dsema_handle   *)
(* is set, otherwise create a kernel semaphore into the local tmp.  The    *)
(* caller continues at done, or at install for the CAS.                    *)
CreateHandle(t, done, install) ==
  /\ IF dsema_handle # NULL
       THEN Goto(t, done) /\ UNCHANGED <<kstate, tmp>>
       ELSE /\ kstate' = [kstate EXCEPT ![PlatformCreate] = "live"]
            /\ tmp' = [tmp EXCEPT ![t] = PlatformCreate]
            /\ Goto(t, install)
  /\ UNCHANGED <<dsema_handle, ksema>>

(* dispatch_atomic_cmpxchg(p, e, n) as its callers read it, when the CAS  *)
(* found old where it expected e.  GCC: __sync_bool_compare_and_swap,      *)
(* true iff the swap happened.                                             *)
GccCmpxchg(old, e) == old = e

(* MSVC: _InterlockedCompareExchange returns the old value, cast to a      *)
(* pointer, and the callers test it for non-NULL.                          *)
MsvcCmpxchg(old, e) == old # 0

(* dispatch_atomic_cmpxchg2o(p, f, e, n), which the callers use, as the   *)
(* build reads it.                                                         *)
CasTrue(old, e) ==
  IF Atomics = "gcc" THEN GccCmpxchg(old, e) ELSE MsvcCmpxchg(old, e)

(* Mutant: the thread that loses the CAS keeps its semaphore.              *)
InstallHandleNoDispose(t, done) ==
  /\ IF dsema_handle = NULL THEN dsema_handle' = tmp[t]
                            ELSE UNCHANGED dsema_handle
  /\ tmp' = [tmp EXCEPT ![t] = NULL]
  /\ Goto(t, done)
  /\ UNCHANGED <<ksema, kstate>>

(* Second step: CAS tmp into dsema_handle; if the CAS reads as failed,    *)
(* dispose tmp.                                                            *)
InstallHandle(t, done) ==
  /\ dsema_handle' = IF dsema_handle = NULL THEN tmp[t] ELSE dsema_handle
  /\ IF CasTrue(dsema_handle, NULL) THEN UNCHANGED kstate
                                   ELSE PlatformDispose(tmp[t])
  /\ tmp' = [tmp EXCEPT ![t] = NULL]
  /\ Goto(t, done)
  /\ UNCHANGED ksema

(* _dispatch_semaphore_dispose: crash if a decrement is outstanding,       *)
(* otherwise dispose the kernel semaphore (dsema_waiter_handle is NULL for *)
(* a semaphore).                                                           *)
SemaphoreDispose ==
  IF dsema_value < Orig
    THEN ClientCrash /\ UNCHANGED <<kstate, freed>>
    ELSE freed' = TRUE /\ PlatformDispose(dsema_handle) /\ UNCHANGED crashed

(* _dispatch_release of the object layer: the last reference disposes it. *)
Release ==
  /\ refs' = refs - 1
  /\ IF refs = 1 THEN SemaphoreDispose ELSE UNCHANGED <<kstate, freed, crashed>>

(* A client drops its reference (dispatch_release) between operations.     *)
ClientRelease(t) ==
  /\ ~crashed /\ pc[t] = "idle" /\ holds[t]
  /\ holds' = [holds EXCEPT ![t] = FALSE]
  /\ Release
  /\ UNCHANGED <<dsema_value, dsema_sent_ksignals, dsema_handle, ksema, tmp,
                 pc, timeout, orig, nSignals, nWaits, nSpurious>>

-----------------------------------------------------------------------------
(* A client may call dispatch_semaphore_signal while it holds a reference, *)
(* or, without one, while a waiter whose reference keeps dsema alive is in *)
(* the slow path (the hand-off the comment at semaphore.c:284-288 relies   *)
(* on).                                                                    *)
MaySignal(t) ==
  /\ ~crashed /\ pc[t] = "idle" /\ nSignals < MaxSignals
  /\ holds[t] \/ \E w \in Threads : pc[w] \in WaitSlowPCs

(* Mutant: the LONG_MIN test is dropped; a wrapped signal takes the slow  *)
(* path.                                                                    *)
SemaphoreSignalNoCrash(t) ==
  LET v == Wrap(dsema_value + 1) IN
  /\ MaySignal(t)
  /\ nSignals' = nSignals + 1
  /\ dsema_value' = v
  /\ IF v > 0 THEN UNCHANGED <<pc, crashed>>
     ELSE Goto(t, "sent") /\ UNCHANGED crashed
  /\ UNCHANGED <<dsema_sent_ksignals, handleVars, objVars, timeout, orig,
                 nWaits, nSpurious>>

(* dispatch_semaphore_signal: increment; return if the result is positive, *)
(* crash on LONG_MIN, otherwise take the slow path.                         *)
SemaphoreSignal(t) ==
  LET v == Wrap(dsema_value + 1) IN
  /\ MaySignal(t)
  /\ nSignals' = nSignals + 1
  /\ dsema_value' = v
  /\ IF v > 0 THEN UNCHANGED <<pc, crashed>>
     ELSE IF v = LongMin THEN ClientCrash /\ UNCHANGED pc
     ELSE Goto(t, "sent") /\ UNCHANGED crashed
  /\ UNCHANGED <<dsema_sent_ksignals, handleVars, objVars, timeout, orig,
                 nWaits, nSpurious>>

(* Mutant: the slow path forgets to count the kernel signal.              *)
SignalSlowSentDropped(t) ==
  /\ ~crashed /\ pc[t] = "sent"
  /\ refs' = refs + 1
  /\ Goto(t, "s_handle")
  /\ UNCHANGED <<dsema_value, dsema_sent_ksignals, handleVars, holds, freed,
                 timeout, orig, nSignals, nWaits, nSpurious, crashed>>

(* Mutant: the slow path does not retain dsema.                            *)
SignalSlowSentNoRetain(t) ==
  /\ ~crashed /\ pc[t] = "sent"
  /\ dsema_sent_ksignals' = dsema_sent_ksignals + 1
  /\ Goto(t, "s_handle")
  /\ UNCHANGED <<dsema_value, handleVars, objVars, timeout, orig,
                 nSignals, nWaits, nSpurious, crashed>>

(* _dispatch_semaphore_signal_slow: retain dsema, then count the kernel    *)
(* signal about to be sent.                                                 *)
SignalSlowSent(t) ==
  /\ ~crashed /\ pc[t] = "sent"
  /\ refs' = refs + 1
  /\ dsema_sent_ksignals' = dsema_sent_ksignals + 1
  /\ Goto(t, "s_handle")
  /\ UNCHANGED <<dsema_value, handleVars, holds, freed, timeout, orig, nSignals,
                 nWaits, nSpurious, crashed>>

(* create_handle(&dsema->dsema_handle) in the slow signal path.            *)
SignalSlowHandle(t) ==
  /\ ~crashed /\ pc[t] = "s_handle"
  /\ CreateHandle(t, "ksignal", "s_install")
  /\ UNCHANGED <<dsema_value, dsema_sent_ksignals, objVars, timeout, orig,
                 nSignals, nWaits, nSpurious, crashed>>

SignalSlowInstall(t) ==
  /\ ~crashed /\ pc[t] = "s_install"
  /\ InstallHandle(t, "ksignal")
  /\ UNCHANGED <<dsema_value, dsema_sent_ksignals, objVars, timeout, orig,
                 nSignals, nWaits, nSpurious, crashed>>

(* Signal the kernel semaphore dsema->dsema_handle.                        *)
SignalSlowKernel(t) ==
  /\ ~crashed /\ pc[t] = "ksignal"
  /\ ksema' = [ksema EXCEPT ![dsema_handle] = @ + 1]
  /\ Goto(t, "release")
  /\ UNCHANGED <<dsema_value, dsema_sent_ksignals, dsema_handle, kstate, tmp,
                 objVars, timeout, orig, nSignals, nWaits, nSpurious, crashed>>

(* Mutant: the slow path never releases the reference it took.            *)
SignalSlowReleaseDropped(t) ==
  /\ ~crashed /\ pc[t] = "release"
  /\ Goto(t, "idle")
  /\ UNCHANGED <<dsema_value, dsema_sent_ksignals, handleVars, objVars,
                 timeout, orig, nSignals, nWaits, nSpurious, crashed>>

(* _dispatch_release(dsema) at the end of the slow signal path.            *)
SignalSlowRelease(t) ==
  /\ ~crashed /\ pc[t] = "release"
  /\ Release
  /\ Goto(t, "idle")
  /\ UNCHANGED <<dsema_value, dsema_sent_ksignals, dsema_handle, ksema, tmp,
                 holds, timeout, orig, nSignals, nWaits, nSpurious>>

-----------------------------------------------------------------------------
(* dispatch_semaphore_wait: decrement; return 0 if the result is >= 0,     *)
(* otherwise enter _dispatch_semaphore_wait_slow at "again".  The caller   *)
(* holds a reference for the whole call.                                    *)
SemaphoreWait(t) ==
  \E tmo \in Timeouts :
    LET v == Wrap(dsema_value - 1) IN
    /\ ~crashed /\ pc[t] = "idle" /\ holds[t] /\ nWaits < MaxWaits
    /\ nWaits' = nWaits + 1
    /\ dsema_value' = v
    /\ timeout' = [timeout EXCEPT ![t] = tmo]
    /\ IF v >= 0 THEN UNCHANGED pc ELSE Goto(t, "again")
    /\ UNCHANGED <<dsema_sent_ksignals, handleVars, objVars, orig, nSignals,
                   nSpurious, crashed>>

(* again: while ((orig = dsema_sent_ksignals)): read the count of kernel  *)
(* signals; if there is one, try to claim it, else go on to create_handle. *)
WaitSlowAgain(t) ==
  /\ ~crashed /\ pc[t] = "again"
  /\ orig' = [orig EXCEPT ![t] = dsema_sent_ksignals]
  /\ Goto(t, IF dsema_sent_ksignals # 0 THEN "claim" ELSE "w_handle")
  /\ UNCHANGED <<dsema_value, dsema_sent_ksignals, handleVars, objVars,
                 timeout, nSignals, nWaits, nSpurious, crashed>>

(* The CAS of orig to orig - 1: return 0 (success) if it reads as done,   *)
(* else loop and read again.                                               *)
WaitSlowClaim(t) ==
  LET ok == CasTrue(dsema_sent_ksignals, orig[t]) IN
  /\ ~crashed /\ pc[t] = "claim"
  /\ dsema_sent_ksignals' = IF dsema_sent_ksignals = orig[t]
                             THEN orig[t] - 1 ELSE dsema_sent_ksignals
  /\ Goto(t, IF ok THEN "idle" ELSE "again")
  /\ orig' = [orig EXCEPT ![t] = IF ok THEN 0 ELSE @]
  /\ UNCHANGED <<dsema_value, handleVars, objVars, timeout, nSignals, nWaits,
                 nSpurious, crashed>>

(* Mutant: DISPATCH_TIME_FOREVER falls into the DISPATCH_TIME_NOW case.   *)
SwitchTimeoutForeverAsNow(t) ==
  IF timeout[t] = "DEADLINE" THEN "timedwait" ELSE "undo"

(* switch (timeout): the case the thread continues at.                     *)
SwitchTimeout(t) ==
  CASE timeout[t] = "DEADLINE" -> "timedwait"
    [] timeout[t] = "NOW"      -> "undo"
    [] timeout[t] = "FOREVER"  -> "drain"

(* create_handle(&dsema->dsema_handle) in the slow wait path, then switch. *)
WaitSlowHandle(t) ==
  /\ ~crashed /\ pc[t] = "w_handle"
  /\ CreateHandle(t, SwitchTimeout(t), "w_install")
  /\ UNCHANGED <<dsema_value, dsema_sent_ksignals, objVars, timeout, orig,
                 nSignals, nWaits, nSpurious, crashed>>

WaitSlowInstall(t) ==
  /\ ~crashed /\ pc[t] = "w_install"
  /\ InstallHandle(t, SwitchTimeout(t))
  /\ UNCHANGED <<dsema_value, dsema_sent_ksignals, objVars, timeout, orig,
                 nSignals, nWaits, nSpurious, crashed>>

(* A kernel wait on dsema_handle that returns success: it consumed a      *)
(* token, or it woke spuriously.  Either way the code goes to "again".     *)
KernelWake ==
  \/ /\ KTokens > 0
     /\ ksema' = [ksema EXCEPT ![dsema_handle] = @ - 1]
     /\ UNCHANGED nSpurious
  \/ /\ nSpurious < MaxSpurious
     /\ nSpurious' = nSpurious + 1
     /\ UNCHANGED ksema

(* default: the timed platform wait succeeded.                             *)
WaitSlowTimedWake(t) ==
  /\ ~crashed /\ pc[t] = "timedwait"
  /\ KernelWake
  /\ Goto(t, "again")
  /\ UNCHANGED <<dsema_value, dsema_sent_ksignals, dsema_handle, kstate, tmp,
                 objVars, timeout, orig, nSignals, nWaits, crashed>>

(* default: the deadline passed; fall through to the undo loop.  A deadline *)
(* may pass whatever the token count, since a signal may arrive just late.  *)
WaitSlowTimedOut(t) ==
  /\ ~crashed /\ pc[t] = "timedwait"
  /\ Goto(t, "undo")
  /\ UNCHANGED <<dsema_value, dsema_sent_ksignals, handleVars, objVars,
                 timeout, orig, nSignals, nWaits, nSpurious, crashed>>

(* Mutant: the undo does not check that the value is still negative.      *)
WaitSlowUndoUnguarded(t) ==
  /\ ~crashed /\ pc[t] = "undo"
  /\ orig' = [orig EXCEPT ![t] = dsema_value]
  /\ Goto(t, "undo_cas")
  /\ UNCHANGED <<dsema_value, dsema_sent_ksignals, handleVars, objVars,
                 timeout, nSignals, nWaits, nSpurious, crashed>>

(* DISPATCH_TIME_NOW: while ((orig = dsema_value) < 0): read the value;   *)
(* while it is negative, try to undo the fast path's decrement.            *)
WaitSlowUndo(t) ==
  /\ ~crashed /\ pc[t] = "undo"
  /\ dsema_value < 0
  /\ orig' = [orig EXCEPT ![t] = dsema_value]
  /\ Goto(t, "undo_cas")
  /\ UNCHANGED <<dsema_value, dsema_sent_ksignals, handleVars, objVars,
                 timeout, nSignals, nWaits, nSpurious, crashed>>

(* The CAS of orig to orig + 1: return the timeout error if it reads as    *)
(* done, else loop and read again.                                         *)
WaitSlowUndoCas(t) ==
  LET ok == CasTrue(dsema_value, orig[t]) IN
  /\ ~crashed /\ pc[t] = "undo_cas"
  /\ dsema_value' = IF dsema_value = orig[t] THEN orig[t] + 1 ELSE dsema_value
  /\ Goto(t, IF ok THEN "idle" ELSE "undo")
  /\ orig' = [orig EXCEPT ![t] = IF ok THEN 0 ELSE @]
  /\ UNCHANGED <<dsema_sent_ksignals, handleVars, objVars, timeout, nSignals,
                 nWaits, nSpurious, crashed>>

(* The value is no longer negative: a signaller has committed to sending a *)
(* kernel signal for this waiter, so fall through to drain it.             *)
WaitSlowNoUndo(t) ==
  /\ ~crashed /\ pc[t] = "undo"
  /\ dsema_value >= 0
  /\ Goto(t, "drain")
  /\ UNCHANGED <<dsema_value, dsema_sent_ksignals, handleVars, objVars,
                 timeout, orig, nSignals, nWaits, nSpurious, crashed>>

(* DISPATCH_TIME_FOREVER: block on the kernel semaphore, then goto again.  *)
WaitSlowDrain(t) ==
  /\ ~crashed /\ pc[t] = "drain"
  /\ KernelWake
  /\ Goto(t, "again")
  /\ UNCHANGED <<dsema_value, dsema_sent_ksignals, dsema_handle, kstate, tmp,
                 objVars, timeout, orig, nSignals, nWaits, crashed>>

-----------------------------------------------------------------------------
Next ==
  \E t \in Threads :
    \/ SemaphoreSignal(t) \/ SignalSlowSent(t) \/ SignalSlowHandle(t)
    \/ SignalSlowInstall(t) \/ SignalSlowKernel(t) \/ SignalSlowRelease(t)
    \/ SemaphoreWait(t) \/ WaitSlowClaim(t) \/ WaitSlowAgain(t)
    \/ WaitSlowHandle(t) \/ WaitSlowInstall(t)
    \/ WaitSlowTimedWake(t) \/ WaitSlowTimedOut(t)
    \/ WaitSlowUndo(t) \/ WaitSlowUndoCas(t) \/ WaitSlowNoUndo(t)
    \/ WaitSlowDrain(t)
    \/ ClientRelease(t)

(* Threads are preempted but always scheduled again: every step of an     *)
(* operation in progress is weakly fair.  A kernel wait is only enabled    *)
(* while its semaphore has a token, which other waiters can take away; the *)
(* handle is created SYNC_POLICY_FIFO (semaphore.c:127), so it is strongly *)
(* fair.  Starting an operation or releasing a client reference is the     *)
(* client's choice and is not fair.                                         *)
Fairness ==
  \A t \in Threads :
    /\ WF_vars(SignalSlowSent(t)) /\ WF_vars(SignalSlowHandle(t))
    /\ WF_vars(SignalSlowInstall(t)) /\ WF_vars(SignalSlowKernel(t))
    /\ WF_vars(SignalSlowRelease(t))
    /\ WF_vars(WaitSlowAgain(t)) /\ WF_vars(WaitSlowClaim(t))
    /\ WF_vars(WaitSlowHandle(t)) /\ WF_vars(WaitSlowInstall(t))
    /\ WF_vars(WaitSlowTimedOut(t))
    /\ WF_vars(WaitSlowUndo(t) \/ WaitSlowNoUndo(t))
    /\ WF_vars(WaitSlowUndoCas(t))
    /\ SF_vars(KTokens > 0 /\ (WaitSlowDrain(t) \/ WaitSlowTimedWake(t)))

Spec == Init /\ [][Next]_vars
FairSpec == Spec /\ Fairness

-----------------------------------------------------------------------------
(* Derived sets used by the properties.                                    *)
InWaitSlow == {t \in Threads : pc[t] \in WaitSlowPCs}
SignalPending == {t \in Threads : pc[t] = "sent"}

(* Every thread inside _dispatch_semaphore_wait_slow is accounted for     *)
(* exactly once: by a kernel signal counted in dsema_sent_ksignals, by a   *)
(* signaller that has incremented dsema_value but not yet                  *)
(* dsema_sent_ksignals, or by one unit of negative dsema_value.  This is  *)
(* what makes the undo-or-drain of a timed-out wait (semaphore.c:349-358)  *)
(* and the claim loop (325-330) neither lose nor manufacture a unit, and   *)
(* what the LONG_MIN crash of an unbalanced signal (semaphore.c:308-310)   *)
(* protects: a wrapped count would read as waiters nobody is.              *)
WaitersAccounted ==
  ~crashed =>
    Cardinality(InWaitSlow) =
      dsema_sent_ksignals + Cardinality(SignalPending)
        + (IF dsema_value < 0 THEN -dsema_value ELSE 0)

(* No thread is inside a semaphore operation once the object has been     *)
(* deallocated.  A signaller without its own reference relies on the       *)
(* waiter's until it has counted its kernel signal, and on the retain of   *)
(* _dispatch_semaphore_signal_slow (semaphore.c:289) after that, when the  *)
(* waiter may claim the signal, return and drop the last client reference. *)
NoUseAfterFree == freed => \A t \in Threads : pc[t] = "idle"

(* The lazy handle creation of _dispatch_semaphore_create_handle           *)
(* (semaphore.c:97-117): a kernel semaphore is live exactly while it is    *)
(* the installed dsema_handle of a live object, or a thread's tmp between  *)
(* its creation and the CAS.  So two racing creators install one handle,   *)
(* the loser destroys its own, nothing leaks, and disposal destroys the    *)
(* installed one.                                                          *)
HandlesAccounted ==
  \A h \in Handles :
    kstate[h] = "live" <=> \/ h = dsema_handle /\ ~freed
                           \/ \E t \in Threads : tmp[t] = h

(* Eventually every operation has finished, except waits with no          *)
(* deadline that have a negative value to wait for, and no kernel signal   *)
(* is left unclaimed: no thread sleeps on the kernel semaphore while a     *)
(* unit is available to it.                                                *)
Settled ==
  /\ \A t \in Threads : pc[t] = "idle" \/ (pc[t] = "drain" /\ KTokens = 0)
  /\ dsema_sent_ksignals = 0
  /\ Cardinality(InWaitSlow) = IF dsema_value < 0 THEN -dsema_value ELSE 0

NoWaiterLeftBehind == ~crashed ~> Settled

(* Once every client has released its reference the object is eventually  *)
(* deallocated (or the process crashed on an unbalanced dispose): the      *)
(* reference taken by _dispatch_semaphore_signal_slow is always released.  *)
ObjectReclaimed == (\A t \in Threads : ~holds[t]) ~> (freed \/ crashed)
-----------------------------------------------------------------------------
(* Refinement mapping onto SemaphoreAbstract.  The units a waiter may still *)
(* take are the positive part of dsema_value, the kernel signals not yet   *)
(* claimed, and the signals between their increment and their             *)
(* dsema_sent_ksignals increment.                                          *)
AbstractCount ==
  (IF dsema_value > 0 THEN dsema_value ELSE 0)
    + dsema_sent_ksignals + Cardinality(SignalPending)

AbstractPC ==
  [t \in Threads |-> IF pc[t] \in WaitSlowPCs THEN "waiting"
                     ELSE IF pc[t] \in SignalSlowPCs THEN "signalling"
                     ELSE "idle"]

Abstract == INSTANCE SemaphoreAbstract
              WITH count <- AbstractCount, apc <- AbstractPC,
                   atimeout <- timeout

(* The code implements a counting semaphore: no wait returns 0 without a   *)
(* unit, no wait with a deadline keeps a unit when it times out, and no    *)
(* DISPATCH_TIME_FOREVER wait returns a timeout.                           *)
ImplementsAbstract == Abstract!Spec
=============================================================================
