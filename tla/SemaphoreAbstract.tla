-------------------------- MODULE SemaphoreAbstract --------------------------
(***************************************************************************)
(* What a counting semaphore promises its callers (spec.md 4.2, 8.2, 8.8): *)
(* a count of available units; a signal adds one; a wait either takes one  *)
(* (at once, or later after blocking) or, if it has a deadline, gives up   *)
(* without taking one.  A wait with no deadline never gives up.            *)
(***************************************************************************)
EXTENDS Naturals

CONSTANTS Threads, Orig, Timeouts

VARIABLES
  count,     \* units not yet taken by a wait
  apc,       \* apc[t] \in {"idle", "waiting", "signalling"}
  atimeout   \* the timeout of t's last wait

vars == <<count, apc, atimeout>>

Init ==
  /\ count = Orig
  /\ apc = [t \in Threads |-> "idle"]
  /\ atimeout = [t \in Threads |-> "FOREVER"]

(* A signal adds its unit at once; the call may still be busy afterwards. *)
Signal(t) ==
  /\ apc[t] = "idle"
  /\ count' = count + 1
  /\ \E s \in {"idle", "signalling"} : apc' = [apc EXCEPT ![t] = s]
  /\ UNCHANGED atimeout

EndSignal(t) ==
  /\ apc[t] = "signalling"
  /\ apc' = [apc EXCEPT ![t] = "idle"]
  /\ UNCHANGED <<count, atimeout>>

(* A wait that takes a unit without blocking.                             *)
WaitAcquire(t) ==
  \E tmo \in Timeouts :
    /\ apc[t] = "idle" /\ count > 0
    /\ count' = count - 1
    /\ atimeout' = [atimeout EXCEPT ![t] = tmo]
    /\ UNCHANGED apc

BeginWait(t) ==
  \E tmo \in Timeouts :
    /\ apc[t] = "idle"
    /\ apc' = [apc EXCEPT ![t] = "waiting"]
    /\ atimeout' = [atimeout EXCEPT ![t] = tmo]
    /\ UNCHANGED count

Acquire(t) ==
  /\ apc[t] = "waiting" /\ count > 0
  /\ count' = count - 1
  /\ apc' = [apc EXCEPT ![t] = "idle"]
  /\ UNCHANGED atimeout

TimeOut(t) ==
  /\ apc[t] = "waiting" /\ atimeout[t] # "FOREVER"
  /\ apc' = [apc EXCEPT ![t] = "idle"]
  /\ UNCHANGED <<count, atimeout>>

Next ==
  \E t \in Threads :
    \/ Signal(t) \/ EndSignal(t) \/ WaitAcquire(t)
    \/ BeginWait(t) \/ Acquire(t) \/ TimeOut(t)

Spec == Init /\ [][Next]_vars
=============================================================================
