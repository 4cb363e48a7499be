-------------------------------- MODULE Group --------------------------------
(***************************************************************************)
(* The dispatch group of src/src/semaphore.c (lines 387-585): a semaphore  *)
(* whose dsema_value starts at dsema_orig = LONG_MAX, an enter/leave       *)
(* counter, threads parked in dispatch_group_wait on a second kernel       *)
(* semaphore (dsema_waiter_handle), and the lock-free list of              *)
(* notification nodes (dsema_notify_head/tail, dsn_next) drained by        *)
(* _dispatch_group_wake.                                                   *)
(*                                                                         *)
(* Each atomic instruction, each plain load or store of a shared field,    *)
(* and each platform call is one step of the calling thread.  The         *)
(* waiter handle is a counting kernel semaphore wsema that may wake        *)
(* spuriously at most MaxSpurious times.  A notification node is a model  *)
(* value of Nodes; dispatch_async_f of its function is recorded by        *)
(* appending it to the history variable delivered.                        *)
(***************************************************************************)
EXTENDS Integers, Sequences, FiniteSets

CONSTANTS
  Threads,        \* client threads
  Nodes,          \* notification nodes (one per dispatch_group_notify_f)
  Nil,            \* the NULL pointer
  LongBits,       \* width of the C long holding dsema_value
  MaxEnters,      \* bound: number of dispatch_group_enter calls
  MaxGroupWaits,  \* bound: number of dispatch_group_wait calls
  MaxSpurious,    \* bound: spurious wake-ups of the waiter handle
  Timeouts,       \* the dispatch_time_t kinds dispatch_group_wait is given
  Balanced        \* TRUE: clients never leave more often than they entered

ASSUME Nil \notin Nodes
ASSUME LongBits \in Nat \ {0, 1} /\ Balanced \in BOOLEAN
ASSUME Timeouts \subseteq {"NOW", "DEADLINE", "FOREVER"}

LongMax == 2^(LongBits - 1) - 1
LongMin == -(2^(LongBits - 1))
Wrap(x) == ((x - LongMin) % (2^LongBits)) + LongMin

\* dispatch_group_create: _dispatch_semaphore_init(LONG_MAX, dg)
DsemaOrig == LongMax

\* enter is dispatch_semaphore_wait(FOREVER); it never reaches the semaphore
\* slow path as long as fewer than LONG_MAX enters are outstanding.
ASSUME MaxEnters <= LongMax

VARIABLES
  dsema_value,          \* LONG_MAX minus the outstanding enters
  dsema_group_waiters,  \* threads registered as parked in group_wait
  wsema,                \* token count of dsema_waiter_handle
  notify_head,          \* dsema_notify_head
  notify_tail,          \* dsema_notify_tail
  dsn_next,             \* dsn_next[n]: the link field of node n
  allocated,            \* nodes handed out by calloc
  freed,                \* nodes passed to free
  delivered,            \* history: nodes submitted by dispatch_async_f
  emptied,              \* history: emptied[n] iff value = orig at some
                        \*   point since n was registered
  grefs,                \* references on dg taken by notify, not released
  pc,                   \* pc[t]: where thread t is
  dsn, prev,            \* locals of dispatch_group_notify_f
  head, tail, rval,     \* locals of _dispatch_group_wake
  timeout,              \* local of dispatch_group_wait
  nEnters, nLeaves, nGroupWaits, nSpurious,
  crashed               \* DISPATCH_CLIENT_CRASH was reached

vars == <<dsema_value, dsema_group_waiters, wsema, notify_head, notify_tail,
          dsn_next, allocated, freed, delivered, emptied, grefs, pc, dsn, prev,
          head, tail, rval, timeout, nEnters, nLeaves, nGroupWaits, nSpurious,
          crashed>>

listVars == <<notify_head, notify_tail, dsn_next, allocated, freed, delivered,
              emptied, grefs>>
localVars == <<dsn, prev, head, tail, rval, timeout>>
countVars == <<nEnters, nLeaves, nGroupWaits, nSpurious>>

NodeOrNil == Nodes \cup {Nil}

WakePCs == {"wk_head", "wk_tail", "wk_waiters", "wk_signal", "wk_async",
            "wk_next"}
WaitPCs == {"gw_again", "gw_inc", "gw_check", "gw_timedwait", "gw_undo",
            "gw_drain"}
NotifyPCs == {"nt_link", "nt_retain", "nt_head", "nt_check"}
PCs == {"idle"} \cup WakePCs \cup WaitPCs \cup NotifyPCs

Init ==
  /\ dsema_value = DsemaOrig
  /\ dsema_group_waiters = 0
  /\ wsema = 0
  /\ notify_head = Nil /\ notify_tail = Nil
  /\ dsn_next = [n \in Nodes |-> Nil]
  /\ allocated = {} /\ freed = {}
  /\ delivered = <<>>
  /\ emptied = [n \in Nodes |-> FALSE]
  /\ grefs = 0
  /\ pc = [t \in Threads |-> "idle"]
  /\ dsn = [t \in Threads |-> Nil] /\ prev = [t \in Threads |-> Nil]
  /\ head = [t \in Threads |-> Nil] /\ tail = [t \in Threads |-> Nil]
  /\ rval = [t \in Threads |-> 0]
  /\ timeout = [t \in Threads |-> "FOREVER"]
  /\ nEnters = 0 /\ nLeaves = 0 /\ nGroupWaits = 0 /\ nSpurious = 0
  /\ crashed = FALSE

Goto(t, l) == pc' = [pc EXCEPT ![t] = l]

\* Every registered node sees the group empty when dsema_value becomes orig.
NoteEmpty(v) ==
  emptied' = IF v = DsemaOrig THEN [n \in Nodes |-> emptied[n] \/ n \in allocated]
             ELSE emptied

Running(t, l) == ~crashed /\ pc[t] = l

-----------------------------------------------------------------------------
(* dispatch_group_enter -> dispatch_semaphore_wait(dg, FOREVER): the       *)
(* decrement of the fast path, which never goes negative here.             *)
GroupEnter(t) ==
  /\ Running(t, "idle") /\ nEnters < MaxEnters
  /\ nEnters' = nEnters + 1
  /\ dsema_value' = Wrap(dsema_value - 1)
  /\ UNCHANGED <<dsema_group_waiters, wsema, listVars, pc, localVars,
                 nLeaves, nGroupWaits, nSpurious, crashed>>

(* Mutant: no LONG_MIN check on leave.                                     *)
GroupLeaveNoCrash(t) ==
  LET v == Wrap(dsema_value + 1) IN
  /\ Running(t, "idle")
  /\ Balanced => nLeaves < nEnters
  /\ nLeaves' = nLeaves + 1
  /\ dsema_value' = v
  /\ Goto(t, IF v = DsemaOrig THEN "wk_head" ELSE "idle")
  /\ NoteEmpty(v)
  /\ UNCHANGED <<dsema_group_waiters, wsema, notify_head, notify_tail, dsn_next,
                 allocated, freed, delivered, grefs, localVars, nEnters,
                 nGroupWaits, nSpurious, crashed>>

(* dispatch_group_leave: increment; crash on LONG_MIN; wake on orig.       *)
GroupLeave(t) ==
  LET v == Wrap(dsema_value + 1) IN
  /\ Running(t, "idle")
  /\ Balanced => nLeaves < nEnters
  /\ nLeaves' = nLeaves + 1
  /\ dsema_value' = v
  /\ IF v = LongMin THEN crashed' = TRUE /\ UNCHANGED pc
     ELSE /\ Goto(t, IF v = DsemaOrig THEN "wk_head" ELSE "idle")
          /\ UNCHANGED crashed
  /\ NoteEmpty(v)
  /\ UNCHANGED <<dsema_group_waiters, wsema, notify_head, notify_tail, dsn_next,
                 allocated, freed, delivered, grefs, localVars, nEnters,
                 nGroupWaits, nSpurious>>

-----------------------------------------------------------------------------
(* Mutant: the head is read but not swapped out.                          *)
WakeHeadNoSwap(t) ==
  /\ Running(t, "wk_head")
  /\ head' = [head EXCEPT ![t] = notify_head]
  /\ tail' = [tail EXCEPT ![t] = Nil]
  /\ Goto(t, IF notify_head # Nil THEN "wk_tail" ELSE "wk_waiters")
  /\ UNCHANGED <<dsema_value, dsema_group_waiters, wsema, notify_head,
                 notify_tail, dsn_next, allocated, freed, delivered, emptied,
                 grefs, dsn, prev, rval, timeout, countVars, crashed>>

(* _dispatch_group_wake.  head = xchg(notify_head, NULL); if a list was    *)
(* taken, tail = xchg(notify_tail, NULL).                                  *)
WakeHead(t) ==
  /\ Running(t, "wk_head")
  /\ head' = [head EXCEPT ![t] = notify_head]
  /\ tail' = [tail EXCEPT ![t] = Nil]
  /\ notify_head' = Nil
  /\ Goto(t, IF notify_head # Nil THEN "wk_tail" ELSE "wk_waiters")
  /\ UNCHANGED <<dsema_value, dsema_group_waiters, wsema, notify_tail, dsn_next,
                 allocated, freed, delivered, emptied, grefs, dsn, prev, rval,
                 timeout, countVars, crashed>>

WakeTail(t) ==
  /\ Running(t, "wk_tail")
  /\ tail' = [tail EXCEPT ![t] = notify_tail]
  /\ notify_tail' = Nil
  /\ Goto(t, "wk_waiters")
  /\ UNCHANGED <<dsema_value, dsema_group_waiters, wsema, notify_head, dsn_next,
                 allocated, freed, delivered, emptied, grefs, dsn, prev, head,
                 rval, timeout, countVars, crashed>>

(* Mutant: the if (head) test before the notify loop is dropped.          *)
WakeWaitersAlwaysNotify(t) ==
  /\ Running(t, "wk_waiters")
  /\ rval' = [rval EXCEPT ![t] = dsema_group_waiters]
  /\ dsema_group_waiters' = 0
  /\ Goto(t, IF dsema_group_waiters > 0 THEN "wk_signal" ELSE "wk_async")
  /\ UNCHANGED <<dsema_value, wsema, listVars, dsn, prev, head, tail, timeout,
                 countVars, crashed>>

(* rval = xchg(dsema_group_waiters, 0).                                    *)
WakeWaiters(t) ==
  /\ Running(t, "wk_waiters")
  /\ rval' = [rval EXCEPT ![t] = dsema_group_waiters]
  /\ dsema_group_waiters' = 0
  /\ Goto(t, IF dsema_group_waiters > 0 THEN "wk_signal"
             ELSE IF head[t] # Nil THEN "wk_async" ELSE "idle")
  /\ UNCHANGED <<dsema_value, wsema, listVars, dsn, prev, head, tail, timeout,
                 countVars, crashed>>

(* One turn of the do { signal(waiter_handle) } while (--rval) loop.       *)
WakeSignal(t) ==
  /\ Running(t, "wk_signal")
  /\ wsema' = wsema + 1
  /\ rval' = [rval EXCEPT ![t] = @ - 1]
  /\ Goto(t, IF rval[t] > 1 THEN "wk_signal"
             ELSE IF head[t] # Nil THEN "wk_async" ELSE "idle")
  /\ UNCHANGED <<dsema_value, dsema_group_waiters, listVars, dsn, prev, head,
                 tail, timeout, countVars, crashed>>

(* dispatch_async_f(head->dsn_queue, ...) and release of the queue.        *)
WakeAsync(t) ==
  /\ Running(t, "wk_async")
  /\ delivered' = Append(delivered, head[t])
  /\ Goto(t, "wk_next")
  /\ UNCHANGED <<dsema_value, dsema_group_waiters, wsema, notify_head,
                 notify_tail, dsn_next, allocated, freed, emptied, grefs,
                 localVars, countVars, crashed>>

(* Mutant: no spin on a dsn_next not yet written.                         *)
WakeNextNoSpin(t) ==
  LET nx == dsn_next[head[t]] IN
  /\ Running(t, "wk_next")
  /\ freed' = freed \cup {head[t]}
  /\ head' = [head EXCEPT ![t] = nx]
  /\ IF nx # Nil THEN Goto(t, "wk_async") /\ UNCHANGED grefs
     ELSE Goto(t, "idle") /\ grefs' = grefs - 1
  /\ UNCHANGED <<dsema_value, dsema_group_waiters, wsema, notify_head,
                 notify_tail, dsn_next, allocated, delivered, emptied, dsn,
                 prev, tail, rval, timeout, countVars, crashed>>

(* next = head->dsn_next; if it is NULL and head is not the captured tail, *)
(* spin until the appending thread has written it (the step is disabled    *)
(* meanwhile); free(head); continue with next, or release dg at the end.   *)
WakeNext(t) ==
  LET nx == dsn_next[head[t]] IN
  /\ Running(t, "wk_next")
  /\ nx # Nil \/ head[t] = tail[t]
  /\ freed' = freed \cup {head[t]}
  /\ head' = [head EXCEPT ![t] = nx]
  /\ IF nx # Nil THEN Goto(t, "wk_async") /\ UNCHANGED grefs
     ELSE Goto(t, "idle") /\ grefs' = grefs - 1
  /\ UNCHANGED <<dsema_value, dsema_group_waiters, wsema, notify_head,
                 notify_tail, dsn_next, allocated, delivered, emptied, dsn,
                 prev, tail, rval, timeout, countVars, crashed>>

-----------------------------------------------------------------------------
(* dispatch_group_wait: return 0 if value = orig; a DISPATCH_TIME_NOW wait *)
(* returns the timeout error; otherwise _dispatch_group_wait_slow.         *)
GroupWait(t) ==
  \E tmo \in Timeouts :
    /\ Running(t, "idle") /\ nGroupWaits < MaxGroupWaits
    /\ nGroupWaits' = nGroupWaits + 1
    /\ timeout' = [timeout EXCEPT ![t] = tmo]
    /\ Goto(t, IF dsema_value = DsemaOrig \/ tmo = "NOW" THEN "idle"
               ELSE "gw_again")
    /\ UNCHANGED <<dsema_value, dsema_group_waiters, wsema, listVars, dsn, prev,
                   head, tail, rval, nEnters, nLeaves, nSpurious, crashed>>

(* again: if value = orig, return _dispatch_group_wake(dsema).             *)
WaitSlowAgain(t) ==
  /\ Running(t, "gw_again")
  /\ Goto(t, IF dsema_value = DsemaOrig THEN "wk_head" ELSE "gw_inc")
  /\ UNCHANGED <<dsema_value, dsema_group_waiters, wsema, listVars, localVars,
                 countVars, crashed>>

WaitSlowInc(t) ==
  /\ Running(t, "gw_inc")
  /\ dsema_group_waiters' = dsema_group_waiters + 1
  /\ Goto(t, "gw_check")
  /\ UNCHANGED <<dsema_value, wsema, listVars, localVars, countVars, crashed>>

(* Mutant: no re-check after registering in dsema_group_waiters.          *)
WaitSlowCheckSkipped(t) ==
  /\ Running(t, "gw_check")
  /\ Goto(t, IF timeout[t] = "DEADLINE" THEN "gw_timedwait" ELSE "gw_drain")
  /\ UNCHANGED <<dsema_value, dsema_group_waiters, wsema, listVars, localVars,
                 countVars, crashed>>

(* Check again after registering; else create the waiter handle and       *)
(* switch on the timeout (NOW never gets here).                           *)
WaitSlowCheck(t) ==
  /\ Running(t, "gw_check")
  /\ Goto(t, IF dsema_value = DsemaOrig THEN "wk_head"
             ELSE IF timeout[t] = "DEADLINE" THEN "gw_timedwait"
             ELSE "gw_drain")
  /\ UNCHANGED <<dsema_value, dsema_group_waiters, wsema, listVars, localVars,
                 countVars, crashed>>

(* A successful wait on the waiter handle: a token, or a spurious wake.    *)
KernelWake ==
  \/ wsema > 0 /\ wsema' = wsema - 1 /\ UNCHANGED nSpurious
  \/ nSpurious < MaxSpurious /\ nSpurious' = nSpurious + 1 /\ UNCHANGED wsema

WaitSlowTimedWake(t) ==
  /\ Running(t, "gw_timedwait")
  /\ KernelWake
  /\ Goto(t, "gw_again")
  /\ UNCHANGED <<dsema_value, dsema_group_waiters, listVars, localVars,
                 nEnters, nLeaves, nGroupWaits, crashed>>

WaitSlowTimedOut(t) ==
  /\ Running(t, "gw_timedwait")
  /\ Goto(t, "gw_undo")
  /\ UNCHANGED <<dsema_value, dsema_group_waiters, wsema, listVars, localVars,
                 countVars, crashed>>

(* The CAS loop taking back one registration returns the timeout error.   *)
WaitSlowUndo(t) ==
  /\ Running(t, "gw_undo")
  /\ dsema_group_waiters > 0
  /\ dsema_group_waiters' = dsema_group_waiters - 1
  /\ Goto(t, "idle")
  /\ UNCHANGED <<dsema_value, wsema, listVars, localVars, countVars, crashed>>

(* A wake took the registrations: drain the signal it is sending.         *)
WaitSlowNoUndo(t) ==
  /\ Running(t, "gw_undo")
  /\ dsema_group_waiters = 0
  /\ Goto(t, "gw_drain")
  /\ UNCHANGED <<dsema_value, dsema_group_waiters, wsema, listVars, localVars,
                 countVars, crashed>>

WaitSlowDrain(t) ==
  /\ Running(t, "gw_drain")
  /\ KernelWake
  /\ Goto(t, "gw_again")
  /\ UNCHANGED <<dsema_value, dsema_group_waiters, listVars, localVars,
                 nEnters, nLeaves, nGroupWaits, crashed>>

-----------------------------------------------------------------------------
(* dispatch_group_notify_f: calloc a node, retain the queue, then          *)
(* prev = xchg(notify_tail, dsn).                                          *)
NotifyAppend(t) ==
  \E n \in Nodes \ allocated :
    /\ Running(t, "idle")
    /\ allocated' = allocated \cup {n}
    /\ emptied' = [emptied EXCEPT ![n] = (dsema_value = DsemaOrig)]
    /\ dsn' = [dsn EXCEPT ![t] = n]
    /\ prev' = [prev EXCEPT ![t] = notify_tail]
    /\ notify_tail' = n
    /\ Goto(t, IF notify_tail # Nil THEN "nt_link" ELSE "nt_retain")
    /\ UNCHANGED <<dsema_value, dsema_group_waiters, wsema, notify_head,
                   dsn_next, freed, delivered, grefs, head, tail, rval,
                   timeout, countVars, crashed>>

(* prev->dsn_next = dsn.                                                   *)
NotifyLink(t) ==
  /\ Running(t, "nt_link")
  /\ dsn_next' = [dsn_next EXCEPT ![prev[t]] = dsn[t]]
  /\ Goto(t, "idle")
  /\ UNCHANGED <<dsema_value, dsema_group_waiters, wsema, notify_head,
                 notify_tail, allocated, freed, delivered, emptied, grefs,
                 localVars, countVars, crashed>>

(* Mutant: the retain is forgotten before the first node is published.    *)
NotifyRetainDropped(t) ==
  /\ Running(t, "nt_retain")
  /\ Goto(t, "nt_head")
  /\ UNCHANGED <<dsema_value, dsema_group_waiters, wsema, notify_head,
                 notify_tail, dsn_next, allocated, freed, delivered, emptied,
                 grefs, localVars, countVars, crashed>>

(* First node of a new list: _dispatch_retain(dg).                         *)
NotifyRetain(t) ==
  /\ Running(t, "nt_retain")
  /\ grefs' = grefs + 1
  /\ Goto(t, "nt_head")
  /\ UNCHANGED <<dsema_value, dsema_group_waiters, wsema, notify_head,
                 notify_tail, dsn_next, allocated, freed, delivered, emptied,
                 localVars, countVars, crashed>>

(* Then xchg(notify_head, dsn) publishes the node to the waker.            *)
NotifyHead(t) ==
  /\ Running(t, "nt_head")
  /\ notify_head' = dsn[t]
  /\ Goto(t, "nt_check")
  /\ UNCHANGED <<dsema_value, dsema_group_waiters, wsema, notify_tail,
                 dsn_next, allocated, freed, delivered, emptied, grefs,
                 localVars, countVars, crashed>>

(* Mutant: notify never wakes by itself; it waits for a later leave.      *)
NotifyCheckNoWake(t) ==
  /\ Running(t, "nt_check")
  /\ Goto(t, "idle")
  /\ UNCHANGED <<dsema_value, dsema_group_waiters, wsema, listVars, localVars,
                 countVars, crashed>>

(* if (value == orig) _dispatch_group_wake(dsema).                         *)
NotifyCheck(t) ==
  /\ Running(t, "nt_check")
  /\ Goto(t, IF dsema_value = DsemaOrig THEN "wk_head" ELSE "idle")
  /\ UNCHANGED <<dsema_value, dsema_group_waiters, wsema, listVars, localVars,
                 countVars, crashed>>

-----------------------------------------------------------------------------
Next ==
  \E t \in Threads :
    \/ GroupEnter(t) \/ GroupLeave(t)
    \/ WakeHead(t) \/ WakeTail(t) \/ WakeWaiters(t) \/ WakeSignal(t)
    \/ WakeAsync(t) \/ WakeNext(t)
    \/ GroupWait(t) \/ WaitSlowAgain(t) \/ WaitSlowInc(t) \/ WaitSlowCheck(t)
    \/ WaitSlowTimedWake(t) \/ WaitSlowTimedOut(t) \/ WaitSlowUndo(t)
    \/ WaitSlowNoUndo(t) \/ WaitSlowDrain(t)
    \/ NotifyAppend(t) \/ NotifyLink(t) \/ NotifyRetain(t) \/ NotifyHead(t)
    \/ NotifyCheck(t)

Spec == Init /\ [][Next]_vars

(* Every step of an operation in progress is weakly fair (preemptive      *)
(* threads are always scheduled again); the kernel wait is strongly fair  *)
(* since other waiters may take the token first.  A client that entered    *)
(* the group eventually leaves it (the contract of dispatch_group_enter). *)
(* Starting an enter, a wait or a notify is the client's choice: not fair. *)
InProgress(t) ==
  \/ WakeHead(t) \/ WakeTail(t) \/ WakeWaiters(t) \/ WakeSignal(t)
  \/ WakeAsync(t) \/ WakeNext(t)
  \/ WaitSlowAgain(t) \/ WaitSlowInc(t) \/ WaitSlowCheck(t)
  \/ WaitSlowTimedOut(t) \/ WaitSlowUndo(t) \/ WaitSlowNoUndo(t)
  \/ NotifyLink(t) \/ NotifyRetain(t) \/ NotifyHead(t) \/ NotifyCheck(t)

Fairness ==
  /\ \A t \in Threads :
       /\ WF_vars(InProgress(t))
       /\ SF_vars(wsema > 0 /\ (WaitSlowDrain(t) \/ WaitSlowTimedWake(t)))
  /\ WF_vars(\E t \in Threads : GroupLeave(t))

FairSpec == Spec /\ Fairness

-----------------------------------------------------------------------------
TypeOK ==
  /\ dsema_value \in LongMin..LongMax
  /\ dsema_group_waiters \in Nat /\ wsema \in Nat
  /\ notify_head \in NodeOrNil /\ notify_tail \in NodeOrNil
  /\ dsn_next \in [Nodes -> NodeOrNil]
  /\ allocated \subseteq Nodes /\ freed \subseteq allocated
  /\ delivered \in Seq(Nodes)
  /\ emptied \in [Nodes -> BOOLEAN]
  /\ grefs \in Int
  /\ pc \in [Threads -> PCs]
  /\ dsn \in [Threads -> NodeOrNil] /\ prev \in [Threads -> NodeOrNil]
  /\ head \in [Threads -> NodeOrNil] /\ tail \in [Threads -> NodeOrNil]
  /\ rval \in [Threads -> Nat]
  /\ timeout \in [Threads -> Timeouts \cup {"FOREVER"}]
  /\ crashed \in BOOLEAN
DeliveredNodes == {delivered[i] : i \in DOMAIN delivered}

(* No thread touches a freed notification node: the appending thread's    *)
(* prev->dsn_next = dsn (semaphore.c:567) and the drainer's reads of       *)
(* head->dsn_* (430-437) never follow the drainer's free(head) (438).      *)
NoUseAfterFree ==
  \A t \in Threads :
    /\ pc[t] = "nt_link" => prev[t] \notin freed
    /\ pc[t] \in {"wk_async", "wk_next"} => head[t] \notin freed

(* Each notification is submitted at most once, and nodes of one list in  *)
(* the order they were linked: a node is never submitted before the node  *)
(* whose dsn_next points to it.                                            *)
NotifyOnceInOrder ==
  /\ \A i, j \in DOMAIN delivered : delivered[i] = delivered[j] => i = j
  /\ \A i \in DOMAIN delivered : \A n \in Nodes :
       dsn_next[n] = delivered[i] => \E j \in 1..(i - 1) : delivered[j] = n

(* The reference on dg that notify takes for a new list (semaphore.c:569) *)
(* is released only once, by the wake that drains that list (440): the     *)
(* count of such references never goes below zero, which would release     *)
(* the client's own reference.                                            *)
GroupRefsHeld == grefs >= 0

(* spec.md 4.3: a notification runs once all enters have been matched by  *)
(* leaves.  A node is submitted only if dsema_value has been equal to      *)
(* dsema_orig at some point since it was registered.                      *)
NotifyAfterEmpty == \A i \in DOMAIN delivered : emptied[delivered[i]]

(* Once clients have left the group as often as they entered it, every    *)
(* registered notification is eventually submitted: none is stranded on    *)
(* the list by a wake that races the append (semaphore.c:414-417, 565-573). *)
AllNotified == <>[](allocated \subseteq DeliveredNodes)

(* A thread in dispatch_group_wait eventually returns: the registration in *)
(* dsema_group_waiters and the re-check (474-478) leave no window in which *)
(* the last leave's wake misses it.                                        *)
WaitersReturn == \A t \in Threads : pc[t] \in WaitPCs ~> pc[t] = "idle"

(* An unbalanced dispatch_group_leave is fatal, never a silent wrap of    *)
(* dsema_value (semaphore.c:451-453).                                      *)
UnbalancedLeaveCrashes == nLeaves > nEnters => crashed
=============================================================================
