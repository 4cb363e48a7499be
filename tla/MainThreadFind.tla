---------------------------- MODULE MainThreadFind ----------------------------
(***************************************************************************)
(* _find_main_thread_id of src/src/shims/pthread_main_np.c (Win32): walk a *)
(* Toolhelp snapshot of the system's threads and take, among the threads  *)
(* of this process whose creation time can be read, the one created       *)
(* first.  pthread_main_np runs it once and compares the result with the  *)
(* calling thread.  The snapshot is an input: a sequence of entries, each *)
(* saying which of the per-entry checks succeed and what the thread's     *)
(* creation time is.  Every Win32 call is one step of the single thread   *)
(* that runs the walk (dispatch_once runs it exactly once).               *)
(***************************************************************************)
EXTENDS Naturals, Sequences, SequencesExt

CONSTANTS
  Tids,         \* Win32 thread ids (non-zero)
  MaxTime,      \* creation times are 0..MaxTime (0: unknown)
  MaxEntries    \* bound: length of the snapshot

ASSUME 0 \notin Tids

\* A snapshot entry: dwSize large enough to hold th32OwnerProcessID, owned by
\* this process, OpenThread succeeds, GetThreadTimes succeeds, creation time.
Entries == [sizeOk : BOOLEAN, own : BOOLEAN, openOk : BOOLEAN,
            timesOk : BOOLEAN, ctime : 0..MaxTime, tid : Tids]

\* UINT64_MAX, the initial creation_time: above every creation time.
UintMax == MaxTime + 1

VARIABLES
  snapshot,      \* the entries Thread32First/Thread32Next return
  spc,           \* where the walk is
  i,             \* the current entry
  snap_ok,       \* CreateToolhelp32Snapshot returned a valid handle
  thread_handle, \* OpenThread's handle for the current entry, or 0 (NULL)
  nOpen,         \* handles opened and not yet closed
  thread_id,     \* main_thread_info->thread_id
  creation_time, \* main_thread_info->creation_time
  bugs           \* _dispatch_bug reports: the assumption and whether it held

vars == <<snapshot, spc, i, snap_ok, thread_handle, nOpen, thread_id, creation_time,
          bugs>>

Init ==
  /\ snapshot \in BoundedSeq(Entries, MaxEntries)
  /\ spc = "start"
  /\ i = 0 /\ snap_ok = FALSE /\ thread_handle = 0 /\ nOpen = 0
  /\ thread_id = 0 /\ creation_time = 0
  /\ bugs = {}

(* _dispatch_assume_handle(line, x): reports a bug when x is a valid       *)
(* handle (internal.h:448-452), i.e. when the assumption holds.            *)
AssumeHandle(at, valid) ==
  bugs' = IF valid THEN bugs \cup {[at |-> at, held |-> TRUE]} ELSE bugs

(* _dispatch_assume(line, x): reports a bug when x is zero.                *)
Assume(at, ok) ==
  bugs' = IF ok THEN bugs ELSE bugs \cup {[at |-> at, held |-> FALSE]}

(* Reset the result, take the snapshot (which may fail), and go to the     *)
(* first entry; an empty snapshot fails Thread32First.                     *)
FindStart ==
  \E valid \in BOOLEAN :
    /\ spc = "start"
    /\ creation_time' = UintMax /\ thread_id' = 0
    /\ AssumeHandle("CreateToolhelp32Snapshot", valid)
    /\ snap_ok' = valid /\ nOpen' = IF valid THEN 1 ELSE 0
    /\ IF valid /\ snapshot # <<>>
         THEN spc' = "entry" /\ i' = 1
         ELSE spc' = "out" /\ UNCHANGED i
    /\ UNCHANGED <<snapshot, thread_handle>>

(* The entry checks: skip it (goto next) if dwSize is too small, if it is  *)
(* another process's thread or if OpenThread fails; else open the thread.  *)
FindEntry ==
  LET e == snapshot[i] IN
  /\ spc = "entry"
  /\ IF e.sizeOk /\ e.own /\ e.openOk
       THEN /\ thread_handle' = e.tid /\ nOpen' = nOpen + 1
            /\ spc' = "times"
       ELSE /\ thread_handle' = 0 /\ UNCHANGED nOpen
            /\ spc' = "next"
  /\ UNCHANGED <<snapshot, i, snap_ok, thread_id, creation_time, bugs>>

(* Mutant: a creation time equal to the best so far also replaces it.     *)
FindTimesTieReplaces ==
  LET e == snapshot[i] IN
  /\ spc = "times"
  /\ Assume("GetThreadTimes", e.timesOk)
  /\ IF e.timesOk /\ e.ctime # 0 /\ e.ctime <= creation_time
       THEN thread_id' = e.tid /\ creation_time' = e.ctime
       ELSE UNCHANGED <<thread_id, creation_time>>
  /\ spc' = "next"
  /\ UNCHANGED <<snapshot, i, snap_ok, thread_handle, nOpen>>

(* dispatch_assume(GetThreadTimes(...)), then keep the thread if its       *)
(* creation time is known and earlier than the best so far.                *)
FindTimes ==
  LET e == snapshot[i] IN
  /\ spc = "times"
  /\ Assume("GetThreadTimes", e.timesOk)
  /\ IF e.timesOk /\ e.ctime # 0 /\ e.ctime < creation_time
       THEN thread_id' = e.tid /\ creation_time' = e.ctime
       ELSE UNCHANGED <<thread_id, creation_time>>
  /\ spc' = "next"
  /\ UNCHANGED <<snapshot, i, snap_ok, thread_handle, nOpen>>

(* Mutant: the handle is closed without the NULL/INVALID test.            *)
CloseHandleUnchecked(valid) == nOpen' = nOpen - 1

(* dispatch_close_handle(x): a no-op on NULL and INVALID_HANDLE_VALUE.     *)
CloseHandle(valid) == nOpen' = IF valid THEN nOpen - 1 ELSE nOpen

(* Mutant: next: does not close the thread handle.                         *)
FindNextNoClose ==
  /\ spc = "next"
  /\ thread_handle' = 0
  /\ IF i < Len(snapshot) THEN spc' = "entry" /\ i' = i + 1
                          ELSE spc' = "out" /\ UNCHANGED i
  /\ UNCHANGED <<snapshot, snap_ok, nOpen, thread_id, creation_time, bugs>>

(* next: close the thread handle, then Thread32Next.                       *)
FindNext ==
  /\ spc = "next"
  /\ CloseHandle(thread_handle # 0)
  /\ thread_handle' = 0
  /\ IF i < Len(snapshot) THEN spc' = "entry" /\ i' = i + 1
                          ELSE spc' = "out" /\ UNCHANGED i
  /\ UNCHANGED <<snapshot, snap_ok, thread_id, creation_time, bugs>>

(* out: close the snapshot handle (a no-op if it is invalid).              *)
FindOut ==
  /\ spc = "out"
  /\ CloseHandle(snap_ok)
  /\ spc' = "done"
  /\ UNCHANGED <<snapshot, i, snap_ok, thread_handle, thread_id, creation_time, bugs>>

Next == FindStart \/ FindEntry \/ FindTimes \/ FindNext \/ FindOut

Spec == Init /\ [][Next]_vars

-----------------------------------------------------------------------------
TypeOK ==
  /\ snapshot \in BoundedSeq(Entries, MaxEntries)
  /\ spc \in {"start", "entry", "times", "next", "out", "done"}
  /\ i \in 0..MaxEntries /\ snap_ok \in BOOLEAN /\ thread_handle \in Tids \cup {0}
  /\ nOpen \in Nat
  /\ thread_id \in Tids \cup {0} /\ creation_time \in 0..UintMax
  /\ bugs \subseteq [at : {"CreateToolhelp32Snapshot", "GetThreadTimes"}, held : BOOLEAN]

\* The reference definition: the entries whose creation time is known, and
\* the first of those created earliest; 0 if there is none.
Known(e) == e.sizeOk /\ e.own /\ e.openOk /\ e.timesOk /\ e.ctime # 0

MainThreadOf(s) ==
  LET K == {k \in DOMAIN s : Known(s[k])}
      First(k) == \A j \in K : s[k].ctime < s[j].ctime
                                \/ (s[k].ctime = s[j].ctime /\ k <= j)
  IN IF K = {} THEN 0 ELSE s[CHOOSE k \in K : First(k)].tid

(* When the snapshot could be taken, the walk ends with thread_id the     *)
(* first-created thread of this process that it could inspect, as          *)
(* pthread_main_np assumes (pthread_main_np.c:78-81 keep the earliest and,  *)
(* among equal times, the first entry).                                    *)
FindsMainThread ==
  spc = "done" /\ snap_ok =>
    thread_id = MainThreadOf(snapshot)

(* Every handle the walk opens (the snapshot and each OpenThread) is       *)
(* closed by the time it returns, whichever goto each entry takes.         *)
HandlesClosed == spc = "done" => nOpen = 0
=============================================================================
