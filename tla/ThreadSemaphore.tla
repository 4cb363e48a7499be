--------------------------- MODULE ThreadSemaphore ---------------------------
(***************************************************************************)
(* The per-thread cached semaphore of src/src/semaphore.c (587-640): each  *)
(* thread keeps at most one platform semaphore in its TSD slot             *)
(* dispatch_sema4_key.  The queue layer borrows one with                   *)
(* _dispatch_get_thread_semaphore, hands it to another thread that signals *)
(* it, waits on it, and returns it with _dispatch_put_thread_semaphore.    *)
(* Borrows nest (a synchronous call made while one is pending), up to      *)
(* MaxDepth deep.  Handles are numbered in creation order.  Before any     *)
(* thread runs, library init creates the TSD keys (on Win32 a table of      *)
(* DISPATCH_MAX_TLS_SLOTS entries, shims/tsd.h:80-101); a thread that exits *)
(* runs the keys' destructors (tsd.h:138-154), which dispose its cached    *)
(* semaphore.                                                              *)
(***************************************************************************)
EXTENDS Integers, Sequences, FiniteSets, SequencesExt

CONSTANTS
  Threads,      \* threads owning a TSD slot
  MaxDepth,     \* bound: nesting of borrowed semaphores per thread
  MaxHandles,   \* bound: platform semaphores created in total
  Nil,          \* the NULL value of an empty TSD slot
  NKeys,        \* the library's TSD keys (tsd.h:71-76 declare six)
  MaxTlsSlots,  \* DISPATCH_MAX_TLS_SLOTS
  TlsCapacity,  \* TLS indexes TlsAlloc can hand out
  MaxSpurious   \* bound: spurious returns of a FOREVER kernel wait (0 but
                \* on Mach, see the comment at semaphore.c:322)

Handles == 1..MaxHandles
ASSUME Nil \notin Handles

Keys == 1..NKeys
Sema4Key == 2          \* dispatch_sema4_key, the second key declared
TlsSlots == 0..MaxTlsSlots - 1
NoSlot == -1

VARIABLES
  slot,       \* slot[t]: the TSD value of dispatch_sema4_key in thread t
  borrowed,   \* borrowed[t]: handles t holds, innermost last
  owed,       \* owed[h]: signals handed-out handle h has still to get
  tokens,     \* tokens[h]: count of the platform semaphore h
  created,    \* number of handles created so far
  disposed,   \* handles passed to _dispatch_thread_semaphore_dispose
  exited,     \* exited[t]: thread t has exited
  tls_keys,   \* _dispatch_tls_keys[i].tls_index_plus_one (0: free entry)
  keyOf,      \* keyOf[k]: the table entry of key k, or NoSlot
  nextTls,    \* the TLS index TlsAlloc returns next (the lowest free one)
  crashed,    \* DISPATCH_CRASH("Out of tsd indexes")
  nSpurious   \* spurious kernel returns so far

tsdVars == <<tls_keys, keyOf, nextTls, crashed>>
waitVars == <<owed, tokens, nSpurious>>
vars == <<slot, borrowed, waitVars, created, disposed, exited, tsdVars>>

Init ==
  /\ slot = [t \in Threads |-> Nil]
  /\ borrowed = [t \in Threads |-> <<>>]
  /\ owed = [h \in Handles |-> 0]
  /\ tokens = [h \in Handles |-> 0]
  /\ created = 0
  /\ disposed = {}
  /\ exited = [t \in Threads |-> FALSE]
  /\ tls_keys = [i \in TlsSlots |-> 0]
  /\ keyOf = [k \in Keys |-> NoSlot]
  /\ nextTls = 0
  /\ crashed = FALSE
  /\ nSpurious = 0

\* Every key exists: library init has finished.
KeysCreated == \A k \in Keys : keyOf[k] # NoSlot

\* Mutant: the table loop stops one entry short.
FreeEntriesShort == {i \in TlsSlots : i < MaxTlsSlots - 1 /\ tls_keys[i] = 0}

\* The entries the loop of _dispatch_thread_key_create may take.
FreeEntries == {i \in TlsSlots : tls_keys[i] = 0}

(* _dispatch_thread_key_create on Win32, for the next key of library init: *)
(* TlsAlloc, then the first free table entry gets tls_index + 1; out of    *)
(* TLS indexes or of table entries, it crashes.                            *)
ThreadKeyCreate ==
  LET k == CHOOSE j \in Keys : keyOf[j] = NoSlot /\ \A l \in Keys : keyOf[l] = NoSlot => j <= l
      tls_index == nextTls
  IN /\ ~KeysCreated /\ ~crashed
     /\ nextTls' = nextTls + 1
     /\ IF tls_index >= TlsCapacity \/ FreeEntries = {}
          THEN crashed' = TRUE /\ UNCHANGED <<tls_keys, keyOf>>
          ELSE LET i == CHOOSE e \in FreeEntries : \A f \in FreeEntries : e <= f
               IN /\ tls_keys' = [tls_keys EXCEPT ![i] = tls_index + 1]
                  /\ keyOf' = [keyOf EXCEPT ![k] = i]
                  /\ UNCHANGED crashed
     /\ UNCHANGED <<slot, borrowed, waitVars, created, disposed, exited>>

\* A thread runs once the keys exist, until it exits.
Running(t) == KeysCreated /\ ~exited[t]

(* _dispatch_get_thread_semaphore: take the cached handle and clear the    *)
(* slot, or create a new platform semaphore if the slot is empty.  The     *)
(* borrower hands the handle to the thread that will signal it once.       *)
GetThreadSemaphore(t) ==
  /\ Running(t) /\ Len(borrowed[t]) < MaxDepth
  /\ IF slot[t] # Nil
       THEN /\ borrowed' = [borrowed EXCEPT ![t] = Append(@, slot[t])]
            /\ owed' = [owed EXCEPT ![slot[t]] = @ + 1]
            /\ slot' = [slot EXCEPT ![t] = Nil]
            /\ UNCHANGED created
       ELSE /\ created < MaxHandles
            /\ created' = created + 1
            /\ borrowed' = [borrowed EXCEPT ![t] = Append(@, created + 1)]
            /\ owed' = [owed EXCEPT ![created + 1] = @ + 1]
            /\ UNCHANGED slot
  /\ UNCHANGED <<tokens, nSpurious, disposed, exited, tsdVars>>

(* _dispatch_thread_semaphore_signal by the thread a handle was handed to, *)
(* whenever that thread gets to it: the kernel count goes up by one.       *)
ThreadSemaphoreSignal ==
  \E h \in Handles :
    /\ owed[h] > 0
    /\ owed' = [owed EXCEPT ![h] = @ - 1]
    /\ tokens' = [tokens EXCEPT ![h] = @ + 1]
    /\ UNCHANGED <<slot, borrowed, nSpurious, created, disposed, exited,
                   tsdVars>>

(* The return of the FOREVER _dispatch_platform_semaphore_wait             *)
(* (semaphore.c:189-198, 214-218, 232-236): it takes a token, or on Mach   *)
(* semaphore_wait returns KERN_SUCCESS spuriously (the comment at          *)
(* semaphore.c:322) while it is blocked, the count at 0, and the count is  *)
(* left alone.                                                             *)
KernelWaitReturns(h) ==
  \/ /\ tokens[h] > 0
     /\ tokens' = [tokens EXCEPT ![h] = @ - 1]
     /\ UNCHANGED nSpurious
  \/ /\ tokens[h] = 0 /\ nSpurious < MaxSpurious
     /\ nSpurious' = nSpurious + 1
     /\ UNCHANGED tokens

(* Mutant: the displaced handle is overwritten and never disposed.        *)
WaitAndPutLeak(t) ==
  LET h == Last(borrowed[t]) IN
  /\ Running(t) /\ borrowed[t] # <<>>
  /\ KernelWaitReturns(h)
  /\ borrowed' = [borrowed EXCEPT ![t] = Front(@)]
  /\ slot' = [slot EXCEPT ![t] = h]
  /\ UNCHANGED <<owed, created, disposed, exited, tsdVars>>

(* _dispatch_thread_semaphore_wait on the innermost borrowed handle, then  *)
(* _dispatch_put_thread_semaphore: it stores the handle in the slot and    *)
(* disposes the handle that was cached before, if any.  Both are local to  *)
(* the thread; a signal between them is the same as one after them.       *)
WaitAndPut(t) ==
  LET h == Last(borrowed[t]) IN
  /\ Running(t) /\ borrowed[t] # <<>>
  /\ KernelWaitReturns(h)
  /\ borrowed' = [borrowed EXCEPT ![t] = Front(@)]
  /\ slot' = [slot EXCEPT ![t] = h]
  /\ disposed' = IF slot[t] # Nil THEN disposed \cup {slot[t]} ELSE disposed
  /\ UNCHANGED <<owed, created, exited, tsdVars>>

(* A thread exits between calls.  Its TSD destructors run                 *)
(* (_dispatch_call_tsd_destructors on Win32, pthread itself elsewhere):   *)
(* for dispatch_sema4_key, whose destructor is                            *)
(* _dispatch_thread_semaphore_dispose, a non-NULL value is cleared and    *)
(* disposed.                                                              *)
ThreadExit(t) ==
  /\ Running(t) /\ borrowed[t] = <<>>
  /\ exited' = [exited EXCEPT ![t] = TRUE]
  /\ IF slot[t] # Nil
       THEN /\ slot' = [slot EXCEPT ![t] = Nil]
            /\ disposed' = disposed \cup {slot[t]}
       ELSE UNCHANGED <<slot, disposed>>
  /\ UNCHANGED <<borrowed, waitVars, created, tsdVars>>

Next ==
  \/ ThreadKeyCreate
  \/ ThreadSemaphoreSignal
  \/ \E t \in Threads :
       \/ GetThreadSemaphore(t)
       \/ WaitAndPut(t)
       \/ ThreadExit(t)

Spec == Init /\ [][Next]_vars

-----------------------------------------------------------------------------
\* The places where handle h is held: a live thread's slot, or a position in
\* a borrow stack.
Holders(h) ==
  {<<t, 0>> : t \in {u \in Threads : slot[u] = h /\ ~exited[u]}}
    \cup UNION {{<<t, j>> : j \in {i \in DOMAIN borrowed[t] : borrowed[t][i] = h}}
                : t \in Threads}

(* Every platform semaphore created is, at any time, exactly one of:       *)
(* cached in one live thread's slot, borrowed once by one thread, or       *)
(* disposed; so no handle leaks (not even when its thread exits), none is  *)
(* disposed while in use (semaphore.c:637-638                              *)
(* disposes only the handle displaced from the slot), and none is handed   *)
(* to two borrowers.                                                       *)
HandlesOwnedOnce ==
  \A h \in 1..created :
    IF h \in disposed THEN Holders(h) = {} ELSE Cardinality(Holders(h)) = 1

(* A handle that goes back to the cache is unsignalled, so the next        *)
(* borrower's wait blocks until its own signal (spec.md 4.4).              *)
CachedUnsignalled == \A t \in Threads : slot[t] # Nil => tokens[slot[t]] = 0

(* Library init gives each of its keys its own table entry and its own     *)
(* TLS index, so a thread's dispatch_sema4_key value is never another      *)
(* key's: the entry stores tls_index + 1 because 0 marks a free entry and  *)
(* TlsAlloc may return index 0.  A crash during init is TLS exhaustion,    *)
(* never a table too small for the library's own keys.                     *)
KeysInstalled ==
  /\ KeysCreated =>
       \A k, l \in Keys : k # l =>
         /\ keyOf[k] # keyOf[l]
         /\ tls_keys[keyOf[k]] # 0 /\ tls_keys[keyOf[k]] # tls_keys[keyOf[l]]
  /\ crashed => nextTls > TlsCapacity
=============================================================================
