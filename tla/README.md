# TLA+ models of libdispatch semaphores and groups

This directory holds TLA+ models of `src/src/semaphore.c` (libdispatch's
counting semaphore, dispatch group and per-thread cached semaphore), of the
Win32 main-thread shim `src/src/shims/pthread_main_np.c` with the
`internal.h` helpers it uses, and the TLC configurations that check them.

## 1. Inventory

### Components

| Component | Source | State | Operations |
|---|---|---|---|
| Platform semaphore shim | `semaphore.c:97-248` | kernel semaphore count per handle; the handle pointer itself, created lazily by CAS | `_dispatch_platform_semaphore_create/dispose/signal/wait`, `_dispatch_semaphore_create_handle`; the wait's timeout conversion and interruption loop per back end (`semaphore.c:184-248`, `PlatformWait.tla`) |
| Counting semaphore | `semaphore.c:67-95, 250-385` | `dsema_value`, `dsema_orig`, `dsema_sent_ksignals`, `dsema_handle` | `dispatch_semaphore_create`, `dispatch_semaphore_signal` (+ `_signal_slow`), `dispatch_semaphore_wait` (+ `_wait_slow`), `_dispatch_semaphore_dispose` |
| Dispatch group | `semaphore.c:387-585` | same struct: `dsema_value` (starts at `LONG_MAX`), `dsema_orig`, `dsema_group_waiters`, `dsema_waiter_handle`, `dsema_notify_head/tail`, notification nodes with `dsn_next` | `dispatch_group_create`, `_enter`, `_leave`, `_wait` (+ `_wait_slow`), `_notify_f`, `_dispatch_group_wake` |
| Thread-cached semaphore | `semaphore.c:587-640`, `shims/tsd.h` | one TSD slot (`dispatch_sema4_key`) per thread; on Win32 the key table `__dispatch_tls_keys` and the TLS indexes behind it (`tsd.h:71-154`) | `_dispatch_get_thread_semaphore`, `_dispatch_put_thread_semaphore`, `_dispatch_thread_semaphore_signal/wait/dispose`, `_dispatch_thread_key_create`, thread-exit destructors |
| Atomics shim | `shims/atomic.h` | none | `dispatch_atomic_inc/dec/xchg/cmpxchg`: the models treat each as one atomic step. `cmpxchg`'s result is read per build: a flag with GCC, the old value with MSVC (`Atomics` in `Semaphore.tla`) |
| Main-thread shim (Win32) | `shims/pthread_main_np.c:31-124`, `internal.h:431-452` | `thread_info` (found once), `_main_thread_info` (`handle`, `id`) | `_find_main_thread_id` / `pthread_main_np`, `_dispatch_set_main_thread`, `_dispatch_is_main_thread`, `dispatch_close_handle`, `dispatch_assume(_handle)` |
| Other shims | `getprogname.h`, `malloc_zone.h`, `sleep.h`, rest of `internal.h` | none of interest | platform plumbing, not modelled (`DISPATCH_CRASH`/`DISPATCH_CLIENT_CRASH` are the `crashed` flag) |

### How they interact

All client threads share one `dispatch_semaphore_s`. The fast paths are single
atomic increments/decrements of `dsema_value`; only when a thread must block or
wake a blocked thread does it go to the platform shim. Because a Mach
semaphore may wake spuriously (comment at `semaphore.c:322`), signallers also
bump `dsema_sent_ksignals` and a woken waiter only returns after claiming one of
those by CAS. A timed-out waiter must undo its fast-path decrement by CAS, or —
if a signaller got there first — drain the kernel signal that is on its way.

A group is the same struct with `dsema_orig = LONG_MAX`: `enter` is a
semaphore wait, `leave` an increment that runs `_dispatch_group_wake` when the
value returns to `orig`. `_dispatch_group_wake` swaps out the lock-free
notification list (head, then tail), swaps `dsema_group_waiters` to 0, signals
the waiter handle that many times and submits every notification, spinning
on a `dsn_next` that a concurrent `notify` has not yet written.

### Hard behaviours

* every operation runs concurrently with every other, with no lock;
* non-atomic read-then-act sequences (`value == orig` checks in `group_wait`
  and `group_notify`, head/tail swaps in `group_wake`);
* spurious kernel wake-ups and stale kernel tokens;
* deadline timeouts racing a signal (undo-or-drain);
* wrap-around of `long` on unbalanced `signal`/`leave`.
* build variants: the MSVC branch of `shims/atomic.h` gives CAS results a
  different meaning from the GCC branch the callers were written for.

### Properties that make each component correct

* Semaphore: no successful wait without a unit (initial value or signal);
  every thread inside the slow path is matched by a pending signal or one unit
  of negative value; a timed-out wait returns its decrement; a signaller never
  touches the object without a waiter that keeps it alive; no unit is left
  unclaimed while a thread sleeps forever (liveness).
* Group: waiters return only when the group has been empty; every
  notification is submitted exactly once, in registration order; a
  notification is submitted only after the group was empty following its
  registration; an unbalanced `leave`
  crashes rather than wraps.
* Thread cache: at most one cached handle per thread, no handle leaked or
  disposed while in use; a handle goes back to the cache unsignalled.
* Main-thread shim: the snapshot walk finds the earliest-created thread of
  the process and closes every handle it opened; only the registered thread
  is told it is main; a second registration crashes (these two are not
  modelled, see Not modelled).

## 2. Plan

1. `Semaphore.tla` — counting semaphore with the kernel semaphore inlined
   (each platform call is a step of the calling thread), spurious wake-ups
   bounded by `MaxSpurious`. `MCSemaphore.tla` + cfgs. **(done)**
2. `SemaphoreAbstract.tla` — what a counting semaphore promises (a unit
   count; waits take a unit or time out; FOREVER waits never time out), and
   `Semaphore` shown to implement it by a refinement mapping. **(done)**
3. `Group.tla` — enter/leave/wait/notify/wake with the lock-free notification
   list and the waiter handle; runs for notification delivery, order and
   waiter wake-up; a violation run for the stale-wake notification.
   **(done)**
4. `ThreadSemaphore.tla` — the per-thread cache. **(done)**
5. Handle lifetime in `Semaphore.tla`: the `_dispatch_semaphore_create_handle`
   CAS race, `retain/release` around `_signal_slow`, and
   `_dispatch_semaphore_dispose` (crash if `value < orig`). **(done)**
6. `MainThreadFind.tla` — the snapshot walk of the Win32 main-thread shim.
   **(done)** The registration functions are not modelled (see Not modelled).
7. `PlatformWait.tla` — `_dispatch_platform_semaphore_wait` on Mach, POSIX
   and Win32 with a clock: timeout conversion, kernel interruptions and the
   re-arm loop; a violation run for the Win32 DWORD conversion. **(done)**
8. TSD key creation and thread-exit destructors in `ThreadSemaphore.tla`.
   **(done)**
9. Later: a group refinement (an abstract group of outstanding enters,
   waiters and notifications); handle lifetime in `Group.tla`.

## 3. Modules and runs

### Modelling conventions

Every thread of a module has a program counter `pc[t]`. An action is one
atomic step of the code: one `dispatch_atomic_*` operation, or one read of
shared state together with the local branch it decides. Where the C code
reads a field and then acts on it later, the model splits the two, so TLC
interleaves other threads in between. `long` fields wrap at `LongBits` bits
(`Wrap`, the 2's-complement addition of `dispatch_atomic_add`), so `LONG_MIN`
and `LONG_MAX` are reachable with a few calls. A kernel semaphore is a
token count. A kernel wait takes a token, or returns spuriously at most
`MaxSpurious` times per run (the Mach behaviour that the comments at
`semaphore.c:322` and `:471` describe). Client calls are bounded by named
constants (`MaxSignals`, `MaxWaits`, `MaxEnters`, `MaxGroupWaits`).

### `Semaphore.tla` — counting semaphore (`semaphore.c:67-385`)

| Definition | Code |
|---|---|
| `dsema_value`, `dsema_sent_ksignals`, `ksema` | the struct fields, and the kernel count of `dsema_handle` |
| `SemaphoreSignal` | `dispatch_semaphore_signal`: the increment, the `LONG_MIN` crash, or entry to `_signal_slow` |
| `SignalSlowSent`, `SignalSlowKernel` | `_signal_slow`: the `dsema_sent_ksignals` increment, then the kernel signal |
| `SemaphoreWait` | `dispatch_semaphore_wait`: the decrement, and entry to `_wait_slow` if the result is negative (timeout chosen by `\E`) |
| `WaitSlowAgain`, `WaitSlowClaim` | the loop that claims a sent signal (`again:`): the read of `orig`, then the CAS, which loops back on failure |
| `KernelWake`, `WaitSlowTimedWake`, `WaitSlowTimedOut` | the platform wait with a deadline |
| `WaitSlowUndo`, `WaitSlowUndoCas`, `WaitSlowNoUndo`, `WaitSlowDrain` | the undo loop (the read of `orig` while it is negative, then the CAS to `orig + 1`), or the FOREVER drain of a signal on its way |
| `GccCmpxchg`, `MsvcCmpxchg`, `CasTrue` | what a caller's `if (dispatch_atomic_cmpxchg(...))` sees: the success flag of `__sync_bool_compare_and_swap` (GCC), or the old value that `_InterlockedCompareExchange` returns (MSVC), selected by the constant `Atomics` |
| `SwitchTimeout` | the `switch (timeout)` choice |
| `CreateHandle`, `InstallHandle`, `PlatformCreate`, `PlatformDispose` | `_dispatch_semaphore_create_handle`: create a kernel semaphore into `tmp[t]`, CAS it into `dsema_handle`, and the loser disposes its own (`SignalSlowHandle/Install`, `WaitSlowHandle/Install` are the two call sites) |
| `SignalSlowRelease`, `ClientRelease`, `Release`, `SemaphoreDispose` | the `_dispatch_release` at the end of `_signal_slow`, a client dropping its reference, and `_dispatch_semaphore_dispose` on the last release (client crash if `value < orig`, otherwise the handle is destroyed) |

Object lifetime is not in `src/` (`_dispatch_retain/release` live in the
object layer), so `refs`, `holds`, `Release`, `ClientRelease` and `MaySignal`
are modelled from the spec: every client holds one reference; `_signal_slow`
retains before its kernel signal (`semaphore.c:289-297`); a thread may call
`signal` while it holds a reference, or while some waiter in the slow path
keeps the object alive. `kstate[h]` tracks each kernel handle as unused,
live or destroyed.

The three CAS sites (`semaphore.c:114`, `:326`, `:351`) write only when the
target holds the expected value, in both builds. What differs is the result
the caller branches on. With GCC, a failed CAS sends the loop back to read
again, so the split into read and CAS shows that the loops are correct under
every interleaving. With MSVC, the result is the old value, which is non-zero
for every handle and for every negative `orig`.

`SemaphoreAbstract.tla` is what the semaphore promises: a unit count; a wait
takes a unit or, if it is not FOREVER, times out; a signal adds a unit.
`ImplementsAbstract` maps `count` to `max(value,0) + sent_ksignals + the
signallers between their increment and their sent_ksignals increment`. A
thread is `waiting` while it is in the slow path, and `signalling` between its
increment and the end of `_signal_slow`.

### `Group.tla` — dispatch group (`semaphore.c:387-585`)

| Definition | Code |
|---|---|
| `GroupEnter`, `GroupLeave` | `dispatch_group_enter/leave` (a leave from `orig-1` to `orig` starts a wake; a wrap to `LONG_MIN` crashes) |
| `WakeHead`, `WakeTail`, `WakeWaiters`, `WakeSignal` | `_dispatch_group_wake`: the head and tail swaps, the `group_waiters` swap, and one kernel signal per waiter |
| `WakeAsync`, `WakeNext` | the submit loop: submit the node, spin while `dsn_next` is NULL and the node is not the tail, free the node, and release the group at the end |
| `GroupWait`, `WaitSlowAgain`, `WaitSlowInc`, `WaitSlowCheck` | `dispatch_group_wait`, and the check / register / re-check of `_wait_slow` |
| `WaitSlowTimedWake` … `WaitSlowDrain` | the timed wait, and the undo or drain of `group_waiters` |
| `NotifyAppend`, `NotifyLink`, `NotifyRetain`, `NotifyHead`, `NotifyCheck` | `dispatch_group_notify_f`: the tail swap; then a link from the previous node, or the group retain (`:569`), then the head xchg (`:570`), as separate steps; then the `value == orig` check |

Ghost variables record what the properties need: `allocated`/`freed` nodes,
the sequence `delivered` of submitted nodes, `emptied` (notifications
registered when the group was last empty), and `grefs` (group references
taken by `notify`).

### `MainThreadFind.tla` — `_find_main_thread_id` (`pthread_main_np.c:41-96`)

The Toolhelp snapshot is an input: `Init` takes any sequence of up to
`MaxEntries` entries, each recording which of the per-entry checks succeed
(size, owner, `OpenThread`, `GetThreadTimes`) and the creation time (0 means
unknown). `FindStart` resets the result and takes the snapshot (which may
fail); `FindEntry` is the three `goto next` checks and `OpenThread`;
`FindTimes` is `dispatch_assume(GetThreadTimes(...))` and the comparison at
`:78`; `FindNext` closes the thread handle and moves on; `FindOut` closes the
snapshot. `CloseHandle`, `Assume` and `AssumeHandle` are the `internal.h`
helpers; `nOpen` counts open handles and `bugs` records `_dispatch_bug`
reports. `MainThreadOf` is the reference definition: the first entry, among
those with the smallest known creation time.

### `ThreadSemaphore.tla` — per-thread cache (`semaphore.c:587-640`, `shims/tsd.h`)

`slot[t]` is the TSD value of `dispatch_sema4_key`. `GetThreadSemaphore`
takes the cached handle or creates one, and hands it to a signaller:
`owed[h]` counts the signals still to come to handle `h`, and
`ThreadSemaphoreSignal` delivers one whenever its signaller gets to it.
`WaitAndPut` is the FOREVER wait followed by `_dispatch_put_thread_semaphore`,
which caches the handle and disposes the displaced one. Both are local to the
borrowing thread, so a signal between them is the same as one after them.
`KernelWaitReturns` is how that wait returns: it takes a token, or, on Mach,
`semaphore_wait` returns `KERN_SUCCESS` spuriously while blocked (the
comment at `semaphore.c:322`), at most `MaxSpurious` times. The POSIX and
Win32 FOREVER waits only return with a token.

Before any thread runs, `ThreadKeyCreate` models the Win32
`_dispatch_thread_key_create` (`tsd.h:80-101`) for the six keys of
`tsd.h:71-76`: `TlsAlloc` hands out the lowest free index (`TlsCapacity` of
them), and the first free entry of `__dispatch_tls_keys` (`MaxTlsSlots`
entries) gets `tls_index + 1`. A failed `TlsAlloc` or a full table crashes.
`ThreadExit(t)` runs the TSD destructors (`tsd.h:138-154`): a cached handle
is disposed and the slot cleared, and `Holders` counts only live threads.
`KeysInstalled` checks that distinct keys get distinct entries and distinct
non-zero indexes (a zero would read as "not created"), and that a crash happens
only when the process really ran out of indexes.

### `PlatformWait.tla` — the kernel wait (`semaphore.c:168-248`)

One thread makes calls to `_dispatch_platform_semaphore_wait`. Each call
passes `FOREVER` or an absolute deadline. Another thread signals. `now` is a
clock in nanoseconds, and `Tick` advances it. A call first *arms* the kernel
wait: `MachArm`, `PosixArm` or `Win32Arm` computes the expiry the kernel will
use, from the clock at that moment. Mach recomputes `_dispatch_timeout` and
splits it into `tv_sec`/`tv_nsec`. POSIX passes the absolute deadline. Win32
passes `(DWORD)(nsec / NSEC_PER_MSEC)`, which is `Win32Msec` modulo
`2^DwordBits`, and a count equal to `INFINITE` waits forever.
`KernelReturn` picks an outcome the kernel may give: success when the count is
positive, timeout once the expiry has passed, or an interruption
(`KERN_ABORTED`, `EINTR`; not on Win32, bounded by `MaxAborts`). After an
interruption the loop re-arms (`wpc = "rearm"`). `_dispatch_timeout` is
declared in `internal.h` but defined outside `src/`, so `DispatchTimeout` is
modelled from its contract (spec_modelled).

`NoEarlyTimeout`: a call reports a timeout only for a deadline that has
passed, up to the timer's resolution (one millisecond on Win32).
`ArmedWithinDeadline`: an armed wait never expires after the deadline, which a
timeout reused across an interruption would. `DeadlineWaitReturns`: a deadline
wait returns, however often it is interrupted.

### Runs

| Run | Checks | Result |
|---|---|---|
| `sem_safety` | `WaitersAccounted`: every thread in the slow path is matched by a sent signal, a signaller in flight, or one unit of negative value (a signal that wrapped to `LONG_MIN` without the crash would break it). `NoUseAfterFree`: the object is never disposed while a thread is inside a semaphore call. `HandlesAccounted`: a kernel semaphore is live exactly when it is the installed handle of a live object or some thread's uninstalled `tmp` (no leak on a lost CAS, no double dispose) | pass, ~5.1M states |
| `sem_live` | `NoWaiterLeftBehind`: the system always reaches a state where no thread sleeps while a unit is unclaimed. `ObjectReclaimed`: once every client has released, the object is disposed (or the client crashed). `ImplementsAbstract`: every step is a step of `SemaphoreAbstract` (so no wait succeeds without a unit, and FOREVER waits never time out) | pass, ~184k states |
| `group_list` | `NoUseAfterFree` (the wake never reads a freed node); `NotifyOnceInOrder` (each notification is submitted once, in registration order); `GroupRefsHeld` (the group reference taken for a new list is never released before it is taken); `UnbalancedLeaveCrashes` (one leave too many crashes rather than wrapping) | pass, ~357k states |
| `group_wait` | `WaitersReturn`: every `group_wait` returns once enters and leaves balance, despite timeouts and a spurious wake-up | pass |
| `group_notify` | `AllNotified`: every registered notification is eventually submitted | pass |
| `thread_sema` | `HandlesOwnedOnce` (each handle is cached, borrowed once, or disposed, never two of these, also across thread exit and a spurious kernel return); `KeysInstalled` (distinct TSD keys get distinct table entries and non-zero TLS indexes) | pass, ~3.5k states |
| `thread_sema_mach` | `CachedUnsignalled` | **violation**: on Mach a FOREVER wait that returns spuriously puts its handle back in the TSD cache before its signal arrives; the late signal leaves a token on the cached handle, so the next borrower's wait returns at once |
| `platform_wait` | `NoEarlyTimeout`, `ArmedWithinDeadline`, `DeadlineWaitReturns` on all three back ends, with interruptions | pass, ~7.8k states |
| `main_find` | `FindsMainThread`: the walk returns `MainThreadOf(snapshot)` for every snapshot of up to two entries; `HandlesClosed`: every handle opened is closed, whichever `goto` each entry takes | pass, ~86k states |
| `group_notify_stale` | `NotifyAfterEmpty` | **violation**: a late `_dispatch_group_wake` submits a notification that was registered after a newer `enter` (see PROJECT.json findings) |
| `sem_msvc` | `HandlesAccounted` | **violation**: built with the MSVC branch of `shims/atomic.h`, the first thread to install the kernel semaphore reads its successful CAS (old value NULL) as a lost race and destroys the handle it has just installed |
| `platform_wait_win32` | `NoEarlyTimeout` | **violation**: on Win32 a deadline further away than `2^32` ms wraps in the DWORD conversion and the wait times out early; a count that lands on `0xFFFFFFFF` waits forever |

Each property of a passing run has a mutant in PROJECT.json. A mutant is a
plausible bug in the mapped code: a dropped `LONG_MIN` crash, a skipped
re-check, a dropped spin, a missing retain, or a displaced handle that is
never disposed. TLC
finds each mutant's property violated.

### Bounds

Three threads are enough for every race the code has: a waiter, a signaller
(or leaver) and a third thread that changes state between a read and the
action taken on it, as in the stale-wake trace. A 3-bit `long` lets
`dispatch_semaphore_signal` and `dispatch_group_leave` reach `LONG_MIN`. The
liveness and refinement runs use 8 bits, because wrapping is checked in the
safety runs. With two or three notification nodes the list is appended to
while a wake walks it. One spurious wake-up exercises every retry path. The
group safety run has no waiters because waiters and the notification list
interact only through `dsema_value`, which both runs cover. This keeps the
run inside its time limit.

`sem_live` uses two threads: a waiter and a signaller are enough for a lost
wake-up, and with three threads the liveness check does not finish.
`sem_msvc` uses one waiter and one signaller: the first install of the handle
is enough.
The refinement is checked in the same run, with `Orig = 0`. The group liveness
runs need three threads: with two, both threads can enter and then wait on
the group, a client deadlock that no leave can end. `main_find` enumerates
every snapshot of up to two entries, with creation times 0..2, so ties, unknown
times and every skip path occur.

`platform_wait` scales time down: `NSEC_PER_MSEC = 2`, `NSEC_PER_SEC = 4`
and a 3-bit DWORD. The deadlines 1 and 3 fall inside the DWORD range, a
clock of 0..4 lets a deadline pass while a wait is armed or interrupted, and
two calls and one signal give success, timeout and interruption on each back
end. `platform_wait_win32` uses the deadline 16, which is `2^DwordBits`
milliseconds away and so wraps to 0. `thread_sema` creates the six keys of
`tsd.h` with the real table size (6) and 8 TLS indexes, so the lowest-free
allocation is exercised but the table does not overflow; it allows one
spurious return, which `HandlesOwnedOnce` must survive. `thread_sema_mach`
needs only one borrow per thread and two handles for the late signal. With
`MaxSpurious = 0` (the POSIX and Win32 builds) `CachedUnsignalled` holds.

### Fairness

Weak fairness applies to every step of an operation in progress. A thread
that has started a call keeps running, and the code has no locks to starve
on. The kernel wait has strong fairness: `_dispatch_platform_semaphore_create`
creates Mach semaphores with `SYNC_POLICY_FIFO` (`semaphore.c:127`), so a
thread that waits while a token keeps reappearing gets one. `GroupLeave` is
weakly fair under the client contract that every enter is matched by a
leave. Starting a new call is never fair: clients may stop. For that reason,
and because a FOREVER wait may legitimately block forever, the configs set
`CHECK_DEADLOCK FALSE`. The liveness properties say which stops are correct.

In `PlatformWait`, `Tick` is weakly fair (time passes), each arm step is
weakly fair, and so is a kernel return that is not an interruption: the kernel
returns a wait once its timeout has passed or a token is there. Interruptions
are bounded and never forced.

### Not modelled

* Lazy handle creation and object disposal in `Group.tla`, where the waiter
  handle is modelled as existing from the start (they are modelled in
  `Semaphore.tla`).
* The create retry loops of `_dispatch_platform_semaphore_create`
  (`semaphore.c:120-150`): creation is one step that succeeds. The Win32 loop
  crashes on the first failure anyway (below).
* Debug output (`_dispatch_semaphore_debug`) and the other shims
  (`getprogname`, `malloc_zone`, `sleep` (only ever `sleep(1)` in the retry loops), the Linux `pthread_main_np`,
  which is a syscall compare). They hold no concurrent state.
* The queue layer that hands thread semaphores between threads. Only its
  calling pattern is modelled.
* `_dispatch_set_main_thread` and `_dispatch_is_main_thread`
  (`pthread_main_np.c:101-125`): nothing under `src/` calls them. What
  reading them shows is listed below.
* `Group.tla` keeps GCC's reading of the CAS; the MSVC branch is shown on the
  semaphore, whose CAS sites are the same.

### Code bugs found by reading

* `internal.h:447-452`: `_dispatch_assume_handle` reports a bug when the
  handle is *valid*, the opposite of `_dispatch_assume`. So every successful
  `CreateToolhelp32Snapshot` in `_find_main_thread_id` is logged, and a failed
  one is not. `AssumeHandle` models this as written.
* `pthread_main_np.c:36-39` and `:101-104` define `struct _main_thread_info_s`
  twice with different members, so the Win32 branch does not compile as
  written. The models treat the two as separate structs (`thread_info` and
  `_main_thread_info`).
* `pthread_main_np.c:106-118`: `_dispatch_set_main_thread` should crash when
  a second thread calls it, but it tests only the handle, with plain reads
  and writes. If `OpenThread` failed for the first caller, the handle stays
  NULL and a later caller from another thread registers without a crash. Two
  first callers can also both see a NULL handle before either stores it.
  The header declares it `bool` (`pthread_main_np.h:28`); the `.c` defines it
  `void`.
* `semaphore.c:140-146`: the Win32 `_dispatch_platform_semaphore_create`
  loop has `VERIFY_RET(sema != NULL)` inside it, so the first failed
  `CreateSemaphore` crashes. The `sleep(1)` retry never runs, contrary to the
  "retrying with backoff" of spec.md.
* `semaphore.c:216`: the POSIX branch of `_dispatch_platform_semaphore_wait`
  has no `{` after `if (timeout == DISPATCH_TIME_FOREVER)`, so it does not
  compile as written. `PosixArm` models the evident intent.
* `malloc_zone.h:60` reads `return return HeapReAlloc(...)`, which is also a
  compile error.
* `semaphore.c:474`: a group waiter woken spuriously goes back to `again`
  and increments `dsema_group_waiters` a second time, although its first
  registration was never taken. The count then exceeds the threads parked, and
  the next wake signals the handle once too often. The stale token costs a
  later waiter one more pass through `again`. `WaitersReturn` (`group_wait`,
  with one spurious wake-up) shows that no waiter is lost.
* `shims/atomic.h:101-106`: under MSVC `dispatch_atomic_cmpxchg` returns the
  old value, not a success flag (the `sem_msvc` run). The undo loop has the
  same flaw. If another wait moves `dsema_value` from -1 to -2 between the read of `orig`
  and the CAS, the CAS fails but reads as success. The waiter then returns the
  timeout with its decrement still in place. `sem_safety`'s config with
  `Atomics = "msvc"` finds `WaitersAccounted` violated in 9 states that way.
  The group's loop at `semaphore.c:500` has the same shape.
