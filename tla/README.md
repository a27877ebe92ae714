# TLA+ models of the ERTS process locks

These models cover `src/erts/emulator/beam/erl_process_lock.c`, the lock
implementation behind `erts_proc_lock()` and `erts_proc_unlock()`, together
with `erts_proc_safelock()` and `erts_pid2proc_opt()`.

## The system

Every process has a set of locks, numbered `0 .. ERTS_PROC_LOCK_MAX_BIT`
(main, msgq, btm, status, trace, ...). The lock number is the lock order, and
locks of different processes are ordered by lock number first, then by pid.
The own implementation (`ERTS_PROC_LOCK_OWN_IMPL`) has these parts:

- **Lock word.** `p->lock.flags` holds one lock bit and one wait bit per lock.
  The fast paths are in `erl_process_lock.h`, which is not part of these
  sources:
  - lock: an atomic OR, or a cmpxchg, that succeeds when none of the locks is
    taken;
  - unlock: a cmpxchg that clears the locks that have no waiters.
  Everything else goes to the slow paths in the C file.
- **Wait queues.** `p->lock.queue[i]` is a ring of sleeping threads per lock,
  served from the head (`enqueue_waiter`, `dequeue_waiter`).
- **Pix locks.** `erts_pix_locks[]` are spinlock stripes. The stripe a process
  hashes to protects its queues and every change to its wait bits.
- **Acquire slow path.** `erts_proc_lock_failed()` spins:
  - `in_order_locks()` gives the needed locks below the lowest busy one;
  - a cmpxchg grabs them;
  - the spin budget is spent only while nothing can be grabbed.
  When the budget runs out, `wait_for_locks()` runs `try_aquire()` under the
  pix lock. That takes the free locks in order until the first busy one, then
  sets its wait bit and enqueues the thread. The thread sets `uaflgs = 1` and
  sleeps until `uaflgs` is 0 again.
- **Release slow path.** `erts_proc_unlock_failed()` and `transfer_locks()`
  work under the pix lock. For each waited lock they:
  1. dequeue the head waiter;
  2. give it the lock;
  3. `try_aquire()` the waiter's remaining locks;
  4. push the waiter on a wake list if it now has everything.
  Then they clear the wait bits of the emptied queues, release the pix lock
  and wake the list.
- **Safelock.** `proc_safelock()` lets a thread that holds some locks of two
  processes get to holding other locks of both without deadlock:
  - it releases every held lock at or above the first lock it still needs;
  - it takes the locks in runs that follow the global order;
  - an unmanaged thread pins a process by its reference count while it holds
    none of that process's locks.
- **Lookup.** `erts_pid2proc_opt()` looks a pid up in the process table and
  locks the process. It tries a trylock first, falls back to `proc_safelock()`
  with a reference taken, and then re-validates the process.
- **Instrumentation.** Lock counting (`erts_lcnt_*`) and lock checking
  (`erts_proc_lc_*`) exist in debug builds only. The lock checker records
  each process lock a thread holds as (lock order id, pid) and fails on a
  blocking lock taken out of that order. In such a build `erts_pid2proc_opt()`
  forces its trylock to fail when the trylock would break the order
  (line 894).

## Modules

| module | models | state | actions |
|---|---|---|---|
| `ProcLock` | lock word, queues, pix locks, both slow paths, fast paths (from the spec) | `lflgs` (lock and wait bits per process), `queue`, `pix` owner per stripe; per thread `pc`, `need`, `olflgs`, `spin` (of `erts_proc_lock_failed`), `uflgs`/`uaflgs` (of its `erts_tse_t`), `trn`, `unset`, `wake` (of `transfer_locks`); history `holds` | `LockFast`, `LockContended`, `SpinGrab`, `SpinRetry`, `SpinWait`, `SpinGiveUp`, `Park`, `WakeUp`, `UnlockFast`, `UnlockContended`, `UnlockPix`, `TransferLock`, `TransferDone`, `WakeWaiter` |
| `Safelock` | one `proc_safelock()` call | the call's arguments, `p1`/`p2`, `need1/2`, `have1/2`, `unlock_mask`, `lock_no`, `refc1/2`, plus the locks really held and references taken | `Order`, `Unlock1`, `Unlock2`, `LockRun`, `Finish` |
| `TseWake` | the sleep/wake handshake of `wait_for_locks()` and `transfer_locks()` | per sleeper its event object's `next`, `uaflgs` and event (`ev`), `queued`, the `pix` holder, per releaser `wake` and `tmp` | `Park`, `SleepLoop`, `SpuriousWakeup`, `TransferLock`, `TransferRequeue`, `EndTransfer`, `WakeLoop` |
| `Pid2Proc` | `erts_pid2proc_opt()` and `proc_lookup_inc_refc()`, against the life of the processes they find | the table (`slot`, one entry per slot of `SlotOf`), per process `pstate` (unborn, running, exiting, deleted, released, freed), `refc` (including the table's reference), `owner` per lock, `pending` (threads whose progress the table's reference waits for); per thread `pc`, `pid`, `needL`, `flags`, `proc`, `delayed` (unmanaged delay handle), `decRefc` (`dec_refc_proc`), `cp`, `have`, `pneed` (`c_p`, `c_p_have_locks`, `pid_need_locks`), `net` (references taken by the call), `calls` | threads: `Start`, `Trylock`, `Safelock`, `Revalidate`, `DecRefc`, `LookupIncRefc`, `Release` (the caller); the process: `Spawn`, `EnvLock`, `EnvUnlock`, `Exit`, `Delete`, `DropTableRef`, `Free` |
| `InOrderLocksBits` | `in_order_locks()` on machine words | the arguments `inUse` (lock and wait flags), `needLocks` | every argument pair is initial; a step flips one flag |
| `ProcLockFifo` | what the locks promise: per lock an owner and a FIFO queue | `owner`, `waitq` | `Take`, `Release`, `Handover` |
| `MCProcLock`, `MCProcLock2`, `MCSafelock`, `MCPid2Proc` | TLC instances | | |

**Granularity in `ProcLock`.**
- Each atomic operation on the lock word is one step.
- A pix-lock critical section that reads and writes the lock word in one pass
  is one step. Examples: `Park`, which is `try_aquire()` plus setting
  `uaflgs`, and `TransferDone`.
- `transfer_locks()` is one step per transferred lock. The pix lock stays
  held between those steps, so the lock-free fast paths of other threads
  interleave with the transfer, as they do in the code.
- The caller's lock and unlock calls are nondeterministic. They respect the
  lock order that the lock checker enforces (`InLockOrder`): a thread only
  asks for locks above everything it holds.

**Spec-modelled definitions.** The header's fast paths (`LockFast`,
`UnlockFast`, `UnlockContended`) are modelled from the spec, as is the lock
order (`Before`, `InLockOrder`). The spec describes the lock fast path as a
bitwise OR of the locks followed by a check of the old value. Read literally,
that would set lock bits the caller does not get. The model takes the
documented outcome instead: the lock fast path succeeds exactly when none of
the locks is taken, and otherwise changes nothing and enters the slow path.

**`Safelock`.** Each `erts_proc_lock()` or `erts_proc_unlock()` call made by
safelock is modelled by its effect on the locks the thread holds (`held`).
Blocking and hand-over are `ProcLock`'s part. `Init` ranges over every
argument tuple `erts_proc_safelock()` can be given:
- `have ⊆ need` on each process;
- `b_proc` equal to `a_proc` or not;
- `a_proc` NULL or not;
- managed or unmanaged.

**`TseWake`.** Each thread's `erts_tse_t` is fetched again at its next
wait, and its `next` field is both the wait-queue link (`enqueue_waiter`) and
the wake-list link of `transfer_locks()`. So once the wake loop clears a
thread's `uaflgs`, the thread may return, lock again and be queued, which
rewrites `next`. The model keeps exactly that: queues as a set whose
`enqueue_waiter()` may rewrite the `next` of the new waiter and of a queued
tail, one step per transferred lock under the pix lock (hand-over onto the
wake list, or re-queueing by `try_aquire()`), and the wake loop's three
statements as three steps. The event (`erts_tse_set/reset/wait`, in the
ethread library) is a flag that stays set until reset; a wait may also
return spuriously.

**`Pid2Proc`.** The steps follow the code's sections:
- `Start`: the `c_p` case (if `c_p` is the pid: NULL when it is exiting,
  `c_p` itself when the caller already holds every lock asked for, else
  `need_locks` without `c_p_have_locks`), then the unmanaged delay, the read
  of the table slot, the pid check, and the `need_locks == 0` reference
  (lines 847-881);
- `Trylock`: `erts_proc_raw_trylock__()`, all or nothing, and on failure
  either `ERTS_PROC_LOCK_BUSY` (`TRY_LOCK`) or the blocking path's
  references, the end of the delay and `dec_refc_proc` (882-956); in a
  lock checking build (`lcBuild`, chosen at start from `LcBuilds`) it also counts as busy when
  `LcForceBusy` holds (`erts_proc_lc_trylock_force_busy()`, 1398-1421): the
  first needed lock would come before the last lock the thread holds in
  the checker's order (`LcLock`, `LcBefore`, `LcHeld`);
- `Safelock`: `proc_safelock()`. Entering it unlocks the locks of `c_p` at or
  after the lowest needed lock in the global order (`SafelockReleased`,
  lines 600-706; with `c_p` above the pid in the order that includes its main
  lock); it then takes `need_locks` and those locks back, possibly much later
  (955-963). Its lock runs are `Safelock`'s part, its blocking `ProcLock`'s;
- `Revalidate`, `DecRefc`: the re-check, the unlock and the reference drop
  (968-997).
`SlotOf` maps pids to table slots: with one shared slot a later process
reuses the slot of a deleted one; with a slot each, a scheduler's own process
`c_p` and the one it looks up are in the table together. A scheduler runs its
process with the main lock held (`CallerLocks`); only managed threads pass a
`c_p` (`CallerProcs`). The table's reference is dropped only after every thread that was in a
managed or delayed region at the deletion has left it (`pending`): the
thread-progress guarantee the code relies on. The process itself (`Env`)
takes its main lock while running, and takes all locks to exit and to leave
the table, as `erts_do_exit_process()` does. A process runs on one scheduler
at a time, so while a thread runs it as `c_p` no other scheduler takes its
main lock (`EnvLock` is not enabled for it). The flag sets a caller may pass
are the constant `CallFlags`. Each thread makes at most
`MaxCalls` lookups; then the system stops (`Terminating`).

**`ProcLockFifo` and the refinement.** `ProcLock` defines `OwnerOf` (the
thread holding a lock, or the releaser handing it over) and
`Fifo == INSTANCE ProcLockFifo WITH owner <- OwnerOf, waitq <- queue`.
The property `FifoRefinement == Fifo!Spec` says every step of the lock code is
a step of the abstract lock or changes neither owners nor queues: a fast lock
is a `Take`, `Park` is a `Take` that queues, a fast unlock is a `Release`, and
each `TransferLock` is a `Handover` to the head of the queue whose receiver
may at once take and queue further (`try_aquire()`).

## Runs

| run | module / cfg | bounds | checks |
|---|---|---|---|
| `core_safety` | `MCProcLock` / `MCProcLock.cfg` | 1 process, 3 locks, 3 threads, 1 stripe; spin budgets 1, 1, 0 | `TypeOK`, `LockOwnership`, `WaitFlagParity`, `SleeperAccounted`, `InOrderAcquisition`, no deadlock (2.7M states) |
| `core_liveness` | `MCProcLock` / `MCProcLockLive.cfg` | same, 2 locks | `LockReturns` under `FairSpec` |
| `two_procs` | `MCProcLock2` / `MCProcLock2.cfg` | 2 processes sharing a stripe, 2 locks each, 3 threads | `LockOwnership`, `WaitFlagParity`, `SleeperAccounted`, `InOrderAcquisition` across processes, no deadlock |
| `safelock` | `MCSafelock` / `MCSafelock.cfg` | pids {1,2} or NULL, 4 locks, every argument tuple | `TypeOK`, `SafelockResult`, `LockOrder`, `PinnedWhileUnlocked` |
| `safelock_spec_unlock_mask` | `MCSafelock` / `MCSafelockSpec.cfg` | same | `ReleasesOnlyBelowNeeded`, expected to be violated |
| `in_order_locks_bits` | `InOrderLocksBits` / `MCInOrderLocksBits.cfg` | 5 locks, 30-bit word, all 32,768 argument pairs | `InOrderLocksCorrect` |
| `core_fifo_refinement` | `MCProcLock` / `MCProcLockFifo.cfg` | as `core_safety`, spin budgets 0 (1.0M states) | `FifoRefinement` |
| `pid2proc` | `MCPid2Proc` / `MCPid2Proc.cfg` | a managed and an unmanaged thread with `c_p` NULL, pids {1,2} on one slot, 2 locks, 1 call each (8.0M states) | `TypeOK`, `NoUseAfterFree`, `ReturnedLive` |
| `pid2proc_refc_leak` | `MCPid2Proc` / `MCPid2ProcRefc.cfg` | same | `RefcBalanced`, expected to be violated |
| `pid2proc_caller` | `MCPid2Proc` / `MCPid2ProcSched.cfg` | two schedulers, each with `c_p` one of two processes on their own slots, 2 locks, 1 call each, plain and `INC_REFC` lookups, both builds (527K states) | `ReturnedLive`, `RefcBalanced`, `LockCheckOrder`, `LookupReturns` under `FairSpec` |
| `tse_wake_safety` | `TseWake` / `MCTseWake.cfg` | 3 sleepers, 2 releasers (7.2M states) | `WakeAccounted` |
| `tse_wake_liveness` | `TseWake` / `MCTseWakeLive.cfg` | 2 sleepers, 2 releasers | `WokenUp` under `FairSpec` |

What the properties say:

- `LockOwnership`: every lock has at most one owner, and its lock bit is set
  exactly when it has one. An owner is a thread that holds the lock, or a
  releaser in the middle of handing it over.
- `WaitFlagParity`: the debug `check_queue()`. A non-empty queue means the
  lock is taken. Outside a pix critical section, the wait bit is set exactly
  when the queue is non-empty.
- `SleeperAccounted` (no lost wakeup): a queued thread is asleep. A sleeper
  that still needs locks is in exactly one queue, the one for its lowest
  missing lock. A sleeper that needs nothing has been woken (`uaflgs = 0`),
  or is on some releaser's wake list.
- `InOrderAcquisition`: a thread in the lock code never holds a lock of the
  process above one it still waits for. Otherwise two threads could each wait
  on the other.
- `LockReturns`: every lock call that entered the slow path eventually
  returns. This covers FIFO hand-over and the absence of starvation and
  livelock.
- `SafelockResult`: when `proc_safelock()` returns, the thread holds exactly
  the requested locks and has dropped every reference it took.
- `LockOrder`: every lock safelock takes is above, in the global order, every
  lock the thread holds at that moment.
- `PinnedWhileUnlocked`: an unmanaged thread that holds none of a process's
  locks during the call holds a reference to that process.
- `InOrderLocksCorrect`: the bit arithmetic (`busy & -busy`,
  `lowest_busy - 1`, wrapping) gives exactly the needed locks below every
  busy needed lock, all needed locks when none is busy, and never a wait flag.
- `FifoRefinement`: see above; it includes that waiters are served in queue
  order and that no waited lock is ever free.
- `NoUseAfterFree`: whenever the lookup dereferences a process (trylock,
  safelock, re-validation, the reference drop) or returns one to a caller
  that is protected (a managed thread, locks held, or a reference), that
  process has not been freed. It depends on the thread-progress delay and on
  the reference the unmanaged thread takes before it ends the delay.
- `ReturnedLive`: on return the caller holds exactly `c_p_have_locks` on its
  own process (although `proc_safelock()` may have released them meanwhile)
  and `pid_need_locks` on the process returned; that process is still in the
  table, and is not exiting when the main lock was asked for without
  `ERTS_P2P_FLG_ALLOW_OTHER_X`.
- `RefcBalanced`: a finished call has taken exactly one reference net if it
  returns a process with `ERTS_P2P_FLG_INC_REFC`, and none otherwise. It
  holds for scheduler threads (`pid2proc_caller`) and fails for unmanaged
  ones (`pid2proc_refc_leak`).
- `LockCheckOrder` (an action property): every lock a lookup blocks for,
  and in a lock checking build every lock it takes at all, comes after each
  lock the thread holds in the checker's order (lock number, then pid). That
  includes the locks of `c_p` that `proc_safelock()` keeps. It fails if the
  unlock mask keeps `c_p`'s lock at the lowest needed number whatever the pid
  order, and if the forced busy check compares with the first held lock
  instead of the last.
- `LookupReturns`: every `erts_pid2proc_opt()` call returns. With two
  schedulers, each running one process and looking up the other's, each
  holds its own main lock and may ask for the other's. `proc_safelock()`
  breaks the cycle: the caller with the higher pid gives up its main lock.
  If the unlock mask kept the lock at the lowest needed number whatever the
  pid order, the two would wait for each other forever.
- `WakeAccounted`: a thread with `uaflgs` 1 is asleep and in exactly one
  wait queue or one releaser's pending wake list; with `uaflgs` 0 it is in
  none. The wake loop reads `wake->next` before it clears `uaflgs`
  (line 351). In the other order the woken thread could re-queue first, and
  the releaser would then follow the rewritten `next` into a wait queue.
- `WokenUp`: every thread that sleeps in `wait_for_locks()` returns. The
  event is reset before `uaflgs` is read (line 442). In the other order a
  wake-up between the read and the reset would be erased, and the thread
  would wait forever.

**Why the bounds are enough.**
- Three locks let a waiter be queued on one lock, get it by transfer, and
  then be re-queued on a higher lock by `try_aquire()`. They also let
  `in_order_locks()` stop below a busy lock with a free lock above it.
- Three threads give a holder, a waiter and a third thread that races the
  transfer through the fast path.
- A spin budget of 0 covers the single-CPU configuration
  (`proc_lock_spin_count = 0`). A budget of 1 covers spinning, giving up, and
  the reset after progress.
- Two processes on one stripe exercise the stripe sharing that
  `ERTS_PID2PIXLOCK` allows.
- Four locks and two pids give safelock every shape of interleaved needs
  between the two processes.
- `in_order_locks()` only reads the low `2 * (ERTS_PROC_LOCK_MAX_BIT + 1)`
  bits and only borrows through them, so a 30-bit word (TLC's integers hold
  no more) behaves as the 32-bit one; five locks is the real lock count.
- The FIFO refinement uses spin budget 0: spinning only changes when a thread
  parks, and every abstract step is still reached (1.0M states in under 3
  minutes; budget 1 takes over 9).
- `TseWake`: three sleepers and two releasers let a woken thread re-queue
  behind another waiter while a third is still on a wake list, and two wake
  lists exist at once; liveness runs on two sleepers, where a lost wake-up
  already shows.
- `Pid2Proc`: two pids on one slot give slot reuse; two locks let the process
  hold the main lock while a lookup wants another; one call per thread
  already reaches every path, including the exit and deletion racing a
  blocked lookup, and keeps the count of references bounded.

- `pid2proc_caller`: with a slot each, `c_p` can be either above or below
  the looked-up pid, which selects whether `proc_safelock()` releases the
  caller's main lock. Two schedulers make the case where each holds the
  lock the other wants. The unmanaged thread is left out; its paths are
  `pid2proc`'s. The run covers both builds. In the lock checking build, a
  held `c_p` lock above the first needed lock forces the safelock path even
  when the locks are free. The flags are limited to a plain lookup and one
  with `ERTS_P2P_FLG_INC_REFC`; `try_lock` and `allow_other_x` are checked in
  `pid2proc`. With three locks the run does not finish in ten
  minutes. Two locks already reach every mutant of the
  run's properties.

**Fairness.**
- `WF` on each thread's steps: a running thread keeps executing its code.
- `SF` on a successful cmpxchg and on taking the pix spinlock: each can be
  disabled again and again by other threads, and the hardware eventually lets
  a contender through.
- `SF` on a caller releasing all its locks of a process: every critical
  section ends. This is the callers' obligation, not the lock code's.
- Callers are never obliged to lock anything.
- `TseWake`: `WF` on each sleeper's loop and each releaser's steps. `SF` on
  handing each queued waiter its locks: that is `LockReturns`, checked on
  `ProcLock`. Parking and spurious wake-ups are never owed.
- `Pid2Proc` (`FairSpec`): `WF` on each step of a call in progress and on the
  caller's `Release`: a thread in a lookup keeps running it, and a caller
  unlocks what it got. `SF` on `Safelock`: it blocks until its locks are
  free together, and other threads may take them again and again. `WF` on a
  process's scheduler unlocking it. Starting a call, and a process's life
  cycle, are never owed.

**Mutants.** Every property of a passing run is shown to fail under a
mutant of the code it is about. See `mutants` in `PROJECT.json`: a dropped
held-check in `try_aquire`, a missing wake, wait bits left set, `in_order_locks` ignoring the lowest busy lock,
serving the ring's tail, spinning once too often, the safelock scan
releasing below instead of above, pinning after the unlock test, a run end
one too far, a missing `lock_no--`, `in_order_locks` keeping the lowest
busy lock too, a transfer to the tail of the queue, an unmanaged lookup that
does not pin before ending its delay, a re-validation that never rejects,
one that always drops the reference, an unlock mask that ignores the pid
order (it breaks both `LockCheckOrder` and `LookupReturns`), a forced busy
check against the first held lock, a `c_p` exit check left out, and a
safelock that does not retake `c_p`'s released locks.

## Findings

- **spec/code divergence (`safelock_spec_unlock_mask`).**
  - Spec §4.6 step 3 says safelock releases the held locks strictly below
    the lowest needed lock.
  - The code (`unlock_mask`, lines 688-698) releases those at or above it.
  - The code is the one that keeps the lock order, which the `safelock` run
    checks with `LockOrder`. TLC's trace: a thread holding lock 1 of p1 and
    needing {0,1,2} releases lock 1.

- **code bug (`pid2proc_refc_leak`).**
  - An unmanaged thread calls `erts_pid2proc_opt()` with
    `ERTS_P2P_FLG_INC_REFC`, finds the lock busy and takes two references:
    one for the flag (line 935) and one to pin the process after leaving its
    delay (line 943, remembered in `dec_refc_proc`).
  - While it blocks in `proc_safelock()`, the process exits and leaves the
    table. Re-validation fails and line 981 sets `dec_refc_proc = proc`
    again, so line 987 drops one reference and NULL is returned.
  - The second reference belongs to nobody: the process is never freed.
    TLC's trace ends with the call returned and `refc` of the process at 2
    (the table's and the leaked one).

## Not modelled, and the plan

1. `erts_proc_raw_trylock__` and the trylock path of `erts_proc_lock_failed`
   against `ProcLock`'s lock word (in `Pid2Proc` it is one atomic step).
2. Composing `Pid2Proc` with `ProcLock`, so that the blocking lookup waits in
   the real queues.
3. The unlock fast path of `erl_process_lock.h` as a read followed by a
   cmpxchg. It is one atomic step here, so the race at line 256 between it
   and `try_aquire()` setting a wait flag cannot occur in the model. No
   property covers that hazard, nor the two others that atomic steps hide:
   a cmpxchg that never wins (`LockReturns` assumes it eventually does) and
   `proc_lookup_inc_refc()` ending its delay before taking its reference.

These parts are left out on purpose:
- In `ProcLock` the event object is left out: a sleeper waits on `uaflgs`
  directly. `TseWake` models the event and the `next` field, separately.
  `tse_fetch()`, `tse_return()` and `cleanup_tse()` only fetch and return the
  calling thread's own object.
- The spin-count tuning of `erts_init_proc_lock()`.
- `erts_proc_lock_fin()`, which has no state.
- Lock counting (`erts_lcnt_*`): profiling statistics that the locking
  never reads. From lock checking, the `require`/`unrequire`/`might_unlock`
  bookkeeping and the `erts_proc_lc_chk_*` assertions: they only record into
  or compare against the checker's state in `erl_lock_check.c`, outside
  `src/`. `check_queue()` is a hard-debug assertion of the ring whose
  content the wait-queue properties already state.
