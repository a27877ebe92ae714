------------------------------ MODULE Pid2Proc ------------------------------
(***************************************************************************)
(* erts_pid2proc_opt() and proc_lookup_inc_refc() of erl_process_lock.c:   *)
(* turning a pid into a process pointer, optionally with some of its locks *)
(* held, while the process may exit, be deleted from the process table and *)
(* be freed.  A process structure is freed only when its reference count   *)
(* is 0, which needs the table's own reference dropped, and the table      *)
(* drops it only after thread progress: once every managed thread that was *)
(* inside an operation, and every unmanaged thread inside a delay region   *)
(* (erts_thr_progress_unmanaged_delay), at the deletion has left it.       *)
(*                                                                         *)
(* Pids hash to table slots (SlotOf); pids that share a slot let a later  *)
(* process reuse the slot of a deleted one.  A scheduler thread may call on behalf of the process it runs  *)
(* (c_p), holding its main lock and maybe more.  Locking is atomic:         *)
(* how erts_proc_lock() blocks is ProcLock's part, shown to refine a FIFO  *)
(* lock; here a lock call completes when all its locks are free.  The      *)
(* process life cycle (spawn, exit, table deletion, free), done by code     *)
(* outside this file, is modelled from the spec as the environment Env.    *)
(***************************************************************************)
EXTENDS Integers, FiniteSets

CONSTANTS
  Threads,   \* threads calling erts_pid2proc_opt()
  Managed,   \* the scheduler threads among them (thread progress managed)
  Pids,      \* process incarnations, in spawn order (numbers)
  NFacets,   \* ERTS_PROC_LOCK_MAX_BIT + 1
  NoProc,    \* NULL
  Busy,      \* ERTS_PROC_LOCK_BUSY
  Env,       \* the lock holder that is not one of Threads: the process itself
  NoOwner,
  MaxCalls,  \* bound: lookups each thread makes
  CallerProcs,\* the c_p a managed thread may pass (NoProc for NULL)
  SlotOf,    \* the table slot (pix) of each pid
  CallFlags, \* the flag sets callers pass
  LcBuilds   \* the builds: with ERTS_ENABLE_LOCK_CHECK (TRUE) or without

ASSUME Managed \subseteq Threads /\ Pids \subseteq Nat /\ MaxCalls \in Nat
ASSUME CallerProcs \subseteq Pids \cup {NoProc} /\ LcBuilds \subseteq BOOLEAN
ASSUME {NoProc, Busy} \cap Pids = {} /\ Env \notin Threads /\ NoOwner \notin Threads

Facets == 0 .. (NFacets - 1)
Slots == {SlotOf[q] : q \in Pids}
MainLock == 0                                  \* ERTS_PROC_LOCK_MAIN
Flags == {"allow_other_x", "try_lock", "inc_refc"}   \* ERTS_P2P_FLG_*
ASSUME CallFlags \subseteq SUBSET Flags
States == {"unborn", "running", "exiting", "deleted", "released", "freed"}

VARIABLES
  slot,      \* the process table: the process in each slot (erts_proc)
  pstate,    \* life cycle of each process structure
  refc,      \* its reference count, the table's reference included
  owner,     \* [Pids -> [Facets -> Threads \cup {Env, NoOwner}]]
  pending,   \* threads the table's reference still waits for
  pc,
  pid, needL, flags,  \* the call's pid, need_locks and flags
  cp, have,  \* the caller's process c_p and c_p_have_locks
  pneed,     \* pid_need_locks (needL is need_locks, without c_p's own)
  proc,      \* proc of erts_pid2proc_opt()
  delayed,   \* dhndl is an unmanaged delay handle not yet continued
  decRefc,   \* dec_refc_proc
  net,       \* history: references the call took minus those it dropped
  calls,     \* lookups made by each thread (bounded by MaxCalls)
  lcBuild    \* this run's build checks locks (fixed at start)

vars == <<slot, pstate, refc, owner, pending, pc, pid, needL, flags, cp, have,
          pneed, proc, delayed, decRefc, net, calls, lcBuild>>
thread == <<pc, pid, needL, flags, cp, have, pneed, proc, delayed, decRefc,
            net, calls>>

PCs == {"idle", "trylock", "safelock", "continue", "dec", "holding"}

\* Managed threads are in an operation for the whole call and while they
\* use its result; unmanaged ones only inside a delay region.
InRegion(t) == IF t \in Managed THEN pc[t] # "idle" ELSE delayed[t]

\* Thread t leaves every pending set it is in (it passed a progress point).
Progressed(t) == [q \in Pids |-> pending[q] \ {t}]

AllFree(q, M) == \A b \in M : owner[q][b] = NoOwner
Take(q, M, t) == [owner EXCEPT ![q] = [b \in Facets |-> IF b \in M THEN t ELSE @[b]]]
Drop(q, M) == [owner EXCEPT ![q] = [b \in Facets |-> IF b \in M THEN NoOwner ELSE @[b]]]
Inc(q) == [refc EXCEPT ![q] = @ + 1]

Exiting(q) == pstate[q] # "running"          \* ERTS_PROC_IS_EXITING

\* The table entry of q's slot is q (erts_pix2proc(pix) == q).
InTable(q) == slot[SlotOf[q]] = q

\* The locks of q thread t holds for the call: c_p_have_locks on c_p, and
\* need_locks on proc.
Want(t, q) == (IF q = cp[t] THEN have[t] ELSE {}) \cup (IF q = proc[t] THEN needL[t] ELSE {})

\* The first of need_locks in lock order.
LowestNeed(t) == CHOOSE b \in needL[t] : \A c \in needL[t] : b <= c

\* Mutant of SafelockReleased: c_p's lock at the lowest needed lock number
\* is kept whatever the pid order.
SafelockReleasedAbove(t) ==
  LET lo == LowestNeed(t)
  IN IF cp[t] \in Pids THEN {b \in have[t] : b > lo} ELSE {}

\* proc_safelock(managed, c_p, have, have, proc, 0, need_locks) first
\* unlocks the locks of c_p at or after the lowest needed lock in the order
\* (lock number, then pid); with c_p = proc both sets are merged.
SafelockReleased(t) ==
  LET lo == LowestNeed(t)
      mask == IF cp[t] < proc[t] THEN {b \in Facets : b > lo}
                                 ELSE {b \in Facets : b >= lo}
  IN IF cp[t] \in Pids THEN have[t] \cap mask ELSE {}

\* The lock checker's lock for lock b of process q: erts_proc_lc_lock()
\* and its kin give it the order id of b (lc_id.proc_lock_*) and the pid
\* as extra.  The checker orders locks by id, then by extra.
LcLock(b, q) == <<b, q>>
LcBefore(x, y) == x[1] < y[1] \/ (x[1] = y[1] /\ x[2] < y[2])

\* The process locks the checker records as held by t.
LcHeld(t) == {LcLock(x[1], x[2]) : x \in {y \in Facets \X Pids : owner[y[2]][y[1]] = t}}

\* Mutant of LcForceBusy: the check compares with the first lock held
\* instead of the last.
LcForceBusyFirst(t) ==
  LET y == LcLock(LowestNeed(t), proc[t])
  IN  lcBuild /\ \E x \in LcHeld(t) :
                  /\ \A z \in LcHeld(t) : z = x \/ LcBefore(x, z)
                  /\ ~LcBefore(x, y)

\* erts_proc_lc_trylock_force_busy(proc, need_locks), in a lock checking
\* build: the trylock is made to fail when the first of need_locks would
\* come before the last lock the thread holds, so that proc_safelock()
\* handles the order.
LcForceBusy(t) ==
  LET y == LcLock(LowestNeed(t), proc[t])
  IN  lcBuild /\ \E x \in LcHeld(t) : ~LcBefore(x, y)

Init ==
  /\ lcBuild \in LcBuilds
  /\ slot = [x \in Slots |-> NoProc]
  /\ pstate = [q \in Pids |-> "unborn"]
  /\ refc = [q \in Pids |-> 0]
  /\ owner = [q \in Pids |-> [b \in Facets |-> NoOwner]]
  /\ pending = [q \in Pids |-> {}]
  /\ pc = [t \in Threads |-> "idle"]
  /\ pid = [t \in Threads |-> NoProc]
  /\ needL = [t \in Threads |-> {}]
  /\ flags = [t \in Threads |-> {}]
  /\ cp = [t \in Threads |-> NoProc]
  /\ have = [t \in Threads |-> {}]
  /\ pneed = [t \in Threads |-> {}]
  /\ proc = [t \in Threads |-> NoProc]
  /\ delayed = [t \in Threads |-> FALSE]
  /\ decRefc = [t \in Threads |-> NoProc]
  /\ net = [t \in Threads |-> 0]
  /\ calls = [t \in Threads |-> 0]

-----------------------------------------------------------------------------
(* erts_pid2proc_opt(c_p, have, id, need, fl).                           *)

\* c_p_have_locks: a scheduler runs its process with the main lock held.
CallerLocks == {hv \in SUBSET Facets : MainLock \in hv}

\* Mutant of SelfExit: the exiting check of the c_p case left out.
SelfExitUnchecked(c, fl) == FALSE

\* c_p is the process looked up, exiting, and that is not allowed.
SelfExit(c, fl) == c \in Pids /\ "allow_other_x" \notin fl /\ Exiting(c)

\* If c_p is the process looked up, return NULL when it is exiting, else
\* c_p itself when the caller holds all the locks asked for.  Otherwise
\* enter a delay region (unmanaged threads), read the table entry and
\* check its pid.  With no locks needed, take the reference asked for.
Start(t, c, hv, id, need, fl) ==
  LET self == c = id
      rest == IF self THEN need \ hv ELSE need
      early == self /\ (SelfExit(c, fl) \/ rest = {})
      found == InTable(id)
      got == CASE early /\ SelfExit(c, fl) -> NoProc
               [] early -> c
               [] found -> id
               [] OTHER -> NoProc
      incNow == got \in Pids /\ rest = {} /\ "inc_refc" \in fl
  IN  /\ pc[t] = "idle" /\ calls[t] < MaxCalls
      /\ c \in Pids => t \in Managed /\ pstate[c] \in {"running", "exiting"}
                       /\ AllFree(c, hv)
      /\ calls' = [calls EXCEPT ![t] = @ + 1]
      /\ pid' = [pid EXCEPT ![t] = id]
      /\ cp' = [cp EXCEPT ![t] = c]
      /\ have' = [have EXCEPT ![t] = hv]
      /\ pneed' = [pneed EXCEPT ![t] = need]
      /\ needL' = [needL EXCEPT ![t] = rest]
      /\ flags' = [flags EXCEPT ![t] = fl]
      /\ owner' = IF c \in Pids THEN Take(c, hv, t) ELSE owner
      /\ delayed' = [delayed EXCEPT ![t] = ~early /\ t \notin Managed]
      /\ decRefc' = [decRefc EXCEPT ![t] = NoProc]
      /\ proc' = [proc EXCEPT ![t] = got]
      /\ refc' = IF incNow THEN Inc(got) ELSE refc
      /\ net' = [net EXCEPT ![t] = IF incNow THEN 1 ELSE 0]
      /\ pc' = [pc EXCEPT ![t] = CASE early -> "holding"
                                   [] found /\ rest # {} -> "trylock"
                                   [] OTHER -> "continue"]
      /\ UNCHANGED <<slot, pstate, pending, lcBuild>>

\* Mutant of Trylock: an unmanaged thread leaves its delay region without
\* a reference of its own.
TrylockNoPin(t) ==
  LET q == proc[t]
      inc == "inc_refc" \in flags[t]
  IN  /\ pc[t] = "trylock"
      /\ ~AllFree(q, needL[t]) /\ "try_lock" \notin flags[t]
      /\ refc' = IF inc THEN Inc(q) ELSE refc
      /\ net' = [net EXCEPT ![t] = IF inc THEN 1 ELSE 0]
      /\ delayed' = [delayed EXCEPT ![t] = FALSE]
      /\ pending' = IF delayed[t] THEN Progressed(t) ELSE pending
      /\ pc' = [pc EXCEPT ![t] = "safelock"]
      /\ UNCHANGED <<owner, proc, decRefc, slot, pstate, pid, needL, flags, cp,
                     have, pneed, calls, lcBuild>>

\* erts_proc_raw_trylock__(): all of need_locks at once or none.  Busy
\* (or forced busy by the lock checker):
\* give up with ERTS_PROC_LOCK_BUSY, or pin the process (inc_refc, and for
\* an unmanaged thread a reference of its own, then leave the delay region)
\* and enter proc_safelock(), which unlocks the locks of c_p it must retake.
Trylock(t) ==
  LET q == proc[t]
      inc == "inc_refc" \in flags[t]
      unmanaged == t \notin Managed
  IN  /\ pc[t] = "trylock"
      /\ IF AllFree(q, needL[t]) /\ ~LcForceBusy(t)
         THEN /\ owner' = Take(q, needL[t], t)
              /\ refc' = IF inc THEN Inc(q) ELSE refc
              /\ net' = [net EXCEPT ![t] = IF inc THEN 1 ELSE 0]
              /\ pc' = [pc EXCEPT ![t] = "continue"]
              /\ UNCHANGED <<proc, delayed, decRefc, pending, lcBuild>>
         ELSE IF "try_lock" \in flags[t]
         THEN /\ proc' = [proc EXCEPT ![t] = Busy]
              /\ pc' = [pc EXCEPT ![t] = "continue"]
              /\ UNCHANGED <<owner, refc, net, delayed, decRefc, pending, lcBuild>>
         ELSE LET k == (IF inc THEN 1 ELSE 0) + (IF unmanaged THEN 1 ELSE 0)
              IN /\ refc' = [refc EXCEPT ![q] = @ + k]
                 /\ net' = [net EXCEPT ![t] = k]
                 /\ decRefc' = [decRefc EXCEPT ![t] = IF unmanaged THEN q ELSE NoProc]
                 /\ delayed' = [delayed EXCEPT ![t] = FALSE]
                 /\ pending' = IF unmanaged THEN Progressed(t) ELSE pending
                 /\ owner' = IF cp[t] \in Pids THEN Drop(cp[t], SafelockReleased(t))
                                             ELSE owner
                 /\ pc' = [pc EXCEPT ![t] = "safelock"]
                 /\ UNCHANGED proc
      /\ UNCHANGED <<slot, pstate, pid, needL, flags, cp, have, pneed, calls, lcBuild>>

\* Mutant of Safelock: the unlocked locks of c_p are not added back to
\* those it takes.
SafelockNoRetake(t) ==
  LET M(q) == IF q = proc[t] THEN {b \in needL[t] : owner[q][b] # t} ELSE {} IN
  /\ pc[t] = "safelock"
  /\ \A q \in Pids : AllFree(q, M(q))
  /\ owner' = [q \in Pids |-> [b \in Facets |-> IF b \in M(q) THEN t ELSE owner[q][b]]]
  /\ pc' = [pc EXCEPT ![t] = "continue"]
  /\ UNCHANGED <<slot, pstate, refc, pending, pid, needL, flags, cp, have, pneed,
                 proc, delayed, decRefc, net, calls, lcBuild>>

\* proc_safelock() takes, in order, need_locks of proc and the locks of c_p
\* it unlocked.
Safelock(t) ==
  LET M(q) == {b \in Want(t, q) : owner[q][b] # t} IN
  /\ pc[t] = "safelock"
  /\ \A q \in Pids : AllFree(q, M(q))
  /\ owner' = [q \in Pids |-> [b \in Facets |-> IF b \in M(q) THEN t ELSE owner[q][b]]]
  /\ pc' = [pc EXCEPT ![t] = "continue"]
  /\ UNCHANGED <<slot, pstate, refc, pending, pid, needL, flags, cp, have, pneed,
                 proc, delayed, decRefc, net, calls, lcBuild>>

\* Mutant of Revalidate: the process is returned without the check.
RevalidateNoCheck(t) ==
  /\ pc[t] = "continue"
  /\ delayed' = [delayed EXCEPT ![t] = FALSE]
  /\ pending' = IF delayed[t] THEN Progressed(t) ELSE pending
  /\ pc' = [pc EXCEPT ![t] = "dec"]
  /\ UNCHANGED <<slot, pstate, refc, owner, pid, needL, flags, cp, have, pneed,
                 proc, decRefc, net, calls, lcBuild>>

\* Mutant of Revalidate: a stale process's reference is dropped whether
\* or not ERTS_P2P_FLG_INC_REFC took one.
RevalidateDropAlways(t) ==
  LET q == proc[t]
      stale == /\ needL[t] # {} /\ q \in Pids
               /\ IF "allow_other_x" \notin flags[t] THEN Exiting(q) ELSE ~InTable(q)
  IN  /\ pc[t] = "continue"
      /\ delayed' = [delayed EXCEPT ![t] = FALSE]
      /\ pending' = IF delayed[t] THEN Progressed(t) ELSE pending
      /\ owner' = IF stale THEN Drop(q, needL[t]) ELSE owner
      /\ proc' = [proc EXCEPT ![t] = IF stale THEN NoProc ELSE q]
      /\ decRefc' = [decRefc EXCEPT ![t] = IF stale THEN q ELSE @]
      /\ pc' = [pc EXCEPT ![t] = "dec"]
      /\ UNCHANGED <<slot, pstate, refc, pid, needL, flags, cp, have, pneed, net, calls, lcBuild>>

\* Leave the delay region if still in it, then re-validate a locked
\* process: exiting (or, with allow_other_x, no longer in the table) means
\* unlock and return NULL, dropping the reference asked for.
Revalidate(t) ==
  LET q == proc[t]
      stale == /\ needL[t] # {} /\ q \in Pids
               /\ IF "allow_other_x" \notin flags[t] THEN Exiting(q) ELSE ~InTable(q)
  IN  /\ pc[t] = "continue"
      /\ delayed' = [delayed EXCEPT ![t] = FALSE]
      /\ pending' = IF delayed[t] THEN Progressed(t) ELSE pending
      /\ owner' = IF stale THEN Drop(q, needL[t]) ELSE owner
      /\ proc' = [proc EXCEPT ![t] = IF stale THEN NoProc ELSE q]
      /\ decRefc' = [decRefc EXCEPT ![t] =
                       IF stale /\ "inc_refc" \in flags[t] THEN q ELSE @]
      /\ pc' = [pc EXCEPT ![t] = "dec"]
      /\ UNCHANGED <<slot, pstate, refc, pid, needL, flags, cp, have, pneed, net, calls, lcBuild>>

\* Drop dec_refc_proc, if any, and return proc.
DecRefc(t) ==
  LET d == decRefc[t] IN
  /\ pc[t] = "dec"
  /\ refc' = IF d # NoProc THEN [refc EXCEPT ![d] = @ - 1] ELSE refc
  /\ net' = [net EXCEPT ![t] = IF d # NoProc THEN @ - 1 ELSE @]
  /\ pc' = [pc EXCEPT ![t] = "holding"]
  /\ UNCHANGED <<slot, pstate, owner, pending, pid, needL, flags, cp, have,
                 pneed, proc, delayed, decRefc, calls, lcBuild>>

\* proc_lookup_inc_refc(): in a delay region, look the pid up and take a
\* reference unless the process is exiting and that is not allowed.
LookupIncRefc(t, id, allow_exit) ==
  LET found == InTable(id) /\ (allow_exit \/ ~Exiting(id))
  IN  /\ pc[t] = "idle" /\ calls[t] < MaxCalls
      /\ calls' = [calls EXCEPT ![t] = @ + 1]
      /\ proc' = [proc EXCEPT ![t] = IF found THEN id ELSE NoProc]
      /\ refc' = IF found THEN Inc(id) ELSE refc
      /\ net' = [net EXCEPT ![t] = IF found THEN 1 ELSE 0]
      /\ pid' = [pid EXCEPT ![t] = id]
      /\ needL' = [needL EXCEPT ![t] = {}]
      /\ flags' = [flags EXCEPT ![t] = {"inc_refc"}]
      /\ pc' = [pc EXCEPT ![t] = "holding"]
      /\ UNCHANGED <<slot, pstate, owner, pending, cp, have, pneed, delayed, decRefc, lcBuild>>

\* The caller is done with the result: unlock and drop its reference.
Release(t) ==
  LET q == proc[t] IN
  /\ pc[t] = "holding"
  /\ owner' = [r \in Pids |-> [b \in Facets |-> IF b \in Want(t, r) THEN NoOwner
                                                               ELSE owner[r][b]]]
  /\ refc' = IF q \in Pids /\ "inc_refc" \in flags[t]
             THEN [refc EXCEPT ![q] = @ - 1] ELSE refc
  /\ pending' = Progressed(t)
  /\ pc' = [pc EXCEPT ![t] = "idle"]
  /\ proc' = [proc EXCEPT ![t] = NoProc]
  /\ pid' = [pid EXCEPT ![t] = NoProc]
  /\ needL' = [needL EXCEPT ![t] = {}]
  /\ flags' = [flags EXCEPT ![t] = {}]
  /\ cp' = [cp EXCEPT ![t] = NoProc]
  /\ have' = [have EXCEPT ![t] = {}]
  /\ pneed' = [pneed EXCEPT ![t] = {}]
  /\ decRefc' = [decRefc EXCEPT ![t] = NoProc]
  /\ net' = [net EXCEPT ![t] = 0]
  /\ UNCHANGED <<slot, pstate, delayed, calls, lcBuild>>

-----------------------------------------------------------------------------
(* The process life cycle, done outside this file.                         *)

\* The next pid is spawned into its free slot, with every lock held by its
\* creator (erts_proc_lock_init()) and the table's reference.
Spawn(q) ==
  /\ slot[SlotOf[q]] = NoProc /\ pstate[q] = "unborn"
  /\ \A r \in Pids : r < q => pstate[r] # "unborn"
  /\ slot' = [slot EXCEPT ![SlotOf[q]] = q]
  /\ pstate' = [pstate EXCEPT ![q] = "running"]
  /\ refc' = [refc EXCEPT ![q] = 1]
  /\ owner' = [owner EXCEPT ![q] = [b \in Facets |-> Env]]
  /\ UNCHANGED <<pending, thread, lcBuild>>

\* The process is scheduled: its scheduler takes the main lock; not while
\* a thread runs it as c_p.
EnvLock(q, b) ==
  /\ pstate[q] \in {"running", "exiting"} /\ b = MainLock
  /\ \A t \in Threads : cp[t] # q
  /\ owner[q][b] = NoOwner
  /\ owner' = [owner EXCEPT ![q][b] = Env]
  /\ UNCHANGED <<slot, pstate, refc, pending, thread, lcBuild>>

EnvUnlock(q, b) ==
  /\ owner[q][b] = Env
  /\ owner' = [owner EXCEPT ![q][b] = NoOwner]
  /\ UNCHANGED <<slot, pstate, refc, pending, thread, lcBuild>>

\* The process sets its exiting flag with its main lock held.
Exit(q) ==
  /\ pstate[q] = "running" /\ owner[q][MainLock] = Env
  /\ pstate' = [pstate EXCEPT ![q] = "exiting"]
  /\ UNCHANGED <<slot, refc, owner, pending, thread, lcBuild>>

\* With all its locks held it deletes itself from the table and unlocks;
\* the table's reference is dropped after thread progress.  This is done
\* by the process's own scheduler, so not while a thread runs it as c_p.
Delete(q) ==
  /\ pstate[q] = "exiting" /\ \A b \in Facets : owner[q][b] = Env
  /\ \A t \in Threads : cp[t] # q
  /\ slot' = [slot EXCEPT ![SlotOf[q]] = NoProc]
  /\ pstate' = [pstate EXCEPT ![q] = "deleted"]
  /\ owner' = Drop(q, Facets)
  /\ pending' = [pending EXCEPT ![q] = {t \in Threads : InRegion(t)}]
  /\ UNCHANGED <<refc, thread, lcBuild>>

DropTableRef(q) ==
  /\ pstate[q] = "deleted" /\ pending[q] = {}
  /\ pstate' = [pstate EXCEPT ![q] = "released"]
  /\ refc' = [refc EXCEPT ![q] = @ - 1]
  /\ UNCHANGED <<slot, owner, pending, thread, lcBuild>>

Free(q) ==
  /\ pstate[q] = "released" /\ refc[q] = 0
  /\ pstate' = [pstate EXCEPT ![q] = "freed"]
  /\ UNCHANGED <<slot, refc, owner, pending, thread, lcBuild>>

\* Every thread has made its lookups: the behaviour may end here.
Terminating ==
  /\ \A t \in Threads : pc[t] = "idle" /\ calls[t] = MaxCalls
  /\ UNCHANGED vars

-----------------------------------------------------------------------------
\* A step of a calling thread; only an idle thread with calls left starts
\* one (Start's and LookupIncRefc's own guard, tested before their inputs
\* are chosen).
ThreadStep(t) ==
  \/ pc[t] = "idle" /\ calls[t] < MaxCalls /\
     \E c \in IF t \in Managed THEN CallerProcs ELSE {NoProc}, id \in Pids, need \in SUBSET Facets,
       fl \in CallFlags :
       \E hv \in IF c = NoProc THEN {{}} ELSE CallerLocks :
         Start(t, c, hv, id, need, fl)
  \/ pc[t] = "idle" /\ calls[t] < MaxCalls /\
     \E id \in Pids, allow \in BOOLEAN : LookupIncRefc(t, id, allow)
  \/ Trylock(t) \/ Safelock(t) \/ Revalidate(t) \/ DecRefc(t) \/ Release(t)

\* A step of the environment on process q.
EnvStep(q) ==
  \/ Spawn(q) \/ Exit(q) \/ Delete(q) \/ DropTableRef(q) \/ Free(q)
  \/ \E b \in Facets : EnvLock(q, b) \/ EnvUnlock(q, b)

Next ==
  \/ \E t \in Threads : ThreadStep(t)
  \/ \E q \in Pids : EnvStep(q)
  \/ Terminating

Spec == Init /\ [][Next]_vars

(* Threads keep running a call they are in (WF), and a caller eventually  *)
(* unlocks what it got (WF on Release); a process's scheduler eventually  *)
(* unlocks it (WF on EnvUnlock).  proc_safelock() blocks until its locks   *)
(* are free together, which other threads and the processes themselves    *)
(* may keep taking again: SF.  Starting a call, and the life cycle of the *)
(* processes, are never owed.                                              *)
FairSpec ==
  /\ Spec
  /\ \A t \in Threads :
       /\ WF_vars(Trylock(t)) /\ SF_vars(Safelock(t)) /\ WF_vars(Revalidate(t))
       /\ WF_vars(DecRefc(t)) /\ WF_vars(Release(t))
  /\ \A q \in Pids, b \in Facets : WF_vars(EnvUnlock(q, b))

-----------------------------------------------------------------------------
(* Properties.                                                              *)

TypeOK ==
  /\ slot \in [Slots -> Pids \cup {NoProc}]
  /\ pstate \in [Pids -> States] /\ refc \in [Pids -> Nat]
  /\ owner \in [Pids -> [Facets -> Threads \cup {Env, NoOwner}]]
  /\ pending \in [Pids -> SUBSET Threads]
  /\ pc \in [Threads -> PCs] /\ pid \in [Threads -> Pids \cup {NoProc}]
  /\ needL \in [Threads -> SUBSET Facets] /\ flags \in [Threads -> SUBSET Flags]
  /\ cp \in [Threads -> Pids \cup {NoProc}]
  /\ have \in [Threads -> SUBSET Facets] /\ pneed \in [Threads -> SUBSET Facets]
  /\ proc \in [Threads -> Pids \cup {NoProc, Busy}]
  /\ delayed \in [Threads -> BOOLEAN]
  /\ decRefc \in [Threads -> Pids \cup {NoProc}] /\ net \in [Threads -> Int]
  /\ calls \in [Threads -> 0 .. MaxCalls]
  /\ lcBuild \in BOOLEAN

\* The caller may use what it got: it holds locks, a reference, or is a
\* managed thread that has not passed a progress point.
Protected(t) ==
  t \in Managed \/ needL[t] # {} \/ "inc_refc" \in flags[t]

(* No use after free: erts_pid2proc_opt() never touches a freed process:  *)
(* not when it tries or blocks on its locks, re-validates it or drops       *)
(* dec_refc_proc, however the process exits, leaves the table and has its  *)
(* references dropped meanwhile; nor is a process freed that it returned   *)
(* to a caller entitled to use it.  This is what the unmanaged pin and     *)
(* thread progress are for.                                                *)
NoUseAfterFree ==
  \A t \in Threads :
    LET Live(q) == q \in Pids => pstate[q] # "freed" IN
    /\ pc[t] \in {"trylock", "safelock"} => Live(proc[t])
    /\ pc[t] = "continue" /\ needL[t] # {} => Live(proc[t])
    /\ pc[t] \in {"safelock", "continue", "dec"} => Live(decRefc[t])
    /\ pc[t] = "holding" /\ Protected(t) => Live(proc[t])

(* Re-validation: when erts_pid2proc_opt() returns, the caller holds      *)
(* exactly c_p_have_locks on its own process, although proc_safelock() may *)
(* have unlocked them meanwhile, and pid_need_locks on the process         *)
(* returned; that process, for as long as the caller holds them, is the    *)
(* one in the table; and when they include the main lock and               *)
(* ERTS_P2P_FLG_ALLOW_OTHER_X is not given, it is not exiting, although it *)
(* may have exited or been deleted while the thread waited for its locks.  *)
ReturnedLive ==
  \A t \in Threads :
    LET q == proc[t] IN
    pc[t] = "holding" =>
      /\ \A r \in Pids, b \in Facets :
           owner[r][b] = t <=> \/ r = cp[t] /\ b \in have[t]
                               \/ r = q /\ b \in pneed[t]
      /\ q \in Pids /\ pneed[t] # {} =>
           /\ InTable(q)
           /\ MainLock \in pneed[t] /\ "allow_other_x" \notin flags[t] => ~Exiting(q)

(* Lock order: every lock an erts_pid2proc_opt() call blocks for, and in  *)
(* a lock checking build every lock it takes at all, comes after each      *)
(* lock the thread holds in the checker's order (lock, then pid), the     *)
(* locks of c_p it keeps included; so erts_lc_lock_x() in proc_safelock()  *)
(* never reports an order violation.  It rests on the unlock mask of       *)
(* proc_safelock() and on the forced busy trylock.                         *)
LockCheckOrder ==
  [][\A t \in Threads :
       lcBuild \/ pc[t] = "safelock" =>
         \A x \in LcHeld(t), y \in LcHeld(t)' \ LcHeld(t) : LcBefore(x, y)]_vars

(* Every erts_pid2proc_opt() call returns, even when schedulers call on   *)
(* behalf of their own processes and each holds the main lock the other   *)
(* one asks for: proc_safelock() gives up the caller's locks after the     *)
(* first needed lock, so no two lookups wait for each other.               *)
LookupReturns ==
  \A t \in Threads : pc[t] # "idle" ~> pc[t] = "holding"

(* Reference balance: a lookup leaves behind exactly the reference the     *)
(* caller asked for, one when it returns a process with                    *)
(* ERTS_P2P_FLG_INC_REFC (or from proc_lookup_inc_refc()), none otherwise; *)
(* the pin an unmanaged thread takes is dropped on every path.             *)
RefcBalanced ==
  \A t \in Threads :
    pc[t] = "holding" =>
      net[t] = IF proc[t] \in Pids /\ "inc_refc" \in flags[t] THEN 1 ELSE 0
=============================================================================
