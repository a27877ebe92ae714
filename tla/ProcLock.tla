------------------------------ MODULE ProcLock ------------------------------
(***************************************************************************)
(* The process locks of erts/emulator/beam/erl_process_lock.c.             *)
(*                                                                         *)
(* Every process has a lock word (lflgs) with one lock flag and one wait   *)
(* flag per process lock, and one FIFO wait queue per lock.  The queues    *)
(* and all changes of wait flags are protected by the pix lock (stripe)    *)
(* the process hashes to.  Threads lock and unlock sets of locks of one    *)
(* process at a time:                                                      *)
(*   lock:   fast path on lflgs, else erts_proc_lock_failed(): spin with   *)
(*           cmpxchg on the in-order free locks, then wait_for_locks():    *)
(*           try_aquire() under the pix lock, enqueue and sleep;           *)
(*   unlock: clear the locks without waiters, else erts_proc_unlock_failed *)
(*           and transfer_locks(): hand each waited lock to the head of    *)
(*           its queue, try_aquire() the rest for it, wake it when done.   *)
(* Each atomic operation on lflgs is one step; a pix-lock critical section *)
(* that makes only one pass over lflgs is one step, and transfer_locks()   *)
(* is one step per transferred lock with the pix lock held in between.     *)
(* holds is a history variable: the locks each thread believes it holds.   *)
(***************************************************************************)
EXTENDS Integers, Sequences, FiniteSets, FiniteSetsExt

CONSTANTS
  Threads,      \* scheduler and auxiliary threads (model values)
  Procs,        \* process ids; their numeric order is the lock order across processes
  NFacets,      \* ERTS_PROC_LOCK_MAX_BIT + 1
  Stripes,      \* the pix locks erts_pix_locks[]
  PixOf,        \* ERTS_PID2PIXLOCK: [Procs -> Stripes]
  SpinBudget,   \* [Threads -> Nat]: proc_lock_spin_count or aux_thr_proc_lock_spin_count
  Creator,      \* the thread that ran erts_proc_lock_init() and holds every lock
  NoThread      \* an unlocked pix lock

ASSUME Procs \subseteq Nat /\ NFacets \in Nat \ {0}
ASSUME PixOf \in [Procs -> Stripes] /\ SpinBudget \in [Threads -> Nat]
ASSUME Creator \in Threads /\ NoThread \notin Threads

Facets == 0 .. (NFacets - 1)        \* lock numbers; their order is the lock order
ProcLocksAll == Facets              \* ERTS_PROC_LOCKS_ALL
NoFlags == [lock |-> {}, wait |-> {}]

VARIABLES
  lflgs,    \* [Procs -> [lock, wait : SUBSET Facets]]: p->lock.flags
  queue,    \* [Procs -> [Facets -> Seq(Threads)]]: p->lock.queue[], head first
  pix,      \* [Stripes -> Threads \cup {NoThread}]: owner of each pix lock
  pc,       \* where each thread is in the lock code
  target,   \* the process the thread is locking or unlocking
  need,     \* need_locks of erts_proc_lock_failed()
  olflgs,   \* olflgs of erts_proc_lock_failed(): the last read lock word
  spin,     \* spin_count of erts_proc_lock_failed()
  uflgs,    \* wtr->uflgs: locks the thread's sleep event still waits for
  uaflgs,   \* wtr->uaflgs: 1 while the thread must keep sleeping
  trn,      \* tlocks of transfer_locks(): locks still to transfer
  unset,    \* unset_waiter of transfer_locks()
  wake,     \* wake list of transfer_locks(), head first
  holds     \* history: [Threads -> [Procs -> SUBSET Facets]]

vars == <<lflgs, queue, pix, pc, target, need, olflgs, spin, uflgs, uaflgs,
          trn, unset, wake, holds>>

PCs == {"idle", "spin", "park", "sleep", "unlock_pix", "transfer", "wake"}

-----------------------------------------------------------------------------
(* Pure helpers translated from the code.                                  *)

\* enqueue_waiter(): append wtr to the ring of lock ix (its tail).
EnqueueWaiter(q, ix, wtr) == [q EXCEPT ![ix] = Append(@, wtr)]

\* dequeue_waiter(): unlink the first waiter of lock ix.
DequeueWaiter(q, ix) == [q EXCEPT ![ix] = Tail(@)]

\* Mutant of InOrderLocks: grabs every free needed lock, out of order.
InOrderLocksAllFree(in_use, need_locks) == need_locks \ in_use

\* in_order_locks(): the needed locks below the lowest needed lock in use.
InOrderLocks(in_use, need_locks) ==
  LET busy == in_use \cap need_locks
  IN  IF busy = {} THEN need_locks
      ELSE {b \in need_locks : b < Min(busy)}

\* Mutant of TryAquireFrom: only an existing queue stops the pass; a held
\* lock with an empty queue is taken anyway.
RECURSIVE TryAquireFromQueueOnly(_, _, _, _, _)
TryAquireFromQueueOnly(lf, q, w, locks, got) ==
  IF locks = {} THEN [lf |-> lf, q |-> q, got |-> got]
  ELSE LET b == Min(locks) IN
       IF q[b] # <<>>
       THEN [lf |-> [lf EXCEPT !.wait = @ \cup {b}],
             q |-> [q EXCEPT ![b] = Append(@, w)], got |-> got]
       ELSE TryAquireFromQueueOnly([lf EXCEPT !.lock = @ \cup {b}], q, w,
                                   locks \ {b}, got \cup {b})

\* try_aquire(): under the pix lock take the locks of 'locks' in lock
\* order; on the first one held or already waited for, set its wait flag
\* and enqueue w on it.  Returns the new lock word, queues and the locks got.
RECURSIVE TryAquireFrom(_, _, _, _, _)
TryAquireFrom(lf, q, w, locks, got) ==
  IF locks = {} THEN [lf |-> lf, q |-> q, got |-> got]
  ELSE LET b == Min(locks) IN
       IF q[b] # <<>> \/ b \in lf.lock
       THEN [lf |-> [lf EXCEPT !.wait = @ \cup {b}],
             q |-> EnqueueWaiter(q, b, w), got |-> got]
       ELSE TryAquireFrom([lf EXCEPT !.lock = @ \cup {b}], q, w,
                          locks \ {b}, got \cup {b})

TryAquire(lf, q, w, locks) == TryAquireFrom(lf, q, w, locks, {})

\* The lock order of the lock checker: lock c of process q comes before
\* lock m of process p (same lock number: lower process id first).
Before(q, c, p, m) == c < m \/ (c = m /\ q < p)

\* Callers obey the lock order: every lock requested comes after every
\* process lock the thread already holds.
InLockOrder(t, p, M) ==
  \A q \in Procs : \A c \in holds[t][q], m \in M : Before(q, c, p, m)

-----------------------------------------------------------------------------
Init ==
  /\ lflgs = [p \in Procs |-> [lock |-> ProcLocksAll, wait |-> {}]]
  /\ queue = [p \in Procs |-> [b \in Facets |-> <<>>]]
  /\ pix = [s \in Stripes |-> NoThread]
  /\ pc = [t \in Threads |-> "idle"]
  /\ target = [t \in Threads |-> Min(Procs)]
  /\ need = [t \in Threads |-> {}]
  /\ olflgs = [t \in Threads |-> NoFlags]
  /\ spin = [t \in Threads |-> 0]
  /\ uflgs = [t \in Threads |-> {}]
  /\ uaflgs = [t \in Threads |-> 0]
  /\ trn = [t \in Threads |-> {}]
  /\ unset = [t \in Threads |-> {}]
  /\ wake = [t \in Threads |-> <<>>]
  /\ holds = [t \in Threads |-> [p \in Procs |->
                IF t = Creator THEN ProcLocksAll ELSE {}]]

\* erts_proc_lock() fast path: none of the locks is taken, all are set.
LockFast(t, p, M) ==
  /\ pc[t] = "idle"
  /\ M # {} /\ InLockOrder(t, p, M)
  /\ M \cap lflgs[p].lock = {}
  /\ lflgs' = [lflgs EXCEPT ![p].lock = @ \cup M]
  /\ holds' = [holds EXCEPT ![t][p] = @ \cup M]
  /\ target' = [target EXCEPT ![t] = p]
  /\ UNCHANGED <<queue, pix, pc, need, olflgs, spin, uflgs, uaflgs, trn,
                 unset, wake>>

\* erts_proc_lock() finds a lock taken: enter erts_proc_lock_failed().
LockContended(t, p, M) ==
  /\ pc[t] = "idle"
  /\ M # {} /\ InLockOrder(t, p, M)
  /\ M \cap lflgs[p].lock # {}
  /\ pc' = [pc EXCEPT ![t] = "spin"]
  /\ target' = [target EXCEPT ![t] = p]
  /\ need' = [need EXCEPT ![t] = M]
  /\ olflgs' = [olflgs EXCEPT ![t] = lflgs[p]]
  /\ spin' = [spin EXCEPT ![t] = SpinBudget[t]]
  /\ UNCHANGED <<lflgs, queue, pix, uflgs, uaflgs, trn, unset, wake, holds>>

CanGrab(t) == InOrderLocks(olflgs[t].lock, need[t])

\* The cmpxchg of the grabbable locks succeeds; done when nothing is left.
SpinGrab(t) ==
  LET p == target[t]
      g == CanGrab(t)
      done == need[t] = g
  IN  /\ pc[t] = "spin"
      /\ g # {}
      /\ lflgs[p] = olflgs[t]
      /\ lflgs' = [lflgs EXCEPT ![p].lock = @ \cup g]
      /\ holds' = [holds EXCEPT ![t][p] = @ \cup g]
      /\ need' = [need EXCEPT ![t] = @ \ g]
      /\ olflgs' = [olflgs EXCEPT ![t] = IF done THEN NoFlags
                                          ELSE [lock |-> @.lock \cup g, wait |-> @.wait]]
      /\ spin' = [spin EXCEPT ![t] = IF done THEN 0 ELSE SpinBudget[t]]
      /\ pc' = [pc EXCEPT ![t] = IF done THEN "idle" ELSE "spin"]
      /\ UNCHANGED <<queue, pix, target, uflgs, uaflgs, trn, unset, wake>>

\* The cmpxchg fails: retry with the value it read.
SpinRetry(t) ==
  /\ pc[t] = "spin"
  /\ CanGrab(t) # {}
  /\ lflgs[target[t]] # olflgs[t]
  /\ olflgs' = [olflgs EXCEPT ![t] = lflgs[target[t]]]
  /\ UNCHANGED <<lflgs, queue, pix, pc, target, need, spin, uflgs, uaflgs,
                 trn, unset, wake, holds>>

\* Mutant of SpinWait: spins once more with the budget already at 0.
SpinWaitOffByOne(t) ==
  /\ pc[t] = "spin"
  /\ CanGrab(t) = {}
  /\ spin[t] >= 0
  /\ spin' = [spin EXCEPT ![t] = @ - 1]
  /\ olflgs' = [olflgs EXCEPT ![t] = lflgs[target[t]]]
  /\ UNCHANGED <<lflgs, queue, pix, pc, target, need, uflgs, uaflgs, trn,
                 unset, wake, holds>>

\* Nothing grabbable and spin budget left: spin, then re-read the word.
SpinWait(t) ==
  /\ pc[t] = "spin"
  /\ CanGrab(t) = {}
  /\ spin[t] > 0
  /\ spin' = [spin EXCEPT ![t] = @ - 1]
  /\ olflgs' = [olflgs EXCEPT ![t] = lflgs[target[t]]]
  /\ UNCHANGED <<lflgs, queue, pix, pc, target, need, uflgs, uaflgs, trn,
                 unset, wake, holds>>

\* Spin budget exhausted: wait_for_locks() fetches a sleep event whose
\* uflgs are the locks still needed, and blocks on the pix lock.
SpinGiveUp(t) ==
  /\ pc[t] = "spin"
  /\ CanGrab(t) = {}
  /\ spin[t] <= 0
  /\ pc' = [pc EXCEPT ![t] = "park"]
  /\ uflgs' = [uflgs EXCEPT ![t] = need[t]]
  /\ need' = [need EXCEPT ![t] = {}]
  /\ olflgs' = [olflgs EXCEPT ![t] = NoFlags]
  /\ spin' = [spin EXCEPT ![t] = 0]
  /\ UNCHANGED <<lflgs, queue, pix, target, uaflgs, trn, unset, wake, holds>>

\* wait_for_locks() with the pix lock: try_aquire(); return if all were
\* got, else set uaflgs and sleep.  The pix lock is released in the step.
Park(t) ==
  LET p == target[t]
      r == TryAquire(lflgs[p], queue[p], t, uflgs[t])
      rest == uflgs[t] \ r.got
  IN  /\ pc[t] = "park"
      /\ pix[PixOf[p]] = NoThread
      /\ lflgs' = [lflgs EXCEPT ![p] = r.lf]
      /\ queue' = [queue EXCEPT ![p] = r.q]
      /\ holds' = [holds EXCEPT ![t][p] = @ \cup r.got]
      /\ uflgs' = [uflgs EXCEPT ![t] = rest]
      /\ uaflgs' = [uaflgs EXCEPT ![t] = IF rest = {} THEN 0 ELSE 1]
      /\ pc' = [pc EXCEPT ![t] = IF rest = {} THEN "idle" ELSE "sleep"]
      /\ UNCHANGED <<pix, target, need, olflgs, spin, trn, unset, wake>>

\* The sleep loop of wait_for_locks() exits once uaflgs is 0; the sleep
\* event goes back to the pool.
WakeUp(t) ==
  /\ pc[t] = "sleep"
  /\ uaflgs[t] = 0
  /\ pc' = [pc EXCEPT ![t] = "idle"]
  /\ UNCHANGED <<lflgs, queue, pix, target, need, olflgs, spin, uflgs, uaflgs,
                 trn, unset, wake, holds>>

\* erts_proc_unlock() fast path: no wait flag set on the locks released.
UnlockFast(t, p, M) ==
  /\ pc[t] = "idle"
  /\ M # {} /\ M \subseteq holds[t][p]
  /\ M \cap lflgs[p].wait = {}
  /\ lflgs' = [lflgs EXCEPT ![p].lock = @ \ M]
  /\ holds' = [holds EXCEPT ![t][p] = @ \ M]
  /\ target' = [target EXCEPT ![t] = p]
  /\ UNCHANGED <<queue, pix, pc, need, olflgs, spin, uflgs, uaflgs, trn,
                 unset, wake>>

\* erts_proc_unlock(): one cmpxchg clears the locks without waiters; the
\* waited-for ones stay set and go to erts_proc_unlock_failed().
UnlockContended(t, p, M) ==
  LET waited == M \cap lflgs[p].wait
  IN  /\ pc[t] = "idle"
      /\ M # {} /\ M \subseteq holds[t][p]
      /\ waited # {}
      /\ lflgs' = [lflgs EXCEPT ![p].lock = @ \ (M \ waited)]
      /\ holds' = [holds EXCEPT ![t][p] = @ \ M]
      /\ trn' = [trn EXCEPT ![t] = waited]
      /\ target' = [target EXCEPT ![t] = p]
      /\ pc' = [pc EXCEPT ![t] = "unlock_pix"]
      /\ UNCHANGED <<queue, pix, need, olflgs, spin, uflgs, uaflgs, unset, wake>>

\* erts_proc_unlock_failed(): take the pix lock.
UnlockPix(t) ==
  /\ pc[t] = "unlock_pix"
  /\ pix[PixOf[target[t]]] = NoThread
  /\ pix' = [pix EXCEPT ![PixOf[target[t]]] = t]
  /\ pc' = [pc EXCEPT ![t] = "transfer"]
  /\ UNCHANGED <<lflgs, queue, target, need, olflgs, spin, uflgs, uaflgs, trn,
                 unset, wake, holds>>

\* Mutant of TransferLock: a waiter that got all its locks is not put on
\* the wake list.
TransferLockNoWake(t) ==
  LET p == target[t]
      b == Min(trn[t])
      w == Head(queue[p][b])
      q1 == [queue[p] EXCEPT ![b] = Tail(@)]
      rest == uflgs[w] \ {b}
      r == IF rest = {} THEN [lf |-> lflgs[p], q |-> q1, got |-> {}]
           ELSE TryAquire(lflgs[p], q1, w, rest)
  IN  /\ pc[t] = "transfer"
      /\ trn[t] # {}
      /\ lflgs' = [lflgs EXCEPT ![p] = r.lf]
      /\ queue' = [queue EXCEPT ![p] = r.q]
      /\ unset' = [unset EXCEPT ![t] = IF q1[b] = <<>> THEN @ \cup {b} ELSE @]
      /\ uflgs' = [uflgs EXCEPT ![w] = rest \ r.got]
      /\ holds' = [holds EXCEPT ![w][p] = @ \cup {b} \cup r.got]
      /\ trn' = [trn EXCEPT ![t] = @ \ {b}]
      /\ UNCHANGED <<pix, pc, target, need, olflgs, spin, uaflgs, wake>>

\* Mutant of TransferLock: the lock goes to the last waiter of the ring
\* (queue[b]->prev) instead of the first.
TransferLockToTail(t) ==
  LET p == target[t]
      b == Min(trn[t])
      n == Len(queue[p][b])
      w == queue[p][b][n]
      q1 == [queue[p] EXCEPT ![b] = SubSeq(@, 1, n - 1)]
      rest == uflgs[w] \ {b}
      r == IF rest = {} THEN [lf |-> lflgs[p], q |-> q1, got |-> {}]
           ELSE TryAquire(lflgs[p], q1, w, rest)
      left == rest \ r.got
  IN  /\ pc[t] = "transfer"
      /\ trn[t] # {}
      /\ lflgs' = [lflgs EXCEPT ![p] = r.lf]
      /\ queue' = [queue EXCEPT ![p] = r.q]
      /\ unset' = [unset EXCEPT ![t] = IF q1[b] = <<>> THEN @ \cup {b} ELSE @]
      /\ uflgs' = [uflgs EXCEPT ![w] = left]
      /\ holds' = [holds EXCEPT ![w][p] = @ \cup {b} \cup r.got]
      /\ wake' = [wake EXCEPT ![t] = IF left = {} THEN <<w>> \o @ ELSE @]
      /\ trn' = [trn EXCEPT ![t] = @ \ {b}]
      /\ UNCHANGED <<pix, pc, target, need, olflgs, spin, uaflgs>>

\* One iteration of transfer_locks(): the lowest lock b left goes to the
\* head w of its queue; if w needs more, try_aquire() them for w; if w
\* needs nothing more, it joins the wake list.
TransferLock(t) ==
  LET p == target[t]
      b == Min(trn[t])
      w == Head(queue[p][b])
      q1 == DequeueWaiter(queue[p], b)
      rest == uflgs[w] \ {b}
      r == IF rest = {} THEN [lf |-> lflgs[p], q |-> q1, got |-> {}]
           ELSE TryAquire(lflgs[p], q1, w, rest)
      left == rest \ r.got
  IN  /\ pc[t] = "transfer"
      /\ trn[t] # {}
      /\ lflgs' = [lflgs EXCEPT ![p] = r.lf]
      /\ queue' = [queue EXCEPT ![p] = r.q]
      /\ unset' = [unset EXCEPT ![t] = IF q1[b] = <<>> THEN @ \cup {b} ELSE @]
      /\ uflgs' = [uflgs EXCEPT ![w] = left]
      /\ holds' = [holds EXCEPT ![w][p] = @ \cup {b} \cup r.got]
      /\ wake' = [wake EXCEPT ![t] = IF left = {} THEN <<w>> \o @ ELSE @]
      /\ trn' = [trn EXCEPT ![t] = @ \ {b}]
      /\ UNCHANGED <<pix, pc, target, need, olflgs, spin, uaflgs>>

\* Mutant of TransferDone: the wait flags of emptied queues are left set.
TransferDoneKeepWait(t) ==
  LET p == target[t] IN
  /\ pc[t] = "transfer"
  /\ trn[t] = {}
  /\ unset' = [unset EXCEPT ![t] = {}]
  /\ pix' = [pix EXCEPT ![PixOf[p]] = NoThread]
  /\ pc' = [pc EXCEPT ![t] = IF wake[t] = <<>> THEN "idle" ELSE "wake"]
  /\ UNCHANGED <<lflgs, queue, target, need, olflgs, spin, uflgs, uaflgs, trn,
                 wake, holds>>

\* End of transfer_locks(): clear the wait flags of emptied queues and
\* release the pix lock.
TransferDone(t) ==
  LET p == target[t] IN
  /\ pc[t] = "transfer"
  /\ trn[t] = {}
  /\ lflgs' = [lflgs EXCEPT ![p].wait = @ \ unset[t]]
  /\ unset' = [unset EXCEPT ![t] = {}]
  /\ pix' = [pix EXCEPT ![PixOf[p]] = NoThread]
  /\ pc' = [pc EXCEPT ![t] = IF wake[t] = <<>> THEN "idle" ELSE "wake"]
  /\ UNCHANGED <<queue, target, need, olflgs, spin, uflgs, uaflgs, trn, wake,
                 holds>>

\* After the pix lock is released: take the next waiter off the wake
\* list, then clear its uaflgs and set its event.
WakeWaiter(t) ==
  LET w == Head(wake[t]) IN
  /\ pc[t] = "wake"
  /\ uaflgs' = [uaflgs EXCEPT ![w] = 0]
  /\ wake' = [wake EXCEPT ![t] = Tail(@)]
  /\ pc' = [pc EXCEPT ![t] = IF Tail(wake[t]) = <<>> THEN "idle" ELSE "wake"]
  /\ UNCHANGED <<lflgs, queue, pix, target, need, olflgs, spin, uflgs, trn,
                 unset, holds>>

\* A caller releasing every lock it holds on p.
ReleaseAll(t, p) ==
  /\ holds[t][p] # {}
  /\ (UnlockFast(t, p, holds[t][p]) \/ UnlockContended(t, p, holds[t][p]))

Call(t) ==
  \E p \in Procs, M \in SUBSET Facets :
    \/ LockFast(t, p, M) \/ LockContended(t, p, M)
    \/ UnlockFast(t, p, M) \/ UnlockContended(t, p, M)

Step(t) ==
  \/ SpinGrab(t) \/ SpinRetry(t) \/ SpinWait(t) \/ SpinGiveUp(t)
  \/ Park(t) \/ WakeUp(t)
  \/ UnlockPix(t) \/ TransferLock(t) \/ TransferDone(t) \/ WakeWaiter(t)

Next == \E t \in Threads : Call(t) \/ Step(t)

(* Fairness.  The steps of a thread inside the lock code are weakly fair.   *)
(* A successful cmpxchg and taking the pix spinlock are only intermittently *)
(* possible while other threads run, so they are strongly fair (a thread is *)
(* at one of them at a time, so one SF over their disjunction suffices).    *)
(* Callers are not obliged to lock anything, but every critical section     *)
(* ends: a thread that holds locks of p and is repeatedly able to release   *)
(* them eventually does.                                                    *)
Fairness ==
  \A t \in Threads :
    /\ WF_vars(Step(t))
    /\ SF_vars(SpinGrab(t) \/ Park(t) \/ UnlockPix(t))
    /\ \A p \in Procs : SF_vars(ReleaseAll(t, p))

Spec == Init /\ [][Next]_vars
FairSpec == Spec /\ Fairness

-----------------------------------------------------------------------------
(* Properties.                                                              *)

TypeOK ==
  /\ lflgs \in [Procs -> [lock : SUBSET Facets, wait : SUBSET Facets]]
  /\ queue \in [Procs -> [Facets -> Seq(Threads)]]
  /\ pix \in [Stripes -> Threads \cup {NoThread}]
  /\ pc \in [Threads -> PCs]
  /\ target \in [Threads -> Procs]
  /\ need \in [Threads -> SUBSET Facets] /\ uflgs \in [Threads -> SUBSET Facets]
  /\ olflgs \in [Threads -> [lock : SUBSET Facets, wait : SUBSET Facets]]
  /\ spin \in [Threads -> Nat] /\ uaflgs \in [Threads -> {0, 1}]
  /\ trn \in [Threads -> SUBSET Facets] /\ unset \in [Threads -> SUBSET Facets]
  /\ wake \in [Threads -> Seq(Threads)]
  /\ holds \in [Threads -> [Procs -> SUBSET Facets]]

\* The owners of lock b of p: the threads that hold it, and the thread
\* that is handing it over in transfer_locks().
Owners(p, b) ==
  {t \in Threads : b \in holds[t][p]}
    \cup {t \in Threads : /\ pc[t] \in {"unlock_pix", "transfer"}
                          /\ target[t] = p /\ b \in trn[t]}

(* Mutual exclusion without leaks: every lock flag set in p->lock.flags has *)
(* exactly one owner and every lock a thread owns has its flag set, across  *)
(* fast paths, cmpxchg grabs, try_aquire() and lock transfer.               *)
LockOwnership ==
  \A p \in Procs, b \in Facets :
    /\ Cardinality(Owners(p, b)) <= 1
    /\ (b \in lflgs[p].lock <=> Owners(p, b) # {})

(* The queue/wait-flag parity that check_queue() asserts: whenever the pix  *)
(* lock of p is free, the wait flag of b is set iff b's queue is non-empty; *)
(* and a queued waiter always waits on a lock that is set (nobody can take  *)
(* it behind the queue's back).                                             *)
WaitFlagParity ==
  \A p \in Procs, b \in Facets :
    /\ queue[p][b] # <<>> => b \in lflgs[p].lock
    /\ pix[PixOf[p]] = NoThread => (b \in lflgs[p].wait <=> queue[p][b] # <<>>)

\* The places <<p, b, i>> at which thread t appears in the wait queues.
Slots(t) ==
  UNION {{<<p, b, i>> : i \in {j \in 1..Len(queue[p][b]) : queue[p][b][j] = t}} :
           <<p, b>> \in Procs \X Facets}

(* No lost wakeup: a sleeping thread that still needs locks is queued once, *)
(* on the lowest lock it needs; one that needs none has been woken or is on *)
(* the wake list of the thread that transferred its last lock; only         *)
(* sleeping threads are queued.                                             *)
SleeperAccounted ==
  \A t \in Threads :
    /\ Slots(t) # {} => pc[t] = "sleep"
    /\ pc[t] = "sleep" /\ uflgs[t] # {} =>
         /\ Cardinality(Slots(t)) = 1
         /\ \A s \in Slots(t) : s[1] = target[t] /\ s[2] = Min(uflgs[t])
    /\ pc[t] = "sleep" /\ uflgs[t] = {} =>
         \/ uaflgs[t] = 0
         \/ \E u \in Threads : \E i \in 1..Len(wake[u]) : wake[u][i] = t

(* The lock order inside a process: a thread in the middle of a lock call  *)
(* never holds a lock above one it still waits for (in_order_locks() and    *)
(* try_aquire() never take a lock out of order).                            *)
InOrderAcquisition ==
  \A t \in Threads :
    LET p == target[t]
        pending == IF pc[t] = "spin" THEN need[t]
                   ELSE IF pc[t] \in {"park", "sleep"} THEN uflgs[t] ELSE {}
    IN  \A c \in holds[t][p], b \in pending : c < b

(* Refinement: ProcLock implements the FIFO hand-off lock of ProcLockFifo. *)
(* The abstract owner of a lock is its owner here (the holder, or the       *)
(* thread handing it over); the abstract queues are p->lock.queue[].  Every *)
(* step is a take-and-maybe-queue (fast path, cmpxchg grab, try_aquire()),  *)
(* a release of unwaited locks (the unlock cmpxchg), a hand-over of a lock  *)
(* to the head of its queue (transfer_locks()), or invisible.               *)
OwnerOf == [p \in Procs |-> [b \in Facets |->
              IF Owners(p, b) = {} THEN NoThread ELSE CHOOSE t \in Owners(p, b) : TRUE]]

Fifo == INSTANCE ProcLockFifo WITH owner <- OwnerOf, waitq <- queue

FifoRefinement == Fifo!Spec

(* Every lock call returns: a thread that enters erts_proc_lock_failed()   *)
(* eventually holds all the locks it asked for.                            *)
LockReturns ==
  \A t \in Threads : pc[t] \in {"spin", "park", "sleep"} ~> pc[t] = "idle"
=============================================================================
