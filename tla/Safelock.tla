------------------------------ MODULE Safelock ------------------------------
(***************************************************************************)
(* proc_safelock() of erl_process_lock.c: one call, step by step.  The    *)
(* calling thread holds a_have_locks on a_proc and b_have_locks on b_proc  *)
(* and must end holding exactly a_need_locks and b_need_locks.  To avoid   *)
(* deadlock it releases the held locks at or above the first lock it must  *)
(* take, then takes the locks in runs that respect the global lock order:  *)
(* lock number first, lower process id second.  A thread that is not a     *)
(* managed scheduler thread pins a process with its reference count while  *)
(* it holds none of its locks.                                             *)
(* Each erts_proc_lock()/erts_proc_unlock() call is modelled by its effect *)
(* on the locks this thread holds (held); how such a call blocks and hands *)
(* locks over is ProcLock's business.                                      *)
(***************************************************************************)
EXTENDS Integers, FiniteSets, FiniteSetsExt

CONSTANTS
  NFacets,   \* ERTS_PROC_LOCK_MAX_BIT + 1
  Procs,     \* process ids (positive numbers)
  NoProc     \* a NULL process pointer

ASSUME NFacets \in Nat \ {0} /\ Procs \subseteq Nat \ {0} /\ NoProc \notin Procs

Facets == 0 .. (NFacets - 1)
MaxBit == NFacets - 1                  \* ERTS_PROC_LOCK_MAX_BIT
ProcLocksAll == Facets

VARIABLES
  arg,       \* the call's arguments: is_managed, a_proc, a_have_locks, ...
  pc,
  p1, p2,    \* the two processes in inter-process lock order (p2 may be NoProc)
  need1, have1, need2, have2,
  unlockMask,  \* unlock_mask
  lockNo,    \* lock_no
  refc1, refc2,
  held,      \* [Procs -> SUBSET Facets]: the locks the thread really holds
  refc       \* [Procs -> Nat]: references this call took on each process

vars == <<arg, pc, p1, p2, need1, have1, need2, have2, unlockMask, lockNo,
          refc1, refc2, held, refc>>

\* Callers: b_proc is a process; a_proc may be NULL; the locks a caller
\* needs include those it has (erts_lc_fail() otherwise).
Args ==
  {r \in [managed : BOOLEAN, a : Procs \cup {NoProc}, aHave : SUBSET Facets,
          aNeed : SUBSET Facets, b : Procs, bHave : SUBSET Facets,
          bNeed : SUBSET Facets] :
     /\ r.aHave \subseteq r.aNeed /\ r.bHave \subseteq r.bNeed
     /\ r.a = NoProc => r.aHave = {} /\ r.aNeed = {}}

\* The locks the thread holds when it calls proc_safelock().
HeldAtCall(r) ==
  [p \in Procs |-> (IF p = r.a THEN r.aHave ELSE {})
                   \cup (IF p = r.b THEN r.bHave ELSE {})]

Init ==
  /\ arg \in Args
  /\ pc = "order"
  /\ p1 = NoProc /\ p2 = NoProc
  /\ need1 = {} /\ have1 = {} /\ need2 = {} /\ have2 = {}
  /\ unlockMask = {} /\ lockNo = 0 /\ refc1 = 0 /\ refc2 = 0
  /\ held = HeldAtCall(arg)
  /\ refc = [p \in Procs |-> 0]

-----------------------------------------------------------------------------
\* Mutant of UnlockScan: the mask is the locks below the first needed one.
RECURSIVE UnlockScanBelow(_, _, _, _)
UnlockScanBelow(n1, n2, mask, i) ==
  IF i > MaxBit \/ i \in n1 \/ i \in n2
  THEN [mask |-> {j \in Facets : j < i}, lockNo |-> i]
  ELSE UnlockScanBelow(n1, n2, mask \ {i}, i + 1)

\* The unlock_mask loop: from lock 0 up, stop at the first lock needed on
\* p1 (kept in the mask) or on p2 (dropped from the mask).
RECURSIVE UnlockScan(_, _, _, _)
UnlockScan(n1, n2, mask, i) ==
  IF i > MaxBit \/ i \in n1 THEN [mask |-> mask, lockNo |-> i]
  ELSE IF i \in n2 THEN [mask |-> mask \ {i}, lockNo |-> i]
  ELSE UnlockScan(n1, n2, mask \ {i}, i + 1)

\* Determine the inter-process lock order, drop the locks already held
\* from the needs and compute unlock_mask and the first lock to take.
Order ==
  LET r == arg
      o == IF r.a # NoProc /\ r.a < r.b
             THEN <<r.a, r.aNeed, r.aHave, r.b, r.bNeed, r.bHave>>
           ELSE IF r.a # NoProc /\ r.a > r.b
             THEN <<r.b, r.bNeed, r.bHave, r.a, r.aNeed, r.aHave>>
           ELSE IF r.a # NoProc
             THEN <<r.a, r.aNeed \cup r.bNeed, r.aHave \cup r.bHave, NoProc, {}, {}>>
           ELSE <<r.b, r.bNeed, r.bHave, NoProc, {}, {}>>
      n1 == o[2] \ o[3]
      n2 == o[5] \ o[6]
      s == UnlockScan(n1, n2, ProcLocksAll, 0)
  IN  /\ pc = "order"
      /\ p1' = o[1] /\ p2' = o[4]
      /\ need1' = n1 /\ have1' = o[3] /\ need2' = n2 /\ have2' = o[6]
      /\ unlockMask' = s.mask /\ lockNo' = s.lockNo
      /\ pc' = "unlock1"
      /\ UNCHANGED <<arg, refc1, refc2, held, refc>>

\* Mutant of Unlock1: decides on the pin before the release, when the
\* thread still holds the locks.
Unlock1PinBefore ==
  LET u == unlockMask \cap have1
      pin == ~arg.managed /\ have1 = {}
  IN  /\ pc = "unlock1"
      /\ IF (have1 \cup have2) # {} /\ u # {}
         THEN /\ have1' = have1 \ u
              /\ need1' = need1 \cup u
              /\ refc1' = IF pin THEN 1 ELSE refc1
              /\ refc' = IF pin THEN [refc EXCEPT ![p1] = @ + 1] ELSE refc
              /\ held' = [held EXCEPT ![p1] = @ \ u]
         ELSE UNCHANGED <<have1, need1, refc1, refc, held>>
      /\ pc' = "unlock2"
      /\ UNCHANGED <<arg, p1, p2, need2, have2, unlockMask, lockNo, refc2>>

\* Release the held locks of p1 in unlock_mask (they become needed again);
\* pin p1 first if an unmanaged thread would hold none of its locks.
Unlock1 ==
  LET u == unlockMask \cap have1
      pin == ~arg.managed /\ have1 \ u = {}
  IN  /\ pc = "unlock1"
      /\ IF (have1 \cup have2) # {} /\ u # {}
         THEN /\ have1' = have1 \ u
              /\ need1' = need1 \cup u
              /\ refc1' = IF pin THEN 1 ELSE refc1
              /\ refc' = IF pin THEN [refc EXCEPT ![p1] = @ + 1] ELSE refc
              /\ held' = [held EXCEPT ![p1] = @ \ u]
         ELSE UNCHANGED <<have1, need1, refc1, refc, held>>
      /\ pc' = "unlock2"
      /\ UNCHANGED <<arg, p1, p2, need2, have2, unlockMask, lockNo, refc2>>

\* The same for p2.
Unlock2 ==
  LET u == unlockMask \cap have2
      pin == ~arg.managed /\ have2 \ u = {}
  IN  /\ pc = "unlock2"
      /\ IF (have1 \cup have2) # {} /\ u # {}
         THEN /\ have2' = have2 \ u
              /\ need2' = need2 \cup u
              /\ refc2' = IF pin THEN 1 ELSE refc2
              /\ refc' = IF pin THEN [refc EXCEPT ![p2] = @ + 1] ELSE refc
              /\ held' = [held EXCEPT ![p2] = @ \ u]
         ELSE UNCHANGED <<have2, need2, refc2, refc, held>>
      /\ pc' = "lock"
      /\ UNCHANGED <<arg, p1, p2, need1, have1, unlockMask, lockNo, refc1>>

\* Mutant of RunEnd2: one past the first lock p1 needs.
RunEnd2Past(i, n1) == Min({k \in i .. MaxBit : k \in n1} \cup {MaxBit + 1}) + 1

\* The first lock >= i needed on p2, or MaxBit: where a run on p1 ends.
RunEnd1(i, n2) == Min({k \in i .. MaxBit : k \in n2} \cup {MaxBit})
\* The first lock >= i needed on p1, or MaxBit + 1: where a run on p2 stops.
RunEnd2(i, n1) == Min({k \in i .. MaxBit : k \in n1} \cup {MaxBit + 1})

\* Mutant of LockRun: the run on p1 always moves past its last lock, also
\* when p2 needs that lock too (the lock_no-- is missing).
LockRunNoBackstep ==
  /\ pc = "lock"
  /\ lockNo <= MaxBit
  /\ \/ /\ lockNo \in need1
        /\ LET k == RunEnd1(lockNo, need2)
               locks == {j \in need1 : lockNo <= j /\ j <= k}
           IN  /\ held' = [held EXCEPT ![p1] = @ \cup locks]
               /\ have1' = have1 \cup locks
               /\ need1' = need1 \ locks
               /\ lockNo' = k + 1
        /\ UNCHANGED <<need2, have2>>
     \/ /\ lockNo \notin need1 /\ lockNo \in need2
        /\ LET k == RunEnd2(lockNo, need1)
               locks == {j \in need2 : lockNo <= j /\ j < k}
           IN  /\ held' = [held EXCEPT ![p2] = @ \cup locks]
               /\ have2' = have2 \cup locks
               /\ need2' = need2 \ locks
               /\ lockNo' = k
        /\ UNCHANGED <<need1, have1>>
     \/ /\ lockNo \notin need1 \cup need2
        /\ lockNo' = lockNo + 1
        /\ UNCHANGED <<need1, have1, need2, have2, held>>
  /\ UNCHANGED <<arg, pc, p1, p2, unlockMask, refc1, refc2, refc>>

\* One turn of the lock loop at lock_no: a run of p1's locks up to and
\* including the next lock p2 needs, or a run of p2's locks up to the next
\* lock p1 needs, each taken by one erts_proc_lock() call.
LockRun ==
  /\ pc = "lock"
  /\ lockNo <= MaxBit
  /\ \/ /\ lockNo \in need1
        /\ LET k == RunEnd1(lockNo, need2)
               locks == {j \in need1 : lockNo <= j /\ j <= k}
           IN  /\ held' = [held EXCEPT ![p1] = @ \cup locks]
               /\ have1' = have1 \cup locks
               /\ need1' = need1 \ locks
               /\ lockNo' = IF k \in need2 THEN k ELSE k + 1
        /\ UNCHANGED <<need2, have2>>
     \/ /\ lockNo \notin need1 /\ lockNo \in need2
        /\ LET k == RunEnd2(lockNo, need1)
               locks == {j \in need2 : lockNo <= j /\ j < k}
           IN  /\ held' = [held EXCEPT ![p2] = @ \cup locks]
               /\ have2' = have2 \cup locks
               /\ need2' = need2 \ locks
               /\ lockNo' = k
        /\ UNCHANGED <<need1, have1>>
     \/ /\ lockNo \notin need1 \cup need2
        /\ lockNo' = lockNo + 1
        /\ UNCHANGED <<need1, have1, need2, have2, held>>
  /\ UNCHANGED <<arg, pc, p1, p2, unlockMask, refc1, refc2, refc>>

\* The loop is over: drop the pins taken.
Finish ==
  /\ pc = "lock"
  /\ lockNo > MaxBit
  /\ refc' = [p \in Procs |->
               refc[p] - (IF ~arg.managed /\ refc1 = 1 /\ p = p1 THEN 1 ELSE 0)
                       - (IF ~arg.managed /\ refc2 = 1 /\ p = p2 THEN 1 ELSE 0)]
  /\ pc' = "done"
  /\ UNCHANGED <<arg, p1, p2, need1, have1, need2, have2, unlockMask, lockNo,
                 refc1, refc2, held>>

Next == Order \/ Unlock1 \/ Unlock2 \/ LockRun \/ Finish

\* One call: it ends in pc = "done", where nothing more happens.
Spec == Init /\ [][Next]_vars

-----------------------------------------------------------------------------
(* Properties.                                                              *)

TypeOK ==
  /\ arg \in Args
  /\ pc \in {"order", "unlock1", "unlock2", "lock", "done"}
  /\ p1 \in Procs \cup {NoProc} /\ p2 \in Procs \cup {NoProc}
  /\ {need1, have1, need2, have2, unlockMask} \subseteq SUBSET Facets
  /\ lockNo \in 0 .. (MaxBit + 1) /\ refc1 \in {0, 1} /\ refc2 \in {0, 1}
  /\ held \in [Procs -> SUBSET Facets] /\ refc \in [Procs -> Nat]

\* The locks the caller asked to hold on return.
NeedAtCall(r) ==
  [p \in Procs |-> (IF p = r.a THEN r.aNeed ELSE {})
                   \cup (IF p = r.b THEN r.bNeed ELSE {})]

\* Lock c of process q comes before lock m of process p.
Before(q, c, p, m) == c < m \/ (c = m /\ q < p)

(* On return the thread holds exactly a_need_locks on a_proc and           *)
(* b_need_locks on b_proc (their union when they are the same process),    *)
(* and every reference count proc_safelock() took has been dropped: the    *)
(* asserts at the end of proc_safelock() and its contract.                 *)
SafelockResult ==
  pc = "done" => held = NeedAtCall(arg) /\ refc = [p \in Procs |-> 0]

(* Every erts_proc_lock() call proc_safelock() makes respects the lock      *)
(* order against every process lock the thread holds at that moment: no    *)
(* lock is taken after a lock that comes later in the order.               *)
LockOrder ==
  [][\A p \in Procs : \A m \in held'[p] \ held[p] :
       \A q \in Procs : \A c \in held[q] : Before(q, c, p, m)]_vars

(* An unmanaged thread never holds none of the locks of a process it had    *)
(* locks of without a reference on it: in that window the process could    *)
(* otherwise exit and be freed under the thread.                           *)
PinnedWhileUnlocked ==
  ~arg.managed =>
    \A p \in Procs : HeldAtCall(arg)[p] # {} /\ held[p] = {} => refc[p] > 0

(* Spec 4.6 step 3: the locks released are the ones strictly below the     *)
(* lowest lock either process still needs.                                 *)
ReleasesOnlyBelowNeeded ==
  [][\A p \in Procs : \A c \in held[p] \ held'[p] :
       \A q \in {p1, p2} \ {NoProc} :
         \A m \in (IF q = p1 THEN need1 ELSE need2) : c < m]_vars
=============================================================================
