-------------------------- MODULE InOrderLocksBits --------------------------
(***************************************************************************)
(* in_order_locks() of erl_process_lock.c on machine words.  The function  *)
(* isolates the lowest busy needed lock with busy & -busy and keeps the    *)
(* needed locks below it with lowest_busy - 1.  Both use the wrap-around of *)
(* the unsigned 32-bit ErtsProcLocks: -busy is 2^32 - busy, and when no    *)
(* needed lock is busy, 0 - 1 is the all-ones word.  The lock word given   *)
(* as in_use also carries the wait flags, ERTS_PROC_LOCK_WAITER_SHIFT bits *)
(* above the lock flags.  The state is one argument pair: every pair is    *)
(* initial, and a step is another thread setting or clearing one flag of   *)
(* the lock word before the spinner reads it again.                         *)
(***************************************************************************)
EXTENDS Integers, Bitwise

CONSTANTS
  NFacets,   \* ERTS_PROC_LOCK_MAX_BIT + 1
  Width      \* bits of the unsigned word (ErtsProcLocks is 32; TLC integers hold 30)

ASSUME NFacets \in 1 .. 8 /\ Width \in (2 * NFacets) .. 64

Word == 2 ^ Width
WaiterShift == NFacets              \* ERTS_PROC_LOCK_WAITER_SHIFT
LockWords == 0 .. (2 ^ (2 * NFacets) - 1)   \* lock flags and wait flags
NeedWords == 0 .. (2 ^ NFacets - 1)         \* need_locks: lock flags only

\* Unsigned arithmetic of the C code.
Neg(x) == (Word - x) % Word
Dec(x) == (x - 1 + Word) % Word

VARIABLES inUse, needLocks
vars == <<inUse, needLocks>>

\* A plausible slip: keeping the locks up to and including the lowest busy one.
InOrderLocksUpTo(in_use, need_locks) ==
  LET busy == in_use & need_locks
      lowest_busy == busy & Neg(busy)
  IN need_locks & ((lowest_busy * 2 - 1 + Word) % Word)

in_order_locks(in_use, need_locks) ==
  LET busy == in_use & need_locks
      lowest_busy == busy & Neg(busy)
  IN need_locks & Dec(lowest_busy)

Init == inUse \in LockWords /\ needLocks \in NeedWords

\* The slow path calls in_order_locks() again on a fresh read of the word.
Next == \E i \in 0 .. (2 * NFacets - 1) :
          /\ inUse' = inUse ^^ (2 ^ i)
          /\ UNCHANGED needLocks

Spec == Init /\ [][Next]_vars

-----------------------------------------------------------------------------
\* The set of lock numbers of a word.
Bits(x) == {i \in 0 .. (Width - 1) : (x \div 2 ^ i) % 2 = 1}

TypeOK == inUse \in LockWords /\ needLocks \in NeedWords

(* in_order_locks() computes the spec's in-order free set: of the needed   *)
(* locks, exactly those below every needed lock that is taken; with no     *)
(* needed lock taken (lowest_busy - 1 wrapping to all ones) every needed   *)
(* lock, and never a wait flag or a lock that is not needed.               *)
InOrderLocksCorrect ==
  LET need == Bits(needLocks)
      busy == Bits(inUse) \cap need
  IN Bits(in_order_locks(inUse, needLocks))
       = {b \in need : \A c \in busy : b < c}
=============================================================================
