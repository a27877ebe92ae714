----------------------------- MODULE MCProcLock -----------------------------
(* Instantiates ProcLock for TLC: one process with three locks (enough for  *)
(* a waiter to be moved from one queue to another by a transfer and for    *)
(* in_order_locks() to skip a lock), three threads, one pix lock.  Thread t1 *)
(* created the process; t3 is an auxiliary thread with no spin budget (the  *)
(* single-CPU case: contention goes straight to sleeping); t1 and t2 spin   *)
(* once before sleeping.                                                    *)
EXTENDS ProcLock

CONSTANTS t1, t2, t3, s1

MCThreads == {t1, t2, t3}
MCProcs == {1}
MCStripes == {s1}
MCPixOf == [p \in MCProcs |-> s1]
MCSpinBudget == [t \in MCThreads |-> IF t = t3 THEN 0 ELSE 1]
\* No thread spins: a thread that finds nothing to grab sleeps at once.
MCSpinBudgetZero == [t \in MCThreads |-> 0]
=============================================================================
