---------------------------- MODULE MCProcLock2 ----------------------------
(* ProcLock with two processes that hash to the same pix lock, two locks   *)
(* each and three threads: threads lock across processes in the global     *)
(* lock order (the order proc_safelock() keeps), and the transfer on one   *)
(* process serialises with parking on the other through the shared stripe. *)
EXTENDS ProcLock

CONSTANTS t1, t2, t3, s1

MCThreads == {t1, t2, t3}
MCProcs == {1, 2}
MCStripes == {s1}
MCPixOf == [p \in MCProcs |-> s1]
MCSpinBudget == [t \in MCThreads |-> IF t = t3 THEN 0 ELSE 1]
=============================================================================
