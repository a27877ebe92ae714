----------------------------- MODULE MCSafelock -----------------------------
(* Every call of proc_safelock() with two processes and four locks: a_proc  *)
(* absent, equal to b_proc, below or above it; every have/need pair; from  *)
(* managed and unmanaged threads.                                           *)
EXTENDS Safelock

MCProcs == {1, 2}
=============================================================================
