----------------------------- MODULE MCPid2Proc -----------------------------
(* Instantiates Pid2Proc: scheduler threads m and n, an unmanaged thread *)
(* u, two processes 1 and 2; each cfg picks its threads and bounds.       *)
EXTENDS Pid2Proc

CONSTANTS m, n, u

MCThreads == {m, u}
MCManaged == {m}

MCPids == {1, 2}

\* Every combination of ERTS_P2P_FLG_*, or none: a plain blocking lookup.
MCAllFlags == SUBSET Flags
MCPlainCall == {{}}

\* A plain lookup, or one that also takes a reference (ERTS_P2P_FLG_INC_REFC).
MCRefcCall == {{}, {"inc_refc"}}

\* Two schedulers, each running a process of its own.
MCSchedulers == {m, n}

\* Both pids in one slot: the second process reuses the first one's slot.
MCSlotShared == [q \in MCPids |-> 0]

\* A slot each: both processes can be in the table, one of them as c_p.
MCSlotEach == [q \in MCPids |-> q]
=============================================================================
