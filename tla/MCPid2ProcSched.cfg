\* Two schedulers, each calling on behalf of the process it runs (c_p), so
\* that each can hold its own main lock while it wants the other's: a slot
\* per process, two locks, one call each, plain and reference-taking
\* lookups, in a build without and one with lock checking.
CONSTANTS
  m = m
  n = n
  u = u
  NoProc = NoProc
  Busy = Busy
  Env = Env
  NoOwner = NoOwner
  Threads <- MCSchedulers
  Managed <- MCSchedulers
  Pids <- MCPids
  NFacets = 2
  MaxCalls = 1
  CallerProcs <- MCPids
  SlotOf <- MCSlotEach
  CallFlags <- MCRefcCall
  LcBuilds = {FALSE, TRUE}

SPECIFICATION FairSpec

INVARIANT ReturnedLive
INVARIANT RefcBalanced
PROPERTY LockCheckOrder
PROPERTY LookupReturns
