CONSTANTS
  m = m
  n = n
  u = u
  NoProc = NoProc
  Busy = Busy
  Env = Env
  NoOwner = NoOwner
  Threads <- MCThreads
  Managed <- MCManaged
  Pids <- MCPids
  NFacets = 2
  MaxCalls = 1
  CallerProcs = {NoProc}
  SlotOf <- MCSlotShared
  CallFlags <- MCAllFlags
  LcBuilds = {FALSE}

SPECIFICATION Spec

INVARIANT TypeOK
INVARIANT NoUseAfterFree
INVARIANT ReturnedLive
