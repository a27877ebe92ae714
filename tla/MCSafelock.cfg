CONSTANTS
  NFacets = 4
  Procs <- MCProcs
  NoProc = 0

SPECIFICATION Spec

INVARIANT TypeOK
INVARIANT SafelockResult
INVARIANT PinnedWhileUnlocked
PROPERTY LockOrder

CHECK_DEADLOCK FALSE
