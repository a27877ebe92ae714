CONSTANTS
  t1 = t1
  t2 = t2
  t3 = t3
  s1 = s1
  NoThread = NoThread
  Threads <- MCThreads
  Procs <- MCProcs
  Stripes <- MCStripes
  PixOf <- MCPixOf
  SpinBudget <- MCSpinBudget
  Creator = t1
  NFacets = 2

SPECIFICATION Spec

INVARIANT LockOwnership
INVARIANT WaitFlagParity
INVARIANT SleeperAccounted
INVARIANT InOrderAcquisition
