CONSTANTS
  t1 = t1
  t2 = t2
  t3 = t3
  s1 = s1
  NoThread = NoThread
  Threads <- MCThreads
  Procs <- MCProcs
  Stripes <- MCStripes
  PixOf <- MCPixOf
  SpinBudget <- MCSpinBudgetZero
  Creator = t1
  NFacets = 3

SPECIFICATION Spec

PROPERTY FifoRefinement
