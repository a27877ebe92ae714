CONSTANTS
  NFacets = 4
  Procs <- MCProcs
  NoProc = 0

SPECIFICATION Spec

PROPERTY ReleasesOnlyBelowNeeded

CHECK_DEADLOCK FALSE
