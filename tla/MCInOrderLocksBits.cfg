CONSTANTS
  NFacets = 5
  Width = 30

SPECIFICATION Spec

INVARIANT InOrderLocksCorrect
