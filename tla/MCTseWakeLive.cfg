\* Liveness needs no symmetry and is slower: two sleepers, so that one can
\* re-queue while the other is on the wake list, and two releasers.
CONSTANTS
  Sleepers = {s1, s2}
  Wakers = {w1, w2}
  Nil = Nil
SPECIFICATION FairSpec
PROPERTY WokenUp
