\* Three sleepers so that a woken thread can re-queue behind another waiter
\* while a third is still on a wake list; two releasers with wake lists.
CONSTANTS
  Sleepers = {s1, s2, s3}
  Wakers = {w1, w2}
  Nil = Nil
SPECIFICATION FairSpec
INVARIANT WakeAccounted

