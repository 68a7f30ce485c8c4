SPECIFICATION FinFairSpec
CONSTANTS
  Threads = {t1}
  Blocks = {b1, b2}
INVARIANT FinTypeOK
INVARIANT AttachedWhenTracing
INVARIANT UserDataLive
INVARIANT RoundInv
PROPERTY DetachCompletes
PROPERTY ExitReleases
\* The process really may hang at exit: see ExitEnds.
CHECK_DEADLOCK FALSE
