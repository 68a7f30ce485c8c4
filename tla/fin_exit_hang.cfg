SPECIFICATION FinFairSpec
CONSTANTS
  Threads = {t1}
  Blocks = {b1, b2}
PROPERTY ExitEnds
\* The process really may hang at exit: see ExitEnds.
CHECK_DEADLOCK FALSE
