SPECIFICATION ProfSpec
CONSTANTS
  Launchers = {t1, t2}
  Contexts = {c1}
  MaxNumRanges = 2
  MaxKernels = 4
  Shared = TRUE
  Reuse = FALSE
INVARIANT SessionSize
