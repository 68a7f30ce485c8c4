SPECIFICATION ProfSpec
CONSTANTS
  Launchers = {t1, t2}
  Contexts = {c1, c2}
  MaxNumRanges = 2
  MaxKernels = 3
  Shared = FALSE
  Reuse = FALSE
INVARIANT ProfTypeOK
INVARIANT SessionOpen
INVARIANT SessionSize
INVARIANT KernelsProfiled
PROPERTY PartialPrinted
