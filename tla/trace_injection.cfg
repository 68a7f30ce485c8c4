SPECIFICATION Spec
CONSTANTS
  Threads = {t1, t2}
  Initializers = {t1}
  Contexts = {c1, c2}
  ContextKinds = {kernel}
  GlobalKinds = {runtime}
  UnknownKind = unknown
  Capacity = 2
  MaxRecords = 3
SYMMETRY ContextSymmetry
INVARIANTS TypeOK ProfiledIsTraced NoErrorCarriedOver AtExitFlushes
