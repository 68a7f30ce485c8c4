SPECIFICATION Spec
CONSTANTS
  Threads = {t1, t2}
  Ctxs = {c1, c2}
  NoThread = NoThread
  Own = Own
  Count = 2
  SlotCap = 1
  CfgCap = 1
  Modes = {"serialized"}
  FileDumps = {TRUE}
  AtomicTracker = TRUE
  LateRecords = FALSE
  MayFail = {}
  MaxRecords <- TwoRecords
SYMMETRY ThreadSymmetry
INVARIANT UsedSlotsMarked
