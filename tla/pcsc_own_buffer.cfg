SPECIFICATION Spec
CONSTANTS
  Threads = {t1}
  Ctxs = {c1, c2}
  NoThread = NoThread
  Own = Own
  Count = 2
  SlotCap = 1
  CfgCap = 1
  Modes = {"continuous", "serialized"}
  FileDumps = {TRUE}
  AtomicTracker = TRUE
  LateRecords = TRUE
  MayFail = {}
  MaxRecords <- TwoRecords
INVARIANT UsedSlotsMarked
