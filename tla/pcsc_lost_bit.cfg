SPECIFICATION FairSpec
CONSTANTS
  Threads = {t1}
  Ctxs = {c1}
  NoThread = NoThread
  Own = Own
  Count = 2
  SlotCap = 1
  CfgCap = 1
  Modes = {"serialized"}
  FileDumps = {TRUE}
  AtomicTracker = FALSE
  LateRecords = FALSE
  MayFail = {}
  MaxRecords <- ThreeRecords
PROPERTY ExitEnds
