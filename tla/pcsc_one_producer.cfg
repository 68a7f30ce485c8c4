SPECIFICATION FairSpec
CONSTANTS
  Threads = {t1}
  Ctxs = {c1, c2}
  NoThread = NoThread
  Own = Own
  Count = 2
  SlotCap = 1
  CfgCap = 1
  Modes = {"continuous", "serialized"}
  FileDumps = {TRUE, FALSE}
  AtomicTracker = TRUE
  LateRecords = TRUE
  MayFail = {"hwfull", "other"}
  MaxRecords <- UnevenRecords
INVARIANT TypeOK
INVARIANT SlotOrder
INVARIANT PendingSlotsUsed
INVARIANT NoOverwrite
INVARIANT FreedWhenQuiet
INVARIANT NothingLost
INVARIANT SoloInv
INVARIANT StreamInv
PROPERTY ExitEnds
PROPERTY SlotObtained
PROPERTY StreamSpec
