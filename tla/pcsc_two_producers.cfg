SPECIFICATION Spec
CONSTANTS
  Threads = {t1, t2}
  Ctxs = {c1}
  NoThread = NoThread
  Own = Own
  Count = 2
  SlotCap = 1
  CfgCap = 1
  Modes = {"continuous"}
  FileDumps = {TRUE}
  AtomicTracker = FALSE
  LateRecords = TRUE
  MayFail = {"hwfull", "other"}
  MaxRecords <- OneRecord
SYMMETRY ThreadSymmetry
INVARIANT LockOwner
INVARIANT FreedWhenQuiet
