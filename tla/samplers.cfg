SPECIFICATION Spec
CONSTANTS
  HardwareBuffer = 3
  MaxSamples = 2
  Iterations = 2
  Printed = 2
  MaxTaken = 6
  Kernels = 3
INVARIANTS TypeOK EvaluatedOnce PrintedAfterJoin EventsAddUp
PROPERTY Ends
