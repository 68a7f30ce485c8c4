----------------------- MODULE MCPcSamplingContinuous -----------------------
EXTENDS PcSamplingContinuous, TLC

\* Bounds of the records: the same for every context, or more of one of them.
OneRecord == [c \in Ctxs |-> 1]
TwoRecords == [c \in Ctxs |-> 2]
ThreeRecords == [c \in Ctxs |-> 3]
UnevenRecords == [c \in Ctxs |-> IF c = NoEntry.ctx THEN 2 ELSE 1]

\* The application's threads are interchangeable (for runs of invariants only).
ThreadSymmetry == Permutations(Threads)
=============================================================================
