------------------------ MODULE SamplePrograms_proofs ------------------------
(***************************************************************************)
(* What the three families of sample programs have in common: no call is   *)
(* refused and everything is released, whichever program runs.  The proofs *)
(* are those of the families; a program stays in its own.                  *)
(***************************************************************************)
EXTENDS CounterSamples_proofs, ProfilerSamples_proofs

\* A program stays what it is.
LEMMA ProgramRuns == Spec => [](program \in DOMAIN Programs)
<1>1. Init => program \in DOMAIN Programs BY DEF Init
<1>2. program \in DOMAIN Programs /\ [Next]_vars => (program \in DOMAIN Programs)'
  <2> SUFFICES ASSUME program \in DOMAIN Programs, [Next]_vars PROVE (program \in DOMAIN Programs)' OBVIOUS
  <2>1. program' = program BY ProgramKept
  <2>2. (DOMAIN Programs)' = DOMAIN Programs BY DEF Programs
  <2> QED BY <2>1, <2>2
<1> QED BY <1>1, <1>2, PTL DEF Spec

\* Every program is one of the three families.
LEMMA ProgramIsOfAFamily ==
  ASSUME program \in DOMAIN Programs
  PROVE  program \in DOMAIN ProfilerPrograms \cup DOMAIN CounterPrograms \cup DOMAIN TracePrograms
BY DEF Programs

\* CallsAccepted always holds, for every program of the three families: the arrays, contexts, subscribers,
\* sessions, passes, ranges, groups and checkpoints of a sample are opened, used and closed in an order their
\* interface allows, on every path, in every repetition and any interleaving of its threads.
THEOREM EveryCallAccepted == Spec => []CallsAccepted
<1>1. /\ program \in DOMAIN Programs
      /\ program \in DOMAIN ProfilerPrograms => CallsAccepted
      /\ program \in DOMAIN CounterPrograms => CallsAccepted
      /\ program \in DOMAIN TracePrograms => CallsAccepted
      => CallsAccepted
  BY ProgramIsOfAFamily
<1> QED BY <1>1, ProgramRuns, ProfilerCallsAccepted, CounterCallsAccepted, TraceCallsAccepted, PTL

\* EverythingReleased always holds: a sample that ends as it should, giving up on no call, has ended its
\* sessions and freed all the arrays that its code frees at all (LeftAtExit are those it never frees).
THEOREM EverythingIsReleased == Spec => []EverythingReleased
<1>1. /\ program \in DOMAIN Programs
      /\ program \in DOMAIN ProfilerPrograms => EverythingReleased
      /\ program \in DOMAIN CounterPrograms => EverythingReleased
      /\ program \in DOMAIN TracePrograms => EverythingReleased
      => EverythingReleased
  BY ProgramIsOfAFamily
<1> QED BY <1>1, ProgramRuns, ProfilerReleased, CounterReleased, TraceArraysReleased, PTL
=============================================================================
