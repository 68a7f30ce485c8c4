-------------------------- MODULE MCSamplePrograms --------------------------
(***************************************************************************)
(* All the sample programs of the three families: the program is chosen at *)
(* the start, and runs alone.                                              *)
(***************************************************************************)
EXTENDS ProfilerSamples, CounterSamples, TraceSamples

MCDeviceIds == <<0, 2>>
\* Two sets of event groups: two groups of one and two events, one of one.
MCSets == <<<<1, 2>>, <<1>>>>

vars == <<base, profiler, counters, activity>>

Programs ==
  [p \in DOMAIN ProfilerPrograms \cup DOMAIN CounterPrograms \cup DOMAIN TracePrograms |->
     CASE p \in DOMAIN ProfilerPrograms -> ProfilerPrograms[p]
       [] p \in DOMAIN CounterPrograms -> CounterPrograms[p]
       [] p \in DOMAIN TracePrograms -> TracePrograms[p]]

Init ==
  /\ program \in DOMAIN Programs
  /\ todo = [t \in Threads |-> IF t = 0 THEN Programs[program] ELSE <<>>]
  /\ flags = {} /\ blocks = {} /\ contexts = {} /\ refused = {}
  /\ ProfilerInit /\ CounterInit /\ ActivityInit

ProfilerPart ==
  /\ program \in DOMAIN ProfilerPrograms /\ \E t \in Threads : ProfilerStep(t)
  /\ UNCHANGED <<counters, activity>>
CounterPart ==
  /\ program \in DOMAIN CounterPrograms /\ \E t \in Threads : CounterStep(t)
  /\ UNCHANGED <<profiler, activity>>
ActivityPart ==
  /\ program \in DOMAIN TracePrograms
  /\ (\E t \in Threads : ActivityStep(t)) \/ CuptiThread \/ OperationEnds
  /\ UNCHANGED <<profiler, counters>>

Next == ProfilerPart \/ CounterPart \/ ActivityPart \/ (Ended /\ UNCHANGED vars)
Spec == Init /\ [][Next]_vars
=============================================================================
