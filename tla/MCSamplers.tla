----------------------------- MODULE MCSamplers -----------------------------
(***************************************************************************)
(* The two programs with a sampling thread, for TLC.  A behaviour is one   *)
(* of either program, while the other one is not started.                  *)
(***************************************************************************)
EXTENDS PmSampling, EventSampling

VARIABLE program

vars == <<program, pmVars, evVars>>

Init == PmInit /\ EvInit /\ program \in {"pm_sampling", "event_sampling"}

Pm == program = "pm_sampling" /\ PmNext /\ UNCHANGED <<program, evVars>>
Ev == program = "event_sampling" /\ EvNext /\ UNCHANGED <<program, pmVars>>
Ended == (~PmRunning \/ ~EvRunning) /\ UNCHANGED vars
Next == Pm \/ Ev \/ Ended

Spec == /\ Init /\ [][Next]_vars
        /\ program = "pm_sampling" => PmFairness
        /\ program = "event_sampling" => EvFairness

TypeOK == PmTypeOK /\ EvTypeOK

\* The program that was started ends.
Ends == (program = "pm_sampling" => PmEnds) /\ (program = "event_sampling" => EvEnds)
=============================================================================
