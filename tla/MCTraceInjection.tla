-------------------------- MODULE MCTraceInjection --------------------------
(***************************************************************************)
(* TraceInjection for TLC: the contexts are interchangeable.               *)
(***************************************************************************)
EXTENDS TraceInjection, TLC

ContextSymmetry == Permutations(Contexts)
=============================================================================
