-------------------------- MODULE MCAnalysisQueue --------------------------
(* AnalysisQueue on a small instance. *)
EXTENDS AnalysisQueue, TLC

(* Requests and workers differ in nothing but their names. *)
ProcessSymmetry == Permutations(Workers) \cup Permutations(Requests)
=============================================================================
