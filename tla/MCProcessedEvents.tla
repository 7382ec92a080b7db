-------------------------- MODULE MCProcessedEvents --------------------------
(* ProcessedEvents with two events and a clock that outlives the set.      *)
EXTENDS ProcessedEvents, TLC

Symmetry == Permutations(Events) \cup Permutations(Workers)
=============================================================================
