------------------------------ MODULE MCMemory ------------------------------
(* A legacy feedback, and a new one against it.                           *)
EXTENDS Memory, TLC

MCSuggestion == [old |-> "s1", against |-> "ignore"]
Symmetry == Permutations(Writers)

=============================================================================
