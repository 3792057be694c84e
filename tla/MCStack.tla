------------------------------ MODULE MCStack -------------------------------
(* The instance of Stack for TLC: four interchangeable nodes, two words.   *)
EXTENDS Stack, TLC

NodeSymmetry == Permutations(Nodes)
=============================================================================
