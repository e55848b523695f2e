------------------------------- MODULE MCPaxos -------------------------------
(* Model-checking instances of Paxos. *)
EXTENDS Paxos, TLC

Symmetry == Permutations(Value)
=============================================================================
