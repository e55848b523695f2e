------------------------- MODULE MCElectionAndSlots -------------------------
(***************************************************************************)
(* Model-checking instance of two protocols that share no state: elections *)
(* and the slots of the Paxos log.  A behaviour is one of a single part,   *)
(* the other stays as it was built.                                        *)
(***************************************************************************)
EXTENDS RaftElection, PaxosLog

CONSTANT MaxMessages    \* bound: how many distinct messages elections ever send

VARIABLE part           \* the part that runs

partVars == <<electionVars, vars, part>>

PartInit == ElectionInit /\ Init /\ part \in {"elections", "slots"}

Elections == part = "elections" /\ ElectionNext /\ UNCHANGED vars
Slots == part = "slots" /\ Next /\ UNCHANGED electionVars

PartSpec == PartInit /\ [][(Elections \/ Slots) /\ UNCHANGED part]_partVars

MessageBound == Cardinality(messages) <= MaxMessages

\* Each disjunct is an instance of its own.
SlotsExplored ==
    \* two proposers that compete for the first slot
    \/ \A p \in numbers : p.slot = 1 /\ p.number.round = 1
    \* two slots and a second round, while node 3 gets no message
    \/ \A s \in Slot : promised[3][s] = NoProposal /\ learned[3][s] = Nothing

Explored == MessageBound /\ SlotsExplored

Symmetry == Permutations(NodeId) \cup Permutations(Value)
=============================================================================
