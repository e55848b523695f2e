---------------------------- MODULE MCMultiPaxos ----------------------------
(* Model-checking instance of MultiPaxos.  Each disjunct of Explored is an instance of its own. *)
EXTENDS MultiPaxos, TLC

Leaders == {m.ballot.proposer : m \in msgs}

Uses(slots, rounds) ==
    \A m \in msgs : m.ballot.round \in rounds /\ (m.type \in {"Prepare", "Promise"} \/ m.slot \in slots)

Explored ==
    \* two leaders that compete for the first slot
    \/ Uses({1}, {1}) /\ Leaders \subseteq {1, 2}
    \* a leader whose caller chooses the slot
    \/ Uses({1}, {1}) /\ Leaders \subseteq {3}
    \* one leader with two slots and a second round, while node 3 gets no message
    \/ Leaders \subseteq {1} /\ promised[3] = NoBallot /\ \A s \in Slot : learned[3][s] = Nothing

Symmetry == Permutations(Value)
=============================================================================
