----------------------------- MODULE MCSnapshot -----------------------------
(* Model-checking instance of Snapshot.  Each disjunct of Explored is an instance of its own. *)
EXTENDS Snapshot

Within(maxTerm, length, inFlight) ==
    /\ \A n \in Server : term[n] <= maxTerm /\ LastIndex(log[n]) <= length
    /\ Cardinality(msgs) <= inFlight

OneLeader == \A n, k \in Server : leads[n] /\ leads[k] => n = k

\* A node that has restarted does not know that what it has applied is committed.
Restarted(n) == commit[n] < LastApplied(n)

\* A node restarts when the next leader is about to be elected, or has been.
RestartsAreDeposed ==
    \A n \in Server : Restarted(n) =>
        \/ \E k \in Server : term[k] > term[n]
        \/ msgs = {} /\ \A k \in Server : ~leads[k]

CreateIsPartOfCompact == \A n \in Server : snap[n] # None => snap[n].index = applied[n].base

OneIsAway == \E n \in Server : term[n] = 0 /\ \A m \in msgs : m.dst # n

Explored ==
    \* logs that conflict beyond the boundary of a snapshot
    \/ Within(2, 2, 1) /\ OneLeader /\ RestartsAreDeposed /\ CreateIsPartOfCompact
    \* leaders of two terms at a time
    \/ Within(2, 1, 1)
    \* snapshots and entries that arrive late, between two of the nodes
    \/ Within(1, 2, 2) /\ OneIsAway

Symmetry == Permutations(Server)
=============================================================================
