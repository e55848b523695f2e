------------------------------ MODULE MCRaftLog ------------------------------
(***************************************************************************)
(* Model-checking instance of RaftLog.  Each disjunct of Explored is an    *)
(* instance of its own, and one run explores them all.                     *)
(***************************************************************************)
EXTENDS RaftLog, TLC

Within(term, length, inFlight, index) ==
    /\ \A n \in Server : /\ currentTerm[n] <= term
                         /\ Len(log[n]) <= length
                         /\ Len(applied[n]) <= index
    /\ Cardinality(msgs) <= inFlight

OneAtATime == \A n, k \in Server : n # k => Follower \in {role[n], role[k]}

Explored ==
    \/ Within(2, 2, 1, 0) /\ OneAtATime     \* conflicts in the middle of a log
    \/ Within(4, 1, 1, 1) /\ OneAtATime     \* an entry of an old term: appended, lost, carried on, overwritten
    \/ Within(2, 1, 1, 1)                   \* leaders of two terms at a time
    \/ Within(1, 2, 1, 2) /\ OneAtATime     \* application, and restarts in the middle of it
    \/ Within(1, 1, 2, 0)                   \* a late request that meets a newer one

Symmetry == Permutations(Server)
=============================================================================
