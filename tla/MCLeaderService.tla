---------------------------- MODULE MCLeaderService ----------------------------
(* Model-checking instance of LeaderService.  Each disjunct of Explored is an instance of its own. *)
EXTENDS LeaderService

Kind == IF op = None THEN None ELSE op.kind

Within(maxTerm, length, inFlight, kinds) ==
    LET heartbeats == IF Kind = "check" THEN Cardinality(Server) - 1 ELSE 0
    IN  /\ \A n \in Server : term[n] <= maxTerm /\ Len(log[n]) <= length
        /\ Cardinality(msgs) <= inFlight + heartbeats
        /\ Kind \in kinds \cup {None}

NoWrites == \A n \in Server : \A i \in DOMAIN log[n] : log[n][i].command = Barrier

\* Between operations, and while heartbeats are out, only answers with these outcomes are late.
Late(outcomes) ==
    Kind \in {None, "check"} => \A m \in msgs :
        \/ m.type = "Response" /\ (m.fresh \/ m.outcome \in outcomes)
        \/ m.type = "AppendEntries" /\ Kind = "check" /\ m.entries = <<>>

Explored ==
    \* writes, their retries, and reads on the next leader
    \/ Within(2, 2, 1, {"write", "read"}) /\ Late({})
    \* the late answer to an earlier read's probe
    \/ Within(2, 1, 2, {"read"}) /\ NoWrites /\ Late({"ok", "no"})
    \* a late rejection that reaches a CheckQuorum round
    \/ Within(2, 1, 1, {"read", "check"}) /\ NoWrites /\ Late({"no"})

Symmetry == Permutations(Server)
=============================================================================
