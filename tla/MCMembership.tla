---------------------------- MODULE MCMembership ----------------------------
(***************************************************************************)
(* Model-checking instance of Membership with LeadershipTransfer on top.   *)
(* Each disjunct of Explored is an instance of its own.                    *)
(***************************************************************************)
EXTENDS LeadershipTransfer

CONSTANTS a, b, c

InitialVoters == {{a, b}, {a, b, c}}
ProposedVoters == {{c}, {a, b}, {a, b, c}}

Within(voters, targets, term, length) ==
    /\ bootstrap = voters
    /\ \A n \in Server : node[n].term <= term /\ LastIndex(node[n]) <= length
    /\ \A n \in Server : \A i \in DOMAIN node[n].log : node[n].log[i].cmd.voters \in targets \cup {{}}

OnlyMembership == \A n \in Server : \A i \in DOMAIN node[n].log : node[n].log[i].cmd # Other
NothingApplied == \A n \in Server : node[n].applied = 0
Live(nodes) == \A n \in nodes : node[n].alive
Away(n) == node[n].alive /\ node[n].term = 0

\* Messages stay for ever, so these tell who has ever run, and whose timer has expired.
OneOfTwoRuns == \E n \in {a, b} : \A m \in msgs : m.type = "RequestVote" => m.src # n
RunsFirst(n) == \A m \in msgs : m.type = "RequestVote" /\ m.term = 1 => m.src = n
Quiet(nodes) == \A m \in msgs : m.type = "PreVote" => m.src \notin nodes

OneCandidatePerTerm ==
    \A m, q \in msgs : {m.type, q.type} = {"RequestVote"} /\ m.term = q.term => m.src = q.src

Attempts(k) == nextAttempt <= k
NoTransfer == transfer = None /\ Attempts(0)

Explored ==
    \* a voter is added, and the leader changes on the way
    \/ /\ Within({a, b}, {{a, b, c}}, 2, 2)
       /\ Live(Server) /\ Quiet(Server) /\ NothingApplied /\ NoTransfer /\ OneCandidatePerTerm
    \* votes in flight while three voters become one
    \/ /\ Within({a, b, c}, {{c}}, 2, 2) /\ OnlyMembership
       /\ Live({a, b}) /\ Quiet(Server) /\ NothingApplied /\ NoTransfer /\ OneOfTwoRuns /\ RunsFirst(c)
    \* the timer and the restarts of a node that becomes a voter
    \/ Within({a, b}, {{c}}, 1, 1) /\ OnlyMembership /\ Live({a, b}) /\ Quiet({a, b}) /\ NothingApplied /\ NoTransfer
    \* snapshots and restarts while all voters are replaced
    \/ Within({a, b}, {{c}}, 1, 2) /\ Quiet(Server) /\ NoTransfer
    \* transfers while the configuration is replaced
    \/ Within({a, b}, {{a, b}}, 2, 1) /\ OnlyMembership /\ Away(c) /\ Quiet(Server) /\ NothingApplied
    \* retries of a transfer whose election does not end
    \/ Within({a, b}, {}, 3, 0) /\ Away(c) /\ Quiet(Server) /\ Attempts(1)
    \* a transfer that is decided without its source
    \/ Within({a, b, c}, {}, 2, 0) /\ Live(Server) /\ Quiet(Server) /\ Attempts(1) /\ RunsFirst(c)

Symmetry == Permutations({a, b})
=============================================================================
