---------------------------- MODULE MCStaleLeader ----------------------------
(***************************************************************************)
(* Four-node instance of Membership.  c leads term 1, with one entry, and  *)
(* a leads term 2 and replaces the voter b by the learner d.  All nodes    *)
(* stay up, nothing is applied, and c never hears of term 2.             *)
(***************************************************************************)
EXTENDS Membership

CONSTANTS a, b, c, d

InitialVoters == {{a, b, c}}
ProposedVoters == {{a, c, d}}

RunsFor(n, t) == \A m \in msgs : m.type = "RequestVote" /\ m.term = t => m.src = n

FromTerm(n, kinds) == \A i \in DOMAIN node[n].log : node[n].log[i].cmd.kind \in kinds[node[n].log[i].term]

Explored ==
    /\ \A n \in Server : node[n].alive /\ node[n].applied = 0
    /\ \A m \in msgs : m.type # "PreVote"
    /\ RunsFor(c, 1) /\ RunsFor(a, 2)
    /\ node[c].term <= 1 /\ LastIndex(node[c]) <= 1
    /\ \A n \in Server : FromTerm(n, <<{"other"}, {"joint", "stable"}>>)
=============================================================================
