----------------------- MODULE LeadershipTransferProofs -----------------------
(***************************************************************************)
(* Transfers of leadership are fenced, for every set of nodes, every       *)
(* change of membership and every order of events.                         *)
(*                                                                         *)
(* Two facts about the nodes carry the proof: a term never goes down, and  *)
(* within a term a node that is a follower stays one (Evolves).  An        *)
(* attempt is active only while its transfer waits for it, and the         *)
(* election that its TimeoutNow starts moves the transferee beyond the     *)
(* term that the TimeoutNow names.                                         *)
(***************************************************************************)
EXTENDS LeadershipTransfer, TLAPS

Fields == {"alive", "term", "vote", "role", "votes", "preTerm", "preVotes", "armed", "commit", "log",
           "base", "snap", "mark", "applied", "match"}

\* The state of a node, as far as transfers are concerned: a node that is down is a follower.
IsNode(r) ==
    /\ DOMAIN r = Fields
    /\ r.term \in Nat
    /\ r.role \in {Follower, Candidate, Leader}
    /\ r.role # Follower => r.alive

\* s is a state that a node may have after r.
Evolves(r, s) ==
    /\ IsNode(s)
    /\ s.term >= r.term
    /\ s.term = r.term =>
        /\ s.role = Leader => r.role \in {Candidate, Leader}
        /\ s.role = Candidate => r.role = Candidate

IsNodeMap(nd) == DOMAIN nd = Server /\ \A n \in Server : IsNode(nd[n])

AllEvolve(f, g) == IsNodeMap(g) /\ \A n \in Server : Evolves(f[n], g[n])

MessageTerms == \A m \in msgs : m.term \in Nat

-----------------------------------------------------------------------------
(* The operators on the state of a node *)

LEMMA EvolvesIsTransitive ==
    ASSUME NEW r, NEW s, NEW u, IsNode(r), Evolves(r, s), Evolves(s, u)
    PROVE  Evolves(r, u)
BY DEF Evolves, IsNode, Follower, Candidate, Leader

LEMMA AllEvolveIsTransitive ==
    ASSUME NEW f, NEW g, NEW h, IsNodeMap(f), AllEvolve(f, g), AllEvolve(g, h)
    PROVE  AllEvolve(f, h)
BY EvolvesIsTransitive DEF AllEvolve, IsNodeMap

LEMMA EvolvesIsReflexive ==
    ASSUME NEW r, IsNode(r)
    PROVE  Evolves(r, r)
BY DEF Evolves, IsNode, Follower, Candidate, Leader

LEMMA NodeOperators ==
    ASSUME NEW r, IsNode(r)
    PROVE  /\ Evolves(r, ClearPreVote(r))
           /\ Evolves(r, BecomeFollower(r))
           /\ Evolves(r, DisableElectionTimeout(r))
           /\ \A v \in BOOLEAN : Evolves(r, ResetElectionTimeout(r, v))
           /\ \A t \in Nat : t >= r.term => Evolves(r, AdvanceTerm(r, t)) /\ AdvanceTerm(r, t).term = t
<1>1. Evolves(r, ClearPreVote(r))
  BY DEF ClearPreVote, Evolves, IsNode, Fields, Follower, Candidate, Leader
<1>2. Evolves(r, BecomeFollower(r))
  BY DEF BecomeFollower, Evolves, IsNode, Fields, Follower, Candidate, Leader
<1>3. Evolves(r, DisableElectionTimeout(r))
  BY DEF DisableElectionTimeout, ClearPreVote, BecomeFollower, Evolves, IsNode, Fields, Follower, Candidate, Leader
<1>4. ASSUME NEW v \in BOOLEAN PROVE Evolves(r, ResetElectionTimeout(r, v))
  BY <1>3 DEF ResetElectionTimeout, Evolves, IsNode, Fields, Follower, Candidate, Leader
<1>5. ASSUME NEW t \in Nat, t >= r.term PROVE Evolves(r, AdvanceTerm(r, t)) /\ AdvanceTerm(r, t).term = t
  BY <1>5 DEF AdvanceTerm, ClearPreVote, BecomeFollower, Evolves, IsNode, Fields, Follower, Candidate, Leader
<1> QED BY <1>1, <1>2, <1>3, <1>4, <1>5

\* An update of one node
LEMMA UpdateEvolves ==
    ASSUME NEW nd, IsNodeMap(nd), NEW n \in Server, NEW r, Evolves(nd[n], r)
    PROVE  AllEvolve(nd, [nd EXCEPT ![n] = r])
BY EvolvesIsReflexive DEF AllEvolve, IsNodeMap, Evolves

LEMMA NoStepEvolves ==
    ASSUME NEW nd, IsNodeMap(nd)
    PROVE  AllEvolve(nd, nd)
BY EvolvesIsReflexive DEF AllEvolve, IsNodeMap

-----------------------------------------------------------------------------
(* The commit rule *)

LEMMA InstallConfigurationEvolves ==
    ASSUME NEW nd, IsNodeMap(nd), NEW c
    PROVE  AllEvolve(nd, InstallConfiguration(nd, c))
<1> DEFINE g == InstallConfiguration(nd, c)
<1>1. DOMAIN g = Server
  BY DEF InstallConfiguration
<1>2. ASSUME NEW k \in Server PROVE Evolves(nd[k], g[k])
  <2>1. IsNode(nd[k])
    BY DEF IsNodeMap
  <2>2. CASE k \in Voters(config) \ Voters(c)
    <3>1. g[k] = DisableElectionTimeout(nd[k])
      BY <2>2 DEF InstallConfiguration
    <3> QED BY <2>1, <3>1, NodeOperators
  <2>3. CASE k \in Voters(c) \ Voters(config)
    <3>1. g[k] = ResetElectionTimeout(nd[k], TRUE)
      BY <2>3 DEF InstallConfiguration
    <3> QED BY <2>1, <3>1, NodeOperators
  <2>4. CASE k \notin Voters(config) \ Voters(c) /\ k \notin Voters(c) \ Voters(config)
    <3>1. g[k] = nd[k]
      BY <2>4 DEF InstallConfiguration
    <3> QED BY <2>1, <3>1, EvolvesIsReflexive
  <2> QED BY <2>2, <2>3, <2>4
<1> QED BY <1>1, <1>2 DEF AllEvolve, IsNodeMap, Evolves

LEMMA PersistWatermarkEvolves ==
    ASSUME NEW nd, IsNodeMap(nd), NEW i, NEW cmd
    PROVE  AllEvolve(nd, PersistWatermark(nd, i, cmd))
<1> DEFINE g == PersistWatermark(nd, i, cmd)
<1>1. DOMAIN g = Server
  BY DEF PersistWatermark
<1>2. ASSUME NEW k \in Server PROVE Evolves(nd[k], g[k])
  <2>1. IsNode(nd[k])
    BY DEF IsNodeMap
  <2>2. g[k] = nd[k] \/ g[k] = [nd[k] EXCEPT !.mark = i]
    BY DEF PersistWatermark
  <2>3. Evolves(nd[k], [nd[k] EXCEPT !.mark = i])
    BY <2>1 DEF Evolves, IsNode, Fields, Follower, Candidate, Leader
  <2> QED BY <2>1, <2>2, <2>3, EvolvesIsReflexive
<1> QED BY <1>1, <1>2 DEF AllEvolve, IsNodeMap, Evolves

LEMMA AdvanceEvolves ==
    ASSUME NEW nd, IsNodeMap(nd), NEW n \in Server, Advance(nd, n)
    PROVE  AllEvolve(nd, node')
<1> DEFINE i == CommitTarget(nd, n)
           committed == [nd EXCEPT ![n].commit = i]
           news == MembershipCommands(nd[n], DurableIndex(nd), i)
           x == Max(news)
           cmd == nd[n].log[x].cmd
           marked == PersistWatermark(committed, x, cmd)
<1>1. Evolves(nd[n], [nd[n] EXCEPT !.commit = i])
  BY DEF IsNodeMap, Evolves, IsNode, Fields, Follower, Candidate, Leader
<1>2. AllEvolve(nd, committed)
  BY <1>1, UpdateEvolves
<1>3. node' = committed \/ node' = InstallConfiguration(marked, After(config, cmd))
  BY DEF Advance
<1>4. AllEvolve(committed, marked)
  BY <1>2, PersistWatermarkEvolves DEF AllEvolve
<1>5. AllEvolve(marked, InstallConfiguration(marked, After(config, cmd)))
  BY <1>4, InstallConfigurationEvolves DEF AllEvolve
<1>6. AllEvolve(nd, InstallConfiguration(marked, After(config, cmd)))
  <2>1. AllEvolve(nd, marked)
    BY <1>2, <1>4, AllEvolveIsTransitive
  <2> QED BY <2>1, <1>5, AllEvolveIsTransitive
<1> QED BY <1>2, <1>3, <1>6

-----------------------------------------------------------------------------
(* The cluster *)

Nodes == IsNodeMap(node) /\ MessageTerms

\* What every step of the cluster keeps
NodesEvolve == AllEvolve(node, node') /\ MessageTerms'

LEMMA ElectEvolves ==
    ASSUME Nodes, NEW n \in Server, node[n].alive, Elect(n)
    PROVE  NodesEvolve /\ node'[n].term = node[n].term + 1
<1> DEFINE t == node[n].term + 1
           b == [ClearPreVote(node[n]) EXCEPT !.term = t, !.vote = n, !.role = Candidate, !.votes = {n}]
           r == ResetElectionTimeout(b, TRUE)
<1>1. IsNode(node[n])
  BY DEF Nodes, IsNodeMap
<1>2. /\ Evolves(node[n], r) /\ r.term = t
      /\ Evolves(node[n], BecomeLeader(r)) /\ BecomeLeader(r).term = t
  <2>1. DOMAIN b = Fields /\ b.term = t /\ b.role = Candidate /\ b.alive = node[n].alive
    BY <1>1 DEF ClearPreVote, IsNode, Fields
  <2>2. DOMAIN r = Fields /\ r.term = t /\ r.role = Candidate /\ r.alive = node[n].alive
    <3> HIDE DEF b
    <3> QED BY <2>1 DEF ResetElectionTimeout, Fields
  <2>3. /\ DOMAIN BecomeLeader(r) = Fields /\ BecomeLeader(r).term = t /\ BecomeLeader(r).role = Leader
        /\ BecomeLeader(r).alive = node[n].alive
    <3> HIDE DEF r
    <3> QED BY <2>2 DEF BecomeLeader, ClearPreVote, Fields
  <2> HIDE DEF r
  <2> QED BY <1>1, <2>2, <2>3 DEF Evolves, IsNode, Follower, Candidate, Leader
<1>3. /\ node' = [node EXCEPT ![n] = r] \/ node' = [node EXCEPT ![n] = BecomeLeader(r)]
      /\ msgs' = msgs \/ msgs' = msgs \cup {Request("RequestVote", n, t)}
  BY DEF Elect
<1>4. AllEvolve(node, [node EXCEPT ![n] = r]) /\ AllEvolve(node, [node EXCEPT ![n] = BecomeLeader(r)])
  BY <1>2, UpdateEvolves DEF Nodes
<1>5. node'[n].term = t
  BY <1>2, <1>3 DEF Nodes, IsNodeMap
<1>6. Request("RequestVote", n, t).term = t /\ t \in Nat
  BY <1>1 DEF Request, Message, IsNode
<1>7. \A m \in msgs' : m.term \in Nat
  BY <1>3, <1>6 DEF Nodes, MessageTerms
<1>8. AllEvolve(node, node')
  BY <1>3, <1>4
<1> QED BY <1>5, <1>7, <1>8 DEF NodesEvolve, MessageTerms

LEMMA ElectionsEvolve ==
    ASSUME Nodes, NEW n \in Server,
           \/ StartElection(n)
           \/ HandleElectionTimeout(n)
           \/ \E m \in msgs : HandlePreVote(n, m)
           \/ \E m \in msgs : HandlePreVoteResponse(n, m)
           \/ \E m \in msgs : HandleRequestVote(n, m)
           \/ \E m \in msgs : HandleRequestVoteResponse(n, m)
    PROVE  NodesEvolve
<1>0. IsNodeMap(node) /\ IsNode(node[n]) /\ \A m \in msgs : m.term \in Nat
  BY DEF Nodes, IsNodeMap, MessageTerms
<1>1. CASE StartElection(n)
  BY <1>1, ElectEvolves DEF StartElection
<1>2. CASE HandleElectionTimeout(n)
  <2> DEFINE p == [node[n] EXCEPT !.preTerm = node[n].term + 1, !.preVotes = {n}]
  <2>1. CASE Elect(n)
    BY <1>2, <2>1, ElectEvolves DEF HandleElectionTimeout
  <2>2. CASE /\ node' = [node EXCEPT ![n] = ResetElectionTimeout(p, TRUE)]
             /\ msgs' = msgs \cup {Request("PreVote", n, p.preTerm)}
    <3>1. Evolves(node[n], ResetElectionTimeout(p, TRUE))
      BY <1>0 DEF ResetElectionTimeout, Evolves, IsNode, Fields, Follower, Candidate, Leader
    <3>2. p.preTerm \in Nat
      BY <1>0 DEF IsNode, Fields
    <3>3. Request("PreVote", n, p.preTerm).term \in Nat
      BY <3>2 DEF Request, Message
    <3> QED BY <1>0, <2>2, <3>1, <3>3, UpdateEvolves DEF NodesEvolve, MessageTerms
  <2> QED BY <1>2, <2>1, <2>2 DEF HandleElectionTimeout
<1>3. ASSUME NEW m \in msgs, HandlePreVote(n, m) PROVE NodesEvolve
  <2>1. \A g : Message("PreVoteResponse", n, m.src, node[n].term, m.term, g).term \in Nat
    BY <1>0 DEF Message, IsNode
  <2>2. \A q \in msgs' : q.term \in Nat
    BY <1>0, <1>3, <2>1 DEF HandlePreVote, Sent
  <2> QED BY <1>0, <1>3, <2>2, NoStepEvolves DEF HandlePreVote, NodesEvolve, MessageTerms
<1>4. ASSUME NEW m \in msgs, HandlePreVoteResponse(n, m) PROVE NodesEvolve
  <2>1. CASE Elect(n)
    BY <1>4, <2>1, ElectEvolves DEF HandlePreVoteResponse
  <2>2. CASE /\ m.term > node[n].term
             /\ node' = [node EXCEPT ![n] = AdvanceTermAndRearm(node[n], m.term, TRUE)] /\ msgs' = msgs
    <3>1. Evolves(node[n], AdvanceTermAndRearm(node[n], m.term, TRUE))
      <4>1. Evolves(node[n], AdvanceTerm(node[n], m.term))
        BY <1>0, <2>2, NodeOperators DEF IsNode
      <4>2. Evolves(AdvanceTerm(node[n], m.term), ResetElectionTimeout(AdvanceTerm(node[n], m.term), TRUE))
        BY <4>1, NodeOperators DEF Evolves
      <4> QED BY <1>0, <4>1, <4>2, EvolvesIsTransitive DEF AdvanceTermAndRearm
    <3> QED BY <1>0, <2>2, <3>1, UpdateEvolves DEF NodesEvolve, MessageTerms
  <2>3. ASSUME NEW v, node' = [node EXCEPT ![n].preVotes = v], msgs' = msgs
        PROVE  NodesEvolve
    <3>1. Evolves(node[n], [node[n] EXCEPT !.preVotes = v])
      BY <1>0 DEF Evolves, IsNode, Fields, Follower, Candidate, Leader
    <3> QED BY <1>0, <2>3, <3>1, UpdateEvolves DEF NodesEvolve, MessageTerms
  <2> QED BY <1>4, <2>1, <2>2, <2>3 DEF HandlePreVoteResponse
<1>5. ASSUME NEW m \in msgs, HandleRequestVote(n, m) PROVE NodesEvolve
  <2> DEFINE newer == IsVoter(m.src) /\ m.term > node[n].term
             r == IF newer THEN AdvanceTerm(node[n], m.term) ELSE node[n]
             grant == /\ IsVoter(n) /\ IsVoter(m.src)
                      /\ m.term = r.term /\ UpToDate(m, r) /\ r.vote \in {None, m.src}
             granted == ResetElectionTimeout(ClearPreVote([r EXCEPT !.vote = m.src, !.role = Follower]), TRUE)
             refused == IF newer /\ node[n].role = Leader THEN ResetElectionTimeout(r, IsVoter(n)) ELSE r
  <2>0. /\ node[n].alive
        /\ node' = [node EXCEPT ![n] = IF grant THEN granted ELSE refused]
        /\ msgs' = Sent(Message("RequestVoteResponse", n, m.src, r.term, 0, grant))
    BY <1>5 DEF HandleRequestVote
  <2>1. Evolves(node[n], r)
    BY <1>0, NodeOperators, EvolvesIsReflexive DEF IsNode
  <2>2. Evolves(node[n], granted)
    <3>1. Evolves(r, [r EXCEPT !.vote = m.src, !.role = Follower])
      BY <2>1 DEF Evolves, IsNode, Fields, Follower, Candidate, Leader
    <3>2. Evolves([r EXCEPT !.vote = m.src, !.role = Follower], ClearPreVote([r EXCEPT !.vote = m.src, !.role = Follower]))
      BY <3>1, NodeOperators DEF Evolves
    <3>3. Evolves(ClearPreVote([r EXCEPT !.vote = m.src, !.role = Follower]), granted)
      BY <3>2, NodeOperators DEF Evolves
    <3>4. IsNode(r)
      BY <2>1 DEF Evolves
    <3>5. Evolves(r, granted)
      <4> HIDE DEF r, granted
      <4>1. Evolves(r, ClearPreVote([r EXCEPT !.vote = m.src, !.role = Follower]))
        BY <3>1, <3>2, <3>4, EvolvesIsTransitive
      <4> QED BY <3>3, <3>4, <4>1, EvolvesIsTransitive
    <3> QED BY <1>0, <2>1, <3>5, EvolvesIsTransitive
  <2>3. Evolves(node[n], refused)
    <3>1. IsVoter(n) \in BOOLEAN
      BY DEF IsVoter
    <3>2. Evolves(r, ResetElectionTimeout(r, IsVoter(n)))
      BY <2>1, <3>1, NodeOperators DEF Evolves
    <3> QED BY <1>0, <2>1, <3>2, EvolvesIsTransitive
  <2>4. r.term \in Nat
    BY <2>1 DEF Evolves, IsNode
  <2>5. Message("RequestVoteResponse", n, m.src, r.term, 0, grant).term \in Nat
    BY <2>4 DEF Message
  <2>6. \A q \in msgs' : q.term \in Nat
    BY <1>0, <2>0, <2>5 DEF Sent
  <2>7. AllEvolve(node, [node EXCEPT ![n] = IF grant THEN granted ELSE refused])
    BY <1>0, <2>2, <2>3, UpdateEvolves
  <2> QED BY <2>0, <2>6, <2>7 DEF NodesEvolve, MessageTerms
<1>6. ASSUME NEW m \in msgs, HandleRequestVoteResponse(n, m) PROVE NodesEvolve
  <2> DEFINE voted == [node[n] EXCEPT !.votes = @ \cup {m.src}]
  <2>1. CASE m.term > node[n].term /\ node' = [node EXCEPT ![n] = AdvanceTermAndRearm(node[n], m.term, TRUE)]
    <3>1. Evolves(node[n], AdvanceTermAndRearm(node[n], m.term, TRUE))
      <4>1. Evolves(node[n], AdvanceTerm(node[n], m.term))
        BY <1>0, <2>1, NodeOperators DEF IsNode
      <4>2. Evolves(AdvanceTerm(node[n], m.term), ResetElectionTimeout(AdvanceTerm(node[n], m.term), TRUE))
        BY <4>1, NodeOperators DEF Evolves
      <4> QED BY <1>0, <4>1, <4>2, EvolvesIsTransitive DEF AdvanceTermAndRearm
    <3> QED BY <1>0, <1>6, <2>1, <3>1, UpdateEvolves DEF HandleRequestVoteResponse, NodesEvolve, MessageTerms
  <2>2. CASE /\ m.term = node[n].term /\ node[n].role = Candidate
             /\ node' = [node EXCEPT ![n] = BecomeLeader(voted)] \/ node' = [node EXCEPT ![n] = voted]
    <3>1. Evolves(node[n], voted) /\ Evolves(node[n], BecomeLeader(voted))
      BY <1>0, <2>2 DEF BecomeLeader, ClearPreVote, Evolves, IsNode, Fields, Follower, Candidate, Leader
    <3>2. AllEvolve(node, [node EXCEPT ![n] = BecomeLeader(voted)]) /\ AllEvolve(node, [node EXCEPT ![n] = voted])
      BY <1>0, <3>1, UpdateEvolves
    <3> QED BY <1>0, <1>6, <2>2, <3>2 DEF HandleRequestVoteResponse, NodesEvolve, MessageTerms
  <2> QED BY <1>6, <2>1, <2>2 DEF HandleRequestVoteResponse
<1> QED BY <1>1, <1>2, <1>3, <1>4, <1>5, <1>6

\* What a node becomes when it follows a leader of term t
LEMMA FollowedEvolves ==
    ASSUME Nodes, NEW k \in Server, NEW t \in Nat, t >= node[k].term
    PROVE  Evolves(node[k], Followed(k, t))
<1> DEFINE r == IF t > node[k].term THEN AdvanceTerm(node[k], t) ELSE node[k]
           f == ClearPreVote(BecomeFollower(r))
<1>0. IsNode(node[k])
  BY DEF Nodes, IsNodeMap
<1>1. Evolves(node[k], r)
  BY <1>0, NodeOperators, EvolvesIsReflexive
<1>2. IsNode(r)
  BY <1>1 DEF Evolves
<1>3. Evolves(r, BecomeFollower(r)) /\ IsNode(BecomeFollower(r))
  BY <1>2, NodeOperators DEF Evolves
<1>4. Evolves(BecomeFollower(r), f) /\ IsNode(f)
  BY <1>3, NodeOperators DEF Evolves
<1>5. IsVoter(k) \in BOOLEAN
  BY DEF IsVoter
<1>6. Evolves(f, ResetElectionTimeout(f, IsVoter(k)))
  BY <1>4, <1>5, NodeOperators
<1>7. Followed(k, t) = ResetElectionTimeout(f, IsVoter(k))
  BY DEF Followed
<1> HIDE DEF r, f
<1>8. Evolves(r, f)
  BY <1>2, <1>3, <1>4, EvolvesIsTransitive
<1>9. Evolves(node[k], f)
  BY <1>0, <1>1, <1>8, EvolvesIsTransitive
<1> QED BY <1>0, <1>6, <1>7, <1>9, EvolvesIsTransitive

LEMMA HearRefusalEvolves ==
    ASSUME NEW nd, IsNodeMap(nd), NEW n \in Server, NEW k \in Server, HearRefusal(nd, n, k)
    PROVE  AllEvolve(nd, node')
<1> DEFINE a1 == AdvanceTerm(nd[n], nd[k].term)
<1>0. IsNode(nd[n]) /\ IsNode(nd[k])
  BY DEF IsNodeMap
<1>1. CASE nd[k].term > nd[n].term /\ node' = [nd EXCEPT ![n] = AdvanceTermAndRearm(nd[n], nd[k].term, TRUE)]
  <2>1. Evolves(nd[n], a1)
    BY <1>0, <1>1, NodeOperators DEF IsNode
  <2>2. Evolves(a1, ResetElectionTimeout(a1, TRUE))
    BY <2>1, NodeOperators DEF Evolves
  <2>3. Evolves(nd[n], ResetElectionTimeout(a1, TRUE))
    BY <1>0, <2>1, <2>2, EvolvesIsTransitive
  <2>4. Evolves(nd[n], AdvanceTermAndRearm(nd[n], nd[k].term, TRUE))
    BY <2>1, <2>3 DEF AdvanceTermAndRearm
  <2> QED BY <1>1, <2>4, UpdateEvolves
<1>2. CASE node' = nd
  BY <1>2, NoStepEvolves
<1> QED BY <1>1, <1>2 DEF HearRefusal

LEMMA HearSuccessEvolves ==
    ASSUME NEW nd, IsNodeMap(nd), NEW n \in Server, NEW k \in Server, NEW index, HearSuccess(nd, n, k, index)
    PROVE  AllEvolve(nd, node')
<1> DEFINE counted == [nd[n].match EXCEPT ![k] = IF index > @ THEN index ELSE @]
           heard == [nd EXCEPT ![n].match[k] = IF index > @ THEN index ELSE @]
<1>1. heard = [nd EXCEPT ![n] = [nd[n] EXCEPT !.match = counted]]
  OBVIOUS
<1>2. Evolves(nd[n], [nd[n] EXCEPT !.match = counted])
  <2> HIDE DEF counted
  <2> QED BY DEF IsNodeMap, Evolves, IsNode, Fields, Follower, Candidate, Leader
<1>3. AllEvolve(nd, heard)
  BY <1>1, <1>2, UpdateEvolves
<1>4. AllEvolve(heard, node')
  <2>1. Advance(heard, n)
    BY DEF HearSuccess
  <2> HIDE DEF heard
  <2> QED BY <1>3, <2>1, AdvanceEvolves DEF AllEvolve
<1> QED BY <1>3, <1>4, AllEvolveIsTransitive

LEMMA ExchangesEvolve ==
    ASSUME Nodes, NEW n \in Server, NEW k \in Server, NEW heard \in BOOLEAN,
           (\E prev \in 0..LastIndex(node[n]) : Replicate(n, k, prev, heard)) \/ InstallSnapshot(n, k, heard)
    PROVE  NodesEvolve
<1>0. IsNodeMap(node) /\ IsNode(node[n]) /\ IsNode(node[k])
  BY DEF Nodes, IsNodeMap
\* Both exchanges leave the other node as it is, or make it a follower with another log.
<1>1. ASSUME NEW nd, IsNodeMap(nd), AllEvolve(node, nd), NEW index, msgs' = msgs,
             \/ node' = nd
             \/ HearSuccess(nd, n, k, index)
             \/ HearRefusal(nd, n, k)
      PROVE  NodesEvolve
  <2>1. AllEvolve(nd, node')
    BY <1>1, NoStepEvolves, HearSuccessEvolves, HearRefusalEvolves
  <2>2. AllEvolve(node, node')
    BY <1>0, <1>1, <2>1, AllEvolveIsTransitive
  <2> QED BY <1>1, <2>2 DEF NodesEvolve, Nodes, MessageTerms
<1>2. ASSUME NEW prev \in 0..LastIndex(node[n]), Replicate(n, k, prev, heard) PROVE NodesEvolve
  <2> DEFINE r == Followed(k, node[n].term)
             matches == PrefixMatches(r, prev, TermAt(node[n], prev))
             known == IF node[n].commit < LastIndex(node[n]) THEN node[n].commit ELSE LastIndex(node[n])
             merged == [r EXCEPT !.log = MergeAfter(@, prev, SubSeq(node[n].log, prev + 1, LastIndex(node[n]))),
                                 !.commit = IF known > @ THEN known ELSE @]
             nd == IF ~Follows(k, n) THEN node
                   ELSE [node EXCEPT ![k] = IF matches THEN merged ELSE r]
  <2>1. AllEvolve(node, nd)
    <3>1. CASE ~Follows(k, n)
      BY <1>0, <3>1, NoStepEvolves
    <3>2. CASE Follows(k, n)
      <4>1. Evolves(node[k], r)
        BY <1>0, <3>2, FollowedEvolves DEF Follows, IsNode
      <4>2. Evolves(node[k], merged)
        <5> HIDE DEF r
        <5> QED BY <4>1 DEF Evolves, IsNode, Fields, Follower, Candidate, Leader
      <4>3. Evolves(node[k], IF matches THEN merged ELSE r)
        <5> HIDE DEF r, merged, matches
        <5> QED BY <4>1, <4>2
      <4> QED BY <1>0, <3>2, <4>3, UpdateEvolves
    <3> QED BY <3>1, <3>2
  <2>2. /\ msgs' = msgs
        /\ \/ node' = nd
           \/ HearSuccess(nd, n, k, LastIndex(node[n]))
           \/ HearRefusal(nd, n, k)
    BY <1>2 DEF Replicate
  <2>3. IsNodeMap(nd)
    <3> HIDE DEF nd
    <3> QED BY <2>1 DEF AllEvolve
  <2> HIDE DEF nd
  <2> QED BY <1>1, <2>1, <2>2, <2>3
<1>3. ASSUME InstallSnapshot(n, k, heard) PROVE NodesEvolve
  <2> DEFINE s == node[n].snap
             f == Followed(k, node[n].term)
             r == IF node[n].term = node[k].term /\ IsVoter(k)
                    THEN [f EXCEPT !.preTerm = node[k].preTerm, !.preVotes = node[k].preVotes] ELSE f
             has == r.snap # None /\ r.snap.index >= s.index
             nd == IF ~Follows(k, n) THEN node
                   ELSE [node EXCEPT ![k] = IF has \/ InstallIsRefused(r, n) THEN r ELSE Installed(r, n)]
  <2>1. AllEvolve(node, nd)
    <3>1. CASE ~Follows(k, n)
      BY <1>0, <3>1, NoStepEvolves
    <3>2. CASE Follows(k, n)
      <4>1. Evolves(node[k], f)
        BY <1>0, <3>2, FollowedEvolves DEF Follows, IsNode
      <4>2. Evolves(node[k], r)
        <5> HIDE DEF f
        <5> QED BY <4>1 DEF Evolves, IsNode, Fields, Follower, Candidate, Leader
      <4>3. Evolves(node[k], Installed(r, n))
        <5> HIDE DEF r
        <5> QED BY <4>2 DEF Installed, Evolves, IsNode, Fields, Follower, Candidate, Leader
      <4>4. Evolves(node[k], IF has \/ InstallIsRefused(r, n) THEN r ELSE Installed(r, n))
        <5> HIDE DEF r, has
        <5> QED BY <4>2, <4>3
      <4> QED BY <1>0, <3>2, <4>4, UpdateEvolves
    <3> QED BY <3>1, <3>2
  <2>2. /\ msgs' = msgs
        /\ \/ node' = nd
           \/ HearSuccess(nd, n, k, s.index)
           \/ HearRefusal(nd, n, k)
    BY <1>3 DEF InstallSnapshot
  <2>3. IsNodeMap(nd)
    <3> HIDE DEF nd
    <3> QED BY <2>1 DEF AllEvolve
  <2> HIDE DEF nd
  <2> QED BY <1>1, <2>1, <2>2, <2>3
<1> QED BY <1>2, <1>3

\* A step of the cluster never takes a node back to an earlier term, and makes no leader of a
\* follower within a term.
LEMMA ClusterEvolves ==
    ASSUME Nodes, Next
    PROVE  NodesEvolve
<1> SUFFICES ASSUME NEW n \in Server,
                    \/ StartElection(n)
                    \/ HandleElectionTimeout(n)
                    \/ \E m \in msgs : HandlePreVote(n, m)
                    \/ \E m \in msgs : HandlePreVoteResponse(n, m)
                    \/ \E m \in msgs : HandleRequestVote(n, m)
                    \/ \E m \in msgs : HandleRequestVoteResponse(n, m)
                    \/ AppendCommand(n)
                    \/ \E voters \in Targets : ProposeJoint(n, voters)
                    \/ ProposeFinalize(n)
                    \/ \E k \in Server, prev \in 0..LastIndex(node[n]), heard \in BOOLEAN :
                            Replicate(n, k, prev, heard)
                    \/ AdvanceCommitIndex(n)
                    \/ Crash(n)
                    \/ Restart(n)
                    \/ ApplyCommitted(n)
                    \/ Compact(n)
                    \/ \E k \in Server, heard \in BOOLEAN : InstallSnapshot(n, k, heard)
             PROVE  NodesEvolve
  BY DEF Next
<1>0. IsNodeMap(node) /\ IsNode(node[n])
  BY DEF Nodes, IsNodeMap
<1>1. CASE \/ StartElection(n)
           \/ HandleElectionTimeout(n)
           \/ \E m \in msgs : HandlePreVote(n, m)
           \/ \E m \in msgs : HandlePreVoteResponse(n, m)
           \/ \E m \in msgs : HandleRequestVote(n, m)
           \/ \E m \in msgs : HandleRequestVoteResponse(n, m)
  BY <1>1, ElectionsEvolve
<1>2. CASE AppendCommand(n) \/ (\E voters \in Targets : ProposeJoint(n, voters)) \/ ProposeFinalize(n)
  <2>1. PICK cmd : AppendEntry(n, cmd)
    BY <1>2 DEF AppendCommand, ProposeJoint, ProposeFinalize
  <2>2. PICK l : node' = [node EXCEPT ![n] = [node[n] EXCEPT !.log = l]]
    BY <2>1 DEF AppendEntry
  <2>3. Evolves(node[n], [node[n] EXCEPT !.log = l])
    BY <1>0 DEF Evolves, IsNode, Fields, Follower, Candidate, Leader
  <2>4. AllEvolve(node, node')
    BY <1>0, <2>2, <2>3, UpdateEvolves
  <2>5. msgs' = msgs
    BY <2>1 DEF AppendEntry
  <2> QED BY <2>4, <2>5 DEF NodesEvolve, Nodes, MessageTerms
<1>3. CASE \/ \E k \in Server, prev \in 0..LastIndex(node[n]), heard \in BOOLEAN : Replicate(n, k, prev, heard)
           \/ \E k \in Server, heard \in BOOLEAN : InstallSnapshot(n, k, heard)
  BY <1>3, ExchangesEvolve
<1>4. CASE AdvanceCommitIndex(n)
  BY <1>0, <1>4, AdvanceEvolves DEF AdvanceCommitIndex, NodesEvolve, Nodes, MessageTerms
<1>5. CASE Crash(n)
  <2> DEFINE r == [ClearPreVote(BecomeFollower(node[n])) EXCEPT !.alive = FALSE, !.armed = FALSE, !.commit = 0]
  <2>1. Evolves(node[n], BecomeFollower(node[n])) /\ BecomeFollower(node[n]).role = Follower
    BY <1>0, NodeOperators DEF BecomeFollower, IsNode, Fields
  <2>2. Evolves(node[n], r)
    <3> DEFINE b == BecomeFollower(node[n])
    <3> HIDE DEF b
    <3> QED BY <1>0, <2>1 DEF ClearPreVote, Evolves, IsNode, Fields, Follower, Candidate, Leader
  <2>3. node' = [node EXCEPT ![n] = r] /\ msgs' = msgs
    BY <1>5 DEF Crash
  <2> HIDE DEF r
  <2> QED BY <1>0, <2>2, <2>3, UpdateEvolves DEF NodesEvolve, Nodes, MessageTerms
<1>6. CASE Restart(n)
  <2> DEFINE r == [node[n] EXCEPT !.alive = TRUE]
  <2>1. Evolves(node[n], r)
    BY <1>0 DEF Evolves, IsNode, Fields, Follower, Candidate, Leader
  <2>2. Evolves(r, ResetElectionTimeout(r, IsVoter(n)))
    <3>1. IsVoter(n) \in BOOLEAN
      BY DEF IsVoter
    <3>2. IsNode(r)
      BY <2>1 DEF Evolves
    <3> HIDE DEF r
    <3> QED BY <3>1, <3>2, NodeOperators
  <2>3. Evolves(node[n], ResetElectionTimeout(r, IsVoter(n)))
    BY <1>0, <2>1, <2>2, EvolvesIsTransitive
  <2>4. node' = [node EXCEPT ![n] = ResetElectionTimeout(r, IsVoter(n))] /\ msgs' = msgs
    BY <1>6 DEF Restart
  <2> HIDE DEF r
  <2> QED BY <1>0, <2>3, <2>4, UpdateEvolves DEF NodesEvolve, Nodes, MessageTerms
<1>7. CASE Compact(n)
  <2>1. PICK i, s : node' = [node EXCEPT ![n] = [node[n] EXCEPT !.base = i, !.snap = s]]
    BY <1>7 DEF Compact
  <2>2. Evolves(node[n], [node[n] EXCEPT !.base = i, !.snap = s])
    BY <1>0 DEF Evolves, IsNode, Fields, Follower, Candidate, Leader
  <2>3. AllEvolve(node, node')
    BY <1>0, <2>1, <2>2, UpdateEvolves
  <2>4. msgs' = msgs
    BY <1>7 DEF Compact
  <2> QED BY <2>3, <2>4 DEF NodesEvolve, Nodes, MessageTerms
<1>8. CASE ApplyCommitted(n)
  <2>1. Evolves(node[n], [node[n] EXCEPT !.applied = node[n].commit])
    BY <1>0 DEF Evolves, IsNode, Fields, Follower, Candidate, Leader
  <2>2. AllEvolve(node, node') /\ msgs' = msgs
    BY <1>0, <1>8, <2>1, UpdateEvolves DEF ApplyCommitted
  <2> QED BY <2>2 DEF NodesEvolve, Nodes, MessageTerms
<1> QED BY <1>1, <1>2, <1>3, <1>4, <1>5, <1>6, <1>7, <1>8

-----------------------------------------------------------------------------
(* The inductive invariant *)

\* The source of a transfer led the term of the transfer when it was called.
CallInv ==
    /\ nextAttempt \in Nat
    /\ transfer # None =>
        /\ transfer \in Call
        /\ transfer.attempt <= nextAttempt
        /\ node[transfer.src].term >= transfer.term
        /\ node[transfer.src].term = transfer.term => node[transfer.src].role # Candidate

\* An attempt is active only while its transfer waits.
ActiveInv ==
    \A x \in active :
        /\ transfer # None /\ transfer.attempt > 0
        /\ x.id = transfer.attempt /\ x.term = transfer.term
        /\ x.src = transfer.src /\ x.dst = transfer.dst

\* An election that was triggered has taken the transferee beyond the term of the transfer.
TriggeredInv ==
    /\ \A x \in triggered :
        /\ x.id \in 1..nextAttempt /\ x.during = x.id
        /\ transfer # None /\ x.id = transfer.attempt => node[transfer.dst].term > transfer.term
    /\ \A x, y \in triggered : x.id = y.id => x = y

RetiredInv ==
    \A x \in retired :
        /\ x[1] \in Server /\ x[2] \in Nat
        /\ \/ node[x[1]].term > x[2]
           \/ node[x[1]].term = x[2] /\ node[x[1]].role = Follower

TransferInv == Nodes /\ CallInv /\ ActiveInv /\ TriggeredInv /\ RetiredInv

LEMMA InitialTransfers ==
    ASSUME TransferInit
    PROVE  TransferInv
<1>1. Nodes
  BY DEF TransferInit, Init, Nodes, IsNodeMap, IsNode, MessageTerms, Fields, Follower, Candidate, Leader
<1>2. CallInv /\ ActiveInv /\ TriggeredInv /\ RetiredInv
  BY DEF TransferInit, CallInv, ActiveInv, TriggeredInv, RetiredInv
<1> QED BY <1>1, <1>2 DEF TransferInv

\* What the nodes do leaves the transfers as they were.
LEMMA NodesKeepTransfers ==
    ASSUME TransferInv, NodesEvolve, UNCHANGED <<transfer, active, nextAttempt, triggered, retired>>
    PROVE  TransferInv'
<1>1. \A n \in Server : Evolves(node[n], node'[n]) /\ IsNode(node[n])
  BY DEF NodesEvolve, AllEvolve, TransferInv, Nodes, IsNodeMap
<1>2. Nodes'
  BY DEF NodesEvolve, AllEvolve, Nodes
<1>3. CallInv'
  <2>1. CASE transfer = None
    BY <2>1 DEF TransferInv, CallInv
  <2>2. CASE transfer # None
    <3>1. transfer \in Call /\ transfer.src \in Server /\ transfer.term \in Nat
      BY <2>2 DEF TransferInv, CallInv, Call
    <3>2. /\ node'[transfer.src].term >= transfer.term
          /\ node'[transfer.src].term = transfer.term => node'[transfer.src].role # Candidate
      BY <1>1, <2>2, <3>1 DEF TransferInv, CallInv, Evolves, IsNode
    <3> QED BY <3>1, <3>2 DEF TransferInv, CallInv
  <2> QED BY <2>1, <2>2
<1>4. ActiveInv'
  BY DEF TransferInv, ActiveInv
<1>5. TriggeredInv'
  <2>1. ASSUME NEW x \in triggered, transfer # None, x.id = transfer.attempt
        PROVE  node'[transfer.dst].term > transfer.term
    <3>1. transfer.dst \in Server /\ transfer.term \in Nat
      BY <2>1 DEF TransferInv, CallInv, Call
    <3> QED BY <1>1, <2>1, <3>1 DEF TransferInv, TriggeredInv, Evolves, IsNode
  <2> QED BY <2>1 DEF TransferInv, TriggeredInv
<1>6. RetiredInv'
  <2> SUFFICES ASSUME NEW x \in retired
               PROVE  \/ node'[x[1]].term > x[2]
                      \/ node'[x[1]].term = x[2] /\ node'[x[1]].role = Follower
    BY DEF TransferInv, RetiredInv
  <2> QED BY <1>1 DEF TransferInv, RetiredInv, Evolves, IsNode, Follower, Candidate, Leader
<1> QED BY <1>2, <1>3, <1>4, <1>5, <1>6 DEF TransferInv

\* What the driver does leaves the nodes as they were.
LEMMA DriverKeepsInvariant ==
    ASSUME TransferInv, TransferAssumption,
           \/ \E src, dst \in Server : Begin(src, dst)
           \/ FailCatchUp
           \/ Dispatch
           \/ Retry
           \/ GiveUp
           \/ Complete
           \/ \E m \in timeouts : RejectTimeoutNow(m)
    PROVE  TransferInv'
<1> USE DEF TransferInv
<1>0. node' = node /\ Nodes'
  BY DEF Begin, FailCatchUp, Dispatch, Retry, GiveUp, Complete, RejectTimeoutNow, vars, Nodes, MessageTerms
<1>1. ASSUME NEW src \in Server, NEW dst \in Server, Begin(src, dst) PROVE TransferInv'
  <2>1. /\ transfer = None
        /\ transfer' = [src |-> src, dst |-> dst, term |-> node[src].term, attempt |-> 0, tries |-> 0]
        /\ UNCHANGED <<active, nextAttempt, triggered, retired>>
        /\ node[src].role = Leader
    BY <1>1 DEF Begin, Leads
  <2>2. node[src].term \in Nat
    BY DEF Nodes, IsNodeMap, IsNode
  <2>3. CallInv'
    BY <1>0, <2>1, <2>2 DEF CallInv, Call, Leader, Candidate
  <2>4. ActiveInv'
    BY <2>1 DEF ActiveInv
  <2>5. TriggeredInv'
    BY <1>0, <2>1 DEF TriggeredInv
  <2>6. RetiredInv'
    BY <1>0, <2>1 DEF RetiredInv
  <2> QED BY <1>0, <2>3, <2>4, <2>5, <2>6
<1>2. CASE FailCatchUp
  BY <1>0, <1>2 DEF FailCatchUp, CallInv, ActiveInv, TriggeredInv, RetiredInv
<1>3. CASE Dispatch
  <2> DEFINE x == [transfer EXCEPT !.attempt = nextAttempt + 1, !.tries = 1]
  <2>1. /\ transfer # None /\ transfer.attempt = 0
        /\ transfer' = x
        /\ active' = active \cup {[id |-> x.attempt, src |-> x.src, dst |-> x.dst, term |-> x.term, epoch |-> epoch]}
        /\ nextAttempt' = nextAttempt + 1
        /\ UNCHANGED <<triggered, retired>>
    BY <1>3 DEF Dispatch
  <2>2. transfer \in Call /\ nextAttempt \in Nat
    BY <2>1 DEF CallInv
  <2>3. x \in Call /\ x.attempt = nextAttempt + 1 /\ x.src = transfer.src /\ x.dst = transfer.dst /\ x.term = transfer.term
    <3> DEFINE y == [transfer EXCEPT !.attempt = nextAttempt + 1]
    <3>1. /\ y \in Call /\ y.attempt = nextAttempt + 1 /\ y.src = transfer.src /\ y.dst = transfer.dst
          /\ y.term = transfer.term
      BY <2>2 DEF Call
    <3>2. x = [y EXCEPT !.tries = 1]
      OBVIOUS
    <3> HIDE DEF x, y
    <3> QED BY <3>1, <3>2 DEF Call
  <2>4. x # None
    BY <2>3 DEF TransferAssumption
  <2> HIDE DEF x
  <2>5. active = {}
    BY <2>1 DEF ActiveInv
  <2>6. CallInv'
    BY <1>0, <2>1, <2>2, <2>3 DEF CallInv
  <2>7. ActiveInv'
    BY <2>1, <2>2, <2>3, <2>4, <2>5 DEF ActiveInv
  <2>8. TriggeredInv'
    BY <2>1, <2>2, <2>3 DEF TriggeredInv
  <2>9. RetiredInv'
    BY <1>0, <2>1 DEF RetiredInv
  <2> QED BY <1>0, <2>6, <2>7, <2>8, <2>9
<1>4. CASE Retry
  <2> DEFINE x == [transfer EXCEPT !.tries = transfer.tries + 1]
  <2>1. transfer # None /\ transfer' = x /\ UNCHANGED <<active, nextAttempt, triggered, retired>>
    BY <1>4 DEF Retry, Waits
  <2>2. transfer \in Call
    BY <2>1 DEF CallInv
  <2>3. /\ x \in Call /\ x.attempt = transfer.attempt /\ x.src = transfer.src /\ x.dst = transfer.dst
        /\ x.term = transfer.term
    BY <2>2 DEF Call
  <2>4. x # None
    BY <2>3 DEF TransferAssumption
  <2> HIDE DEF x
  <2>5. CallInv'
    BY <1>0, <2>1, <2>3 DEF CallInv
  <2>6. ActiveInv'
    BY <2>1, <2>3, <2>4 DEF ActiveInv
  <2>7. TriggeredInv'
    BY <1>0, <2>1, <2>3 DEF TriggeredInv
  <2>8. RetiredInv'
    BY <1>0, <2>1 DEF RetiredInv
  <2> QED BY <1>0, <2>5, <2>6, <2>7, <2>8
<1>5. CASE GiveUp
  <2>1. active' = {}
    BY <1>5 DEF GiveUp, MayGiveUp, Drop, ActiveInv
  <2>2. transfer' = None /\ UNCHANGED <<nextAttempt, triggered, retired>>
    BY <1>5 DEF GiveUp
  <2> QED BY <1>0, <2>1, <2>2 DEF CallInv, ActiveInv, TriggeredInv, RetiredInv
<1>6. CASE Complete
  <2>1. /\ transfer # None /\ TransferElected(transfer)
        /\ retired' = retired \cup {<<transfer.src, transfer.term>>}
        /\ transfer' = None
        /\ UNCHANGED <<nextAttempt, triggered>>
    BY <1>6 DEF Complete, Waits
  <2>2. active' = {}
    BY <1>6 DEF Complete, Drop, ActiveInv
  <2>3. transfer.src \in Server /\ transfer.dst \in Server /\ transfer.term \in Nat
    BY <2>1 DEF CallInv, Call
  <2>4. IsNode(node[transfer.src]) /\ IsNode(node[transfer.dst])
    BY <2>3 DEF Nodes, IsNodeMap
  <2>5. \/ node[transfer.src].term > transfer.term
        \/ node[transfer.src].term = transfer.term /\ node[transfer.src].role = Follower
    BY <2>1, <2>3, <2>4 DEF CallInv, TransferElected, IsNode, Follower, Candidate, Leader
  <2>6. RetiredInv'
    BY <1>0, <2>1, <2>3, <2>5 DEF RetiredInv
  <2> QED BY <1>0, <2>1, <2>2, <2>6 DEF CallInv, ActiveInv, TriggeredInv
<1>7. ASSUME NEW m \in timeouts, RejectTimeoutNow(m) PROVE TransferInv'
  <2>1. active' \subseteq active
    BY <1>7 DEF RejectTimeoutNow, Drop
  <2>2. UNCHANGED <<transfer, nextAttempt, triggered, retired>>
    BY <1>7 DEF RejectTimeoutNow
  <2> QED BY <1>0, <2>1, <2>2 DEF CallInv, ActiveInv, TriggeredInv, RetiredInv
<1> QED BY <1>1, <1>2, <1>3, <1>4, <1>5, <1>6, <1>7

\* A TimeoutNow that is delivered belongs to the attempt of the transfer that is running, and
\* the transferee is still in the term that it names.
LEMMA DeliveryKeepsInvariant ==
    ASSUME TransferInv, NEW m \in timeouts, DeliverTimeoutNow(m)
    PROVE  TransferInv'
<1> DEFINE new == [id |-> m.id, term |-> node[m.dst].term + 1, during |-> IF transfer = None THEN 0 ELSE transfer.attempt]
<1>1. /\ IsActive(m.id, m.src, m.dst, m.term)
      /\ node[m.dst].alive /\ m.term = node[m.dst].term
      /\ Elect(m.dst)
      /\ triggered' = triggered \cup {new}
      /\ UNCHANGED <<transfer, active, nextAttempt, retired>>
  BY DEF DeliverTimeoutNow, IsStale
<1>2. /\ transfer # None /\ transfer.attempt > 0
      /\ m.id = transfer.attempt /\ m.dst = transfer.dst /\ m.term = transfer.term
  BY <1>1 DEF TransferInv, ActiveInv, IsActive
<1>3. transfer \in Call /\ transfer.attempt <= nextAttempt /\ nextAttempt \in Nat
  BY <1>2 DEF TransferInv, CallInv
<1>4. m.dst \in Server /\ transfer.term \in Nat /\ transfer.attempt \in 1..nextAttempt
  BY <1>2, <1>3 DEF Call
<1>5. NodesEvolve /\ node'[m.dst].term = node[m.dst].term + 1
  BY <1>1, <1>4, ElectEvolves DEF TransferInv
<1>6. new.id = transfer.attempt /\ new.during = transfer.attempt
  BY <1>2
<1>7. \A x \in triggered : x.id # transfer.attempt
  BY <1>1, <1>2, <1>4 DEF TransferInv, TriggeredInv
<1>8. \A n \in Server : Evolves(node[n], node'[n]) /\ IsNode(node[n])
  BY <1>5 DEF NodesEvolve, AllEvolve, TransferInv, Nodes, IsNodeMap
<1>9. Nodes'
  BY <1>5 DEF NodesEvolve, AllEvolve, Nodes
<1>10. CallInv'
  <2>1. transfer.src \in Server
    BY <1>3 DEF Call
  <2>2. /\ node'[transfer.src].term >= transfer.term
        /\ node'[transfer.src].term = transfer.term => node'[transfer.src].role # Candidate
    BY <1>2, <1>4, <1>8, <2>1 DEF TransferInv, CallInv, Evolves, IsNode
  <2> QED BY <1>1, <1>3, <2>2 DEF CallInv
<1>11. ActiveInv'
  BY <1>1 DEF TransferInv, ActiveInv
<1>12. TriggeredInv'
  <2>1. node'[transfer.dst].term > transfer.term
    BY <1>1, <1>2, <1>4, <1>5
  <2> HIDE DEF new
  <2> QED BY <1>1, <1>4, <1>6, <1>7, <2>1 DEF TransferInv, TriggeredInv
<1>13. RetiredInv'
  <2> SUFFICES ASSUME NEW x \in retired
               PROVE  \/ node'[x[1]].term > x[2]
                      \/ node'[x[1]].term = x[2] /\ node'[x[1]].role = Follower
    BY <1>1 DEF TransferInv, RetiredInv
  <2> QED BY <1>8 DEF TransferInv, RetiredInv, Evolves, IsNode, Follower, Candidate, Leader
<1> QED BY <1>9, <1>10, <1>11, <1>12, <1>13 DEF TransferInv

\* Whatever the cluster does between the steps of transfer, only the attempt that the running
\* call waits for is active, and what was triggered or retired stays fenced by its term.
THEOREM TransferInvariant == TransferSpec => []TransferInv
<1>1. TransferInit => TransferInv
  BY InitialTransfers
<1>2. TransferInv /\ [TransferNext]_allVars => TransferInv'
  <2> SUFFICES ASSUME TransferInv, [TransferNext]_allVars PROVE TransferInv'
    OBVIOUS
  <2>1. CASE ClusterStep
    <3>1. NodesEvolve
      BY <2>1, ClusterEvolves DEF ClusterStep, TransferInv
    <3> QED BY <2>1, <3>1, NodesKeepTransfers DEF ClusterStep, transferVars
  <2>2. CASE \/ \E src, dst \in Server : Begin(src, dst)
             \/ FailCatchUp
             \/ Dispatch
             \/ Retry
             \/ GiveUp
             \/ Complete
             \/ \E m \in timeouts : RejectTimeoutNow(m)
    BY <2>2, DriverKeepsInvariant, TransferAssumption
  <2>3. ASSUME NEW m \in timeouts, DeliverTimeoutNow(m) PROVE TransferInv'
    BY <2>3, DeliveryKeepsInvariant
  <2>4. CASE UNCHANGED allVars
    <3>1. NodesEvolve
      BY <2>4, NoStepEvolves DEF allVars, vars, NodesEvolve, TransferInv, Nodes, MessageTerms
    <3> QED BY <2>4, <3>1, NodesKeepTransfers DEF allVars, transferVars
  <2> QED BY <2>1, <2>2, <2>3, <2>4 DEF TransferNext
<1> QED BY <1>1, <1>2, PTL DEF TransferSpec

\* A transfer acts while it lasts and never after, and its end is final: however late or often
\* a TimeoutNow arrives, it starts an election only for the transfer that is waiting for it, and
\* once for each attempt; and a source that has handed over never leads in that term again.
THEOREM Fencing == TransferSpec => []TransfersAreFenced
<1>1. TransferInv => TransfersAreFenced
  <2> SUFFICES ASSUME TransferInv PROVE TransfersAreFenced
    OBVIOUS
  <2>1. ElectionsBelongToTheirTransfer
    BY DEF TransferInv, TriggeredInv, ElectionsBelongToTheirTransfer
  <2>2. RetiredSourcesStayRetired
    BY DEF TransferInv, RetiredInv, Nodes, IsNodeMap, IsNode, RetiredSourcesStayRetired, Leads, Follower, Leader
  <2> QED BY <2>1, <2>2 DEF TransfersAreFenced
<1> QED BY <1>1, TransferInvariant, PTL
=============================================================================
