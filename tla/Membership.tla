----------------------------- MODULE Membership -----------------------------
(***************************************************************************)
(* Membership changes: ReconfigurableRaftCluster and its nodes, the commit *)
(* rule of MembershipAwareLeaderReplicator, ReplicatedMembershipTransition *)
(* and the recovery of the voting configuration from durable state.        *)
(*                                                                         *)
(* The voting configuration is one value shared by the whole cluster, as   *)
(* in the code.  The messages of an election stay in flight for ever, so   *)
(* each may be late, repeated or never delivered.  AppendEntries and       *)
(* InstallSnapshot are exchanges in one step whose answer may be lost:     *)
(* replicate drains the simulator before it goes on (RaftLog, Snapshot and *)
(* LeaderService have their messages in flight).  A leader has one         *)
(* replicator for its whole term, as LeaderRuntime builds it.              *)
(*                                                                         *)
(* The entries up to base of a log were discarded: they stay in the        *)
(* sequence so that indices are absolute, and no operator reads them.      *)
(***************************************************************************)
EXTENDS Naturals, Sequences, FiniteSets, SequencesExt

CONSTANTS
    Server,
    None,
    Bootstraps,         \* the voter sets that a cluster may be created with
    Targets,            \* the voter sets that are proposed
    MaxTerm, MaxLog     \* bounds

ASSUME ConstantAssumption ==
    /\ IsFiniteSet(Server) /\ None \notin Server
    /\ Bootstraps \cup Targets \subseteq SUBSET Server \ {{}}
    /\ MaxTerm \in Nat /\ MaxLog \in Nat

Follower == "follower"
Candidate == "candidate"
Leader == "leader"

VARIABLES
    bootstrap,  \* the voters of the initial configuration
    node,       \* each node's durable and volatile state
    config,     \* _voting_configuration; new is empty when it is stable
    leaders,    \* _leaders_by_term
    msgs

vars == <<bootstrap, node, config, leaders, msgs>>

-----------------------------------------------------------------------------
(* VotingConfiguration *)

Stable(voters) == [old |-> voters, new |-> {}]

IsJoint(c) == c.new # {}

Voters(c) == c.old \cup c.new

HasMajority(voters, votes) == Cardinality(voters \cap votes) >= Cardinality(voters) \div 2 + 1

HasQuorumOfNew(c, votes) ==    \* faulty: joint consensus asks the new voters only
    HasMajority(IF IsJoint(c) THEN c.new ELSE c.old, votes)

HasQuorum(c, votes) == HasMajority(c.old, votes) /\ (IsJoint(c) => HasMajority(c.new, votes))

IsVoter(n) == n \in Voters(config)

-----------------------------------------------------------------------------
(* The log.  A command is a JointConsensusCommand, a StableConsensusCommand or any other. *)

Joint(voters) == [kind |-> "joint", voters |-> voters]
Finalize(voters) == [kind |-> "stable", voters |-> voters]
Other == [kind |-> "other", voters |-> {}]

LastIndex(r) == Len(r.log)

TermAt(r, i) == IF i = 0 THEN 0 ELSE r.log[i].term

\* The indices after i, up to j, that r retains and that hold a membership command
MembershipCommands(r, i, j) == {x \in i + 1..j : x > r.base /\ r.log[x].cmd # Other}

PrefixMatches(r, i, t) == i >= r.base /\ i <= LastIndex(r) /\ TermAt(r, i) = t

MergeAfter(log, prev, entries) ==
    IF IsPrefix(entries, SubSeq(log, prev + 1, Len(log))) THEN log
                                                          ELSE SubSeq(log, 1, prev) \o entries

UpToDate(m, r) ==
    IF m.lastTerm # TermAt(r, LastIndex(r)) THEN m.lastTerm > TermAt(r, LastIndex(r)) ELSE m.lastIndex >= LastIndex(r)

\* _durable_membership_commit_index
DurableIndex(nd) == Max({nd[n].mark : n \in Server})

-----------------------------------------------------------------------------
(* Node state *)

ClearPreVote(r) == [r EXCEPT !.preTerm = 0, !.preVotes = {}]

\* The match indices of a replicator are of no use once its node has lost the role.
BecomeFollower(r) == [r EXCEPT !.role = Follower, !.votes = {}, !.match = [p \in Server |-> 0]]

\* disable_election_timeout: a leader stays one.
DisableElectionTimeout(r) ==
    LET quiet == [ClearPreVote(r) EXCEPT !.armed = FALSE]
    IN  IF r.role = Candidate THEN BecomeFollower(quiet) ELSE quiet

\* reset_election_timeout, for a node that is or is not a voter; the timer of a node that is
\* down is discarded.
ResetElectionTimeout(r, voter) ==
    IF ~voter THEN DisableElectionTimeout(r)
              ELSE [r EXCEPT !.armed = @ \/ (r.alive /\ r.role # Leader)]

AdvanceTerm(r, t) == ClearPreVote(BecomeFollower([r EXCEPT !.term = t, !.vote = None]))

\* _advance_term with rearm_if_leader
AdvanceTermAndRearm(r, t, voter) ==
    IF r.role = Leader THEN ResetElectionTimeout(AdvanceTerm(r, t), voter) ELSE AdvanceTerm(r, t)

\* _become_leader, and the replicator of the new leader
BecomeLeader(r) == [ClearPreVote(r) EXCEPT !.role = Leader, !.armed = FALSE, !.match = [p \in Server |-> 0]]

Message(type, src, dst, t, asked, granted) ==
    [type |-> type, src |-> src, dst |-> dst, term |-> t, asked |-> asked, granted |-> granted,
     lastIndex |-> 0, lastTerm |-> 0]

\* An answer that refuses, with a term its receiver already has, is of no effect: it is not kept.
Sent(m) == IF m.granted \/ m.term > node[m.dst].term THEN msgs \cup {m} ELSE msgs

Request(type, n, t) ==
    [Message(type, n, None, t, t, FALSE) EXCEPT !.lastIndex = LastIndex(node[n]),
                                                !.lastTerm = TermAt(node[n], LastIndex(node[n]))]

\* start_election of a node that may call it
Elect(n) ==
    LET t == node[n].term + 1
        r == ResetElectionTimeout([ClearPreVote(node[n]) EXCEPT !.term = t, !.vote = n, !.role = Candidate,
                                                                !.votes = {n}], TRUE)
    IN  /\ t <= MaxTerm
        /\ IF HasQuorum(config, {n})
             THEN /\ node' = [node EXCEPT ![n] = BecomeLeader(r)]
                  /\ leaders' = leaders \cup {<<t, n>>}
                  /\ UNCHANGED msgs
             ELSE /\ node' = [node EXCEPT ![n] = r]
                  /\ msgs' = msgs \cup {Request("RequestVote", n, t)}
                  /\ UNCHANGED leaders
        /\ UNCHANGED config

-----------------------------------------------------------------------------
(* Elections *)

\* start_election as a TimeoutNow delivery or a caller invokes it
StartElection(n) == node[n].alive /\ IsVoter(n) /\ node[n].role # Leader /\ Elect(n)

\* _handle_election_timeout, then start_pre_vote
HandleElectionTimeout(n) ==
    LET r == [node[n] EXCEPT !.preTerm = node[n].term + 1, !.preVotes = {n}]
    IN  /\ node[n].alive /\ node[n].armed /\ node[n].role # Leader
        /\ node[n].term < MaxTerm
        /\ IsVoter(n)
        /\ \/ HasQuorum(config, {n}) /\ Elect(n)
           \/ /\ ~HasQuorum(config, {n})
              /\ node' = [node EXCEPT ![n] = ResetElectionTimeout(r, TRUE)]
              /\ msgs' = msgs \cup {Request("PreVote", n, r.preTerm)}
              /\ UNCHANGED <<config, leaders>>

HandlePreVote(n, m) ==
    LET r == node[n]
        grant == IsVoter(n) /\ IsVoter(m.src) /\ m.term >= r.term + 1 /\ UpToDate(m, r)
    IN  /\ m.type = "PreVote" /\ m.src # n /\ r.alive
        /\ msgs' = Sent(Message("PreVoteResponse", n, m.src, r.term, m.term, grant))
        /\ UNCHANGED <<node, config, leaders>>

HandlePreVoteResponse(n, m) ==
    LET r == node[n]
        votes == r.preVotes \cup {m.src}
    IN  /\ m.type = "PreVoteResponse" /\ m.dst = n /\ r.alive
        /\ IsVoter(m.src) /\ IsVoter(n)
        /\ \/ /\ m.term > r.term
              /\ node' = [node EXCEPT ![n] = AdvanceTermAndRearm(r, m.term, TRUE)]
              /\ UNCHANGED <<config, leaders, msgs>>
           \/ /\ m.term <= r.term
              /\ r.preTerm # 0 /\ m.asked = r.preTerm /\ r.preTerm = r.term + 1
              /\ r.role # Leader /\ m.granted
              /\ IF HasQuorum(config, votes)
                   THEN Elect(n)
                   ELSE node' = [node EXCEPT ![n].preVotes = votes] /\ UNCHANGED <<config, leaders, msgs>>

HandleRequestVote(n, m) ==
    LET newer == IsVoter(m.src) /\ m.term > node[n].term
        r == IF newer THEN AdvanceTerm(node[n], m.term) ELSE node[n]
        grant == /\ IsVoter(n) /\ IsVoter(m.src)
                 /\ m.term = r.term /\ UpToDate(m, r) /\ r.vote \in {None, m.src}
        granted == ResetElectionTimeout(ClearPreVote([r EXCEPT !.vote = m.src, !.role = Follower]), TRUE)
        refused == IF newer /\ node[n].role = Leader THEN ResetElectionTimeout(r, IsVoter(n)) ELSE r
    IN  /\ m.type = "RequestVote" /\ m.src # n /\ node[n].alive
        /\ node' = [node EXCEPT ![n] = IF grant THEN granted ELSE refused]
        /\ msgs' = Sent(Message("RequestVoteResponse", n, m.src, r.term, 0, grant))
        /\ UNCHANGED <<config, leaders>>

HandleRequestVoteResponse(n, m) ==
    LET r == node[n]
        voted == [r EXCEPT !.votes = @ \cup {m.src}]
    IN  /\ m.type = "RequestVoteResponse" /\ m.dst = n /\ r.alive
        /\ IsVoter(m.src) /\ IsVoter(n)
        /\ \/ /\ m.term > r.term
              /\ node' = [node EXCEPT ![n] = AdvanceTermAndRearm(r, m.term, TRUE)]
              /\ UNCHANGED leaders
           \/ /\ m.term = r.term /\ r.role = Candidate /\ m.granted
              /\ IF HasQuorum(config, voted.votes)
                   THEN node' = [node EXCEPT ![n] = BecomeLeader(voted)] /\ leaders' = leaders \cup {<<r.term, n>>}
                   ELSE node' = [node EXCEPT ![n] = voted] /\ UNCHANGED leaders
        /\ UNCHANGED <<config, msgs>>

-----------------------------------------------------------------------------
(* The commit rule, for node states nd *)

\* _commit_configuration(i) of leader n raises, with the uncommitted membership commands it
\* finds by the commit index of its replicator
Refuses(nd, n, i) ==
    LET covered == MembershipCommands(nd[n], nd[n].commit, i)
    IN  \/ Cardinality(covered) > 1
        \/ \E x \in covered :
             LET cmd == nd[n].log[x].cmd
             IN  IF cmd.kind = "joint" THEN IsJoint(config)
                                       ELSE config.new # cmd.voters \/ n \notin cmd.voters

CommitConfiguration(nd, n, i) ==
    LET joint == {x \in MembershipCommands(nd[n], nd[n].commit, i) : nd[n].log[x].cmd.kind = "joint"}
    IN  IF joint = {} THEN config
                      ELSE [config EXCEPT !.new = nd[n].log[CHOOSE x \in joint : TRUE].cmd.voters]

Acknowledged(nd, n, i) == {n} \cup {p \in Server : nd[n].match[p] >= i}

\* The scan goes down from the last index and ends where it raises or finds a quorum.
CommitTarget(nd, n) ==
    LET own == {i \in Max({nd[n].commit, nd[n].base}) + 1..LastIndex(nd[n]) : TermAt(nd[n], i) = nd[n].term}
        ends == {i \in own : Refuses(nd, n, i) \/ HasQuorum(CommitConfiguration(nd, n, i), Acknowledged(nd, n, i))}
    IN  IF ends = {} \/ (ends # {} /\ Refuses(nd, n, Max(ends))) THEN nd[n].commit ELSE Max(ends)

\* _persist_membership_commit_watermark: on every node that holds the command
PersistWatermark(nd, i, cmd) ==
    [k \in Server |->
        IF i > nd[k].base /\ i <= LastIndex(nd[k]) /\ nd[k].log[i].cmd = cmd /\ i > nd[k].mark
          THEN [nd[k] EXCEPT !.mark = i] ELSE nd[k]]

\* The configuration that a membership command leads to
After(c, cmd) == IF cmd.kind = "joint" THEN [c EXCEPT !.new = cmd.voters] ELSE Stable(cmd.voters)

\* _install_voting_configuration
InstallConfiguration(nd, c) ==
    [k \in Server |->
        CASE k \in Voters(config) \ Voters(c) -> DisableElectionTimeout(nd[k])
          [] k \in Voters(c) \ Voters(config) -> ResetElectionTimeout(nd[k], TRUE)
          [] OTHER -> nd[k]]

\* advance_commit_index of leader n, with _persist_committed_membership: Refuses lets at most
\* one membership command be committed at a time.
Advance(nd, n) ==
    LET i == CommitTarget(nd, n)
        committed == [nd EXCEPT ![n].commit = i]
        news == MembershipCommands(nd[n], DurableIndex(nd), i)
        x == Max(news)
        new == After(config, nd[n].log[x].cmd)
    IN  IF news = {}
          THEN node' = committed /\ UNCHANGED config
          ELSE /\ node' = InstallConfiguration(PersistWatermark(committed, x, nd[n].log[x].cmd), new)
               /\ config' = new

-----------------------------------------------------------------------------
(* The leader *)

Leads(n) == node[n].alive /\ node[n].role = Leader

AppendEntry(n, cmd) ==
    /\ Leads(n) /\ LastIndex(node[n]) < MaxLog
    /\ node' = [node EXCEPT ![n].log = Append(@, [term |-> node[n].term, cmd |-> cmd])]
    /\ UNCHANGED <<config, leaders, msgs>>

\* append_current_term_barrier, or a client's command
AppendCommand(n) == AppendEntry(n, Other)

\* _recover_pending_command: the membership commands after the durable watermark
Pending(n) == MembershipCommands(node[n], DurableIndex(node), LastIndex(node[n]))

ProposeJoint(n, voters) ==
    /\ Pending(n) = {}
    /\ ~IsJoint(config)
    /\ AppendEntry(n, Joint(voters))

ProposeFinalize(n) ==
    /\ Pending(n) = {}
    /\ n \in config.new
    /\ AppendEntry(n, Finalize(config.new))

\* A node that is asked by leader n of term t; an exchange with a leader that is no voter, or
\* of an older term, changes nothing.
Follows(k, n) == IsVoter(n) /\ node[n].term >= node[k].term

Followed(k, t) ==
    LET r == IF t > node[k].term THEN AdvanceTerm(node[k], t) ELSE node[k]
    IN  ResetElectionTimeout(ClearPreVote(BecomeFollower(r)), IsVoter(k))

\* An answer of an unsuccessful exchange: a higher term counts between voters only.
HearRefusal(nd, n, k) ==
    /\ node' = IF nd[k].term > nd[n].term /\ IsVoter(n) /\ IsVoter(k)
                 THEN [nd EXCEPT ![n] = AdvanceTermAndRearm(@, nd[k].term, TRUE)] ELSE nd
    /\ UNCHANGED config

HearSuccess(nd, n, k, index) ==
    Advance([nd EXCEPT ![n].match[k] = IF index > @ THEN index ELSE @], n)

\* One attempt of replicate, with next_index = prev + 1, and its answer, heard or lost
Replicate(n, k, prev, heard) ==
    LET r == Followed(k, node[n].term)
        matches == PrefixMatches(r, prev, TermAt(node[n], prev))
        known == IF node[n].commit < LastIndex(node[n]) THEN node[n].commit ELSE LastIndex(node[n])
        merged == [r EXCEPT !.log = MergeAfter(@, prev, SubSeq(node[n].log, prev + 1, LastIndex(node[n]))),
                            !.commit = IF known > @ THEN known ELSE @]
        nd == IF ~Follows(k, n) THEN node
              ELSE [node EXCEPT ![k] = IF matches THEN merged ELSE r]
    IN  /\ Leads(n) /\ k # n /\ node[k].alive
        /\ prev >= node[n].base /\ prev >= node[n].match[k]
        /\ IF ~heard THEN node' = nd /\ UNCHANGED config
           ELSE IF Follows(k, n) /\ matches THEN HearSuccess(nd, n, k, LastIndex(node[n])) ELSE HearRefusal(nd, n, k)
        /\ UNCHANGED <<leaders, msgs>>

\* advance_commit_index as called by itself
AdvanceCommitIndex(n) == Leads(n) /\ Advance(node, n) /\ UNCHANGED <<leaders, msgs>>

-----------------------------------------------------------------------------
(* Crashes and snapshots *)

Crash(n) ==
    /\ node[n].alive
    /\ node' = [node EXCEPT ![n] = [ClearPreVote(BecomeFollower(@)) EXCEPT !.alive = FALSE, !.armed = FALSE,
                                                                          !.commit = 0]]
    /\ UNCHANGED <<config, leaders, msgs>>

Restart(n) ==
    /\ ~node[n].alive
    /\ node' = [node EXCEPT ![n] = ResetElectionTimeout([@ EXCEPT !.alive = TRUE], IsVoter(n))]
    /\ UNCHANGED <<config, leaders, msgs>>

\* _snapshot_voting_configuration
SnapshotOf(i) == [index |-> i, config |-> config, mark |-> DurableIndex(node)]

\* apply_committed: durable, unlike the commit index
ApplyCommitted(n) ==
    /\ node[n].commit > node[n].applied
    /\ node' = [node EXCEPT ![n].applied = node[n].commit]
    /\ UNCHANGED <<config, leaders, msgs>>

\* compact: through what is applied, if that covers the last membership change
Compact(n) ==
    LET i == node[n].applied
    IN  /\ i > node[n].base
        /\ DurableIndex(node) <= i
        /\ node' = [node EXCEPT ![n].base = i, ![n].snap = SnapshotOf(i)]
        /\ UNCHANGED <<config, leaders, msgs>>

\* _validate_install_membership and the other checks of install
InstallIsRefused(r, n) ==
    LET s == node[n].snap
    IN  \/ LastIndex(r) > s.index /\ ~PrefixMatches(r, s.index, TermAt(node[n], s.index))
        \/ r.applied > s.index
        \/ s.mark < r.mark

Installed(r, n) ==
    LET s == node[n].snap
    IN  [r EXCEPT !.log = SubSeq(node[n].log, 1, s.index) \o SubSeq(@, s.index + 1, Len(@)),
                  !.base = s.index, !.snap = s, !.mark = s.mark, !.applied = s.index,
                  !.commit = IF s.index > @ THEN s.index ELSE @]

\* _replicate_snapshot, _handle_request and the answer.  The handler keeps a pre-vote that is
\* under way in the term it follows.
InstallSnapshot(n, k, heard) ==
    LET s == node[n].snap
        f == Followed(k, node[n].term)
        r == IF node[n].term = node[k].term /\ IsVoter(k)
               THEN [f EXCEPT !.preTerm = node[k].preTerm, !.preVotes = node[k].preVotes] ELSE f
        has == r.snap # None /\ r.snap.index >= s.index
        ok == Follows(k, n) /\ (has \/ ~InstallIsRefused(r, n))
        nd == IF ~Follows(k, n) THEN node
              ELSE [node EXCEPT ![k] = IF has \/ InstallIsRefused(r, n) THEN r ELSE Installed(r, n)]
    IN  /\ Leads(n) /\ k # n /\ node[k].alive
        /\ s # None /\ IsVoter(n)
        /\ node[n].match[k] < s.index
        /\ IF ~heard THEN node' = nd /\ UNCHANGED config
           ELSE IF ok THEN HearSuccess(nd, n, k, s.index) ELSE HearRefusal(nd, n, k)
        /\ UNCHANGED <<leaders, msgs>>

-----------------------------------------------------------------------------
(* recover_voting_configuration *)

\* One entry of _replay_membership_prefix; None when it raises
Replayed(c, entry) ==
    LET cmd == entry.cmd
    IN  CASE c = None \/ cmd = Other -> c
          [] cmd.kind = "joint" -> IF IsJoint(c) THEN None ELSE After(c, cmd)
          [] OTHER -> IF c.new = cmd.voters THEN After(c, cmd) ELSE None

\* What the durable state of n, whose watermark is i, leads to
RecoveredFromWholeLog(n, i) ==    \* faulty: entries after the watermark are replayed too
    FoldLeft(Replayed, IF node[n].base = 0 THEN Stable(bootstrap) ELSE node[n].snap.config,
             SubSeq(node[n].log, node[n].base + 1, LastIndex(node[n])))

RecoveredFrom(n, i) ==
    IF i > LastIndex(node[n]) THEN None
    ELSE FoldLeft(Replayed, IF node[n].base = 0 THEN Stable(bootstrap) ELSE node[n].snap.config,
                  SubSeq(node[n].log, node[n].base + 1, i))

Recovered ==
    LET i == DurableIndex(node)
    IN  IF i = 0 THEN {Stable(bootstrap)}
                 ELSE {RecoveredFrom(n, i) : n \in {k \in Server : node[k].mark = i}}

-----------------------------------------------------------------------------
Init ==
    /\ bootstrap \in Bootstraps
    /\ node = [n \in Server |->
                [alive |-> TRUE, term |-> 0, vote |-> None, role |-> Follower, votes |-> {},
                 preTerm |-> 0, preVotes |-> {}, armed |-> n \in bootstrap, commit |-> 0, log |-> <<>>,
                 base |-> 0, snap |-> None, mark |-> 0, applied |-> 0, match |-> [p \in Server |-> 0]]]
    /\ config = Stable(bootstrap)
    /\ leaders = {}
    /\ msgs = {}

Next ==
    /\ UNCHANGED bootstrap
    /\ \E n \in Server :
        \/ StartElection(n)
        \/ HandleElectionTimeout(n)
        \/ \E m \in msgs : HandlePreVote(n, m)
        \/ \E m \in msgs : HandlePreVoteResponse(n, m)
        \/ \E m \in msgs : HandleRequestVote(n, m)
        \/ \E m \in msgs : HandleRequestVoteResponse(n, m)
        \/ AppendCommand(n)
        \/ \E voters \in Targets : ProposeJoint(n, voters)
        \/ ProposeFinalize(n)
        \/ \E k \in Server, prev \in 0..LastIndex(node[n]), heard \in BOOLEAN : Replicate(n, k, prev, heard)
        \/ AdvanceCommitIndex(n)
        \/ Crash(n)
        \/ Restart(n)
        \/ ApplyCommitted(n)
        \/ Compact(n)
        \/ \E k \in Server, heard \in BOOLEAN : InstallSnapshot(n, k, heard)

Spec == Init /\ [][Next]_vars

-----------------------------------------------------------------------------
(* Properties *)

\* The type invariant.
TypeOK ==
    /\ bootstrap \in Bootstraps
    /\ config.old \in SUBSET Server \ {{}} /\ config.new \subseteq Server
    /\ leaders \subseteq (1..MaxTerm) \X Server
    /\ \A n \in Server :
        LET r == node[n]
        IN  /\ r.alive \in BOOLEAN /\ r.armed \in BOOLEAN
            /\ r.term \in 0..MaxTerm /\ r.vote \in Server \cup {None}
            /\ r.role \in {Follower, Candidate, Leader}
            /\ r.votes \subseteq Server /\ r.preVotes \subseteq Server /\ r.preTerm \in 0..MaxTerm
            /\ LastIndex(r) <= MaxLog /\ r.commit \in 0..LastIndex(r) /\ r.base \in 0..LastIndex(r) /\ r.mark \in 0..MaxLog
            /\ r.applied \in r.base..LastIndex(r)
            /\ r.match \in [Server -> 0..MaxLog]

\* Election Safety while the configuration changes: votes that were given under one
\* configuration and counted under another never make two leaders of one term, so
\* record_leader never raises.
ElectionSafety == \A a, b \in leaders : a[1] = b[1] => a[2] = b[2]

\* docs/membership.md: "A stale or replaced leader cannot apply a pending command".  So two
\* nodes that have both committed an index have the same entry there.  The code counts what a
\* replaced leader collected before the configuration that is live now: run stale_leader.
CommittedEntriesAgree ==
    \A n, k \in Server, i \in 1..MaxLog :
        i <= node[n].commit /\ i <= node[k].commit => node[n].log[i] = node[k].log[i]

\* A cluster that is created again from the durable state of its nodes finds the
\* configuration that was live: no watermark is ahead of it or behind, no source
\* contradicts another, and compacted logs lose nothing.
RecoveryFindsTheLiveConfiguration == Recovered = {config}

Newest(n) == Leads(n) /\ \A k \in Server : node[k].term <= node[n].term

\* The newest leader can build the transition controller: at most one membership command
\* waits in its log, and the live configuration lets that one be next.
PendingCommandIsRecoverable ==
    \A n \in Server :
        Newest(n) =>
            /\ Cardinality(Pending(n)) <= 1
            /\ \A x \in Pending(n) : Replayed(config, node[n].log[x]) # None

\* Whatever crashes and compactions leave, recover_voting_configuration returns the live
\* configuration, and the newest leader is not refused a ReplicatedMembershipTransition.  It
\* says nothing of what that leader can commit: that is CommittedMembershipIsNoObstacle.
MembershipIsRecovered == RecoveryFindsTheLiveConfiguration /\ PendingCommandIsRecoverable

\* docs/membership.md: "Objectively committed membership is not dependent on controller
\* handoff".  So the newest leader does not refuse to commit its entries on account of
\* membership commands that are all committed by the durable watermark.  The code counts those
\* above the commit index of the leader's own replicator as uncommitted: run handoff.
CommittedMembershipIsNoObstacle ==
    \A n \in Server :
        Newest(n) /\ Pending(n) = {} =>
            \A i \in 1..LastIndex(node[n]) :
                TermAt(node[n], i) = node[n].term /\ i > node[n].commit /\ i > node[n].base => ~Refuses(node, n, i)
=============================================================================
