------------------------------- MODULE RaftLog -------------------------------
(***************************************************************************)
(* Log replication: the log part of raft.py (votes with the up-to-date     *)
(* check, AppendEntries, commit index), RaftLogView of log_index.py, match *)
(* and commit indexes of the LeaderReplicator of replication.py, and the   *)
(* StateMachineApplier of state_machine.py.  Pre-vote, timers and leader   *)
(* generations are in module RaftElection.  The replicator's next_index    *)
(* and its correlation of responses with probes are left out: a leader     *)
(* sends from any index and may count any success of its term, which is    *)
(* more than the replicator does.  Compaction and snapshots are not        *)
(* modelled, so the base index of every log is 0.                          *)
(*                                                                         *)
(* Network.  msgs holds the messages in flight.  A delivery may consume    *)
(* its message or leave it to be delivered again, and any message may be   *)
(* lost.  A node that is down takes no step and loses what it is sent, so  *)
(* a crash shows only at the restart, which clears the volatile state.     *)
(***************************************************************************)
EXTENDS Naturals, FiniteSets, Sequences

CONSTANTS
    Server,       \* node_ids of the cluster
    None,         \* Python's None
    Value,        \* commands of log entries
    MaxTerm,      \* bound: no election starts from this term
    MaxLog,       \* bound: no leader appends to a log of this length
    MaxInFlight,  \* bound: how many messages are in flight at a time
    MaxApplied    \* bound: no node applies an entry beyond this index

ASSUME ServerAssumption == IsFiniteSet(Server) /\ Server # {}
ASSUME NoneAssumption == None \notin Server
ASSUME BoundAssumption == {MaxTerm, MaxLog, MaxInFlight, MaxApplied} \subseteq Nat

VARIABLES
    \* persistent_state of raft.py, and state_machine_applied of state_machine.py
    currentTerm, votedFor, log, applied,
    \* volatile_state
    role, votesReceived, commitIndex,
    \* match_index of each peer in the LeaderReplicator of a leader
    matchIndex,
    msgs

durable == <<currentTerm, votedFor, log>>
vars == <<durable, applied, role, votesReceived, commitIndex, matchIndex, msgs>>

Follower == "follower"
Candidate == "candidate"
Leader == "leader"

Entry == [term : Nat, command : Value]

HasMajority(votes) == Cardinality(votes) >= Cardinality(Server) \div 2 + 1

-----------------------------------------------------------------------------
(* RaftLogView *)

LastIndex(lg) == Len(lg)

TermAt(lg, i) == IF i = 0 THEN 0 ELSE lg[i].term

LastTerm(lg) == TermAt(lg, Len(lg))

PrefixMatches(lg, i, t) == i <= Len(lg) /\ TermAt(lg, i) = t

SuffixFrom(lg, i) == SubSeq(lg, i, Len(lg))

\* merge_after: skip the entries that the log already has, cut the log at the first
\* one whose term differs, and append the rest.
MergeAfterKeepsConflict(lg, prev, incoming) ==    \* faulty: a conflicting tail is not cut
    IF Len(lg) >= prev + Len(incoming)
      THEN lg
      ELSE lg \o SubSeq(incoming, Len(lg) - prev + 1, Len(incoming))

MergeAfterCutsTail(lg, prev, incoming) ==    \* faulty: a late request cuts newer entries
    SubSeq(lg, 1, prev) \o incoming

MergeAfter(lg, prev, incoming) ==
    LET differing == {j \in 1..Len(incoming) : prev + j > Len(lg) \/ lg[prev + j].term # incoming[j].term}
    IN  IF differing = {}
          THEN lg
          ELSE [i \in 1..prev + Len(incoming) |->
                    IF \E j \in differing : prev + j <= i THEN incoming[i - prev] ELSE lg[i]]

-----------------------------------------------------------------------------
(* The network *)

Send(new) == msgs' = msgs \cup new /\ Cardinality(msgs') <= MaxInFlight

\* A negative answer matters only while its term is above the receiver's.
Answer(m) == IF m.granted \/ m.term > currentTerm[m.dst] THEN {m} ELSE {}

\* A delivery of m leaves it in flight (a duplicate) or not, and adds the new ones.
Deliver(m, new) ==
    \E kept \in {{}, {m}} : /\ msgs' = (msgs \ {m}) \cup kept \cup new
                            /\ Cardinality(msgs') <= MaxInFlight

Receives(n, m, type) == m.type = type /\ m.dst \in {n, None} /\ m.src # n

Lose(m) ==
    /\ msgs' = msgs \ {m}
    /\ UNCHANGED <<durable, applied, role, votesReceived, commitIndex, matchIndex>>

-----------------------------------------------------------------------------
(* Steps shared by the handlers *)

PersistTermAndVote(n, t, v) ==
    /\ currentTerm' = [currentTerm EXCEPT ![n] = t]
    /\ votedFor' = [votedFor EXCEPT ![n] = v]

\* A new LeaderReplicator counts no peer.  It serves one leader in one term; the model
\* forgets it with the leadership.
ResetReplicator(n) ==
    matchIndex' = [matchIndex EXCEPT ![n] = [p \in Server |-> 0]]

BecomeFollower(n) ==
    /\ role' = [role EXCEPT ![n] = Follower]
    /\ votesReceived' = [votesReceived EXCEPT ![n] = {}]
    /\ ResetReplicator(n)

\* advance_commit_index of the node
AdvanceNodeCommit(n, commit) ==
    commitIndex' = [commitIndex EXCEPT ![n] = IF commit > @ THEN commit ELSE @]

\* _advance_term, called by the response handlers
AdvanceTerm(n, t) ==
    /\ PersistTermAndVote(n, t, None)
    /\ BecomeFollower(n)
    /\ UNCHANGED <<log, applied, commitIndex>>

-----------------------------------------------------------------------------
(* Elections *)

\* start_election, from whichever caller; none calls it on a leader.
StartElection(n) ==
    LET t == currentTerm[n] + 1
    IN  /\ role[n] # Leader
        /\ currentTerm[n] < MaxTerm
        /\ PersistTermAndVote(n, t, n)
        /\ votesReceived' = [votesReceived EXCEPT ![n] = {n}]
        /\ IF HasMajority({n})
             THEN role' = [role EXCEPT ![n] = Leader] /\ UNCHANGED msgs
             ELSE /\ role' = [role EXCEPT ![n] = Candidate]
                  /\ Send({[type |-> "RequestVote", term |-> t, src |-> n, dst |-> None,
                            lastIndex |-> LastIndex(log[n]), lastTerm |-> LastTerm(log[n])]})
        /\ UNCHANGED <<log, applied, commitIndex, matchIndex>>

CandidateLogIsUpToDateIndexOnly(m, lg) == m.lastIndex >= LastIndex(lg)    \* faulty

CandidateLogIsUpToDate(m, lg) ==
    IF m.lastTerm # LastTerm(lg) THEN m.lastTerm > LastTerm(lg) ELSE m.lastIndex >= LastIndex(lg)

HandleRequestVote(n, m) ==
    LET newer == m.term > currentTerm[n]
        term == IF newer THEN m.term ELSE currentTerm[n]
        vote == IF newer THEN None ELSE votedFor[n]
        grant == m.term = term /\ CandidateLogIsUpToDate(m, log[n]) /\ vote \in {None, m.src}
    IN  /\ Receives(n, m, "RequestVote")
        /\ PersistTermAndVote(n, term, IF grant THEN m.src ELSE vote)
        /\ IF newer THEN BecomeFollower(n)
                    ELSE /\ role' = [role EXCEPT ![n] = IF grant THEN Follower ELSE @]
                         /\ UNCHANGED <<votesReceived, matchIndex>>
        /\ Deliver(m, Answer([type |-> "RequestVoteResponse", term |-> term, src |-> n,
                              dst |-> m.src, granted |-> grant]))
        /\ UNCHANGED <<log, applied, commitIndex>>

HandleRequestVoteResponse(n, m) ==
    /\ Receives(n, m, "RequestVoteResponse")
    /\ \/ m.term > currentTerm[n] /\ AdvanceTerm(n, m.term)
       \/ /\ m.term = currentTerm[n]
          /\ role[n] = Candidate
          /\ m.granted
          /\ LET votes == votesReceived[n] \cup {m.src}
             IN  /\ votesReceived' = [votesReceived EXCEPT ![n] = votes]
                 /\ IF HasMajority(votes) THEN role' = [role EXCEPT ![n] = Leader]
                                          ELSE UNCHANGED role
          /\ UNCHANGED <<durable, applied, commitIndex, matchIndex>>
    /\ Deliver(m, {})

-----------------------------------------------------------------------------
(* Replication *)

\* A leader appends a client's command or a current-term barrier to its own log.
AppendCommandWithoutTerm(n, v) ==    \* faulty: the command is stored without its LogEntry
    /\ role[n] = Leader
    /\ Len(log[n]) < MaxLog
    /\ log' = [log EXCEPT ![n] = Append(@, v)]
    /\ UNCHANGED <<currentTerm, votedFor, applied, role, votesReceived, commitIndex, matchIndex, msgs>>

AppendCommandOverTail(n, v) ==    \* faulty: what is not committed is replaced
    /\ role[n] = Leader
    /\ Len(log[n]) < MaxLog
    /\ log' = [log EXCEPT ![n] = Append(SubSeq(@, 1, commitIndex[n]),
                                        [term |-> currentTerm[n], command |-> v])]
    /\ UNCHANGED <<currentTerm, votedFor, applied, role, votesReceived, commitIndex, matchIndex, msgs>>

AppendCommand(n, v) ==
    /\ role[n] = Leader
    /\ Len(log[n]) < MaxLog
    /\ log' = [log EXCEPT ![n] = Append(@, [term |-> currentTerm[n], command |-> v])]
    /\ UNCHANGED <<currentTerm, votedFor, applied, role, votesReceived, commitIndex, matchIndex, msgs>>

\* Services make a replicator for each operation.
NewReplicator(n) ==
    /\ role[n] = Leader
    /\ ResetReplicator(n)
    /\ UNCHANGED <<durable, applied, role, votesReceived, commitIndex, msgs>>

\* replicate(p) up to sim.run(), or a heartbeat: the log from some index on.
Replicate(n, p, prev) ==
    /\ role[n] = Leader
    /\ p # n
    /\ Send({[type |-> "AppendEntries", term |-> currentTerm[n], src |-> n, dst |-> p,
             prev |-> prev, prevTerm |-> TermAt(log[n], prev),
             entries |-> SuffixFrom(log[n], prev + 1), commit |-> commitIndex[n]]})
    /\ UNCHANGED <<durable, applied, role, votesReceived, commitIndex, matchIndex>>

Smaller(i, j) == IF i <= j THEN i ELSE j

HandleAppendEntries(n, m) ==
    LET newer == m.term > currentTerm[n]
        current == m.term >= currentTerm[n]
        success == current /\ PrefixMatches(log[n], m.prev, m.prevTerm)
        match == IF success THEN m.prev + Len(m.entries) ELSE 0
    IN  /\ Receives(n, m, "AppendEntries")
        /\ IF newer THEN PersistTermAndVote(n, m.term, None) ELSE UNCHANGED <<currentTerm, votedFor>>
        /\ IF current THEN BecomeFollower(n) ELSE UNCHANGED <<role, votesReceived, matchIndex>>
        /\ IF success
             THEN /\ log' = [log EXCEPT ![n] = MergeAfter(@, m.prev, m.entries)]
                  /\ AdvanceNodeCommit(n, Smaller(m.commit, match))
             ELSE UNCHANGED <<log, commitIndex>>
        /\ Deliver(m, Answer([type |-> "AppendEntriesResponse", term |-> currentTerm'[n],
                              src |-> n, dst |-> m.src, granted |-> success, match |-> match]))
        /\ UNCHANGED applied

\* advance_commit_index of the replicator: the last entry of the leader's own term that a
\* majority has.
ReplicatedAnyTerm(n, match) ==    \* faulty: an entry of an older term counts too
    {i \in commitIndex[n] + 1 .. Len(log[n]) :
        HasMajority({n} \cup {p \in Server \ {n} : match[p] >= i})}

Replicated(n, match) ==
    {i \in commitIndex[n] + 1 .. Len(log[n]) :
        /\ log[n][i].term = currentTerm[n]
        /\ HasMajority({n} \cup {p \in Server \ {n} : match[p] >= i})}

AdvanceCommitIndex(n, match) ==
    LET ready == Replicated(n, match)
    IN  \/ ready = {} /\ UNCHANGED commitIndex
        \/ \E i \in ready : (\A j \in ready : j <= i) /\ AdvanceNodeCommit(n, i)

\* The node's handler, and what replicate does with a success that it takes after sim.run().
HandleAppendEntriesResponse(n, m) ==
    /\ Receives(n, m, "AppendEntriesResponse")
    /\ \/ m.term > currentTerm[n] /\ AdvanceTerm(n, m.term)
       \/ /\ role[n] = Leader
          /\ m.term = currentTerm[n]
          /\ m.granted
          /\ matchIndex' = [matchIndex EXCEPT ![n][m.src] = IF m.match > @ THEN m.match ELSE @]
          /\ AdvanceCommitIndex(n, matchIndex'[n])
          /\ UNCHANGED <<durable, applied, role, votesReceived>>
    /\ Deliver(m, {})

-----------------------------------------------------------------------------
(* The state machine *)

\* apply_committed, which drivers call whenever they like: the node applies what it knows
\* to be committed and has not applied, one entry after the other.
ApplyCommittedFromStart(n) ==    \* faulty: a restart applies everything again
    /\ commitIndex[n] \in Len(applied[n]) + 1 .. MaxApplied
    /\ applied' = [applied EXCEPT ![n] = @ \o SubSeq(log[n], 1, commitIndex[n])]
    /\ UNCHANGED <<durable, role, votesReceived, commitIndex, matchIndex, msgs>>

ApplyCommitted(n) ==
    /\ commitIndex[n] \in Len(applied[n]) + 1 .. MaxApplied
    /\ applied' = [applied EXCEPT ![n] = @ \o SubSeq(log[n], Len(@) + 1, commitIndex[n])]
    /\ UNCHANGED <<durable, role, votesReceived, commitIndex, matchIndex, msgs>>

-----------------------------------------------------------------------------
(* Step-down and restart *)

StepDown(n) ==
    /\ role[n] = Leader
    /\ BecomeFollower(n)
    /\ UNCHANGED <<durable, applied, commitIndex, msgs>>

Restart(n) ==
    /\ BecomeFollower(n)
    /\ commitIndex' = [commitIndex EXCEPT ![n] = 0]
    /\ UNCHANGED <<durable, applied, msgs>>

-----------------------------------------------------------------------------
Init ==
    /\ currentTerm = [n \in Server |-> 0]
    /\ votedFor = [n \in Server |-> None]
    /\ log = [n \in Server |-> <<>>]
    /\ applied = [n \in Server |-> <<>>]
    /\ role = [n \in Server |-> Follower]
    /\ votesReceived = [n \in Server |-> {}]
    /\ commitIndex = [n \in Server |-> 0]
    /\ matchIndex = [n \in Server |-> [p \in Server |-> 0]]
    /\ msgs = {}

Next ==
    \E n \in Server :
        \/ StartElection(n)
        \/ \E v \in Value : AppendCommand(n, v)
        \/ NewReplicator(n)
        \/ \E p \in Server : \E prev \in 0..Len(log[n]) : Replicate(n, p, prev)
        \/ ApplyCommitted(n)
        \/ StepDown(n)
        \/ Restart(n)
        \/ \E m \in msgs : HandleRequestVote(n, m)
        \/ \E m \in msgs : HandleRequestVoteResponse(n, m)
        \/ \E m \in msgs : HandleAppendEntries(n, m)
        \/ \E m \in msgs : HandleAppendEntriesResponse(n, m)
        \/ \E m \in msgs : Lose(m)

Spec == Init /\ [][Next]_vars

-----------------------------------------------------------------------------
(* Properties *)

\* The type invariant.
TypeOK ==
    /\ currentTerm \in [Server -> Nat]
    /\ votedFor \in [Server -> Server \cup {None}]
    /\ log \in [Server -> Seq(Entry)]
    /\ applied \in [Server -> Seq(Entry)]
    /\ role \in [Server -> {Follower, Candidate, Leader}]
    /\ votesReceived \in [Server -> SUBSET Server]
    /\ commitIndex \in [Server -> Nat]
    /\ \A n \in Server : commitIndex[n] <= Len(log[n])
    /\ matchIndex \in [Server -> [Server -> Nat]]

\* If two logs have an entry of the same term at an index, they are equal up to it:
\* RaftCluster.assert_log_matching and merge_after never raise LogMatchingViolation.
LogMatching ==
    \A a, b \in Server : \A i \in 1..Smaller(Len(log[a]), Len(log[b])) :
        log[a][i].term = log[b][i].term => SubSeq(log[a], 1, i) = SubSeq(log[b], 1, i)

\* What a state machine has applied is on disk and stays a prefix of the log, through
\* every truncation by later leaders and every restart: _load_durable_state never finds
\* that the applied history diverges from the log.
AppliedStaysInLog ==
    \A n \in Server : /\ Len(applied[n]) <= Len(log[n])
                      /\ applied[n] = SubSeq(log[n], 1, Len(applied[n]))

\* No two nodes ever apply different entries at one index: StateMachineApplier never
\* raises StateMachineSafetyViolation.
StateMachineSafety ==
    \A a, b \in Server : \A i \in 1..Smaller(Len(applied[a]), Len(applied[b])) :
        applied[a][i] = applied[b][i]

\* A leader has every entry that a node of its own or an earlier term knows to be
\* committed or has applied.
LeaderCompleteness ==
    \A l, n \in Server : role[l] = Leader /\ currentTerm[n] <= currentTerm[l] =>
        /\ commitIndex[n] <= Len(log[l])
        /\ SubSeq(log[n], 1, commitIndex[n]) = SubSeq(log[l], 1, commitIndex[n])
        /\ Len(applied[n]) <= Len(log[l])
        /\ applied[n] = SubSeq(log[l], 1, Len(applied[n]))

\* While a peer is still in the leader's term it really holds the prefix that the
\* replicator counts it for.
MatchIndexIsTrue ==
    \A l, p \in Server : role[l] = Leader /\ currentTerm[p] = currentTerm[l] /\ p # l =>
        /\ matchIndex[l][p] <= Len(log[p])
        /\ SubSeq(log[p], 1, matchIndex[l][p]) = SubSeq(log[l], 1, matchIndex[l][p])

\* A leader never rewrites or drops an entry of its own log while it leads.
LeaderAppendOnly ==
    [][\A n \in Server : role[n] = Leader /\ role'[n] = Leader =>
          /\ Len(log'[n]) >= Len(log[n])
          /\ SubSeq(log'[n], 1, Len(log[n])) = log[n]]_vars
=============================================================================
