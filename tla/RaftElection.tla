---------------------------- MODULE RaftElection ----------------------------
(***************************************************************************)
(* Elections in distlab/raft.py: pre-vote, RequestVote, the authority part *)
(* of AppendEntries, step-down, crash and restart, and the node-local      *)
(* leader generations that leader_runtime.py and leader_authority.py use   *)
(* as a fence.                                                             *)
(*                                                                         *)
(* Network.  The simulator may drop, delay, duplicate and so reorder any   *)
(* message, and it keeps messages that are in flight across a crash of     *)
(* their receiver.  messages is therefore the set of everything ever sent:  *)
(* a handler may take any member at any time, any number of times or       *)
(* never.                                                                  *)
(* A request that a node sends to each peer is one record without a dst.   *)
(* A response that its receiver ignores now and, since terms only grow,    *)
(* for ever is not recorded.                                               *)
(*                                                                         *)
(* Logs.  This module keeps no log.  Whether a candidate's log is up to    *)
(* date is a nondeterministic choice at each request; module RaftLog has   *)
(* the logs and the comparison.                                            *)
(***************************************************************************)
EXTENDS Naturals, FiniteSets

CONSTANTS
    NodeId,    \* node_ids of the cluster
    Nobody,    \* Python's None as a vote
    MaxTerm    \* bound: no timeout or election starts from this term

ASSUME NodeIdAssumption == IsFiniteSet(NodeId) /\ NodeId # {}
ASSUME NobodyAssumption == Nobody \notin NodeId
ASSUME MaxTermAssumption == MaxTerm \in Nat

VARIABLES
    \* persistent_state
    currentTerm, votedFor,
    \* volatile_state; preVoteTerm 0 stands for None (a prospective term is positive)
    role, votesReceived, preVoteTerm, preVotesReceived,
    \* simulator: which nodes are alive, and which have a timer queued that they will
    \* act on (one of an older generation is ignored, one of a node that is down is lost)
    up, armed,
    \* RaftCluster: terms and their leaders, the generation counter and the
    \* active (term, generation) of each node, term 0 when it has none
    leadersByTerm, generation, activeTerm, activeGen,
    \* LeaderRuntimeSupervisor: the generation whose runtime runs on a node, or 0
    runtime,
    \* the network, and the trace's raft-persist-term-vote records
    messages, voteTrace

durable == <<currentTerm, votedFor, voteTrace>>
electing == <<role, votesReceived, preVoteTerm, preVotesReceived>>
authority == <<leadersByTerm, generation, activeTerm, activeGen, runtime>>
electionVars == <<durable, electing, up, armed, authority, messages>>

Follower == "follower"
Candidate == "candidate"
Leader == "leader"

MsgTypes == {"PreVote", "PreVoteResponse", "RequestVote", "RequestVoteResponse",
             "AppendEntries", "AppendEntriesResponse"}

RaftMessages == [type : MsgTypes, term : Nat, src : NodeId, dst : NodeId \cup {Nobody},
                 prospective : Nat, granted : BOOLEAN]

PeerRequest(type, t, n) ==
    [type |-> type, term |-> t, src |-> n, dst |-> Nobody, prospective |-> 0, granted |-> FALSE]

Response(type, t, n, to, prospective, granted) ==
    [type |-> type, term |-> t, src |-> n, dst |-> to, prospective |-> prospective,
     granted |-> granted]

\* A negative answer matters only while its term is above the receiver's.
Answered(m) ==
    IF m.granted \/ m.term > currentTerm[m.dst] THEN messages \cup {m} ELSE messages

\* A node that is not alive gets nothing: Simulator.run discards the message.
Receives(n, m, type) ==
    /\ up[n]
    /\ m.type = type
    /\ m.src # n
    /\ m.dst \in {n, Nobody}

HasMajorityOffByOne(votes) == Cardinality(votes) >= Cardinality(NodeId) \div 2    \* faulty

HasMajority(votes) == Cardinality(votes) >= Cardinality(NodeId) \div 2 + 1

-----------------------------------------------------------------------------
(* Leader generations *)

\* LeaderRuntimeSupervisor drops the runtime of a retired generation, ...
RetireRuntimeKeeps(running, gen) == running    \* faulty: the retired event is ignored

RetireRuntime(running, gen) == IF running = gen THEN 0 ELSE running

\* ... and refuses to start one over a runtime that still runs.
StartRuntime(running, gen) == IF running = 0 THEN gen ELSE running

\* _notify_leader_retired
NotifyLeaderRetiredStoresNone(n, t) ==    \* faulty: the entry is set to None, not removed
    IF activeTerm[n] # 0 /\ activeTerm[n] = t
      THEN /\ activeTerm' = [activeTerm EXCEPT ![n] = Nobody]
           /\ UNCHANGED <<activeGen, runtime>>
      ELSE UNCHANGED <<activeTerm, activeGen, runtime>>

NotifyLeaderRetired(n, t) ==
    IF activeTerm[n] # 0 /\ activeTerm[n] = t
      THEN /\ activeTerm' = [activeTerm EXCEPT ![n] = 0]
           /\ activeGen' = [activeGen EXCEPT ![n] = 0]
           /\ runtime' = [runtime EXCEPT ![n] = RetireRuntime(@, activeGen[n])]
      ELSE UNCHANGED <<activeTerm, activeGen, runtime>>

\* _notify_leader_acquired; a generation of another term is retired first.
NotifyLeaderAcquired(n, t) ==
    IF activeTerm[n] = t
      THEN UNCHANGED <<generation, activeTerm, activeGen, runtime>>
      ELSE LET running == IF activeTerm[n] = 0 THEN runtime[n]
                                               ELSE RetireRuntime(runtime[n], activeGen[n])
           IN  /\ generation' = generation + 1
               /\ activeTerm' = [activeTerm EXCEPT ![n] = t]
               /\ activeGen' = [activeGen EXCEPT ![n] = generation + 1]
               /\ runtime' = [runtime EXCEPT ![n] = StartRuntime(running, generation + 1)]

-----------------------------------------------------------------------------
(* Steps shared by the handlers *)

\* _persist_term_and_vote
PersistTermAndVote(n, t, v) ==
    /\ currentTerm' = [currentTerm EXCEPT ![n] = t]
    /\ votedFor' = [votedFor EXCEPT ![n] = v]
    /\ voteTrace' = IF v = Nobody THEN voteTrace ELSE voteTrace \cup {<<n, t, v>>}

BecomeFollower(n) ==
    /\ role' = [role EXCEPT ![n] = Follower]
    /\ votesReceived' = [votesReceived EXCEPT ![n] = {}]

ClearPreVote(n) ==
    /\ preVoteTerm' = [preVoteTerm EXCEPT ![n] = 0]
    /\ preVotesReceived' = [preVotesReceived EXCEPT ![n] = {}]

ResetElectionTimeout(n) == armed' = [armed EXCEPT ![n] = TRUE]

\* _advance_term(t, rearm_if_leader=True), which the response handlers call.
AdvanceTermNoRearm(n, t) ==    \* faulty: a retired leader gets no timer
    /\ PersistTermAndVote(n, t, Nobody)
    /\ BecomeFollower(n)
    /\ ClearPreVote(n)
    /\ IF role[n] = Leader THEN NotifyLeaderRetired(n, currentTerm[n])
                           ELSE UNCHANGED <<activeTerm, activeGen, runtime>>
    /\ UNCHANGED <<up, armed, leadersByTerm, generation, messages>>

AdvanceTerm(n, t) ==
    /\ PersistTermAndVote(n, t, Nobody)
    /\ BecomeFollower(n)
    /\ ClearPreVote(n)
    /\ IF role[n] = Leader
         THEN NotifyLeaderRetired(n, currentTerm[n]) /\ ResetElectionTimeout(n)
         ELSE UNCHANGED <<activeTerm, activeGen, runtime, armed>>
    /\ UNCHANGED <<up, leadersByTerm, generation, messages>>

\* _become_leader(t): the timer generation moves on, so no queued timer is current.
BecomeLeader(n, t) ==
    /\ leadersByTerm' = leadersByTerm \cup {<<t, n>>}
    /\ role' = [role EXCEPT ![n] = Leader]
    /\ ClearPreVote(n)
    /\ armed' = [armed EXCEPT ![n] = FALSE]
    /\ NotifyLeaderAcquired(n, t)

\* start_election
ElectionStep(n) ==
    LET t == currentTerm[n] + 1
    IN  /\ currentTerm[n] < MaxTerm
        /\ PersistTermAndVote(n, t, n)
        /\ votesReceived' = [votesReceived EXCEPT ![n] = {n}]
        /\ IF HasMajority({n})
             THEN BecomeLeader(n, t) /\ UNCHANGED messages
             ELSE /\ role' = [role EXCEPT ![n] = Candidate]
                  /\ ClearPreVote(n)
                  /\ ResetElectionTimeout(n)
                  /\ messages' = messages \cup {PeerRequest("RequestVote", t, n)}
                  /\ UNCHANGED authority
        /\ UNCHANGED up

-----------------------------------------------------------------------------
(* Actions *)

\* start_election as called from outside the node: a TimeoutNow delivery or the
\* scenario runner.  Neither calls it on a node that leads.
StartElection(n) ==
    /\ up[n]
    /\ role[n] # Leader
    /\ ElectionStep(n)

\* _handle_election_timeout with the current generation, then start_pre_vote.
HandleElectionTimeout(n) ==
    /\ up[n]
    /\ armed[n]
    /\ role[n] # Leader
    /\ currentTerm[n] < MaxTerm
    /\ IF HasMajority({n})
         THEN ElectionStep(n)
         ELSE /\ preVoteTerm' = [preVoteTerm EXCEPT ![n] = currentTerm[n] + 1]
              /\ preVotesReceived' = [preVotesReceived EXCEPT ![n] = {n}]
              /\ ResetElectionTimeout(n)
              /\ messages' = messages \cup {PeerRequest("PreVote", currentTerm[n] + 1, n)}
              /\ UNCHANGED <<durable, role, votesReceived, up, authority>>

HandlePreVote(n, m, logUpToDate) ==
    /\ Receives(n, m, "PreVote")
    /\ LET grant == m.term >= currentTerm[n] + 1 /\ logUpToDate
       IN  messages' = Answered(Response("PreVoteResponse", currentTerm[n], n, m.src, m.term, grant))
    /\ UNCHANGED <<durable, electing, up, armed, authority>>

HandlePreVoteResponse(n, m) ==
    /\ Receives(n, m, "PreVoteResponse")
    /\ \/ m.term > currentTerm[n] /\ AdvanceTerm(n, m.term)
       \/ /\ m.term <= currentTerm[n]
          /\ preVoteTerm[n] # 0
          /\ m.prospective = preVoteTerm[n]
          /\ preVoteTerm[n] = currentTerm[n] + 1
          /\ role[n] # Leader
          /\ m.granted
          /\ LET votes == preVotesReceived[n] \cup {m.src}
             IN  IF HasMajority(votes)
                   THEN ElectionStep(n)
                   ELSE /\ preVotesReceived' = [preVotesReceived EXCEPT ![n] = votes]
                        /\ UNCHANGED <<durable, role, votesReceived, preVoteTerm, up, armed,
                                       authority, messages>>

HandleRequestVote(n, m, logUpToDate) ==
    /\ Receives(n, m, "RequestVote")
    /\ LET newer == m.term > currentTerm[n]
           retiredLeader == role[n] = Leader /\ newer
           term == IF newer THEN m.term ELSE currentTerm[n]
           vote == IF newer THEN Nobody ELSE votedFor[n]
           grant == m.term = term /\ logUpToDate /\ vote \in {Nobody, m.src}
       IN  /\ PersistTermAndVote(n, term, IF grant THEN m.src ELSE vote)
           /\ IF newer THEN BecomeFollower(n)
                       ELSE /\ role' = [role EXCEPT ![n] = IF grant THEN Follower ELSE @]
                            /\ UNCHANGED votesReceived
           /\ IF newer \/ grant THEN ClearPreVote(n)
                                ELSE UNCHANGED <<preVoteTerm, preVotesReceived>>
           /\ IF retiredLeader THEN NotifyLeaderRetired(n, currentTerm[n])
                               ELSE UNCHANGED <<activeTerm, activeGen, runtime>>
           /\ IF grant \/ retiredLeader THEN ResetElectionTimeout(n) ELSE UNCHANGED armed
           /\ messages' = Answered(Response("RequestVoteResponse", term, n, m.src, 0, grant))
    /\ UNCHANGED <<up, leadersByTerm, generation>>

HandleRequestVoteResponse(n, m) ==
    /\ Receives(n, m, "RequestVoteResponse")
    /\ \/ m.term > currentTerm[n] /\ AdvanceTerm(n, m.term)
       \/ /\ m.term = currentTerm[n]
          /\ role[n] = Candidate
          /\ m.granted
          /\ LET votes == votesReceived[n] \cup {m.src}
             IN  /\ votesReceived' = [votesReceived EXCEPT ![n] = votes]
                 /\ IF HasMajority(votes)
                      THEN BecomeLeader(n, m.term)
                      ELSE UNCHANGED <<role, preVoteTerm, preVotesReceived, armed, authority>>
          /\ UNCHANGED <<durable, up, messages>>

\* send_append_entries; the entries and the commit index are in module RaftLog.
SendAppendEntries(n) ==
    /\ up[n]
    /\ role[n] = Leader
    /\ messages' = messages \cup {PeerRequest("AppendEntries", currentTerm[n], n)}
    /\ UNCHANGED <<durable, electing, up, armed, authority>>

HandleAppendEntries(n, m) ==
    /\ Receives(n, m, "AppendEntries")
    /\ IF m.term < currentTerm[n]
         THEN UNCHANGED <<durable, electing, armed, activeTerm, activeGen, runtime>>
         ELSE /\ IF m.term > currentTerm[n] THEN PersistTermAndVote(n, m.term, Nobody)
                                            ELSE UNCHANGED durable
              /\ BecomeFollower(n)
              /\ ClearPreVote(n)
              /\ ResetElectionTimeout(n)
              /\ IF role[n] = Leader THEN NotifyLeaderRetired(n, currentTerm[n])
                                     ELSE UNCHANGED <<activeTerm, activeGen, runtime>>
    /\ messages' = Answered(Response("AppendEntriesResponse", currentTerm'[n], n, m.src, 0, FALSE))
    /\ UNCHANGED <<up, leadersByTerm, generation>>

HandleAppendEntriesResponse(n, m) ==
    /\ Receives(n, m, "AppendEntriesResponse")
    /\ m.term > currentTerm[n]
    /\ AdvanceTerm(n, m.term)

\* step_down, called by CheckQuorum (leader_liveness.py)
StepDown(n) ==
    /\ up[n]
    /\ role[n] = Leader
    /\ BecomeFollower(n)
    /\ ClearPreVote(n)
    /\ NotifyLeaderRetired(n, currentTerm[n])
    /\ ResetElectionTimeout(n)
    /\ UNCHANGED <<durable, up, leadersByTerm, generation, messages>>

\* Simulator.crash with handle_crash.  A timer still queued is discarded while the node
\* is down, or has an old generation once it has restarted.
HandleCrash(n) ==
    /\ up[n]
    /\ up' = [up EXCEPT ![n] = FALSE]
    /\ IF role[n] = Leader THEN NotifyLeaderRetired(n, currentTerm[n])
                           ELSE UNCHANGED <<activeTerm, activeGen, runtime>>
    /\ BecomeFollower(n)
    /\ ClearPreVote(n)
    /\ armed' = [armed EXCEPT ![n] = FALSE]
    /\ UNCHANGED <<durable, leadersByTerm, generation, messages>>

\* Simulator.restart with handle_restart.  The simulator also restarts a live node.
RestartForgetsVote(n) ==    \* faulty: the vote is not durable
    /\ up' = [up EXCEPT ![n] = TRUE]
    /\ votedFor' = [votedFor EXCEPT ![n] = Nobody]
    /\ NotifyLeaderRetired(n, activeTerm[n])
    /\ BecomeFollower(n)
    /\ ClearPreVote(n)
    /\ ResetElectionTimeout(n)
    /\ UNCHANGED <<currentTerm, voteTrace, leadersByTerm, generation, messages>>

Restart(n) ==
    /\ up' = [up EXCEPT ![n] = TRUE]
    /\ NotifyLeaderRetired(n, activeTerm[n])
    /\ BecomeFollower(n)
    /\ ClearPreVote(n)
    /\ ResetElectionTimeout(n)
    /\ UNCHANGED <<durable, leadersByTerm, generation, messages>>

-----------------------------------------------------------------------------
ElectionInit ==
    /\ currentTerm = [n \in NodeId |-> 0]
    /\ votedFor = [n \in NodeId |-> Nobody]
    /\ role = [n \in NodeId |-> Follower]
    /\ votesReceived = [n \in NodeId |-> {}]
    /\ preVoteTerm = [n \in NodeId |-> 0]
    /\ preVotesReceived = [n \in NodeId |-> {}]
    /\ up = [n \in NodeId |-> TRUE]
    /\ armed = [n \in NodeId |-> TRUE]
    /\ leadersByTerm = {}
    /\ generation = 0
    /\ activeTerm = [n \in NodeId |-> 0]
    /\ activeGen = [n \in NodeId |-> 0]
    /\ runtime = [n \in NodeId |-> 0]
    /\ messages = {}
    /\ voteTrace = {}

HandleMessage(n, m) ==
    \/ \E upToDate \in BOOLEAN : HandlePreVote(n, m, upToDate)
    \/ HandlePreVoteResponse(n, m)
    \/ \E upToDate \in BOOLEAN : HandleRequestVote(n, m, upToDate)
    \/ HandleRequestVoteResponse(n, m)
    \/ HandleAppendEntries(n, m)
    \/ HandleAppendEntriesResponse(n, m)

ElectionNext ==
    \E n \in NodeId :
        \/ StartElection(n)
        \/ HandleElectionTimeout(n)
        \/ SendAppendEntries(n)
        \/ StepDown(n)
        \/ HandleCrash(n)
        \/ Restart(n)
        \/ \E m \in messages : HandleMessage(n, m)

ElectionSpec == ElectionInit /\ [][ElectionNext]_electionVars

-----------------------------------------------------------------------------
(* Properties *)

DurableOK ==
    /\ currentTerm \in [NodeId -> Nat]
    /\ votedFor \in [NodeId -> NodeId \cup {Nobody}]
    /\ voteTrace \subseteq NodeId \X Nat \X NodeId

ElectingOK ==
    /\ role \in [NodeId -> {Follower, Candidate, Leader}]
    /\ votesReceived \in [NodeId -> SUBSET NodeId]
    /\ preVoteTerm \in [NodeId -> Nat]
    /\ preVotesReceived \in [NodeId -> SUBSET NodeId]

SimulatorOK ==
    /\ up \in [NodeId -> BOOLEAN]
    /\ armed \in [NodeId -> BOOLEAN]
    /\ messages \subseteq RaftMessages

AuthorityOK ==
    /\ leadersByTerm \subseteq Nat \X NodeId
    /\ generation \in Nat
    /\ activeTerm \in [NodeId -> Nat]
    /\ activeGen \in [NodeId -> Nat]
    /\ runtime \in [NodeId -> Nat]

\* The type invariant.
ElectionTypeOK == DurableOK /\ ElectingOK /\ SimulatorOK /\ AuthorityOK

\* Over the whole run at most one node wins each term, whatever crashes, restarts
\* and late or repeated votes happen: RaftCluster.record_leader never raises
\* ElectionSafetyViolation.
ElectionSafety ==
    \A a, b \in leadersByTerm : a[1] = b[1] => a[2] = b[2]

\* A node holds an active leader generation, of its current term, exactly while it is a
\* live leader, and the supervisor runs exactly that generation's runtime: no path out
\* of leadership (higher term, step-down, AppendEntries, crash, restart) leaves one
\* behind, so no heartbeat is sent under a retired generation.
GenerationTracksLeadership ==
    \A n \in NodeId :
        /\ runtime[n] = activeGen[n]
        /\ IF role[n] = Leader
             THEN up[n] /\ activeTerm[n] = currentTerm[n] /\ activeGen[n] > 0
             ELSE activeTerm[n] = 0 /\ activeGen[n] = 0

\* Every live node that does not lead has a current election timer queued, so a cluster
\* without a leader always has someone left to call an election: each handler that
\* takes a leader down re-arms the timer that _become_leader cancelled.
TimerArmedUnlessLeading ==
    \A n \in NodeId : up[n] => (armed[n] <=> role[n] # Leader)

\* A node that has voted in a term never votes for another candidate in that term,
\* and its term never falls, across crashes and restarts too.
VoteIsFinal ==
    [][\A n \in NodeId :
          /\ currentTerm'[n] >= currentTerm[n]
          /\ currentTerm'[n] = currentTerm[n] /\ votedFor[n] # Nobody
                => votedFor'[n] = votedFor[n]]_electionVars
=============================================================================
