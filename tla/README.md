# Verification of distributed-systems-lab

TLA+ modules for the protocols of `src/distlab`, the TLC configurations that
check them on small instances, and TLAPS proofs of the results that hold for
every instance. `PROJECT.json` maps every definition to the lines it models and
lists runs, mutants, hazards and theorems.

Run from this directory:

    tlc -workers 2 -config RaftLog.cfg MCRaftLog
    tlapm PaxosProofs.tla

## The system

distlab is a laboratory: protocol nodes run inside one deterministic,
single-threaded simulator. Nothing runs in parallel, yet every handler is an
interleaving point, and a fault plan may drop, delay or duplicate any message,
block links, and crash and restart nodes between two events.

| Component | State | Operations | Hard part |
|---|---|---|---|
| Simulator (`simulator.py`) | event heap (time, sequence), alive flags, link ordinals, blocked links, `persistent_state`, `volatile_state`, trace | send, crash, restart, partition, run, run_until_time | lost, late and repeated messages; events for nodes that are down |
| Raft node (`raft.py`) | durable term, vote, log; volatile role, votes, pre-votes, commit index; timer generation | timeout, pre-vote, vote, AppendEntries, step_down, crash, restart | election safety across restarts; timers after leadership |
| Leader generations (`raft.py`, `leader_runtime.py`, `leader_authority.py`) | generation counter, active (term, generation) per node, running runtime | acquired and retired events, `require` | every way out of leadership has to retire the generation |
| Log view (`log_index.py`) | base index and term, entries | prefix_matches, merge_after, compact_through | late requests against newer entries |
| Leader replicator (`replication.py`) | next and match index per peer, cached commit index | replicate, recover_peer, activity probes, advance_commit_index | which response answers which probe; old-term entries |
| Applier (`state_machine.py`), KV (`kv.py`) | durable applied prefix, KV image, request ids | apply_committed | exactly once over restarts |
| Leader service, reads, CheckQuorum (`leader_service.py`, `linearizable_read.py`, `leader_liveness.py`, `heartbeat.py`) | none of their own between calls | write, read, barrier, check | each blocking step drains the simulator; authority read before is stale after |
| Snapshots (`snapshot.py`, `snapshot_transport.py`) | durable snapshot, log base | create, compact, install | late snapshots, boundary arithmetic, restart with a base |
| Membership (`membership*.py`) | stable or joint configuration, durable commit index of it | propose, activate, finalize, recover | votes counted across a change |
| Leadership transfer (`leadership_transfer*.py`) | active attempts | send, cancel, retry, deliver TimeoutNow | retry and cancel against delivery |
| Clients (`client_session.py`, `client_history.py`) | one pending operation, request-id floor, history | invoke, retry, complete, recover | floor from stale state |
| Paxos (`paxos.py`) | durable promise, accepted value, history, round, decision; volatile proposal | start_proposal, five message handlers, crash, restart | competing proposers, number reuse |
| Paxos log (`paxos_log.py`, `paxos_log_recovery.py`) | the same per slot, one round counter for all slots | the same per slot, reconstruction from durable histories | shared round, rebuilt decisions |
| Multi-Paxos (`multipaxos*.py`) | leader ballot, promises, pending slots, learned slots, recovery episode, applied prefix | prepare_leadership, propose, retry, recover, apply_ready, client submit and poll | reuse of a slot in one ballot, bounded recovery, holes |
| Checkers (`linearizability.py`, `multikey_linearizability.py`) | operation history | invoke, respond, abandon, two searches | pending operations, real time, locality |
| Minimizers (`_deletion_minimizer.py`, `*_minimizer.py`) | none | deletion loop, rounds over schedules | failures that come and go; termination |
| Campaigns, codecs, demos | none | drivers and JSON | - |

Interaction: nodes talk only through `Simulator.send`; a replicator, a service
or a driver calls node methods directly and then runs the simulator, so any
number of deliveries, crashes excepted unless scheduled, may happen inside one
such call. RaftCluster calls the runtime supervisor back when leadership is
acquired or retired.

What makes the parts correct: one leader per term and final votes; a leader
generation exactly while a node leads; a live timer on every live non-leader;
matching logs; committed entries kept by every later leader; an applied prefix
that is never cut or applied again; one chosen value per decree, decisions
backed by durable majorities, kept promises; acknowledged writes that stay and
reads that see them; authority that was current when it was claimed; durable
state from which every store can be built again; one live configuration that
can be found again; requests that take effect once; searches that accept
exactly the linearizable histories; reductions that end with a failure of which
nothing can be left out. `PROJECT.json` lists the hazards at their lines, each
with the properties that cover it.

## Modules

| Module | Models | Role |
|---|---|---|
| `Simulator` | `simulator.py`: queue, fault plan, links, both loops | checked, proved |
| `RaftElection` | elections, step-down, crash and restart of `raft.py`; generations; start and retire of `leader_runtime.py` | checked, proved |
| `RaftLog` | votes with logs, AppendEntries, `log_index.py` with base 0, match and commit index, `apply_committed` | checked, proved |
| `RaftLogProofs` | theorems on it | TLAPS |
| `LeaderService` | `leader_service.py`, `replication.py`, `linearizable_read.py`, `leader_liveness.py` | checked, proved |
| `LeaderServiceProofs` | theorems on it | TLAPS |
| `Snapshot` | `snapshot.py`, `snapshot_transport.py`, logs with a base, reconstruction | checked, proved |
| `SnapshotProofs` | theorems on it | TLAPS |
| `Membership` | `membership.py`, `membership_log.py`, `membership_replication.py` | checked |
| `LeadershipTransfer` | the three modules of the transfer; EXTENDS `Membership` | checked, proved |
| `LeadershipTransferProofs` | theorems on it | TLAPS |
| `History` | the operation history of `linearizability.py` | checked |
| `Linearizability` | the searches of `linearizability.py`, `multikey_linearizability.py` against the definition; EXTENDS `History` | checked |
| `KVClient` | `kv.py`, `client_session.py`, `client_history.py`; EXTENDS `History` | checked, proved |
| `Paxos` | all of `PaxosNode` and `PaxosCluster` | checked, proved |
| `Consensus` | abstract decree that `Paxos`, and each slot of `MultiPaxos`, implements | abstract |
| `PaxosProofs` | theorems on `Paxos`, with the refinement | TLAPS |
| `PaxosLog` | `paxos_log.py`, `paxos_log_recovery.py`; each slot implements `Paxos` | checked, proved |
| `PaxosLogProofs` | theorems on it, with the refinement | TLAPS |
| `MultiPaxos` | `MultiPaxosCluster`, `MultiPaxosNode`; each slot implements `Consensus` | checked, proved |
| `MultiPaxosProofs` | theorems on it, with the refinement | TLAPS |
| `MultiPaxosApply` | decision recovery, application and client on abstract slots | checked, proved |
| `Minimizer` | the deletion loop, the combined and the joint minimizer | checked, proved |
| `LaboratoryProofs` | theorems on `RaftElection`, `Simulator`, `Minimizer`, `MultiPaxosApply` and `KVClient` | TLAPS |
| `MC...` | constants, the instances a run explores, symmetry sets | TLC |

How they fit together: `Paxos` implements `Consensus`, `PaxosLog` implements
one `Paxos` per slot, `MultiPaxos` one `Consensus` per slot, and
`MultiPaxosApply` builds on slots that decide once. `LeadershipTransfer` runs
in every behaviour of `Membership`. `MCSessionsAndTools` has the histories of
`KVClient` judged by the checkers of `Linearizability`.

Three runs put parts together that share no state, and a behaviour is one of a
single part while the others stay as they were built: `MCElectionAndSlots` has
`RaftElection` and `PaxosLog`, `MCHistoriesAndApply` has `Linearizability` and
`MultiPaxosApply`, `MCSessionsAndTools` has `KVClient`, `Minimizer` and
`Simulator`. Each part has its own instances, as in a run of its own.

Operators marked `faulty` are versions of the code with a plausible bug. They
are used by nothing but the mutants of `PROJECT.json`.

### Simulator

`queue` is a set; the heap's order is `Before`. Of the trace, deliveries,
discards and drops are kept. What handlers do is open: each operation may
happen inside a loop as well as between loops. Nothing in the code starts a
loop from a handler, and the model does not either. The protocol modules do
not compose this one; they allow any message to be late, repeated or lost,
which covers every plan.

### RaftElection

One record per node for each Python attribute, under its own name. A missing
term or generation is 0 (real ones are positive). `messages` is the set of every
message ever sent, which makes loss, delay, duplication and reordering free; a
broadcast is one record. Negative answers that can never have an effect are
not recorded. `armed` says that a timer with the node's current generation is
in the queue; logical time is left out, so a timer may fire whenever it is
armed. The log comparison of a vote is a free choice here. `voteTrace`
is the simulator trace's record of persisted votes; no action reads it. The
names `NodeId`, `up` and `ElectionSpec` keep it apart from the other modules that
`LaboratoryProofs` and `MCElectionAndSlots` extend.

`StartElection` stands for calls from outside the node (TimeoutNow, scenario
runner). It is guarded by `role # Leader`, as its callers are.

### RaftLog

Logs, votes and commit indexes without timers, pre-votes and generations, so
that the state space goes to the logs. `Replicate` sends from any index instead
of from `next_index`, and a leader counts any success of its term instead of
the one answer that its replicator correlates: both are supersets of what
`replication.py` does, so what holds here holds there. `NewReplicator` is the
reset of the match indexes when a service builds another replicator.
`ApplyCommitted` is an action of its own because drivers call
`apply_committed` separately from the delivery that moves the commit index. A
node that is down takes no step, so a crash is visible only through `Restart`,
which forgets the volatile state; messages to it are lost by `Lose`.

### Paxos

Nodes are natural numbers in the order of their ids, so that proposal numbers
compare as the code's ordered pairs. What a node does to itself within a call
(its own promise, acceptance and learning) is part of the action. A cluster of
a single node, in which a whole proposal is one call, is excluded by
assumption. Crash and restart are one action: between them a node takes no
step. Where the code raises `PaxosSafetyViolation` the model has no branch;
`NoSafetyViolation` says that no message that was ever sent leads there.
`value` holds `original_value` before the accept phase and `chosen_value`
after it. Promises that arrive after the accept phase has started are stored
by the code and never read; the model drops them. `_chosen_acceptors` is only
reported and is left out.

### LeaderService

One operation (write, read or CheckQuorum round) runs at a time, as in the
single-threaded program, and gives way to the simulator each time the code runs
it: there leaders are elected and deposed, nodes crash and messages move. After
that the operation looks for its answer in the trace, of which the model keeps
what `replication.py` searches for. Elections are one step (`RaftElection` has
their messages), and a node leads a term once, so a generation is a pair of
node and term. Each operation builds a replicator, with its own cached commit
index.

### Snapshot

An entry is its term, which identifies it at an index by `LogMatching`. The
key-value image with its request table stands for the sequence of entries
executed. `Reconstruct` is what the constructors of applier, KV and snapshot
store do with durable state, with the conditions under which they raise.
Elections are one step, and an answer arrives at once or never; `RaftElection`,
`RaftLog` and `LeaderService` have the messages of both. InstallSnapshot
requests do stay in flight.

### Membership and LeadershipTransfer

The configuration is one value for the whole cluster, as the code has it.
Messages of elections stay in flight for ever; refusals without effect are not
kept. AppendEntries and InstallSnapshot are exchanges in one step whose answer
may be lost, because `replicate` drains the simulator. A leader has one
replicator for its term. The applied index is durable and has an action of its
own, `ApplyCommitted`, since drivers apply separately: after a crash it may lie
above the commit index, and before application below it. Compaction takes a
prefix that is applied, and a snapshot is refused (`InstallIsRefused`) when more
than it holds is applied, so one whose boundary is below the commit index may
still be installed. On top of it, a transfer catches its target up, sends
TimeoutNow with an attempt id, waits, retries and gives up; TimeoutNow stays in
flight for ever, and the budgets of the waits may run out at any moment,
even when the target is already elected, as an event budget may. The model
cancels the attempt on every failure; the code catches `ReplicationError` alone
around a retry (`leadership_transfer.py:207`), so a `MembershipChangeError` in the
catch-up of a retry would leave the attempt active. That takes a scheduled
callback which changes the configuration while `replicate` drains the queue, and
no TimeoutNow is in flight after the drain, so nobody is elected by it.

### History, Linearizability and KVClient

`Search` is the recursive search of the code over operations that may come
next. It is compared with the definition, which quantifies over all orders of
all sets of operations that took effect. `Linearizability` has a RECURSIVE
operator and is for TLC only; the record of operations is a module of its own,
`History`. `KVClient` takes the Raft log as the sequence of committed
requests, in which a request may be committed late and, up to `MaxCopies`
times, again; a read barrier lets a node apply all of it. Sessions fail at any
time and are recovered from the history and a node. Recovery from a replica
that lags is what the code documents as possibly stale, and is left out.

### PaxosLog, MultiPaxos, MultiPaxosApply

Node order, messages and crashes are as in `Paxos`. The reconstruction of a
cluster from durable histories is an action: for each slot it takes the
smallest number that has a majority, as the code's sorted scan does, and it
raises where the code raises. In `MultiPaxos` a handler that raises keeps what
it has written before. `Hints` are nodes whose callers choose slots themselves
(`submit` with `slot=`). `MultiPaxosApply` replaces the ballots by slots that
are decided once, in any order, and has what happens afterwards: decisions that
are lost on their way, recovery episodes with a window and a number of
attempts, timers of old episodes, application in slot order, crash and replay,
retried requests and their acknowledgements.

### Minimizer

Entries are their numbers in the original schedules, what is left of a schedule
is a set of them, and the failure predicate is any set of scenarios that
contains the whole one: no monotonicity is assumed. Replaying a scenario is that
predicate. `IsInRange` is the check of the scenario runner that a fault's
boundary lies within the workload.

## Runs

| Run | Instance | Checks | Distinct states |
|---|---|---|---|
| `election_and_slots` | `RaftElection`: 3 nodes, 2 terms, at most 5 messages ever; `PaxosLog`: 3 nodes, 2 slots, 2 proposers, one slot with competition, two slots with two rounds | ElectionTypeOK, ElectionSafety, GenerationTracksLeadership, TimerArmedUnlessLeading, VoteIsFinal; DecisionsSurvive, SlotsImplementPaxos | 200 thousand |
| `raft_log` | 3 nodes; terms/entries/messages in flight/applied: 2/2/1/0, 4/1/1/1, 2/1/1/1, 1/2/1/2, 1/1/2/0 | TypeOK, LogMatching, MatchIndexIsTrue, LeaderCompleteness, AppliedStaysInLog, StateMachineSafety, LeaderAppendOnly | 475 thousand |
| `leader_service` | 3 nodes, 2 terms, one write; writes and reads, late answers to reads, late answers to CheckQuorum | AnswersAreCurrent, AcknowledgedWritesStay | 1.14 million |
| `snapshot` | 3 nodes, 2 terms, 2 entries; conflicts beyond a boundary, two leaders, late messages | DurableStateReconstructs, MatchIndexIsTrue, NothingIsRolledBack | 481 thousand |
| `membership` | 3 nodes, up to 3 terms, 2 entries, 2 transfer attempts; seven instances | ElectionSafety, MembershipIsRecovered, TransfersAreFenced | 206 thousand |
| `stale_leader` | 4 nodes, voters {a,b,c} to {a,c,d}, 2 terms | CommittedEntriesAgree, violated | - |
| `handoff` | the instances of `membership` | CommittedMembershipIsNoObstacle, violated | - |
| `paxos` | 3 nodes, 2 values, 2 proposals of 2 rounds | TypeOK, Agreement, PromisesAreKept, NoSafetyViolation, ImplementsConsensus | 475 thousand |
| `paxos_liveness` | 3 nodes, 1 value, 2 proposals, fair delivery | EveryoneLearns | 250 thousand |
| `multipaxos` | 3 nodes, 2 slots, 2 values, 2 ballots; two leaders, a caller that chooses slots, two slots and two rounds | OneValuePerBallot, DecisionsSurvive, SlotsImplementConsensus | 166 thousand |
| `sessions_and_tools` | `KVClient`: 2 clients, 2 nodes, at most 4 operations, 2 copies of a request; `Minimizer`: 4 entries of 3 schedules; `Simulator`: 3 messages and faults together | ClientsSeeLinearizability, NoCommittedRequestIsDropped, RecoveryRestoresTheSession; OneMinimal; EventsRunInOrder | 271 thousand |
| `histories_and_apply` | `Linearizability`: histories of 4 operations; `MultiPaxosApply`: 2 nodes, 2 requests, 2 slots; requests, or overlapping recovery episodes | CheckersAreExact; MachinesFollowTheLog, RealTimeOrder, AnswersAreFinal | 529 thousand |

`stale_leader` and `handoff` each check what the documentation says and end with a
counterexample: disagreements 2 and 3 below. Every other run finishes its state
space. Where a run has several instances, each is
a disjunct of `Explored` in its MC module, and TLC explores the states that are
in one of them. Each property of these runs has a mutant of the code it is about under which
TLC finds it violated.

Why the bounds are enough to be interesting. Three nodes are the least with a
majority that is not everyone, so one node can miss everything. Two terms make
a leader meet a successor, and a restarted voter meet a second candidate of a
term. Committing an entry of an old term needs four terms to go wrong (append,
lose, carry to a majority, overwrite), which is the second instance of
`raft_log`; a conflict that is cut in the middle needs logs of two entries (the
first), and a stale request that meets a newer one needs two messages in flight
(the last). In the first, second and fourth of them one node at a time is not a
follower; leaders of two terms at a time are in the third. Two proposals with
two rounds on three acceptors reach the case where a value has a majority that
no one knows of when the second proposal starts. In `leader_service` two terms
and two entries let a write be overtaken by another leader between any two of
its steps; answers from before the current operation are late only where an
instance is about them. `membership` restricts the three-voter growth to one
candidate per term, which is what a handed over leadership looks like; votes of
competing candidates during a change are in the second instance. Three nodes are
too few for a replaced leader that finds a majority of new voters it once
replicated to; `stale_leader` has the fourth. Two slots let one request be
decided twice. Four
operations are the least in which two clients overlap and a third answer can
contradict both; reads are abandoned where one client runs alone, since an
abandoned read constrains no other operation. A crash with its restart, or a
link that is blocked and healed, leaves a message to be sent around it in the
simulator. Four entries in three schedules let an entry become
superfluous because of another schedule. The results of `RaftElection`,
`RaftLog`, `LeaderService`, `Snapshot`, `Paxos`, `PaxosLog`, `MultiPaxos`,
`MultiPaxosApply`, `Minimizer`, `Simulator`, the sessions of `KVClient` and the
fencing of `LeadershipTransfer` are also proved without bounds.
In the election part the bound on messages is a state constraint: states with
more messages are not explored further.

Symmetry: nodes, commands, values, clients and requests are interchangeable
where an MC module says so. Nodes of the Paxos family are not, because their
order breaks ties. Runs with a refinement or an action property permute only
values that occur in them symmetrically; the liveness run uses no symmetry.

Fairness. `FairSpec` of `Paxos` assumes weak fairness of delivery, no crash and
no loss: that is `sim.run()` without a bound on a plan without drops, which
pops the queue until it is empty. A proposer gets no fairness; it proposes or
not. Under it everyone learns as soon as anyone has proposed, although an
overtaken proposer keeps its proposal for ever. With crashes or losses the
code promises nothing (it has no retry of its own), and neither do we. No
fairness is assumed for any safety result.

Deadlock is checked except in `paxos_liveness`, `leader_service`, `snapshot`,
`membership`, `stale_leader`, `handoff` and `sessions_and_tools`. These stop when the bounded terms,
entries, operations or attempts are used up, and a minimizer stops when it has
returned; nothing in the code goes on by itself then. A history is allowed to stop
in `histories_and_apply`.

`TypeOK` of `LeaderService`, `Snapshot`, `Membership`, `MultiPaxos`,
`MultiPaxosApply` and `PaxosLog` is stated there and is no property of a run;
those of `MultiPaxos` and `PaxosLog` are proved, and so is the shape of the state of
`LeaderService` and of `Snapshot`.

## Proofs

All constants are arbitrary: any finite cluster (of two nodes or more for
Paxos), any values, slots, plans and bounds. The assumptions are those named in
the modules (finite server set, `None` is no server or value, bounds are
naturals). Every module of proofs goes the same way: an inductive invariant as
a conjunction of named parts, one lemma per action that says which parts it can
disturb and why they hold, the theorems last.

### RaftLogProofs

`Explanation`, `TypeCorrect`, `LogsMatch`, `MergesNeverConflict`,
`MatchIndexesAreTrue`, `LeadersAreComplete`, `AppliedStays`, `MachinesAreSafe`,
`LeadersOnlyAppend`.

Messages of `RaftLog` are lost and nodes forget their volatile state, so a
state does not contain the evidence the argument needs. The invariant says that
there is a history that explains the state: `IInv` is the type invariant, the
shape of messages, and `\E V, Ld, Lg, K, A : Explains(V, Ld, Lg, K, A)`, with the
votes ever cast, the leader of each term, its log when it last led, the log
with which each candidate ran, and the highest index each node has acknowledged
to the leader of each term.
`Explains` has these parts: nobody votes twice in a term (`VoteInv`); a leader
has a majority of the votes and its log is the one on record (`LeaderInv`);
every entry of any log is in the log on record of the leader of its term, with
everything before it (`LogInv`); a candidate ran with a log of older terms
(`CandidateInv`); requests in flight are pieces of logs on record
(`AppendInv`); acknowledgements, in flight or in a match index, are true of the
acknowledger for as long as it is in that term (`AckInv`). The heart is
`KeepInv`: an entry of its leader's own term that a majority has acknowledged,
or still may (`Choosable`), is kept by everyone who acknowledged it, was in the
log of everyone such a node voted for later, and is in the log of every later
leader. What a commit index covers, or was applied, is part of such an entry's
prefix that a majority has acknowledged (`CommitInv`, `Committed`).
A step extends the history; each action has a
lemma that names the new one.

`LogsMatch` and `MergesNeverConflict` follow from LogInv and AppendInv: a merge
never cuts an entry that the sender's log agrees with. Leader completeness is
KeepInv and CommitInv. `AppliedStays` and `MachinesAreSafe` combine it with the
guard that applies only below the commit index; `LeadersOnlyAppend` is an
action property and follows from one leader per term: a leader never gets a
request of its own term.

### LeaderServiceProofs

`ServiceInvariant`, `AnswersStayCurrent`, `WritesStay`.

The argument about logs is that of `RaftLogProofs`, without votes: an election
is one step here, in which a majority reaches the new term with logs that are
not ahead of the leader's (`LeaderInv`, `KeepInv`, `CommitInv`, with the history
of leaders, their logs and acknowledgements). On it rest five facts
about the operation that runs. What its replicator believes is true: match and
next indexes, the answers heard so far, the cached commit index
(`OperationTrue`). A read that is being confirmed has a committed entry of its
own term, and a CheckQuorum round has a probe for each peer (`StageInv`). When
the operation began a majority had reached the term of the newest leader, and
whatever these voters have answered since they answered for that term or a later
one (`FreshInv`); this is where the ordinal floor and the correlation of answers
are needed, since answers to earlier operations stay in flight. What clients
have been told was applied by a leader of a term up to the newest, and lies in
the prefix of a committed entry (`KnownInv`). And the last answer was current.

The voters that confirm a read, or the round, meet the majority of
`FreshInv`, so no later leader existed when it began. What had to be seen was
then applied by the same leader, or lies below a committed entry of an earlier
term, which the leader's own committed entry has below it and which the leader
has applied before it answers. An acknowledged write lies below a committed
entry, so the newest leader has it; it has it once because a leader looks for
the request in its log before it appends it.

### SnapshotProofs

`MatchIndexesAreTrue`, `DurableStateIsWhole`, `ExecutionIsNeverTakenBack`.

A compacted log stands for a whole one: what the image has executed up to the
base, followed by the retained entries. Compaction leaves the whole log as it
is, and an installed snapshot either leaves it or makes it the snapshot's state.
So the argument of `RaftLogProofs` is made about whole logs (`RaftInv`), with the
history of leaders, their logs and acknowledgements, and elections in one step as
in `LeaderServiceProofs`. `CommitInv` covers the images too: what a node has
executed is a prefix of its whole log and of what is committed. A request to
install carries a committed prefix (`MessageInv`), and so a snapshot that reaches
beyond the image extends it: nothing is rolled back, however late it arrives.

`NodeOK` relates log, applied history, snapshot and image of a node: the boundary
of the log is that of the applied history and lies in the image; the applied
entries are the rest of the image; the snapshot's state is a prefix of it with
the term of its last entry, and covers the base. `NodesOK` and the whole logs
need each other: the term at an index of a compacted log is the term in the whole
log only because the image holds what the base stands for.

`DurableStateIsWhole` assumes that `create` is not called by itself on a
compacted log, which is disagreement 6 below. The other two theorems do not.

### PaxosProofs

`TypeCorrect`, `OneValueIsChosen`, `DecisionsHaveMajorities`,
`PromisesStayKept`, `HandlersNeverRaise`, `PaxosImplementsConsensus`.

`PaxosInv` collects, per acceptor, that its promise bounds what it accepted and
that its current acceptance is the highest of its history; per proposer, that
its counted promises and acceptances are for its own number; that numbers are
never reused (`NumberInv`, from the durable round); that a number has one
value (`RequestInv`); that promises in flight or counted are kept
(`PromiseInv`, `HeldPromiseInv`); that acceptances in flight are in the
histories; and the heart, `SafeInv`: every value for which an accept request
exists is safe at its number, i.e. for every lower number some majority has
either accepted that value there, or will never accept anything there. SafeInv
is established when the accept phase starts: the promises of a majority either
report nothing below the number, or their highest report is itself safe.
Agreement follows from two intersecting majorities.

The refinement maps `chosen` of `Consensus` to the values with a durable
majority, not to the cluster's `_chosen` (which is set later), so the step that
chooses is the acceptance that completes the majority.

### PaxosLogProofs

`TypeCorrect`, `SlotsArePaxos`, `RecordedDecisionsSurvive`, `CheckpointsPass`,
`HandlersNeverRaise`.

The refinement comes first. A slot is seen through its views (`Promised(s)`,
`Number(s)`, `Bodies(s)`, ...), which are the mapping of the INSTANCE of `Paxos`.
A handler changes the views of its slot as the action of the decree does, and
leaves those of the other slots alone (`StepOfEverySlot`). A crash is a crash of
every decree. The round is shared by all slots, so a decree counts as last round
that of the node's last proposal for the slot, which the history `numbers` keeps
(`LastRound`): starting a proposal for one slot is then no step of another, and
the round is above what the decree has used. `NumberingOK` says that what was
allocated is on disk before it is used.

Then the invariant of `PaxosProofs` is shown for each slot (`PaxosInv(s)`), on the
steps of the decree and on `Reconstruct`, which is no step of it: all messages
and proposals disappear, and with them the accept requests that the invariant
rests on. So it speaks of `Said(s)`, the messages of the slot together with a
request for each entry of the durable histories, which a reconstruction keeps
(`ReconstructStep`); what is left of the invariant is about promises and
acceptances on disk. `AnnouncedInv` adds that the cluster records a decision
before anybody can learn it. A reconstruction takes an entry that a majority of
the histories holds; these entries agree, and what was recorded or learned is
one of them, so `RecordedDecisionsSurvive` follows. `CheckpointsPass` is the same
fact as the oracle of the code states it. `HandlersNeverRaise` matters because
the guards of `ReceiveAcceptRequest`, `ReceiveLearn` and `ValuesToPropose` stand
for exceptions: they are never false where the rest of the guard is true. The
proof that a highest report or a last round exists needs the well-ordering of
the naturals.

### MultiPaxosProofs

`TypeCorrect`, `OneValue`, `Durable`, `Implements`.

The argument of Paxos, per slot, with two complications. A leader prepares all
slots at once, so a promise carries a report for every slot and SafeInv speaks
of values that a leader has pending as well as of requests that were sent. And
a leader whose callers choose slots (`Hints`) may ask two values for one slot
under one ballot (see below), so a ballot does not determine a value by the
proposer's own bookkeeping. What remains true is that an acceptor takes one
value per ballot and slot, and that phase 1 goes on only if the reports with
the highest ballot agree. Safety is stated with that: a value is safe at a
ballot if for every lower one some majority accepted nothing else there and
never will. `MultiPaxosInv` has `AcceptorInv`, `LeaderInv` (what a leader has
pending is safe, what it has counted is on disk), `PendingInv` (without hints a
leader asks one value for a slot until it learns the decision), `NumberInv`,
`RequestInv`, `SafeInv`, `PromiseInv`, `AcceptedInv` and `DecidedInv` (learned
and recorded decisions have durable majorities). That a set of reports has a
highest one needs the well-ordering of the naturals.

`OneValue` is agreement, `Durable` says that decisions survive crashes and
reconstruction, `Implements` is the refinement of `Consensus` by each slot.

### LeadershipTransferProofs

`TransferInvariant`, `Fencing`.

A transfer acts while it lasts and never after. The proof takes only two facts
from `Membership`, shown once for every action of it (`ClusterEvolves`): a term
never goes down, and within a term a follower stays one and only a candidate
becomes a leader (`Evolves`). `TransferInv` adds: an attempt is active only
while its transfer waits for it (`ActiveInv`); an election that was triggered
took the transferee beyond the term of its transfer, so that a repeated
TimeoutNow is stale (`TriggeredInv`); the source of a transfer is never a
candidate in the term it led (`CallInv`), and a source that was retired is past
its term or a follower in it (`RetiredInv`).

### LaboratoryProofs

Components that share no state, in one module.

`ElectionTypeCorrect`, `ElectionIsSafe`, `VotesAreFinal`, `GenerationFollowsRole`
and `TimerStaysArmed` are about `RaftElection`.
Election safety is not inductive, since it says nothing of votes. `VoteInv`
adds: every persisted vote is of a term the voter has reached, and its current
vote is the one recorded for its term (`VotesAreDurable`); no node has two
recorded votes in one term (`NoDoubleVote`); every granted response ever sent
is a recorded vote (`GrantsAreVotes`); a candidate's tally consists of recorded
votes for it (`CandidateVotes`); every leader on record has a majority of
recorded votes (`LeadersHaveQuorum`). Two majorities of a finite set intersect
(`MajoritiesMeet`), so two leaders of one term share a voter, who voted once.

Generations need `VoteInv` as well: the handler of RequestVote turns a node
into a follower without retiring its generation when it grants in the current
term. It never does so on a leader, because a leader has voted for itself and
another candidate's request is refused.

`Consistent`, `OrderedEvents` and `Reductions` are about `Simulator` and
`Minimizer`; the theorems on `MultiPaxosApply` and `KVClient` follow below.

`EventsRunInOrder` says that the trace is in the order of the heap and that time
never runs backwards, in both loops. Its invariant: sequence numbers in the
queue are distinct and not above the counter (`NumberInv`), and neither the
clock nor the deadline of a window passes what is still queued (`ClockInv`). The
event that is popped exists because a non-empty set of pairs of naturals has a
least one in the heap's order.

`OneMinimal` holds for any schedules and any failure predicate. A scan has tried
every entry up to its place since its last deletion (`ScanInv`). That the
schedules reduced earlier in a round are still minimal at its end is known only
from the sizes that the code compares, so `CombinedInv` and `JointInv` are
implications: no schedule is larger than when the round began, and if all are as
large, those the round is done with are minimal in what remains.

`MachinesFollow` and `CompletedOperationsAreOrdered` are about
`MultiPaxosApply`. `ApplyInv`: what is learned, applied, or on its way in an
answer is what was chosen (`DecisionsAreChosen`); a loaded machine is the replay of
the applied prefix (`MachinesAreReplays`); an acknowledged request lies in a
prefix in which every slot is decided, and what was acknowledged before a request
was submitted is decided in such a prefix that does not have that request
(`JournalInv`). So the replay of any prefix that has the later request has the
earlier one before it (`ResultIsOrdered`), however often both are decided. The
facts about execution need induction over commands: the least number for which
one fails leads to a contradiction (`UpTo`), which is also how the existence of
the recursive function in `Execute` is shown (`RunExists`).

`CommittedRequestsAreKnown` and `LostSessionsAreRecovered` are about `KVClient`.
A replica drops a request whose id is below its client's latest one, which is
right only if that request took effect before. `RequestInv` says why: an id
belongs to one request, and whenever the log has a request, all earlier ones of
its client come before it, because a session has one write pending
(`SessionInv`): all its other requests are in the log, at its floor or below. So
a replica that has applied `i` entries knows exactly the first `i` requests
(`ReplicaInv`), and what a barrier shows to a recovering session is the floor it
had, or its pending write. The theorems hold for any clients, nodes, keys,
operations and ids, with any number of copies of a request.

### Checked with TLC only

`EveryoneLearns` (liveness under fairness) is out of the prover's reach, and so
is what depends on the RECURSIVE `Search` of `Linearizability`: `CheckersAreExact`
and `ClientsSeeLinearizability`. The invariants of `Membership` are not proved.
`CommittedEntriesAgree` and `CommittedMembershipIsNoObstacle` of `Membership` are
false (next section). Its `ElectionSafety` is false for some numbers of nodes:
messages of elections stay in flight for ever in the model, and with five
nodes a vote of a node that is removed may outlive both steps of the change.
`replicate` drains the simulator before it commits, so no vote is in flight
across a commit in the program. With the three voters of the run, no vote of a
removed node can complete a quorum of the new configuration.
`MembershipIsRecovered` rests on both: a pending command is one that can be
replayed only if the leader that holds it has all that was committed. It says
that disks suffice to find the live configuration and that a new leader gets a
transition controller, not that this leader can go on with the change: that is
`CommittedMembershipIsNoObstacle`.

`AnswersAreFinal` of `MultiPaxosApply` has no proof yet. It would need that two
replays of prefixes of one decided log put a request at the same place.

## Disagreements found

What the code does otherwise than its documentation or its assertions say, met
while modelling. Runs `stale_leader` and `handoff` find items 2 and 3. The passing
runs use instances, or are stated, so that the others do not occur; each item says
how to reproduce it.

1. `src/distlab/kv.py:223`. A committed request whose id is below the client's
   latest one is skipped, and `LeaderKVService.write` accepts any id. After
   request 1 of a client its request 0 is committed and dropped, while the
   service asserts "committed client request was not applied on the leader"
   (`leader_service.py:279`): that call and every retry end in an
   AssertionError, and the operation stays pending. Only `KVClientSession`
   orders the ids. `NoCommittedRequestIsDropped` holds for sessions; it fails
   when `KVClient` submits ids of the caller's choice.
2. `src/distlab/membership_replication.py:32`. `advance_commit_index` counts
   match indexes that a leader collected under an earlier configuration, also
   when a later leader installed the live one. A leader of term 1 with one entry
   on a learner is replaced by one that overwrites the learner and makes it a
   voter ({a,b,c} to {a,c,d}); the old one then has a majority {c,d} of the new
   voters and commits its entry where another one is committed.
   `docs/membership.md:25`: "A stale or replaced leader cannot apply a pending
   command". Run `stale_leader` finds `CommittedEntriesAgree` violated with these
   configurations, in sixteen states.
3. `src/distlab/membership_replication.py:68`. Every membership command after
   the replicator's own volatile commit index counts as uncommitted. A leader
   that was elected after a joint entry had committed, and was not told so,
   refuses to commit anything: "cannot commit a second joint configuration".
   `docs/membership.md:33`: "Objectively committed membership is not dependent
   on controller handoff". Run `handoff` finds `CommittedMembershipIsNoObstacle`
   violated.
4. `src/distlab/multipaxos.py:452`. `propose` refuses only a slot that is still
   pending. A later `propose` with `slot=` for a decided slot under the same
   ballot asks for a second value; the leader's own acceptor raises
   `PaxosSafetyViolation`, and the value stays pending.
   `multipaxos_client.py:117`: "Completion always identifies the actual request,
   independently of this placement hint." Nodes in `Hints` do this; the
   theorems show that no safety is lost.
5. `src/distlab/workload_minimizer.py:60`. Candidates are replayed without
   catching the ValueError of the scenario runner (`scenario_runner.py:97`), so a
   failing scenario with a fault at its last boundary cannot be reduced. The
   link fault minimizer treats the same error as a candidate that passes
   (`link_fault_schedule_minimizer.py:65`). This is action `Raise` of `Minimizer`.
6. `src/distlab/snapshot.py:122`. `create` without `compact` on a compacted node
   puts the snapshot ahead of the applied boundary; the constructors of the
   stores raise on that state (`kv.py:161`, `snapshot.py:347`). Set
   `CreateAfterCompact` to see `DurableStateReconstructs` violated.
7. `src/distlab/snapshot.py:197`. `install` refuses a snapshot when the
   follower's log reaches beyond its boundary and conflicts there, so such a
   follower refuses the leader's snapshot for ever, and `recover_peer` does not
   return. `replication.py:225` says it will "Drive a restarted or stale follower
   to the leader's current durable prefix." `SnapshotsAreInstallable` of
   `Snapshot` is violated.
8. `src/distlab/leader_service.py:357`. An old `leader_commit` raises the commit
   index of a restarted node to a value below its compacted base. When it leads,
   `term_at(commit_index)` raises IndexError (`log_index.py:60`), although
   `docs/leader-service.md:43` promises a recovery barrier there.
   `CommitIndexHasTerm` of `Snapshot` is violated.

## Plan

Done: all modules of the table, with their runs. Proved: `RaftElection`,
`RaftLog`, `LeaderService`, `Snapshot`, `LeadershipTransfer`, `Paxos`, `PaxosLog`,
`MultiPaxos`, `MultiPaxosApply`, `KVClient`, `Simulator`, `Minimizer`.

Open: for which cluster sizes and configurations the invariants of `Membership`
hold, and a proof for them.

## Not modelled

Campaigns, schedules, artifacts, codecs and demonstrations generate inputs or
format results. The invariant harness (`raft_invariants.py`) consists of
oracles that state what the properties here state. Trace records are left out
except where code reads them back. Envelope checks on source and destination
identity are reflected in the guards: no node of the model forges a sender.

Logical time is in `Simulator` only: elsewhere a timer that is armed may expire
at any moment. The pacing of heartbeats (`heartbeat.py`), the JSON form of the
client journal, recovery of a session from a replica without a barrier, and the
liveness of elections, sessions and catch-up are left out; the last three
depend on timeouts and budgets that the code leaves to its callers.
`PROJECT.json` has each component with its status and the reason.
