---------------------------- MODULE LeaderService ----------------------------
(***************************************************************************)
(* Client operations on a Raft leader: LeaderKVService with its            *)
(* LeaderReplicator, the read barrier of LinearizableKVReader and the      *)
(* CheckQuorum round of LeaderQuorumMonitor.                               *)
(*                                                                         *)
(* One operation runs at a time.  Whenever it sends a probe it gives way   *)
(* to the simulator, where leaders are elected and deposed, nodes crash    *)
(* and messages are late, repeated or lost; it then looks for the answer   *)
(* in the trace of what happened since.  Of the trace the model keeps what *)
(* the replicator looks for: the answers that the leader received and the  *)
(* outcomes at the peer, since the probe was sent.                         *)
(*                                                                         *)
(* Elections are one step here (RaftElection has their messages).  A node  *)
(* leads a term once, so a leader generation is a node and its term.       *)
(* Of the logs, an entry is its term and command; nothing is compacted.    *)
(***************************************************************************)
EXTENDS Naturals, Sequences, FiniteSets, SequencesExt

CONSTANTS
    Server,         \* node_ids
    Request,        \* client writes
    Barrier,        \* CommitRecoveryBarrier
    None,
    Operation,      \* which of "write", "read" and "check" the clients call
    MaxAttempts,    \* max_attempts_per_peer
    MaxTerm, MaxLog \* bounds

ASSUME ConstantAssumption ==
    /\ IsFiniteSet(Server) /\ None \notin Server
    /\ Barrier \notin Request
    /\ Operation \subseteq {"write", "read", "check"}
    /\ MaxAttempts \in Nat \ {0} /\ MaxTerm \in Nat /\ MaxLog \in Nat

VARIABLES
    term, log, applied,     \* persistent_state; applied is the durable applied history
    leads, commit,          \* volatile_state
    msgs,                   \* AppendEntries and their responses in flight
    op,                     \* the operation that is running, or None
    \* histories: completed writes, all writes that clients have been told of, the latest
    \* answer of a read or a CheckQuorum round, and the highest term that had a leader
    acked, known, answer, elected

nodeVars == <<term, log, applied, leads, commit>>
history == <<acked, known, answer, elected>>
vars == <<nodeVars, msgs, op, history>>

-----------------------------------------------------------------------------
IsQuorum(nodes) == Cardinality(nodes) >= Cardinality(Server) \div 2 + 1

TermAt(l, i) == IF i = 0 THEN 0 ELSE l[i].term

Peers(n) == Server \ {n}

\* merge_after: a conflicting suffix is cut; entries that are there already stay.
MergeAfter(l, prev, entries) ==
    LET same == \A i \in 1..Len(entries) : prev + i <= Len(l) /\ l[prev + i] = entries[i]
    IN  IF same THEN l ELSE SubSeq(l, 1, prev) \o entries

\* The client requests that took effect in an applied history
Took(prefix) == {e.command : e \in ToSet(prefix)} \ {Barrier}

\* apply_committed
ApplyCommitted(n, index) == IF index > Len(applied[n]) THEN SubSeq(log[n], 1, index) ELSE applied[n]

\* LeaderGenerationGuard.require, and _require_current_leader of the replicator
Authorized(o) == leads[o.leader] /\ term[o.leader] = o.term

-----------------------------------------------------------------------------
(* Raft nodes *)

UpToDateAlways(n, voter) == TRUE    \* faulty: logs are not compared

UpToDate(n, voter) ==
    \/ TermAt(log[n], Len(log[n])) > TermAt(log[voter], Len(log[voter]))
    \/ /\ TermAt(log[n], Len(log[n])) = TermAt(log[voter], Len(log[voter]))
       /\ Len(log[n]) >= Len(log[voter])

\* n campaigns in its next term and reaches the nodes of S, which have not seen that term.
Campaign(n, S) ==
    LET t == term[n] + 1
        votes == {n} \cup {v \in S : UpToDate(n, v)}
    IN  /\ ~leads[n]
        /\ t <= MaxTerm
        /\ \A v \in S : term[v] < t
        /\ term' = [k \in Server |-> IF k \in S \cup {n} THEN t ELSE term[k]]
        /\ leads' = [k \in Server |-> IF k = n THEN IsQuorum(votes) ELSE k \notin S /\ leads[k]]
        /\ elected' = IF IsQuorum(votes) /\ t > elected THEN t ELSE elected
        /\ UNCHANGED <<log, applied, commit, msgs, op, acked, known, answer>>

\* handle_crash and handle_restart
Crash(n) ==
    /\ leads' = [leads EXCEPT ![n] = FALSE]
    /\ commit' = [commit EXCEPT ![n] = 0]
    /\ UNCHANGED <<term, log, applied, msgs, op, history>>

\* A delivery leaves a duplicate in flight or not.
Taken(m) == {msgs \ {m}, msgs}

\* Is there a probe whose answer the operation will look for on the link from p to n?
Probed(p, n) == op # None /\ op.leader = n /\ p \in DOMAIN op.probes

\* _handle_append_entries.  fresh: the answer is sent after the probe that is waited for, so
\* its ordinal is above the floor.
HandleAppendEntries(n, m) ==
    LET current == m.term >= term[n]
        ok == /\ current
              /\ m.prev <= Len(log[n])
              /\ TermAt(log[n], m.prev) = m.prevTerm
        match == m.prev + Len(m.entries)
        outcome == IF ok THEN "ok" ELSE "no"
        mine == /\ Probed(n, m.src)
                /\ m.term = op.term
                /\ op.probes[n].prev = m.prev /\ op.probes[n].count = Len(m.entries)
        reply == [type |-> "Response", src |-> n, dst |-> m.src, term |-> IF current THEN m.term ELSE term[n],
                   outcome |-> outcome, match |-> IF ok THEN match ELSE 0, fresh |-> Probed(n, m.src)]
    IN  /\ m.type = "AppendEntries" /\ m.dst = n
        /\ term' = IF current THEN [term EXCEPT ![n] = m.term] ELSE term
        /\ leads' = IF current THEN [leads EXCEPT ![n] = FALSE] ELSE leads
        /\ log' = IF ok THEN [log EXCEPT ![n] = MergeAfter(@, m.prev, m.entries)] ELSE log
        /\ commit' = IF ok /\ m.commit > commit[n] /\ match > commit[n]
                       THEN [commit EXCEPT ![n] = IF m.commit < match THEN m.commit ELSE match]
                       ELSE commit
        /\ op' = IF mine THEN [op EXCEPT !.probes[n].handled = @ \cup {outcome}] ELSE op
        /\ \E rest \in Taken(m) : msgs' = rest \cup {reply}
        /\ UNCHANGED <<applied, history>>

Heard(probe, outcome) == [probe EXCEPT !.heard = @ \cup {outcome}, !.latest = outcome]

\* _handle_append_entries_response: a higher term deposes, any other answer is recorded.
HandleResponse(n, m) ==
    LET probe == op.probes[m.src]
        relevant == /\ Probed(m.src, n)
                    /\ m.fresh
                    /\ m.term = op.term
                    /\ m.outcome = "ok" => m.match = probe.prev + probe.count
    IN  /\ m.type = "Response" /\ m.dst = n
        /\ \E rest \in Taken(m) : msgs' = rest
        /\ IF m.term > term[n]
             THEN /\ term' = [term EXCEPT ![n] = m.term]
                  /\ leads' = [leads EXCEPT ![n] = FALSE]
                  /\ UNCHANGED op
             ELSE /\ op' = IF relevant
                             THEN [op EXCEPT !.probes[m.src] = Heard(@, m.outcome)]
                             ELSE op
                  /\ UNCHANGED <<term, leads>>
        /\ UNCHANGED <<log, applied, commit, history>>

Lose(m) == msgs' = msgs \ {m} /\ UNCHANGED <<nodeVars, op, history>>

-----------------------------------------------------------------------------
(* The replicator *)

\* Answers in flight are below the ordinal floor of every later probe.
Stale(S) == {IF m.type = "Response" THEN [m EXCEPT !.fresh = FALSE] ELSE m : m \in S}

EndOperation == op' = None /\ msgs' = Stale(msgs)

AppendEntriesTo(o, peer, prev, entries) ==
    [type |-> "AppendEntries", src |-> o.leader, dst |-> peer, term |-> o.term,
     prev |-> prev, prevTerm |-> TermAt(log[o.leader], prev), entries |-> entries, commit |-> o.commit]

\* A probe, the answers to it that the leader has heard, and what its peer has answered
NewProbe(prev, count) ==
    [prev |-> prev, count |-> count, heard |-> {}, latest |-> None, handled |-> {}]

\* replicate: the first half of an attempt, up to sim.run
Replicate(peer) ==
    LET prev == op.next[peer] - 1
        entries == SubSeq(log[op.leader], prev + 1, Len(log[op.leader]))
    IN  /\ Authorized(op)
        /\ op' = [op EXCEPT !.probes = [p \in {peer} |-> NewProbe(prev, Len(entries))]]
        /\ msgs' = Stale(msgs) \cup {AppendEntriesTo(op, peer, prev, entries)}
        /\ UNCHANGED <<nodeVars, history>>

\* _matching_response: the latest answer that was sent after the probe and whose outcome the
\* peer has had for a request like the probe since.
MatchingResponse(probe) ==
    LET matching == probe.heard \cap probe.handled
    IN  IF matching = {} THEN "none"
        ELSE IF probe.latest \in matching THEN probe.latest ELSE CHOOSE outcome \in matching : TRUE

\* advance_commit_index: the highest entry of the leader's own term, above the replicator's
\* cached commit index, that a majority holds
AdvancedCommit(o, matched) ==
    LET l == log[o.leader]
        held == {i \in o.commit + 1..Len(l) :
                    /\ TermAt(l, i) = o.term
                    /\ IsQuorum({o.leader} \cup {p \in Peers(o.leader) : matched[p] >= i})}
    IN  IF held = {} THEN o.commit ELSE CHOOSE i \in held : \A j \in held : j <= i

Higher(i, j) == IF i > j THEN i ELSE j

\* The operation as it goes on to the next peer
NextPeer(o, peer) == [o EXCEPT !.probes = <<>>, !.todo = @ \ {peer}, !.attempts = MaxAttempts]

-----------------------------------------------------------------------------
(* The client's operations *)

\* A new LeaderReplicator for an operation of the leader n, with the commit index as it is now
NewOperation(n, kind, request) ==
    [kind |-> kind, request |-> request, leader |-> n, term |-> term[n], stage |-> "commit",
     target |-> 0, commit |-> commit[n], attempts |-> MaxAttempts,
     next |-> [p \in Peers(n) |-> Len(log[n]) + 1], match |-> [p \in Peers(n) |-> 0],
     todo |-> Peers(n), acks |-> {n}, probes |-> <<>>,
     must |-> known, begun |-> elected]

Extend(n, command) == Append(log[n], [term |-> term[n], command |-> command])

\* _request_log_index
RequestLogIndex(l, request) == {i \in DOMAIN l : l[i].command = request}

\* The log after _commit_write has seen to an entry of this term at or after the request's.
\* An entry of this term is the last one then, or a later one was there already.
LogForWrite(n, request) ==
    LET found == RequestLogIndex(log[n], request)
        with == IF found = {} THEN Extend(n, request) ELSE log[n]
        recent == {i \in DOMAIN with : with[i].term = term[n] /\ \A j \in found : i >= j}
    IN  IF recent = {} THEN Append(with, [term |-> term[n], command |-> Barrier]) ELSE with

\* The index that must be committed: the request's own entry if it is of this term, and
\* otherwise the last entry of this term.
TargetForWrite(n, l, request) ==
    LET index == CHOOSE i \in DOMAIN l : l[i].command = request /\ \A j \in 1..i - 1 : l[j].command # request
        recent == {i \in DOMAIN l : l[i].term = term[n]}
    IN  IF index \in recent THEN index ELSE CHOOSE i \in recent : \A j \in recent : j <= i

Acknowledge(request) ==
    /\ acked' = acked \cup {request}
    /\ known' = known \cup {request}

\* write and retry_write, up to the first probe
StartWrite(n, request) ==
    LET now == ApplyCommitted(n, commit[n])
        l == LogForWrite(n, request)
    IN  /\ "write" \in Operation /\ op = None
        /\ leads[n]
        /\ request \notin acked
        /\ applied' = [applied EXCEPT ![n] = now]
        /\ \/ /\ request \in Took(now)
              /\ Acknowledge(request)
              /\ UNCHANGED <<log, op>>
           \/ /\ request \notin Took(now)
              /\ Len(l) <= MaxLog
              /\ log' = [log EXCEPT ![n] = l]
              /\ op' = [NewOperation(n, "write", request) EXCEPT !.target = TargetForWrite(n, l, request)]
              /\ UNCHANGED <<acked, known>>
        /\ answer' = None
        /\ msgs' = Stale(msgs)
        /\ UNCHANGED <<term, leads, commit, elected>>

\* linearizable_read: _ensure_current_term_commit, then the barrier
HasCurrentTermCommitAnyTerm(n) == TRUE    \* faulty: a new leader trusts the commit index it has

HasCurrentTermCommit(n) == commit[n] > 0 /\ TermAt(log[n], commit[n]) = term[n]

StartRead(n) ==
    LET o == NewOperation(n, "read", None)
    IN  /\ "read" \in Operation /\ op = None
        /\ leads[n]
        /\ \/ /\ HasCurrentTermCommit(n)
              /\ op' = [o EXCEPT !.stage = "confirm"]
              /\ UNCHANGED log
           \/ /\ ~HasCurrentTermCommit(n)
              /\ Len(log[n]) < MaxLog
              /\ log' = [log EXCEPT ![n] = Extend(n, Barrier)]
              /\ op' = [o EXCEPT !.target = Len(log[n]) + 1]
        /\ answer' = None
        /\ msgs' = Stale(msgs)
        /\ UNCHANGED <<term, applied, leads, commit, acked, known, elected>>

\* The peers in any order; the code takes the order of their names.
Attempt ==
    /\ op # None /\ op.kind # "check" /\ op.probes = <<>>
    /\ Authorized(op)
    /\ op.todo # {}
    /\ \E peer \in op.todo : Replicate(peer)

\* No peer is left, or the authority is gone: the operation raises and stays pending.
Fail ==
    /\ op # None /\ op.kind # "check" /\ op.probes = <<>>
    /\ ~Authorized(op) \/ op.todo = {}
    /\ EndOperation
    /\ UNCHANGED <<nodeVars, history>>

\* ReplicationResponseMissing: on to the next peer
Missing(peer) ==
    /\ MatchingResponse(op.probes[peer]) = "none"
    /\ op' = NextPeer(op, peer)
    /\ msgs' = Stale(msgs)
    /\ UNCHANGED <<nodeVars, history>>

\* A rejection: one index back, and again while attempts are left
Rejected(peer) ==
    LET back == [op EXCEPT !.next[peer] = IF @ > 1 THEN @ - 1 ELSE 1]
    IN  /\ MatchingResponse(op.probes[peer]) = "no"
        /\ op' = IF op.attempts > 1 THEN [back EXCEPT !.probes = <<>>, !.attempts = @ - 1]
                                    ELSE NextPeer(back, peer)
        /\ msgs' = Stale(msgs)
        /\ UNCHANGED <<nodeVars, history>>

\* The answer of a read: what the leader has applied
CompleteRead(o, prefix) ==
    /\ answer' = [term |-> o.term, begun |-> o.begun, saw |-> Took(prefix), must |-> o.must]
    /\ known' = known \cup Took(prefix)
    /\ EndOperation

\* A success: the peer's progress, the commit index, and what follows without giving way.
Accepted(peer) ==
    LET n == op.leader
        probe == op.probes[peer]
        matched == [op.match EXCEPT ![peer] = Higher(@, probe.prev + probe.count)]
        index == Higher(commit[n], AdvancedCommit(op, matched))
        o == [NextPeer(op, peer) EXCEPT !.match = matched, !.next[peer] = matched[peer] + 1,
                                        !.commit = AdvancedCommit(op, matched)]
        now == ApplyCommitted(n, index)
    IN  /\ MatchingResponse(probe) = "ok"
        /\ Authorized(op)
        /\ commit' = [commit EXCEPT ![n] = index]
        /\ \/ /\ op.stage = "commit" /\ index < op.target
              /\ op' = o /\ msgs' = Stale(msgs)
              /\ UNCHANGED <<applied, acked, known, answer>>
           \/ /\ op.stage = "commit" /\ index >= op.target /\ op.kind = "write"
              /\ applied' = [applied EXCEPT ![n] = now]
              /\ op.request \in Took(now)
              /\ Acknowledge(op.request)
              /\ EndOperation
              /\ UNCHANGED answer
           \/ /\ op.stage = "commit" /\ index >= op.target /\ op.kind = "read"
              /\ applied' = [applied EXCEPT ![n] = now]
              /\ op' = [o EXCEPT !.stage = "confirm", !.todo = Peers(n)] /\ msgs' = Stale(msgs)
              /\ UNCHANGED <<acked, known, answer>>
           \/ /\ op.stage = "confirm" /\ ~IsQuorum(op.acks \cup {peer})
              /\ op' = [o EXCEPT !.acks = @ \cup {peer}] /\ msgs' = Stale(msgs)
              /\ UNCHANGED <<applied, acked, known, answer>>
           \/ /\ op.stage = "confirm" /\ IsQuorum(op.acks \cup {peer})
              /\ applied' = [applied EXCEPT ![n] = now]
              /\ CompleteRead(op, now)
              /\ UNCHANGED acked
        /\ UNCHANGED <<term, log, leads, elected>>

\* A success that reaches a node which no longer leads: advance_commit_index raises.
AcceptedTooLate(peer) ==
    /\ MatchingResponse(op.probes[peer]) = "ok"
    /\ ~Authorized(op)
    /\ EndOperation
    /\ UNCHANGED <<nodeVars, history>>

\* replicate, the second half of an attempt: at any time, though sim.run returns only when
\* nothing is left to deliver.
FinishAttempt ==
    /\ op # None /\ op.kind # "check"
    /\ \E peer \in DOMAIN op.probes : Missing(peer) \/ Rejected(peer) \/ Accepted(peer) \/ AcceptedTooLate(peer)

-----------------------------------------------------------------------------
(* CheckQuorum *)

\* check_window, up to run_until_time: a heartbeat for every voter.  The replicator of a
\* leader's runtime is as old as its leadership, and so is the commit index it sends.
StartCheck(n) ==
    LET last == Len(log[n])
        o == [NewOperation(n, "check", None) EXCEPT
                 !.probes = [p \in Peers(n) |-> NewProbe(last, 0)], !.commit = 0]
    IN  /\ "check" \in Operation /\ op = None
        /\ leads[n]
        /\ op' = o
        /\ msgs' = Stale(msgs) \cup {AppendEntriesTo(o, p, last, <<>>) : p \in Peers(n)}
        /\ answer' = None
        /\ UNCHANGED <<nodeVars, acked, known, elected>>

\* The rest of check_window: rejections in the term count as activity; without a quorum the
\* leader steps down.
FinishCheck ==
    LET n == op.leader
        active == {n} \cup {p \in Peers(n) : MatchingResponse(op.probes[p]) # "none"}
    IN  /\ op # None /\ op.kind = "check"
        /\ \/ ~Authorized(op) /\ UNCHANGED <<leads, answer>>
           \/ /\ Authorized(op) /\ IsQuorum(active)
              /\ answer' = [term |-> op.term, begun |-> op.begun, saw |-> {}, must |-> {}]
              /\ UNCHANGED leads
           \/ /\ Authorized(op) /\ ~IsQuorum(active)
              /\ leads' = [leads EXCEPT ![n] = FALSE]
              /\ UNCHANGED answer
        /\ EndOperation
        /\ UNCHANGED <<term, log, applied, commit, acked, known, elected>>

-----------------------------------------------------------------------------
Init ==
    /\ term = [n \in Server |-> 0]
    /\ log = [n \in Server |-> <<>>]
    /\ applied = [n \in Server |-> <<>>]
    /\ leads = [n \in Server |-> FALSE]
    /\ commit = [n \in Server |-> 0]
    /\ msgs = {}
    /\ op = None
    /\ acked = {}
    /\ known = {}
    /\ answer = None
    /\ elected = 0

Next ==
    \/ \E n \in Server :
        \/ \E S \in SUBSET Peers(n) : Campaign(n, S)
        \/ Crash(n)
        \/ \E m \in msgs : HandleAppendEntries(n, m)
        \/ \E m \in msgs : HandleResponse(n, m)
        \/ \E request \in Request : StartWrite(n, request)
        \/ StartRead(n)
        \/ StartCheck(n)
    \/ \E m \in msgs : Lose(m)
    \/ Attempt
    \/ FinishAttempt
    \/ Fail
    \/ FinishCheck

Spec == Init /\ [][Next]_vars

-----------------------------------------------------------------------------
(* Properties *)

Entry == [term : 1..MaxTerm, command : Request \cup {Barrier}]

\* The type invariant.
TypeOK ==
    /\ term \in [Server -> 0..MaxTerm]
    /\ leads \in [Server -> BOOLEAN]
    /\ \A n \in Server :
        /\ log[n] \in Seq(Entry) /\ Len(log[n]) <= MaxLog
        /\ applied[n] \in Seq(Entry)
        /\ commit[n] \in 0..Len(log[n])
    /\ op # None =>
        /\ op.leader \in Server /\ op.term \in 1..MaxTerm
        /\ op.target \in 0..MaxLog /\ op.commit \in 0..MaxLog
        /\ \A p \in Peers(op.leader) : op.next[p] \in 1..MaxLog + 1 /\ op.match[p] \in 0..MaxLog
        /\ DOMAIN op.probes \subseteq Server
    /\ acked \subseteq known /\ known \subseteq Request

\* A read sees every write that was acknowledged, and everything that an earlier read has
\* returned, before it was called: reads of a deposed leader do not go back in time.  And when
\* a read or a CheckQuorum round succeeds, nobody had been elected in a later term when it was
\* called, however late or repeated the answers were that it counted.
AnswersAreCurrent == answer # None => answer.must \subseteq answer.saw /\ answer.begun <= answer.term

\* An acknowledged write is in the log of every later leader, never undone and there once only,
\* though it may have been tried on several leaders before.
AcknowledgedWritesStay ==
    \A request \in acked, n \in Server :
        leads[n] /\ term[n] = elected => Cardinality({i \in DOMAIN log[n] : log[n][i].command = request}) = 1
=============================================================================
