----------------------------- MODULE MultiPaxos -----------------------------
(***************************************************************************)
(* Stable-leader Multi-Paxos: MultiPaxosCluster and MultiPaxosNode of      *)
(* multipaxos.py with learn_decisions.  One promise per ballot covers      *)
(* every slot; a leader then proposes slot by slot.  Bounded recovery of   *)
(* decisions, application and the client are in module MultiPaxosApply.    *)
(*                                                                         *)
(* A node is its place in the order of the node ids.  msgs holds every     *)
(* message ever sent: a message may be delivered any number of times, at   *)
(* any time, or never.  A node that is down takes no step, so a crash and  *)
(* the restart after it are one action that forgets what is volatile.      *)
(*                                                                         *)
(* Where a handler raises PaxosSafetyViolation the model keeps what the    *)
(* handler has written before and does nothing else.                       *)
(***************************************************************************)
EXTENDS Naturals, FiniteSets

CONSTANTS
    Server,      \* node_ids, each one its place in their order
    Slot,        \* slots of the log
    Value,       \* requests of clients
    NoOp,        \* the value that fills a hole (Python's None as a command)
    None,        \* no record
    Hints,       \* nodes whose callers place requests in slots of their choice
    Candidate,   \* bound: the nodes on which prepare_leadership is called
    MaxRound,    \* bound: no ballot has a higher round
    MaxBallots   \* bound: how many ballots are started

ASSUME ServerAssumption ==
    Server \subseteq Nat /\ IsFiniteSet(Server) /\ Cardinality(Server) > 1
ASSUME SlotAssumption == Slot \subseteq Nat \ {0} /\ IsFiniteSet(Slot)
ASSUME ValueAssumption == NoOp \notin Value /\ None \notin Value \cup {NoOp}
ASSUME BoundAssumption ==
    Hints \subseteq Server /\ Candidate \subseteq Server /\ MaxRound \in Nat /\ MaxBallots \in Nat

VARIABLES
    \* persistent_state
    promised, accepted, acceptHistory, lastRound, learned,
    \* _leader_ballot, _promises, _pending and _accepted_by
    leaderBallot, promises, pending, acceptedBy,
    \* _chosen of the cluster
    chosen,
    msgs

acceptor == <<promised, accepted, acceptHistory>>
leader == <<leaderBallot, promises, pending, acceptedBy>>
vars == <<acceptor, lastRound, learned, leader, chosen, msgs>>

-----------------------------------------------------------------------------
(* Ballots and records *)

Command == Value \cup {NoOp}

Ballot == [round : Nat \ {0}, proposer : Server]
NoBallot == [round |-> 0, proposer |-> 0]

Less(b, c) == \/ b.round < c.round
              \/ b.round = c.round /\ b.proposer < c.proposer

\* An accepted or a learned value of a slot, and its absence.
Record == [ballot : Ballot, value : Command]
Nothing == [ballot |-> NoBallot, value |-> None]
Records == [Slot -> Record \cup {Nothing}]

Messages ==
         [type : {"Prepare"}, ballot : Ballot]
    \cup [type : {"Promise"}, ballot : Ballot, acceptor : Server, accepted : Records]
    \cup [type : {"Accept"}, slot : Slot, ballot : Ballot, value : Command]
    \cup [type : {"Accepted"}, slot : Slot, ballot : Ballot, acceptor : Server, value : Command]
    \cup [type : {"Decision"}, slot : Slot, ballot : Ballot, value : Command]

IsQuorum(nodes) == Cardinality(nodes) >= Cardinality(Server) \div 2 + 1

-----------------------------------------------------------------------------
(* Phase 1 *)

Promisers(S) == {p.acceptor : p \in S}

\* has_leader_authority
HasLeaderAuthority(n) == leaderBallot[n] # NoBallot /\ IsQuorum(Promisers(promises[n]))

\* prepare_leadership with a round above the last one of this node.  Its own promise is
\* counted unless it has promised a higher ballot.
PrepareLeadership(n, round) ==
    LET ballot == [round |-> round, proposer |-> n]
        own == {[acceptor |-> n, accepted |-> accepted[n]]}
    IN  /\ round > lastRound[n]
        /\ lastRound' = [lastRound EXCEPT ![n] = round]
        /\ leaderBallot' = [leaderBallot EXCEPT ![n] = ballot]
        /\ pending' = [pending EXCEPT ![n] = [s \in Slot |-> None]]
        /\ acceptedBy' = [acceptedBy EXCEPT ![n] = [s \in Slot |-> {}]]
        /\ IF Less(ballot, promised[n])
             THEN promises' = [promises EXCEPT ![n] = {}] /\ UNCHANGED promised
             ELSE /\ promises' = [promises EXCEPT ![n] = own]
                  /\ promised' = [promised EXCEPT ![n] = ballot]
        /\ msgs' = msgs \cup {[type |-> "Prepare", ballot |-> ballot]}
        /\ UNCHANGED <<accepted, acceptHistory, learned, chosen>>

ReceivePrepare(n, m) ==
    /\ m.type = "Prepare"
    /\ m.ballot.proposer # n
    /\ ~Less(m.ballot, promised[n])
    /\ promised' = [promised EXCEPT ![n] = m.ballot]
    /\ msgs' = msgs \cup {[type |-> "Promise", ballot |-> m.ballot, acceptor |-> n,
                           accepted |-> accepted[n]]}
    /\ UNCHANGED <<accepted, acceptHistory, lastRound, learned, leader, chosen>>

\* The first promise of each acceptor counts, also one that comes after the quorum.
ReceivePromise(n, m) ==
    /\ m.type = "Promise"
    /\ m.ballot = leaderBallot[n]
    /\ m.acceptor \notin Promisers(promises[n])
    /\ \A s \in Slot : ~Less(m.ballot, m.accepted[s].ballot)
    /\ promises' = [promises EXCEPT ![n] = @ \cup {[acceptor |-> m.acceptor, accepted |-> m.accepted]}]
    /\ UNCHANGED <<acceptor, lastRound, learned, leaderBallot, pending, acceptedBy, chosen, msgs>>

-----------------------------------------------------------------------------
(* Phase 2 *)

\* _adopted_value: the records of the highest ballot that the promises report for a slot
Adopted(n, slot) ==
    LET reported == {p.accepted[slot] : p \in promises[n]} \ {Nothing}
    IN  {r \in reported : \A q \in reported : ~Less(r.ballot, q.ballot)}

\* The value of a proposal.  Adopted values that differ raise: there is none then.
ValuesToPropose(n, slot, v) ==
    LET values == {r.value : r \in Adopted(n, slot)}
    IN  IF values = {} THEN {v} ELSE {w \in values : values = {w}}

\* _receive_accept, at the node itself or after a message: is the request refused, does it
\* contradict what this ballot has got accepted here, or is it accepted?
Refuses(n, ballot) == Less(ballot, promised[n])

Contradicts(n, slot, ballot, v) ==
    accepted[n][slot].ballot = ballot /\ accepted[n][slot].value # v

Accept(n, slot, ballot, v) ==
    LET record == [ballot |-> ballot, value |-> v]
    IN  /\ accepted' = [accepted EXCEPT ![n][slot] = record]
        /\ acceptHistory' = [acceptHistory EXCEPT ![n] = @ \cup {<<slot, record>>}]
        /\ promised' = [promised EXCEPT ![n] = ballot]

AcceptRequest(slot, ballot, v) == [type |-> "Accept", slot |-> slot, ballot |-> ballot, value |-> v]

SlotIsFreeAlways(n, slot) == TRUE    \* faulty: an active proposal does not block another

SlotIsFree(n, slot) == pending[n][slot] = None

\* propose.  A leader that has itself promised another ballot still proposes to the others.
Propose(n, slot, v) ==
    LET ballot == leaderBallot[n]
    IN  /\ HasLeaderAuthority(n)
        /\ SlotIsFree(n, slot)
        /\ \E w \in ValuesToPropose(n, slot, v) :
            /\ pending' = [pending EXCEPT ![n][slot] = w]
            /\ \/ /\ Refuses(n, ballot)
                  /\ acceptedBy' = [acceptedBy EXCEPT ![n][slot] = {}]
                  /\ msgs' = msgs \cup {AcceptRequest(slot, ballot, w)}
                  /\ UNCHANGED acceptor
               \/ /\ ~Refuses(n, ballot)
                  /\ Contradicts(n, slot, ballot, w)
                  /\ acceptedBy' = [acceptedBy EXCEPT ![n][slot] = {}]
                  /\ UNCHANGED <<acceptor, msgs>>
               \/ /\ ~Refuses(n, ballot)
                  /\ ~Contradicts(n, slot, ballot, w)
                  /\ Accept(n, slot, ballot, w)
                  /\ acceptedBy' = [acceptedBy EXCEPT ![n][slot] = {n}]
                  /\ msgs' = msgs \cup {AcceptRequest(slot, ballot, w)}
        /\ UNCHANGED <<lastRound, learned, leaderBallot, promises, chosen>>

\* retry_proposal: the proposal is sent again, unchanged.
RetryProposal(n, slot) ==
    /\ HasLeaderAuthority(n)
    /\ leaderBallot[n] = promised[n]
    /\ pending[n][slot] # None
    /\ ~Contradicts(n, slot, leaderBallot[n], pending[n][slot])
    /\ msgs' = msgs \cup {AcceptRequest(slot, leaderBallot[n], pending[n][slot])}
    /\ UNCHANGED <<acceptor, lastRound, learned, leader, chosen>>

ReceiveAccept(n, m) ==
    /\ m.type = "Accept"
    /\ m.ballot.proposer # n
    /\ ~Refuses(n, m.ballot)
    /\ \/ /\ Contradicts(n, m.slot, m.ballot, m.value)
          /\ promised' = [promised EXCEPT ![n] = m.ballot]
          /\ UNCHANGED <<accepted, acceptHistory, msgs>>
       \/ /\ ~Contradicts(n, m.slot, m.ballot, m.value)
          /\ Accept(n, m.slot, m.ballot, m.value)
          /\ msgs' = msgs \cup {[type |-> "Accepted", slot |-> m.slot, ballot |-> m.ballot,
                                 acceptor |-> n, value |-> m.value]}
    /\ UNCHANGED <<lastRound, learned, leader, chosen>>

-----------------------------------------------------------------------------
(* Decisions *)

Acceptors(slot, record) == {n \in Server : <<slot, record>> \in acceptHistory[n]}

\* _require_decision_evidence
HasEvidence(slot, record) == IsQuorum(Acceptors(slot, record))

\* _record_chosen
RecordChosen(slot, record) ==
    chosen' = [chosen EXCEPT ![slot] = IF @ = Nothing THEN record ELSE @]

\* _receive_decision: the first decision of a slot stays.
LearnDecision(n, slot, record) ==
    learned' = [learned EXCEPT ![n][slot] = IF @ = Nothing THEN record ELSE @]

\* _receive_accepted: the acceptance that completes a majority decides the slot.
ReceiveAccepted(n, m) ==
    LET by == acceptedBy[n][m.slot] \cup {m.acceptor}
        record == [ballot |-> m.ballot, value |-> m.value]
    IN  /\ m.type = "Accepted"
        /\ m.ballot = leaderBallot[n]
        /\ m.value = pending[n][m.slot]
        /\ IF IsQuorum(by)
             THEN /\ RecordChosen(m.slot, record)
                  /\ LearnDecision(n, m.slot, record)
                  /\ pending' = [pending EXCEPT ![n][m.slot] = None]
                  /\ acceptedBy' = [acceptedBy EXCEPT ![n][m.slot] = {}]
                  /\ msgs' = msgs \cup {[type |-> "Decision", slot |-> m.slot, ballot |-> m.ballot,
                                         value |-> m.value]}
             ELSE /\ acceptedBy' = [acceptedBy EXCEPT ![n][m.slot] = by]
                  /\ UNCHANGED <<pending, learned, chosen, msgs>>
        /\ UNCHANGED <<acceptor, lastRound, leaderBallot, promises>>

ReceiveDecision(n, m) ==
    LET record == [ballot |-> m.ballot, value |-> m.value]
    IN  /\ m.type = "Decision"
        /\ m.ballot.proposer # n
        /\ learned[n][m.slot].value \in {None, m.value}
        /\ HasEvidence(m.slot, record)
        /\ LearnDecision(n, m.slot, record)
        /\ UNCHANGED <<acceptor, lastRound, leader, chosen, msgs>>

-----------------------------------------------------------------------------
(* Crash and reconstruction *)

CrashForgetsDecisions(n) ==    \* faulty: what is learned is volatile
    /\ leaderBallot' = [leaderBallot EXCEPT ![n] = NoBallot]
    /\ promises' = [promises EXCEPT ![n] = {}]
    /\ pending' = [pending EXCEPT ![n] = [s \in Slot |-> None]]
    /\ acceptedBy' = [acceptedBy EXCEPT ![n] = [s \in Slot |-> {}]]
    /\ learned' = [learned EXCEPT ![n] = [s \in Slot |-> Nothing]]
    /\ UNCHANGED <<acceptor, lastRound, chosen, msgs>>

\* handle_crash, and handle_restart, which does the same
Crash(n) ==
    /\ leaderBallot' = [leaderBallot EXCEPT ![n] = NoBallot]
    /\ promises' = [promises EXCEPT ![n] = {}]
    /\ pending' = [pending EXCEPT ![n] = [s \in Slot |-> None]]
    /\ acceptedBy' = [acceptedBy EXCEPT ![n] = [s \in Slot |-> {}]]
    /\ UNCHANGED <<acceptor, lastRound, learned, chosen, msgs>>

\* _recover_chosen: the record of the highest ballot that has a majority of durable
\* acceptances
QuorumRecords(slot) ==
    {r \in {e[2] : e \in {x \in UNION {acceptHistory[n] : n \in Server} : x[1] = slot}} :
        HasEvidence(slot, r)}

RecoverChosenByAll(slot) ==    \* faulty: only what everyone has accepted counts
    IF \E r \in QuorumRecords(slot) : Acceptors(slot, r) = Server
      THEN CHOOSE r \in QuorumRecords(slot) : Acceptors(slot, r) = Server
      ELSE Nothing

RecoverChosen(slot) ==
    IF QuorumRecords(slot) = {}
      THEN Nothing
      ELSE CHOOSE r \in QuorumRecords(slot) : \A q \in QuorumRecords(slot) : ~Less(r.ballot, q.ballot)

\* _validate_durable_history
ValidDurableHistory(n) ==
    \A e \in acceptHistory[n] :
        /\ ~Less(promised[n], e[2].ballot)
        /\ \A f \in acceptHistory[n] : e[1] = f[1] /\ e[2].ballot = f[2].ballot => e = f

\* A new MultiPaxosCluster over the durable state of all nodes
Reconstruct ==
    /\ \A n \in Server : ValidDurableHistory(n)
    /\ chosen' = [s \in Slot |-> RecoverChosen(s)]
    /\ leaderBallot' = [n \in Server |-> NoBallot]
    /\ promises' = [n \in Server |-> {}]
    /\ pending' = [n \in Server |-> [s \in Slot |-> None]]
    /\ acceptedBy' = [n \in Server |-> [s \in Slot |-> {}]]
    /\ UNCHANGED <<acceptor, lastRound, learned, msgs>>

-----------------------------------------------------------------------------
Init ==
    /\ promised = [n \in Server |-> NoBallot]
    /\ accepted = [n \in Server |-> [s \in Slot |-> Nothing]]
    /\ acceptHistory = [n \in Server |-> {}]
    /\ lastRound = [n \in Server |-> 0]
    /\ learned = [n \in Server |-> [s \in Slot |-> Nothing]]
    /\ leaderBallot = [n \in Server |-> NoBallot]
    /\ promises = [n \in Server |-> {}]
    /\ pending = [n \in Server |-> [s \in Slot |-> None]]
    /\ acceptedBy = [n \in Server |-> [s \in Slot |-> {}]]
    /\ chosen = [s \in Slot |-> Nothing]
    /\ msgs = {}

\* _authorized of multipaxos_client.py
Authorized(n) == HasLeaderAuthority(n) /\ leaderBallot[n] = promised[n]

\* _high_water: the slots that this node knows to be used
KnownSlots(n) ==
    {s \in Slot : \/ \E e \in acceptHistory[n] : e[1] = s
                  \/ \E p \in promises[n] : p.accepted[s] # Nothing
                  \/ learned[n][s] # Nothing}

\* submit places a request in the slot after the highest one in use, ...
SubmitRequest(n, v) ==
    /\ Authorized(n)
    /\ \A s \in Slot : learned[n][s].value # v /\ pending[n][s] # v
    /\ \E slot \in Slot :
        /\ \A s \in KnownSlots(n) : s < slot
        /\ \A s \in Slot : s < slot => \E t \in KnownSlots(n) : s <= t
        /\ Propose(n, slot, v)

\* ... _repair_prefix fills the holes below it, ...
RepairHole(n) ==
    /\ Authorized(n)
    /\ \E slot \in Slot : /\ \E s \in KnownSlots(n) : slot <= s
                          /\ learned[n][slot] = Nothing
                          /\ Propose(n, slot, NoOp)

\* ... and a caller with a slot of its own (submit with a hint, the campaigns) uses that.
ProposeAtHint(n, v) == n \in Hints /\ \E slot \in Slot : Propose(n, slot, v)

Prepare(n) ==
    /\ n \in Candidate
    /\ Cardinality({m \in msgs : m.type = "Prepare"}) < MaxBallots
    /\ \E round \in 1..MaxRound : PrepareLeadership(n, round)

Deliver(n, m) ==
    \/ ReceivePrepare(n, m)
    \/ ReceivePromise(n, m)
    \/ ReceiveAccept(n, m)
    \/ ReceiveAccepted(n, m)
    \/ ReceiveDecision(n, m)

Next ==
    \/ \E n \in Server :
        \/ Prepare(n)
        \/ \E v \in Value : SubmitRequest(n, v)
        \/ RepairHole(n)
        \/ \E v \in Value : ProposeAtHint(n, v)
        \/ \E slot \in Slot : RetryProposal(n, slot)
        \/ \E m \in msgs : Deliver(n, m)
        \/ Crash(n)
    \/ Reconstruct

Spec == Init /\ [][Next]_vars

-----------------------------------------------------------------------------
(* Properties *)

\* The type invariant: what _validate_durable_history and _validate_durable_learned
\* require of the durable state, and the volatile state of a leader.
TypeOK ==
    /\ promised \in [Server -> Ballot \cup {NoBallot}]
    /\ accepted \in [Server -> Records]
    /\ acceptHistory \in [Server -> SUBSET (Slot \X Record)]
    /\ lastRound \in [Server -> Nat]
    /\ learned \in [Server -> Records]
    /\ leaderBallot \in [Server -> Ballot \cup {NoBallot}]
    /\ promises \in [Server -> SUBSET [acceptor : Server, accepted : Records]]
    /\ pending \in [Server -> [Slot -> Command \cup {None}]]
    /\ acceptedBy \in [Server -> [Slot -> SUBSET Server]]
    /\ chosen \in Records
    /\ msgs \subseteq Messages

\* Under one ballot a slot has one value, everywhere and in every message: neither an
\* acceptor nor a leader that counts acceptances nor a leader that adopts a value ever
\* meets the conflict for which it raises PaxosSafetyViolation.  This is so for the ballots
\* of leaders that place their requests themselves; a slot of the caller's choice may be one
\* that the ballot has decided already.
OneValuePerBallot ==
    /\ \A n \in Server, m \in msgs :
        /\ m.type = "Accept" /\ m.ballot.proposer \notin Hints => ~Contradicts(n, m.slot, m.ballot, m.value)
        /\ m.type = "Accepted" /\ m.ballot = leaderBallot[n] /\ n \notin Hints =>
            pending[n][m.slot] \in {None, m.value}
    /\ \A n \in Server, s \in Slot :
        /\ pending[n][s] # None /\ n \notin Hints => ~Contradicts(n, s, leaderBallot[n], pending[n][s])
        /\ \A q, r \in Adopted(n, s) : q.ballot.proposer \notin Hints => q.value = r.value

\* A decision that some node has learned is never lost to a reconstruction of the
\* cluster from durable state: the rebuilt map has it, with the same value.
DecisionsSurvive ==
    [][Reconstruct => \A s \in Slot :
          /\ \A n \in Server : learned[n][s] # Nothing => chosen'[s].value = learned[n][s].value
          /\ chosen[s] # Nothing => chosen'[s].value = chosen[s].value]_vars

\* Every slot implements the abstract decree: it starts undecided, and each step chooses
\* a value once, learns the chosen one, or does nothing as far as the slot is concerned.
Decree(s) == INSTANCE Consensus
    WITH Value <- Command, chosen <- {r.value : r \in QuorumRecords(s)},
         learned <- [n \in Server |-> learned[n][s].value]
SlotsImplementConsensus ==
    /\ \A s \in Slot : Decree(s)!Init
    /\ [][\A s \in Slot : Decree(s)!Next \/ UNCHANGED Decree(s)!vars]_vars
=============================================================================
