-------------------------------- MODULE Paxos --------------------------------
(***************************************************************************)
(* One decree of Paxos: PaxosCluster and PaxosNode of paxos.py, every node *)
(* proposer, acceptor and learner.  What a node does to itself in a call   *)
(* (its own prepare, promise, accept and learn) is part of the action.     *)
(*                                                                         *)
(* A node is its place in the order of the node ids, so that proposal      *)
(* numbers compare as the code's pairs (round, proposer_id) do.            *)
(*                                                                         *)
(* Network.  msgs holds every message ever sent.  A message may be         *)
(* delivered any number of times, at any time, or never, and a node that   *)
(* is down takes no step: crash and restart are one action, which forgets  *)
(* what is volatile.                                                       *)
(*                                                                         *)
(* Where the code raises PaxosSafetyViolation the model has no branch:     *)
(* NoSafetyViolation says that no message ever leads there.                *)
(***************************************************************************)
EXTENDS Naturals, FiniteSets

CONSTANTS
    Server,         \* node_ids, each one its place in their order
    Value,          \* values that are proposed
    None,           \* Python's None
    MaxRound,       \* bound: no proposal has a higher round
    MaxProposals    \* bound: how many proposals are started

ASSUME ServerAssumption ==
    Server \subseteq Nat /\ IsFiniteSet(Server) /\ Cardinality(Server) > 1
ASSUME NoneAssumption == None \notin Value
ASSUME BoundAssumption == MaxRound \in Nat /\ MaxProposals \in Nat

VARIABLES
    \* persistent_state: acceptor, learner and proposer
    promised, accepted, acceptHistory, learned, lastRound,
    \* _proposal, the proposal that a node is running (NoProposal: none): its value,
    \* which is the original value until the accept phase starts and the chosen one then,
    \* the promises it has, whether the accept phase has started, and who accepted
    proposal, value, promises, started, acceptedBy,
    \* _chosen of the cluster
    chosen,
    msgs

acceptor == <<promised, accepted, acceptHistory>>
proposer == <<proposal, value, promises, started, acceptedBy>>
vars == <<acceptor, learned, lastRound, proposer, chosen, msgs>>

-----------------------------------------------------------------------------
(* Proposal numbers *)

ProposalNumber == [round : Nat \ {0}, proposer : Server]

\* Stands for a None where the code keeps a number; it is below every number.
NoProposal == [round |-> 0, proposer |-> 0]

Less(p, q) == \/ p.round < q.round
              \/ p.round = q.round /\ p.proposer < q.proposer

AcceptedValue == [proposal : ProposalNumber, value : Value]
Nothing == [proposal |-> NoProposal, value |-> None]
MaybeAccepted == AcceptedValue \cup {Nothing}

PromiseOf == [acceptor : Server, accepted : MaybeAccepted]

Messages ==
         [type : {"Prepare"}, proposal : ProposalNumber]
    \cup [type : {"Promise"}, proposal : ProposalNumber, acceptor : Server, accepted : MaybeAccepted]
    \cup [type : {"AcceptRequest"}, proposal : ProposalNumber, value : Value]
    \cup [type : {"Accepted"}, proposal : ProposalNumber, acceptor : Server, value : Value]
    \cup [type : {"Learn"}, proposal : ProposalNumber, value : Value]

IsQuorum(nodes) == Cardinality(nodes) >= Cardinality(Server) \div 2 + 1

-----------------------------------------------------------------------------
(* Acceptor *)

ReceivePrepare(n, m) ==
    /\ m.type = "Prepare"
    /\ m.proposal.proposer # n
    /\ ~Less(m.proposal, promised[n])
    /\ promised' = [promised EXCEPT ![n] = m.proposal]
    /\ msgs' = msgs \cup {[type |-> "Promise", proposal |-> m.proposal, acceptor |-> n,
                           accepted |-> accepted[n]]}
    /\ UNCHANGED <<accepted, acceptHistory, learned, lastRound, proposer, chosen>>

AcceptWithoutPromise(n, number, v) ==    \* faulty: accepts without promising
    LET entry == [proposal |-> number, value |-> v]
    IN  /\ accepted' = [accepted EXCEPT ![n] = entry]
        /\ acceptHistory' = [acceptHistory EXCEPT ![n] = @ \cup {entry}]
        /\ UNCHANGED promised

\* What an acceptor that does not refuse it does with an accept request.
Accept(n, number, v) ==
    LET entry == [proposal |-> number, value |-> v]
    IN  /\ promised' = [promised EXCEPT ![n] = number]
        /\ accepted' = [accepted EXCEPT ![n] = entry]
        /\ acceptHistory' = [acceptHistory EXCEPT ![n] = @ \cup {entry}]

ReceiveAcceptRequestUnchecked(n, m) ==    \* faulty: the promise is not looked at
    /\ m.type = "AcceptRequest"
    /\ m.proposal.proposer # n
    /\ Accept(n, m.proposal, m.value)
    /\ msgs' = msgs \cup {[type |-> "Accepted", proposal |-> m.proposal, acceptor |-> n,
                           value |-> m.value]}
    /\ UNCHANGED <<learned, lastRound, proposer, chosen>>

ReceiveAcceptRequestStrict(n, m) ==    \* faulty: refuses the number it has promised
    /\ m.type = "AcceptRequest"
    /\ m.proposal.proposer # n
    /\ Less(promised[n], m.proposal)
    /\ Accept(n, m.proposal, m.value)
    /\ msgs' = msgs \cup {[type |-> "Accepted", proposal |-> m.proposal, acceptor |-> n,
                           value |-> m.value]}
    /\ UNCHANGED <<learned, lastRound, proposer, chosen>>

ReceiveAcceptRequest(n, m) ==
    /\ m.type = "AcceptRequest"
    /\ m.proposal.proposer # n
    /\ ~Less(m.proposal, promised[n])
    /\ Accept(n, m.proposal, m.value)
    /\ msgs' = msgs \cup {[type |-> "Accepted", proposal |-> m.proposal, acceptor |-> n,
                           value |-> m.value]}
    /\ UNCHANGED <<learned, lastRound, proposer, chosen>>

-----------------------------------------------------------------------------
(* Proposer *)

\* _proposal = None
ClearProposal(n) ==
    /\ proposal' = [proposal EXCEPT ![n] = NoProposal]
    /\ value' = [value EXCEPT ![n] = None]
    /\ promises' = [promises EXCEPT ![n] = {}]
    /\ started' = [started EXCEPT ![n] = FALSE]
    /\ acceptedBy' = [acceptedBy EXCEPT ![n] = {}]

\* start_proposal: with any round above the last one of this node; the round it takes
\* when none is given is one of them.  The node's own acceptor may refuse the prepare.
StartProposal(n, r, v) ==
    LET number == [round |-> r, proposer |-> n]
    IN  /\ proposal[n] = NoProposal
        /\ r > lastRound[n]
        /\ lastRound' = [lastRound EXCEPT ![n] = r]
        /\ proposal' = [proposal EXCEPT ![n] = number]
        /\ value' = [value EXCEPT ![n] = v]
        /\ IF Less(number, promised[n])
             THEN UNCHANGED <<promised, promises>>
             ELSE /\ promised' = [promised EXCEPT ![n] = number]
                  /\ promises' = [promises EXCEPT ![n] = {[acceptor |-> n, accepted |-> accepted[n]]}]
        /\ msgs' = msgs \cup {[type |-> "Prepare", proposal |-> number]}
        /\ UNCHANGED <<accepted, acceptHistory, learned, started, acceptedBy, chosen>>

Promisers(S) == {p.acceptor : p \in S}

Highest(S) == {p \in S : \A q \in S : ~Less(p.accepted.proposal, q.accepted.proposal)}

ValuesToProposeOriginal(S, original) == {original}    \* faulty: adopts nothing

\* The value of the accept phase: that of the highest proposal that the promises report,
\* or the original value when they report none.
ValuesToPropose(S, original) ==
    IF \A p \in S : p.accepted = Nothing THEN {original} ELSE {p.accepted.value : p \in Highest(S)}

\* The accept phase starts, with a value v, on the proposer's own acceptor first, which
\* refuses if it has promised a higher number.
StartAcceptPhase(n, v) ==
    /\ value' = [value EXCEPT ![n] = v]
    /\ started' = [started EXCEPT ![n] = TRUE]
    /\ IF Less(proposal[n], promised[n])
         THEN UNCHANGED <<acceptor, acceptedBy>>
         ELSE /\ Accept(n, proposal[n], v)
              /\ acceptedBy' = [acceptedBy EXCEPT ![n] = {n}]
    /\ msgs' = msgs \cup {[type |-> "AcceptRequest", proposal |-> proposal[n], value |-> v]}

\* _receive_promise: the promise that completes a majority starts the accept phase.
\* Promises that come after it are kept by the code and never read.
ReceivePromise(n, m) ==
    LET got == promises[n] \cup {[acceptor |-> m.acceptor, accepted |-> m.accepted]}
    IN  /\ m.type = "Promise"
        /\ m.proposal = proposal[n]
        /\ ~started[n]
        /\ m.acceptor \notin Promisers(promises[n])
        /\ promises' = [promises EXCEPT ![n] = got]
        /\ IF IsQuorum(Promisers(got))
             THEN \E v \in ValuesToPropose(got, value[n]) : StartAcceptPhase(n, v)
             ELSE UNCHANGED <<acceptor, value, started, acceptedBy, msgs>>
        /\ UNCHANGED <<learned, lastRound, proposal, chosen>>

\* _record_chosen
RecordChosen(entry) == chosen' = IF chosen = Nothing THEN entry ELSE chosen

LearnDecisionValueOnly(n, entry) ==    \* faulty: the proposal number is not stored
    learned' = [learned EXCEPT ![n] = IF @ = Nothing THEN entry.value ELSE @]

\* _receive_learn, after a Learn message or on the proposer itself
LearnDecision(n, entry) ==
    learned' = [learned EXCEPT ![n] = IF @ = Nothing THEN entry ELSE @]

\* _receive_accepted: the acceptance that completes a majority ends the proposal.
ReceiveAccepted(n, m) ==
    LET by == acceptedBy[n] \cup {m.acceptor}
        entry == [proposal |-> proposal[n], value |-> value[n]]
    IN  /\ m.type = "Accepted"
        /\ m.proposal = proposal[n]
        /\ started[n]
        /\ IF IsQuorum(by)
             THEN /\ RecordChosen(entry)
                  /\ LearnDecision(n, entry)
                  /\ msgs' = msgs \cup {[type |-> "Learn", proposal |-> entry.proposal, value |-> entry.value]}
                  /\ ClearProposal(n)
             ELSE /\ acceptedBy' = [acceptedBy EXCEPT ![n] = by]
                  /\ UNCHANGED <<proposal, value, promises, started, learned, chosen, msgs>>
        /\ UNCHANGED <<acceptor, lastRound>>

-----------------------------------------------------------------------------
(* Learner *)

ReceiveLearn(n, m) ==
    /\ m.type = "Learn"
    /\ m.proposal.proposer # n
    /\ LearnDecision(n, [proposal |-> m.proposal, value |-> m.value])
    /\ UNCHANGED <<acceptor, lastRound, proposer, chosen, msgs>>

-----------------------------------------------------------------------------
CrashForgetsDecision(n) ==    \* faulty: the learned decision is volatile
    /\ ClearProposal(n)
    /\ learned' = [learned EXCEPT ![n] = Nothing]
    /\ UNCHANGED <<acceptor, lastRound, chosen, msgs>>

\* handle_crash, and handle_restart at some time after it
Crash(n) ==
    /\ ClearProposal(n)
    /\ UNCHANGED <<acceptor, learned, lastRound, chosen, msgs>>

Init ==
    /\ promised = [n \in Server |-> NoProposal]
    /\ accepted = [n \in Server |-> Nothing]
    /\ acceptHistory = [n \in Server |-> {}]
    /\ learned = [n \in Server |-> Nothing]
    /\ lastRound = [n \in Server |-> 0]
    /\ proposal = [n \in Server |-> NoProposal]
    /\ value = [n \in Server |-> None]
    /\ promises = [n \in Server |-> {}]
    /\ started = [n \in Server |-> FALSE]
    /\ acceptedBy = [n \in Server |-> {}]
    /\ chosen = Nothing
    /\ msgs = {}

Prepares == {m \in msgs : m.type = "Prepare"}

Propose(n) ==
    /\ Cardinality(Prepares) < MaxProposals
    /\ \E r \in 1..MaxRound, v \in Value : StartProposal(n, r, v)

Deliver(n, m) ==
    \/ ReceivePrepare(n, m)
    \/ ReceivePromise(n, m)
    \/ ReceiveAcceptRequest(n, m)
    \/ ReceiveAccepted(n, m)
    \/ ReceiveLearn(n, m)

Next ==
    \E n \in Server : \/ Propose(n)
                      \/ \E m \in msgs : Deliver(n, m)
                      \/ Crash(n)

Spec == Init /\ [][Next]_vars

-----------------------------------------------------------------------------
(* Properties *)

\* The type invariant, in three parts.
AcceptorOK ==
    /\ promised \in [Server -> ProposalNumber \cup {NoProposal}]
    /\ accepted \in [Server -> MaybeAccepted]
    /\ acceptHistory \in [Server -> SUBSET AcceptedValue]

ProposerOK ==
    /\ proposal \in [Server -> ProposalNumber \cup {NoProposal}]
    /\ value \in [Server -> Value \cup {None}]
    /\ \A n \in Server : proposal[n] # NoProposal => value[n] \in Value
    /\ promises \in [Server -> SUBSET PromiseOf]
    /\ started \in [Server -> BOOLEAN]
    /\ acceptedBy \in [Server -> SUBSET Server]

DecisionOK ==
    /\ learned \in [Server -> MaybeAccepted]
    /\ lastRound \in [Server -> Nat]
    /\ chosen \in MaybeAccepted
    /\ msgs \subseteq Messages

\* The state is of the types that paxos.py asserts when it reads it back, in every state,
\* and a proposal that runs has a value.
TypeOK == AcceptorOK /\ ProposerOK /\ DecisionOK

\* Who has accepted an entry at some time, by the durable histories.
Acceptors(entry) == {n \in Server : entry \in acceptHistory[n]}

ChosenEntries == {entry \in UNION {acceptHistory[n] : n \in Server} : IsQuorum(Acceptors(entry))}

ChosenValues == {entry.value : entry \in ChosenEntries}

\* The durable accept histories never show majorities for two different values: the
\* checkpoint of PaxosSafetyHarness finds no two chosen values.
Agreement == \A e, f \in ChosenEntries : e.value = f.value

\* Whatever a learner or the cluster holds as the decision has a majority of durable
\* acceptances, for that proposal and that value, even after the crashes of everyone.
DecisionsAreChosen ==
    /\ \A n \in Server : learned[n] # Nothing => learned[n] \in ChosenEntries
    /\ chosen # Nothing => chosen \in ChosenEntries

\* An acceptor keeps every promise that is on its way or that a proposer has counted:
\* below the promised number it has accepted nothing higher than what the promise says.
PromiseKept(a, number, acc) ==
    /\ ~Less(promised[a], number)
    /\ \A entry \in acceptHistory[a] :
           Less(entry.proposal, number) => ~Less(acc.proposal, entry.proposal)

PromisesAreKept ==
    /\ \A m \in msgs : m.type = "Promise" => PromiseKept(m.acceptor, m.proposal, m.accepted)
    /\ \A n \in Server : \A p \in promises[n] : PromiseKept(p.acceptor, proposal[n], p.accepted)

\* No message that may still arrive, however late or often, makes a handler raise
\* PaxosSafetyViolation, and no restart finds durable state that
\* _validate_durable_state refuses.
NoSafetyViolation ==
    /\ \A n \in Server, m \in msgs :
        /\ m.type = "AcceptRequest" /\ accepted[n].proposal = m.proposal => accepted[n].value = m.value
        /\ m.type = "Accepted" /\ m.proposal = proposal[n] /\ started[n] => m.value = value[n]
        /\ m.type = "Learn" /\ learned[n] # Nothing => learned[n].value = m.value
        /\ m.type = "Learn" /\ chosen # Nothing => chosen.value = m.value
    /\ \A n \in Server : \A p, q \in Highest(promises[n]) : p.accepted.value = q.accepted.value
    /\ \A n \in Server :
        /\ ~Less(promised[n], accepted[n].proposal)
        /\ accepted[n] # Nothing => accepted[n] \in acceptHistory[n]
        /\ \A e, f \in acceptHistory[n] : e.proposal = f.proposal => e = f

\* Paxos implements the abstract decree: a value is chosen once the durable histories
\* show a majority for it, and learners hold what they have learned.
Decree == INSTANCE Consensus WITH chosen <- ChosenValues, learned <- [n \in Server |-> learned[n].value]
ImplementsConsensus == Decree!Spec

-----------------------------------------------------------------------------
(* Liveness *)

\* sim.run() delivers every message that is queued.  No node crashes, nothing is dropped.
QuietNext == \E n \in Server : Propose(n) \/ \E m \in msgs : Deliver(n, m)
FairSpec == Init /\ [][QuietNext]_vars /\ WF_vars(\E n \in Server : \E m \in msgs : Deliver(n, m))

\* Once anybody has proposed, every node learns a decision, whatever the other proposals
\* do to each other.  (A proposer that was overtaken keeps its proposal for ever.)
EveryoneLearns == msgs # {} ~> \A n \in Server : learned[n] # Nothing
=============================================================================
