------------------------------ MODULE PaxosLog ------------------------------
(***************************************************************************)
(* The slot-indexed Paxos log: PaxosLogCluster and PaxosLogNode of         *)
(* paxos_log.py, and the reconstruction of paxos_log_recovery.py.  Every   *)
(* slot is a decree of its own; the nodes' crashes and their durable       *)
(* proposal round are common to all slots.                                 *)
(*                                                                         *)
(* Nodes, proposal numbers and the network are those of module Paxos: a    *)
(* message that was sent may arrive at any time, again, or never.  A       *)
(* message is its slot and the body that the single decree would send.     *)
(***************************************************************************)
EXTENDS Naturals, Sequences, FiniteSets, SequencesExt

CONSTANTS
    Server,         \* node_ids, each one its place in their order
    Slot,           \* slots that are proposed for
    Value,
    None,           \* Python's None
    Proposer,       \* the nodes that are asked to propose
    Recovering,     \* is the cluster a RecoveringPaxosLogCluster?
    MaxRound,       \* bound: no proposal has a higher round
    MaxProposals    \* bound: how many proposals are started, over all slots

ASSUME ConstantAssumption ==
    /\ Server \subseteq Nat /\ IsFiniteSet(Server) /\ Cardinality(Server) > 1
    /\ Slot \subseteq Nat \ {0} /\ IsFiniteSet(Slot)
    /\ Proposer \subseteq Server /\ None \notin Value /\ Recovering \in BOOLEAN
    /\ MaxRound \in Nat /\ MaxProposals \in Nat

VARIABLES
    promised, accepted, learned,    \* persistent_state, by node and slot
    acceptHistory, lastRound,       \* persistent_state, by node
    proposals,                      \* _proposals, by node and slot
    chosen,                         \* _chosen of the cluster, by slot
    msgs,
    numbers                         \* history: the slot and number of every proposal started

acceptor == <<promised, accepted, acceptHistory>>
vars == <<acceptor, learned, lastRound, proposals, chosen, msgs, numbers>>

-----------------------------------------------------------------------------
ProposalNumber == [round : Nat \ {0}, proposer : Server]
NoProposal == [round |-> 0, proposer |-> 0]

Less(p, q) == \/ p.round < q.round
              \/ p.round = q.round /\ p.proposer < q.proposer

AcceptedValue == [proposal : ProposalNumber, value : Value]
Nothing == [proposal |-> NoProposal, value |-> None]

\* No _SlotProposalState.  As in Paxos, value is the original one until the accept phase.
Idle == [number |-> NoProposal, value |-> None, promises |-> {}, started |-> FALSE, acceptedBy |-> {}]

IsQuorum(nodes) == Cardinality(nodes) >= Cardinality(Server) \div 2 + 1

Post(s, body) == msgs' = msgs \cup {[slot |-> s, body |-> body]}

Set(f, n, s, x) == [f EXCEPT ![n][s] = x]

-----------------------------------------------------------------------------
(* Acceptor *)

ReceivePrepare(n, s, m) ==
    /\ m.type = "Prepare"
    /\ m.proposal.proposer # n
    /\ ~Less(m.proposal, promised[n][s])
    /\ promised' = Set(promised, n, s, m.proposal)
    /\ Post(s, [type |-> "Promise", proposal |-> m.proposal, acceptor |-> n, accepted |-> accepted[n][s]])
    /\ UNCHANGED <<accepted, acceptHistory, learned, lastRound, proposals, chosen, numbers>>

AcceptCurrentOnly(n, s, number, v) ==    \* faulty: a repeated slot is not added to the history
    LET entry == [proposal |-> number, value |-> v]
    IN  /\ promised' = Set(promised, n, s, number)
        /\ accepted' = Set(accepted, n, s, entry)
        /\ acceptHistory' = [acceptHistory EXCEPT ![n] =
                                IF \E h \in @ : h.slot = s THEN @ ELSE @ \cup {[slot |-> s, entry |-> entry]}]

Accept(n, s, number, v) ==
    LET entry == [proposal |-> number, value |-> v]
    IN  /\ promised' = Set(promised, n, s, number)
        /\ accepted' = Set(accepted, n, s, entry)
        /\ acceptHistory' = [acceptHistory EXCEPT ![n] = @ \cup {[slot |-> s, entry |-> entry]}]

\* A request that contradicts what its number has got accepted here raises.
ReceiveAcceptRequest(n, s, m) ==
    /\ m.type = "AcceptRequest"
    /\ m.proposal.proposer # n
    /\ ~Less(m.proposal, promised[n][s])
    /\ accepted[n][s].proposal = m.proposal => accepted[n][s].value = m.value
    /\ Accept(n, s, m.proposal, m.value)
    /\ Post(s, [type |-> "Accepted", proposal |-> m.proposal, acceptor |-> n, value |-> m.value])
    /\ UNCHANGED <<learned, lastRound, proposals, chosen, numbers>>

-----------------------------------------------------------------------------
(* Proposer *)

\* start_proposal, with a round above every round that this node has used for any slot
StartProposal(n, s, r, v) ==
    LET number == [round |-> r, proposer |-> n]
        refused == Less(number, promised[n][s])
        own == IF refused THEN {} ELSE {[acceptor |-> n, accepted |-> accepted[n][s]]}
    IN  /\ proposals[n][s] = Idle
        /\ r > lastRound[n]
        /\ lastRound' = [lastRound EXCEPT ![n] = r]
        /\ proposals' = Set(proposals, n, s, [Idle EXCEPT !.number = number, !.value = v, !.promises = own])
        /\ promised' = IF refused THEN promised ELSE Set(promised, n, s, number)
        /\ numbers' = numbers \cup {[slot |-> s, number |-> number]}
        /\ Post(s, [type |-> "Prepare", proposal |-> number])
        /\ UNCHANGED <<accepted, acceptHistory, learned, chosen>>

\* The value of the accept phase: that of the highest proposal that is reported, or the
\* original one.  Reported values that contradict each other raise.
ValuesToPropose(S, original) ==
    LET reported == {p.accepted : p \in S} \ {Nothing}
        values == {a.value : a \in {b \in reported : \A c \in reported : ~Less(b.proposal, c.proposal)}}
    IN  IF reported = {} THEN {original} ELSE {v \in values : values = {v}}

\* _receive_promise: the one that completes a majority starts the accept phase, on the
\* node's own acceptor first, which refuses if it has promised a higher number.
ReceivePromise(n, s, m) ==
    LET mine == proposals[n][s]
        got == mine.promises \cup {[acceptor |-> m.acceptor, accepted |-> m.accepted]}
    IN  /\ m.type = "Promise"
        /\ m.proposal = mine.number
        /\ ~mine.started
        /\ \A p \in mine.promises : p.acceptor # m.acceptor
        /\ \/ /\ ~IsQuorum({p.acceptor : p \in got})
              /\ proposals' = Set(proposals, n, s, [mine EXCEPT !.promises = got])
              /\ UNCHANGED <<acceptor, msgs>>
           \/ /\ IsQuorum({p.acceptor : p \in got})
              /\ \E v \in ValuesToPropose(got, mine.value) :
                    LET refused == Less(mine.number, promised[n][s])
                    IN  /\ proposals' = Set(proposals, n, s,
                               [mine EXCEPT !.promises = got, !.value = v, !.started = TRUE,
                                            !.acceptedBy = IF refused THEN {} ELSE {n}])
                        /\ IF refused THEN UNCHANGED acceptor ELSE Accept(n, s, mine.number, v)
                        /\ Post(s, [type |-> "AcceptRequest", proposal |-> mine.number, value |-> v])
        /\ UNCHANGED <<learned, lastRound, chosen, numbers>>

\* _receive_learn: the first decision of a slot stays.
LearnDecision(n, s, entry) ==
    learned' = Set(learned, n, s, IF learned[n][s] = Nothing THEN entry ELSE learned[n][s])

\* _receive_accepted: the one that completes a majority decides the slot.
ReceiveAccepted(n, s, m) ==
    LET mine == proposals[n][s]
        by == mine.acceptedBy \cup {m.acceptor}
        entry == [proposal |-> mine.number, value |-> mine.value]
    IN  /\ m.type = "Accepted"
        /\ m.proposal = mine.number
        /\ mine.started
        /\ IF IsQuorum(by)
             THEN /\ chosen' = [chosen EXCEPT ![s] = IF @ = Nothing THEN entry ELSE @]
                  /\ LearnDecision(n, s, entry)
                  /\ Post(s, [type |-> "Learn", proposal |-> entry.proposal, value |-> entry.value])
                  /\ proposals' = Set(proposals, n, s, Idle)
             ELSE /\ proposals' = Set(proposals, n, s, [mine EXCEPT !.acceptedBy = by])
                  /\ UNCHANGED <<learned, chosen, msgs>>
        /\ UNCHANGED <<acceptor, lastRound, numbers>>

ReceiveLearn(n, s, m) ==
    /\ m.type = "Learn"
    /\ m.proposal.proposer # n
    /\ learned[n][s].value \in {None, m.value}
    /\ LearnDecision(n, s, [proposal |-> m.proposal, value |-> m.value])
    /\ UNCHANGED <<acceptor, lastRound, proposals, chosen, msgs, numbers>>

-----------------------------------------------------------------------------
(* Crash, restart and reconstruction *)

\* handle_crash and handle_restart: the proposals of all slots are gone.
Crash(n) ==
    /\ proposals' = [proposals EXCEPT ![n] = [s \in Slot |-> Idle]]
    /\ UNCHANGED <<acceptor, learned, lastRound, chosen, msgs, numbers>>

\* The entries of a slot that a majority holds in its durable histories: evidence of
\* _recover_chosen_from_durable_history and of PaxosLogSafetyHarness.checkpoint
ChosenBySlot(s) ==
    LET entries == {h.entry : h \in {g \in UNION {acceptHistory[n] : n \in Server} : g.slot = s}}
    IN  {e \in entries : IsQuorum({n \in Server : [slot |-> s, entry |-> e] \in acceptHistory[n]})}

\* _recover_chosen_from_durable_history: of several, the one with the smallest number
RecoverChosenFromCurrent(s) ==    \* faulty: looks at what is accepted now, not at the histories
    LET held == {e \in {accepted[n][s] : n \in Server} \ {Nothing} :
                    IsQuorum({n \in Server : accepted[n][s] = e})}
    IN  IF held = {} THEN Nothing ELSE CHOOSE e \in held : TRUE

RecoverChosen(s) ==
    IF ChosenBySlot(s) = {}
      THEN Nothing
      ELSE CHOOSE e \in ChosenBySlot(s) : \A f \in ChosenBySlot(s) : ~Less(f.proposal, e.proposal)

\* A RecoveringPaxosLogCluster over the durable state of all nodes, in a new simulator
Reconstruct ==
    /\ Recovering
    /\ chosen' = [s \in Slot |-> RecoverChosen(s)]
    /\ proposals' = [n \in Server |-> [s \in Slot |-> Idle]]
    /\ msgs' = {}
    /\ UNCHANGED <<acceptor, learned, lastRound, numbers>>

-----------------------------------------------------------------------------
Everywhere(x) == [n \in Server |-> [s \in Slot |-> x]]

Init ==
    /\ promised = Everywhere(NoProposal)
    /\ accepted = Everywhere(Nothing)
    /\ learned = Everywhere(Nothing)
    /\ acceptHistory = [n \in Server |-> {}]
    /\ lastRound = [n \in Server |-> 0]
    /\ proposals = Everywhere(Idle)
    /\ chosen = [s \in Slot |-> Nothing]
    /\ msgs = {}
    /\ numbers = {}

Propose(n) ==
    /\ n \in Proposer
    /\ Cardinality(numbers) < MaxProposals
    /\ \E s \in Slot, r \in 1..MaxRound, v \in Value : StartProposal(n, s, r, v)

\* handle_message
Deliver(n, s, m) ==
    \/ ReceivePrepare(n, s, m)
    \/ ReceivePromise(n, s, m)
    \/ ReceiveAcceptRequest(n, s, m)
    \/ ReceiveAccepted(n, s, m)
    \/ ReceiveLearn(n, s, m)

Next ==
    \/ \E n \in Server : \/ Propose(n)
                         \/ \E m \in msgs : Deliver(n, m.slot, m.body)
                         \/ Crash(n)
    \/ Reconstruct

Spec == Init /\ [][Next]_vars

-----------------------------------------------------------------------------
(* Properties *)

Numbers == ProposalNumber \cup {NoProposal}
MaybeAccepted == AcceptedValue \cup {Nothing}
PromiseOf == [acceptor : Server, accepted : MaybeAccepted]

\* The messages that the nodes exchange about one slot
Body ==
         [type : {"Prepare"}, proposal : ProposalNumber]
    \cup [type : {"Promise"}, proposal : ProposalNumber, acceptor : Server, accepted : MaybeAccepted]
    \cup [type : {"AcceptRequest"}, proposal : ProposalNumber, value : Value]
    \cup [type : {"Accepted"}, proposal : ProposalNumber, acceptor : Server, value : Value]
    \cup [type : {"Learn"}, proposal : ProposalNumber, value : Value]

\* The type invariant.
TypeOK ==
    /\ promised \in [Server -> [Slot -> Numbers]]
    /\ accepted \in [Server -> [Slot -> MaybeAccepted]]
    /\ learned \in [Server -> [Slot -> MaybeAccepted]]
    /\ acceptHistory \in [Server -> SUBSET [slot : Slot, entry : AcceptedValue]]
    /\ lastRound \in [Server -> 0..MaxRound]
    /\ proposals \in [Server -> [Slot -> [number : Numbers, value : Value \cup {None}, started : BOOLEAN,
                                        promises : SUBSET PromiseOf, acceptedBy : SUBSET Server]]]
    /\ chosen \in [Slot -> MaybeAccepted]
    /\ msgs \subseteq [slot : Slot, body : Body]
    /\ numbers \subseteq [slot : Slot, number : ProposalNumber]

\* A reconstruction never loses or changes a decision that the cluster had recorded, and
\* finds every decision that anybody has learned.
DecisionsSurvive ==
    [][\A s \in Slot : /\ chosen[s] # Nothing => chosen'[s].value = chosen[s].value
                       /\ Recovering /\ msgs' = {} =>
                            \A n \in Server : learned[n][s].value \in {None, chosen'[s].value}]_vars

\* Each slot, seen on its own, is single-decree Paxos: what other slots do to the node (the
\* shared round, a crash) is a step of the decree or no step at all, until and after a
\* reconstruction, which starts the network anew.  The last round of the decree is that of the
\* node's last proposal for the slot.
Of(f, s) == [n \in Server |-> f[n][s]]
Promised(s) == Of(promised, s)
Accepted(s) == Of(accepted, s)
Learned(s) == Of(learned, s)
History(s) == [n \in Server |-> {h.entry : h \in {g \in acceptHistory[n] : g.slot = s}}]
Number(s) == [n \in Server |-> proposals[n][s].number]
ValueOf(s) == [n \in Server |-> proposals[n][s].value]
Promises(s) == [n \in Server |-> proposals[n][s].promises]
Started(s) == [n \in Server |-> proposals[n][s].started]
AcceptedBy(s) == [n \in Server |-> proposals[n][s].acceptedBy]
Bodies(s) == {m.body : m \in {x \in msgs : x.slot = s}}

RoundsOf(n, s) == {p.number.round : p \in {q \in numbers : q.slot = s /\ q.number.proposer = n}}
LastRoundOf(n, s) == CHOOSE r \in RoundsOf(n, s) \cup {0} : \A q \in RoundsOf(n, s) : q <= r
LastRound(s) == [n \in Server |-> LastRoundOf(n, s)]

Decree(s) == INSTANCE Paxos WITH
    promised <- Promised(s),
    accepted <- Accepted(s),
    acceptHistory <- History(s),
    learned <- Learned(s),
    lastRound <- LastRound(s),
    proposal <- Number(s),
    value <- ValueOf(s),
    promises <- Promises(s),
    started <- Started(s),
    acceptedBy <- AcceptedBy(s),
    chosen <- chosen[s],
    msgs <- Bodies(s)

SlotsImplementPaxos ==
    /\ \A s \in Slot : Decree(s)!Init
    /\ [][Reconstruct \/ \A s \in Slot : Decree(s)!Next \/ UNCHANGED Decree(s)!vars]_vars
=============================================================================
