----------------------------- MODULE PaxosProofs -----------------------------
(* Proofs about Paxos, for any finite cluster of two or more nodes, any set of values *)
(* and any number of rounds and proposals.                                            *)
EXTENDS Paxos, FiniteSetTheorems, TLAPS

-----------------------------------------------------------------------------
(* Proposal numbers and majorities *)

Numbers == ProposalNumber \cup {NoProposal}

LEMMA NumberOrder ==
    ASSUME NEW p \in Numbers, NEW q \in Numbers, NEW r \in Numbers
    PROVE  /\ ~Less(p, p)
           /\ Less(p, q) \/ p = q \/ Less(q, p)
           /\ Less(p, q) => ~Less(q, p)
           /\ Less(p, q) /\ Less(q, r) => Less(p, r)
           /\ ~Less(q, p) /\ Less(q, r) => Less(p, r)
           /\ ~Less(q, p) /\ ~Less(r, q) => ~Less(r, p)
<1>1. \A x \in Numbers : x.round \in Nat /\ x.proposer \in Nat
  <2>1. \A x \in ProposalNumber : x.round \in Nat /\ x.proposer \in Nat
    BY ServerAssumption DEF ProposalNumber
  <2> QED BY <2>1 DEF Numbers, NoProposal
<1>2. ASSUME p.round = q.round, p.proposer = q.proposer PROVE p = q
  <2>1. CASE p \in ProposalNumber /\ q \in ProposalNumber
    BY <1>2, <2>1 DEF ProposalNumber
  <2>2. CASE p = NoProposal \/ q = NoProposal
    BY <1>2, <2>2 DEF Numbers, ProposalNumber, NoProposal
  <2> QED BY <2>1, <2>2 DEF Numbers
<1> QED BY <1>1, <1>2 DEF Less

LEMMA NoProposalIsLowest ==
    /\ NoProposal \notin ProposalNumber
    /\ \A p \in ProposalNumber : Less(NoProposal, p)
    /\ \A p \in Numbers : ~Less(p, NoProposal)
BY ServerAssumption DEF Numbers, ProposalNumber, NoProposal, Less

LEMMA QuorumsMeet ==
    ASSUME NEW P \in SUBSET Server, NEW Q \in SUBSET Server, IsQuorum(P), IsQuorum(Q)
    PROVE  \E n \in P : n \in Q
<1> IsFiniteSet(Server)
  BY ServerAssumption
<1>1. /\ IsFiniteSet(P) /\ IsFiniteSet(Q)
      /\ Cardinality(P) \in Nat /\ Cardinality(Q) \in Nat /\ Cardinality(Server) \in Nat
  BY FS_Subset, FS_CardinalityType
<1>2. Cardinality(P) + Cardinality(Q) > Cardinality(Server)
  BY <1>1 DEF IsQuorum
<1> QED BY <1>1, <1>2, FS_MajoritiesIntersect

LEMMA QuorumGrows ==
    ASSUME NEW P \in SUBSET Server, NEW Q \in SUBSET Server, P \subseteq Q, IsQuorum(P)
    PROVE  IsQuorum(Q)
<1>1. IsFiniteSet(Q) /\ IsFiniteSet(P) /\ Cardinality(P) <= Cardinality(Q)
  BY FS_Subset, ServerAssumption
<1>2. Cardinality(P) \in Nat /\ Cardinality(Q) \in Nat /\ Cardinality(Server) \in Nat
  BY <1>1, FS_CardinalityType, ServerAssumption
<1> QED BY <1>1, <1>2 DEF IsQuorum

\* A quorum has a member besides any one node.
LEMMA QuorumHasAnother ==
    ASSUME NEW P \in SUBSET Server, IsQuorum(P), NEW n
    PROVE  \E a \in P : a # n
<1> SUFFICES ASSUME P \subseteq {n} PROVE FALSE
  OBVIOUS
<1>1. IsFiniteSet({n}) /\ Cardinality({n}) = 1
  BY FS_Singleton
<1>2. Cardinality(P) <= 1 /\ Cardinality(P) \in Nat
  BY <1>1, FS_Subset, FS_CardinalityType
<1>3. Cardinality(Server) \in Nat /\ Cardinality(Server) > 1
  BY ServerAssumption, FS_CardinalityType
<1> QED BY <1>2, <1>3 DEF IsQuorum

-----------------------------------------------------------------------------
(* Type correctness *)

\* When some promise reports an accepted value, the highest ones do.
LEMMA HighestIsReal ==
    ASSUME NEW S \in SUBSET PromiseOf, \E x \in S : x.accepted # Nothing, NEW p \in Highest(S)
    PROVE  p \in S /\ p.accepted \in AcceptedValue /\ p.accepted.value \in Value
           /\ p.accepted.proposal \in ProposalNumber
<1>1. PICK x \in S : x.accepted \in AcceptedValue
  BY DEF PromiseOf, MaybeAccepted
<1>2. p \in S /\ ~Less(p.accepted.proposal, x.accepted.proposal)
  BY DEF Highest
<1>3. p.accepted # Nothing
  BY <1>1, <1>2, NoProposalIsLowest DEF Nothing, AcceptedValue
<1> QED BY <1>2, <1>3 DEF PromiseOf, MaybeAccepted, AcceptedValue

LEMMA TypeOKStep == TypeOK /\ [Next]_vars => TypeOK'
<1> SUFFICES ASSUME AcceptorOK, ProposerOK, DecisionOK, [Next]_vars
             PROVE  AcceptorOK' /\ ProposerOK' /\ DecisionOK'
  BY DEF TypeOK
<1> USE DEF acceptor, proposer
<1>1. ASSUME NEW n \in Server, Propose(n) PROVE AcceptorOK' /\ ProposerOK' /\ DecisionOK'
  <2>1. PICK r \in 1..MaxRound, v \in Value : StartProposal(n, r, v)
    BY <1>1 DEF Propose
  <2>2. r \in Nat /\ [round |-> r, proposer |-> n] \in ProposalNumber
    BY BoundAssumption DEF ProposalNumber
  <2>3. [type |-> "Prepare", proposal |-> [round |-> r, proposer |-> n]] \in Messages
    BY <2>2 DEF Messages
  <2>4. [acceptor |-> n, accepted |-> accepted[n]] \in PromiseOf
    BY DEF PromiseOf, AcceptorOK
  <2>5. AcceptorOK'
    BY <2>1, <2>2 DEF StartProposal, AcceptorOK
  <2>6. ProposerOK'
    BY <2>1, <2>2, <2>4 DEF StartProposal, ProposerOK
  <2>7. DecisionOK'
    BY <2>1, <2>2, <2>3 DEF StartProposal, DecisionOK
  <2> QED BY <2>5, <2>6, <2>7
<1>2. ASSUME NEW n \in Server, Crash(n) PROVE AcceptorOK' /\ ProposerOK' /\ DecisionOK'
  BY <1>2 DEF Crash, ClearProposal, AcceptorOK, ProposerOK, DecisionOK
<1>3. ASSUME NEW n \in Server, NEW m \in msgs, ReceivePrepare(n, m)
      PROVE  AcceptorOK' /\ ProposerOK' /\ DecisionOK'
  <2>1. m.proposal \in ProposalNumber
    BY <1>3 DEF ReceivePrepare, DecisionOK, Messages
  <2>2. [type |-> "Promise", proposal |-> m.proposal, acceptor |-> n,
         accepted |-> accepted[n]] \in Messages
    BY <2>1 DEF Messages, AcceptorOK
  <2> QED BY <1>3, <2>1, <2>2 DEF ReceivePrepare, AcceptorOK, ProposerOK, DecisionOK
<1>4. ASSUME NEW n \in Server, NEW m \in msgs, ReceivePromise(n, m)
      PROVE  AcceptorOK' /\ ProposerOK' /\ DecisionOK'
  <2>1. m.proposal \in ProposalNumber /\ m.acceptor \in Server /\ m.accepted \in MaybeAccepted
    BY <1>4 DEF ReceivePromise, DecisionOK, Messages
  <2>n. proposal[n] \in ProposalNumber /\ proposal[n] # NoProposal
    BY <1>4, <2>1, NoProposalIsLowest DEF ReceivePromise
  <2> DEFINE p == [acceptor |-> m.acceptor, accepted |-> m.accepted]
             got == promises[n] \cup {p}
  <2>2. got \in SUBSET PromiseOf
    BY <2>1 DEF PromiseOf, ProposerOK
  <2>d. UNCHANGED <<learned, lastRound, proposal, chosen>> /\ promises' = [promises EXCEPT ![n] = got]
    BY <1>4 DEF ReceivePromise
  <2>3. CASE ~IsQuorum(Promisers(got))
    <3>1. UNCHANGED <<acceptor, value, started, acceptedBy, msgs>>
      BY <1>4, <2>3 DEF ReceivePromise
    <3> QED BY <2>2, <2>d, <3>1 DEF AcceptorOK, ProposerOK, DecisionOK
  <2>4. CASE IsQuorum(Promisers(got))
    <3>1. PICK v \in ValuesToPropose(got, value[n]) : StartAcceptPhase(n, v)
      BY <1>4, <2>4 DEF ReceivePromise
    <3>2. v \in Value
      <4>1. CASE \A x \in got : x.accepted = Nothing
        BY <2>n, <3>1, <4>1 DEF ValuesToPropose, ProposerOK
      <4>2. CASE \E x \in got : x.accepted # Nothing
        BY <2>2, <3>1, <4>2, HighestIsReal DEF ValuesToPropose
      <4> QED BY <4>1, <4>2
    <3>3. [proposal |-> proposal[n], value |-> v] \in AcceptedValue
      BY <3>2, <2>n DEF AcceptedValue
    <3>4. [type |-> "AcceptRequest", proposal |-> proposal[n], value |-> v] \in Messages
      BY <3>2, <2>n DEF Messages
    <3>5. AcceptorOK'
      BY <2>n, <3>1, <3>3 DEF StartAcceptPhase, Accept, AcceptorOK, MaybeAccepted
    <3>6. ProposerOK'
      <4> HIDE DEF got
      <4> QED BY <2>2, <2>d, <3>1, <3>2 DEF StartAcceptPhase, ProposerOK
    <3>7. DecisionOK'
      BY <2>d, <3>1, <3>4 DEF StartAcceptPhase, DecisionOK
    <3> QED BY <3>5, <3>6, <3>7
  <2> QED BY <2>3, <2>4
<1>5. ASSUME NEW n \in Server, NEW m \in msgs, ReceiveAcceptRequest(n, m)
      PROVE  AcceptorOK' /\ ProposerOK' /\ DecisionOK'
  <2>1. m.proposal \in ProposalNumber /\ m.value \in Value
    BY <1>5 DEF ReceiveAcceptRequest, DecisionOK, Messages
  <2>2. [proposal |-> m.proposal, value |-> m.value] \in AcceptedValue
    BY <2>1 DEF AcceptedValue
  <2>3. [type |-> "Accepted", proposal |-> m.proposal, acceptor |-> n, value |-> m.value] \in Messages
    BY <2>1 DEF Messages
  <2>4. AcceptorOK'
    BY <1>5, <2>1, <2>2 DEF ReceiveAcceptRequest, Accept, AcceptorOK, MaybeAccepted
  <2>5. ProposerOK' /\ DecisionOK'
    BY <1>5, <2>3 DEF ReceiveAcceptRequest, ProposerOK, DecisionOK
  <2> QED BY <2>4, <2>5
<1>6. ASSUME NEW n \in Server, NEW m \in msgs, ReceiveAccepted(n, m)
      PROVE  AcceptorOK' /\ ProposerOK' /\ DecisionOK'
  <2>1. m.proposal \in ProposalNumber /\ m.acceptor \in Server
    BY <1>6 DEF ReceiveAccepted, DecisionOK, Messages
  <2>2. proposal[n] \in ProposalNumber /\ value[n] \in Value
    BY <1>6, <2>1, NoProposalIsLowest DEF ReceiveAccepted, ProposerOK
  <2>3. [proposal |-> proposal[n], value |-> value[n]] \in MaybeAccepted
    BY <2>2 DEF AcceptedValue, MaybeAccepted
  <2>4. [type |-> "Learn", proposal |-> proposal[n], value |-> value[n]] \in Messages
    BY <2>2 DEF Messages
  <2>5. AcceptorOK'
    BY <1>6 DEF ReceiveAccepted, AcceptorOK
  <2>6. ProposerOK'
    <3>1. CASE IsQuorum(acceptedBy[n] \cup {m.acceptor})
      BY <1>6, <3>1 DEF ReceiveAccepted, ClearProposal, ProposerOK
    <3>2. CASE ~IsQuorum(acceptedBy[n] \cup {m.acceptor})
      BY <1>6, <2>1, <3>2 DEF ReceiveAccepted, ProposerOK
    <3> QED BY <3>1, <3>2
  <2>7. DecisionOK'
    BY <1>6, <2>3, <2>4 DEF ReceiveAccepted, RecordChosen, LearnDecision, DecisionOK
  <2> QED BY <2>5, <2>6, <2>7
<1>7. ASSUME NEW n \in Server, NEW m \in msgs, ReceiveLearn(n, m)
      PROVE  AcceptorOK' /\ ProposerOK' /\ DecisionOK'
  <2>1. m.proposal \in ProposalNumber /\ m.value \in Value
    BY <1>7 DEF ReceiveLearn, DecisionOK, Messages
  <2>2. [proposal |-> m.proposal, value |-> m.value] \in MaybeAccepted
    BY <2>1 DEF AcceptedValue, MaybeAccepted
  <2> QED BY <1>7, <2>2 DEF ReceiveLearn, LearnDecision, AcceptorOK, ProposerOK, DecisionOK
<1>8. CASE UNCHANGED vars
  BY <1>8 DEF vars, AcceptorOK, ProposerOK, DecisionOK
<1> QED BY <1>1, <1>2, <1>3, <1>4, <1>5, <1>6, <1>7, <1>8 DEF Next, Deliver

\* The types hold for every cluster, every set of values and every number of proposals:
\* no state that a restart reads back is refused for its type.
THEOREM TypeCorrect == Spec => []TypeOK
<1>1. Init => TypeOK
  BY DEF Init, TypeOK, AcceptorOK, ProposerOK, DecisionOK, MaybeAccepted
<1> QED BY <1>1, TypeOKStep, PTL DEF Spec

-----------------------------------------------------------------------------
(* The inductive invariant *)

Request(b, v) == [type |-> "AcceptRequest", proposal |-> b, value |-> v]

Entry(b, v) == [proposal |-> b, value |-> v]

\* Node a has accepted nothing at c and never will.
WontAccept(a, c) ==
    /\ Less(c, promised[a])
    /\ \A e \in acceptHistory[a] : e.proposal # c

\* No value but v has been or will be chosen below b.
SafeAt(v, b) ==
    \A c \in ProposalNumber : Less(c, b) =>
        \E Q \in SUBSET Server :
            IsQuorum(Q) /\ \A a \in Q : Entry(c, v) \in acceptHistory[a] \/ WontAccept(a, c)

\* Whatever was accepted was requested, is not above the promise, and is not above the
\* last value accepted, which is in the history.
AcceptorAt(n) ==
    /\ \A e \in acceptHistory[n] : /\ Request(e.proposal, e.value) \in msgs
                                   /\ ~Less(promised[n], e.proposal)
                                   /\ ~Less(accepted[n].proposal, e.proposal)
    /\ accepted[n] = Nothing \/ accepted[n] \in acceptHistory[n]

AcceptorInv == \A n \in Server : AcceptorAt(n)

\* A node runs a proposal of its own, with its last round; accept requests for it go out
\* when its accept phase starts; the acceptances that it has counted are on disk.
ProposerAt(n) ==
    /\ proposal[n] # NoProposal => proposal[n].proposer = n /\ proposal[n].round <= lastRound[n]
    /\ proposal[n] = NoProposal => promises[n] = {} /\ ~started[n]
    /\ ~started[n] => acceptedBy[n] = {}
    /\ started[n] => Request(proposal[n], value[n]) \in msgs
    /\ \A v \in Value : Request(proposal[n], v) \in msgs => started[n]
    /\ \A a \in acceptedBy[n] : Entry(proposal[n], value[n]) \in acceptHistory[a]

ProposerInv == \A n \in Server : ProposerAt(n)

\* Every number in a message was allocated: its round is on its proposer's disk.
NumberInv == \A m \in msgs : m.proposal.round <= lastRound[m.proposal.proposer]

\* One number, one value.
RequestInv ==
    \A b \in ProposalNumber, v, w \in Value : Request(b, v) \in msgs /\ Request(b, w) \in msgs => v = w

\* What is requested is safe.
SafeInv == \A b \in ProposalNumber, v \in Value : Request(b, v) \in msgs => SafeAt(v, b)

\* A promise is kept, and what it reports was accepted.
PromiseTrue(a, b, acc) == PromiseKept(a, b, acc) /\ (acc = Nothing \/ acc \in acceptHistory[a])

PromiseInv ==
    \A m \in msgs : m.type = "Promise" => PromiseTrue(m.acceptor, m.proposal, m.accepted)

HeldPromiseInv ==
    \A n \in Server : \A p \in promises[n] : PromiseTrue(p.acceptor, proposal[n], p.accepted)

AcceptedInv ==
    \A m \in msgs : m.type = "Accepted" => Entry(m.proposal, m.value) \in acceptHistory[m.acceptor]

LearnInv == \A m \in msgs : m.type = "Learn" => Entry(m.proposal, m.value) \in ChosenEntries

PaxosInv ==
    /\ AcceptorInv /\ ProposerInv /\ NumberInv /\ RequestInv /\ SafeInv
    /\ PromiseInv /\ HeldPromiseInv /\ AcceptedInv /\ LearnInv /\ DecisionsAreChosen

-----------------------------------------------------------------------------
(* What stays true while acceptors only move up *)

AcceptorsAdvance ==
    \A a \in Server :
        /\ ~Less(promised'[a], promised[a])
        /\ acceptHistory[a] \subseteq acceptHistory'[a]
        /\ \A e \in acceptHistory'[a] : e \in acceptHistory[a] \/ ~Less(e.proposal, promised[a])

LEMMA WontAcceptStable ==
    ASSUME AcceptorOK, AcceptorOK', AcceptorsAdvance,
           NEW a \in Server, NEW c \in ProposalNumber, WontAccept(a, c)
    PROVE  WontAccept(a, c)'
<1>1. promised[a] \in Numbers /\ promised'[a] \in Numbers /\ c \in Numbers
  BY DEF AcceptorOK, Numbers
<1>2. ~Less(promised'[a], promised[a]) /\ Less(c, promised[a])
  BY DEF AcceptorsAdvance, WontAccept
<1>3. Less(c, promised'[a])
  <2>1. promised'[a] = promised[a] \/ Less(promised[a], promised'[a])
    BY <1>1, <1>2, NumberOrder
  <2> QED BY <1>1, <1>2, <2>1, NumberOrder
<1>4. \A e \in acceptHistory'[a] : e.proposal # c
  BY <1>2 DEF AcceptorsAdvance, WontAccept
<1> QED BY <1>3, <1>4 DEF WontAccept

LEMMA SafeAtStable ==
    ASSUME AcceptorOK, AcceptorOK', AcceptorsAdvance,
           NEW v \in Value, NEW b \in ProposalNumber, SafeAt(v, b)
    PROVE  SafeAt(v, b)'
<1> SUFFICES ASSUME NEW c \in ProposalNumber, Less(c, b)
             PROVE  \E Q \in SUBSET Server :
                      IsQuorum(Q) /\ \A a \in Q : Entry(c, v) \in acceptHistory'[a] \/ WontAccept(a, c)'
  BY DEF SafeAt
<1>1. PICK Q \in SUBSET Server :
        IsQuorum(Q) /\ \A a \in Q : Entry(c, v) \in acceptHistory[a] \/ WontAccept(a, c)
  BY DEF SafeAt
<1>2. ASSUME NEW a \in Q PROVE Entry(c, v) \in acceptHistory'[a] \/ WontAccept(a, c)'
  BY <1>1, <1>2, WontAcceptStable DEF AcceptorsAdvance
<1> QED BY <1>1, <1>2

LEMMA PromiseStable ==
    ASSUME AcceptorOK, AcceptorOK', AcceptorsAdvance,
           NEW a \in Server, NEW b \in Numbers, NEW acc, PromiseTrue(a, b, acc)
    PROVE  PromiseTrue(a, b, acc)'
<1>1. promised[a] \in Numbers /\ promised'[a] \in Numbers
  BY DEF AcceptorOK, Numbers
<1>2. ~Less(promised'[a], promised[a]) /\ ~Less(promised[a], b)
  BY DEF AcceptorsAdvance, PromiseTrue, PromiseKept
<1>3. ~Less(promised'[a], b)
  BY <1>1, <1>2, NumberOrder
<1>4. ASSUME NEW e \in acceptHistory'[a], Less(e.proposal, b) PROVE ~Less(acc.proposal, e.proposal)
  <2>1. e.proposal \in Numbers
    BY DEF AcceptorOK, AcceptedValue, Numbers
  <2>2. Less(e.proposal, promised[a])
    <3>1. promised[a] = b \/ Less(b, promised[a])
      BY <1>1, <1>2, NumberOrder
    <3> QED BY <1>1, <1>4, <2>1, <3>1, NumberOrder
  <2>3. e \in acceptHistory[a]
    BY <2>2 DEF AcceptorsAdvance
  <2> QED BY <1>4, <2>3 DEF PromiseTrue, PromiseKept
<1>5. acc = Nothing \/ acc \in acceptHistory'[a]
  BY DEF AcceptorsAdvance, PromiseTrue
<1> QED BY <1>3, <1>4, <1>5 DEF PromiseTrue, PromiseKept

LEMMA QuorumIsChosen ==
    ASSUME NEW e, NEW Q \in SUBSET Server, IsQuorum(Q), \A a \in Q : e \in acceptHistory[a]
    PROVE  e \in ChosenEntries
<1>1. IsQuorum(Acceptors(e))
  BY QuorumGrows DEF Acceptors
<1>2. PICK a \in Q : a # None
  BY QuorumHasAnother
<1> QED BY <1>1, <1>2 DEF ChosenEntries

LEMMA ChosenStable ==
    ASSUME \A a \in Server : acceptHistory[a] \subseteq acceptHistory'[a], NEW e \in ChosenEntries
    PROVE  e \in ChosenEntries'
<1>1. IsQuorum(Acceptors(e)) /\ Acceptors(e) \in SUBSET Server
  BY DEF ChosenEntries, Acceptors
<1>2. Acceptors(e)' \in SUBSET Server /\ Acceptors(e) \subseteq Acceptors(e)'
  BY DEF Acceptors
<1>3. IsQuorum(Acceptors(e)')
  BY <1>1, <1>2, QuorumGrows
<1>4. PICK a \in Acceptors(e)' : a # None
  BY <1>2, <1>3, QuorumHasAnother
<1>5. e \in acceptHistory'[a] /\ a \in Server
  BY <1>4 DEF Acceptors
<1> QED BY <1>3, <1>5 DEF ChosenEntries, Acceptors, IsQuorum

\* Two quorums of acceptances are for one value.
LEMMA ChosenAgree == AcceptorOK /\ AcceptorInv /\ RequestInv /\ SafeInv => Agreement
<1> SUFFICES ASSUME AcceptorOK, AcceptorInv, RequestInv, SafeInv,
                    NEW e \in ChosenEntries, NEW f \in ChosenEntries
             PROVE  e.value = f.value
  BY DEF Agreement
<1>1. \A x \in ChosenEntries : /\ x \in AcceptedValue /\ Acceptors(x) \in SUBSET Server
                               /\ IsQuorum(Acceptors(x))
                               /\ Request(x.proposal, x.value) \in msgs
  BY DEF ChosenEntries, Acceptors, AcceptorOK, AcceptorInv, AcceptorAt
<1>2. \A x \in ChosenEntries : x.proposal \in ProposalNumber /\ x.value \in Value
  BY <1>1 DEF AcceptedValue
<1>3. ASSUME NEW x \in ChosenEntries, NEW y \in ChosenEntries, Less(x.proposal, y.proposal)
      PROVE  x.value = y.value
  <2>1. SafeAt(y.value, y.proposal)
    BY <1>1, <1>2 DEF SafeInv
  <2>2. PICK Q \in SUBSET Server :
           /\ IsQuorum(Q)
           /\ \A a \in Q : Entry(x.proposal, y.value) \in acceptHistory[a] \/ WontAccept(a, x.proposal)
    BY <1>2, <1>3, <2>1 DEF SafeAt
  <2>3. PICK a \in Q : a \in Acceptors(x)
    BY <1>1, <2>2, QuorumsMeet
  <2>4. x \in acceptHistory[a] /\ a \in Server
    BY <2>3 DEF Acceptors
  <2>5. Entry(x.proposal, y.value) \in acceptHistory[a]
    BY <2>2, <2>4 DEF WontAccept
  <2>6. Request(x.proposal, y.value) \in msgs
    BY <2>4, <2>5 DEF AcceptorInv, AcceptorAt, Entry
  <2> QED BY <1>1, <1>2, <2>6 DEF RequestInv
<1>4. CASE e.proposal = f.proposal
  BY <1>1, <1>2, <1>4 DEF RequestInv
<1>5. CASE e.proposal # f.proposal
  BY <1>2, <1>3, <1>5, NumberOrder DEF Numbers
<1> QED BY <1>4, <1>5

-----------------------------------------------------------------------------
(* The value of the accept phase is safe *)

LEMMA PromisedValueIsSafe ==
    ASSUME AcceptorOK, AcceptorInv, RequestInv, SafeInv,
           NEW S \in SUBSET PromiseOf, NEW b \in ProposalNumber, IsQuorum(Promisers(S)),
           \A p \in S : PromiseTrue(p.acceptor, b, p.accepted),
           NEW original \in Value, NEW v \in ValuesToPropose(S, original)
    PROVE  SafeAt(v, b)
<1> DEFINE Q == Promisers(S)
<1> SUFFICES ASSUME NEW c \in ProposalNumber, Less(c, b)
             PROVE  \E R \in SUBSET Server :
                      IsQuorum(R) /\ \A a \in R : Entry(c, v) \in acceptHistory[a] \/ WontAccept(a, c)
  BY DEF SafeAt
<1>1. Q \in SUBSET Server
  BY DEF Promisers, PromiseOf
<1>2. ASSUME NEW a \in Q
      PROVE  Less(c, promised[a]) /\ \E p \in S : p.acceptor = a /\ p.accepted \in MaybeAccepted
  <2>1. PICK p \in S : p.acceptor = a /\ p.accepted \in MaybeAccepted
    BY DEF Promisers, PromiseOf
  <2>2. ~Less(promised[a], b)
    BY <2>1 DEF PromiseTrue, PromiseKept
  <2>3. promised[a] \in Numbers /\ b \in Numbers /\ c \in Numbers
    BY <1>1 DEF AcceptorOK, Numbers
  <2>4. promised[a] = b \/ Less(b, promised[a])
    BY <2>2, <2>3, NumberOrder
  <2> QED BY <2>1, <2>3, <2>4, NumberOrder
<1>3. CASE \A p \in S : p.accepted = Nothing
  <2>1. ASSUME NEW a \in Q PROVE WontAccept(a, c)
    <3>1. PICK p \in S : p.acceptor = a
      BY <1>2
    <3>2. \A e \in acceptHistory[a] : Less(e.proposal, b) => ~Less(NoProposal, e.proposal)
      BY <1>3, <3>1 DEF PromiseTrue, PromiseKept, Nothing
    <3> QED BY <1>2, <3>2, NoProposalIsLowest DEF WontAccept
  <2> QED BY <1>1, <2>1
<1>4. CASE \E p \in S : p.accepted # Nothing
  <2>1. PICK h \in Highest(S) : v = h.accepted.value
    BY <1>4 DEF ValuesToPropose
  <2> DEFINE k == h.accepted.proposal
  <2>2. /\ h \in S /\ h.accepted \in AcceptedValue /\ v \in Value /\ k \in ProposalNumber
        /\ h.accepted = Entry(k, v)
    BY <1>4, <2>1, HighestIsReal DEF Entry, AcceptedValue
  <2>3. Request(k, v) \in msgs
    <3>1. h.accepted \in acceptHistory[h.acceptor] /\ h.acceptor \in Server
      BY <2>2, NoProposalIsLowest DEF PromiseTrue, PromiseOf, Nothing
    <3> QED BY <2>1, <3>1 DEF AcceptorInv, AcceptorAt
  <2> HIDE DEF k
  <2>4. CASE Less(c, k)
    BY <2>2, <2>3, <2>4 DEF SafeInv, SafeAt
  <2>5. CASE c = k
    <3>1. ASSUME NEW a \in Q PROVE Entry(c, v) \in acceptHistory[a] \/ WontAccept(a, c)
      <4>1. SUFFICES ASSUME NEW e \in acceptHistory[a], e.proposal = c
                     PROVE  Entry(c, v) \in acceptHistory[a]
        BY <1>2 DEF WontAccept
      <4>2. e \in AcceptedValue /\ Request(c, e.value) \in msgs
        BY <1>1, <4>1 DEF AcceptorOK, AcceptorInv, AcceptorAt
      <4>3. e.value \in Value /\ e = Entry(c, e.value)
        BY <4>1, <4>2 DEF AcceptedValue, Entry
      <4>4. e.value = v
        BY <2>2, <2>3, <2>5, <4>2, <4>3 DEF RequestInv
      <4> QED BY <4>3, <4>4
    <3> QED BY <1>1, <3>1
  <2>6. CASE Less(k, c)
    <3>1. ASSUME NEW a \in Q PROVE WontAccept(a, c)
      <4>1. PICK p \in S : p.acceptor = a /\ p.accepted \in MaybeAccepted
        BY <1>2
      <4>2. ~Less(k, p.accepted.proposal)
        BY <2>1, <4>1 DEF Highest, k
      <4>3. p.accepted.proposal \in Numbers
        BY <4>1 DEF MaybeAccepted, AcceptedValue, Nothing, Numbers
      <4>4. Less(p.accepted.proposal, c)
        <5>1. p.accepted.proposal = k \/ Less(p.accepted.proposal, k)
          BY <2>2, <4>2, <4>3, NumberOrder DEF Numbers
        <5> QED BY <2>2, <2>6, <4>3, <5>1, NumberOrder DEF Numbers
      <4>5. \A e \in acceptHistory[a] : e.proposal # c
        BY <4>1, <4>4 DEF PromiseTrue, PromiseKept
      <4> QED BY <1>2, <4>5 DEF WontAccept
    <3> QED BY <1>1, <3>1
  <2> QED BY <2>2, <2>4, <2>5, <2>6, NumberOrder DEF Numbers
<1> QED BY <1>3, <1>4

\* What an advance of the acceptors carries over.
LEMMA Stability ==
    ASSUME AcceptorOK, AcceptorOK', AcceptorsAdvance
    PROVE  /\ \A a \in Server, b \in Numbers, acc \in MaybeAccepted :
                 PromiseTrue(a, b, acc) => PromiseTrue(a, b, acc)'
           /\ \A b \in ProposalNumber, v \in Value : SafeAt(v, b) => SafeAt(v, b)'
           /\ ChosenEntries \subseteq ChosenEntries'
           /\ \A a \in Server : acceptHistory[a] \subseteq acceptHistory'[a]
<1>1. \A a \in Server, b \in Numbers, acc \in MaybeAccepted :
         PromiseTrue(a, b, acc) => PromiseTrue(a, b, acc)'
  BY PromiseStable
<1>2. \A b \in ProposalNumber, v \in Value : SafeAt(v, b) => SafeAt(v, b)'
  BY SafeAtStable
<1>3. ChosenEntries \subseteq ChosenEntries'
  BY ChosenStable DEF AcceptorsAdvance
<1> QED BY <1>1, <1>2, <1>3 DEF AcceptorsAdvance

-----------------------------------------------------------------------------
(* Frame lemmas: what a step leaves alone *)

\* The parts of the invariant about messages and decisions, for a step that sends new.
LEMMA CarryMessages ==
    ASSUME TypeOK, TypeOK', PaxosInv, AcceptorsAdvance,
           NEW new \in SUBSET Messages, msgs' = msgs \cup new,
           \A n \in Server : lastRound[n] <= lastRound'[n],
           \A m \in new : m.proposal.round <= lastRound'[m.proposal.proposer],
           \A m \in new : m.type = "Promise" => PromiseTrue(m.acceptor, m.proposal, m.accepted)',
           \A m \in new : m.type = "Accepted" => Entry(m.proposal, m.value) \in acceptHistory'[m.acceptor],
           \A m \in new : m.type = "Learn" => Entry(m.proposal, m.value) \in ChosenEntries',
           \A b \in ProposalNumber, v \in Value : Request(b, v) \in new =>
               SafeAt(v, b)' /\ \A w \in Value : Request(b, w) \in msgs' => w = v,
           \A n \in Server : learned'[n] = learned[n] \/ learned'[n] \in ChosenEntries',
           chosen' = chosen \/ chosen' \in ChosenEntries'
    PROVE  /\ NumberInv' /\ RequestInv' /\ SafeInv' /\ PromiseInv' /\ AcceptedInv' /\ LearnInv'
           /\ DecisionsAreChosen'
<1> AcceptorOK /\ AcceptorOK' /\ DecisionOK /\ DecisionOK'
  BY DEF TypeOK
<1> /\ NumberInv /\ RequestInv /\ SafeInv /\ PromiseInv /\ AcceptedInv /\ LearnInv
    /\ DecisionsAreChosen
  BY DEF PaxosInv
<1>n. \A m \in Messages : m.proposal \in ProposalNumber /\ m.proposal.round \in Nat /\ m.proposal.proposer \in Server
  BY DEF Messages, ProposalNumber
<1>m. msgs \subseteq Messages
  BY DEF DecisionOK
<1>1. NumberInv'
  <2> SUFFICES ASSUME NEW m \in msgs' PROVE m.proposal.round <= lastRound'[m.proposal.proposer]
    BY DEF NumberInv
  <2>1. CASE m \in msgs
    <3>1. m.proposal.round \in Nat /\ m.proposal.proposer \in Server
      BY <1>n, <1>m, <2>1
    <3>2. lastRound[m.proposal.proposer] \in Nat /\ lastRound'[m.proposal.proposer] \in Nat
      BY <3>1 DEF DecisionOK
    <3>3. m.proposal.round <= lastRound[m.proposal.proposer]
      BY <2>1 DEF NumberInv
    <3> QED BY <3>1, <3>2, <3>3
  <2> QED BY <2>1
<1>2. RequestInv'
  BY DEF RequestInv
<1>3. SafeInv'
  BY Stability DEF SafeInv
<1>4. PromiseInv'
  <2> SUFFICES ASSUME NEW m \in msgs', m.type = "Promise"
               PROVE  PromiseTrue(m.acceptor, m.proposal, m.accepted)'
    BY DEF PromiseInv
  <2>1. CASE m \in msgs
    <3>1. m.acceptor \in Server /\ m.proposal \in Numbers /\ m.accepted \in MaybeAccepted
      BY <1>m, <2>1 DEF Messages, Numbers
    <3>2. PromiseTrue(m.acceptor, m.proposal, m.accepted)
      BY <2>1 DEF PromiseInv
    <3> QED BY <3>1, <3>2, Stability
  <2> QED BY <2>1
<1>5. AcceptedInv'
  <2> SUFFICES ASSUME NEW m \in msgs', m.type = "Accepted"
               PROVE  Entry(m.proposal, m.value) \in acceptHistory'[m.acceptor]
    BY DEF AcceptedInv, Entry
  <2>1. CASE m \in msgs
    <3>1. m.acceptor \in Server
      BY <1>m, <2>1 DEF Messages
    <3> QED BY <2>1, <3>1, Stability DEF AcceptedInv
  <2> QED BY <2>1
<1>6. LearnInv'
  BY Stability DEF LearnInv, Entry
<1>7. DecisionsAreChosen'
  BY Stability DEF DecisionsAreChosen
<1> QED BY <1>1, <1>2, <1>3, <1>4, <1>5, <1>6, <1>7

LEMMA CarryAcceptor ==
    ASSUME NEW a \in Server, AcceptorAt(a), msgs \subseteq msgs',
           promised'[a] = promised[a], accepted'[a] = accepted[a], acceptHistory'[a] = acceptHistory[a]
    PROVE  AcceptorAt(a)'
BY DEF AcceptorAt, Request

LEMMA CarryProposer ==
    ASSUME TypeOK, TypeOK', AcceptorsAdvance, NEW k \in Server, ProposerAt(k), msgs \subseteq msgs',
           proposal'[k] = proposal[k], value'[k] = value[k], promises'[k] = promises[k],
           started'[k] = started[k], acceptedBy'[k] = acceptedBy[k],
           lastRound[k] <= lastRound'[k],
           \A v \in Value : Request(proposal[k], v) \in msgs' => Request(proposal[k], v) \in msgs
    PROVE  ProposerAt(k)'
<1>1. acceptedBy[k] \subseteq Server /\ \A a \in Server : acceptHistory[a] \subseteq acceptHistory'[a]
  BY DEF TypeOK, ProposerOK, AcceptorsAdvance
<1>2. proposal[k] # NoProposal => proposal[k].round <= lastRound'[k]
  <2> SUFFICES ASSUME proposal[k] # NoProposal PROVE proposal[k].round <= lastRound'[k]
    OBVIOUS
  <2>1. proposal[k].round \in Nat
    BY DEF TypeOK, ProposerOK, ProposalNumber
  <2>2. lastRound[k] \in Nat /\ lastRound'[k] \in Nat
    BY DEF TypeOK, DecisionOK
  <2> QED BY <2>1, <2>2 DEF ProposerAt
<1> QED BY <1>1, <1>2 DEF ProposerAt, Request, Entry

LEMMA CarryHeldPromises ==
    ASSUME TypeOK, TypeOK', HeldPromiseInv, AcceptorsAdvance, NEW k \in Server,
           proposal'[k] = proposal[k], promises'[k] = promises[k]
    PROVE  \A p \in promises'[k] : PromiseTrue(p.acceptor, proposal[k], p.accepted)'
<1> SUFFICES ASSUME NEW p \in promises[k]
             PROVE  PromiseTrue(p.acceptor, proposal[k], p.accepted)'
  OBVIOUS
<1>1. p.acceptor \in Server /\ p.accepted \in MaybeAccepted /\ proposal[k] \in Numbers
  BY DEF TypeOK, ProposerOK, PromiseOf, Numbers
<1>2. PromiseTrue(p.acceptor, proposal[k], p.accepted)
  BY DEF HeldPromiseInv
<1>3. \A b \in Numbers : PromiseTrue(p.acceptor, b, p.accepted) => PromiseTrue(p.acceptor, b, p.accepted)'
  BY <1>1, Stability DEF TypeOK
<1> QED BY <1>1, <1>2, <1>3

-----------------------------------------------------------------------------
(* The invariant is inductive *)

\* What StartProposal does, by conjunct.
LEMMA StartProposalStep ==
    ASSUME TypeOK, TypeOK', PaxosInv, NEW n \in Server, NEW r \in Nat \ {0}, NEW v \in Value,
           StartProposal(n, r, v)
    PROVE  PaxosInv'
<1> AcceptorOK /\ AcceptorOK' /\ ProposerOK /\ ProposerOK' /\ DecisionOK /\ DecisionOK'
  BY DEF TypeOK
<1> AcceptorInv /\ ProposerInv /\ NumberInv /\ HeldPromiseInv
  BY DEF PaxosInv
<1> DEFINE number == [round |-> r, proposer |-> n]
           prepare == [type |-> "Prepare", proposal |-> number]
<1>1. number \in ProposalNumber /\ number \in Numbers /\ number # NoProposal /\ prepare \in Messages
  BY NoProposalIsLowest DEF ProposalNumber, Numbers, Messages
<1>2. /\ UNCHANGED <<accepted, acceptHistory, learned, started, acceptedBy, chosen>>
      /\ msgs' = msgs \cup {prepare}
      /\ proposal[n] = NoProposal /\ r > lastRound[n]
      /\ lastRound' = [lastRound EXCEPT ![n] = r]
      /\ proposal' = [proposal EXCEPT ![n] = number]
      /\ value' = [value EXCEPT ![n] = v]
  BY DEF StartProposal
<1>3. \/ /\ Less(number, promised[n]) /\ UNCHANGED <<promised, promises>>
      \/ /\ ~Less(number, promised[n])
         /\ promised' = [promised EXCEPT ![n] = number]
         /\ promises' = [promises EXCEPT ![n] = {[acceptor |-> n, accepted |-> accepted[n]]}]
  BY DEF StartProposal
<1> HIDE DEF number
<1>4. AcceptorsAdvance
  <2> SUFFICES ASSUME NEW a \in Server PROVE ~Less(promised'[a], promised[a])
    BY <1>2 DEF AcceptorsAdvance
  <2>1. promised[a] \in Numbers
    BY DEF AcceptorOK, Numbers
  <2> QED BY <1>3, <2>1, NumberOrder DEF AcceptorOK
<1>5. \A b, w : Request(b, w) \in msgs' => Request(b, w) \in msgs
  BY <1>2 DEF Request
<1>6. \A k \in Server : lastRound[k] <= lastRound'[k]
  BY <1>2 DEF DecisionOK
<1>7. AcceptorInv'
  <2> SUFFICES ASSUME NEW a \in Server PROVE AcceptorAt(a)'
    BY DEF AcceptorInv
  <2>1. CASE promised'[a] = promised[a]
    BY <1>2, <2>1, CarryAcceptor DEF AcceptorInv
  <2>2. CASE promised'[a] # promised[a]
    <3>1. AcceptorAt(a) /\ ~Less(promised'[a], promised[a])
      BY <1>4 DEF AcceptorInv, AcceptorsAdvance
    <3>2. ASSUME NEW e \in acceptHistory[a] PROVE ~Less(promised'[a], e.proposal)
      <4>1. e.proposal \in Numbers /\ promised[a] \in Numbers /\ promised'[a] \in Numbers
        BY DEF AcceptorOK, AcceptedValue, Numbers
      <4> QED BY <3>1, <3>2, <4>1, NumberOrder DEF AcceptorAt
    <3> QED BY <1>2, <3>1, <3>2 DEF AcceptorAt, Request
  <2> QED BY <2>1, <2>2
<1>8. ProposerInv'
  <2> SUFFICES ASSUME NEW k \in Server PROVE ProposerAt(k)'
    BY DEF ProposerInv
  <2>1. CASE k # n
    BY <1>2, <1>3, <1>4, <1>5, <1>6, <2>1, CarryProposer DEF ProposerInv, ProposerOK
  <2>2. CASE k = n
    <3>1. ProposerAt(n)
      BY DEF ProposerInv
    <3>2. ASSUME NEW w \in Value, Request(number, w) \in msgs PROVE FALSE
      <4>1. number.round <= lastRound[number.proposer]
        BY <3>2 DEF NumberInv, Request
      <4>2. number.round = r /\ number.proposer = n /\ lastRound[n] \in Nat
        BY DEF number, DecisionOK
      <4> QED BY <1>2, <4>1, <4>2
    <3>3. number.proposer = n /\ number.round = r
      BY DEF number
    <3>4. ~started'[n] /\ acceptedBy'[n] = {}
      BY <1>2, <3>1 DEF ProposerAt
    <3>5. proposal'[n] = number /\ lastRound'[n] = r
      BY <1>2 DEF ProposerOK, DecisionOK
    <3> QED BY <1>1, <1>5, <2>2, <3>2, <3>3, <3>4, <3>5 DEF ProposerAt
  <2> QED BY <2>1, <2>2
<1>9. HeldPromiseInv'
  <2> SUFFICES ASSUME NEW k \in Server
               PROVE  \A p \in promises'[k] : PromiseTrue(p.acceptor, proposal[k], p.accepted)'
    BY DEF HeldPromiseInv
  <2>1. CASE k # n
    <3>1. proposal'[k] = proposal[k] /\ promises'[k] = promises[k]
      BY <1>2, <1>3, <2>1 DEF ProposerOK
    <3> QED BY <1>4, <3>1, CarryHeldPromises
  <2>2. CASE k = n
    <3>1. promises[n] = {}
      BY <1>2 DEF ProposerInv, ProposerAt
    <3>2. CASE UNCHANGED promises
      BY <2>2, <3>1, <3>2
    <3>3. CASE /\ promised' = [promised EXCEPT ![n] = number]
               /\ promises' = [promises EXCEPT ![n] = {[acceptor |-> n, accepted |-> accepted[n]]}]
      <4>1. promises'[n] = {[acceptor |-> n, accepted |-> accepted[n]]} /\ proposal'[n] = number
        BY <1>2, <3>3 DEF ProposerOK
      <4>2. promised'[n] = number /\ ~Less(number, number)
        BY <1>1, <3>3, NumberOrder DEF AcceptorOK
      <4>3. PromiseTrue(n, number, accepted[n])'
        BY <1>2, <1>7, <4>2 DEF PromiseTrue, PromiseKept, AcceptorInv, AcceptorAt
      <4> QED BY <1>2, <2>2, <4>1, <4>3
    <3> QED BY <1>3, <3>2, <3>3
  <2> QED BY <2>1, <2>2
<1>10. number.proposer = n /\ number.round = r /\ lastRound'[n] = r
  BY <1>2 DEF number, DecisionOK
<1>11. /\ NumberInv' /\ RequestInv' /\ SafeInv' /\ PromiseInv' /\ AcceptedInv' /\ LearnInv'
       /\ DecisionsAreChosen'
  <2>1. {prepare} \in SUBSET Messages /\ \A m \in {prepare} : m.type = "Prepare" /\ m.proposal = number
    BY <1>1
  <2>2. \A m \in {prepare} : m.proposal.round <= lastRound'[m.proposal.proposer]
    BY <1>10, <2>1
  <2>3. \A b \in ProposalNumber, w \in Value : Request(b, w) \notin {prepare}
    BY DEF Request
  <2> HIDE DEF prepare
  <2> QED BY <1>2, <1>4, <1>6, <2>1, <2>2, <2>3, CarryMessages
<1> QED BY <1>7, <1>8, <1>9, <1>11 DEF PaxosInv

\* A promise that goes up, with nothing accepted.
LEMMA PromiseAdvances ==
    ASSUME AcceptorOK, AcceptorOK', AcceptorInv, msgs \subseteq msgs',
           NEW n \in Server, NEW b \in ProposalNumber, ~Less(b, promised[n]),
           promised' = [promised EXCEPT ![n] = b], UNCHANGED <<accepted, acceptHistory>>
    PROVE  AcceptorsAdvance /\ AcceptorInv'
<1>1. \A a \in Server : promised[a] \in Numbers /\ promised'[a] \in Numbers
  BY DEF AcceptorOK, Numbers
<1>2. \A a \in Server : ~Less(promised'[a], promised[a])
  BY <1>1, NumberOrder DEF AcceptorOK
<1>3. ASSUME NEW a \in Server PROVE AcceptorAt(a)'
  <2>1. ASSUME NEW e \in acceptHistory[a] PROVE ~Less(promised'[a], e.proposal)
    <3>1. e.proposal \in Numbers
      BY DEF AcceptorOK, AcceptedValue, Numbers
    <3> QED BY <1>1, <1>2, <3>1, NumberOrder DEF AcceptorInv, AcceptorAt
  <2> QED BY <2>1 DEF AcceptorInv, AcceptorAt, Request
<1> QED BY <1>2, <1>3 DEF AcceptorsAdvance, AcceptorInv

\* An acceptance.
LEMMA AcceptAdvances ==
    ASSUME AcceptorOK, AcceptorOK', AcceptorInv, msgs \subseteq msgs',
           NEW n \in Server, NEW b \in ProposalNumber, NEW v \in Value, ~Less(b, promised[n]),
           Accept(n, b, v), Request(b, v) \in msgs'
    PROVE  AcceptorsAdvance /\ AcceptorInv' /\ Entry(b, v) \in acceptHistory'[n]
<1> /\ promised' = [promised EXCEPT ![n] = b]
    /\ accepted' = [accepted EXCEPT ![n] = Entry(b, v)]
    /\ acceptHistory' = [acceptHistory EXCEPT ![n] = @ \cup {Entry(b, v)}]
  BY DEF Accept, Entry
<1>1. \A a \in Server : promised[a] \in Numbers /\ promised'[a] \in Numbers
  BY DEF AcceptorOK, Numbers
<1>2. \A a \in Server : ~Less(promised'[a], promised[a])
  BY <1>1, NumberOrder DEF AcceptorOK
<1>3. /\ promised'[n] = b /\ accepted'[n] = Entry(b, v)
      /\ acceptHistory'[n] = acceptHistory[n] \cup {Entry(b, v)}
  BY DEF AcceptorOK
<1>4. Entry(b, v).proposal = b /\ Entry(b, v).value = v /\ b \in Numbers
  BY DEF Entry, Numbers
<1>5. \A a \in Server : a # n => /\ promised'[a] = promised[a] /\ accepted'[a] = accepted[a]
                                 /\ acceptHistory'[a] = acceptHistory[a]
  BY DEF AcceptorOK
<1> HIDE DEF Entry
<1>6. AcceptorsAdvance
  BY <1>2, <1>3, <1>4, <1>5 DEF AcceptorsAdvance
<1>7. ASSUME NEW a \in Server PROVE AcceptorAt(a)'
  <2>1. CASE a # n
    BY <1>5, <2>1, CarryAcceptor DEF AcceptorInv
  <2>2. CASE a = n
    <3>1. ASSUME NEW e \in acceptHistory[n] PROVE ~Less(b, e.proposal) /\ Request(e.proposal, e.value) \in msgs
      <4>1. e.proposal \in Numbers
        BY DEF AcceptorOK, AcceptedValue, Numbers
      <4>2. ~Less(promised[n], e.proposal) /\ Request(e.proposal, e.value) \in msgs
        BY DEF AcceptorInv, AcceptorAt
      <4> QED BY <1>1, <1>4, <4>1, <4>2, NumberOrder
    <3>2. ~Less(b, b)
      BY <1>4, NumberOrder
    <3> QED BY <1>3, <1>4, <2>2, <3>1, <3>2 DEF AcceptorAt, Request
  <2> QED BY <2>1, <2>2
<1> QED BY <1>3, <1>6, <1>7 DEF AcceptorInv

LEMMA ReceivePrepareStep ==
    ASSUME TypeOK, TypeOK', PaxosInv, NEW n \in Server, NEW m \in msgs, ReceivePrepare(n, m)
    PROVE  PaxosInv'
<1> AcceptorOK /\ AcceptorOK' /\ ProposerOK /\ ProposerOK' /\ DecisionOK /\ DecisionOK'
  BY DEF TypeOK
<1> AcceptorInv /\ ProposerInv /\ NumberInv /\ HeldPromiseInv
  BY DEF PaxosInv
<1> DEFINE new == [type |-> "Promise", proposal |-> m.proposal, acceptor |-> n, accepted |-> accepted[n]]
<1>1. m.proposal \in ProposalNumber /\ m.proposal \in Numbers /\ new \in Messages
  BY DEF ReceivePrepare, DecisionOK, AcceptorOK, Messages, Numbers
<1>2. /\ UNCHANGED <<accepted, acceptHistory, learned, lastRound, proposer, chosen>>
      /\ msgs' = msgs \cup {new}
      /\ ~Less(m.proposal, promised[n])
      /\ promised' = [promised EXCEPT ![n] = m.proposal]
  BY DEF ReceivePrepare
<1>3. AcceptorsAdvance /\ AcceptorInv'
  BY <1>1, <1>2, PromiseAdvances
<1>4. \A b, w : Request(b, w) \in msgs' => Request(b, w) \in msgs
  BY <1>2 DEF Request
<1>5. \A k \in Server : lastRound[k] <= lastRound'[k]
  BY <1>2 DEF DecisionOK
<1>6. ProposerInv'
  BY <1>2, <1>3, <1>4, <1>5, CarryProposer DEF ProposerInv, proposer
<1>7. HeldPromiseInv'
  BY <1>2, <1>3, CarryHeldPromises DEF HeldPromiseInv, proposer
<1>8. PromiseTrue(n, m.proposal, accepted[n])'
  <2>1. promised'[n] = m.proposal /\ ~Less(m.proposal, m.proposal)
    BY <1>1, <1>2, NumberOrder DEF AcceptorOK
  <2> QED BY <1>2, <1>3, <2>1 DEF PromiseTrue, PromiseKept, AcceptorInv, AcceptorAt
<1>9. /\ NumberInv' /\ RequestInv' /\ SafeInv' /\ PromiseInv' /\ AcceptedInv' /\ LearnInv'
      /\ DecisionsAreChosen'
  <2>1. /\ {new} \in SUBSET Messages
        /\ \A x \in {new} : /\ x.type = "Promise" /\ x.proposal = m.proposal
                            /\ x.acceptor = n /\ x.accepted = accepted[n]
    BY <1>1
  <2>2. \A x \in {new} : x.proposal.round <= lastRound'[x.proposal.proposer]
    BY <1>2, <2>1 DEF NumberInv
  <2>3. \A b \in ProposalNumber, w \in Value : Request(b, w) \notin {new}
    BY DEF Request
  <2>4. \A x \in {new} : PromiseTrue(x.acceptor, x.proposal, x.accepted)'
    BY <1>2, <1>8, <2>1
  <2> HIDE DEF new
  <2> QED BY <1>2, <1>3, <1>5, <2>1, <2>2, <2>3, <2>4, CarryMessages
<1> QED BY <1>3, <1>6, <1>7, <1>9 DEF PaxosInv

LEMMA ReceiveAcceptRequestStep ==
    ASSUME TypeOK, TypeOK', PaxosInv, NEW n \in Server, NEW m \in msgs, ReceiveAcceptRequest(n, m)
    PROVE  PaxosInv'
<1> AcceptorOK /\ AcceptorOK' /\ ProposerOK /\ ProposerOK' /\ DecisionOK /\ DecisionOK'
  BY DEF TypeOK
<1> AcceptorInv /\ ProposerInv /\ NumberInv /\ HeldPromiseInv
  BY DEF PaxosInv
<1> DEFINE new == [type |-> "Accepted", proposal |-> m.proposal, acceptor |-> n, value |-> m.value]
<1>1. /\ m.proposal \in ProposalNumber /\ m.value \in Value /\ new \in Messages
      /\ m = Request(m.proposal, m.value)
  BY DEF ReceiveAcceptRequest, DecisionOK, Messages, Request
<1>2. /\ UNCHANGED <<learned, lastRound, proposer, chosen>>
      /\ msgs' = msgs \cup {new}
      /\ ~Less(m.proposal, promised[n])
      /\ Accept(n, m.proposal, m.value)
  BY DEF ReceiveAcceptRequest
<1>3. AcceptorsAdvance /\ AcceptorInv' /\ Entry(m.proposal, m.value) \in acceptHistory'[n]
  BY <1>1, <1>2, AcceptAdvances
<1>4. \A b, w : Request(b, w) \in msgs' => Request(b, w) \in msgs
  BY <1>2 DEF Request
<1>5. \A k \in Server : lastRound[k] <= lastRound'[k]
  BY <1>2 DEF DecisionOK
<1>6. ProposerInv'
  BY <1>2, <1>3, <1>4, <1>5, CarryProposer DEF ProposerInv, proposer
<1>7. HeldPromiseInv'
  BY <1>2, <1>3, CarryHeldPromises DEF HeldPromiseInv, proposer
<1>9. /\ NumberInv' /\ RequestInv' /\ SafeInv' /\ PromiseInv' /\ AcceptedInv' /\ LearnInv'
      /\ DecisionsAreChosen'
  <2>1. /\ {new} \in SUBSET Messages
        /\ \A x \in {new} : /\ x.type = "Accepted" /\ x.proposal = m.proposal
                            /\ x.acceptor = n /\ x.value = m.value
    BY <1>1
  <2>2. \A x \in {new} : x.proposal.round <= lastRound'[x.proposal.proposer]
    BY <1>2, <2>1 DEF NumberInv
  <2>3. \A b \in ProposalNumber, w \in Value : Request(b, w) \notin {new}
    BY DEF Request
  <2>4. \A x \in {new} : Entry(x.proposal, x.value) \in acceptHistory'[x.acceptor]
    BY <1>3, <2>1
  <2> HIDE DEF new
  <2> QED BY <1>2, <1>3, <1>5, <2>1, <2>2, <2>3, <2>4, CarryMessages
<1> QED BY <1>3, <1>6, <1>7, <1>9 DEF PaxosInv

\* A step that sends nothing and leaves the acceptors alone.
LEMMA SilentStep ==
    ASSUME TypeOK, TypeOK', PaxosInv, UNCHANGED <<acceptor, lastRound, msgs>>,
           \A n \in Server : learned'[n] = learned[n] \/ learned'[n] \in ChosenEntries,
           chosen' = chosen \/ chosen' \in ChosenEntries
    PROVE  /\ AcceptorsAdvance /\ AcceptorInv'
           /\ NumberInv' /\ RequestInv' /\ SafeInv' /\ PromiseInv' /\ AcceptedInv' /\ LearnInv'
           /\ DecisionsAreChosen'
<1>1. UNCHANGED <<promised, accepted, acceptHistory>>
  BY DEF acceptor
<1>2. AcceptorsAdvance
  <2>1. \A a \in Server : promised[a] \in Numbers
    BY DEF TypeOK, AcceptorOK, Numbers
  <2> QED BY <1>1, <2>1, NumberOrder DEF AcceptorsAdvance
<1>3. AcceptorInv'
  BY <1>1, CarryAcceptor DEF PaxosInv, AcceptorInv
<1>4. ChosenEntries' = ChosenEntries
  BY <1>1 DEF ChosenEntries, Acceptors
<1>5. {} \in SUBSET Messages /\ msgs' = msgs \cup {} /\ \A k \in Server : lastRound[k] <= lastRound'[k]
  BY DEF TypeOK, DecisionOK
<1> QED BY <1>2, <1>3, <1>4, <1>5, CarryMessages

LEMMA CrashStep ==
    ASSUME TypeOK, TypeOK', PaxosInv, NEW n \in Server, Crash(n)
    PROVE  PaxosInv'
<1> ProposerOK /\ DecisionOK /\ ProposerInv /\ HeldPromiseInv
  BY DEF TypeOK, PaxosInv
<1>1. UNCHANGED <<acceptor, learned, lastRound, chosen, msgs>> /\ ClearProposal(n)
  BY DEF Crash
<1>2. /\ AcceptorsAdvance /\ AcceptorInv'
      /\ NumberInv' /\ RequestInv' /\ SafeInv' /\ PromiseInv' /\ AcceptedInv' /\ LearnInv'
      /\ DecisionsAreChosen'
  BY <1>1, SilentStep
<1>3. ASSUME NEW k \in Server
      PROVE  ProposerAt(k)' /\ \A p \in promises'[k] : PromiseTrue(p.acceptor, proposal[k], p.accepted)'
  <2>1. CASE k # n
    <3>1. /\ proposal'[k] = proposal[k] /\ value'[k] = value[k] /\ promises'[k] = promises[k]
          /\ started'[k] = started[k] /\ acceptedBy'[k] = acceptedBy[k] /\ lastRound[k] <= lastRound'[k]
      BY <1>1, <2>1 DEF ClearProposal, ProposerOK, DecisionOK
    <3> QED BY <1>1, <1>2, <3>1, CarryProposer, CarryHeldPromises DEF ProposerInv
  <2>2. CASE k = n
    <3>1. /\ proposal'[n] = NoProposal /\ promises'[n] = {} /\ started'[n] = FALSE
          /\ acceptedBy'[n] = {}
      BY <1>1 DEF ClearProposal, ProposerOK
    <3>2. ASSUME NEW v \in Value PROVE Request(NoProposal, v) \notin msgs
      BY NoProposalIsLowest DEF DecisionOK, Messages, Request
    <3> QED BY <1>1, <2>2, <3>1, <3>2 DEF ProposerAt
  <2> QED BY <2>1, <2>2
<1> QED BY <1>2, <1>3 DEF PaxosInv, ProposerInv, HeldPromiseInv

LEMMA ReceiveLearnStep ==
    ASSUME TypeOK, TypeOK', PaxosInv, NEW n \in Server, NEW m \in msgs, ReceiveLearn(n, m)
    PROVE  PaxosInv'
<1> ProposerOK /\ DecisionOK /\ ProposerInv /\ HeldPromiseInv
  BY DEF TypeOK, PaxosInv
<1>1. UNCHANGED <<acceptor, lastRound, proposer, chosen, msgs>>
  BY DEF ReceiveLearn
<1>2. \A k \in Server : learned'[k] = learned[k] \/ learned'[k] \in ChosenEntries
  BY DEF ReceiveLearn, LearnDecision, DecisionOK, PaxosInv, LearnInv, Entry
<1>3. /\ AcceptorsAdvance /\ AcceptorInv'
      /\ NumberInv' /\ RequestInv' /\ SafeInv' /\ PromiseInv' /\ AcceptedInv' /\ LearnInv'
      /\ DecisionsAreChosen'
  BY <1>1, <1>2, SilentStep
<1>4. \A k \in Server : lastRound[k] <= lastRound'[k]
  BY <1>1 DEF DecisionOK
<1>5. ProposerInv'
  BY <1>1, <1>3, <1>4, CarryProposer DEF ProposerInv, proposer
<1>6. HeldPromiseInv'
  BY <1>1, <1>3, CarryHeldPromises DEF HeldPromiseInv, proposer
<1> QED BY <1>3, <1>5, <1>6 DEF PaxosInv

LEMMA ReceiveAcceptedStep ==
    ASSUME TypeOK, TypeOK', PaxosInv, NEW n \in Server, NEW m \in msgs, ReceiveAccepted(n, m)
    PROVE  PaxosInv'
<1> AcceptorOK /\ ProposerOK /\ DecisionOK /\ ProposerInv /\ HeldPromiseInv /\ NumberInv
  BY DEF TypeOK, PaxosInv
<1> DEFINE by == acceptedBy[n] \cup {m.acceptor}
           entry == Entry(proposal[n], value[n])
<1>1. /\ m.type = "Accepted" /\ m.proposal = proposal[n] /\ started[n]
      /\ UNCHANGED <<acceptor, lastRound>>
  BY DEF ReceiveAccepted
<1>2. /\ m.acceptor \in Server /\ m.proposal \in ProposalNumber /\ m.value \in Value
      /\ value[n] \in Value /\ by \in SUBSET Server
  BY <1>1, NoProposalIsLowest DEF DecisionOK, ProposerOK, Messages
<1>3. m.value = value[n]
  <2>1. Entry(m.proposal, m.value) \in acceptHistory[m.acceptor]
    BY <1>1 DEF PaxosInv, AcceptedInv
  <2>2. Request(m.proposal, m.value) \in msgs
    BY <1>2, <2>1 DEF PaxosInv, AcceptorInv, AcceptorAt, Entry
  <2>3. Request(m.proposal, value[n]) \in msgs
    BY <1>1 DEF ProposerInv, ProposerAt
  <2> QED BY <1>2, <2>2, <2>3 DEF PaxosInv, RequestInv
<1>4. \A a \in by : entry \in acceptHistory[a]
  BY <1>1, <1>3 DEF PaxosInv, AcceptedInv, ProposerInv, ProposerAt
<1>5. CASE ~IsQuorum(by)
  <2>1. /\ acceptedBy' = [acceptedBy EXCEPT ![n] = by]
        /\ UNCHANGED <<proposal, value, promises, started, learned, chosen, msgs>>
    BY <1>5 DEF ReceiveAccepted
  <2>2. /\ AcceptorsAdvance /\ AcceptorInv'
        /\ NumberInv' /\ RequestInv' /\ SafeInv' /\ PromiseInv' /\ AcceptedInv' /\ LearnInv'
        /\ DecisionsAreChosen'
    BY <1>1, <2>1, SilentStep
  <2>3. \A k \in Server : lastRound[k] <= lastRound'[k]
    BY <1>1 DEF DecisionOK
  <2>4. ASSUME NEW k \in Server PROVE ProposerAt(k)'
    <3>1. CASE k # n
      <4>1. acceptedBy'[k] = acceptedBy[k]
        BY <2>1, <3>1 DEF ProposerOK
      <4> QED BY <2>1, <2>2, <2>3, <4>1, CarryProposer DEF ProposerInv
    <3>2. CASE k = n
      <4>1. acceptedBy'[n] = by /\ acceptHistory' = acceptHistory
        BY <1>1, <2>1 DEF ProposerOK, acceptor
      <4>2. ProposerAt(n)
        BY DEF ProposerInv
      <4> QED BY <1>1, <1>4, <2>1, <3>2, <4>1, <4>2 DEF ProposerAt
    <3> QED BY <3>1, <3>2
  <2>5. HeldPromiseInv'
    BY <2>1, <2>2, CarryHeldPromises DEF HeldPromiseInv
  <2> QED BY <2>2, <2>4, <2>5 DEF PaxosInv, ProposerInv
<1>6. CASE IsQuorum(by)
  <2> DEFINE new == [type |-> "Learn", proposal |-> proposal[n], value |-> value[n]]
  <2>1. /\ RecordChosen(entry) /\ LearnDecision(n, entry)
        /\ msgs' = msgs \cup {new}
        /\ ClearProposal(n)
    BY <1>6 DEF ReceiveAccepted, Entry
  <2>2. entry \in ChosenEntries
    BY <1>2, <1>4, <1>6, QuorumIsChosen
  <2>3. UNCHANGED <<promised, accepted, acceptHistory>> /\ ChosenEntries' = ChosenEntries
    BY <1>1 DEF acceptor, ChosenEntries, Acceptors
  <2>4. AcceptorsAdvance
    <3>1. \A a \in Server : promised[a] \in Numbers
      BY DEF AcceptorOK, Numbers
    <3> QED BY <2>3, <3>1, NumberOrder DEF AcceptorsAdvance
  <2>5. AcceptorInv'
    BY <2>1, <2>3, CarryAcceptor DEF PaxosInv, AcceptorInv
  <2>6. \A k \in Server : lastRound[k] <= lastRound'[k]
    BY <1>1 DEF DecisionOK
  <2>7. \A b, w : Request(b, w) \in msgs' => Request(b, w) \in msgs
    BY <2>1 DEF Request
  <2>8. ASSUME NEW k \in Server
        PROVE  ProposerAt(k)' /\ \A p \in promises'[k] : PromiseTrue(p.acceptor, proposal[k], p.accepted)'
    <3>1. CASE k # n
      <4>1. /\ proposal'[k] = proposal[k] /\ value'[k] = value[k] /\ promises'[k] = promises[k]
            /\ started'[k] = started[k] /\ acceptedBy'[k] = acceptedBy[k] /\ msgs \subseteq msgs'
        BY <2>1, <3>1 DEF ClearProposal, ProposerOK
      <4> QED BY <2>4, <2>6, <2>7, <4>1, CarryProposer, CarryHeldPromises DEF ProposerInv
    <3>2. CASE k = n
      <4>1. /\ proposal'[n] = NoProposal /\ promises'[n] = {} /\ started'[n] = FALSE
            /\ acceptedBy'[n] = {}
        BY <2>1 DEF ClearProposal, ProposerOK
      <4>2. ASSUME NEW v \in Value PROVE Request(NoProposal, v) \notin msgs
        BY NoProposalIsLowest DEF DecisionOK, Messages, Request
      <4> QED BY <2>7, <3>2, <4>1, <4>2 DEF ProposerAt
    <3> QED BY <3>1, <3>2
  <2>9. /\ NumberInv' /\ RequestInv' /\ SafeInv' /\ PromiseInv' /\ AcceptedInv' /\ LearnInv'
        /\ DecisionsAreChosen'
    <3>1. /\ {new} \in SUBSET Messages
          /\ \A x \in {new} : x.type = "Learn" /\ x.proposal = m.proposal /\ x.value = value[n]
      BY <1>1, <1>2 DEF Messages
    <3>2. \A x \in {new} : x.proposal.round <= lastRound'[x.proposal.proposer]
      BY <1>1, <3>1 DEF NumberInv
    <3>3. \A b \in ProposalNumber, w \in Value : Request(b, w) \notin {new}
      BY DEF Request
    <3>4. \A x \in {new} : Entry(x.proposal, x.value) \in ChosenEntries'
      BY <1>1, <2>2, <2>3, <3>1
    <3>5. \A k \in Server : learned'[k] = learned[k] \/ learned'[k] \in ChosenEntries'
      BY <2>1, <2>2, <2>3 DEF LearnDecision, DecisionOK
    <3>6. chosen' = chosen \/ chosen' \in ChosenEntries'
      BY <2>1, <2>2, <2>3 DEF RecordChosen
    <3> HIDE DEF new, entry
    <3> QED BY <2>1, <2>4, <2>6, <3>1, <3>2, <3>3, <3>4, <3>5, <3>6, CarryMessages
  <2> QED BY <2>5, <2>8, <2>9 DEF PaxosInv, ProposerInv, HeldPromiseInv
<1> QED BY <1>5, <1>6

LEMMA ReceivePromiseStep ==
    ASSUME TypeOK, TypeOK', PaxosInv, NEW n \in Server, NEW m \in msgs, ReceivePromise(n, m)
    PROVE  PaxosInv'
<1> /\ AcceptorOK /\ AcceptorOK' /\ ProposerOK /\ ProposerOK' /\ DecisionOK /\ DecisionOK'
    /\ AcceptorInv /\ ProposerInv /\ HeldPromiseInv /\ NumberInv /\ RequestInv /\ SafeInv
  BY DEF TypeOK, PaxosInv
<1> DEFINE held == [acceptor |-> m.acceptor, accepted |-> m.accepted]
           got == promises[n] \cup {held}
           b == proposal[n]
<1>1. /\ m.type = "Promise" /\ m.proposal = b /\ ~started[n]
      /\ promises' = [promises EXCEPT ![n] = got]
      /\ UNCHANGED <<learned, lastRound, proposal, chosen>>
  BY DEF ReceivePromise
<1>2. m.acceptor \in Server /\ m.accepted \in MaybeAccepted /\ b \in ProposalNumber
  BY <1>1 DEF DecisionOK, Messages
<1>3. b \in Numbers /\ b # NoProposal /\ value[n] \in Value /\ b.proposer = n
  BY <1>2, NoProposalIsLowest DEF Numbers, ProposerOK, ProposerInv, ProposerAt
<1>4. got \in SUBSET PromiseOf
  BY <1>2 DEF ProposerOK, PromiseOf
<1>5. \A p \in got : PromiseTrue(p.acceptor, b, p.accepted)
  BY <1>1 DEF PaxosInv, PromiseInv, HeldPromiseInv
<1>6. \A k \in Server : lastRound[k] <= lastRound'[k]
  BY <1>1 DEF DecisionOK
<1>7. ASSUME AcceptorsAdvance PROVE HeldPromiseInv'
  <2> SUFFICES ASSUME NEW k \in Server
               PROVE  \A p \in promises'[k] : PromiseTrue(p.acceptor, proposal[k], p.accepted)'
    BY DEF HeldPromiseInv
  <2>1. CASE k # n
    <3>1. promises'[k] = promises[k] /\ proposal'[k] = proposal[k]
      BY <1>1, <2>1 DEF ProposerOK
    <3> QED BY <1>7, <3>1, CarryHeldPromises
  <2>2. CASE k = n
    <3>1. promises'[n] = got /\ proposal'[n] = b
      BY <1>1 DEF ProposerOK
    <3>2. ASSUME NEW p \in got PROVE PromiseTrue(p.acceptor, proposal[n], p.accepted)'
      <4>1. p.acceptor \in Server /\ p.accepted \in MaybeAccepted
        BY <1>4 DEF PromiseOf
      <4>2. PromiseTrue(p.acceptor, b, p.accepted)
        BY <1>5
      <4>3. \A c \in Numbers : PromiseTrue(p.acceptor, c, p.accepted) => PromiseTrue(p.acceptor, c, p.accepted)'
        BY <1>7, <4>1, Stability
      <4> QED BY <1>1, <1>3, <4>2, <4>3
    <3> QED BY <2>2, <3>1, <3>2
  <2> QED BY <2>1, <2>2
<1>8. CASE ~IsQuorum(Promisers(got))
  <2>1. UNCHANGED <<acceptor, value, started, acceptedBy, msgs>>
    BY <1>8 DEF ReceivePromise
  <2>2. /\ AcceptorsAdvance /\ AcceptorInv'
        /\ NumberInv' /\ RequestInv' /\ SafeInv' /\ PromiseInv' /\ AcceptedInv' /\ LearnInv'
        /\ DecisionsAreChosen'
    BY <1>1, <2>1, SilentStep
  <2>3. ASSUME NEW k \in Server PROVE ProposerAt(k)'
    <3>1. CASE k # n
      <4>1. promises'[k] = promises[k]
        BY <1>1, <3>1 DEF ProposerOK
      <4> QED BY <1>1, <1>6, <2>1, <2>2, <4>1, CarryProposer DEF ProposerInv
    <3>2. CASE k = n
      <4>1. acceptHistory' = acceptHistory /\ ProposerAt(n)
        BY <2>1 DEF acceptor, ProposerInv
      <4> QED BY <1>1, <1>3, <2>1, <3>2, <4>1 DEF ProposerAt
    <3> QED BY <3>1, <3>2
  <2> QED BY <1>7, <2>2, <2>3 DEF PaxosInv, ProposerInv
<1>9. CASE IsQuorum(Promisers(got))
  <2>1. PICK v \in ValuesToPropose(got, value[n]) : StartAcceptPhase(n, v)
    BY <1>9 DEF ReceivePromise
  <2>2. SafeAt(v, b)
    <3> HIDE DEF got, b
    <3> QED BY <1>2, <1>3, <1>4, <1>5, <1>9, PromisedValueIsSafe
  <2>3. v \in Value
    <3>1. CASE \A x \in got : x.accepted = Nothing
      BY <1>3, <3>1 DEF ValuesToPropose
    <3>2. CASE \E x \in got : x.accepted # Nothing
      BY <1>4, <3>2, HighestIsReal DEF ValuesToPropose
    <3> QED BY <3>1, <3>2
  <2>4. /\ value' = [value EXCEPT ![n] = v]
        /\ started' = [started EXCEPT ![n] = TRUE]
        /\ msgs' = msgs \cup {Request(b, v)}
    BY <2>1 DEF StartAcceptPhase, Request
  <2>5. \/ UNCHANGED <<acceptor, acceptedBy>>
        \/ /\ ~Less(b, promised[n])
           /\ Accept(n, b, v)
           /\ acceptedBy' = [acceptedBy EXCEPT ![n] = {n}]
    BY <2>1 DEF StartAcceptPhase
  <2>6. \A w \in Value : Request(b, w) \notin msgs
    BY <1>1 DEF ProposerInv, ProposerAt
  <2>7. /\ AcceptorsAdvance /\ AcceptorInv'
        /\ acceptedBy'[n] \in {{}, {n}}
        /\ \A a \in acceptedBy'[n] : Entry(b, v) \in acceptHistory'[a]
        /\ \A k \in Server : k # n => acceptedBy'[k] = acceptedBy[k]
    <3>0. acceptedBy[n] = {}
      BY <1>1 DEF ProposerInv, ProposerAt
    <3>1. CASE UNCHANGED <<acceptor, acceptedBy>>
      <4>1. UNCHANGED <<promised, accepted, acceptHistory>>
        BY <3>1 DEF acceptor
      <4>2. \A a \in Server : promised[a] \in Numbers
        BY DEF AcceptorOK, Numbers
      <4>3. AcceptorsAdvance
        BY <4>1, <4>2, NumberOrder DEF AcceptorsAdvance
      <4>4. AcceptorInv'
        BY <2>4, <4>1, CarryAcceptor DEF AcceptorInv
      <4> QED BY <3>0, <3>1, <4>3, <4>4
    <3>2. CASE /\ ~Less(b, promised[n])
               /\ Accept(n, b, v)
               /\ acceptedBy' = [acceptedBy EXCEPT ![n] = {n}]
      <4>1. AcceptorsAdvance /\ AcceptorInv' /\ Entry(b, v) \in acceptHistory'[n]
        <5> HIDE DEF b
        <5> QED BY <1>2, <2>3, <2>4, <3>2, AcceptAdvances
      <4> QED BY <3>2, <4>1 DEF ProposerOK
    <3> QED BY <2>5, <3>1, <3>2
  <2>8. ASSUME NEW k \in Server PROVE ProposerAt(k)'
    <3>1. CASE k # n
      <4>1. /\ promises'[k] = promises[k] /\ value'[k] = value[k] /\ started'[k] = started[k]
            /\ acceptedBy'[k] = acceptedBy[k] /\ proposal'[k] = proposal[k] /\ msgs \subseteq msgs'
        BY <1>1, <2>4, <2>7, <3>1 DEF ProposerOK
      <4>2. proposal[k] # b
        BY <1>3, <3>1 DEF ProposerInv, ProposerAt
      <4>3. \A w \in Value : Request(proposal[k], w) \in msgs' => Request(proposal[k], w) \in msgs
        BY <2>4, <4>2 DEF Request
      <4> QED BY <1>6, <2>7, <4>1, <4>3, CarryProposer DEF ProposerInv
    <3>2. CASE k = n
      <4>1. /\ proposal'[n] = b /\ value'[n] = v /\ started'[n] = TRUE /\ Request(b, v) \in msgs'
            /\ lastRound'[n] = lastRound[n]
        BY <1>1, <2>4 DEF ProposerOK
      <4>2. b.proposer = n /\ b.round <= lastRound[n]
        BY <1>3 DEF ProposerInv, ProposerAt
      <4> QED BY <1>3, <2>7, <3>2, <4>1, <4>2 DEF ProposerAt
    <3> QED BY <3>1, <3>2
  <2>9. /\ NumberInv' /\ RequestInv' /\ SafeInv' /\ PromiseInv' /\ AcceptedInv' /\ LearnInv'
        /\ DecisionsAreChosen'
    <3>1. /\ {Request(b, v)} \in SUBSET Messages
          /\ \A x \in {Request(b, v)} : x.type = "AcceptRequest" /\ x.proposal = m.proposal
      BY <1>1, <1>2, <2>3 DEF Messages, Request
    <3>2. \A x \in {Request(b, v)} : x.proposal.round <= lastRound'[x.proposal.proposer]
      BY <1>1, <3>1 DEF NumberInv
    <3>3. SafeAt(v, b)'
      <4>1. \A c \in ProposalNumber : SafeAt(v, c) => SafeAt(v, c)'
        BY <2>3, <2>7, Stability
      <4>2. \A c \in ProposalNumber : c = b => SafeAt(v, c)'
        BY <2>2, <4>1
      <4> QED BY <1>1, <1>2, <4>2
    <3>4. ASSUME NEW c \in ProposalNumber, NEW w \in Value, Request(c, w) \in {Request(b, v)}
          PROVE  SafeAt(w, c)' /\ \A u \in Value : Request(c, u) \in msgs' => u = w
      <4>1. c = b /\ w = v
        BY <3>4 DEF Request
      <4>2. \A u \in Value : Request(b, u) \in msgs' => u = v
        BY <2>4, <2>6 DEF Request
      <4>3. SafeAt(w, c)'
        BY <1>1, <3>3, <4>1 DEF SafeAt
      <4> QED BY <4>1, <4>2, <4>3
    <3> QED BY <1>1, <1>6, <2>4, <2>7, <3>1, <3>2, <3>4, CarryMessages
  <2> QED BY <1>7, <2>7, <2>8, <2>9 DEF PaxosInv, ProposerInv
<1> QED BY <1>8, <1>9

LEMMA PaxosInvStep == TypeOK /\ TypeOK' /\ PaxosInv /\ [Next]_vars => PaxosInv'
<1> SUFFICES ASSUME TypeOK, TypeOK', PaxosInv, [Next]_vars PROVE PaxosInv'
  OBVIOUS
<1>1. ASSUME NEW n \in Server, Propose(n) PROVE PaxosInv'
  <2>1. PICK r \in 1..MaxRound, v \in Value : StartProposal(n, r, v)
    BY <1>1 DEF Propose
  <2>2. r \in Nat \ {0}
    BY BoundAssumption
  <2> QED BY <2>1, <2>2, StartProposalStep
<1>2. ASSUME NEW n \in Server, Crash(n) PROVE PaxosInv'
  BY <1>2, CrashStep
<1>3. ASSUME NEW n \in Server, NEW m \in msgs, Deliver(n, m) PROVE PaxosInv'
  BY <1>3, ReceivePrepareStep, ReceivePromiseStep, ReceiveAcceptRequestStep,
     ReceiveAcceptedStep, ReceiveLearnStep DEF Deliver
<1>4. CASE UNCHANGED vars
  <2>1. /\ UNCHANGED <<acceptor, lastRound, msgs>> /\ UNCHANGED <<learned, chosen>>
        /\ UNCHANGED <<proposal, value, promises, started, acceptedBy>>
    BY <1>4 DEF vars, proposer
  <2>2. /\ AcceptorsAdvance /\ AcceptorInv'
        /\ NumberInv' /\ RequestInv' /\ SafeInv' /\ PromiseInv' /\ AcceptedInv' /\ LearnInv'
        /\ DecisionsAreChosen'
    BY <2>1, SilentStep
  <2>3. \A k \in Server : lastRound[k] <= lastRound'[k]
    BY <2>1 DEF TypeOK, DecisionOK
  <2>4. ProposerInv'
    BY <2>1, <2>2, <2>3, CarryProposer DEF PaxosInv, ProposerInv
  <2>5. HeldPromiseInv'
    BY <2>1, <2>2, CarryHeldPromises DEF PaxosInv, HeldPromiseInv
  <2> QED BY <2>2, <2>4, <2>5 DEF PaxosInv
<1> QED BY <1>1, <1>2, <1>3, <1>4 DEF Next

LEMMA PaxosInvHolds == Spec => []PaxosInv
<1>1. Init => PaxosInv
  BY DEF Init, PaxosInv, AcceptorInv, AcceptorAt, ProposerInv, ProposerAt, NumberInv, RequestInv,
         SafeInv, PromiseInv, HeldPromiseInv, AcceptedInv, LearnInv, DecisionsAreChosen
<1> QED BY <1>1, PaxosInvStep, TypeCorrect, PTL DEF Spec

-----------------------------------------------------------------------------
(* The properties *)

\* The durable histories never hold majorities for two values, whatever is lost,
\* duplicated or delayed and whoever crashes: PaxosSafetyHarness.checkpoint finds at most
\* one chosen value.
THEOREM OneValueIsChosen == Spec => []Agreement
<1>1. TypeOK /\ PaxosInv => Agreement
  BY ChosenAgree DEF TypeOK, PaxosInv
<1> QED BY <1>1, TypeCorrect, PaxosInvHolds, PTL

\* Every decision that a learner or the cluster holds has its durable majority.
THEOREM DecisionsHaveMajorities == Spec => []DecisionsAreChosen
<1>1. PaxosInv => DecisionsAreChosen
  BY DEF PaxosInv
<1> QED BY <1>1, PaxosInvHolds, PTL

\* No acceptor ever breaks a promise that some proposer has counted or may yet receive.
THEOREM PromisesStayKept == Spec => []PromisesAreKept
<1>1. PaxosInv => PromisesAreKept
  BY DEF PaxosInv, PromiseInv, HeldPromiseInv, PromiseTrue, PromisesAreKept
<1> QED BY <1>1, PaxosInvHolds, PTL

\* No handler of paxos.py ever reaches one of its PaxosSafetyViolation branches.
THEOREM HandlersNeverRaise == Spec => []NoSafetyViolation
<1>1. ASSUME TypeOK, PaxosInv PROVE NoSafetyViolation
  <2> /\ AcceptorOK /\ ProposerOK /\ DecisionOK /\ AcceptorInv /\ ProposerInv /\ RequestInv
      /\ HeldPromiseInv /\ AcceptedInv /\ LearnInv /\ DecisionsAreChosen /\ Agreement
    BY <1>1, ChosenAgree DEF TypeOK, PaxosInv
  <2>1. \A a \in Server : \A e \in acceptHistory[a] :
            /\ e \in AcceptedValue /\ e.proposal \in ProposalNumber /\ e.value \in Value
            /\ e = Entry(e.proposal, e.value) /\ Request(e.proposal, e.value) \in msgs
    BY DEF AcceptorOK, AcceptorInv, AcceptorAt, AcceptedValue, Entry
  <2>2. \A a, c \in Server : \A e \in acceptHistory[a], f \in acceptHistory[c] :
            e.proposal = f.proposal => e = f
    <3> SUFFICES ASSUME NEW a \in Server, NEW c \in Server, NEW e \in acceptHistory[a],
                        NEW f \in acceptHistory[c], e.proposal = f.proposal
                 PROVE  e = f
      OBVIOUS
    <3>1. e.value = f.value
      BY <2>1 DEF RequestInv
    <3> QED BY <2>1, <3>1
  <2>3. ASSUME NEW n \in Server, NEW m \in msgs
        PROVE  /\ m.type = "AcceptRequest" /\ accepted[n].proposal = m.proposal => accepted[n].value = m.value
               /\ m.type = "Accepted" /\ m.proposal = proposal[n] /\ started[n] => m.value = value[n]
               /\ m.type = "Learn" /\ learned[n] # Nothing => learned[n].value = m.value
               /\ m.type = "Learn" /\ chosen # Nothing => chosen.value = m.value
    <3>1. ASSUME m.type = "AcceptRequest", accepted[n].proposal = m.proposal
          PROVE  accepted[n].value = m.value
      <4>1. m = Request(m.proposal, m.value) /\ m.proposal \in ProposalNumber /\ m.value \in Value
        BY <3>1 DEF DecisionOK, Messages, Request
      <4>2. accepted[n] \in acceptHistory[n]
        BY <3>1, <4>1, NoProposalIsLowest DEF AcceptorInv, AcceptorAt, Nothing
      <4> QED BY <2>1, <3>1, <4>1, <4>2 DEF RequestInv
    <3>2. ASSUME m.type = "Accepted", m.proposal = proposal[n], started[n]
          PROVE  m.value = value[n]
      <4>1. m.acceptor \in Server /\ m.proposal \in ProposalNumber /\ m.value \in Value
        BY <3>2 DEF DecisionOK, Messages
      <4>2. Request(m.proposal, m.value) \in msgs
        BY <2>1, <3>2, <4>1 DEF AcceptedInv, Entry
      <4>3. Request(m.proposal, value[n]) \in msgs /\ value[n] \in Value
        BY <3>2, <4>1, NoProposalIsLowest DEF ProposerInv, ProposerAt, ProposerOK
      <4> QED BY <4>1, <4>2, <4>3 DEF RequestInv
    <3>3. ASSUME m.type = "Learn", NEW d \in ChosenEntries PROVE d.value = m.value
      <4>1. Entry(m.proposal, m.value) \in ChosenEntries
        BY <3>3 DEF LearnInv
      <4> QED BY <4>1 DEF Agreement, Entry
    <3> QED BY <3>1, <3>2, <3>3 DEF DecisionsAreChosen
  <2>4. ASSUME NEW n \in Server, NEW p \in Highest(promises[n]), NEW q \in Highest(promises[n])
        PROVE  p.accepted.value = q.accepted.value
    <3>1. /\ p \in promises[n] /\ q \in promises[n]
          /\ ~Less(p.accepted.proposal, q.accepted.proposal)
          /\ ~Less(q.accepted.proposal, p.accepted.proposal)
      BY DEF Highest
    <3>2. \A x \in promises[n] : /\ x.acceptor \in Server
                                 /\ x.accepted = Nothing \/ x.accepted \in acceptHistory[x.acceptor]
      BY DEF ProposerOK, PromiseOf, HeldPromiseInv, PromiseTrue
    <3>3. \A x \in promises[n] : x.accepted.proposal \in Numbers
      BY <2>1, <3>2 DEF Nothing, Numbers
    <3>4. p.accepted.proposal = q.accepted.proposal
      BY <3>1, <3>3, NumberOrder
    <3>5. CASE p.accepted = Nothing \/ q.accepted = Nothing
      <4>1. p.accepted = Nothing /\ q.accepted = Nothing
        BY <2>1, <3>1, <3>2, <3>4, <3>5, NoProposalIsLowest DEF Nothing
      <4> QED BY <4>1
    <3>6. CASE p.accepted # Nothing /\ q.accepted # Nothing
      BY <2>2, <3>1, <3>2, <3>4, <3>6
    <3> QED BY <3>5, <3>6
  <2>5. ASSUME NEW n \in Server
        PROVE  /\ ~Less(promised[n], accepted[n].proposal)
               /\ accepted[n] # Nothing => accepted[n] \in acceptHistory[n]
    <3>1. promised[n] \in Numbers
      BY DEF AcceptorOK, Numbers
    <3> QED BY <3>1, NoProposalIsLowest DEF AcceptorInv, AcceptorAt, Nothing
  <2> QED BY <2>2, <2>3, <2>4, <2>5 DEF NoSafetyViolation
<1> QED BY <1>1, TypeCorrect, PaxosInvHolds, PTL

-----------------------------------------------------------------------------
(* Paxos implements Consensus *)

LEMMA HistoryGrows ==
    ASSUME TypeOK, Next
    PROVE  \A a \in Server : acceptHistory[a] \subseteq acceptHistory'[a]
<1> AcceptorOK
  BY DEF TypeOK
<1> USE DEF acceptor, AcceptorOK
<1>1. ASSUME NEW n \in Server, Propose(n) \/ Crash(n) PROVE UNCHANGED acceptHistory
  BY <1>1 DEF Propose, StartProposal, Crash
<1>2. ASSUME NEW n \in Server, NEW m \in msgs, Deliver(n, m)
      PROVE  \A a \in Server : acceptHistory[a] \subseteq acceptHistory'[a]
  BY <1>2 DEF Deliver, ReceivePrepare, ReceivePromise, StartAcceptPhase, Accept,
              ReceiveAcceptRequest, ReceiveAccepted, ReceiveLearn
<1> QED BY <1>1, <1>2 DEF Next

\* A step teaches one node at most, once, and then accepts nothing.
LEMMA LearningSteps ==
    ASSUME TypeOK, Next
    PROVE  \/ UNCHANGED learned
           \/ \E n \in Server : /\ learned[n] = Nothing
                                /\ \E d : learned' = [learned EXCEPT ![n] = d]
                                /\ UNCHANGED acceptHistory
<1> DEFINE Teaches(n) == /\ learned[n] = Nothing
                         /\ \E d : learned' = [learned EXCEPT ![n] = d]
                         /\ UNCHANGED acceptHistory
<1>1. ASSUME NEW n \in Server, NEW d, LearnDecision(n, d), UNCHANGED acceptHistory
      PROVE  UNCHANGED learned \/ Teaches(n)
  <2>1. CASE learned[n] = Nothing
    BY <1>1, <2>1 DEF LearnDecision
  <2>2. CASE learned[n] # Nothing
    BY <1>1, <2>2 DEF LearnDecision, TypeOK, DecisionOK
  <2> QED BY <2>1, <2>2
<1>2. ASSUME NEW n \in Server, Propose(n) \/ Crash(n) PROVE UNCHANGED learned
  BY <1>2 DEF Propose, StartProposal, Crash
<1>3. ASSUME NEW n \in Server, NEW m \in msgs, Deliver(n, m) PROVE UNCHANGED learned \/ Teaches(n)
  <2>1. CASE ReceivePrepare(n, m) \/ ReceivePromise(n, m) \/ ReceiveAcceptRequest(n, m)
    BY <2>1 DEF ReceivePrepare, ReceivePromise, ReceiveAcceptRequest
  <2>2. CASE ReceiveAccepted(n, m)
    <3>1. UNCHANGED acceptHistory
      BY <2>2 DEF ReceiveAccepted, acceptor
    <3>2. UNCHANGED learned \/ \E d : LearnDecision(n, d)
      BY <2>2 DEF ReceiveAccepted
    <3> QED BY <1>1, <3>1, <3>2
  <2>3. CASE ReceiveLearn(n, m)
    BY <1>1, <2>3 DEF ReceiveLearn, acceptor
  <2> QED BY <1>3, <2>1, <2>2, <2>3 DEF Deliver
<1> QED BY <1>2, <1>3 DEF Next

\* Every step of the protocol chooses a value when none is chosen, teaches one node the
\* chosen value, or changes neither: paxos.py implements one decree of consensus.
THEOREM PaxosImplementsConsensus == Spec => ImplementsConsensus
<1>1. Init => Decree!Init
  <2> SUFFICES ASSUME Init PROVE Decree!Init
    OBVIOUS
  <2>1. ChosenValues = {}
    BY DEF Init, ChosenValues, ChosenEntries
  <2>2. [n \in Server |-> learned[n].value] = [n \in Server |-> None]
    BY DEF Init, Nothing
  <2> QED BY <2>1, <2>2 DEF Decree!Init
<1>2. ASSUME TypeOK, TypeOK', PaxosInv', Agreement', [Next]_vars PROVE [Decree!Next]_(Decree!vars)
  <2> DEFINE told == [n \in Server |-> learned[n].value]
  <2>1. CASE UNCHANGED vars
    <3>1. UNCHANGED <<acceptHistory, learned>>
      BY <2>1 DEF vars, acceptor
    <3>2. ChosenValues' = ChosenValues
      BY <3>1 DEF ChosenValues, ChosenEntries, Acceptors
    <3> QED BY <3>1, <3>2 DEF Decree!vars
  <2>2. CASE Next
    <3>1. \A a \in Server : acceptHistory[a] \subseteq acceptHistory'[a]
      BY <1>2, <2>2, HistoryGrows
    <3>2. CASE UNCHANGED learned
      <4>1. told' = told
        BY <3>2
      <4>2. ChosenEntries \subseteq ChosenEntries'
        BY <3>1, ChosenStable
      <4>3. Agreement' /\ ChosenEntries' \subseteq AcceptedValue
        BY <1>2 DEF TypeOK, AcceptorOK, ChosenEntries
      <4>4. CASE ChosenEntries' = {}
        <5>1. ChosenValues = {} /\ ChosenValues' = {}
          BY <4>2, <4>4 DEF ChosenValues
        <5> QED BY <4>1, <5>1 DEF Decree!vars
      <4>5. CASE ChosenEntries' # {}
        <5>1. PICK e \in ChosenEntries' : TRUE
          BY <4>5
        <5>2. e.value \in Value /\ ChosenValues' = {e.value}
          BY <4>3, <5>1 DEF Agreement, ChosenValues, AcceptedValue
        <5>3. ChosenValues = {} \/ ChosenValues = {e.value}
          BY <4>2, <4>3, <5>1 DEF Agreement, ChosenValues
        <5>4. CASE ChosenValues = {e.value}
          BY <4>1, <5>2, <5>4 DEF Decree!vars
        <5>5. CASE ChosenValues = {}
          BY <4>1, <5>2, <5>5 DEF Decree!Next, Decree!Choose
        <5> QED BY <5>3, <5>4, <5>5
      <4> QED BY <4>4, <4>5
    <3>3. CASE learned' # learned
      <4>1. PICK n \in Server : /\ learned[n] = Nothing
                                /\ \E d : learned' = [learned EXCEPT ![n] = d]
                                /\ UNCHANGED acceptHistory
        BY <1>2, <2>2, <3>3, LearningSteps
      <4>2. PICK d : learned' = [learned EXCEPT ![n] = d]
        BY <4>1
      <4>3. learned'[n] = d /\ d # Nothing
        BY <1>2, <3>3, <4>1, <4>2 DEF TypeOK, DecisionOK
      <4>4. ChosenEntries' = ChosenEntries
        BY <4>1 DEF ChosenEntries, Acceptors
      <4>5. d \in ChosenEntries /\ ChosenValues' = ChosenValues
        BY <1>2, <4>3, <4>4 DEF PaxosInv, DecisionsAreChosen, ChosenValues
      <4>6. d.value \in ChosenValues
        BY <4>5 DEF ChosenValues
      <4>7. told[n] = None /\ told' = [told EXCEPT ![n] = d.value]
        <5>1. \A k \in Server : learned'[k] = IF k = n THEN d ELSE learned[k]
          BY <1>2, <4>2 DEF TypeOK, DecisionOK
        <5>2. told[n] = None
          BY <4>1 DEF Nothing
        <5>3. told' = [k \in Server |-> IF k = n THEN d.value ELSE told[k]]
          BY <5>1
        <5> QED BY <5>2, <5>3
      <4>8. Decree!Learn(n)
        BY <4>5, <4>6, <4>7 DEF Decree!Learn
      <4> QED BY <4>8 DEF Decree!Next
    <3> QED BY <3>2, <3>3
  <2> QED BY <1>2, <2>1, <2>2
<1> QED BY <1>1, <1>2, TypeCorrect, PaxosInvHolds, OneValueIsChosen, PTL DEF Spec, ImplementsConsensus, Decree!Spec
=============================================================================
