---------------------------- MODULE PaxosLogProofs ----------------------------
(* Proofs about PaxosLog, for any finite cluster of two or more nodes, any finite set of    *)
(* slots and any number of rounds and proposals.                                            *)
EXTENDS PaxosLog, WellFoundedInduction, FiniteSetTheorems, TLAPS

-----------------------------------------------------------------------------
(* Proposal numbers and majorities *)

LEMMA NumberOrder ==
    ASSUME NEW p \in Numbers, NEW q \in Numbers, NEW r \in Numbers
    PROVE  /\ ~Less(p, p)
           /\ Less(p, q) \/ p = q \/ Less(q, p)
           /\ Less(p, q) => ~Less(q, p)
           /\ Less(p, q) /\ Less(q, r) => Less(p, r)
           /\ ~Less(q, p) /\ Less(q, r) => Less(p, r)
           /\ ~Less(q, p) /\ ~Less(r, q) => ~Less(r, p)
<1>1. \A x \in Numbers : x.round \in Nat /\ x.proposer \in Nat
  <2>1. \A x \in ProposalNumber : x.round \in Nat /\ x.proposer \in Nat
    BY ConstantAssumption DEF ProposalNumber
  <2> QED BY <2>1 DEF Numbers, NoProposal
<1>2. ASSUME p.round = q.round, p.proposer = q.proposer PROVE p = q
  <2>1. CASE p \in ProposalNumber /\ q \in ProposalNumber
    BY <1>2, <2>1 DEF ProposalNumber
  <2>2. CASE p = NoProposal \/ q = NoProposal
    BY <1>2, <2>2 DEF Numbers, ProposalNumber, NoProposal
  <2> QED BY <2>1, <2>2 DEF Numbers
<1> QED BY <1>1, <1>2 DEF Less

LEMMA NoProposalIsLowest ==
    /\ NoProposal \notin ProposalNumber
    /\ \A p \in ProposalNumber : Less(NoProposal, p)
    /\ \A p \in Numbers : ~Less(p, NoProposal)
BY ConstantAssumption DEF Numbers, ProposalNumber, NoProposal, Less

LEMMA QuorumsMeet ==
    ASSUME NEW P \in SUBSET Server, NEW Q \in SUBSET Server, IsQuorum(P), IsQuorum(Q)
    PROVE  \E n \in P : n \in Q
<1> IsFiniteSet(Server)
  BY ConstantAssumption
<1>1. /\ IsFiniteSet(P) /\ IsFiniteSet(Q)
      /\ Cardinality(P) \in Nat /\ Cardinality(Q) \in Nat /\ Cardinality(Server) \in Nat
  BY FS_Subset, FS_CardinalityType
<1>2. Cardinality(P) + Cardinality(Q) > Cardinality(Server)
  BY <1>1 DEF IsQuorum
<1> QED BY <1>1, <1>2, FS_MajoritiesIntersect

LEMMA QuorumGrows ==
    ASSUME NEW P \in SUBSET Server, NEW Q \in SUBSET Server, P \subseteq Q, IsQuorum(P)
    PROVE  IsQuorum(Q)
<1>1. IsFiniteSet(Q) /\ IsFiniteSet(P) /\ Cardinality(P) <= Cardinality(Q)
  BY FS_Subset, ConstantAssumption
<1>2. Cardinality(P) \in Nat /\ Cardinality(Q) \in Nat /\ Cardinality(Server) \in Nat
  BY <1>1, FS_CardinalityType, ConstantAssumption
<1> QED BY <1>1, <1>2 DEF IsQuorum

LEMMA QuorumIsInhabited ==
    ASSUME NEW P \in SUBSET Server, IsQuorum(P)
    PROVE  P # {}
BY QuorumsMeet

LessThan == {p \in Nat \X Nat : p[1] < p[2]}

LEMMA LessThanWellFounded == IsWellFoundedOn(LessThan, Nat)
<1>1. LessThan = OpToRel(<, Nat)
  BY DEF LessThan, OpToRel
<1> QED BY <1>1, NatLessThanWellFounded

\* A set of naturals that has a member has a least one.
LEMMA Least ==
    ASSUME NEW T \in SUBSET Nat, T # {}
    PROVE  \E x \in T : \A y \in T : x <= y
<1>1. PICK x \in T : \A y \in T : ~ (<<y, x>> \in LessThan)
  BY LessThanWellFounded, WFMin
<1>2. \A y \in T : x <= y
  <2> TAKE y \in T
  <2>1. x \in Nat /\ y \in Nat
    OBVIOUS
  <2>2. ~ (y < x)
    <3> SUFFICES ASSUME y < x PROVE FALSE
      OBVIOUS
    <3>1. <<y, x>> \in LessThan
      BY <2>1 DEF LessThan
    <3> QED BY <3>1, <1>1
  <2> QED BY <2>1, <2>2
<1> QED BY <1>2

\* A bounded set of naturals that has a member has a greatest one.
LEMMA Greatest ==
    ASSUME NEW S \in SUBSET Nat, S # {}, NEW b \in Nat, \A i \in S : i <= b
    PROVE  \E i \in S : \A j \in S : j <= i
<1> DEFINE below == {b - i : i \in S}
<1>1. below \in SUBSET Nat /\ below # {}
  <2>1. \A i \in S : b - i \in Nat
    OBVIOUS
  <2> QED BY <2>1
<1>2. PICK d \in below : \A e \in below : d <= e
  BY <1>1, Least
<1>3. PICK i \in S : d = b - i
  BY <1>2
<1>4. ASSUME NEW j \in S PROVE j <= i
  <2>1. b - i <= b - j
    BY <1>2, <1>3
  <2> QED BY <2>1
<1> QED BY <1>4

\* Among proposal numbers, too.
LEMMA LowestNumber ==
    ASSUME NEW S \in SUBSET Numbers, S # {}
    PROVE  \E p \in S : \A q \in S : ~Less(q, p)
<1>0. \A p \in S : p.round \in Nat /\ p.proposer \in Nat
  <2>1. \A p \in ProposalNumber : p.round \in Nat /\ p.proposer \in Nat
    BY ConstantAssumption DEF ProposalNumber
  <2> QED BY <2>1 DEF Numbers, NoProposal
<1>1. PICK r \in {p.round : p \in S} : \A q \in {p.round : p \in S} : r <= q
  <2>1. {p.round : p \in S} \in SUBSET Nat /\ {p.round : p \in S} # {}
    BY <1>0
  <2> QED BY <2>1, Least
<1> DEFINE T == {p \in S : p.round = r}
<1>2. PICK i \in {p.proposer : p \in T} : \A j \in {p.proposer : p \in T} : i <= j
  <2>1. {p.proposer : p \in T} \in SUBSET Nat /\ {p.proposer : p \in T} # {}
    BY <1>0, <1>1
  <2> QED BY <2>1, Least
<1>3. PICK p \in T : p.proposer = i
  BY <1>2
<1>4. ASSUME NEW q \in S, Less(q, p) PROVE FALSE
  <2>1. r <= q.round /\ p.round = r
    BY <1>1
  <2>2. q.round = r /\ q.proposer < p.proposer
    BY <1>0, <1>4, <2>1 DEF Less
  <2>3. i <= q.proposer
    BY <1>2, <2>2
  <2> QED BY <1>0, <1>3, <2>2, <2>3
<1> QED BY <1>3, <1>4

-----------------------------------------------------------------------------
(* Type correctness *)

ProposalState == [number : Numbers, value : Value \cup {None}, started : BOOLEAN,
                  promises : SUBSET PromiseOf, acceptedBy : SUBSET Server]

\* A proposal that runs has a value, and nobody accepts it before its accept phase.
Sound(p) == (p.number # NoProposal => p.value \in Value) /\ (~p.started => p.acceptedBy = {})

\* What does not fit into one set: numbers are allocated on disk before they are used.
NumberingOK ==
    /\ IsFiniteSet(numbers)
    /\ \A p \in numbers : p.number.round <= lastRound[p.number.proposer]
    /\ \A m \in msgs : m.body.type = "Prepare" => [slot |-> m.slot, number |-> m.body.proposal] \in numbers
    /\ \A n \in Server, s \in Slot : Sound(proposals[n][s])

LogOK == TypeOK /\ NumberingOK

LEMMA IdleIsAProposal ==
    /\ Idle \in ProposalState /\ Idle.number = NoProposal /\ Idle.value = None
    /\ Idle.promises = {} /\ Idle.started = FALSE /\ Idle.acceptedBy = {}
    /\ Sound(Idle)
BY DEF Idle, ProposalState, Numbers, Sound

\* An update of one slot of one node keeps the type of a table.
LEMMA SetType ==
    ASSUME NEW T, NEW f \in [Server -> [Slot -> T]], NEW n \in Server, NEW s \in Slot, NEW x \in T
    PROVE  /\ Set(f, n, s, x) \in [Server -> [Slot -> T]]
           /\ Set(f, n, s, x)[n][s] = x
           /\ \A k \in Server, u \in Slot : k # n \/ u # s => Set(f, n, s, x)[k][u] = f[k][u]
BY DEF Set

LEMMA SetProposal ==
    ASSUME proposals \in [Server -> [Slot -> ProposalState]], NEW n \in Server, NEW s \in Slot,
           NEW x \in ProposalState, proposals' = Set(proposals, n, s, x)
    PROVE  /\ proposals' \in [Server -> [Slot -> ProposalState]]
           /\ proposals'[n][s] = x
           /\ \A k \in Server, u \in Slot : k # n \/ u # s => proposals'[k][u] = proposals[k][u]
BY DEF Set

\* A step of one proposal that leaves its value, if it runs, keeps every running proposal's.
LEMMA SetProposalValues ==
    ASSUME LogOK, NEW n \in Server, NEW s \in Slot, NEW x \in ProposalState,
           proposals' = Set(proposals, n, s, x), Sound(x)
    PROVE  /\ proposals' \in [Server -> [Slot -> ProposalState]]
           /\ \A k \in Server, u \in Slot : Sound(proposals'[k][u])
<1>1. proposals \in [Server -> [Slot -> ProposalState]]
  BY DEF LogOK, TypeOK, ProposalState
<1>2. /\ proposals' \in [Server -> [Slot -> ProposalState]]
      /\ proposals'[n][s] = x
      /\ \A k \in Server, u \in Slot : k # n \/ u # s => proposals'[k][u] = proposals[k][u]
  BY <1>1, SetProposal
<1>3. ASSUME NEW k \in Server, NEW u \in Slot PROVE Sound(proposals'[k][u])
  <2>1. CASE k = n /\ u = s
    BY <1>2, <1>3, <2>1
  <2>2. CASE k # n \/ u # s
    <3>1. proposals'[k][u] = proposals[k][u]
      BY <1>2, <2>2
    <3> QED BY <1>3, <3>1 DEF LogOK, NumberingOK
  <2> QED BY <2>1, <2>2
<1> QED BY <1>2, <1>3

\* When some promise reports an accepted value, the values to propose are real.
LEMMA ProposedValues ==
    ASSUME NEW S \in SUBSET PromiseOf, NEW original \in Value, NEW v \in ValuesToPropose(S, original)
    PROVE  v \in Value
BY DEF ValuesToPropose, PromiseOf, MaybeAccepted, AcceptedValue

LEMMA AcceptType ==
    ASSUME TypeOK, NEW n \in Server, NEW s \in Slot, NEW b \in ProposalNumber, NEW v \in Value,
           Accept(n, s, b, v)
    PROVE  /\ promised' \in [Server -> [Slot -> Numbers]]
           /\ accepted' \in [Server -> [Slot -> MaybeAccepted]]
           /\ acceptHistory' \in [Server -> SUBSET [slot : Slot, entry : AcceptedValue]]
<1>1. [proposal |-> b, value |-> v] \in AcceptedValue
  BY DEF AcceptedValue
<1>2. promised' \in [Server -> [Slot -> Numbers]]
  BY SetType DEF Accept, TypeOK, Numbers
<1>3. accepted' \in [Server -> [Slot -> MaybeAccepted]]
  BY <1>1, SetType DEF Accept, TypeOK, MaybeAccepted
<1>4. acceptHistory' \in [Server -> SUBSET [slot : Slot, entry : AcceptedValue]]
  BY <1>1 DEF Accept, TypeOK
<1> QED BY <1>2, <1>3, <1>4

\* A reconstruction finds an entry that a majority holds when there is one.
LEMMA RecoveredIsHeld ==
    ASSUME TypeOK, NEW s \in Slot
    PROVE  /\ ChosenBySlot(s) \subseteq AcceptedValue
           /\ ChosenBySlot(s) = {} => RecoverChosen(s) = Nothing
           /\ ChosenBySlot(s) # {} => RecoverChosen(s) \in ChosenBySlot(s)
           /\ RecoverChosen(s) = Nothing \/ RecoverChosen(s) \in AcceptedValue
<1>1. ChosenBySlot(s) \subseteq AcceptedValue
  BY DEF ChosenBySlot, TypeOK
<1>2. ASSUME ChosenBySlot(s) # {} PROVE RecoverChosen(s) \in ChosenBySlot(s)
  <2> DEFINE low == {e.proposal : e \in ChosenBySlot(s)}
  <2>1. low \in SUBSET Numbers /\ low # {}
    BY <1>1, <1>2 DEF AcceptedValue, Numbers
  <2>2. PICK p \in low : \A q \in low : ~Less(q, p)
    BY <2>1, LowestNumber
  <2>3. \E e \in ChosenBySlot(s) : \A f \in ChosenBySlot(s) : ~Less(f.proposal, e.proposal)
    BY <2>2
  <2> QED BY <1>2, <2>3 DEF RecoverChosen
<1>3. ChosenBySlot(s) = {} => RecoverChosen(s) = Nothing
  BY DEF RecoverChosen
<1> QED BY <1>1, <1>2, <1>3

LEMMA ProposeOK ==
    ASSUME LogOK, NEW n \in Server, NEW s \in Slot, NEW r \in 1..MaxRound, NEW v \in Value,
           StartProposal(n, s, r, v)
    PROVE  LogOK'
<1> TypeOK /\ NumberingOK
  BY DEF LogOK
<1> DEFINE number == [round |-> r, proposer |-> n]
           refused == Less(number, promised[n][s])
           own == IF refused THEN {} ELSE {[acceptor |-> n, accepted |-> accepted[n][s]]}
           mine == [Idle EXCEPT !.number = number, !.value = v, !.promises = own]
<1>1. r \in Nat \ {0} /\ r \in 0..MaxRound /\ number \in ProposalNumber /\ number \in Numbers
  BY ConstantAssumption DEF ProposalNumber, Numbers
<1>2. /\ r > lastRound[n]
      /\ lastRound' = [lastRound EXCEPT ![n] = r]
      /\ proposals' = Set(proposals, n, s, mine)
      /\ promised' = IF refused THEN promised ELSE Set(promised, n, s, number)
      /\ numbers' = numbers \cup {[slot |-> s, number |-> number]}
      /\ msgs' = msgs \cup {[slot |-> s, body |-> [type |-> "Prepare", proposal |-> number]]}
      /\ UNCHANGED <<accepted, acceptHistory, learned, chosen>>
  BY DEF StartProposal, Post
<1>3. own \in SUBSET PromiseOf
  BY DEF PromiseOf, TypeOK
<1> HIDE DEF own
<1>4. mine \in ProposalState /\ mine.number = number /\ mine.value = v /\ Sound(mine)
  BY <1>1, <1>3 DEF Idle, ProposalState, Sound
<1> HIDE DEF mine
<1>5. proposals' \in [Server -> [Slot -> ProposalState]]
  BY <1>2, <1>4, SetType DEF TypeOK, ProposalState
<1>6. promised' \in [Server -> [Slot -> Numbers]]
  BY <1>1, <1>2, SetType DEF TypeOK
<1>7. lastRound' \in [Server -> 0..MaxRound]
  BY <1>1, <1>2 DEF TypeOK
<1>8. [slot |-> s, body |-> [type |-> "Prepare", proposal |-> number]] \in [slot : Slot, body : Body]
  BY <1>1 DEF Body
<1>9. TypeOK'
  BY <1>1, <1>2, <1>5, <1>6, <1>7, <1>8 DEF TypeOK, ProposalState
<1>10. IsFiniteSet(numbers')
  BY <1>2, FS_AddElement DEF NumberingOK
<1>11. ASSUME NEW p \in numbers' PROVE p.number.round <= lastRound'[p.number.proposer]
  <2>1. CASE p \in numbers
    <3>1. p.number.round \in Nat /\ p.number.proposer \in Server
      BY <2>1 DEF TypeOK, ProposalNumber
    <3>2. p.number.round <= lastRound[p.number.proposer] /\ lastRound[p.number.proposer] \in Nat
      BY <2>1, <3>1 DEF NumberingOK, TypeOK
    <3>3. lastRound'[p.number.proposer] = IF p.number.proposer = n THEN r ELSE lastRound[p.number.proposer]
      BY <1>2, <3>1 DEF TypeOK
    <3> QED BY <1>1, <1>2, <3>1, <3>2, <3>3
  <2>2. CASE p = [slot |-> s, number |-> number]
    BY <1>1, <1>2, <2>2 DEF TypeOK
  <2> QED BY <1>2, <2>1, <2>2
<1>12. \A m \in msgs' : m.body.type = "Prepare" => [slot |-> m.slot, number |-> m.body.proposal] \in numbers'
  BY <1>2 DEF NumberingOK
<1>13. \A k \in Server, u \in Slot : Sound(proposals'[k][u])
  BY <1>2, <1>4, SetProposalValues
<1> QED BY <1>9, <1>10, <1>11, <1>12, <1>13 DEF LogOK, NumberingOK

\* A step that allocates no number: it keeps LogOK when it sends no prepare, and the
\* proposals that run keep a value.
LEMMA CarryNumbering ==
    ASSUME LogOK, lastRound' = lastRound, numbers' = numbers,
           \A m \in msgs' : m \in msgs \/ m.body.type # "Prepare",
           \A k \in Server, u \in Slot : Sound(proposals'[k][u])
    PROVE  NumberingOK'
BY DEF LogOK, NumberingOK

LEMMA PromiseOK ==
    ASSUME LogOK, NEW n \in Server, NEW s \in Slot, NEW m, [slot |-> s, body |-> m] \in msgs,
           ReceivePromise(n, s, m)
    PROVE  LogOK'
<1> TypeOK /\ NumberingOK
  BY DEF LogOK
<1> DEFINE mine == proposals[n][s]
           got == mine.promises \cup {[acceptor |-> m.acceptor, accepted |-> m.accepted]}
<1>1. /\ m.type = "Promise" /\ m.proposal = mine.number
      /\ UNCHANGED <<learned, lastRound, chosen, numbers>>
  BY DEF ReceivePromise
<1>2. m \in Body /\ m.proposal \in ProposalNumber /\ m.acceptor \in Server /\ m.accepted \in MaybeAccepted
  <2>1. m \in Body
    BY DEF TypeOK
  <2> QED BY <1>1, <2>1 DEF Body
<1>3. proposals \in [Server -> [Slot -> ProposalState]] /\ mine \in ProposalState
  BY DEF TypeOK, ProposalState
<1>4. got \in SUBSET PromiseOf
  BY <1>2, <1>3 DEF PromiseOf, ProposalState
<1>5. mine.number # NoProposal /\ mine.value \in Value /\ mine.number \in ProposalNumber
  BY <1>1, <1>2, NoProposalIsLowest DEF NumberingOK, Sound
<1>s. mine.acceptedBy = {}
  BY DEF ReceivePromise, NumberingOK, Sound
<1>6. CASE ~IsQuorum({p.acceptor : p \in got})
  <2> DEFINE next == [mine EXCEPT !.promises = got]
  <2>1. proposals' = Set(proposals, n, s, next) /\ UNCHANGED <<acceptor, msgs>>
    BY <1>6 DEF ReceivePromise
  <2>2. next \in ProposalState /\ Sound(next)
    BY <1>3, <1>4, <1>5, <1>s DEF ProposalState, Sound
  <2> HIDE DEF next
  <2>3. /\ proposals' \in [Server -> [Slot -> ProposalState]]
        /\ \A k \in Server, u \in Slot : Sound(proposals'[k][u])
    BY <2>1, <2>2, SetProposalValues
  <2>4. NumberingOK'
    <3>2. msgs' = msgs
      BY <2>1
    <3> QED BY <1>1, <2>3, <3>2, CarryNumbering
  <2> QED BY <1>1, <2>1, <2>3, <2>4 DEF LogOK, TypeOK, ProposalState, acceptor
<1>7. CASE IsQuorum({p.acceptor : p \in got})
  <2> DEFINE refused == Less(mine.number, promised[n][s])
  <2>1. PICK v \in ValuesToPropose(got, mine.value) :
            /\ proposals' = Set(proposals, n, s,
                   [mine EXCEPT !.promises = got, !.value = v, !.started = TRUE,
                                !.acceptedBy = IF refused THEN {} ELSE {n}])
            /\ IF refused THEN UNCHANGED acceptor ELSE Accept(n, s, mine.number, v)
            /\ Post(s, [type |-> "AcceptRequest", proposal |-> mine.number, value |-> v])
    BY <1>7 DEF ReceivePromise
  <2> DEFINE next == [mine EXCEPT !.promises = got, !.value = v, !.started = TRUE,
                                  !.acceptedBy = IF refused THEN {} ELSE {n}]
             new == [slot |-> s, body |-> [type |-> "AcceptRequest", proposal |-> mine.number, value |-> v]]
  <2>2. v \in Value
    BY <1>4, <1>5, ProposedValues
  <2>3. next \in ProposalState /\ Sound(next)
    BY <1>3, <1>4, <2>2 DEF ProposalState, Sound
  <2>4. proposals' = Set(proposals, n, s, next) /\ msgs' = msgs \cup {new}
    BY <2>1 DEF Post
  <2>5. new \in [slot : Slot, body : Body] /\ new.body.type = "AcceptRequest"
    BY <1>5, <2>2 DEF Body
  <2>6. /\ promised' \in [Server -> [Slot -> Numbers]]
        /\ accepted' \in [Server -> [Slot -> MaybeAccepted]]
        /\ acceptHistory' \in [Server -> SUBSET [slot : Slot, entry : AcceptedValue]]
    <3>1. CASE refused
      BY <2>1, <3>1 DEF acceptor, TypeOK
    <3>2. CASE ~refused
      BY <1>5, <2>1, <2>2, <3>2, AcceptType
    <3> QED BY <3>1, <3>2
  <2> HIDE DEF next, new
  <2>7. /\ proposals' \in [Server -> [Slot -> ProposalState]]
        /\ \A k \in Server, u \in Slot : Sound(proposals'[k][u])
    BY <2>3, <2>4, SetProposalValues
  <2>8. NumberingOK'
    <3>2. \A x \in msgs' : x \in msgs \/ x.body.type # "Prepare"
      BY <2>4, <2>5
    <3> QED BY <1>1, <2>4, <2>7, <3>2, CarryNumbering
  <2> QED BY <1>1, <2>4, <2>5, <2>6, <2>7, <2>8 DEF LogOK, TypeOK, ProposalState
<1> QED BY <1>6, <1>7

LEMMA AcceptedOK ==
    ASSUME LogOK, NEW n \in Server, NEW s \in Slot, NEW m, [slot |-> s, body |-> m] \in msgs,
           ReceiveAccepted(n, s, m)
    PROVE  LogOK'
<1> TypeOK /\ NumberingOK
  BY DEF LogOK
<1> DEFINE mine == proposals[n][s]
           by == mine.acceptedBy \cup {m.acceptor}
           entry == [proposal |-> mine.number, value |-> mine.value]
<1>1. /\ m.type = "Accepted" /\ m.proposal = mine.number /\ mine.started
      /\ UNCHANGED <<promised, accepted, acceptHistory, lastRound, numbers>>
  BY DEF ReceiveAccepted, acceptor
<1>2. m \in Body /\ m.proposal \in ProposalNumber /\ m.acceptor \in Server
  <2>1. m \in Body
    BY DEF TypeOK
  <2> QED BY <1>1, <2>1 DEF Body
<1>3. proposals \in [Server -> [Slot -> ProposalState]] /\ mine \in ProposalState
  BY DEF TypeOK, ProposalState
<1>4. by \in SUBSET Server
  BY <1>2, <1>3 DEF ProposalState
<1>5. mine.number # NoProposal /\ mine.value \in Value /\ mine.number \in ProposalNumber
  BY <1>1, <1>2, NoProposalIsLowest DEF NumberingOK, Sound
<1>6. entry \in MaybeAccepted
  BY <1>5 DEF MaybeAccepted, AcceptedValue
<1>7. CASE IsQuorum(by)
  <2> DEFINE new == [slot |-> s, body |-> [type |-> "Learn", proposal |-> mine.number, value |-> mine.value]]
  <2>1. /\ chosen' = [chosen EXCEPT ![s] = IF @ = Nothing THEN entry ELSE @]
        /\ learned' = Set(learned, n, s, IF learned[n][s] = Nothing THEN entry ELSE learned[n][s])
        /\ proposals' = Set(proposals, n, s, Idle) /\ msgs' = msgs \cup {new}
    BY <1>7 DEF ReceiveAccepted, LearnDecision, Post
  <2>2. new \in [slot : Slot, body : Body] /\ new.body.type = "Learn"
    BY <1>5 DEF Body
  <2> HIDE DEF new, entry
  <2>3. chosen' \in [Slot -> MaybeAccepted] /\ learned' \in [Server -> [Slot -> MaybeAccepted]]
    <3>1. (IF learned[n][s] = Nothing THEN entry ELSE learned[n][s]) \in MaybeAccepted
      BY <1>6 DEF TypeOK
    <3>2. learned' \in [Server -> [Slot -> MaybeAccepted]]
      BY <2>1, <3>1, SetType DEF TypeOK
    <3> QED BY <1>6, <2>1, <3>2 DEF TypeOK
  <2>4. /\ proposals' \in [Server -> [Slot -> ProposalState]]
        /\ \A k \in Server, u \in Slot : Sound(proposals'[k][u])
    BY <2>1, IdleIsAProposal, SetProposalValues
  <2>5. NumberingOK'
    <3>2. \A x \in msgs' : x \in msgs \/ x.body.type # "Prepare"
      BY <2>1, <2>2
    <3> QED BY <1>1, <2>1, <2>4, <3>2, CarryNumbering
  <2> QED BY <1>1, <2>1, <2>2, <2>3, <2>4, <2>5 DEF LogOK, TypeOK, ProposalState
<1>8. CASE ~IsQuorum(by)
  <2> DEFINE next == [mine EXCEPT !.acceptedBy = by]
  <2>1. proposals' = Set(proposals, n, s, next) /\ UNCHANGED <<learned, chosen, msgs>>
    BY <1>8 DEF ReceiveAccepted
  <2>2. next \in ProposalState /\ Sound(next)
    BY <1>1, <1>3, <1>4, <1>5 DEF ProposalState, Sound
  <2> HIDE DEF next
  <2>3. /\ proposals' \in [Server -> [Slot -> ProposalState]]
        /\ \A k \in Server, u \in Slot : Sound(proposals'[k][u])
    BY <2>1, <2>2, SetProposalValues
  <2>4. NumberingOK'
    <3>2. msgs' = msgs
      BY <2>1
    <3> QED BY <1>1, <2>3, <3>2, CarryNumbering
  <2> QED BY <1>1, <2>1, <2>3, <2>4 DEF LogOK, TypeOK, ProposalState
<1> QED BY <1>7, <1>8

LEMMA LogOKStep == LogOK /\ [Next]_vars => LogOK'
<1> SUFFICES ASSUME LogOK, [Next]_vars PROVE LogOK'
  OBVIOUS
<1> TypeOK /\ NumberingOK
  BY DEF LogOK
<1>1. ASSUME NEW n \in Server, Propose(n) PROVE LogOK'
  <2>1. PICK s \in Slot, r \in 1..MaxRound, v \in Value : StartProposal(n, s, r, v)
    BY <1>1 DEF Propose
  <2> QED BY <2>1, ProposeOK
<1>2. ASSUME NEW n \in Server, NEW x \in msgs, Deliver(n, x.slot, x.body) PROVE LogOK'
  <2> DEFINE s == x.slot
             m == x.body
  <2>1. s \in Slot /\ m \in Body /\ x = [slot |-> s, body |-> m]
    BY DEF TypeOK
  <2> HIDE DEF s, m
  <2>p. proposals \in [Server -> [Slot -> ProposalState]]
    BY DEF TypeOK, ProposalState
  <2>2. CASE ReceivePrepare(n, s, m)
    <3> DEFINE new == [slot |-> s, body |-> [type |-> "Promise", proposal |-> m.proposal, acceptor |-> n,
                                             accepted |-> accepted[n][s]]]
    <3>1. m.proposal \in ProposalNumber /\ m.proposal \in Numbers
      BY <2>1, <2>2 DEF ReceivePrepare, Body, Numbers
    <3>2. new \in [slot : Slot, body : Body] /\ new.body.type = "Promise"
      BY <2>1, <3>1 DEF Body, TypeOK
    <3>3. promised' \in [Server -> [Slot -> Numbers]]
      BY <2>1, <2>2, <3>1, SetType DEF ReceivePrepare, TypeOK
    <3>4. /\ msgs' = msgs \cup {new}
          /\ UNCHANGED <<accepted, acceptHistory, learned, lastRound, proposals, chosen, numbers>>
      BY <2>2 DEF ReceivePrepare, Post
    <3> HIDE DEF new
    <3>5. NumberingOK'
      <4>1. \A y \in msgs' : y \in msgs \/ y.body.type # "Prepare"
        BY <3>2, <3>4
      <4>2. \A k \in Server, u \in Slot : Sound(proposals'[k][u])
        BY <3>4 DEF NumberingOK
      <4> QED BY <3>4, <4>1, <4>2, CarryNumbering
    <3> QED BY <3>2, <3>3, <3>4, <3>5 DEF LogOK, TypeOK
  <2>3. CASE ReceiveAcceptRequest(n, s, m)
    <3> DEFINE new == [slot |-> s, body |-> [type |-> "Accepted", proposal |-> m.proposal, acceptor |-> n,
                                             value |-> m.value]]
    <3>1. m.proposal \in ProposalNumber /\ m.value \in Value
      BY <2>1, <2>3 DEF ReceiveAcceptRequest, Body
    <3>2. new \in [slot : Slot, body : Body] /\ new.body.type = "Accepted"
      BY <2>1, <3>1 DEF Body, TypeOK
    <3>3. /\ promised' \in [Server -> [Slot -> Numbers]]
          /\ accepted' \in [Server -> [Slot -> MaybeAccepted]]
          /\ acceptHistory' \in [Server -> SUBSET [slot : Slot, entry : AcceptedValue]]
      BY <2>1, <2>3, <3>1, AcceptType DEF ReceiveAcceptRequest
    <3>4. /\ msgs' = msgs \cup {new}
          /\ UNCHANGED <<learned, lastRound, proposals, chosen, numbers>>
      BY <2>3 DEF ReceiveAcceptRequest, Post
    <3> HIDE DEF new
    <3>5. NumberingOK'
      <4>1. \A y \in msgs' : y \in msgs \/ y.body.type # "Prepare"
        BY <3>2, <3>4
      <4>2. \A k \in Server, u \in Slot : Sound(proposals'[k][u])
        BY <3>4 DEF NumberingOK
      <4> QED BY <3>4, <4>1, <4>2, CarryNumbering
    <3> QED BY <3>2, <3>3, <3>4, <3>5 DEF LogOK, TypeOK
  <2>4. CASE ReceiveLearn(n, s, m)
    <3>1. [proposal |-> m.proposal, value |-> m.value] \in MaybeAccepted
      BY <2>1, <2>4 DEF ReceiveLearn, Body, MaybeAccepted, AcceptedValue
    <3>2. learned' \in [Server -> [Slot -> MaybeAccepted]]
      <4> DEFINE entry == [proposal |-> m.proposal, value |-> m.value]
      <4>1. (IF learned[n][s] = Nothing THEN entry ELSE learned[n][s]) \in MaybeAccepted
        BY <2>1, <3>1 DEF TypeOK
      <4>2. learned' = Set(learned, n, s, IF learned[n][s] = Nothing THEN entry ELSE learned[n][s])
        BY <2>4 DEF ReceiveLearn, LearnDecision
      <4> HIDE DEF entry
      <4> QED BY <2>1, <4>1, <4>2, SetType DEF TypeOK
    <3>3. UNCHANGED <<promised, accepted, acceptHistory, lastRound, proposals, chosen, msgs, numbers>>
      BY <2>4 DEF ReceiveLearn, acceptor
    <3> QED BY <3>2, <3>3 DEF LogOK, TypeOK, NumberingOK
  <2>5. CASE ReceivePromise(n, s, m)
    BY <2>1, <2>5, PromiseOK
  <2>6. CASE ReceiveAccepted(n, s, m)
    BY <2>1, <2>6, AcceptedOK
  <2> QED BY <1>2, <2>2, <2>3, <2>4, <2>5, <2>6 DEF Deliver, s, m
<1>3. ASSUME NEW n \in Server, Crash(n) PROVE LogOK'
  <2>1. proposals' = [proposals EXCEPT ![n] = [s \in Slot |-> Idle]]
    BY <1>3 DEF Crash
  <2>2. UNCHANGED <<promised, accepted, acceptHistory, learned, lastRound, chosen, msgs, numbers>>
    BY <1>3 DEF Crash, acceptor
  <2>3. /\ proposals' \in [Server -> [Slot -> ProposalState]]
        /\ \A k \in Server, u \in Slot : proposals'[k][u] = proposals[k][u] \/ proposals'[k][u] = Idle
    BY <2>1, IdleIsAProposal DEF TypeOK, ProposalState
  <2>4. NumberingOK'
    <3>1. msgs' = msgs
      BY <2>2
    <3>2. \A k \in Server, u \in Slot : Sound(proposals'[k][u])
      BY <2>3, IdleIsAProposal DEF NumberingOK
    <3> QED BY <2>2, <3>1, <3>2, CarryNumbering
  <2> QED BY <2>2, <2>3, <2>4 DEF LogOK, TypeOK, ProposalState
<1>4. CASE Reconstruct
  <2>1. /\ chosen' = [s \in Slot |-> RecoverChosen(s)]
        /\ proposals' = [n \in Server |-> [s \in Slot |-> Idle]]
        /\ msgs' = {}
        /\ UNCHANGED <<promised, accepted, acceptHistory, learned, lastRound, numbers>>
    BY <1>4 DEF Reconstruct, acceptor
  <2>2. ASSUME NEW s \in Slot PROVE RecoverChosen(s) \in MaybeAccepted
    BY RecoveredIsHeld DEF MaybeAccepted
  <2>3. proposals' \in [Server -> [Slot -> ProposalState]]
    BY <2>1, IdleIsAProposal
  <2>4. NumberingOK'
    BY <2>1, IdleIsAProposal DEF NumberingOK
  <2> QED BY <2>1, <2>2, <2>3, <2>4 DEF LogOK, TypeOK, ProposalState
<1>5. CASE UNCHANGED vars
  BY <1>5 DEF vars, acceptor, LogOK, TypeOK, NumberingOK
<1> QED BY <1>1, <1>2, <1>3, <1>4, <1>5 DEF Next

LEMMA InitOK == Init => LogOK
<1> SUFFICES ASSUME Init PROVE LogOK
  OBVIOUS
<1>1. Everywhere(NoProposal) \in [Server -> [Slot -> Numbers]]
  BY DEF Everywhere, Numbers
<1>2. Everywhere(Nothing) \in [Server -> [Slot -> MaybeAccepted]]
  BY DEF Everywhere, MaybeAccepted
<1>3. Everywhere(Idle) \in [Server -> [Slot -> ProposalState]] /\ \A n \in Server, s \in Slot : Everywhere(Idle)[n][s] = Idle
  BY IdleIsAProposal DEF Everywhere
<1>4. IsFiniteSet({})
  BY FS_EmptySet
<1> HIDE DEF Everywhere
<1>5. TypeOK
  BY <1>1, <1>2, <1>3, ConstantAssumption DEF Init, TypeOK, ProposalState, MaybeAccepted
<1> QED BY <1>3, <1>4, <1>5, IdleIsAProposal DEF Init, LogOK, NumberingOK

\* The types hold for every cluster, every set of slots and every number of proposals and
\* reconstructions: what a node of paxos_log.py reads back from its disk is of the types
\* that _validate_durable_state asks for.
THEOREM TypeCorrect == Spec => []TypeOK
<1>1. LogOK => TypeOK
  BY DEF LogOK
<1> QED BY <1>1, InitOK, LogOKStep, PTL DEF Spec

-----------------------------------------------------------------------------
(* One slot, seen on its own *)

AcceptorView(s) == <<Promised(s), Accepted(s), History(s)>>
ProposerView(s) == <<Number(s), ValueOf(s), Promises(s), Started(s), AcceptedBy(s)>>
SlotView(s) == <<AcceptorView(s), ProposerView(s), Learned(s), chosen[s], Bodies(s)>>

LEMMA ViewTypes ==
    ASSUME TypeOK, NEW s \in Slot
    PROVE  /\ Promised(s) \in [Server -> Numbers]
           /\ Accepted(s) \in [Server -> MaybeAccepted]
           /\ Learned(s) \in [Server -> MaybeAccepted]
           /\ History(s) \in [Server -> SUBSET AcceptedValue]
           /\ Number(s) \in [Server -> Numbers]
           /\ ValueOf(s) \in [Server -> Value \cup {None}]
           /\ Promises(s) \in [Server -> SUBSET PromiseOf]
           /\ Started(s) \in [Server -> BOOLEAN]
           /\ AcceptedBy(s) \in [Server -> SUBSET Server]
           /\ chosen[s] \in MaybeAccepted
           /\ Bodies(s) \subseteq Body
<1>1. \A n \in Server : proposals[n][s] \in ProposalState
  BY DEF TypeOK, ProposalState
<1>2. /\ Number(s) \in [Server -> Numbers]
      /\ ValueOf(s) \in [Server -> Value \cup {None}]
      /\ Promises(s) \in [Server -> SUBSET PromiseOf]
      /\ Started(s) \in [Server -> BOOLEAN]
      /\ AcceptedBy(s) \in [Server -> SUBSET Server]
  BY <1>1 DEF ProposalState, Number, ValueOf, Promises, Started, AcceptedBy
<1>3. History(s) \in [Server -> SUBSET AcceptedValue]
  BY DEF TypeOK, History
<1>4. Bodies(s) \subseteq Body
  BY DEF TypeOK, Bodies
<1> QED BY <1>2, <1>3, <1>4 DEF TypeOK, Promised, Accepted, Learned, Of

LEMMA ViewAt ==
    ASSUME NEW s \in Slot, NEW n \in Server
    PROVE  /\ Promised(s)[n] = promised[n][s] /\ Accepted(s)[n] = accepted[n][s]
           /\ Learned(s)[n] = learned[n][s]
           /\ Number(s)[n] = proposals[n][s].number /\ ValueOf(s)[n] = proposals[n][s].value
           /\ Promises(s)[n] = proposals[n][s].promises /\ Started(s)[n] = proposals[n][s].started
           /\ AcceptedBy(s)[n] = proposals[n][s].acceptedBy
BY DEF Promised, Accepted, Learned, Number, ValueOf, Promises, Started, AcceptedBy, Of

LEMMA OfSet ==
    ASSUME NEW f, DOMAIN f = Server, NEW n \in Server, NEW s \in Slot, NEW x, DOMAIN f[n] = Slot
    PROVE  /\ Of(Set(f, n, s, x), s) = [Of(f, s) EXCEPT ![n] = x]
           /\ \A u \in Slot : u # s => Of(Set(f, n, s, x), u) = Of(f, u)
<1> DEFINE g == Set(f, n, s, x)
<1>1. \A k \in Server : g[k] = IF k = n THEN [f[n] EXCEPT ![s] = x] ELSE f[k]
  BY DEF Set
<1> HIDE DEF g
<1> DEFINE h == f[n]
<1>2. g[n] = [h EXCEPT ![s] = x]
  BY <1>1
<1>d. DOMAIN h = Slot
  OBVIOUS
<1> HIDE DEF h
<1>4. [h EXCEPT ![s] = x][s] = x /\ \A u \in Slot : u # s => [h EXCEPT ![s] = x][u] = h[u]
  BY <1>d
<1>3. \A k \in Server : k # n => g[k] = f[k]
  BY <1>1
<1> QED BY <1>2, <1>3, <1>4 DEF Of, g, h

LEMMA ProposalView ==
    ASSUME TypeOK, NEW n \in Server, NEW s \in Slot, NEW x \in ProposalState,
           proposals' = Set(proposals, n, s, x)
    PROVE  /\ Number(s)' = [Number(s) EXCEPT ![n] = x.number]
           /\ ValueOf(s)' = [ValueOf(s) EXCEPT ![n] = x.value]
           /\ Promises(s)' = [Promises(s) EXCEPT ![n] = x.promises]
           /\ Started(s)' = [Started(s) EXCEPT ![n] = x.started]
           /\ AcceptedBy(s)' = [AcceptedBy(s) EXCEPT ![n] = x.acceptedBy]
           /\ \A u \in Slot : u # s => ProposerView(u)' = ProposerView(u)
<1>1. proposals \in [Server -> [Slot -> ProposalState]]
  BY DEF TypeOK, ProposalState
<1>2. /\ proposals'[n][s] = x
      /\ \A k \in Server, u \in Slot : k # n \/ u # s => proposals'[k][u] = proposals[k][u]
  BY <1>1, SetProposal
<1>3. /\ Number(s)' = [Number(s) EXCEPT ![n] = x.number]
      /\ ValueOf(s)' = [ValueOf(s) EXCEPT ![n] = x.value]
      /\ Promises(s)' = [Promises(s) EXCEPT ![n] = x.promises]
      /\ Started(s)' = [Started(s) EXCEPT ![n] = x.started]
      /\ AcceptedBy(s)' = [AcceptedBy(s) EXCEPT ![n] = x.acceptedBy]
  BY <1>2 DEF Number, ValueOf, Promises, Started, AcceptedBy
<1>4. ASSUME NEW u \in Slot, u # s PROVE ProposerView(u)' = ProposerView(u)
  <2>1. \A k \in Server : proposals'[k][u] = proposals[k][u]
    BY <1>2, <1>4
  <2> QED BY <2>1 DEF ProposerView, Number, ValueOf, Promises, Started, AcceptedBy
<1> QED BY <1>3, <1>4

LEMMA BodyIs ==
    ASSUME NEW M \in SUBSET [slot : Slot, body : Body], NEW s \in Slot, NEW b
    PROVE  b \in {m.body : m \in {x \in M : x.slot = s}} <=> [slot |-> s, body |-> b] \in M
<1>1. \A x \in M : x = [slot |-> x.slot, body |-> x.body]
  OBVIOUS
<1>2. ASSUME b \in {m.body : m \in {x \in M : x.slot = s}} PROVE [slot |-> s, body |-> b] \in M
  BY <1>1, <1>2
<1>3. ASSUME [slot |-> s, body |-> b] \in M PROVE b \in {m.body : m \in {x \in M : x.slot = s}}
  BY <1>3
<1> QED BY <1>2, <1>3

LEMMA EntryIs ==
    ASSUME NEW H \in SUBSET [slot : Slot, entry : AcceptedValue], NEW s \in Slot, NEW e
    PROVE  e \in {h.entry : h \in {g \in H : g.slot = s}} <=> [slot |-> s, entry |-> e] \in H
<1>1. \A x \in H : x = [slot |-> x.slot, entry |-> x.entry]
  OBVIOUS
<1>2. ASSUME e \in {h.entry : h \in {g \in H : g.slot = s}} PROVE [slot |-> s, entry |-> e] \in H
  BY <1>1, <1>2
<1>3. ASSUME [slot |-> s, entry |-> e] \in H PROVE e \in {h.entry : h \in {g \in H : g.slot = s}}
  BY <1>3
<1> QED BY <1>2, <1>3

\* Membership in the views of messages and histories, before and after a step.
LEMMA Members ==
    ASSUME TypeOK, TypeOK', NEW u \in Slot
    PROVE  /\ \A b : b \in Bodies(u) <=> [slot |-> u, body |-> b] \in msgs
           /\ \A b : b \in Bodies(u)' <=> [slot |-> u, body |-> b] \in msgs'
           /\ \A k \in Server : \A e : e \in History(u)[k] <=> [slot |-> u, entry |-> e] \in acceptHistory[k]
           /\ \A k \in Server : \A e : e \in History(u)'[k] <=> [slot |-> u, entry |-> e] \in acceptHistory'[k]
<1>1. /\ msgs \in SUBSET [slot : Slot, body : Body] /\ msgs' \in SUBSET [slot : Slot, body : Body]
      /\ \A k \in Server : /\ acceptHistory[k] \in SUBSET [slot : Slot, entry : AcceptedValue]
                            /\ acceptHistory'[k] \in SUBSET [slot : Slot, entry : AcceptedValue]
  BY DEF TypeOK
<1>2. \A b : b \in Bodies(u) <=> [slot |-> u, body |-> b] \in msgs
  BY <1>1, BodyIs DEF Bodies
<1>3. \A b : b \in Bodies(u)' <=> [slot |-> u, body |-> b] \in msgs'
  BY <1>1, BodyIs DEF Bodies
<1>4. ASSUME NEW k \in Server, NEW e
      PROVE  /\ e \in History(u)[k] <=> [slot |-> u, entry |-> e] \in acceptHistory[k]
             /\ e \in History(u)'[k] <=> [slot |-> u, entry |-> e] \in acceptHistory'[k]
  <2>1. /\ History(u)[k] = {h.entry : h \in {g \in acceptHistory[k] : g.slot = u}}
        /\ History(u)'[k] = {h.entry : h \in {g \in acceptHistory'[k] : g.slot = u}}
    BY DEF History
  <2>2. e \in History(u)[k] <=> [slot |-> u, entry |-> e] \in acceptHistory[k]
    BY <1>1, <2>1, EntryIs
  <2>3. e \in History(u)'[k] <=> [slot |-> u, entry |-> e] \in acceptHistory'[k]
    BY <1>1, <2>1, EntryIs
  <2> QED BY <2>2, <2>3
<1> QED BY <1>2, <1>3, <1>4

LEMMA PostView ==
    ASSUME TypeOK, TypeOK', NEW s \in Slot, NEW body, Post(s, body)
    PROVE  /\ Bodies(s)' = Bodies(s) \cup {body}
           /\ \A u \in Slot : u # s => Bodies(u)' = Bodies(u)
<1>1. msgs' = msgs \cup {[slot |-> s, body |-> body]}
  BY DEF Post
<1>2. \A u \in Slot : \A b : b \in Bodies(u) <=> [slot |-> u, body |-> b] \in msgs
  BY Members
<1>3. \A u \in Slot : \A b : b \in Bodies(u)' <=> [slot |-> u, body |-> b] \in msgs'
  BY Members
<1>4. Bodies(s)' = Bodies(s) \cup {body}
  <2>1. ASSUME NEW b PROVE b \in Bodies(s)' <=> b \in Bodies(s) \cup {body}
    <3>1. /\ b \in Bodies(s) <=> [slot |-> s, body |-> b] \in msgs
          /\ b \in Bodies(s)' <=> [slot |-> s, body |-> b] \in msgs'
      BY <1>2, <1>3
    <3>2. [slot |-> s, body |-> b] = [slot |-> s, body |-> body] <=> b = body
      <4>1. ASSUME [slot |-> s, body |-> b] = [slot |-> s, body |-> body] PROVE b = body
        <5>1. [slot |-> s, body |-> b].body = [slot |-> s, body |-> body].body
          BY <4>1
        <5> QED BY <5>1
      <4> QED BY <4>1
    <3> QED BY <1>1, <3>1, <3>2
  <2> QED BY <2>1
<1>5. ASSUME NEW u \in Slot, u # s PROVE Bodies(u)' = Bodies(u)
  <2>1. \A b : b \in Bodies(u)' <=> b \in Bodies(u)
    BY <1>1, <1>2, <1>3, <1>5
  <2> QED BY <2>1
<1> QED BY <1>4, <1>5

LEMMA HistoryView ==
    ASSUME TypeOK, TypeOK', NEW n \in Server, NEW s \in Slot, NEW e,
           acceptHistory' = [acceptHistory EXCEPT ![n] = @ \cup {[slot |-> s, entry |-> e]}]
    PROVE  /\ History(s)' = [History(s) EXCEPT ![n] = @ \cup {e}]
           /\ \A u \in Slot : u # s => History(u)' = History(u)
<1>1. \A k \in Server : acceptHistory'[k] = IF k = n THEN acceptHistory[n] \cup {[slot |-> s, entry |-> e]}
                                                     ELSE acceptHistory[k]
  BY DEF TypeOK
<1>2. \A k \in Server, u \in Slot : \A x : x \in History(u)[k] <=> [slot |-> u, entry |-> x] \in acceptHistory[k]
  BY Members
<1>3. \A k \in Server, u \in Slot : \A x : x \in History(u)'[k] <=> [slot |-> u, entry |-> x] \in acceptHistory'[k]
  BY Members
<1>4. ASSUME NEW k \in Server, NEW u \in Slot, k # n \/ u # s PROVE History(u)'[k] = History(u)[k]
  <2>1. ASSUME NEW x PROVE x \in History(u)'[k] <=> x \in History(u)[k]
    <3>1. /\ x \in History(u)[k] <=> [slot |-> u, entry |-> x] \in acceptHistory[k]
          /\ x \in History(u)'[k] <=> [slot |-> u, entry |-> x] \in acceptHistory'[k]
      BY <1>2, <1>3
    <3>2. u # s => [slot |-> u, entry |-> x] # [slot |-> s, entry |-> e]
      OBVIOUS
    <3> QED BY <1>1, <1>4, <3>1, <3>2
  <2> QED BY <2>1
<1>6. History(s)'[n] = History(s)[n] \cup {e}
  <2>1. ASSUME NEW x PROVE x \in History(s)'[n] <=> x \in History(s)[n] \cup {e}
    <3>1. /\ x \in History(s)[n] <=> [slot |-> s, entry |-> x] \in acceptHistory[n]
          /\ x \in History(s)'[n] <=> [slot |-> s, entry |-> x] \in acceptHistory'[n]
      BY <1>2, <1>3
    <3>2. [slot |-> s, entry |-> x] = [slot |-> s, entry |-> e] <=> x = e
      <4>1. ASSUME [slot |-> s, entry |-> x] = [slot |-> s, entry |-> e] PROVE x = e
        <5>1. [slot |-> s, entry |-> x].entry = [slot |-> s, entry |-> e].entry
          BY <4>1
        <5> QED BY <5>1
      <4> QED BY <4>1
    <3> QED BY <1>1, <3>1, <3>2
  <2> QED BY <2>1
<1>7. \A u \in Slot : /\ History(u) = [k \in Server |-> History(u)[k]]
                     /\ History(u)' = [k \in Server |-> History(u)'[k]]
  BY DEF History
<1>8. History(s)' = [History(s) EXCEPT ![n] = @ \cup {e}]
  BY <1>4, <1>6, <1>7
<1>9. ASSUME NEW u \in Slot, u # s PROVE History(u)' = History(u)
  <2>1. \A k \in Server : History(u)'[k] = History(u)[k]
    BY <1>4, <1>9
  <2> QED BY <1>7, <2>1
<1> QED BY <1>8, <1>9

LEMMA AcceptView ==
    ASSUME TypeOK, TypeOK', NEW n \in Server, NEW s \in Slot, NEW b \in ProposalNumber, NEW v \in Value,
           Accept(n, s, b, v)
    PROVE  /\ Promised(s)' = [Promised(s) EXCEPT ![n] = b]
           /\ Accepted(s)' = [Accepted(s) EXCEPT ![n] = [proposal |-> b, value |-> v]]
           /\ History(s)' = [History(s) EXCEPT ![n] = @ \cup {[proposal |-> b, value |-> v]}]
           /\ \A u \in Slot : u # s => AcceptorView(u)' = AcceptorView(u)
<1> DEFINE entry == [proposal |-> b, value |-> v]
<1>1. entry \in MaybeAccepted /\ b \in Numbers
  BY DEF AcceptedValue, MaybeAccepted, Numbers
<1>2. /\ promised' = Set(promised, n, s, b)
      /\ accepted' = Set(accepted, n, s, entry)
      /\ acceptHistory' = [acceptHistory EXCEPT ![n] = @ \cup {[slot |-> s, entry |-> entry]}]
  BY DEF Accept
<1> HIDE DEF entry
<1>3. /\ Promised(s)' = [Promised(s) EXCEPT ![n] = b]
      /\ \A u \in Slot : u # s => Promised(u)' = Promised(u)
  <2>1. DOMAIN promised = Server /\ DOMAIN promised[n] = Slot
    BY DEF TypeOK
  <2> QED BY <1>2, <2>1, OfSet DEF Promised
<1>4. /\ Accepted(s)' = [Accepted(s) EXCEPT ![n] = entry]
      /\ \A u \in Slot : u # s => Accepted(u)' = Accepted(u)
  <2>1. DOMAIN accepted = Server /\ DOMAIN accepted[n] = Slot
    BY DEF TypeOK
  <2> QED BY <1>2, <2>1, OfSet DEF Accepted
<1>5. /\ History(s)' = [History(s) EXCEPT ![n] = @ \cup {entry}]
      /\ \A u \in Slot : u # s => History(u)' = History(u)
  BY <1>2, HistoryView
<1> QED BY <1>3, <1>4, <1>5 DEF AcceptorView, entry

LEMMA LearnView ==
    ASSUME TypeOK, NEW n \in Server, NEW s \in Slot, NEW e \in MaybeAccepted, LearnDecision(n, s, e)
    PROVE  /\ Learned(s)' = [Learned(s) EXCEPT ![n] = IF @ = Nothing THEN e ELSE @]
           /\ \A u \in Slot : u # s => Learned(u)' = Learned(u)
<1> DEFINE x == IF learned[n][s] = Nothing THEN e ELSE learned[n][s]
<1>1. x \in MaybeAccepted /\ learned' = Set(learned, n, s, x)
  BY DEF TypeOK, LearnDecision
<1>2. x = IF Learned(s)[n] = Nothing THEN e ELSE Learned(s)[n]
  BY ViewAt
<1> HIDE DEF x
<1>3. /\ Learned(s)' = [Learned(s) EXCEPT ![n] = x]
      /\ \A u \in Slot : u # s => Learned(u)' = Learned(u)
  <2>1. DOMAIN learned = Server /\ DOMAIN learned[n] = Slot
    BY DEF TypeOK
  <2> QED BY <1>1, <2>1, OfSet DEF Learned
<1> QED BY <1>2, <1>3

\* What leaves the variables alone leaves the views alone.
LEMMA SameViews ==
    /\ \A s \in Slot : UNCHANGED promised => Promised(s)' = Promised(s)
    /\ \A s \in Slot : UNCHANGED accepted => Accepted(s)' = Accepted(s)
    /\ \A s \in Slot : UNCHANGED acceptHistory => History(s)' = History(s)
    /\ \A s \in Slot : UNCHANGED acceptor => AcceptorView(s)' = AcceptorView(s)
    /\ \A s \in Slot : UNCHANGED learned => Learned(s)' = Learned(s)
    /\ \A s \in Slot : UNCHANGED proposals => ProposerView(s)' = ProposerView(s)
    /\ \A s \in Slot : UNCHANGED msgs => Bodies(s)' = Bodies(s)
<1>1. ASSUME NEW s \in Slot, UNCHANGED promised PROVE Promised(s)' = Promised(s)
  BY <1>1 DEF Promised
<1>2. ASSUME NEW s \in Slot, UNCHANGED accepted PROVE Accepted(s)' = Accepted(s)
  BY <1>2 DEF Accepted
<1>3. ASSUME NEW s \in Slot, UNCHANGED acceptHistory PROVE History(s)' = History(s)
  BY <1>3 DEF History
<1>4. ASSUME NEW s \in Slot, UNCHANGED learned PROVE Learned(s)' = Learned(s)
  BY <1>4 DEF Learned
<1>5. ASSUME NEW s \in Slot, UNCHANGED proposals PROVE ProposerView(s)' = ProposerView(s)
  BY <1>5 DEF ProposerView, Number, ValueOf, Promises, Started, AcceptedBy
<1>6. ASSUME NEW s \in Slot, UNCHANGED msgs PROVE Bodies(s)' = Bodies(s)
  BY <1>6 DEF Bodies
<1>7. ASSUME NEW s \in Slot, UNCHANGED acceptor PROVE AcceptorView(s)' = AcceptorView(s)
  BY <1>1, <1>2, <1>3, <1>7 DEF AcceptorView, acceptor
<1> QED BY <1>1, <1>2, <1>3, <1>4, <1>5, <1>6, <1>7

-----------------------------------------------------------------------------
(* What each action does to the slot it is about, and to the others *)

\* The views of every slot but s are as they were.
OthersSame(s) == \A u \in Slot : u # s => SlotView(u)' = SlotView(u)

LEMMA PrepareView ==
    ASSUME TypeOK, TypeOK', NEW n \in Server, NEW s \in Slot, NEW m \in Bodies(s), ReceivePrepare(n, s, m)
    PROVE  /\ m.type = "Prepare" /\ m.proposal \in ProposalNumber /\ m.proposal.proposer # n
           /\ ~Less(m.proposal, Promised(s)[n])
           /\ Promised(s)' = [Promised(s) EXCEPT ![n] = m.proposal]
           /\ Bodies(s)' = Bodies(s) \cup {[type |-> "Promise", proposal |-> m.proposal, acceptor |-> n,
                                            accepted |-> Accepted(s)[n]]}
           /\ UNCHANGED <<Accepted(s), History(s), Learned(s), ProposerView(s), chosen[s]>>
           /\ OthersSame(s)
<1>1. /\ m.type = "Prepare" /\ m.proposal.proposer # n /\ ~Less(m.proposal, promised[n][s])
      /\ promised' = Set(promised, n, s, m.proposal)
      /\ Post(s, [type |-> "Promise", proposal |-> m.proposal, acceptor |-> n, accepted |-> accepted[n][s]])
      /\ UNCHANGED <<accepted, acceptHistory, learned, lastRound, proposals, chosen, numbers>>
  BY DEF ReceivePrepare
<1>2. m.proposal \in ProposalNumber
  BY <1>1, ViewTypes DEF Body
<1>3. /\ Promised(s)' = [Promised(s) EXCEPT ![n] = m.proposal]
      /\ \A u \in Slot : u # s => Promised(u)' = Promised(u)
  <2>1. DOMAIN promised = Server /\ DOMAIN promised[n] = Slot
    BY DEF TypeOK
  <2> QED BY <1>1, <2>1, OfSet DEF Promised
<1>4. /\ Bodies(s)' = Bodies(s) \cup {[type |-> "Promise", proposal |-> m.proposal, acceptor |-> n,
                                       accepted |-> Accepted(s)[n]]}
      /\ \A u \in Slot : u # s => Bodies(u)' = Bodies(u)
  BY <1>1, PostView, ViewAt
<1>5. \A u \in Slot : UNCHANGED <<Accepted(u), History(u), Learned(u), ProposerView(u), chosen[u]>>
  BY <1>1, SameViews
<1>6. OthersSame(s)
  BY <1>3, <1>4, <1>5 DEF OthersSame, SlotView, AcceptorView
<1> QED BY <1>1, <1>2, <1>3, <1>4, <1>5, <1>6, ViewAt

LEMMA AcceptRequestView ==
    ASSUME TypeOK, TypeOK', NEW n \in Server, NEW s \in Slot, NEW m \in Bodies(s),
           ReceiveAcceptRequest(n, s, m)
    PROVE  /\ m.type = "AcceptRequest" /\ m.proposal \in ProposalNumber /\ m.value \in Value
           /\ m.proposal.proposer # n /\ ~Less(m.proposal, Promised(s)[n])
           /\ Promised(s)' = [Promised(s) EXCEPT ![n] = m.proposal]
           /\ Accepted(s)' = [Accepted(s) EXCEPT ![n] = [proposal |-> m.proposal, value |-> m.value]]
           /\ History(s)' = [History(s) EXCEPT ![n] = @ \cup {[proposal |-> m.proposal, value |-> m.value]}]
           /\ Bodies(s)' = Bodies(s) \cup {[type |-> "Accepted", proposal |-> m.proposal, acceptor |-> n,
                                            value |-> m.value]}
           /\ UNCHANGED <<Learned(s), ProposerView(s), chosen[s]>>
           /\ OthersSame(s)
<1>1. /\ m.type = "AcceptRequest" /\ m.proposal.proposer # n /\ ~Less(m.proposal, promised[n][s])
      /\ Accept(n, s, m.proposal, m.value)
      /\ Post(s, [type |-> "Accepted", proposal |-> m.proposal, acceptor |-> n, value |-> m.value])
      /\ UNCHANGED <<learned, lastRound, proposals, chosen, numbers>>
  BY DEF ReceiveAcceptRequest
<1>2. m.proposal \in ProposalNumber /\ m.value \in Value
  BY <1>1, ViewTypes DEF Body
<1>3. /\ Promised(s)' = [Promised(s) EXCEPT ![n] = m.proposal]
      /\ Accepted(s)' = [Accepted(s) EXCEPT ![n] = [proposal |-> m.proposal, value |-> m.value]]
      /\ History(s)' = [History(s) EXCEPT ![n] = @ \cup {[proposal |-> m.proposal, value |-> m.value]}]
      /\ \A u \in Slot : u # s => AcceptorView(u)' = AcceptorView(u)
  BY <1>1, <1>2, AcceptView
<1>4. /\ Bodies(s)' = Bodies(s) \cup {[type |-> "Accepted", proposal |-> m.proposal, acceptor |-> n,
                                       value |-> m.value]}
      /\ \A u \in Slot : u # s => Bodies(u)' = Bodies(u)
  BY <1>1, PostView
<1>5. \A u \in Slot : UNCHANGED <<Learned(u), ProposerView(u), chosen[u]>>
  BY <1>1, SameViews
<1>6. OthersSame(s)
  BY <1>3, <1>4, <1>5 DEF OthersSame, SlotView
<1> QED BY <1>1, <1>2, <1>3, <1>4, <1>5, <1>6, ViewAt

LEMMA LearnMessageView ==
    ASSUME TypeOK, TypeOK', NEW n \in Server, NEW s \in Slot, NEW m \in Bodies(s), ReceiveLearn(n, s, m)
    PROVE  /\ m.type = "Learn" /\ m.proposal \in ProposalNumber /\ m.value \in Value
           /\ m.proposal.proposer # n
           /\ Learned(s)' = [Learned(s) EXCEPT ![n] = IF @ = Nothing THEN [proposal |-> m.proposal, value |-> m.value]
                                                                     ELSE @]
           /\ UNCHANGED <<AcceptorView(s), ProposerView(s), chosen[s], Bodies(s)>>
           /\ OthersSame(s)
<1>1. /\ m.type = "Learn" /\ m.proposal.proposer # n
      /\ LearnDecision(n, s, [proposal |-> m.proposal, value |-> m.value])
      /\ UNCHANGED <<acceptor, lastRound, proposals, chosen, msgs, numbers>>
  BY DEF ReceiveLearn
<1>2. m.proposal \in ProposalNumber /\ m.value \in Value
  BY <1>1, ViewTypes DEF Body
<1>3. [proposal |-> m.proposal, value |-> m.value] \in MaybeAccepted
  BY <1>2 DEF AcceptedValue, MaybeAccepted
<1>4. /\ Learned(s)' = [Learned(s) EXCEPT ![n] = IF @ = Nothing THEN [proposal |-> m.proposal, value |-> m.value]
                                                                 ELSE @]
      /\ \A u \in Slot : u # s => Learned(u)' = Learned(u)
  BY <1>1, <1>3, LearnView
<1>5. \A u \in Slot : UNCHANGED <<AcceptorView(u), ProposerView(u), chosen[u], Bodies(u)>>
  BY <1>1, SameViews
<1>6. OthersSame(s)
  BY <1>4, <1>5 DEF OthersSame, SlotView
<1> QED BY <1>1, <1>2, <1>4, <1>5, <1>6

LEMMA ProposeView ==
    ASSUME TypeOK, TypeOK', NEW n \in Server, NEW s \in Slot, NEW r \in 1..MaxRound, NEW v \in Value,
           StartProposal(n, s, r, v)
    PROVE  LET number == [round |-> r, proposer |-> n]
           IN  /\ number \in ProposalNumber
               /\ Number(s)[n] = NoProposal /\ r > lastRound[n]
               /\ lastRound' = [lastRound EXCEPT ![n] = r]
               /\ numbers' = numbers \cup {[slot |-> s, number |-> number]}
               /\ Number(s)' = [Number(s) EXCEPT ![n] = number]
               /\ ValueOf(s)' = [ValueOf(s) EXCEPT ![n] = v]
               /\ \/ /\ Less(number, Promised(s)[n]) /\ UNCHANGED <<Promised(s), Promises(s)>>
                  \/ /\ ~Less(number, Promised(s)[n])
                     /\ Promised(s)' = [Promised(s) EXCEPT ![n] = number]
                     /\ Promises(s)' = [Promises(s) EXCEPT ![n] = {[acceptor |-> n, accepted |-> Accepted(s)[n]]}]
               /\ Bodies(s)' = Bodies(s) \cup {[type |-> "Prepare", proposal |-> number]}
               /\ UNCHANGED <<Accepted(s), History(s), Learned(s), Started(s), AcceptedBy(s), chosen[s]>>
               /\ OthersSame(s)
<1> DEFINE number == [round |-> r, proposer |-> n]
           refused == Less(number, promised[n][s])
           own == IF refused THEN {} ELSE {[acceptor |-> n, accepted |-> accepted[n][s]]}
           mine == [Idle EXCEPT !.number = number, !.value = v, !.promises = own]
<1>1. /\ proposals[n][s] = Idle /\ r > lastRound[n]
      /\ lastRound' = [lastRound EXCEPT ![n] = r]
      /\ proposals' = Set(proposals, n, s, mine)
      /\ promised' = IF refused THEN promised ELSE Set(promised, n, s, number)
      /\ numbers' = numbers \cup {[slot |-> s, number |-> number]}
      /\ Post(s, [type |-> "Prepare", proposal |-> number])
      /\ UNCHANGED <<accepted, acceptHistory, learned, chosen>>
  BY DEF StartProposal
<1>2. number \in ProposalNumber
  BY ConstantAssumption DEF ProposalNumber
<1>3. own \in SUBSET PromiseOf
  BY DEF PromiseOf, TypeOK
<1> HIDE DEF own
<1>4. /\ mine \in ProposalState /\ mine.number = number /\ mine.value = v /\ mine.promises = own
      /\ mine.started = FALSE /\ mine.acceptedBy = {}
  BY <1>2, <1>3 DEF Idle, ProposalState, Numbers
<1> HIDE DEF mine, number
<1>5. /\ Number(s)' = [Number(s) EXCEPT ![n] = number]
      /\ ValueOf(s)' = [ValueOf(s) EXCEPT ![n] = v]
      /\ Promises(s)' = [Promises(s) EXCEPT ![n] = own]
      /\ Started(s)' = [Started(s) EXCEPT ![n] = FALSE]
      /\ AcceptedBy(s)' = [AcceptedBy(s) EXCEPT ![n] = {}]
      /\ \A u \in Slot : u # s => ProposerView(u)' = ProposerView(u)
  BY <1>1, <1>4, ProposalView
<1>6. /\ Number(s)[n] = NoProposal /\ Promises(s)[n] = {} /\ Started(s)[n] = FALSE /\ AcceptedBy(s)[n] = {}
  BY <1>1, IdleIsAProposal, ViewAt
<1>7. UNCHANGED <<Started(s), AcceptedBy(s)>>
  BY <1>5, <1>6, ViewTypes
<1>8. /\ \A u \in Slot : u # s => Promised(u)' = Promised(u)
      /\ \/ /\ Less(number, Promised(s)[n]) /\ UNCHANGED <<Promised(s), Promises(s)>>
         \/ /\ ~Less(number, Promised(s)[n])
            /\ Promised(s)' = [Promised(s) EXCEPT ![n] = number]
            /\ Promises(s)' = [Promises(s) EXCEPT ![n] = {[acceptor |-> n, accepted |-> Accepted(s)[n]]}]
  <2>1. CASE refused
    <3>1. \A u \in Slot : Promised(u)' = Promised(u)
      BY <1>1, <2>1, SameViews
    <3>2. own = {}
      BY <2>1 DEF own
    <3>3. Promises(s)' = Promises(s)
      BY <1>5, <1>6, <3>2, ViewTypes
    <3> QED BY <2>1, <3>1, <3>3, ViewAt
  <2>2. CASE ~refused
    <3>1. DOMAIN promised = Server /\ DOMAIN promised[n] = Slot
      BY DEF TypeOK
    <3>2. promised' = Set(promised, n, s, number)
      BY <1>1, <2>2
    <3>3. /\ Promised(s)' = [Promised(s) EXCEPT ![n] = number]
          /\ \A u \in Slot : u # s => Promised(u)' = Promised(u)
      BY <3>1, <3>2, OfSet DEF Promised
    <3>4. own = {[acceptor |-> n, accepted |-> Accepted(s)[n]]}
      BY <2>2, ViewAt DEF own
    <3> QED BY <1>5, <2>2, <3>3, <3>4, ViewAt
  <2> QED BY <2>1, <2>2
<1>9. /\ Bodies(s)' = Bodies(s) \cup {[type |-> "Prepare", proposal |-> number]}
      /\ \A u \in Slot : u # s => Bodies(u)' = Bodies(u)
  BY <1>1, PostView
<1>10. \A u \in Slot : UNCHANGED <<Accepted(u), History(u), Learned(u), chosen[u]>>
  BY <1>1, SameViews
<1>11. OthersSame(s)
  BY <1>5, <1>8, <1>9, <1>10 DEF OthersSame, SlotView, AcceptorView
<1> QED BY <1>1, <1>2, <1>5, <1>6, <1>7, <1>8, <1>9, <1>10, <1>11 DEF number


\* A promise, and what the proposer of slot s does when it has got it.
Got(n, s, m) == Promises(s)[n] \cup {[acceptor |-> m.acceptor, accepted |-> m.accepted]}

Counts(n, s, m) ==
    /\ m.type = "Promise" /\ m.proposal = Number(s)[n] /\ Number(s)[n] \in ProposalNumber
    /\ ValueOf(s)[n] \in Value /\ Got(n, s, m) \in SUBSET PromiseOf
    /\ ~Started(s)[n] /\ \A p \in Promises(s)[n] : p.acceptor # m.acceptor
    /\ Promises(s)' = [Promises(s) EXCEPT ![n] = Got(n, s, m)]
    /\ UNCHANGED <<Number(s), Learned(s), chosen[s], lastRound, numbers>>
    /\ OthersSame(s)

Waits(s) == UNCHANGED <<AcceptorView(s), ValueOf(s), Started(s), AcceptedBy(s), Bodies(s)>>

StartsAccepting(n, s, v) ==
    /\ v \in Value
    /\ ValueOf(s)' = [ValueOf(s) EXCEPT ![n] = v]
    /\ Started(s)' = [Started(s) EXCEPT ![n] = TRUE]
    /\ Bodies(s)' = Bodies(s) \cup {[type |-> "AcceptRequest", proposal |-> Number(s)[n], value |-> v]}
    /\ \/ /\ Less(Number(s)[n], Promised(s)[n])
          /\ UNCHANGED <<AcceptorView(s), AcceptedBy(s)>>
       \/ /\ ~Less(Number(s)[n], Promised(s)[n])
          /\ Promised(s)' = [Promised(s) EXCEPT ![n] = Number(s)[n]]
          /\ Accepted(s)' = [Accepted(s) EXCEPT ![n] = [proposal |-> Number(s)[n], value |-> v]]
          /\ History(s)' = [History(s) EXCEPT ![n] = @ \cup {[proposal |-> Number(s)[n], value |-> v]}]
          /\ AcceptedBy(s)' = [AcceptedBy(s) EXCEPT ![n] = {n}]

LEMMA PromiseView ==
    ASSUME LogOK, TypeOK', NEW n \in Server, NEW s \in Slot, NEW m \in Bodies(s), ReceivePromise(n, s, m)
    PROVE  /\ Counts(n, s, m)
           /\ ~IsQuorum({p.acceptor : p \in Got(n, s, m)}) => Waits(s)
           /\ IsQuorum({p.acceptor : p \in Got(n, s, m)}) =>
                 \E v \in ValuesToPropose(Got(n, s, m), ValueOf(s)[n]) : StartsAccepting(n, s, v)
<1> TypeOK /\ NumberingOK
  BY DEF LogOK
<1> DEFINE mine == proposals[n][s]
           got == mine.promises \cup {[acceptor |-> m.acceptor, accepted |-> m.accepted]}
<1>1. /\ m.type = "Promise" /\ m.proposal = mine.number
      /\ ~mine.started /\ \A p \in mine.promises : p.acceptor # m.acceptor
      /\ UNCHANGED <<learned, lastRound, chosen, numbers>>
  BY DEF ReceivePromise
<1>2. m \in Body /\ m.proposal \in ProposalNumber /\ m.acceptor \in Server /\ m.accepted \in MaybeAccepted
  <2>1. m \in Body
    BY ViewTypes
  <2> QED BY <1>1, <2>1 DEF Body
<1>3. mine \in ProposalState
  BY DEF TypeOK, ProposalState
<1>4. got \in SUBSET PromiseOf
  BY <1>2, <1>3 DEF PromiseOf, ProposalState
<1>5. mine.number # NoProposal /\ mine.value \in Value /\ mine.number \in ProposalNumber
  BY <1>1, <1>2, NoProposalIsLowest DEF NumberingOK, Sound
<1>6. mine.acceptedBy = {} /\ mine.started = FALSE
  BY <1>1, <1>3 DEF NumberingOK, Sound, ProposalState
<1>7. /\ Promises(s)[n] = mine.promises /\ Number(s)[n] = mine.number /\ ValueOf(s)[n] = mine.value
      /\ Started(s)[n] = mine.started /\ AcceptedBy(s)[n] = mine.acceptedBy
      /\ Promised(s)[n] = promised[n][s]
  BY ViewAt
<1>8. \A u \in Slot : UNCHANGED <<Learned(u), chosen[u]>>
  BY <1>1, SameViews
<1>9. /\ Number(s) = [Number(s) EXCEPT ![n] = mine.number]
      /\ ValueOf(s) = [ValueOf(s) EXCEPT ![n] = mine.value]
      /\ Started(s) = [Started(s) EXCEPT ![n] = mine.started]
      /\ AcceptedBy(s) = [AcceptedBy(s) EXCEPT ![n] = mine.acceptedBy]
  BY <1>7, ViewTypes
<1>10. CASE ~IsQuorum({p.acceptor : p \in got})
  <2> DEFINE next == [mine EXCEPT !.promises = got]
  <2>1. proposals' = Set(proposals, n, s, next) /\ UNCHANGED <<acceptor, msgs>>
    BY <1>10 DEF ReceivePromise
  <2>2. /\ next \in ProposalState /\ next.number = mine.number /\ next.value = mine.value
        /\ next.started = mine.started /\ next.acceptedBy = mine.acceptedBy /\ next.promises = got
    BY <1>3, <1>4 DEF ProposalState
  <2> HIDE DEF next, got, mine
  <2>3. /\ Number(s)' = [Number(s) EXCEPT ![n] = mine.number]
        /\ ValueOf(s)' = [ValueOf(s) EXCEPT ![n] = mine.value]
        /\ Promises(s)' = [Promises(s) EXCEPT ![n] = got]
        /\ Started(s)' = [Started(s) EXCEPT ![n] = mine.started]
        /\ AcceptedBy(s)' = [AcceptedBy(s) EXCEPT ![n] = mine.acceptedBy]
        /\ \A u \in Slot : u # s => ProposerView(u)' = ProposerView(u)
    BY <2>1, <2>2, ProposalView
  <2>4. UNCHANGED <<Number(s), ValueOf(s), Started(s), AcceptedBy(s)>>
    BY <1>9, <2>3
  <2>5. \A u \in Slot : UNCHANGED <<AcceptorView(u), Bodies(u)>>
    BY <2>1, SameViews
  <2>6. OthersSame(s)
    BY <1>8, <2>3, <2>5 DEF OthersSame, SlotView
  <2>7. got = Promises(s)[n] \cup {[acceptor |-> m.acceptor, accepted |-> m.accepted]}
    BY <1>7 DEF got
  <2>8. Counts(n, s, m)
    BY <1>1, <1>4, <1>5, <1>7, <1>8, <2>3, <2>4, <2>6, <2>7 DEF Counts, Got
  <2>9. Waits(s)
    BY <2>4, <2>5 DEF Waits
  <2> QED BY <1>10, <2>7, <2>8, <2>9 DEF Got
<1>11. CASE IsQuorum({p.acceptor : p \in got})
  <2> DEFINE refused == Less(mine.number, promised[n][s])
             by == IF refused THEN {} ELSE {n}
  <2>1. PICK v \in ValuesToPropose(got, mine.value) :
            /\ proposals' = Set(proposals, n, s,
                   [mine EXCEPT !.promises = got, !.value = v, !.started = TRUE,
                                !.acceptedBy = IF refused THEN {} ELSE {n}])
            /\ IF refused THEN UNCHANGED acceptor ELSE Accept(n, s, mine.number, v)
            /\ Post(s, [type |-> "AcceptRequest", proposal |-> mine.number, value |-> v])
    BY <1>11 DEF ReceivePromise
  <2> DEFINE next == [mine EXCEPT !.promises = got, !.value = v, !.started = TRUE,
                                  !.acceptedBy = IF refused THEN {} ELSE {n}]
             new == [type |-> "AcceptRequest", proposal |-> mine.number, value |-> v]
  <2>2. v \in Value
    BY <1>4, <1>5, ProposedValues
  <2>3. /\ next \in ProposalState /\ next.number = mine.number /\ next.value = v
        /\ next.started = TRUE /\ next.acceptedBy = by /\ next.promises = got
    BY <1>3, <1>4, <2>2 DEF ProposalState
  <2>4. proposals' = Set(proposals, n, s, next) /\ Post(s, new)
    BY <2>1
  <2> HIDE DEF next, got, mine, by, new
  <2>5. /\ Number(s)' = [Number(s) EXCEPT ![n] = mine.number]
        /\ ValueOf(s)' = [ValueOf(s) EXCEPT ![n] = v]
        /\ Promises(s)' = [Promises(s) EXCEPT ![n] = got]
        /\ Started(s)' = [Started(s) EXCEPT ![n] = TRUE]
        /\ AcceptedBy(s)' = [AcceptedBy(s) EXCEPT ![n] = by]
        /\ \A u \in Slot : u # s => ProposerView(u)' = ProposerView(u)
    BY <2>3, <2>4, ProposalView
  <2>6. /\ Bodies(s)' = Bodies(s) \cup {new}
        /\ \A u \in Slot : u # s => Bodies(u)' = Bodies(u)
    BY <2>4, PostView
  <2>7. UNCHANGED Number(s)
    BY <1>9, <2>5
  <2>8. CASE refused
    <3>1. \A u \in Slot : UNCHANGED AcceptorView(u)
      BY <2>1, <2>8, SameViews
    <3>2. UNCHANGED AcceptedBy(s)
      BY <1>6, <1>9, <2>5, <2>8 DEF by
    <3>3. OthersSame(s)
      BY <1>8, <2>5, <2>6, <3>1 DEF OthersSame, SlotView
    <3>4. /\ got = Promises(s)[n] \cup {[acceptor |-> m.acceptor, accepted |-> m.accepted]}
          /\ v \in ValuesToPropose(got, ValueOf(s)[n])
          /\ Less(Number(s)[n], Promised(s)[n])
      BY <1>7, <2>1, <2>8 DEF got
    <3>5. Bodies(s)' = Bodies(s) \cup {[type |-> "AcceptRequest", proposal |-> Number(s)[n], value |-> v]}
      BY <1>7, <2>6 DEF new
    <3> HIDE DEF refused
    <3>6. Counts(n, s, m)
      BY <1>1, <1>4, <1>5, <1>7, <1>8, <2>5, <2>7, <3>3, <3>4 DEF Counts, Got
    <3>7. StartsAccepting(n, s, v)
      BY <1>7, <2>2, <2>5, <3>1, <3>2, <3>4, <3>5 DEF StartsAccepting
    <3> QED BY <1>11, <3>4, <3>6, <3>7 DEF Got
  <2>9. CASE ~refused
    <3>1. /\ Promised(s)' = [Promised(s) EXCEPT ![n] = mine.number]
          /\ Accepted(s)' = [Accepted(s) EXCEPT ![n] = [proposal |-> mine.number, value |-> v]]
          /\ History(s)' = [History(s) EXCEPT ![n] = @ \cup {[proposal |-> mine.number, value |-> v]}]
          /\ \A u \in Slot : u # s => AcceptorView(u)' = AcceptorView(u)
      BY <1>5, <2>1, <2>2, <2>9, AcceptView
    <3>2. AcceptedBy(s)' = [AcceptedBy(s) EXCEPT ![n] = {n}]
      BY <2>5, <2>9 DEF by
    <3>3. OthersSame(s)
      BY <1>8, <2>5, <2>6, <3>1 DEF OthersSame, SlotView
    <3>4. /\ got = Promises(s)[n] \cup {[acceptor |-> m.acceptor, accepted |-> m.accepted]}
          /\ v \in ValuesToPropose(got, ValueOf(s)[n])
          /\ ~Less(Number(s)[n], Promised(s)[n])
      BY <1>7, <2>1, <2>9 DEF got
    <3>5. Bodies(s)' = Bodies(s) \cup {[type |-> "AcceptRequest", proposal |-> Number(s)[n], value |-> v]}
      BY <1>7, <2>6 DEF new
    <3> HIDE DEF refused
    <3>6. Counts(n, s, m)
      BY <1>1, <1>4, <1>5, <1>7, <1>8, <2>5, <2>7, <3>3, <3>4 DEF Counts, Got
    <3>7. StartsAccepting(n, s, v)
      BY <1>7, <2>2, <2>5, <3>1, <3>2, <3>4, <3>5 DEF StartsAccepting
    <3> QED BY <1>11, <3>4, <3>6, <3>7 DEF Got
  <2> QED BY <2>8, <2>9
<1> QED BY <1>10, <1>11

\* The acceptance that completes a majority ends the proposal of slot s, with a decision.
Decides(n, s) ==
    LET entry == [proposal |-> Number(s)[n], value |-> ValueOf(s)[n]]
    IN  /\ chosen' = [chosen EXCEPT ![s] = IF @ = Nothing THEN entry ELSE @]
        /\ Learned(s)' = [Learned(s) EXCEPT ![n] = IF @ = Nothing THEN entry ELSE @]
        /\ Bodies(s)' = Bodies(s) \cup {[type |-> "Learn", proposal |-> Number(s)[n], value |-> ValueOf(s)[n]]}
        /\ Number(s)' = [Number(s) EXCEPT ![n] = NoProposal]
        /\ ValueOf(s)' = [ValueOf(s) EXCEPT ![n] = None]
        /\ Promises(s)' = [Promises(s) EXCEPT ![n] = {}]
        /\ Started(s)' = [Started(s) EXCEPT ![n] = FALSE]
        /\ AcceptedBy(s)' = [AcceptedBy(s) EXCEPT ![n] = {}]

LEMMA AcceptedView ==
    ASSUME LogOK, TypeOK', NEW n \in Server, NEW s \in Slot, NEW m \in Bodies(s), ReceiveAccepted(n, s, m)
    PROVE  /\ m.type = "Accepted" /\ m.proposal = Number(s)[n] /\ m.acceptor \in Server /\ Started(s)[n]
           /\ Number(s)[n] \in ProposalNumber /\ ValueOf(s)[n] \in Value
           /\ UNCHANGED <<AcceptorView(s), lastRound, numbers>>
           /\ OthersSame(s)
           /\ IsQuorum(AcceptedBy(s)[n] \cup {m.acceptor}) => Decides(n, s)
           /\ ~IsQuorum(AcceptedBy(s)[n] \cup {m.acceptor}) =>
                 /\ AcceptedBy(s)' = [AcceptedBy(s) EXCEPT ![n] = @ \cup {m.acceptor}]
                 /\ UNCHANGED <<Number(s), ValueOf(s), Promises(s), Started(s), Learned(s), chosen, Bodies(s)>>
<1> TypeOK /\ NumberingOK
  BY DEF LogOK
<1> DEFINE mine == proposals[n][s]
           by == mine.acceptedBy \cup {m.acceptor}
           entry == [proposal |-> mine.number, value |-> mine.value]
<1>1. /\ m.type = "Accepted" /\ m.proposal = mine.number /\ mine.started
      /\ UNCHANGED <<acceptor, lastRound, numbers>>
  BY DEF ReceiveAccepted
<1>2. m \in Body /\ m.proposal \in ProposalNumber /\ m.acceptor \in Server
  <2>1. m \in Body
    BY ViewTypes
  <2> QED BY <1>1, <2>1 DEF Body
<1>3. mine \in ProposalState
  BY DEF TypeOK, ProposalState
<1>4. by \in SUBSET Server
  BY <1>2, <1>3 DEF ProposalState
<1>5. mine.number # NoProposal /\ mine.value \in Value /\ mine.number \in ProposalNumber
  BY <1>1, <1>2, NoProposalIsLowest DEF NumberingOK, Sound
<1>6. entry \in AcceptedValue /\ entry \in MaybeAccepted
  BY <1>5 DEF MaybeAccepted, AcceptedValue
<1>7. /\ Promises(s)[n] = mine.promises /\ Number(s)[n] = mine.number /\ ValueOf(s)[n] = mine.value
      /\ Started(s)[n] = mine.started /\ AcceptedBy(s)[n] = mine.acceptedBy
  BY ViewAt
<1>8. \A u \in Slot : UNCHANGED AcceptorView(u)
  BY <1>1, SameViews
<1>9. CASE IsQuorum(by)
  <2> DEFINE new == [type |-> "Learn", proposal |-> mine.number, value |-> mine.value]
  <2>1. /\ chosen' = [chosen EXCEPT ![s] = IF @ = Nothing THEN entry ELSE @]
        /\ LearnDecision(n, s, entry)
        /\ proposals' = Set(proposals, n, s, Idle) /\ Post(s, new)
    BY <1>9 DEF ReceiveAccepted
  <2> HIDE DEF new, entry
  <2>2. /\ Learned(s)' = [Learned(s) EXCEPT ![n] = IF @ = Nothing THEN entry ELSE @]
        /\ \A u \in Slot : u # s => Learned(u)' = Learned(u)
    BY <1>6, <2>1, LearnView
  <2>3. /\ Number(s)' = [Number(s) EXCEPT ![n] = NoProposal]
        /\ ValueOf(s)' = [ValueOf(s) EXCEPT ![n] = None]
        /\ Promises(s)' = [Promises(s) EXCEPT ![n] = {}]
        /\ Started(s)' = [Started(s) EXCEPT ![n] = FALSE]
        /\ AcceptedBy(s)' = [AcceptedBy(s) EXCEPT ![n] = {}]
        /\ \A u \in Slot : u # s => ProposerView(u)' = ProposerView(u)
    BY <2>1, IdleIsAProposal, ProposalView
  <2>4. /\ Bodies(s)' = Bodies(s) \cup {new}
        /\ \A u \in Slot : u # s => Bodies(u)' = Bodies(u)
    BY <2>1, PostView
  <2>5. \A u \in Slot : u # s => chosen'[u] = chosen[u]
    BY <2>1 DEF TypeOK
  <2>6. OthersSame(s)
    BY <1>8, <2>2, <2>3, <2>4, <2>5 DEF OthersSame, SlotView
  <2>7. Decides(n, s)
    BY <1>7, <2>1, <2>2, <2>3, <2>4 DEF Decides, new, entry
  <2> HIDE DEF mine
  <2> QED BY <1>1, <1>2, <1>5, <1>7, <1>8, <1>9, <2>6, <2>7
<1>10. CASE ~IsQuorum(by)
  <2> DEFINE next == [mine EXCEPT !.acceptedBy = by]
  <2>1. proposals' = Set(proposals, n, s, next) /\ UNCHANGED <<learned, chosen, msgs>>
    BY <1>10 DEF ReceiveAccepted
  <2>2. /\ next \in ProposalState /\ next.number = mine.number /\ next.value = mine.value
        /\ next.started = mine.started /\ next.promises = mine.promises /\ next.acceptedBy = by
    BY <1>3, <1>4 DEF ProposalState
  <2> HIDE DEF next, by, mine
  <2>3. /\ Number(s)' = [Number(s) EXCEPT ![n] = mine.number]
        /\ ValueOf(s)' = [ValueOf(s) EXCEPT ![n] = mine.value]
        /\ Promises(s)' = [Promises(s) EXCEPT ![n] = mine.promises]
        /\ Started(s)' = [Started(s) EXCEPT ![n] = mine.started]
        /\ AcceptedBy(s)' = [AcceptedBy(s) EXCEPT ![n] = by]
        /\ \A u \in Slot : u # s => ProposerView(u)' = ProposerView(u)
    BY <2>1, <2>2, ProposalView
  <2>4. /\ Number(s) = [Number(s) EXCEPT ![n] = mine.number]
        /\ ValueOf(s) = [ValueOf(s) EXCEPT ![n] = mine.value]
        /\ Promises(s) = [Promises(s) EXCEPT ![n] = mine.promises]
        /\ Started(s) = [Started(s) EXCEPT ![n] = mine.started]
    BY <1>7, ViewTypes
  <2>5. UNCHANGED <<Number(s), ValueOf(s), Promises(s), Started(s)>>
    BY <2>3, <2>4
  <2>6. \A u \in Slot : UNCHANGED <<Learned(u), Bodies(u), chosen[u]>>
    BY <2>1, SameViews
  <2>7. OthersSame(s)
    BY <1>8, <2>3, <2>6 DEF OthersSame, SlotView
  <2>8. by = AcceptedBy(s)[n] \cup {m.acceptor}
    BY <1>7 DEF by
  <2> QED BY <1>1, <1>2, <1>5, <1>7, <1>8, <1>10, <2>1, <2>3, <2>5, <2>6, <2>7, <2>8
<1> QED BY <1>9, <1>10

\* A crash is a crash for every slot.
LEMMA CrashView ==
    ASSUME TypeOK, NEW n \in Server, NEW s \in Slot, Crash(n)
    PROVE  /\ Number(s)' = [Number(s) EXCEPT ![n] = NoProposal]
           /\ ValueOf(s)' = [ValueOf(s) EXCEPT ![n] = None]
           /\ Promises(s)' = [Promises(s) EXCEPT ![n] = {}]
           /\ Started(s)' = [Started(s) EXCEPT ![n] = FALSE]
           /\ AcceptedBy(s)' = [AcceptedBy(s) EXCEPT ![n] = {}]
           /\ UNCHANGED <<AcceptorView(s), Learned(s), lastRound, chosen[s], Bodies(s), numbers>>
<1>1. /\ proposals' = [proposals EXCEPT ![n] = [u \in Slot |-> Idle]]
      /\ UNCHANGED <<acceptor, learned, lastRound, chosen, msgs, numbers>>
  BY DEF Crash
<1>2. \A k \in Server : proposals'[k][s] = IF k = n THEN Idle ELSE proposals[k][s]
  BY <1>1 DEF TypeOK
<1>3. UNCHANGED <<AcceptorView(s), Learned(s), lastRound, chosen[s], Bodies(s), numbers>>
  BY <1>1, SameViews
<1>4. /\ Number(s)' = [Number(s) EXCEPT ![n] = NoProposal]
      /\ ValueOf(s)' = [ValueOf(s) EXCEPT ![n] = None]
      /\ Promises(s)' = [Promises(s) EXCEPT ![n] = {}]
      /\ Started(s)' = [Started(s) EXCEPT ![n] = FALSE]
      /\ AcceptedBy(s)' = [AcceptedBy(s) EXCEPT ![n] = {}]
  BY <1>2, IdleIsAProposal DEF Number, ValueOf, Promises, Started, AcceptedBy
<1> QED BY <1>3, <1>4

\* A reconstruction leaves what is on the disks.
LEMMA ReconstructView ==
    ASSUME TypeOK, NEW s \in Slot, Reconstruct
    PROVE  /\ chosen'[s] = RecoverChosen(s)
           /\ Number(s)' = [n \in Server |-> NoProposal]
           /\ ValueOf(s)' = [n \in Server |-> None]
           /\ Promises(s)' = [n \in Server |-> {}]
           /\ Started(s)' = [n \in Server |-> FALSE]
           /\ AcceptedBy(s)' = [n \in Server |-> {}]
           /\ Bodies(s)' = {}
           /\ UNCHANGED <<AcceptorView(s), Learned(s), lastRound, numbers>>
<1>1. /\ chosen' = [u \in Slot |-> RecoverChosen(u)]
      /\ proposals' = [n \in Server |-> [u \in Slot |-> Idle]]
      /\ msgs' = {}
      /\ UNCHANGED <<acceptor, learned, lastRound, numbers>>
  BY DEF Reconstruct
<1>2. \A k \in Server : proposals'[k][s] = Idle
  BY <1>1
<1>3. UNCHANGED <<AcceptorView(s), Learned(s), lastRound, numbers>> /\ Bodies(s)' = {}
  BY <1>1, SameViews DEF Bodies
<1>4. /\ Number(s)' = [n \in Server |-> NoProposal]
      /\ ValueOf(s)' = [n \in Server |-> None]
      /\ Promises(s)' = [n \in Server |-> {}]
      /\ Started(s)' = [n \in Server |-> FALSE]
      /\ AcceptedBy(s)' = [n \in Server |-> {}]
  BY <1>2, IdleIsAProposal DEF Number, ValueOf, Promises, Started, AcceptedBy
<1> QED BY <1>1, <1>3, <1>4
-----------------------------------------------------------------------------
(* The numbers of one slot *)

LEMMA LastRoundIs ==
    ASSUME LogOK, NEW s \in Slot, NEW n \in Server
    PROVE  /\ RoundsOf(n, s) \subseteq Nat
           /\ LastRound(s)[n] \in RoundsOf(n, s) \cup {0}
           /\ \A q \in RoundsOf(n, s) : q <= LastRound(s)[n] /\ q <= lastRound[n]
           /\ LastRound(s)[n] <= lastRound[n] /\ LastRound(s)[n] \in Nat /\ lastRound[n] \in Nat
<1>1. ASSUME NEW q \in RoundsOf(n, s) PROVE q \in Nat /\ q <= lastRound[n]
  <2>1. PICK p \in numbers : p.slot = s /\ p.number.proposer = n /\ q = p.number.round
    BY DEF RoundsOf
  <2>2. p.number \in ProposalNumber
    BY <2>1 DEF LogOK, TypeOK
  <2> QED BY <2>1, <2>2 DEF LogOK, NumberingOK, ProposalNumber
<1>2. lastRound[n] \in Nat
  BY ConstantAssumption DEF LogOK, TypeOK
<1> DEFINE S == RoundsOf(n, s) \cup {0}
<1>3. S \in SUBSET Nat /\ S # {} /\ \A i \in S : i <= lastRound[n]
  BY <1>1, <1>2
<1>4. \E i \in S : \A j \in S : j <= i
  BY <1>2, <1>3, Greatest
<1>5. \E i \in S : \A j \in RoundsOf(n, s) : j <= i
  BY <1>4
<1>6. LastRound(s)[n] = CHOOSE r \in S : \A q \in RoundsOf(n, s) : q <= r
  BY DEF LastRound, LastRoundOf
<1>7. LastRound(s)[n] \in S /\ \A q \in RoundsOf(n, s) : q <= LastRound(s)[n]
  BY <1>5, <1>6
<1> QED BY <1>1, <1>2, <1>3, <1>7

\* A new number is the last one of its slot and node.
LEMMA LastRoundAfter ==
    ASSUME LogOK, NEW s \in Slot, NEW n \in Server, NEW r \in Nat, r > lastRound[n],
           numbers' = numbers \cup {[slot |-> s, number |-> [round |-> r, proposer |-> n]]}
    PROVE  /\ LastRound(s)' = [LastRound(s) EXCEPT ![n] = r]
           /\ \A u \in Slot : u # s => LastRound(u)' = LastRound(u)
<1> DEFINE new == [slot |-> s, number |-> [round |-> r, proposer |-> n]]
<1>1. new.slot = s /\ new.number.proposer = n /\ new.number.round = r
  OBVIOUS
<1> HIDE DEF new
<1>2. numbers' = numbers \cup {new}
  BY DEF new
<1>3. RoundsOf(n, s)' = RoundsOf(n, s) \cup {r}
  BY <1>1, <1>2 DEF RoundsOf
<1>4. ASSUME NEW k \in Server, NEW u \in Slot, k # n \/ u # s PROVE RoundsOf(k, u)' = RoundsOf(k, u)
  BY <1>1, <1>2, <1>4 DEF RoundsOf
<1>5. LastRound(s)'[n] = r
  <2>1. \A q \in RoundsOf(n, s) : q \in Nat /\ q < r
    BY LastRoundIs
  <2>2. LastRound(s)'[n] = CHOOSE x \in RoundsOf(n, s) \cup {r} \cup {0} : \A q \in RoundsOf(n, s) \cup {r} : q <= x
    BY <1>3 DEF LastRound, LastRoundOf
  <2>3. /\ r \in RoundsOf(n, s) \cup {r} \cup {0} /\ \A q \in RoundsOf(n, s) \cup {r} : q <= r
        /\ \A x \in RoundsOf(n, s) \cup {r} \cup {0} : (\A q \in RoundsOf(n, s) \cup {r} : q <= x) => x = r
    BY <2>1
  <2> QED BY <2>2, <2>3
<1>6. ASSUME NEW k \in Server, NEW u \in Slot, k # n \/ u # s PROVE LastRound(u)'[k] = LastRound(u)[k]
  <2>1. RoundsOf(k, u)' = RoundsOf(k, u)
    BY <1>4, <1>6
  <2>2. LastRoundOf(k, u)' = LastRoundOf(k, u)
    BY <2>1 DEF LastRoundOf
  <2> QED BY <2>2 DEF LastRound
<1>7. \A u \in Slot : /\ LastRound(u) = [k \in Server |-> LastRound(u)[k]]
                     /\ LastRound(u)' = [k \in Server |-> LastRound(u)'[k]]
  BY DEF LastRound
<1>8. LastRound(s)' = [LastRound(s) EXCEPT ![n] = r]
  BY <1>5, <1>6, <1>7
<1>9. ASSUME NEW u \in Slot, u # s PROVE LastRound(u)' = LastRound(u)
  BY <1>6, <1>7, <1>9
<1> QED BY <1>8, <1>9

LEMMA SameLastRound ==
    ASSUME UNCHANGED numbers, NEW s \in Slot
    PROVE  LastRound(s)' = LastRound(s)
BY DEF LastRound, LastRoundOf, RoundsOf

-----------------------------------------------------------------------------
(* Every slot is a decree of module Paxos *)

\* The operators of the decree are those of the log.
LEMMA SameOperators ==
    ASSUME NEW s \in Slot
    PROVE  /\ \A p, q : Decree(s)!Less(p, q) <=> Less(p, q)
           /\ \A Q : Decree(s)!Cardinality(Q) = Cardinality(Q)
           /\ \A Q : Decree(s)!IsQuorum(Q) <=> IsQuorum(Q)
           /\ Decree(s)!NoProposal = NoProposal /\ Decree(s)!Nothing = Nothing
<1>1. ASSUME NEW Q PROVE Decree(s)!Cardinality(Q) = Cardinality(Q)
  BY DEF Decree!Cardinality, Cardinality
<1>2. ASSUME NEW Q PROVE Decree(s)!IsQuorum(Q) <=> IsQuorum(Q)
  BY <1>1 DEF Decree!IsQuorum, IsQuorum
<1>3. ASSUME NEW p, NEW q PROVE Decree(s)!Less(p, q) <=> Less(p, q)
  BY DEF Decree!Less, Less
<1>4. Decree(s)!NoProposal = NoProposal /\ Decree(s)!Nothing = Nothing
  BY DEF Decree!NoProposal, NoProposal, Decree!Nothing, Nothing
<1> QED BY <1>1, <1>2, <1>3, <1>4

Highest(S) == {p \in S : \A q \in S : ~Less(p.accepted.proposal, q.accepted.proposal)}

\* The value of the accept phase is one that a highest report has, when there is a report.
LEMMA ProposedIsHighest ==
    ASSUME NEW S \in SUBSET PromiseOf, NEW original, NEW v \in ValuesToPropose(S, original)
    PROVE  \/ (\A p \in S : p.accepted = Nothing) /\ v = original
           \/ (\E p \in S : p.accepted # Nothing) /\ \E p \in Highest(S) : v = p.accepted.value
<1> DEFINE reported == {p.accepted : p \in S} \ {Nothing}
<1>1. CASE reported = {}
  BY <1>1 DEF ValuesToPropose
<1>2. CASE reported # {}
  <2>1. PICK a \in reported : v = a.value /\ \A c \in reported : ~Less(a.proposal, c.proposal)
    BY <1>2 DEF ValuesToPropose
  <2>2. PICK p \in S : p.accepted = a
    BY <2>1
  <2>3. ASSUME NEW q \in S PROVE ~Less(p.accepted.proposal, q.accepted.proposal)
    <3>1. CASE q.accepted = Nothing
      <4>1. a \in AcceptedValue
        BY <2>1 DEF PromiseOf, MaybeAccepted
      <4>2. a.proposal \in Numbers
        BY <4>1 DEF AcceptedValue, Numbers
      <4> QED BY <2>2, <3>1, <4>2, NoProposalIsLowest DEF Nothing
    <3>2. CASE q.accepted # Nothing
      BY <2>1, <2>2, <2>3, <3>2
    <3> QED BY <3>1, <3>2
  <2> QED BY <2>1, <2>2, <2>3 DEF Highest
<1> QED BY <1>1, <1>2

\* When some promise reports an accepted value, the highest ones do.
LEMMA HighestIsReal ==
    ASSUME NEW S \in SUBSET PromiseOf, \E x \in S : x.accepted # Nothing, NEW p \in Highest(S)
    PROVE  p \in S /\ p.accepted \in AcceptedValue /\ p.accepted.value \in Value
           /\ p.accepted.proposal \in ProposalNumber
<1>1. PICK x \in S : x.accepted \in AcceptedValue
  BY DEF PromiseOf, MaybeAccepted
<1>2. p \in S /\ ~Less(p.accepted.proposal, x.accepted.proposal)
  BY DEF Highest
<1>3. p.accepted # Nothing
  BY <1>1, <1>2, NoProposalIsLowest DEF Nothing, AcceptedValue, Numbers
<1> QED BY <1>2, <1>3 DEF PromiseOf, MaybeAccepted, AcceptedValue

\* Where several reports contradict each other the log raises and the decree may go on.
LEMMA SameValues ==
    ASSUME NEW s \in Slot, NEW S \in SUBSET PromiseOf, NEW original
    PROVE  ValuesToPropose(S, original) \subseteq Decree(s)!ValuesToPropose(S, original)
<1>1. Decree(s)!Highest(S) = Highest(S)
  BY SameOperators DEF Decree!Highest, Highest
<1> QED BY <1>1, ProposedIsHighest, SameOperators DEF Decree!ValuesToPropose

\* A slot has no more prepares than the log has proposals.
LEMMA FewPrepares ==
    ASSUME LogOK, NEW s \in Slot, Cardinality(numbers) < MaxProposals
    PROVE  Cardinality(Decree(s)!Prepares) < MaxProposals
<1> DEFINE P == Decree(s)!Prepares
<1>1. P = {m \in Bodies(s) : m.type = "Prepare"}
  BY DEF Decree!Prepares
<1>2. \A m \in P : m.proposal \in ProposalNumber /\ m = [type |-> "Prepare", proposal |-> m.proposal]
  BY <1>1, ViewTypes DEF Body, LogOK
<1>3. \A m \in P : [slot |-> s, number |-> m.proposal] \in numbers
  <2>1. \A m \in P : [slot |-> s, body |-> m] \in msgs
    <3>1. msgs \in SUBSET [slot : Slot, body : Body]
      BY DEF LogOK, TypeOK
    <3> QED BY <1>1, <3>1, BodyIs DEF Bodies
  <2> QED BY <1>1, <2>1 DEF LogOK, NumberingOK
<1> HIDE DEF P
<1> DEFINE f == [m \in P |-> [slot |-> s, number |-> m.proposal]]
<1>4. f \in [P -> numbers]
  BY <1>3
<1>5. ASSUME NEW x \in P, NEW y \in P, f[x] = f[y] PROVE x = y
  <2>1. [slot |-> s, number |-> x.proposal] = [slot |-> s, number |-> y.proposal]
    BY <1>5
  <2>2. [slot |-> s, number |-> x.proposal].number = [slot |-> s, number |-> y.proposal].number
    BY <2>1
  <2>3. x.proposal = y.proposal
    BY <2>2
  <2> QED BY <1>2, <2>3
<1>6. f \in Injection(P, numbers)
  BY <1>4, <1>5 DEF Injection, IsInjective
<1>7. IsFiniteSet(numbers)
  BY DEF LogOK, NumberingOK
<1>8. Cardinality(P) <= Cardinality(numbers) /\ IsFiniteSet(P)
  BY <1>6, <1>7, FS_Injection
<1>9. Cardinality(P) \in Nat /\ Cardinality(numbers) \in Nat
  BY <1>7, <1>8, FS_CardinalityType
<1> QED BY <1>8, <1>9, ConstantAssumption DEF P

LEMMA Untouched ==
    ASSUME NEW s \in Slot, OthersSame(s), NEW u \in Slot, u # s, UNCHANGED LastRound(u)
    PROVE  UNCHANGED Decree(u)!vars
<1>1. SlotView(u)' = SlotView(u)
  BY DEF OthersSame
<1> QED BY <1>1 DEF SlotView, AcceptorView, ProposerView, Decree!vars, Decree!acceptor, Decree!proposer

LEMMA PrepareIsPrepare ==
    ASSUME TypeOK, TypeOK', NEW n \in Server, NEW s \in Slot, NEW m \in Bodies(s), ReceivePrepare(n, s, m)
    PROVE  Decree(s)!ReceivePrepare(n, m) /\ \A u \in Slot : u # s => UNCHANGED Decree(u)!vars
<1>1. \A u \in Slot : UNCHANGED LastRound(u)
  BY SameLastRound DEF ReceivePrepare
<1>2. Decree(s)!ReceivePrepare(n, m)
  BY <1>1, PrepareView, SameOperators DEF Decree!ReceivePrepare, Decree!proposer, ProposerView
<1>3. OthersSame(s)
  BY PrepareView
<1> QED BY <1>1, <1>2, <1>3, Untouched

LEMMA AcceptRequestIsAcceptRequest ==
    ASSUME TypeOK, TypeOK', NEW n \in Server, NEW s \in Slot, NEW m \in Bodies(s), ReceiveAcceptRequest(n, s, m)
    PROVE  Decree(s)!ReceiveAcceptRequest(n, m) /\ \A u \in Slot : u # s => UNCHANGED Decree(u)!vars
<1>1. \A u \in Slot : UNCHANGED LastRound(u)
  BY SameLastRound DEF ReceiveAcceptRequest
<1>2. Decree(s)!ReceiveAcceptRequest(n, m)
  BY <1>1, AcceptRequestView, SameOperators
  DEF Decree!ReceiveAcceptRequest, Decree!Accept, Decree!proposer, ProposerView
<1>3. OthersSame(s)
  BY AcceptRequestView
<1> QED BY <1>1, <1>2, <1>3, Untouched

LEMMA LearnIsLearn ==
    ASSUME TypeOK, TypeOK', NEW n \in Server, NEW s \in Slot, NEW m \in Bodies(s), ReceiveLearn(n, s, m)
    PROVE  Decree(s)!ReceiveLearn(n, m) /\ \A u \in Slot : u # s => UNCHANGED Decree(u)!vars
<1>1. \A u \in Slot : UNCHANGED LastRound(u)
  BY SameLastRound DEF ReceiveLearn
<1>2. Decree(s)!ReceiveLearn(n, m)
  BY <1>1, LearnMessageView, SameOperators
  DEF Decree!ReceiveLearn, Decree!LearnDecision, Decree!proposer, Decree!acceptor, ProposerView, AcceptorView
<1>3. OthersSame(s)
  BY LearnMessageView
<1> QED BY <1>1, <1>2, <1>3, Untouched

LEMMA ProposeIsPropose ==
    ASSUME LogOK, TypeOK', NEW n \in Server, NEW s \in Slot, NEW r \in 1..MaxRound, NEW v \in Value,
           StartProposal(n, s, r, v), Cardinality(numbers) < MaxProposals
    PROVE  Decree(s)!Propose(n) /\ \A u \in Slot : u # s => UNCHANGED Decree(u)!vars
<1> TypeOK /\ r \in Nat
  BY ConstantAssumption DEF LogOK
<1> DEFINE number == [round |-> r, proposer |-> n]
<1>1. /\ number \in ProposalNumber
      /\ Number(s)[n] = NoProposal /\ r > lastRound[n]
      /\ lastRound' = [lastRound EXCEPT ![n] = r]
      /\ numbers' = numbers \cup {[slot |-> s, number |-> number]}
      /\ Number(s)' = [Number(s) EXCEPT ![n] = number]
      /\ ValueOf(s)' = [ValueOf(s) EXCEPT ![n] = v]
      /\ \/ /\ Less(number, Promised(s)[n]) /\ UNCHANGED <<Promised(s), Promises(s)>>
         \/ /\ ~Less(number, Promised(s)[n])
            /\ Promised(s)' = [Promised(s) EXCEPT ![n] = number]
            /\ Promises(s)' = [Promises(s) EXCEPT ![n] = {[acceptor |-> n, accepted |-> Accepted(s)[n]]}]
      /\ Bodies(s)' = Bodies(s) \cup {[type |-> "Prepare", proposal |-> number]}
      /\ UNCHANGED <<Accepted(s), History(s), Learned(s), Started(s), AcceptedBy(s), chosen[s]>>
      /\ OthersSame(s)
  BY ProposeView
<1>2. /\ LastRound(s)' = [LastRound(s) EXCEPT ![n] = r]
      /\ \A u \in Slot : u # s => LastRound(u)' = LastRound(u)
  BY <1>1, LastRoundAfter
<1>3. r > LastRound(s)[n]
  BY <1>1, LastRoundIs
<1>4. Decree(s)!StartProposal(n, r, v)
  BY <1>1, <1>2, <1>3, SameOperators DEF Decree!StartProposal
<1>5. Decree(s)!Cardinality(Decree(s)!Prepares) < MaxProposals
  BY FewPrepares, SameOperators
<1>6. Decree(s)!Propose(n)
  BY <1>4, <1>5 DEF Decree!Propose
<1> QED BY <1>1, <1>2, <1>6, Untouched

LEMMA PromiseIsPromise ==
    ASSUME LogOK, TypeOK', NEW n \in Server, NEW s \in Slot, NEW m \in Bodies(s), ReceivePromise(n, s, m)
    PROVE  Decree(s)!ReceivePromise(n, m) /\ \A u \in Slot : u # s => UNCHANGED Decree(u)!vars
<1>1. Counts(n, s, m)
  BY PromiseView
<1>2. OthersSame(s) /\ \A u \in Slot : UNCHANGED LastRound(u)
  BY <1>1, SameLastRound DEF Counts
<1>3. m.acceptor \notin Decree(s)!Promisers(Promises(s)[n])
  BY <1>1 DEF Counts, Decree!Promisers
<1>4. Decree(s)!IsQuorum(Decree(s)!Promisers(Got(n, s, m))) <=> IsQuorum({p.acceptor : p \in Got(n, s, m)})
  BY SameOperators DEF Decree!Promisers
<1>5. CASE ~IsQuorum({p.acceptor : p \in Got(n, s, m)})
  <2>1. Waits(s)
    BY <1>5, PromiseView
  <2>2. Decree(s)!ReceivePromise(n, m)
    BY <1>1, <1>2, <1>3, <1>4, <1>5, <2>1 DEF Counts, Got, Waits, AcceptorView, Decree!ReceivePromise, Decree!acceptor
  <2> QED BY <1>2, <2>2, Untouched
<1>6. CASE IsQuorum({p.acceptor : p \in Got(n, s, m)})
  <2>1. PICK v \in ValuesToPropose(Got(n, s, m), ValueOf(s)[n]) : StartsAccepting(n, s, v)
    BY <1>6, PromiseView
  <2>2. v \in Decree(s)!ValuesToPropose(Got(n, s, m), ValueOf(s)[n])
    BY <1>1, <2>1, SameValues DEF Counts
  <2>3. Decree(s)!StartAcceptPhase(n, v)
    BY <2>1, SameOperators DEF StartsAccepting, Decree!StartAcceptPhase, Decree!Accept, Decree!acceptor, AcceptorView
  <2>4. Decree(s)!ReceivePromise(n, m)
    BY <1>1, <1>2, <1>3, <1>4, <1>6, <2>2, <2>3 DEF Counts, Got, Decree!ReceivePromise
  <2> QED BY <1>2, <2>4, Untouched
<1> QED BY <1>5, <1>6

LEMMA AcceptedIsAccepted ==
    ASSUME LogOK, TypeOK', NEW n \in Server, NEW s \in Slot, NEW m \in Bodies(s), ReceiveAccepted(n, s, m)
    PROVE  Decree(s)!ReceiveAccepted(n, m) /\ \A u \in Slot : u # s => UNCHANGED Decree(u)!vars
<1> DEFINE by == AcceptedBy(s)[n] \cup {m.acceptor}
<1>1. /\ m.type = "Accepted" /\ m.proposal = Number(s)[n] /\ Started(s)[n]
      /\ UNCHANGED <<AcceptorView(s), lastRound, numbers>>
      /\ OthersSame(s)
  BY AcceptedView
<1>2. \A u \in Slot : UNCHANGED LastRound(u)
  BY <1>1, SameLastRound
<1>3. UNCHANGED <<Promised(s), Accepted(s), History(s)>>
  BY <1>1 DEF AcceptorView
<1>4. CASE IsQuorum(by)
  <2>1. Decides(n, s)
    BY <1>4, AcceptedView
  <2>2. chosen'[s] = IF chosen[s] = Nothing THEN [proposal |-> Number(s)[n], value |-> ValueOf(s)[n]] ELSE chosen[s]
    BY <2>1 DEF Decides, LogOK, TypeOK
  <2>3. /\ Decree(s)!RecordChosen([proposal |-> Number(s)[n], value |-> ValueOf(s)[n]])
        /\ Decree(s)!LearnDecision(n, [proposal |-> Number(s)[n], value |-> ValueOf(s)[n]])
        /\ Decree(s)!ClearProposal(n)
    BY <2>1, <2>2, SameOperators DEF Decides, Decree!RecordChosen, Decree!LearnDecision, Decree!ClearProposal
  <2>4. Decree(s)!IsQuorum(by)
    BY <1>4, SameOperators
  <2>5. Decree(s)!ReceiveAccepted(n, m)
    BY <1>1, <1>2, <1>3, <2>1, <2>3, <2>4 DEF Decides, Decree!ReceiveAccepted, Decree!acceptor
  <2> QED BY <1>1, <1>2, <2>5, Untouched
<1>5. CASE ~IsQuorum(by)
  <2>1. /\ AcceptedBy(s)' = [AcceptedBy(s) EXCEPT ![n] = by]
        /\ UNCHANGED <<Number(s), ValueOf(s), Promises(s), Started(s), Learned(s), chosen, Bodies(s)>>
    BY <1>5, AcceptedView
  <2>2. ~Decree(s)!IsQuorum(by)
    BY <1>5, SameOperators
  <2>3. Decree(s)!ReceiveAccepted(n, m)
    BY <1>1, <1>2, <1>3, <2>1, <2>2 DEF Decree!ReceiveAccepted, Decree!acceptor
  <2> QED BY <1>1, <1>2, <2>3, Untouched
<1> QED BY <1>4, <1>5

LEMMA CrashIsCrash ==
    ASSUME TypeOK, NEW n \in Server, Crash(n), NEW s \in Slot
    PROVE  Decree(s)!Crash(n)
<1>1. UNCHANGED LastRound(s)
  BY SameLastRound DEF Crash
<1>2. /\ Number(s)' = [Number(s) EXCEPT ![n] = NoProposal]
      /\ ValueOf(s)' = [ValueOf(s) EXCEPT ![n] = None]
      /\ Promises(s)' = [Promises(s) EXCEPT ![n] = {}]
      /\ Started(s)' = [Started(s) EXCEPT ![n] = FALSE]
      /\ AcceptedBy(s)' = [AcceptedBy(s) EXCEPT ![n] = {}]
      /\ UNCHANGED <<AcceptorView(s), Learned(s), lastRound, chosen[s], Bodies(s), numbers>>
  BY CrashView
<1> QED BY <1>1, <1>2, SameOperators DEF Decree!Crash, Decree!ClearProposal, Decree!acceptor, AcceptorView

\* A step of the log is a reconstruction, or for every slot a step of its decree or none.
LEMMA StepOfEverySlot ==
    ASSUME LogOK, LogOK', [Next]_vars
    PROVE  Reconstruct \/ \A s \in Slot : Decree(s)!Next \/ UNCHANGED Decree(s)!vars
<1> TypeOK /\ TypeOK'
  BY DEF LogOK
<1>1. ASSUME NEW n \in Server, Propose(n) PROVE \A s \in Slot : Decree(s)!Next \/ UNCHANGED Decree(s)!vars
  <2>1. PICK s \in Slot, r \in 1..MaxRound, v \in Value : StartProposal(n, s, r, v)
    BY <1>1 DEF Propose
  <2>2. Decree(s)!Propose(n) /\ \A u \in Slot : u # s => UNCHANGED Decree(u)!vars
    BY <1>1, <2>1, ProposeIsPropose DEF Propose
  <2> QED BY <2>2 DEF Decree!Next
<1>2. ASSUME NEW n \in Server, NEW x \in msgs, Deliver(n, x.slot, x.body)
      PROVE  \A s \in Slot : Decree(s)!Next \/ UNCHANGED Decree(s)!vars
  <2> DEFINE s == x.slot
             m == x.body
  <2>1. s \in Slot /\ m \in Bodies(s)
    BY DEF TypeOK, Bodies
  <2> HIDE DEF s, m
  <2>2. Decree(s)!Deliver(n, m) /\ \A u \in Slot : u # s => UNCHANGED Decree(u)!vars
    <3>1. CASE ReceivePrepare(n, s, m)
      BY <2>1, <3>1, PrepareIsPrepare DEF Decree!Deliver
    <3>2. CASE ReceivePromise(n, s, m)
      BY <2>1, <3>2, PromiseIsPromise DEF Decree!Deliver
    <3>3. CASE ReceiveAcceptRequest(n, s, m)
      BY <2>1, <3>3, AcceptRequestIsAcceptRequest DEF Decree!Deliver
    <3>4. CASE ReceiveAccepted(n, s, m)
      BY <2>1, <3>4, AcceptedIsAccepted DEF Decree!Deliver
    <3>5. CASE ReceiveLearn(n, s, m)
      BY <2>1, <3>5, LearnIsLearn DEF Decree!Deliver
    <3> QED BY <1>2, <3>1, <3>2, <3>3, <3>4, <3>5 DEF Deliver, s, m
  <2> QED BY <2>1, <2>2 DEF Decree!Next
<1>3. ASSUME NEW n \in Server, Crash(n) PROVE \A s \in Slot : Decree(s)!Next \/ UNCHANGED Decree(s)!vars
  BY <1>3, CrashIsCrash DEF Decree!Next
<1>4. ASSUME UNCHANGED vars, NEW s \in Slot PROVE UNCHANGED Decree(s)!vars
  <2>1. UNCHANGED LastRound(s)
    BY <1>4, SameLastRound DEF vars
  <2>2. UNCHANGED <<AcceptorView(s), ProposerView(s), Learned(s), chosen[s], Bodies(s)>>
    BY <1>4, SameViews DEF vars
  <2> QED BY <2>1, <2>2 DEF AcceptorView, ProposerView, Decree!vars, Decree!acceptor, Decree!proposer
<1> QED BY <1>1, <1>2, <1>3, <1>4 DEF Next

LEMMA EverySlotStartsAsADecree == Init => \A s \in Slot : Decree(s)!Init
<1> SUFFICES ASSUME Init, NEW s \in Slot PROVE Decree(s)!Init
  OBVIOUS
<1>1. /\ promised = Everywhere(NoProposal) /\ accepted = Everywhere(Nothing) /\ learned = Everywhere(Nothing)
      /\ acceptHistory = [n \in Server |-> {}] /\ proposals = Everywhere(Idle)
      /\ chosen = [u \in Slot |-> Nothing] /\ msgs = {} /\ numbers = {}
  BY DEF Init
<1>2. \A n \in Server : RoundsOf(n, s) = {}
  BY <1>1 DEF RoundsOf
<1>3. \A n \in Server : LastRoundOf(n, s) = 0
  BY <1>2 DEF LastRoundOf
<1>4. /\ Promised(s) = [n \in Server |-> NoProposal]
      /\ Accepted(s) = [n \in Server |-> Nothing]
      /\ Learned(s) = [n \in Server |-> Nothing]
      /\ History(s) = [n \in Server |-> {}]
      /\ LastRound(s) = [n \in Server |-> 0]
      /\ chosen[s] = Nothing /\ Bodies(s) = {}
  BY <1>1, <1>3 DEF Everywhere, Promised, Accepted, Learned, Of, History, LastRound, Bodies
<1>5. \A n \in Server : proposals[n][s] = Idle
  BY <1>1 DEF Everywhere
<1>6. /\ Number(s) = [n \in Server |-> NoProposal]
      /\ ValueOf(s) = [n \in Server |-> None]
      /\ Promises(s) = [n \in Server |-> {}]
      /\ Started(s) = [n \in Server |-> FALSE]
      /\ AcceptedBy(s) = [n \in Server |-> {}]
  BY <1>5, IdleIsAProposal DEF Number, ValueOf, Promises, Started, AcceptedBy
<1> QED BY <1>4, <1>6, SameOperators DEF Decree!Init

\* Every slot of the log, seen on its own, is single-decree Paxos: of paxos_log.py, the slots
\* of a node share a round, a crash and a restart, and no step for one slot is felt by another.
THEOREM SlotsArePaxos == Spec => SlotsImplementPaxos
<1>1. LogOK /\ LogOK' /\ [Next]_vars => [Reconstruct \/ \A s \in Slot : Decree(s)!Next \/ UNCHANGED Decree(s)!vars]_vars
  BY StepOfEverySlot
<1> QED BY <1>1, InitOK, LogOKStep, EverySlotStartsAsADecree, PTL DEF Spec, SlotsImplementPaxos
-----------------------------------------------------------------------------
(* Safety: the inductive invariant of one slot *)

Request(b, v) == [type |-> "AcceptRequest", proposal |-> b, value |-> v]

Entry(b, v) == [proposal |-> b, value |-> v]

\* What has been said about a slot.  A reconstruction loses the messages but not the
\* acceptances: whatever an acceptor holds was requested once.
Said(s) == Bodies(s) \cup {Request(e.proposal, e.value) : e \in UNION {History(s)[n] : n \in Server}}

AcceptorOK(s) ==
    /\ Promised(s) \in [Server -> Numbers]
    /\ Accepted(s) \in [Server -> MaybeAccepted]
    /\ History(s) \in [Server -> SUBSET AcceptedValue]

ProposerOK(s) ==
    /\ Number(s) \in [Server -> Numbers]
    /\ ValueOf(s) \in [Server -> Value \cup {None}]
    /\ \A n \in Server : Number(s)[n] # NoProposal => ValueOf(s)[n] \in Value
    /\ Promises(s) \in [Server -> SUBSET PromiseOf]
    /\ Started(s) \in [Server -> BOOLEAN]
    /\ AcceptedBy(s) \in [Server -> SUBSET Server]

DecisionOK(s) ==
    /\ Learned(s) \in [Server -> MaybeAccepted]
    /\ LastRound(s) \in [Server -> Nat]
    /\ chosen[s] \in MaybeAccepted
    /\ Said(s) \subseteq Body

Acceptors(s, entry) == {n \in Server : entry \in History(s)[n]}

ChosenEntries(s) == {entry \in UNION {History(s)[n] : n \in Server} : IsQuorum(Acceptors(s, entry))}

Agreement(s) == \A e, f \in ChosenEntries(s) : e.value = f.value

DecisionsAreChosen(s) ==
    /\ \A n \in Server : Learned(s)[n] # Nothing => Learned(s)[n] \in ChosenEntries(s)
    /\ chosen[s] # Nothing => chosen[s] \in ChosenEntries(s)

\* Below the promised number the acceptor has accepted nothing higher than the promise says.
PromiseKept(s, a, number, acc) ==
    /\ ~Less(Promised(s)[a], number)
    /\ \A entry \in History(s)[a] :
           Less(entry.proposal, number) => ~Less(acc.proposal, entry.proposal)

\* Node a has accepted nothing at c and never will.
WontAccept(s, a, c) ==
    /\ Less(c, Promised(s)[a])
    /\ \A e \in History(s)[a] : e.proposal # c

\* No value but v has been or will be chosen below b.
SafeAt(s, v, b) ==
    \A c \in ProposalNumber : Less(c, b) =>
        \E Q \in SUBSET Server :
            IsQuorum(Q) /\ \A a \in Q : Entry(c, v) \in History(s)[a] \/ WontAccept(s, a, c)

\* Whatever was accepted was requested, is not above the promise, and is not above the
\* last value accepted, which is in the history.
AcceptorAt(s, n) ==
    /\ \A e \in History(s)[n] : /\ Request(e.proposal, e.value) \in Said(s)
                                   /\ ~Less(Promised(s)[n], e.proposal)
                                   /\ ~Less(Accepted(s)[n].proposal, e.proposal)
    /\ Accepted(s)[n] = Nothing \/ Accepted(s)[n] \in History(s)[n]

AcceptorInv(s) == \A n \in Server : AcceptorAt(s, n)

\* A node runs a proposal of its own, with its last round; accept requests for it go out
\* when its accept phase starts; the acceptances that it has counted are on disk.
ProposerAt(s, n) ==
    /\ Number(s)[n] # NoProposal => Number(s)[n].proposer = n /\ Number(s)[n].round <= LastRound(s)[n]
    /\ Number(s)[n] = NoProposal => Promises(s)[n] = {} /\ ~Started(s)[n]
    /\ ~Started(s)[n] => AcceptedBy(s)[n] = {}
    /\ Started(s)[n] => Request(Number(s)[n], ValueOf(s)[n]) \in Said(s)
    /\ \A v \in Value : Request(Number(s)[n], v) \in Said(s) => Started(s)[n]
    /\ \A a \in AcceptedBy(s)[n] : Entry(Number(s)[n], ValueOf(s)[n]) \in History(s)[a]

ProposerInv(s) == \A n \in Server : ProposerAt(s, n)

\* Every number in a message was allocated: its round is on its proposer's disk.
NumberInv(s) == \A m \in Said(s) : m.proposal.round <= LastRound(s)[m.proposal.proposer]

\* One number, one value.
RequestInv(s) ==
    \A b \in ProposalNumber, v, w \in Value : Request(b, v) \in Said(s) /\ Request(b, w) \in Said(s) => v = w

\* What is requested is safe.
SafeInv(s) == \A b \in ProposalNumber, v \in Value : Request(b, v) \in Said(s) => SafeAt(s, v, b)

\* A promise is kept, and what it reports was accepted.
PromiseTrue(s, a, b, acc) == PromiseKept(s, a, b, acc) /\ (acc = Nothing \/ acc \in History(s)[a])

PromiseInv(s) ==
    \A m \in Said(s) : m.type = "Promise" => PromiseTrue(s, m.acceptor, m.proposal, m.accepted)

HeldPromiseInv(s) ==
    \A n \in Server : \A p \in Promises(s)[n] : PromiseTrue(s, p.acceptor, Number(s)[n], p.accepted)

AcceptedInv(s) ==
    \A m \in Said(s) : m.type = "Accepted" => Entry(m.proposal, m.value) \in History(s)[m.acceptor]

LearnInv(s) == \A m \in Said(s) : m.type = "Learn" => Entry(m.proposal, m.value) \in ChosenEntries(s)

PaxosInv(s) ==
    /\ AcceptorInv(s) /\ ProposerInv(s) /\ NumberInv(s) /\ RequestInv(s) /\ SafeInv(s)
    /\ PromiseInv(s) /\ HeldPromiseInv(s) /\ AcceptedInv(s) /\ LearnInv(s) /\ DecisionsAreChosen(s)

SlotOK(s) == AcceptorOK(s) /\ ProposerOK(s) /\ DecisionOK(s)

AllSlotsOK == \A s \in Slot : SlotOK(s)

LEMMA SlotTypes == LogOK => AllSlotsOK
<1> SUFFICES ASSUME LogOK, NEW s \in Slot PROVE SlotOK(s)
  BY DEF AllSlotsOK
<1> TypeOK /\ NumberingOK
  BY DEF LogOK
<1>1. AcceptorOK(s)
  BY ViewTypes DEF AcceptorOK
<1>2. ProposerOK(s)
  <2>1. \A n \in Server : Number(s)[n] # NoProposal => ValueOf(s)[n] \in Value
    BY ViewAt DEF NumberingOK, Sound
  <2> QED BY <2>1, ViewTypes DEF ProposerOK
<1>3. LastRound(s) \in [Server -> Nat]
  <2>1. \A n \in Server : LastRound(s)[n] \in Nat
    BY LastRoundIs
  <2> QED BY <2>1 DEF LastRound
<1>4. Said(s) \subseteq Body
  <2>1. ASSUME NEW n \in Server, NEW e \in History(s)[n] PROVE Request(e.proposal, e.value) \in Body
    BY <1>1 DEF AcceptorOK, AcceptedValue, Body, Request
  <2> QED BY <2>1, ViewTypes DEF Said
<1> QED BY <1>1, <1>2, <1>3, <1>4, ViewTypes DEF SlotOK, DecisionOK

LEMMA SlotTypesNext == LogOK' => AllSlotsOK'
BY SlotTypes, PTL

-----------------------------------------------------------------------------
(* What stays true while acceptors only move up *)

AcceptorsAdvance(s) ==
    \A a \in Server :
        /\ ~Less(Promised(s)'[a], Promised(s)[a])
        /\ History(s)[a] \subseteq History(s)'[a]
        /\ \A e \in History(s)'[a] : e \in History(s)[a] \/ ~Less(e.proposal, Promised(s)[a])

LEMMA WontAcceptStable ==
    ASSUME NEW s \in Slot, AcceptorOK(s), AcceptorOK(s)', AcceptorsAdvance(s),
           NEW a \in Server, NEW c \in ProposalNumber, WontAccept(s, a, c)
    PROVE  WontAccept(s, a, c)'
<1>1. Promised(s)[a] \in Numbers /\ Promised(s)'[a] \in Numbers /\ c \in Numbers
  BY DEF AcceptorOK, Numbers
<1>2. ~Less(Promised(s)'[a], Promised(s)[a]) /\ Less(c, Promised(s)[a])
  BY DEF AcceptorsAdvance, WontAccept
<1>3. Less(c, Promised(s)'[a])
  <2>1. Promised(s)'[a] = Promised(s)[a] \/ Less(Promised(s)[a], Promised(s)'[a])
    BY <1>1, <1>2, NumberOrder
  <2> QED BY <1>1, <1>2, <2>1, NumberOrder
<1>4. \A e \in History(s)'[a] : e.proposal # c
  BY <1>2 DEF AcceptorsAdvance, WontAccept
<1> QED BY <1>3, <1>4 DEF WontAccept

LEMMA SafeAtStable ==
    ASSUME NEW s \in Slot, AcceptorOK(s), AcceptorOK(s)', AcceptorsAdvance(s),
           NEW v \in Value, NEW b \in ProposalNumber, SafeAt(s, v, b)
    PROVE  SafeAt(s, v, b)'
<1> SUFFICES ASSUME NEW c \in ProposalNumber, Less(c, b)
             PROVE  \E Q \in SUBSET Server :
                      IsQuorum(Q) /\ \A a \in Q : Entry(c, v) \in History(s)'[a] \/ WontAccept(s, a, c)'
  BY DEF SafeAt
<1>1. PICK Q \in SUBSET Server :
        IsQuorum(Q) /\ \A a \in Q : Entry(c, v) \in History(s)[a] \/ WontAccept(s, a, c)
  BY DEF SafeAt
<1>2. ASSUME NEW a \in Q PROVE Entry(c, v) \in History(s)'[a] \/ WontAccept(s, a, c)'
  BY <1>1, <1>2, WontAcceptStable DEF AcceptorsAdvance
<1> QED BY <1>1, <1>2

LEMMA PromiseStable ==
    ASSUME NEW s \in Slot, AcceptorOK(s), AcceptorOK(s)', AcceptorsAdvance(s),
           NEW a \in Server, NEW b \in Numbers, NEW acc, PromiseTrue(s, a, b, acc)
    PROVE  PromiseTrue(s, a, b, acc)'
<1>1. Promised(s)[a] \in Numbers /\ Promised(s)'[a] \in Numbers
  BY DEF AcceptorOK, Numbers
<1>2. ~Less(Promised(s)'[a], Promised(s)[a]) /\ ~Less(Promised(s)[a], b)
  BY DEF AcceptorsAdvance, PromiseTrue, PromiseKept
<1>3. ~Less(Promised(s)'[a], b)
  BY <1>1, <1>2, NumberOrder
<1>4. ASSUME NEW e \in History(s)'[a], Less(e.proposal, b) PROVE ~Less(acc.proposal, e.proposal)
  <2>1. e.proposal \in Numbers
    BY DEF AcceptorOK, AcceptedValue, Numbers
  <2>2. Less(e.proposal, Promised(s)[a])
    <3>1. Promised(s)[a] = b \/ Less(b, Promised(s)[a])
      BY <1>1, <1>2, NumberOrder
    <3> QED BY <1>1, <1>4, <2>1, <3>1, NumberOrder
  <2>3. e \in History(s)[a]
    BY <2>2 DEF AcceptorsAdvance
  <2> QED BY <1>4, <2>3 DEF PromiseTrue, PromiseKept
<1>5. acc = Nothing \/ acc \in History(s)'[a]
  BY DEF AcceptorsAdvance, PromiseTrue
<1> QED BY <1>3, <1>4, <1>5 DEF PromiseTrue, PromiseKept

LEMMA QuorumIsChosen ==
    ASSUME NEW s \in Slot, NEW e, NEW Q \in SUBSET Server, IsQuorum(Q), \A a \in Q : e \in History(s)[a]
    PROVE  e \in ChosenEntries(s)
<1>1. IsQuorum(Acceptors(s, e))
  BY QuorumGrows DEF Acceptors
<1>2. PICK a \in Q : TRUE
  BY QuorumIsInhabited
<1> QED BY <1>1, <1>2 DEF ChosenEntries

LEMMA ChosenStable ==
    ASSUME NEW s \in Slot, \A a \in Server : History(s)[a] \subseteq History(s)'[a], NEW e \in ChosenEntries(s)
    PROVE  e \in ChosenEntries(s)'
<1>1. IsQuorum(Acceptors(s, e)) /\ Acceptors(s, e) \in SUBSET Server
  BY DEF ChosenEntries, Acceptors
<1>2. Acceptors(s, e)' \in SUBSET Server /\ Acceptors(s, e) \subseteq Acceptors(s, e)'
  BY DEF Acceptors
<1>3. IsQuorum(Acceptors(s, e)')
  BY <1>1, <1>2, QuorumGrows
<1>4. PICK a \in Acceptors(s, e)' : TRUE
  BY <1>2, <1>3, QuorumIsInhabited
<1>5. e \in History(s)'[a] /\ a \in Server
  BY <1>4 DEF Acceptors
<1> QED BY <1>3, <1>5 DEF ChosenEntries, Acceptors, IsQuorum

\* Two quorums of acceptances are for one value.
LEMMA ChosenAgree == \A s \in Slot : AcceptorOK(s) /\ AcceptorInv(s) /\ RequestInv(s) /\ SafeInv(s) => Agreement(s)
<1> SUFFICES ASSUME NEW s \in Slot, AcceptorOK(s), AcceptorInv(s), RequestInv(s), SafeInv(s),
                    NEW e \in ChosenEntries(s), NEW f \in ChosenEntries(s)
             PROVE  e.value = f.value
  BY DEF Agreement
<1>1. \A x \in ChosenEntries(s) : /\ x \in AcceptedValue /\ Acceptors(s, x) \in SUBSET Server
                               /\ IsQuorum(Acceptors(s, x))
                               /\ Request(x.proposal, x.value) \in Said(s)
  BY DEF ChosenEntries, Acceptors, AcceptorOK, AcceptorInv, AcceptorAt
<1>2. \A x \in ChosenEntries(s) : x.proposal \in ProposalNumber /\ x.value \in Value
  BY <1>1 DEF AcceptedValue
<1>3. ASSUME NEW x \in ChosenEntries(s), NEW y \in ChosenEntries(s), Less(x.proposal, y.proposal)
      PROVE  x.value = y.value
  <2>1. SafeAt(s, y.value, y.proposal)
    BY <1>1, <1>2 DEF SafeInv
  <2>2. PICK Q \in SUBSET Server :
           /\ IsQuorum(Q)
           /\ \A a \in Q : Entry(x.proposal, y.value) \in History(s)[a] \/ WontAccept(s, a, x.proposal)
    BY <1>2, <1>3, <2>1 DEF SafeAt
  <2>3. PICK a \in Q : a \in Acceptors(s, x)
    BY <1>1, <2>2, QuorumsMeet
  <2>4. x \in History(s)[a] /\ a \in Server
    BY <2>3 DEF Acceptors
  <2>5. Entry(x.proposal, y.value) \in History(s)[a]
    BY <2>2, <2>4 DEF WontAccept
  <2>6. Request(x.proposal, y.value) \in Said(s)
    BY <2>4, <2>5 DEF AcceptorInv, AcceptorAt, Entry
  <2> QED BY <1>1, <1>2, <2>6 DEF RequestInv
<1>4. CASE e.proposal = f.proposal
  BY <1>1, <1>2, <1>4 DEF RequestInv
<1>5. CASE e.proposal # f.proposal
  BY <1>2, <1>3, <1>5, NumberOrder DEF Numbers
<1> QED BY <1>4, <1>5

-----------------------------------------------------------------------------
(* The value of the accept phase is safe *)

Promisers(S) == {p.acceptor : p \in S}

LEMMA DecreeProposes ==
    ASSUME NEW s \in Slot, NEW S, NEW original, NEW v \in Decree(s)!ValuesToPropose(S, original)
    PROVE  \/ (\A p \in S : p.accepted = Nothing) /\ v = original
           \/ (\E p \in S : p.accepted # Nothing) /\ \E p \in Highest(S) : v = p.accepted.value
<1>1. Decree(s)!Highest(S) = Highest(S)
  BY SameOperators DEF Decree!Highest, Highest
<1> QED BY <1>1, SameOperators DEF Decree!ValuesToPropose

LEMMA PromisedValueIsSafe ==
    ASSUME NEW s \in Slot, AcceptorOK(s), AcceptorInv(s), RequestInv(s), SafeInv(s),
           NEW S \in SUBSET PromiseOf, NEW b \in ProposalNumber, IsQuorum(Promisers(S)),
           \A p \in S : PromiseTrue(s, p.acceptor, b, p.accepted),
           NEW original \in Value, NEW v \in Decree(s)!ValuesToPropose(S, original)
    PROVE  SafeAt(s, v, b)
<1> DEFINE Q == Promisers(S)
<1> SUFFICES ASSUME NEW c \in ProposalNumber, Less(c, b)
             PROVE  \E R \in SUBSET Server :
                      IsQuorum(R) /\ \A a \in R : Entry(c, v) \in History(s)[a] \/ WontAccept(s, a, c)
  BY DEF SafeAt
<1>1. Q \in SUBSET Server
  BY DEF Promisers, PromiseOf
<1>2. ASSUME NEW a \in Q
      PROVE  Less(c, Promised(s)[a]) /\ \E p \in S : p.acceptor = a /\ p.accepted \in MaybeAccepted
  <2>1. PICK p \in S : p.acceptor = a /\ p.accepted \in MaybeAccepted
    BY DEF Promisers, PromiseOf
  <2>2. ~Less(Promised(s)[a], b)
    BY <2>1 DEF PromiseTrue, PromiseKept
  <2>3. Promised(s)[a] \in Numbers /\ b \in Numbers /\ c \in Numbers
    BY <1>1 DEF AcceptorOK, Numbers
  <2>4. Promised(s)[a] = b \/ Less(b, Promised(s)[a])
    BY <2>2, <2>3, NumberOrder
  <2> QED BY <2>1, <2>3, <2>4, NumberOrder
<1>3. CASE \A p \in S : p.accepted = Nothing
  <2>1. ASSUME NEW a \in Q PROVE WontAccept(s, a, c)
    <3>1. PICK p \in S : p.acceptor = a
      BY <1>2
    <3>2. \A e \in History(s)[a] : Less(e.proposal, b) => ~Less(NoProposal, e.proposal)
      BY <1>3, <3>1 DEF PromiseTrue, PromiseKept, Nothing
    <3> QED BY <1>2, <3>2, NoProposalIsLowest DEF WontAccept
  <2> QED BY <1>1, <2>1
<1>4. CASE \E p \in S : p.accepted # Nothing
  <2>1. PICK h \in Highest(S) : v = h.accepted.value
    BY <1>4, DecreeProposes
  <2> DEFINE k == h.accepted.proposal
  <2>2. /\ h \in S /\ h.accepted \in AcceptedValue /\ v \in Value /\ k \in ProposalNumber
        /\ h.accepted = Entry(k, v)
    BY <1>4, <2>1, HighestIsReal DEF Entry, AcceptedValue
  <2>3. Request(k, v) \in Said(s)
    <3>1. h.accepted \in History(s)[h.acceptor] /\ h.acceptor \in Server
      BY <2>2, NoProposalIsLowest DEF PromiseTrue, PromiseOf, Nothing
    <3> QED BY <2>1, <3>1 DEF AcceptorInv, AcceptorAt
  <2> HIDE DEF k
  <2>4. CASE Less(c, k)
    BY <2>2, <2>3, <2>4 DEF SafeInv, SafeAt
  <2>5. CASE c = k
    <3>1. ASSUME NEW a \in Q PROVE Entry(c, v) \in History(s)[a] \/ WontAccept(s, a, c)
      <4>1. SUFFICES ASSUME NEW e \in History(s)[a], e.proposal = c
                     PROVE  Entry(c, v) \in History(s)[a]
        BY <1>2 DEF WontAccept
      <4>2. e \in AcceptedValue /\ Request(c, e.value) \in Said(s)
        BY <1>1, <4>1 DEF AcceptorOK, AcceptorInv, AcceptorAt
      <4>3. e.value \in Value /\ e = Entry(c, e.value)
        BY <4>1, <4>2 DEF AcceptedValue, Entry
      <4>4. e.value = v
        BY <2>2, <2>3, <2>5, <4>2, <4>3 DEF RequestInv
      <4> QED BY <4>3, <4>4
    <3> QED BY <1>1, <3>1
  <2>6. CASE Less(k, c)
    <3>1. ASSUME NEW a \in Q PROVE WontAccept(s, a, c)
      <4>1. PICK p \in S : p.acceptor = a /\ p.accepted \in MaybeAccepted
        BY <1>2
      <4>2. ~Less(k, p.accepted.proposal)
        BY <2>1, <4>1 DEF Highest, k
      <4>3. p.accepted.proposal \in Numbers
        BY <4>1 DEF MaybeAccepted, AcceptedValue, Nothing, Numbers
      <4>4. Less(p.accepted.proposal, c)
        <5>1. p.accepted.proposal = k \/ Less(p.accepted.proposal, k)
          BY <2>2, <4>2, <4>3, NumberOrder DEF Numbers
        <5> QED BY <2>2, <2>6, <4>3, <5>1, NumberOrder DEF Numbers
      <4>5. \A e \in History(s)[a] : e.proposal # c
        BY <4>1, <4>4 DEF PromiseTrue, PromiseKept
      <4> QED BY <1>2, <4>5 DEF WontAccept
    <3> QED BY <1>1, <3>1
  <2> QED BY <2>2, <2>4, <2>5, <2>6, NumberOrder DEF Numbers
<1> QED BY <1>3, <1>4

\* What an advance of the acceptors carries over.
LEMMA Stability ==
    ASSUME NEW s \in Slot, AcceptorOK(s), AcceptorOK(s)', AcceptorsAdvance(s)
    PROVE  /\ \A a \in Server, b \in Numbers, acc \in MaybeAccepted :
                 PromiseTrue(s, a, b, acc) => PromiseTrue(s, a, b, acc)'
           /\ \A b \in ProposalNumber, v \in Value : SafeAt(s, v, b) => SafeAt(s, v, b)'
           /\ ChosenEntries(s) \subseteq ChosenEntries(s)'
           /\ \A a \in Server : History(s)[a] \subseteq History(s)'[a]
<1>1. \A a \in Server, b \in Numbers, acc \in MaybeAccepted :
         PromiseTrue(s, a, b, acc) => PromiseTrue(s, a, b, acc)'
  BY PromiseStable
<1>2. \A b \in ProposalNumber, v \in Value : SafeAt(s, v, b) => SafeAt(s, v, b)'
  BY SafeAtStable
<1>3. ChosenEntries(s) \subseteq ChosenEntries(s)'
  BY ChosenStable DEF AcceptorsAdvance
<1> QED BY <1>1, <1>2, <1>3 DEF AcceptorsAdvance

-----------------------------------------------------------------------------
(* Frame lemmas: what a step leaves alone *)

\* The parts of the invariant about messages and decisions, for a step that sends new.
LEMMA CarryMessages ==
    ASSUME NEW s \in Slot, SlotOK(s), SlotOK(s)', PaxosInv(s), AcceptorsAdvance(s),
           NEW new \in SUBSET Body, Said(s)' = Said(s) \cup new,
           \A n \in Server : LastRound(s)[n] <= LastRound(s)'[n],
           \A m \in new : m.proposal.round <= LastRound(s)'[m.proposal.proposer],
           \A m \in new : m.type = "Promise" => PromiseTrue(s, m.acceptor, m.proposal, m.accepted)',
           \A m \in new : m.type = "Accepted" => Entry(m.proposal, m.value) \in History(s)'[m.acceptor],
           \A m \in new : m.type = "Learn" => Entry(m.proposal, m.value) \in ChosenEntries(s)',
           \A b \in ProposalNumber, v \in Value : Request(b, v) \in new =>
               SafeAt(s, v, b)' /\ \A w \in Value : Request(b, w) \in Said(s)' => w = v,
           \A n \in Server : Learned(s)'[n] = Learned(s)[n] \/ Learned(s)'[n] \in ChosenEntries(s)',
           chosen'[s] = chosen[s] \/ chosen'[s] \in ChosenEntries(s)'
    PROVE  /\ NumberInv(s)' /\ RequestInv(s)' /\ SafeInv(s)' /\ PromiseInv(s)' /\ AcceptedInv(s)' /\ LearnInv(s)'
           /\ DecisionsAreChosen(s)'
<1> AcceptorOK(s) /\ AcceptorOK(s)' /\ DecisionOK(s) /\ DecisionOK(s)'
  BY DEF SlotOK
<1> /\ NumberInv(s) /\ RequestInv(s) /\ SafeInv(s) /\ PromiseInv(s) /\ AcceptedInv(s) /\ LearnInv(s)
    /\ DecisionsAreChosen(s)
  BY DEF PaxosInv
<1>n. \A m \in Body : m.proposal \in ProposalNumber /\ m.proposal.round \in Nat /\ m.proposal.proposer \in Server
  BY DEF Body, ProposalNumber
<1>m. Said(s) \subseteq Body
  BY DEF DecisionOK
<1>1. NumberInv(s)'
  <2> SUFFICES ASSUME NEW m \in Said(s)' PROVE m.proposal.round <= LastRound(s)'[m.proposal.proposer]
    BY DEF NumberInv
  <2>1. CASE m \in Said(s)
    <3>1. m.proposal.round \in Nat /\ m.proposal.proposer \in Server
      BY <1>n, <1>m, <2>1
    <3>2. LastRound(s)[m.proposal.proposer] \in Nat /\ LastRound(s)'[m.proposal.proposer] \in Nat
      BY <3>1 DEF DecisionOK
    <3>3. m.proposal.round <= LastRound(s)[m.proposal.proposer]
      BY <2>1 DEF NumberInv
    <3> QED BY <3>1, <3>2, <3>3
  <2> QED BY <2>1
<1>2. RequestInv(s)'
  BY DEF RequestInv
<1>3. SafeInv(s)'
  BY Stability DEF SafeInv
<1>4. PromiseInv(s)'
  <2> SUFFICES ASSUME NEW m \in Said(s)', m.type = "Promise"
               PROVE  PromiseTrue(s, m.acceptor, m.proposal, m.accepted)'
    BY DEF PromiseInv
  <2>1. CASE m \in Said(s)
    <3>1. m.acceptor \in Server /\ m.proposal \in Numbers /\ m.accepted \in MaybeAccepted
      BY <1>m, <2>1 DEF Body, Numbers
    <3>2. PromiseTrue(s, m.acceptor, m.proposal, m.accepted)
      BY <2>1 DEF PromiseInv
    <3> QED BY <3>1, <3>2, Stability
  <2> QED BY <2>1
<1>5. AcceptedInv(s)'
  <2> SUFFICES ASSUME NEW m \in Said(s)', m.type = "Accepted"
               PROVE  Entry(m.proposal, m.value) \in History(s)'[m.acceptor]
    BY DEF AcceptedInv, Entry
  <2>1. CASE m \in Said(s)
    <3>1. m.acceptor \in Server
      BY <1>m, <2>1 DEF Body
    <3> QED BY <2>1, <3>1, Stability DEF AcceptedInv
  <2> QED BY <2>1
<1>6. LearnInv(s)'
  BY Stability DEF LearnInv, Entry
<1>7. DecisionsAreChosen(s)'
  BY Stability DEF DecisionsAreChosen
<1> QED BY <1>1, <1>2, <1>3, <1>4, <1>5, <1>6, <1>7

LEMMA CarryAcceptor ==
    ASSUME NEW s \in Slot, NEW a \in Server, AcceptorAt(s, a), Said(s) \subseteq Said(s)',
           Promised(s)'[a] = Promised(s)[a], Accepted(s)'[a] = Accepted(s)[a], History(s)'[a] = History(s)[a]
    PROVE  AcceptorAt(s, a)'
BY DEF AcceptorAt, Request

LEMMA CarryProposer ==
    ASSUME NEW s \in Slot, SlotOK(s), SlotOK(s)', AcceptorsAdvance(s), NEW k \in Server, ProposerAt(s, k), Said(s) \subseteq Said(s)',
           Number(s)'[k] = Number(s)[k], ValueOf(s)'[k] = ValueOf(s)[k], Promises(s)'[k] = Promises(s)[k],
           Started(s)'[k] = Started(s)[k], AcceptedBy(s)'[k] = AcceptedBy(s)[k],
           LastRound(s)[k] <= LastRound(s)'[k],
           \A v \in Value : Request(Number(s)[k], v) \in Said(s)' => Request(Number(s)[k], v) \in Said(s)
    PROVE  ProposerAt(s, k)'
<1>1. AcceptedBy(s)[k] \subseteq Server /\ \A a \in Server : History(s)[a] \subseteq History(s)'[a]
  BY DEF SlotOK, ProposerOK, AcceptorsAdvance
<1>2. Number(s)[k] # NoProposal => Number(s)[k].round <= LastRound(s)'[k]
  <2> SUFFICES ASSUME Number(s)[k] # NoProposal PROVE Number(s)[k].round <= LastRound(s)'[k]
    OBVIOUS
  <2>1. Number(s)[k].round \in Nat
    BY DEF SlotOK, ProposerOK, Numbers, ProposalNumber
  <2>2. LastRound(s)[k] \in Nat /\ LastRound(s)'[k] \in Nat
    BY DEF SlotOK, DecisionOK
  <2> QED BY <2>1, <2>2 DEF ProposerAt
<1> QED BY <1>1, <1>2 DEF ProposerAt, Request, Entry

LEMMA CarryHeldPromises ==
    ASSUME NEW s \in Slot, SlotOK(s), SlotOK(s)', HeldPromiseInv(s), AcceptorsAdvance(s), NEW k \in Server,
           Number(s)'[k] = Number(s)[k], Promises(s)'[k] = Promises(s)[k]
    PROVE  \A p \in Promises(s)'[k] : PromiseTrue(s, p.acceptor, Number(s)[k], p.accepted)'
<1> SUFFICES ASSUME NEW p \in Promises(s)[k]
             PROVE  PromiseTrue(s, p.acceptor, Number(s)[k], p.accepted)'
  OBVIOUS
<1>1. p.acceptor \in Server /\ p.accepted \in MaybeAccepted /\ Number(s)[k] \in Numbers
  BY DEF SlotOK, ProposerOK, PromiseOf, Numbers
<1>2. PromiseTrue(s, p.acceptor, Number(s)[k], p.accepted)
  BY DEF HeldPromiseInv
<1>3. \A b \in Numbers : PromiseTrue(s, p.acceptor, b, p.accepted) => PromiseTrue(s, p.acceptor, b, p.accepted)'
  BY <1>1, Stability DEF SlotOK
<1> QED BY <1>1, <1>2, <1>3

-----------------------------------------------------------------------------
(* The invariant is inductive *)

\* An acceptance, and the end of a proposal, as the slot sees them.
Accepts(s, n, b, v) ==
    /\ Promised(s)' = [Promised(s) EXCEPT ![n] = b]
    /\ Accepted(s)' = [Accepted(s) EXCEPT ![n] = Entry(b, v)]
    /\ History(s)' = [History(s) EXCEPT ![n] = @ \cup {Entry(b, v)}]

Forgets(s, n) ==
    /\ Number(s)' = [Number(s) EXCEPT ![n] = NoProposal]
    /\ ValueOf(s)' = [ValueOf(s) EXCEPT ![n] = None]
    /\ Promises(s)' = [Promises(s) EXCEPT ![n] = {}]
    /\ Started(s)' = [Started(s) EXCEPT ![n] = FALSE]
    /\ AcceptedBy(s)' = [AcceptedBy(s) EXCEPT ![n] = {}]

LEMMA AcceptsIs ==
    ASSUME NEW s \in Slot, NEW n, NEW b, NEW v, Decree(s)!Accept(n, b, v)
    PROVE  Accepts(s, n, b, v)
BY DEF Decree!Accept, Accepts, Entry

LEMMA ForgetsIs ==
    ASSUME NEW s \in Slot, NEW n, Decree(s)!ClearProposal(n)
    PROVE  Forgets(s, n)
BY SameOperators DEF Decree!ClearProposal, Forgets

\* What has been said grows with the messages; an acceptance of a request says nothing new.
LEMMA SaidGrows ==
    ASSUME NEW s \in Slot, NEW new, Bodies(s)' = Bodies(s) \cup new, UNCHANGED History(s)
    PROVE  Said(s)' = Said(s) \cup new
BY DEF Said

LEMMA SaidAccepts ==
    ASSUME NEW s \in Slot, AcceptorOK(s), NEW n \in Server, NEW b \in ProposalNumber, NEW v \in Value,
           NEW new, Bodies(s)' = Bodies(s) \cup {new}, Request(b, v) \in Bodies(s)', Accepts(s, n, b, v)
    PROVE  Said(s)' = Said(s) \cup {new}
<1> DEFINE All == UNION {History(s)[k] : k \in Server}
           Asked(H) == {Request(e.proposal, e.value) : e \in H}
<1>1. \A k \in Server : History(s)'[k] = IF k = n THEN History(s)[k] \cup {Entry(b, v)} ELSE History(s)[k]
  BY DEF Accepts, AcceptorOK
<1>2. UNION {History(s)'[k] : k \in Server} = All \cup {Entry(b, v)}
  BY <1>1
<1> HIDE DEF All
<1>3. Asked(All \cup {Entry(b, v)}) = Asked(All) \cup {Request(b, v)}
  <2> DEFINE e == Entry(b, v)
  <2>1. e.proposal = b /\ e.value = v
    BY DEF Entry
  <2> HIDE DEF e
  <2>2. Asked(All \cup {e}) = Asked(All) \cup {Request(e.proposal, e.value)}
    OBVIOUS
  <2> QED BY <2>1, <2>2 DEF e
<1>4. Said(s) = Bodies(s) \cup Asked(All)
  BY DEF Said, All
<1>5. Said(s)' = Bodies(s)' \cup Asked(All \cup {Entry(b, v)})
  BY <1>2 DEF Said
<1> HIDE DEF Asked
<1> QED BY <1>3, <1>4, <1>5

\* What StartProposal does, by conjunct.
LEMMA StartProposalStep ==
    ASSUME NEW s \in Slot, SlotOK(s), SlotOK(s)', PaxosInv(s),
           NEW n \in Server, NEW r \in Nat \ {0}, NEW v \in Value,
           Decree(s)!StartProposal(n, r, v)
    PROVE  PaxosInv(s)'
<1> AcceptorOK(s) /\ AcceptorOK(s)' /\ ProposerOK(s) /\ ProposerOK(s)' /\ DecisionOK(s) /\ DecisionOK(s)'
  BY DEF SlotOK
<1> AcceptorInv(s) /\ ProposerInv(s) /\ NumberInv(s) /\ HeldPromiseInv(s)
  BY DEF PaxosInv
<1> DEFINE number == [round |-> r, proposer |-> n]
           prepare == [type |-> "Prepare", proposal |-> number]
<1>1. number \in ProposalNumber /\ number \in Numbers /\ number # NoProposal /\ prepare \in Body
  BY NoProposalIsLowest DEF ProposalNumber, Numbers, Body
<1>2. /\ UNCHANGED <<Accepted(s), History(s), Learned(s), Started(s), AcceptedBy(s), chosen[s]>>
      /\ Said(s)' = Said(s) \cup {prepare}
      /\ Number(s)[n] = NoProposal /\ r > LastRound(s)[n]
      /\ LastRound(s)' = [LastRound(s) EXCEPT ![n] = r]
      /\ Number(s)' = [Number(s) EXCEPT ![n] = number]
      /\ ValueOf(s)' = [ValueOf(s) EXCEPT ![n] = v]
  <2>1. /\ Bodies(s)' = Bodies(s) \cup {prepare}
        /\ UNCHANGED <<Accepted(s), History(s), Learned(s), Started(s), AcceptedBy(s), chosen[s]>>
    BY DEF Decree!StartProposal
  <2>2. Said(s)' = Said(s) \cup {prepare}
    BY <2>1, SaidGrows
  <2> QED BY <2>1, <2>2, SameOperators DEF Decree!StartProposal
<1>3. \/ /\ Less(number, Promised(s)[n]) /\ UNCHANGED <<Promised(s), Promises(s)>>
      \/ /\ ~Less(number, Promised(s)[n])
         /\ Promised(s)' = [Promised(s) EXCEPT ![n] = number]
         /\ Promises(s)' = [Promises(s) EXCEPT ![n] = {[acceptor |-> n, accepted |-> Accepted(s)[n]]}]
  BY SameOperators DEF Decree!StartProposal
<1> HIDE DEF number
<1>4. AcceptorsAdvance(s)
  <2> SUFFICES ASSUME NEW a \in Server PROVE ~Less(Promised(s)'[a], Promised(s)[a])
    BY <1>2 DEF AcceptorsAdvance
  <2>1. Promised(s)[a] \in Numbers
    BY DEF AcceptorOK, Numbers
  <2> QED BY <1>3, <2>1, NumberOrder DEF AcceptorOK
<1>5. \A b, w : Request(b, w) \in Said(s)' => Request(b, w) \in Said(s)
  BY <1>2 DEF Request
<1>6. \A k \in Server : LastRound(s)[k] <= LastRound(s)'[k]
  BY <1>2 DEF DecisionOK
<1>7. AcceptorInv(s)'
  <2> SUFFICES ASSUME NEW a \in Server PROVE AcceptorAt(s, a)'
    BY DEF AcceptorInv
  <2>1. CASE Promised(s)'[a] = Promised(s)[a]
    BY <1>2, <2>1, CarryAcceptor DEF AcceptorInv
  <2>2. CASE Promised(s)'[a] # Promised(s)[a]
    <3>1. AcceptorAt(s, a) /\ ~Less(Promised(s)'[a], Promised(s)[a])
      BY <1>4 DEF AcceptorInv, AcceptorsAdvance
    <3>2. ASSUME NEW e \in History(s)[a] PROVE ~Less(Promised(s)'[a], e.proposal)
      <4>1. e.proposal \in Numbers /\ Promised(s)[a] \in Numbers /\ Promised(s)'[a] \in Numbers
        BY DEF AcceptorOK, AcceptedValue, Numbers
      <4> QED BY <3>1, <3>2, <4>1, NumberOrder DEF AcceptorAt
    <3> QED BY <1>2, <3>1, <3>2 DEF AcceptorAt, Request
  <2> QED BY <2>1, <2>2
<1>8. ProposerInv(s)'
  <2> SUFFICES ASSUME NEW k \in Server PROVE ProposerAt(s, k)'
    BY DEF ProposerInv
  <2>1. CASE k # n
    BY <1>2, <1>3, <1>4, <1>5, <1>6, <2>1, CarryProposer DEF ProposerInv, ProposerOK
  <2>2. CASE k = n
    <3>1. ProposerAt(s, n)
      BY DEF ProposerInv
    <3>2. ASSUME NEW w \in Value, Request(number, w) \in Said(s) PROVE FALSE
      <4>1. number.round <= LastRound(s)[number.proposer]
        BY <3>2 DEF NumberInv, Request
      <4>2. number.round = r /\ number.proposer = n /\ LastRound(s)[n] \in Nat
        BY DEF number, DecisionOK
      <4> QED BY <1>2, <4>1, <4>2
    <3>3. number.proposer = n /\ number.round = r
      BY DEF number
    <3>4. ~Started(s)'[n] /\ AcceptedBy(s)'[n] = {}
      BY <1>2, <3>1 DEF ProposerAt
    <3>5. Number(s)'[n] = number /\ LastRound(s)'[n] = r
      BY <1>2 DEF ProposerOK, DecisionOK
    <3> QED BY <1>1, <1>5, <2>2, <3>2, <3>3, <3>4, <3>5 DEF ProposerAt
  <2> QED BY <2>1, <2>2
<1>9. HeldPromiseInv(s)'
  <2> SUFFICES ASSUME NEW k \in Server
               PROVE  \A p \in Promises(s)'[k] : PromiseTrue(s, p.acceptor, Number(s)[k], p.accepted)'
    BY DEF HeldPromiseInv
  <2>1. CASE k # n
    <3>1. Number(s)'[k] = Number(s)[k] /\ Promises(s)'[k] = Promises(s)[k]
      BY <1>2, <1>3, <2>1 DEF ProposerOK
    <3> QED BY <1>4, <3>1, CarryHeldPromises
  <2>2. CASE k = n
    <3>1. Promises(s)[n] = {}
      BY <1>2 DEF ProposerInv, ProposerAt
    <3>2. CASE UNCHANGED Promises(s)
      BY <2>2, <3>1, <3>2
    <3>3. CASE /\ Promised(s)' = [Promised(s) EXCEPT ![n] = number]
               /\ Promises(s)' = [Promises(s) EXCEPT ![n] = {[acceptor |-> n, accepted |-> Accepted(s)[n]]}]
      <4>1. Promises(s)'[n] = {[acceptor |-> n, accepted |-> Accepted(s)[n]]} /\ Number(s)'[n] = number
        BY <1>2, <3>3 DEF ProposerOK
      <4>2. Promised(s)'[n] = number /\ ~Less(number, number)
        BY <1>1, <3>3, NumberOrder DEF AcceptorOK
      <4>3. PromiseTrue(s, n, number, Accepted(s)[n])'
        BY <1>2, <1>7, <4>2 DEF PromiseTrue, PromiseKept, AcceptorInv, AcceptorAt
      <4> QED BY <1>2, <2>2, <4>1, <4>3
    <3> QED BY <1>3, <3>2, <3>3
  <2> QED BY <2>1, <2>2
<1>10. number.proposer = n /\ number.round = r /\ LastRound(s)'[n] = r
  BY <1>2 DEF number, DecisionOK
<1>11. /\ NumberInv(s)' /\ RequestInv(s)' /\ SafeInv(s)' /\ PromiseInv(s)' /\ AcceptedInv(s)' /\ LearnInv(s)'
       /\ DecisionsAreChosen(s)'
  <2>1. {prepare} \in SUBSET Body /\ \A m \in {prepare} : m.type = "Prepare" /\ m.proposal = number
    BY <1>1
  <2>2. \A m \in {prepare} : m.proposal.round <= LastRound(s)'[m.proposal.proposer]
    BY <1>10, <2>1
  <2>3. \A b \in ProposalNumber, w \in Value : Request(b, w) \notin {prepare}
    BY DEF Request
  <2> HIDE DEF prepare
  <2> QED BY <1>2, <1>4, <1>6, <2>1, <2>2, <2>3, CarryMessages
<1> QED BY <1>7, <1>8, <1>9, <1>11 DEF PaxosInv

\* A promise that goes up, with nothing accepted.
LEMMA PromiseAdvances ==
    ASSUME NEW s \in Slot, AcceptorOK(s), AcceptorOK(s)', AcceptorInv(s), Said(s) \subseteq Said(s)',
           NEW n \in Server, NEW b \in ProposalNumber, ~Less(b, Promised(s)[n]),
           Promised(s)' = [Promised(s) EXCEPT ![n] = b], UNCHANGED <<Accepted(s), History(s)>>
    PROVE  AcceptorsAdvance(s) /\ AcceptorInv(s)'
<1>1. \A a \in Server : Promised(s)[a] \in Numbers /\ Promised(s)'[a] \in Numbers
  BY DEF AcceptorOK, Numbers
<1>2. \A a \in Server : ~Less(Promised(s)'[a], Promised(s)[a])
  BY <1>1, NumberOrder DEF AcceptorOK
<1>3. ASSUME NEW a \in Server PROVE AcceptorAt(s, a)'
  <2>1. ASSUME NEW e \in History(s)[a] PROVE ~Less(Promised(s)'[a], e.proposal)
    <3>1. e.proposal \in Numbers
      BY DEF AcceptorOK, AcceptedValue, Numbers
    <3> QED BY <1>1, <1>2, <3>1, NumberOrder DEF AcceptorInv, AcceptorAt
  <2> QED BY <2>1 DEF AcceptorInv, AcceptorAt, Request
<1> QED BY <1>2, <1>3 DEF AcceptorsAdvance, AcceptorInv

\* An acceptance.
LEMMA AcceptAdvances ==
    ASSUME NEW s \in Slot, AcceptorOK(s), AcceptorOK(s)', AcceptorInv(s), Said(s) \subseteq Said(s)',
           NEW n \in Server, NEW b \in ProposalNumber, NEW v \in Value, ~Less(b, Promised(s)[n]),
           Accepts(s, n, b, v), Request(b, v) \in Said(s)'
    PROVE  AcceptorsAdvance(s) /\ AcceptorInv(s)' /\ Entry(b, v) \in History(s)'[n]
<1> /\ Promised(s)' = [Promised(s) EXCEPT ![n] = b]
    /\ Accepted(s)' = [Accepted(s) EXCEPT ![n] = Entry(b, v)]
    /\ History(s)' = [History(s) EXCEPT ![n] = @ \cup {Entry(b, v)}]
  BY DEF Accepts
<1>1. \A a \in Server : Promised(s)[a] \in Numbers /\ Promised(s)'[a] \in Numbers
  BY DEF AcceptorOK, Numbers
<1>2. \A a \in Server : ~Less(Promised(s)'[a], Promised(s)[a])
  BY <1>1, NumberOrder DEF AcceptorOK
<1>3. /\ Promised(s)'[n] = b /\ Accepted(s)'[n] = Entry(b, v)
      /\ History(s)'[n] = History(s)[n] \cup {Entry(b, v)}
  BY DEF AcceptorOK
<1>4. Entry(b, v).proposal = b /\ Entry(b, v).value = v /\ b \in Numbers
  BY DEF Entry, Numbers
<1>5. \A a \in Server : a # n => /\ Promised(s)'[a] = Promised(s)[a] /\ Accepted(s)'[a] = Accepted(s)[a]
                                 /\ History(s)'[a] = History(s)[a]
  BY DEF AcceptorOK
<1> HIDE DEF Entry
<1>6. AcceptorsAdvance(s)
  BY <1>2, <1>3, <1>4, <1>5 DEF AcceptorsAdvance
<1>7. ASSUME NEW a \in Server PROVE AcceptorAt(s, a)'
  <2>1. CASE a # n
    BY <1>5, <2>1, CarryAcceptor DEF AcceptorInv
  <2>2. CASE a = n
    <3>1. ASSUME NEW e \in History(s)[n] PROVE ~Less(b, e.proposal) /\ Request(e.proposal, e.value) \in Said(s)
      <4>1. e.proposal \in Numbers
        BY DEF AcceptorOK, AcceptedValue, Numbers
      <4>2. ~Less(Promised(s)[n], e.proposal) /\ Request(e.proposal, e.value) \in Said(s)
        BY DEF AcceptorInv, AcceptorAt
      <4> QED BY <1>1, <1>4, <4>1, <4>2, NumberOrder
    <3>2. ~Less(b, b)
      BY <1>4, NumberOrder
    <3> QED BY <1>3, <1>4, <2>2, <3>1, <3>2 DEF AcceptorAt, Request
  <2> QED BY <2>1, <2>2
<1> QED BY <1>3, <1>6, <1>7 DEF AcceptorInv

LEMMA ReceivePrepareStep ==
    ASSUME NEW s \in Slot, SlotOK(s), SlotOK(s)', PaxosInv(s),
           NEW n \in Server, NEW m \in Bodies(s), Decree(s)!ReceivePrepare(n, m)
    PROVE  PaxosInv(s)'
<1> AcceptorOK(s) /\ AcceptorOK(s)' /\ ProposerOK(s) /\ ProposerOK(s)' /\ DecisionOK(s) /\ DecisionOK(s)'
  BY DEF SlotOK
<1> AcceptorInv(s) /\ ProposerInv(s) /\ NumberInv(s) /\ HeldPromiseInv(s)
  BY DEF PaxosInv
<1> DEFINE new == [type |-> "Promise", proposal |-> m.proposal, acceptor |-> n, accepted |-> Accepted(s)[n]]
<1>1. m.proposal \in ProposalNumber /\ m.proposal \in Numbers /\ new \in Body
  <2>1. m \in Body /\ m.type = "Prepare"
    BY DEF Decree!ReceivePrepare, DecisionOK, Said
  <2> QED BY <2>1 DEF AcceptorOK, Body, Numbers
<1>2. /\ UNCHANGED <<Accepted(s), History(s), Learned(s), LastRound(s), ProposerView(s), chosen[s]>>
      /\ Said(s)' = Said(s) \cup {new}
      /\ ~Less(m.proposal, Promised(s)[n])
      /\ Promised(s)' = [Promised(s) EXCEPT ![n] = m.proposal]
  <2>1. /\ Bodies(s)' = Bodies(s) \cup {new}
        /\ UNCHANGED <<Accepted(s), History(s), Learned(s), LastRound(s), ProposerView(s), chosen[s]>>
    BY DEF Decree!ReceivePrepare, Decree!proposer, ProposerView
  <2> QED BY <2>1, SaidGrows, SameOperators DEF Decree!ReceivePrepare
<1>3. AcceptorsAdvance(s) /\ AcceptorInv(s)'
  BY <1>1, <1>2, PromiseAdvances
<1>4. \A b, w : Request(b, w) \in Said(s)' => Request(b, w) \in Said(s)
  BY <1>2 DEF Request
<1>5. \A k \in Server : LastRound(s)[k] <= LastRound(s)'[k]
  BY <1>2 DEF DecisionOK
<1>6. ProposerInv(s)'
  BY <1>2, <1>3, <1>4, <1>5, CarryProposer DEF ProposerInv, ProposerView
<1>7. HeldPromiseInv(s)'
  BY <1>2, <1>3, CarryHeldPromises DEF HeldPromiseInv, ProposerView
<1>8. PromiseTrue(s, n, m.proposal, Accepted(s)[n])'
  <2>1. Promised(s)'[n] = m.proposal /\ ~Less(m.proposal, m.proposal)
    BY <1>1, <1>2, NumberOrder DEF AcceptorOK
  <2> QED BY <1>2, <1>3, <2>1 DEF PromiseTrue, PromiseKept, AcceptorInv, AcceptorAt
<1>9. /\ NumberInv(s)' /\ RequestInv(s)' /\ SafeInv(s)' /\ PromiseInv(s)' /\ AcceptedInv(s)' /\ LearnInv(s)'
      /\ DecisionsAreChosen(s)'
  <2>1. /\ {new} \in SUBSET Body
        /\ \A x \in {new} : /\ x.type = "Promise" /\ x.proposal = m.proposal
                            /\ x.acceptor = n /\ x.accepted = Accepted(s)[n]
    BY <1>1
  <2>2. \A x \in {new} : x.proposal.round <= LastRound(s)'[x.proposal.proposer]
    BY <1>2, <2>1 DEF NumberInv, Said
  <2>3. \A b \in ProposalNumber, w \in Value : Request(b, w) \notin {new}
    BY DEF Request
  <2>4. \A x \in {new} : PromiseTrue(s, x.acceptor, x.proposal, x.accepted)'
    BY <1>2, <1>8, <2>1
  <2> HIDE DEF new
  <2> QED BY <1>2, <1>3, <1>5, <2>1, <2>2, <2>3, <2>4, CarryMessages
<1> QED BY <1>3, <1>6, <1>7, <1>9 DEF PaxosInv

LEMMA ReceiveAcceptRequestStep ==
    ASSUME NEW s \in Slot, SlotOK(s), SlotOK(s)', PaxosInv(s),
           NEW n \in Server, NEW m \in Bodies(s), Decree(s)!ReceiveAcceptRequest(n, m)
    PROVE  PaxosInv(s)'
<1> AcceptorOK(s) /\ AcceptorOK(s)' /\ ProposerOK(s) /\ ProposerOK(s)' /\ DecisionOK(s) /\ DecisionOK(s)'
  BY DEF SlotOK
<1> AcceptorInv(s) /\ ProposerInv(s) /\ NumberInv(s) /\ HeldPromiseInv(s)
  BY DEF PaxosInv
<1> DEFINE new == [type |-> "Accepted", proposal |-> m.proposal, acceptor |-> n, value |-> m.value]
<1>1. /\ m.proposal \in ProposalNumber /\ m.value \in Value /\ new \in Body
      /\ m = Request(m.proposal, m.value)
  <2>1. m \in Body /\ m.type = "AcceptRequest"
    BY DEF Decree!ReceiveAcceptRequest, DecisionOK, Said
  <2> QED BY <2>1 DEF Body, Request
<1>2. /\ UNCHANGED <<Learned(s), LastRound(s), ProposerView(s), chosen[s]>>
      /\ Said(s)' = Said(s) \cup {new}
      /\ ~Less(m.proposal, Promised(s)[n])
      /\ Accepts(s, n, m.proposal, m.value)
  <2>1. /\ Bodies(s)' = Bodies(s) \cup {new}
        /\ Decree(s)!Accept(n, m.proposal, m.value)
        /\ UNCHANGED <<Learned(s), LastRound(s), ProposerView(s), chosen[s]>>
    BY DEF Decree!ReceiveAcceptRequest, Decree!proposer, ProposerView
  <2>2. Accepts(s, n, m.proposal, m.value)
    BY <2>1, AcceptsIs
  <2>3. Said(s)' = Said(s) \cup {new}
    BY <1>1, <2>1, <2>2, SaidAccepts
  <2> QED BY <2>1, <2>2, <2>3, SameOperators DEF Decree!ReceiveAcceptRequest
<1>3. AcceptorsAdvance(s) /\ AcceptorInv(s)' /\ Entry(m.proposal, m.value) \in History(s)'[n]
  <2>1. Request(m.proposal, m.value) \in Said(s)
    BY <1>1 DEF Said
  <2> QED BY <1>1, <1>2, <2>1, AcceptAdvances
<1>4. \A b, w : Request(b, w) \in Said(s)' => Request(b, w) \in Said(s)
  BY <1>2 DEF Request
<1>5. \A k \in Server : LastRound(s)[k] <= LastRound(s)'[k]
  BY <1>2 DEF DecisionOK
<1>6. ProposerInv(s)'
  BY <1>2, <1>3, <1>4, <1>5, CarryProposer DEF ProposerInv, ProposerView
<1>7. HeldPromiseInv(s)'
  BY <1>2, <1>3, CarryHeldPromises DEF HeldPromiseInv, ProposerView
<1>9. /\ NumberInv(s)' /\ RequestInv(s)' /\ SafeInv(s)' /\ PromiseInv(s)' /\ AcceptedInv(s)' /\ LearnInv(s)'
      /\ DecisionsAreChosen(s)'
  <2>1. /\ {new} \in SUBSET Body
        /\ \A x \in {new} : /\ x.type = "Accepted" /\ x.proposal = m.proposal
                            /\ x.acceptor = n /\ x.value = m.value
    BY <1>1
  <2>2. \A x \in {new} : x.proposal.round <= LastRound(s)'[x.proposal.proposer]
    BY <1>2, <2>1 DEF NumberInv, Said
  <2>3. \A b \in ProposalNumber, w \in Value : Request(b, w) \notin {new}
    BY DEF Request
  <2>4. \A x \in {new} : Entry(x.proposal, x.value) \in History(s)'[x.acceptor]
    BY <1>3, <2>1
  <2> HIDE DEF new
  <2> QED BY <1>2, <1>3, <1>5, <2>1, <2>2, <2>3, <2>4, CarryMessages
<1> QED BY <1>3, <1>6, <1>7, <1>9 DEF PaxosInv

\* A step that sends nothing and leaves the acceptors alone.
LEMMA SilentStep ==
    ASSUME NEW s \in Slot, SlotOK(s), SlotOK(s)', PaxosInv(s),
           UNCHANGED <<AcceptorView(s), LastRound(s), Said(s)>>,
           \A n \in Server : Learned(s)'[n] = Learned(s)[n] \/ Learned(s)'[n] \in ChosenEntries(s),
           chosen'[s] = chosen[s] \/ chosen'[s] \in ChosenEntries(s)
    PROVE  /\ AcceptorsAdvance(s) /\ AcceptorInv(s)'
           /\ NumberInv(s)' /\ RequestInv(s)' /\ SafeInv(s)' /\ PromiseInv(s)' /\ AcceptedInv(s)' /\ LearnInv(s)'
           /\ DecisionsAreChosen(s)'
<1>1. UNCHANGED <<Promised(s), Accepted(s), History(s)>>
  BY DEF AcceptorView
<1>2. AcceptorsAdvance(s)
  <2>1. \A a \in Server : Promised(s)[a] \in Numbers
    BY DEF SlotOK, AcceptorOK, Numbers
  <2> QED BY <1>1, <2>1, NumberOrder DEF AcceptorsAdvance
<1>3. AcceptorInv(s)'
  BY <1>1, CarryAcceptor DEF PaxosInv, AcceptorInv
<1>4. ChosenEntries(s)' = ChosenEntries(s)
  BY <1>1 DEF ChosenEntries, Acceptors
<1>5. {} \in SUBSET Body /\ Said(s)' = Said(s) \cup {} /\ \A k \in Server : LastRound(s)[k] <= LastRound(s)'[k]
  BY DEF SlotOK, DecisionOK
<1> QED BY <1>2, <1>3, <1>4, <1>5, CarryMessages

LEMMA CrashStep ==
    ASSUME NEW s \in Slot, SlotOK(s), SlotOK(s)', PaxosInv(s),
           NEW n \in Server, Decree(s)!Crash(n)
    PROVE  PaxosInv(s)'
<1> ProposerOK(s) /\ DecisionOK(s) /\ ProposerInv(s) /\ HeldPromiseInv(s)
  BY DEF SlotOK, PaxosInv
<1>1. UNCHANGED <<AcceptorView(s), Learned(s), LastRound(s), chosen[s], Said(s)>> /\ Forgets(s, n)
  <2>1. UNCHANGED <<Promised(s), Accepted(s), History(s), Learned(s), LastRound(s), chosen[s], Bodies(s)>>
    BY DEF Decree!Crash, Decree!acceptor
  <2>2. Said(s)' = Said(s)
    BY <2>1 DEF Said
  <2> QED BY <2>1, <2>2, ForgetsIs DEF Decree!Crash, AcceptorView
<1>2. /\ AcceptorsAdvance(s) /\ AcceptorInv(s)'
      /\ NumberInv(s)' /\ RequestInv(s)' /\ SafeInv(s)' /\ PromiseInv(s)' /\ AcceptedInv(s)' /\ LearnInv(s)'
      /\ DecisionsAreChosen(s)'
  BY <1>1, SilentStep
<1>3. ASSUME NEW k \in Server
      PROVE  ProposerAt(s, k)' /\ \A p \in Promises(s)'[k] : PromiseTrue(s, p.acceptor, Number(s)[k], p.accepted)'
  <2>1. CASE k # n
    <3>1. /\ Number(s)'[k] = Number(s)[k] /\ ValueOf(s)'[k] = ValueOf(s)[k] /\ Promises(s)'[k] = Promises(s)[k]
          /\ Started(s)'[k] = Started(s)[k] /\ AcceptedBy(s)'[k] = AcceptedBy(s)[k] /\ LastRound(s)[k] <= LastRound(s)'[k]
      BY <1>1, <2>1 DEF Forgets, ProposerOK, DecisionOK
    <3> QED BY <1>1, <1>2, <3>1, CarryProposer, CarryHeldPromises DEF ProposerInv
  <2>2. CASE k = n
    <3>1. /\ Number(s)'[n] = NoProposal /\ Promises(s)'[n] = {} /\ Started(s)'[n] = FALSE
          /\ AcceptedBy(s)'[n] = {}
      BY <1>1 DEF Forgets, ProposerOK
    <3>2. ASSUME NEW v \in Value PROVE Request(NoProposal, v) \notin Said(s)
      BY NoProposalIsLowest DEF DecisionOK, Body, Request
    <3> QED BY <1>1, <2>2, <3>1, <3>2 DEF ProposerAt
  <2> QED BY <2>1, <2>2
<1> QED BY <1>2, <1>3 DEF PaxosInv, ProposerInv, HeldPromiseInv

LEMMA ReceiveLearnStep ==
    ASSUME NEW s \in Slot, SlotOK(s), SlotOK(s)', PaxosInv(s),
           NEW n \in Server, NEW m \in Bodies(s), Decree(s)!ReceiveLearn(n, m)
    PROVE  PaxosInv(s)'
<1> ProposerOK(s) /\ DecisionOK(s) /\ ProposerInv(s) /\ HeldPromiseInv(s)
  BY DEF SlotOK, PaxosInv
<1>1. UNCHANGED <<AcceptorView(s), LastRound(s), ProposerView(s), chosen[s], Said(s)>>
  <2>1. UNCHANGED <<Promised(s), Accepted(s), History(s), LastRound(s), ProposerView(s), chosen[s], Bodies(s)>>
    BY DEF Decree!ReceiveLearn, Decree!acceptor, Decree!proposer, ProposerView
  <2> QED BY <2>1 DEF AcceptorView, Said
<1>2. \A k \in Server : Learned(s)'[k] = Learned(s)[k] \/ Learned(s)'[k] \in ChosenEntries(s)
  <2>1. m \in Said(s) /\ m.type = "Learn"
    BY DEF Decree!ReceiveLearn, Said
  <2>2. Entry(m.proposal, m.value) \in ChosenEntries(s)
    BY <2>1 DEF PaxosInv, LearnInv
  <2>3. Learned(s)' = [Learned(s) EXCEPT ![n] = IF @ = Nothing THEN Entry(m.proposal, m.value) ELSE @]
    BY SameOperators DEF Decree!ReceiveLearn, Decree!LearnDecision, Entry
  <2> QED BY <2>2, <2>3 DEF DecisionOK
<1>3. /\ AcceptorsAdvance(s) /\ AcceptorInv(s)'
      /\ NumberInv(s)' /\ RequestInv(s)' /\ SafeInv(s)' /\ PromiseInv(s)' /\ AcceptedInv(s)' /\ LearnInv(s)'
      /\ DecisionsAreChosen(s)'
  BY <1>1, <1>2, SilentStep
<1>4. \A k \in Server : LastRound(s)[k] <= LastRound(s)'[k]
  BY <1>1 DEF DecisionOK
<1>5. ProposerInv(s)'
  BY <1>1, <1>3, <1>4, CarryProposer DEF ProposerInv, ProposerView
<1>6. HeldPromiseInv(s)'
  BY <1>1, <1>3, CarryHeldPromises DEF HeldPromiseInv, ProposerView
<1> QED BY <1>3, <1>5, <1>6 DEF PaxosInv

LEMMA ReceiveAcceptedStep ==
    ASSUME NEW s \in Slot, SlotOK(s), SlotOK(s)', PaxosInv(s),
           NEW n \in Server, NEW m \in Bodies(s), Decree(s)!ReceiveAccepted(n, m)
    PROVE  PaxosInv(s)'
<1> AcceptorOK(s) /\ ProposerOK(s) /\ DecisionOK(s) /\ ProposerInv(s) /\ HeldPromiseInv(s) /\ NumberInv(s)
  BY DEF SlotOK, PaxosInv
<1> DEFINE by == AcceptedBy(s)[n] \cup {m.acceptor}
           entry == Entry(Number(s)[n], ValueOf(s)[n])
<1>1. /\ m.type = "Accepted" /\ m.proposal = Number(s)[n] /\ Started(s)[n]
      /\ m \in Said(s) /\ m \in Body
      /\ UNCHANGED <<AcceptorView(s), LastRound(s)>>
  BY DEF Decree!ReceiveAccepted, Decree!acceptor, AcceptorView, Said, DecisionOK
<1>2. /\ m.acceptor \in Server /\ m.proposal \in ProposalNumber /\ m.value \in Value
      /\ ValueOf(s)[n] \in Value /\ by \in SUBSET Server
  BY <1>1, NoProposalIsLowest DEF DecisionOK, ProposerOK, Body
<1>3. m.value = ValueOf(s)[n]
  <2>1. Entry(m.proposal, m.value) \in History(s)[m.acceptor]
    BY <1>1 DEF PaxosInv, AcceptedInv
  <2>2. Request(m.proposal, m.value) \in Said(s)
    BY <1>2, <2>1 DEF PaxosInv, AcceptorInv, AcceptorAt, Entry
  <2>3. Request(m.proposal, ValueOf(s)[n]) \in Said(s)
    BY <1>1 DEF ProposerInv, ProposerAt
  <2> QED BY <1>2, <2>2, <2>3 DEF PaxosInv, RequestInv
<1>4. \A a \in by : entry \in History(s)[a]
  BY <1>1, <1>3 DEF PaxosInv, AcceptedInv, ProposerInv, ProposerAt
<1>5. CASE ~IsQuorum(by)
  <2>1. /\ AcceptedBy(s)' = [AcceptedBy(s) EXCEPT ![n] = by]
        /\ UNCHANGED <<Number(s), ValueOf(s), Promises(s), Started(s), Learned(s), chosen[s], Said(s)>>
    <3>1. ~Decree(s)!IsQuorum(by)
      BY <1>5, SameOperators
    <3>2. /\ AcceptedBy(s)' = [AcceptedBy(s) EXCEPT ![n] = by]
          /\ UNCHANGED <<Number(s), ValueOf(s), Promises(s), Started(s), Learned(s), chosen[s], Bodies(s)>>
      BY <3>1 DEF Decree!ReceiveAccepted
    <3> QED BY <1>1, <3>2 DEF Said, AcceptorView
  <2>2. /\ AcceptorsAdvance(s) /\ AcceptorInv(s)'
        /\ NumberInv(s)' /\ RequestInv(s)' /\ SafeInv(s)' /\ PromiseInv(s)' /\ AcceptedInv(s)' /\ LearnInv(s)'
        /\ DecisionsAreChosen(s)'
    BY <1>1, <2>1, SilentStep
  <2>3. \A k \in Server : LastRound(s)[k] <= LastRound(s)'[k]
    BY <1>1 DEF DecisionOK
  <2>4. ASSUME NEW k \in Server PROVE ProposerAt(s, k)'
    <3>1. CASE k # n
      <4>1. AcceptedBy(s)'[k] = AcceptedBy(s)[k]
        BY <2>1, <3>1 DEF ProposerOK
      <4> QED BY <2>1, <2>2, <2>3, <4>1, CarryProposer DEF ProposerInv
    <3>2. CASE k = n
      <4>1. AcceptedBy(s)'[n] = by /\ History(s)' = History(s)
        BY <1>1, <2>1 DEF ProposerOK, AcceptorView
      <4>2. ProposerAt(s, n)
        BY DEF ProposerInv
      <4> QED BY <1>1, <1>4, <2>1, <3>2, <4>1, <4>2 DEF ProposerAt
    <3> QED BY <3>1, <3>2
  <2>5. HeldPromiseInv(s)'
    BY <2>1, <2>2, CarryHeldPromises DEF HeldPromiseInv
  <2> QED BY <2>2, <2>4, <2>5 DEF PaxosInv, ProposerInv
<1>6. CASE IsQuorum(by)
  <2> DEFINE new == [type |-> "Learn", proposal |-> Number(s)[n], value |-> ValueOf(s)[n]]
  <2>1. /\ chosen'[s] = IF chosen[s] = Nothing THEN entry ELSE chosen[s]
        /\ Learned(s)' = [Learned(s) EXCEPT ![n] = IF @ = Nothing THEN entry ELSE @]
        /\ Said(s)' = Said(s) \cup {new}
        /\ Forgets(s, n)
    <3>1. Decree(s)!IsQuorum(by)
      BY <1>6, SameOperators
    <3>2. /\ Decree(s)!RecordChosen(entry) /\ Decree(s)!LearnDecision(n, entry)
          /\ Bodies(s)' = Bodies(s) \cup {new}
          /\ Decree(s)!ClearProposal(n)
      BY <3>1 DEF Decree!ReceiveAccepted, Entry
    <3>3. Said(s)' = Said(s) \cup {new} /\ Forgets(s, n)
      BY <1>1, <3>2, SaidGrows, ForgetsIs DEF AcceptorView
    <3> QED BY <3>2, <3>3, SameOperators DEF Decree!RecordChosen, Decree!LearnDecision
  <2>2. entry \in ChosenEntries(s)
    BY <1>2, <1>4, <1>6, QuorumIsChosen
  <2>3. UNCHANGED <<Promised(s), Accepted(s), History(s)>> /\ ChosenEntries(s)' = ChosenEntries(s)
    BY <1>1 DEF AcceptorView, ChosenEntries, Acceptors
  <2>4. AcceptorsAdvance(s)
    <3>1. \A a \in Server : Promised(s)[a] \in Numbers
      BY DEF AcceptorOK, Numbers
    <3> QED BY <2>3, <3>1, NumberOrder DEF AcceptorsAdvance
  <2>5. AcceptorInv(s)'
    BY <2>1, <2>3, CarryAcceptor DEF PaxosInv, AcceptorInv
  <2>6. \A k \in Server : LastRound(s)[k] <= LastRound(s)'[k]
    BY <1>1 DEF DecisionOK
  <2>7. \A b, w : Request(b, w) \in Said(s)' => Request(b, w) \in Said(s)
    BY <2>1 DEF Request
  <2>8. ASSUME NEW k \in Server
        PROVE  ProposerAt(s, k)' /\ \A p \in Promises(s)'[k] : PromiseTrue(s, p.acceptor, Number(s)[k], p.accepted)'
    <3>1. CASE k # n
      <4>1. /\ Number(s)'[k] = Number(s)[k] /\ ValueOf(s)'[k] = ValueOf(s)[k] /\ Promises(s)'[k] = Promises(s)[k]
            /\ Started(s)'[k] = Started(s)[k] /\ AcceptedBy(s)'[k] = AcceptedBy(s)[k] /\ Said(s) \subseteq Said(s)'
        BY <2>1, <3>1 DEF Forgets, ProposerOK
      <4> QED BY <2>4, <2>6, <2>7, <4>1, CarryProposer, CarryHeldPromises DEF ProposerInv
    <3>2. CASE k = n
      <4>1. /\ Number(s)'[n] = NoProposal /\ Promises(s)'[n] = {} /\ Started(s)'[n] = FALSE
            /\ AcceptedBy(s)'[n] = {}
        BY <2>1 DEF Forgets, ProposerOK
      <4>2. ASSUME NEW v \in Value PROVE Request(NoProposal, v) \notin Said(s)
        BY NoProposalIsLowest DEF DecisionOK, Body, Request
      <4> QED BY <2>7, <3>2, <4>1, <4>2 DEF ProposerAt
    <3> QED BY <3>1, <3>2
  <2>9. /\ NumberInv(s)' /\ RequestInv(s)' /\ SafeInv(s)' /\ PromiseInv(s)' /\ AcceptedInv(s)' /\ LearnInv(s)'
        /\ DecisionsAreChosen(s)'
    <3>1. /\ {new} \in SUBSET Body
          /\ \A x \in {new} : x.type = "Learn" /\ x.proposal = m.proposal /\ x.value = ValueOf(s)[n]
      BY <1>1, <1>2 DEF Body
    <3>2. \A x \in {new} : x.proposal.round <= LastRound(s)'[x.proposal.proposer]
      BY <1>1, <3>1 DEF NumberInv
    <3>3. \A b \in ProposalNumber, w \in Value : Request(b, w) \notin {new}
      BY DEF Request
    <3>4. \A x \in {new} : Entry(x.proposal, x.value) \in ChosenEntries(s)'
      BY <1>1, <2>2, <2>3, <3>1
    <3>5. \A k \in Server : Learned(s)'[k] = Learned(s)[k] \/ Learned(s)'[k] \in ChosenEntries(s)'
      BY <2>1, <2>2, <2>3 DEF DecisionOK
    <3>6. chosen'[s] = chosen[s] \/ chosen'[s] \in ChosenEntries(s)'
      BY <2>1, <2>2, <2>3
    <3> HIDE DEF new, entry
    <3> QED BY <2>1, <2>4, <2>6, <3>1, <3>2, <3>3, <3>4, <3>5, <3>6, CarryMessages
  <2> QED BY <2>5, <2>8, <2>9 DEF PaxosInv, ProposerInv, HeldPromiseInv
<1> QED BY <1>5, <1>6

LEMMA ReceivePromiseStep ==
    ASSUME NEW s \in Slot, SlotOK(s), SlotOK(s)', PaxosInv(s),
           NEW n \in Server, NEW m \in Bodies(s), Decree(s)!ReceivePromise(n, m)
    PROVE  PaxosInv(s)'
<1> /\ AcceptorOK(s) /\ AcceptorOK(s)' /\ ProposerOK(s) /\ ProposerOK(s)' /\ DecisionOK(s) /\ DecisionOK(s)'
    /\ AcceptorInv(s) /\ ProposerInv(s) /\ HeldPromiseInv(s) /\ NumberInv(s) /\ RequestInv(s) /\ SafeInv(s)
  BY DEF SlotOK, PaxosInv
<1> DEFINE held == [acceptor |-> m.acceptor, accepted |-> m.accepted]
           got == Promises(s)[n] \cup {held}
           b == Number(s)[n]
<1>1. /\ m.type = "Promise" /\ m.proposal = b /\ ~Started(s)[n]
      /\ Promises(s)' = [Promises(s) EXCEPT ![n] = got]
      /\ m \in Said(s) /\ m \in Body
      /\ UNCHANGED <<Learned(s), LastRound(s), Number(s), chosen[s]>>
  BY DEF Decree!ReceivePromise, Said, DecisionOK
<1>2. m.acceptor \in Server /\ m.accepted \in MaybeAccepted /\ b \in ProposalNumber
  BY <1>1 DEF DecisionOK, Body
<1>3. b \in Numbers /\ b # NoProposal /\ ValueOf(s)[n] \in Value /\ b.proposer = n
  BY <1>2, NoProposalIsLowest DEF Numbers, ProposerOK, ProposerInv, ProposerAt
<1>4. got \in SUBSET PromiseOf
  BY <1>2 DEF ProposerOK, PromiseOf
<1>5. \A p \in got : PromiseTrue(s, p.acceptor, b, p.accepted)
  BY <1>1 DEF PaxosInv, PromiseInv, HeldPromiseInv
<1>6. \A k \in Server : LastRound(s)[k] <= LastRound(s)'[k]
  BY <1>1 DEF DecisionOK
<1>7. ASSUME AcceptorsAdvance(s) PROVE HeldPromiseInv(s)'
  <2> SUFFICES ASSUME NEW k \in Server
               PROVE  \A p \in Promises(s)'[k] : PromiseTrue(s, p.acceptor, Number(s)[k], p.accepted)'
    BY DEF HeldPromiseInv
  <2>1. CASE k # n
    <3>1. Promises(s)'[k] = Promises(s)[k] /\ Number(s)'[k] = Number(s)[k]
      BY <1>1, <2>1 DEF ProposerOK
    <3> QED BY <1>7, <3>1, CarryHeldPromises
  <2>2. CASE k = n
    <3>1. Promises(s)'[n] = got /\ Number(s)'[n] = b
      BY <1>1 DEF ProposerOK
    <3>2. ASSUME NEW p \in got PROVE PromiseTrue(s, p.acceptor, Number(s)[n], p.accepted)'
      <4>1. p.acceptor \in Server /\ p.accepted \in MaybeAccepted
        BY <1>4 DEF PromiseOf
      <4>2. PromiseTrue(s, p.acceptor, b, p.accepted)
        BY <1>5
      <4>3. \A c \in Numbers : PromiseTrue(s, p.acceptor, c, p.accepted) => PromiseTrue(s, p.acceptor, c, p.accepted)'
        BY <1>7, <4>1, Stability
      <4> QED BY <1>1, <1>3, <4>2, <4>3
    <3> QED BY <2>2, <3>1, <3>2
  <2> QED BY <2>1, <2>2
<1>8. CASE ~IsQuorum(Promisers(got))
  <2>1. UNCHANGED <<AcceptorView(s), ValueOf(s), Started(s), AcceptedBy(s), Said(s)>>
    <3>1. ~Decree(s)!IsQuorum(Decree(s)!Promisers(got))
      BY <1>8, SameOperators DEF Promisers, Decree!Promisers
    <3>2. UNCHANGED <<Promised(s), Accepted(s), History(s), ValueOf(s), Started(s), AcceptedBy(s), Bodies(s)>>
      BY <3>1 DEF Decree!ReceivePromise, Decree!acceptor
    <3> QED BY <3>2 DEF AcceptorView, Said
  <2>2. /\ AcceptorsAdvance(s) /\ AcceptorInv(s)'
        /\ NumberInv(s)' /\ RequestInv(s)' /\ SafeInv(s)' /\ PromiseInv(s)' /\ AcceptedInv(s)' /\ LearnInv(s)'
        /\ DecisionsAreChosen(s)'
    BY <1>1, <2>1, SilentStep
  <2>3. ASSUME NEW k \in Server PROVE ProposerAt(s, k)'
    <3>1. CASE k # n
      <4>1. Promises(s)'[k] = Promises(s)[k]
        BY <1>1, <3>1 DEF ProposerOK
      <4> QED BY <1>1, <1>6, <2>1, <2>2, <4>1, CarryProposer DEF ProposerInv
    <3>2. CASE k = n
      <4>1. History(s)' = History(s) /\ ProposerAt(s, n)
        BY <2>1 DEF AcceptorView, ProposerInv
      <4> QED BY <1>1, <1>3, <2>1, <3>2, <4>1 DEF ProposerAt
    <3> QED BY <3>1, <3>2
  <2> QED BY <1>7, <2>2, <2>3 DEF PaxosInv, ProposerInv
<1>9. CASE IsQuorum(Promisers(got))
  <2>1. PICK v \in Decree(s)!ValuesToPropose(got, ValueOf(s)[n]) : Decree(s)!StartAcceptPhase(n, v)
    <3>1. Decree(s)!IsQuorum(Decree(s)!Promisers(got))
      BY <1>9, SameOperators DEF Promisers, Decree!Promisers
    <3> QED BY <3>1 DEF Decree!ReceivePromise
  <2>2. SafeAt(s, v, b)
    <3> HIDE DEF got, b
    <3> QED BY <1>2, <1>3, <1>4, <1>5, <1>9, PromisedValueIsSafe
  <2>3. v \in Value
    <3> HIDE DEF got
    <3> QED BY <1>3, <1>4, <2>1, DecreeProposes, HighestIsReal
  <2>4. /\ ValueOf(s)' = [ValueOf(s) EXCEPT ![n] = v]
        /\ Started(s)' = [Started(s) EXCEPT ![n] = TRUE]
        /\ Bodies(s)' = Bodies(s) \cup {Request(b, v)}
    BY <2>1 DEF Decree!StartAcceptPhase, Request
  <2>5. \/ UNCHANGED <<AcceptorView(s), AcceptedBy(s)>>
        \/ /\ ~Less(b, Promised(s)[n])
           /\ Accepts(s, n, b, v)
           /\ AcceptedBy(s)' = [AcceptedBy(s) EXCEPT ![n] = {n}]
    BY <2>1, SameOperators, AcceptsIs DEF Decree!StartAcceptPhase, Decree!acceptor, AcceptorView
  <2>s. Said(s)' = Said(s) \cup {Request(b, v)}
    <3>1. CASE UNCHANGED AcceptorView(s)
      BY <2>4, <3>1, SaidGrows DEF AcceptorView
    <3>2. CASE Accepts(s, n, b, v)
      <4> HIDE DEF b
      <4> QED BY <1>2, <2>3, <2>4, <3>2, SaidAccepts
    <3> QED BY <2>5, <3>1, <3>2
  <2>6. \A w \in Value : Request(b, w) \notin Said(s)
    BY <1>1 DEF ProposerInv, ProposerAt
  <2>7. /\ AcceptorsAdvance(s) /\ AcceptorInv(s)'
        /\ AcceptedBy(s)'[n] \in {{}, {n}}
        /\ \A a \in AcceptedBy(s)'[n] : Entry(b, v) \in History(s)'[a]
        /\ \A k \in Server : k # n => AcceptedBy(s)'[k] = AcceptedBy(s)[k]
    <3>0. AcceptedBy(s)[n] = {}
      BY <1>1 DEF ProposerInv, ProposerAt
    <3>1. CASE UNCHANGED <<AcceptorView(s), AcceptedBy(s)>>
      <4>1. UNCHANGED <<Promised(s), Accepted(s), History(s)>>
        BY <3>1 DEF AcceptorView
      <4>2. \A a \in Server : Promised(s)[a] \in Numbers
        BY DEF AcceptorOK, Numbers
      <4>3. AcceptorsAdvance(s)
        BY <4>1, <4>2, NumberOrder DEF AcceptorsAdvance
      <4>4. AcceptorInv(s)'
        BY <2>4, <2>s, <4>1, CarryAcceptor DEF AcceptorInv
      <4> QED BY <3>0, <3>1, <4>3, <4>4
    <3>2. CASE /\ ~Less(b, Promised(s)[n])
               /\ Accepts(s, n, b, v)
               /\ AcceptedBy(s)' = [AcceptedBy(s) EXCEPT ![n] = {n}]
      <4>1. AcceptorsAdvance(s) /\ AcceptorInv(s)' /\ Entry(b, v) \in History(s)'[n]
        <5> HIDE DEF b
        <5> QED BY <1>2, <2>3, <2>4, <2>s, <3>2, AcceptAdvances
      <4> QED BY <3>2, <4>1 DEF ProposerOK
    <3> QED BY <2>5, <3>1, <3>2
  <2>8. ASSUME NEW k \in Server PROVE ProposerAt(s, k)'
    <3>1. CASE k # n
      <4>1. /\ Promises(s)'[k] = Promises(s)[k] /\ ValueOf(s)'[k] = ValueOf(s)[k] /\ Started(s)'[k] = Started(s)[k]
            /\ AcceptedBy(s)'[k] = AcceptedBy(s)[k] /\ Number(s)'[k] = Number(s)[k] /\ Said(s) \subseteq Said(s)'
        BY <1>1, <2>4, <2>s, <2>7, <3>1 DEF ProposerOK
      <4>2. Number(s)[k] # b
        BY <1>3, <3>1 DEF ProposerInv, ProposerAt
      <4>3. \A w \in Value : Request(Number(s)[k], w) \in Said(s)' => Request(Number(s)[k], w) \in Said(s)
        BY <2>4, <2>s, <4>2 DEF Request
      <4> QED BY <1>6, <2>7, <4>1, <4>3, CarryProposer DEF ProposerInv
    <3>2. CASE k = n
      <4>1. /\ Number(s)'[n] = b /\ ValueOf(s)'[n] = v /\ Started(s)'[n] = TRUE /\ Request(b, v) \in Said(s)'
            /\ LastRound(s)'[n] = LastRound(s)[n]
        BY <1>1, <2>4, <2>s DEF ProposerOK
      <4>2. b.proposer = n /\ b.round <= LastRound(s)[n]
        BY <1>3 DEF ProposerInv, ProposerAt
      <4> QED BY <1>3, <2>7, <3>2, <4>1, <4>2 DEF ProposerAt
    <3> QED BY <3>1, <3>2
  <2>9. /\ NumberInv(s)' /\ RequestInv(s)' /\ SafeInv(s)' /\ PromiseInv(s)' /\ AcceptedInv(s)' /\ LearnInv(s)'
        /\ DecisionsAreChosen(s)'
    <3>1. /\ {Request(b, v)} \in SUBSET Body
          /\ \A x \in {Request(b, v)} : x.type = "AcceptRequest" /\ x.proposal = m.proposal
      BY <1>1, <1>2, <2>3 DEF Body, Request
    <3>2. \A x \in {Request(b, v)} : x.proposal.round <= LastRound(s)'[x.proposal.proposer]
      BY <1>1, <3>1 DEF NumberInv
    <3>3. SafeAt(s, v, b)'
      <4>1. \A c \in ProposalNumber : SafeAt(s, v, c) => SafeAt(s, v, c)'
        BY <2>3, <2>7, Stability
      <4>2. \A c \in ProposalNumber : c = b => SafeAt(s, v, c)'
        BY <2>2, <4>1
      <4> QED BY <1>1, <1>2, <4>2
    <3>4. ASSUME NEW c \in ProposalNumber, NEW w \in Value, Request(c, w) \in {Request(b, v)}
          PROVE  SafeAt(s, w, c)' /\ \A u \in Value : Request(c, u) \in Said(s)' => u = w
      <4>1. c = b /\ w = v
        BY <3>4 DEF Request
      <4>2. \A u \in Value : Request(b, u) \in Said(s)' => u = v
        BY <2>4, <2>s, <2>6 DEF Request
      <4>3. SafeAt(s, w, c)'
        BY <1>1, <3>3, <4>1 DEF SafeAt
      <4> QED BY <4>1, <4>2, <4>3
    <3> QED BY <1>1, <1>6, <2>4, <2>s, <2>7, <3>1, <3>2, <3>4, CarryMessages
  <2> QED BY <1>7, <2>7, <2>8, <2>9 DEF PaxosInv, ProposerInv
<1> QED BY <1>8, <1>9
-----------------------------------------------------------------------------
(* The invariant of every slot, through steps of its decree and reconstructions *)

\* What has been decided has been recorded: the cluster records a decision before anybody
\* can learn it.
AnnouncedInv(s) ==
    (\E n \in Server : Learned(s)[n] # Nothing) \/ (\E m \in Bodies(s) : m.type = "Learn") => chosen[s] # Nothing

SlotInv(s) == SlotOK(s) /\ PaxosInv(s) /\ AnnouncedInv(s)

LEMMA DecreeStep ==
    ASSUME NEW s \in Slot, SlotOK(s), SlotOK(s)', PaxosInv(s), Decree(s)!Next \/ UNCHANGED Decree(s)!vars
    PROVE  PaxosInv(s)'
<1>1. ASSUME NEW n \in Server, Decree(s)!Propose(n) PROVE PaxosInv(s)'
  <2>1. PICK r \in 1..MaxRound, v \in Value : Decree(s)!StartProposal(n, r, v)
    BY <1>1 DEF Decree!Propose
  <2>2. r \in Nat \ {0}
    BY ConstantAssumption
  <2> QED BY <2>1, <2>2, StartProposalStep
<1>2. ASSUME NEW n \in Server, Decree(s)!Crash(n) PROVE PaxosInv(s)'
  BY <1>2, CrashStep
<1>3. ASSUME NEW n \in Server, NEW m \in Bodies(s), Decree(s)!Deliver(n, m) PROVE PaxosInv(s)'
  BY <1>3, ReceivePrepareStep, ReceivePromiseStep, ReceiveAcceptRequestStep,
     ReceiveAcceptedStep, ReceiveLearnStep DEF Decree!Deliver
<1>4. CASE UNCHANGED Decree(s)!vars
  <2>1. /\ UNCHANGED <<AcceptorView(s), LastRound(s), Said(s)>> /\ UNCHANGED <<Learned(s), chosen[s]>>
        /\ UNCHANGED <<Number(s), ValueOf(s), Promises(s), Started(s), AcceptedBy(s)>>
    <3>1. /\ UNCHANGED <<Promised(s), Accepted(s), History(s), LastRound(s), Bodies(s), Learned(s), chosen[s]>>
          /\ UNCHANGED <<Number(s), ValueOf(s), Promises(s), Started(s), AcceptedBy(s)>>
      BY <1>4 DEF Decree!vars, Decree!acceptor, Decree!proposer
    <3> QED BY <3>1 DEF AcceptorView, Said
  <2>2. /\ AcceptorsAdvance(s) /\ AcceptorInv(s)'
        /\ NumberInv(s)' /\ RequestInv(s)' /\ SafeInv(s)' /\ PromiseInv(s)' /\ AcceptedInv(s)' /\ LearnInv(s)'
        /\ DecisionsAreChosen(s)'
    BY <2>1, SilentStep
  <2>3. \A k \in Server : LastRound(s)[k] <= LastRound(s)'[k]
    BY <2>1 DEF SlotOK, DecisionOK
  <2>4. ProposerInv(s)'
    BY <2>1, <2>2, <2>3, CarryProposer DEF PaxosInv, ProposerInv
  <2>5. HeldPromiseInv(s)'
    BY <2>1, <2>2, CarryHeldPromises DEF PaxosInv, HeldPromiseInv
  <2> QED BY <2>2, <2>4, <2>5 DEF PaxosInv
<1> QED BY <1>1, <1>2, <1>3, <1>4 DEF Decree!Next

\* A step of the decree records one decision at most and keeps the one it has; nobody
\* forgets what he has learned.
LEMMA DecisionsStay ==
    ASSUME NEW s \in Slot, SlotOK(s), AnnouncedInv(s), Decree(s)!Next \/ UNCHANGED Decree(s)!vars
    PROVE  AnnouncedInv(s)' /\ (chosen[s] # Nothing => chosen'[s] = chosen[s])
<1>1. ASSUME UNCHANGED <<Learned(s), chosen[s]>>,
             \A m \in Bodies(s)' : m \in Bodies(s) \/ m.type # "Learn"
      PROVE  AnnouncedInv(s)' /\ (chosen[s] # Nothing => chosen'[s] = chosen[s])
  BY <1>1 DEF AnnouncedInv
<1>2. ASSUME NEW n \in Server, Decree(s)!Propose(n) \/ Decree(s)!Crash(n)
      PROVE  /\ UNCHANGED <<Learned(s), chosen[s]>>
             /\ \A m \in Bodies(s)' : m \in Bodies(s) \/ m.type # "Learn"
  <2>1. CASE Decree(s)!Propose(n)
    <3>1. PICK r \in 1..MaxRound, v \in Value : Decree(s)!StartProposal(n, r, v)
      BY <2>1 DEF Decree!Propose
    <3> QED BY <3>1 DEF Decree!StartProposal
  <2>2. CASE Decree(s)!Crash(n)
    BY <2>2 DEF Decree!Crash
  <2> QED BY <1>2, <2>1, <2>2
<1>3. ASSUME NEW n \in Server, NEW m \in Bodies(s),
             \/ Decree(s)!ReceivePrepare(n, m) \/ Decree(s)!ReceivePromise(n, m) \/ Decree(s)!ReceiveAcceptRequest(n, m)
      PROVE  /\ UNCHANGED <<Learned(s), chosen[s]>>
             /\ \A x \in Bodies(s)' : x \in Bodies(s) \/ x.type # "Learn"
  BY <1>3 DEF Decree!ReceivePrepare, Decree!ReceivePromise, Decree!StartAcceptPhase, Decree!ReceiveAcceptRequest
<1>4. ASSUME NEW n \in Server, NEW m \in Bodies(s), Decree(s)!ReceiveAccepted(n, m)
      PROVE  AnnouncedInv(s)' /\ (chosen[s] # Nothing => chosen'[s] = chosen[s])
  <2> DEFINE entry == [proposal |-> Number(s)[n], value |-> ValueOf(s)[n]]
  <2>1. CASE UNCHANGED <<Learned(s), chosen[s], Bodies(s)>>
    BY <1>1, <2>1
  <2>2. CASE Decree(s)!RecordChosen(entry)
    <3>1. m.proposal = Number(s)[n] /\ m.type = "Accepted"
      BY <1>4 DEF Decree!ReceiveAccepted
    <3>2. m.proposal \in ProposalNumber
      BY <3>1 DEF SlotOK, DecisionOK, Said, Body
    <3>3. entry # Nothing
      BY <3>1, <3>2, NoProposalIsLowest DEF Nothing
    <3>4. chosen'[s] = IF chosen[s] = Nothing THEN entry ELSE chosen[s]
      BY <2>2, SameOperators DEF Decree!RecordChosen
    <3> QED BY <3>3, <3>4 DEF AnnouncedInv
  <2> QED BY <1>4, <2>1, <2>2 DEF Decree!ReceiveAccepted
<1>5. ASSUME NEW n \in Server, NEW m \in Bodies(s), Decree(s)!ReceiveLearn(n, m)
      PROVE  AnnouncedInv(s)' /\ (chosen[s] # Nothing => chosen'[s] = chosen[s])
  BY <1>5 DEF Decree!ReceiveLearn, AnnouncedInv
<1>6. CASE UNCHANGED Decree(s)!vars
  BY <1>1, <1>6 DEF Decree!vars
<1> QED BY <1>1, <1>2, <1>3, <1>4, <1>5, <1>6 DEF Decree!Next, Decree!Deliver

\* The evidence that a reconstruction looks for is the majorities of the durable histories.
LEMMA EvidenceIsChosen ==
    ASSUME LogOK, NEW s \in Slot
    PROVE  ChosenBySlot(s) = ChosenEntries(s)
<1> DEFINE Slots == {g \in UNION {acceptHistory[n] : n \in Server} : g.slot = s}
<1>1. \A n \in Server : acceptHistory[n] \in SUBSET [slot : Slot, entry : AcceptedValue]
  BY DEF LogOK, TypeOK
<1>2. ASSUME NEW n \in Server, NEW e PROVE e \in History(s)[n] <=> [slot |-> s, entry |-> e] \in acceptHistory[n]
  BY <1>1, EntryIs DEF History
<1>3. ASSUME NEW e PROVE e \in {h.entry : h \in Slots} <=> e \in UNION {History(s)[n] : n \in Server}
  <2>1. UNION {acceptHistory[n] : n \in Server} \in SUBSET [slot : Slot, entry : AcceptedValue]
    BY <1>1
  <2>2. e \in {h.entry : h \in Slots} <=> [slot |-> s, entry |-> e] \in UNION {acceptHistory[n] : n \in Server}
    BY <2>1, EntryIs
  <2> QED BY <1>2, <2>2
<1>4. \A e : {n \in Server : [slot |-> s, entry |-> e] \in acceptHistory[n]} = Acceptors(s, e)
  BY <1>2 DEF Acceptors
<1>5. ChosenBySlot(s) = {e \in {h.entry : h \in Slots} : IsQuorum({n \in Server : [slot |-> s, entry |-> e] \in acceptHistory[n]})}
  BY DEF ChosenBySlot
<1> HIDE DEF Slots
<1> QED BY <1>3, <1>4, <1>5 DEF ChosenEntries

LEMMA ReconstructStep ==
    ASSUME LogOK, LogOK', NEW s \in Slot, SlotInv(s), SlotOK(s)', Reconstruct
    PROVE  /\ PaxosInv(s)' /\ AnnouncedInv(s)'
           /\ chosen[s] # Nothing => chosen'[s] # Nothing /\ chosen'[s].value = chosen[s].value
<1> TypeOK /\ SlotOK(s) /\ AcceptorOK(s) /\ DecisionOK(s)
  BY DEF LogOK, SlotInv, SlotOK
<1> /\ AcceptorInv(s) /\ NumberInv(s) /\ RequestInv(s) /\ SafeInv(s) /\ DecisionsAreChosen(s)
  BY DEF SlotInv, PaxosInv
<1>1. /\ chosen'[s] = RecoverChosen(s)
      /\ Number(s)' = [n \in Server |-> NoProposal]
      /\ Promises(s)' = [n \in Server |-> {}]
      /\ Started(s)' = [n \in Server |-> FALSE]
      /\ AcceptedBy(s)' = [n \in Server |-> {}]
      /\ Bodies(s)' = {}
      /\ UNCHANGED <<Promised(s), Accepted(s), History(s), Learned(s), LastRound(s)>>
  BY ReconstructView, SameLastRound DEF AcceptorView
<1>2. ChosenEntries(s)' = ChosenEntries(s)
  BY <1>1 DEF ChosenEntries, Acceptors
<1>3. /\ ChosenEntries(s) = {} => RecoverChosen(s) = Nothing
      /\ ChosenEntries(s) # {} => RecoverChosen(s) \in ChosenEntries(s)
  BY EvidenceIsChosen, RecoveredIsHeld
<1>4. \A e \in ChosenEntries(s) : e # Nothing
  BY NoProposalIsLowest DEF ChosenEntries, AcceptorOK, AcceptedValue, Nothing
<1>5. Agreement(s)
  BY ChosenAgree
<1>6. chosen[s] # Nothing => chosen'[s] # Nothing /\ chosen'[s].value = chosen[s].value
  BY <1>1, <1>3, <1>4, <1>5 DEF Agreement, DecisionsAreChosen
<1>7. AnnouncedInv(s)'
  BY <1>1, <1>3, <1>4 DEF AnnouncedInv, DecisionsAreChosen
<1>8. /\ Said(s)' \subseteq Said(s)
      /\ \A m \in Said(s)' : m.type = "AcceptRequest"
      /\ \A n \in Server : \A e \in History(s)[n] : Request(e.proposal, e.value) \in Said(s)'
  BY <1>1 DEF Said, Request
<1>9. AcceptorInv(s)'
  BY <1>1, <1>8 DEF AcceptorInv, AcceptorAt, Request
<1>10. ProposerInv(s)'
  <2>1. ASSUME NEW v \in Value PROVE Request(NoProposal, v) \notin Said(s)
    BY NoProposalIsLowest DEF DecisionOK, Body, Request
  <2>2. \A k \in Server : /\ Number(s)'[k] = NoProposal /\ Promises(s)'[k] = {}
                          /\ Started(s)'[k] = FALSE /\ AcceptedBy(s)'[k] = {}
    BY <1>1
  <2> QED BY <1>8, <2>1, <2>2 DEF ProposerInv, ProposerAt
<1>11. NumberInv(s)' /\ RequestInv(s)'
  BY <1>1, <1>8 DEF NumberInv, RequestInv
<1>12. SafeInv(s)'
  <2>1. \A v \in Value, b \in ProposalNumber : SafeAt(s, v, b)' <=> SafeAt(s, v, b)
    BY <1>1 DEF SafeAt, WontAccept
  <2> QED BY <1>8, <2>1 DEF SafeInv
<1>13. PromiseInv(s)' /\ AcceptedInv(s)' /\ LearnInv(s)' /\ HeldPromiseInv(s)'
  BY <1>1, <1>8 DEF PromiseInv, AcceptedInv, LearnInv, HeldPromiseInv
<1>14. DecisionsAreChosen(s)'
  BY <1>1, <1>2, <1>3 DEF DecisionsAreChosen
<1> QED BY <1>6, <1>7, <1>9, <1>10, <1>11, <1>12, <1>13, <1>14 DEF PaxosInv

AllSlotsInv == \A s \in Slot : SlotInv(s)

\* One step, for every slot: the invariant, and that a recorded decision stays.
LEMMA EverySlotStep ==
    ASSUME LogOK, LogOK', AllSlotsInv, [Next]_vars
    PROVE  /\ AllSlotsInv'
           /\ \A s \in Slot : chosen[s] # Nothing => chosen'[s] # Nothing /\ chosen'[s].value = chosen[s].value
<1> SUFFICES ASSUME NEW s \in Slot
             PROVE  /\ SlotInv(s)'
                    /\ chosen[s] # Nothing => chosen'[s] # Nothing /\ chosen'[s].value = chosen[s].value
  BY DEF AllSlotsInv
<1>1. SlotInv(s) /\ SlotOK(s) /\ SlotOK(s)' /\ PaxosInv(s) /\ AnnouncedInv(s)
  BY SlotTypesNext DEF AllSlotsInv, SlotInv, AllSlotsOK
<1>2. CASE Reconstruct
  BY <1>1, <1>2, ReconstructStep DEF SlotInv
<1>3. CASE Decree(s)!Next \/ UNCHANGED Decree(s)!vars
  BY <1>1, <1>3, DecreeStep, DecisionsStay DEF SlotInv
<1> QED BY <1>2, <1>3, StepOfEverySlot

LEMMA AllSlotsStart == Init => AllSlotsInv
<1> SUFFICES ASSUME Init, NEW s \in Slot PROVE SlotInv(s)
  BY DEF AllSlotsInv
<1>1. SlotOK(s)
  BY InitOK, SlotTypes DEF AllSlotsOK
<1>2. /\ Number(s) = [n \in Server |-> NoProposal]
      /\ Promises(s) = [n \in Server |-> {}]
      /\ Started(s) = [n \in Server |-> FALSE]
      /\ AcceptedBy(s) = [n \in Server |-> {}]
      /\ Accepted(s) = [n \in Server |-> Nothing]
      /\ Learned(s) = [n \in Server |-> Nothing]
      /\ History(s) = [n \in Server |-> {}]
      /\ chosen[s] = Nothing /\ Bodies(s) = {}
  BY EverySlotStartsAsADecree, SameOperators DEF Decree!Init
<1>3. Said(s) = {}
  BY <1>2 DEF Said
<1>4. PaxosInv(s)
  BY <1>2, <1>3 DEF PaxosInv, AcceptorInv, AcceptorAt, ProposerInv, ProposerAt, NumberInv, RequestInv,
         SafeInv, PromiseInv, HeldPromiseInv, AcceptedInv, LearnInv, DecisionsAreChosen
<1> QED BY <1>1, <1>2, <1>4 DEF SlotInv, AnnouncedInv

LEMMA AllSlotsHold == Spec => [](LogOK /\ AllSlotsInv)
<1>1. LogOK /\ LogOK' /\ AllSlotsInv /\ [Next]_vars => AllSlotsInv'
  BY EverySlotStep
<1> QED BY <1>1, InitOK, LogOKStep, AllSlotsStart, PTL DEF Spec

-----------------------------------------------------------------------------
(* The properties *)

\* Whatever is lost, delayed or crashed, and however often the cluster is reconstructed from
\* its disks: a decision that the cluster has recorded keeps its value, and
\* _recover_chosen_from_durable_history finds every decision that a learner holds.
THEOREM RecordedDecisionsSurvive == Spec => DecisionsSurvive
<1>1. ASSUME LogOK, LogOK', AllSlotsInv, [Next]_vars, NEW s \in Slot
      PROVE  /\ chosen[s] # Nothing => chosen'[s].value = chosen[s].value
             /\ \A n \in Server : learned[n][s].value \in {None, chosen'[s].value}
  <2>1. chosen[s] # Nothing => chosen'[s].value = chosen[s].value
    BY <1>1, EverySlotStep
  <2>2. ASSUME NEW n \in Server, Learned(s)[n] # Nothing PROVE learned[n][s].value = chosen'[s].value
    <3> PaxosInv(s) /\ DecisionsAreChosen(s) /\ AnnouncedInv(s) /\ SlotOK(s)
      BY <1>1 DEF AllSlotsInv, SlotInv, PaxosInv
    <3>1. Agreement(s)
      BY ChosenAgree DEF PaxosInv, SlotOK
    <3>2. chosen[s] # Nothing
      BY <2>2 DEF AnnouncedInv
    <3>3. Learned(s)[n].value = chosen[s].value
      BY <2>2, <3>1, <3>2 DEF Agreement, DecisionsAreChosen
    <3> QED BY <2>1, <3>2, <3>3, ViewAt
  <2>3. \A n \in Server : Learned(s)[n] = Nothing => learned[n][s].value = None
    BY ViewAt DEF Nothing
  <2> QED BY <2>1, <2>2, <2>3
<1>2. LogOK /\ LogOK' /\ AllSlotsInv /\ [Next]_vars =>
        [\A s \in Slot : /\ chosen[s] # Nothing => chosen'[s].value = chosen[s].value
                         /\ Recovering /\ msgs' = {} =>
                              \A n \in Server : learned[n][s].value \in {None, chosen'[s].value}]_vars
  BY <1>1
<1> QED BY <1>2, AllSlotsHold, PTL DEF Spec, DecisionsSurvive

\* PaxosLogSafetyHarness.checkpoint never raises for a decision: the majorities that the
\* durable histories show for a slot are all for one value, and what the cluster or a learner
\* holds for it is one of them.
EvidenceIsConsistent ==
    \A s \in Slot :
        /\ \A e, f \in ChosenBySlot(s) : e.value = f.value
        /\ chosen[s] # Nothing => chosen[s] \in ChosenBySlot(s)
        /\ \A n \in Server : learned[n][s] # Nothing => learned[n][s] \in ChosenBySlot(s)

\* The checkpoint passes in every reachable state, however often the cluster was rebuilt.
THEOREM CheckpointsPass == Spec => []EvidenceIsConsistent
<1>1. ASSUME LogOK, AllSlotsInv, NEW s \in Slot
      PROVE  /\ \A e, f \in ChosenBySlot(s) : e.value = f.value
             /\ chosen[s] # Nothing => chosen[s] \in ChosenBySlot(s)
             /\ \A n \in Server : learned[n][s] # Nothing => learned[n][s] \in ChosenBySlot(s)
  <2> PaxosInv(s) /\ DecisionsAreChosen(s) /\ SlotOK(s)
    BY <1>1 DEF AllSlotsInv, SlotInv, PaxosInv
  <2>1. Agreement(s) /\ ChosenBySlot(s) = ChosenEntries(s)
    BY <1>1, ChosenAgree, EvidenceIsChosen DEF PaxosInv, SlotOK
  <2> QED BY <2>1, ViewAt DEF Agreement, DecisionsAreChosen
<1>2. LogOK /\ AllSlotsInv => EvidenceIsConsistent
  BY <1>1 DEF EvidenceIsConsistent
<1> QED BY <1>2, AllSlotsHold, PTL

\* What a promise has told node n about slot s, or may still tell it while it is collecting
Reported(n, s) ==
         {p.accepted : p \in proposals[n][s].promises}
    \cup {m.accepted : m \in {x \in Bodies(s) : x.type = "Promise" /\ x.proposal = proposals[n][s].number}}

\* No message that may still arrive makes a handler of paxos_log.py raise
\* PaxosSafetyViolation, and no disk is one that _validate_durable_state refuses.
NoSafetyViolation ==
    \A s \in Slot, n \in Server :
        /\ \A m \in Bodies(s) :
               /\ m.type = "AcceptRequest" /\ accepted[n][s].proposal = m.proposal => accepted[n][s].value = m.value
               /\ m.type = "Accepted" /\ m.proposal = proposals[n][s].number /\ proposals[n][s].started
                      => m.value = proposals[n][s].value
               /\ m.type = "Learn" => learned[n][s].value \in {None, m.value} /\ chosen[s].value = m.value
        /\ \A a, b \in Reported(n, s) : a.proposal = b.proposal => a.value = b.value
        /\ ~Less(promised[n][s], accepted[n][s].proposal)
        /\ accepted[n][s] # Nothing => [slot |-> s, entry |-> accepted[n][s]] \in acceptHistory[n]
        /\ \A g, h \in acceptHistory[n] : g.slot = h.slot /\ g.entry.proposal = h.entry.proposal => g = h

\* The guards by which ReceiveAcceptRequest, ValuesToPropose and ReceiveLearn leave out what
\* the code would raise for leave out nothing: a late, repeated or reordered message, after any
\* number of crashes and reconstructions, never contradicts what its receiver holds.
THEOREM HandlersNeverRaise == Spec => []NoSafetyViolation
<1>1. ASSUME LogOK, AllSlotsInv PROVE NoSafetyViolation
  <2> SUFFICES ASSUME NEW s \in Slot, NEW n \in Server
        PROVE  /\ \A m \in Bodies(s) :
                      /\ m.type = "AcceptRequest" /\ accepted[n][s].proposal = m.proposal => accepted[n][s].value = m.value
                      /\ m.type = "Accepted" /\ m.proposal = proposals[n][s].number /\ proposals[n][s].started
                             => m.value = proposals[n][s].value
                      /\ m.type = "Learn" => learned[n][s].value \in {None, m.value} /\ chosen[s].value = m.value
               /\ \A a, b \in Reported(n, s) : a.proposal = b.proposal => a.value = b.value
               /\ ~Less(promised[n][s], accepted[n][s].proposal)
               /\ accepted[n][s] # Nothing => [slot |-> s, entry |-> accepted[n][s]] \in acceptHistory[n]
               /\ \A g, h \in acceptHistory[n] : g.slot = h.slot /\ g.entry.proposal = h.entry.proposal => g = h
    BY DEF NoSafetyViolation
  <2>0. \A t \in Slot : /\ SlotOK(t) /\ AcceptorOK(t) /\ AcceptorInv(t) /\ RequestInv(t)
    BY <1>1 DEF AllSlotsInv, SlotInv, SlotOK, PaxosInv
  <2> /\ SlotOK(s) /\ AnnouncedInv(s) /\ AcceptorOK(s) /\ ProposerOK(s) /\ DecisionOK(s)
      /\ AcceptorInv(s) /\ ProposerInv(s) /\ RequestInv(s) /\ PromiseInv(s) /\ HeldPromiseInv(s)
      /\ AcceptedInv(s) /\ LearnInv(s) /\ DecisionsAreChosen(s) /\ Agreement(s)
    BY <1>1, ChosenAgree DEF AllSlotsInv, SlotInv, PaxosInv, SlotOK
  <2> Bodies(s) \subseteq Said(s)
    BY DEF Said
  <2>1. \A t \in Slot, a \in Server : \A e \in History(t)[a] :
            /\ e \in AcceptedValue /\ e.proposal \in ProposalNumber /\ e.value \in Value
            /\ e = Entry(e.proposal, e.value) /\ Request(e.proposal, e.value) \in Said(t)
    BY <2>0 DEF AcceptorOK, AcceptorInv, AcceptorAt, AcceptedValue, Entry
  <2>2. \A t \in Slot, a, c \in Server : \A e \in History(t)[a], f \in History(t)[c] :
            e.proposal = f.proposal => e = f
    <3> SUFFICES ASSUME NEW t \in Slot, NEW a \in Server, NEW c \in Server, NEW e \in History(t)[a],
                        NEW f \in History(t)[c], e.proposal = f.proposal
                 PROVE  e = f
      OBVIOUS
    <3>1. e.value = f.value
      BY <2>0, <2>1 DEF RequestInv
    <3> QED BY <2>1, <3>1
  <2>3. ASSUME NEW m \in Bodies(s)
        PROVE  /\ m.type = "AcceptRequest" /\ Accepted(s)[n].proposal = m.proposal => Accepted(s)[n].value = m.value
               /\ m.type = "Accepted" /\ m.proposal = Number(s)[n] /\ Started(s)[n] => m.value = ValueOf(s)[n]
               /\ m.type = "Learn" => Learned(s)[n].value \in {None, m.value} /\ chosen[s].value = m.value
    <3>1. ASSUME m.type = "AcceptRequest", Accepted(s)[n].proposal = m.proposal
          PROVE  Accepted(s)[n].value = m.value
      <4>1. m = Request(m.proposal, m.value) /\ m.proposal \in ProposalNumber /\ m.value \in Value
        BY <3>1 DEF DecisionOK, Body, Request
      <4>2. Accepted(s)[n] \in History(s)[n]
        BY <3>1, <4>1, NoProposalIsLowest DEF AcceptorInv, AcceptorAt, Nothing
      <4> QED BY <2>1, <3>1, <4>1, <4>2 DEF RequestInv
    <3>2. ASSUME m.type = "Accepted", m.proposal = Number(s)[n], Started(s)[n]
          PROVE  m.value = ValueOf(s)[n]
      <4>1. m.acceptor \in Server /\ m.proposal \in ProposalNumber /\ m.value \in Value
        BY <3>2 DEF DecisionOK, Body
      <4>2. Request(m.proposal, m.value) \in Said(s)
        BY <2>1, <3>2, <4>1 DEF AcceptedInv, Entry
      <4>3. Request(m.proposal, ValueOf(s)[n]) \in Said(s) /\ ValueOf(s)[n] \in Value
        BY <3>2, <4>1, NoProposalIsLowest DEF ProposerInv, ProposerAt, ProposerOK
      <4> QED BY <4>1, <4>2, <4>3 DEF RequestInv
    <3>3. ASSUME m.type = "Learn" PROVE Learned(s)[n].value \in {None, m.value} /\ chosen[s].value = m.value
      <4>1. Entry(m.proposal, m.value) \in ChosenEntries(s)
        BY <3>3 DEF LearnInv
      <4>2. \A d \in ChosenEntries(s) : d.value = m.value
        BY <4>1 DEF Agreement, Entry
      <4>3. chosen[s] # Nothing
        BY <3>3 DEF AnnouncedInv
      <4> QED BY <4>2, <4>3 DEF DecisionsAreChosen, Nothing
    <3> QED BY <3>1, <3>2, <3>3
  <2>4. ASSUME NEW a \in Reported(n, s), NEW b \in Reported(n, s), a.proposal = b.proposal
        PROVE  a.value = b.value
    <3>1. \A x \in Reported(n, s) : x = Nothing \/ \E c \in Server : x \in History(s)[c]
      <4>1. \A p \in Promises(s)[n] : p.acceptor \in Server /\ (p.accepted = Nothing \/ p.accepted \in History(s)[p.acceptor])
        BY DEF ProposerOK, PromiseOf, HeldPromiseInv, PromiseTrue
      <4>2. \A m \in Bodies(s) : m.type = "Promise" =>
                m.acceptor \in Server /\ (m.accepted = Nothing \/ m.accepted \in History(s)[m.acceptor])
        BY DEF DecisionOK, Body, PromiseInv, PromiseTrue
      <4> QED BY <4>1, <4>2, ViewAt DEF Reported
    <3>2. CASE a = Nothing \/ b = Nothing
      <4>1. a = Nothing /\ b = Nothing
        BY <2>1, <2>4, <3>1, <3>2, NoProposalIsLowest DEF Nothing
      <4> QED BY <4>1
    <3>3. CASE a # Nothing /\ b # Nothing
      BY <2>2, <2>4, <3>1, <3>3
    <3> QED BY <3>2, <3>3
  <2>5. /\ ~Less(Promised(s)[n], Accepted(s)[n].proposal)
        /\ Accepted(s)[n] # Nothing => Accepted(s)[n] \in History(s)[n]
    <3>1. Promised(s)[n] \in Numbers
      BY DEF AcceptorOK
    <3> QED BY <3>1, NoProposalIsLowest DEF AcceptorInv, AcceptorAt, Nothing
  <2>6. acceptHistory[n] \in SUBSET [slot : Slot, entry : AcceptedValue]
    BY <1>1 DEF LogOK, TypeOK
  <2>7. \A g \in acceptHistory[n] : g.slot \in Slot /\ g.entry \in History(g.slot)[n]
                                    /\ g = [slot |-> g.slot, entry |-> g.entry]
    BY <2>6 DEF History
  <2>8. \A e \in History(s)[n] : [slot |-> s, entry |-> e] \in acceptHistory[n]
    BY <2>6 DEF History
  <2>9. \A g, h \in acceptHistory[n] : g.slot = h.slot /\ g.entry.proposal = h.entry.proposal => g = h
    BY <2>2, <2>7
  <2> QED BY <2>3, <2>4, <2>5, <2>8, <2>9, ViewAt
<1> QED BY <1>1, AllSlotsHold, PTL
=============================================================================
