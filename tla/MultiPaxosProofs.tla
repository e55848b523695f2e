-------------------------- MODULE MultiPaxosProofs --------------------------
(***************************************************************************)
(* Proofs about MultiPaxos, for any finite cluster of two or more nodes,   *)
(* any set of slots and values, any number of ballots and any nodes whose  *)
(* callers choose their slots (Hints).                                     *)
(*                                                                         *)
(* The argument is the one of Paxos, slot by slot, with one difference: a  *)
(* leader in Hints may ask for two values of a slot under one ballot, so   *)
(* that a ballot does not determine the value.  What takes its place is    *)
(* that an acceptor takes one value per ballot and that a new leader       *)
(* proposes only what all the highest reports agree on.                    *)
(***************************************************************************)
EXTENDS MultiPaxos, WellFoundedInduction, FiniteSetTheorems, TLAPS

-----------------------------------------------------------------------------
(* Ballots, majorities and highest records *)

Ballots == Ballot \cup {NoBallot}

LEMMA BallotOrder ==
    ASSUME NEW p \in Ballots, NEW q \in Ballots, NEW r \in Ballots
    PROVE  /\ ~Less(p, p)
           /\ Less(p, q) \/ p = q \/ Less(q, p)
           /\ Less(p, q) => ~Less(q, p)
           /\ Less(p, q) /\ Less(q, r) => Less(p, r)
           /\ ~Less(q, p) /\ Less(q, r) => Less(p, r)
           /\ ~Less(q, p) /\ ~Less(r, q) => ~Less(r, p)
<1>1. \A x \in Ballots : x.round \in Nat /\ x.proposer \in Nat
  <2>1. \A x \in Ballot : x.round \in Nat /\ x.proposer \in Nat
    BY ServerAssumption DEF Ballot
  <2> QED BY <2>1 DEF Ballots, NoBallot
<1>2. ASSUME p.round = q.round, p.proposer = q.proposer PROVE p = q
  <2>1. CASE p \in Ballot /\ q \in Ballot
    BY <1>2, <2>1 DEF Ballot
  <2>2. CASE p = NoBallot \/ q = NoBallot
    BY <1>2, <2>2 DEF Ballots, Ballot, NoBallot
  <2> QED BY <2>1, <2>2 DEF Ballots
<1> QED BY <1>1, <1>2 DEF Less

LEMMA NoBallotIsLowest ==
    /\ NoBallot \notin Ballot
    /\ \A p \in Ballot : Less(NoBallot, p)
    /\ \A p \in Ballots : ~Less(p, NoBallot)
BY ServerAssumption DEF Ballots, Ballot, NoBallot, Less

LEMMA QuorumsMeet ==
    ASSUME NEW P \in SUBSET Server, NEW Q \in SUBSET Server, IsQuorum(P), IsQuorum(Q)
    PROVE  \E n \in P : n \in Q
<1> IsFiniteSet(Server)
  BY ServerAssumption
<1>1. /\ IsFiniteSet(P) /\ IsFiniteSet(Q)
      /\ Cardinality(P) \in Nat /\ Cardinality(Q) \in Nat /\ Cardinality(Server) \in Nat
  BY FS_Subset, FS_CardinalityType
<1>2. Cardinality(P) + Cardinality(Q) > Cardinality(Server)
  BY <1>1 DEF IsQuorum
<1> QED BY <1>1, <1>2, FS_MajoritiesIntersect

LEMMA QuorumGrows ==
    ASSUME NEW P \in SUBSET Server, NEW Q \in SUBSET Server, P \subseteq Q, IsQuorum(P)
    PROVE  IsQuorum(Q)
<1>1. IsFiniteSet(Q) /\ IsFiniteSet(P) /\ Cardinality(P) <= Cardinality(Q)
  BY FS_Subset, ServerAssumption
<1>2. Cardinality(P) \in Nat /\ Cardinality(Q) \in Nat /\ Cardinality(Server) \in Nat
  BY <1>1, FS_CardinalityType, ServerAssumption
<1> QED BY <1>1, <1>2 DEF IsQuorum

LEMMA QuorumHasMember ==
    ASSUME NEW P \in SUBSET Server, IsQuorum(P)
    PROVE  P # {}
<1> QED BY QuorumsMeet

LessThan == {p \in Nat \X Nat : p[1] < p[2]}

LEMMA LessThanWellFounded == IsWellFoundedOn(LessThan, Nat)
<1>1. LessThan = OpToRel(<, Nat)
  BY DEF LessThan, OpToRel
<1> QED BY <1>1, NatLessThanWellFounded

\* A set of natural numbers that is not empty has a least element ...
LEMMA Least ==
    ASSUME NEW T \in SUBSET Nat, T # {}
    PROVE  \E x \in T : \A y \in T : x <= y
<1>1. PICK x \in T : \A y \in T : ~ (<<y, x>> \in LessThan)
  BY LessThanWellFounded, WFMin
<1>2. \A y \in T : x <= y
  <2> TAKE y \in T
  <2>1. x \in Nat /\ y \in Nat
    OBVIOUS
  <2>2. ~ (y < x)
    <3> SUFFICES ASSUME y < x PROVE FALSE
      OBVIOUS
    <3>1. <<y, x>> \in LessThan
      BY <2>1 DEF LessThan
    <3> QED BY <3>1, <1>1
  <2> QED BY <2>1, <2>2
<1> QED BY <1>2

\* ... and a greatest one when it is bounded.
LEMMA Greatest ==
    ASSUME NEW T \in SUBSET Nat, T # {}, NEW bound \in Nat, \A y \in T : y <= bound
    PROVE  \E x \in T : \A y \in T : y <= x
<1> DEFINE Upper == {k \in Nat : \A y \in T : y <= k}
<1>1. PICK x \in Upper : \A k \in Upper : x <= k
  <2>1. Upper \in SUBSET Nat /\ Upper # {}
    OBVIOUS
  <2> HIDE DEF Upper
  <2> QED BY <2>1, Least
<1>2. x \in T
  <2> SUFFICES ASSUME x \notin T PROVE FALSE
    OBVIOUS
  <2>1. PICK z \in T : TRUE
    OBVIOUS
  <2>2. z \in Nat /\ x \in Nat /\ z <= x /\ z # x
    BY <2>1
  <2>3. x - 1 \in Nat
    BY <2>2
  <2>4. \A y \in T : y <= x - 1
    <3> TAKE y \in T
    <3>1. y \in Nat /\ y <= x /\ y # x
      OBVIOUS
    <3> QED BY <2>2, <3>1
  <2> QED BY <1>1, <2>2, <2>3, <2>4
<1> QED BY <1>1, <1>2

\* The places of a finite set of servers have a bound: a smallest set without one would lose its bound by losing an
\* element.
LEMMA ServersAreBounded == \E bound \in Nat : \A n \in Server : n <= bound
<1> DEFINE Bounded(S) == \E bound \in Nat : \A n \in S : n <= bound
           Sizes == {c \in Nat : \E S \in SUBSET Nat : IsFiniteSet(S) /\ Cardinality(S) = c /\ ~Bounded(S)}
<1>1. Sizes = {}
  <2> SUFFICES ASSUME Sizes # {} PROVE FALSE
    OBVIOUS
  <2>1. PICK c \in Sizes : \A d \in Sizes : c <= d
    <3>1. Sizes \in SUBSET Nat
      OBVIOUS
    <3> HIDE DEF Sizes
    <3> QED BY <3>1, Least
  <2>2. PICK S \in SUBSET Nat : IsFiniteSet(S) /\ Cardinality(S) = c /\ ~Bounded(S)
    OBVIOUS
  <2>3. S # {}
    BY <2>2
  <2>4. PICK x \in S : TRUE
    BY <2>3
  <2>5. /\ S \ {x} \in SUBSET Nat /\ IsFiniteSet(S \ {x})
        /\ Cardinality(S \ {x}) = c - 1
    BY <2>2, <2>4, FS_RemoveElement
  <2>6. c \in Nat /\ c - 1 \in Nat
    BY <2>5, FS_CardinalityType
  <2>7. Bounded(S \ {x})
    <3>1. c - 1 \notin Sizes
      BY <2>1, <2>6
    <3> HIDE DEF Bounded
    <3> QED BY <2>5, <2>6, <3>1
  <2>8. PICK bound \in Nat : \A n \in S \ {x} : n <= bound
    BY <2>7
  <2>9. x + bound \in Nat /\ \A n \in S : n <= x + bound
    <3>1. x \in Nat
      BY <2>4
    <3>2. ASSUME NEW n \in S PROVE n <= x + bound
      <4>1. n \in Nat
        OBVIOUS
      <4>2. CASE n = x
        BY <3>1, <4>2
      <4>3. CASE n # x
        BY <2>8, <3>1, <4>1, <4>3
      <4> QED BY <4>2, <4>3
    <3> QED BY <3>1, <3>2
  <2> QED BY <2>2, <2>9
<1>2. Server \in SUBSET Nat /\ IsFiniteSet(Server) /\ Cardinality(Server) \in Nat
  BY ServerAssumption, FS_CardinalityType
<1>3. Bounded(Server)
  <2> HIDE DEF Bounded
  <2> QED BY <1>1, <1>2
<1> QED BY <1>3

\* Among records some are highest.
LEMMA HighestExists ==
    ASSUME NEW R \in SUBSET Record, R # {}, \A r \in R : r.ballot.round <= MaxRound
    PROVE  \E r \in R : \A q \in R : ~Less(r.ballot, q.ballot)
<1>1. \A r \in R : r.ballot \in Ballot /\ r.ballot.round \in Nat /\ r.ballot.proposer \in Server
  BY DEF Record, Ballot
<1> DEFINE Rounds == {r.ballot.round : r \in R}
<1>2. PICK t \in Rounds : \A y \in Rounds : y <= t
  <2>1. Rounds \in SUBSET Nat /\ Rounds # {} /\ MaxRound \in Nat /\ \A y \in Rounds : y <= MaxRound
    BY <1>1, BoundAssumption
  <2> HIDE DEF Rounds
  <2> QED BY <2>1, Greatest
<1> DEFINE Proposers == {r.ballot.proposer : r \in {x \in R : x.ballot.round = t}}
<1>3. PICK p \in Proposers : \A y \in Proposers : y <= p
  <2>1. PICK bound \in Nat : \A n \in Server : n <= bound
    BY ServersAreBounded
  <2>2. Proposers \in SUBSET Nat /\ Proposers # {} /\ \A y \in Proposers : y <= bound
    BY <1>1, <2>1, ServerAssumption
  <2> HIDE DEF Proposers
  <2> QED BY <2>2, Greatest
<1>4. PICK r \in R : r.ballot.round = t /\ r.ballot.proposer = p
  OBVIOUS
<1>5. ASSUME NEW q \in R PROVE ~Less(r.ballot, q.ballot)
  <2>1. q.ballot.round <= t /\ q.ballot.round \in Nat /\ t \in Nat
    BY <1>1, <1>2, <1>4
  <2>2. q.ballot.round = t => q.ballot.proposer <= p
    BY <1>3
  <2>3. q.ballot.proposer \in Nat /\ p \in Nat
    BY <1>1, <1>4, ServerAssumption
  <2> QED BY <1>4, <2>1, <2>2, <2>3 DEF Less
<1> QED BY <1>4, <1>5

-----------------------------------------------------------------------------
(* Type correctness *)

AcceptorOK ==
    /\ promised \in [Server -> Ballots]
    /\ accepted \in [Server -> Records]
    /\ acceptHistory \in [Server -> SUBSET (Slot \X Record)]

PromiseOf == [acceptor : Server, accepted : Records]

LeaderOK ==
    /\ leaderBallot \in [Server -> Ballots]
    /\ promises \in [Server -> SUBSET PromiseOf]
    /\ pending \in [Server -> [Slot -> Command \cup {None}]]
    /\ acceptedBy \in [Server -> [Slot -> SUBSET Server]]

DecisionOK ==
    /\ lastRound \in [Server -> Nat] /\ learned \in [Server -> Records] /\ chosen \in Records
    /\ msgs \in SUBSET Messages

LEMMA TypeParts == TypeOK <=> AcceptorOK /\ LeaderOK /\ DecisionOK
BY DEF TypeOK, AcceptorOK, LeaderOK, DecisionOK, Ballots, PromiseOf

LEMMA RecordParts ==
    /\ NoBallot \notin Ballot /\ Nothing \notin Record /\ Nothing.ballot = NoBallot /\ Nothing.value = None
    /\ None \notin Command
    /\ \A r \in Record : /\ r.ballot \in Ballot /\ r.value \in Command
                         /\ r = [ballot |-> r.ballot, value |-> r.value]
    /\ \A b \in Ballot, v \in Command : [ballot |-> b, value |-> v] \in Record
    /\ \A f \in Records, s \in Slot : /\ f[s] = Nothing \/ f[s] \in Record
                                      /\ f[s].ballot \in Ballots
                                      /\ f[s] # Nothing => f[s].ballot \in Ballot /\ f[s].value \in Command
                                      /\ f[s].ballot \in Ballot => f[s] \in Record
<1>1. NoBallot \notin Ballot /\ Nothing \notin Record /\ Nothing.ballot = NoBallot /\ Nothing.value = None
  BY NoBallotIsLowest DEF Record, Nothing
<1>2. None \notin Command
  BY ValueAssumption DEF Command
<1>3. /\ \A r \in Record : /\ r.ballot \in Ballot /\ r.value \in Command
                           /\ r = [ballot |-> r.ballot, value |-> r.value]
      /\ \A b \in Ballot, v \in Command : [ballot |-> b, value |-> v] \in Record
  BY DEF Record
<1>4. ASSUME NEW f \in Records, NEW s \in Slot PROVE f[s] = Nothing \/ f[s] \in Record
  BY DEF Records
<1> QED BY <1>1, <1>2, <1>3, <1>4 DEF Ballots

LEMMA MessageParts ==
    \A m \in Messages :
        /\ m.ballot \in Ballot
        /\ m.type = "Promise" => m.acceptor \in Server /\ m.accepted \in Records
        /\ m.type \in {"Accept", "Accepted", "Decision"} => m.slot \in Slot /\ m.value \in Command
        /\ m.type = "Accepted" => m.acceptor \in Server
        /\ m.type = "Accept" => m = AcceptRequest(m.slot, m.ballot, m.value)
BY DEF Messages, AcceptRequest

\* A proposal is for a command: what the caller asked for or what promises report.
LEMMA ProposedIsCommand ==
    ASSUME LeaderOK, NEW n \in Server, NEW slot \in Slot, NEW v \in Command, NEW w \in ValuesToPropose(n, slot, v)
    PROVE  w \in Command
<1> DEFINE values == {r.value : r \in Adopted(n, slot)}
<1>1. \A r \in Adopted(n, slot) : r \in Record
  <2> SUFFICES ASSUME NEW r \in Adopted(n, slot) PROVE r \in Record
    OBVIOUS
  <2>1. PICK p \in promises[n] : r = p.accepted[slot] /\ r # Nothing
    BY DEF Adopted
  <2>2. p.accepted \in Records
    BY DEF LeaderOK, PromiseOf
  <2> QED BY <2>1, <2>2, RecordParts
<1>2. values \in SUBSET Command
  BY <1>1, RecordParts
<1>3. w = v \/ w \in values
  BY DEF ValuesToPropose
<1> QED BY <1>2, <1>3

LEMMA AcceptKeepsTypes ==
    ASSUME AcceptorOK, NEW n \in Server, NEW slot \in Slot, NEW b \in Ballot, NEW v \in Command,
           Accept(n, slot, b, v)
    PROVE  AcceptorOK'
<1> DEFINE record == [ballot |-> b, value |-> v]
<1>1. record \in Record
  BY RecordParts
<1>2. promised' \in [Server -> Ballots]
  BY DEF Accept, AcceptorOK, Ballots
<1>3. acceptHistory' \in [Server -> SUBSET (Slot \X Record)]
  BY <1>1 DEF Accept, AcceptorOK
<1>4. accepted' \in [Server -> Records]
  <2>1. accepted' = [accepted EXCEPT ![n] = [accepted[n] EXCEPT ![slot] = record]]
    BY DEF Accept, AcceptorOK
  <2>2. accepted[n] \in [Slot -> Record \cup {Nothing}]
    BY DEF AcceptorOK, Records
  <2>3. [accepted[n] EXCEPT ![slot] = record] \in Records
    BY <1>1, <2>2 DEF Records
  <2> QED BY <2>1, <2>3 DEF AcceptorOK
<1> QED BY <1>2, <1>3, <1>4 DEF AcceptorOK

LEMMA ClearKeepsTypes ==
    ASSUME LeaderOK, NEW n \in Server
    PROVE  /\ [pending EXCEPT ![n] = [s \in Slot |-> None]] \in [Server -> [Slot -> Command \cup {None}]]
           /\ [acceptedBy EXCEPT ![n] = [s \in Slot |-> {}]] \in [Server -> [Slot -> SUBSET Server]]
<1>1. [s \in Slot |-> None] \in [Slot -> Command \cup {None}]
  OBVIOUS
<1>2. [s \in Slot |-> {}] \in [Slot -> SUBSET Server]
  OBVIOUS
<1> QED BY <1>1, <1>2 DEF LeaderOK

LEMMA PendingKeepsType ==
    ASSUME LeaderOK, NEW n \in Server, NEW slot \in Slot, NEW w \in Command \cup {None}
    PROVE  [pending EXCEPT ![n][slot] = w] \in [Server -> [Slot -> Command \cup {None}]]
<1>1. [pending[n] EXCEPT ![slot] = w] \in [Slot -> Command \cup {None}]
  BY DEF LeaderOK
<1> QED BY <1>1 DEF LeaderOK

LEMMA AcceptedByKeepsType ==
    ASSUME LeaderOK, NEW n \in Server, NEW slot \in Slot, NEW by, by \subseteq Server
    PROVE  [acceptedBy EXCEPT ![n][slot] = by] \in [Server -> [Slot -> SUBSET Server]]
<1>1. [acceptedBy[n] EXCEPT ![slot] = by] \in [Slot -> SUBSET Server]
  BY DEF LeaderOK
<1> QED BY <1>1 DEF LeaderOK

LEMMA LearnKeepsTypes ==
    ASSUME DecisionOK, NEW n \in Server, NEW slot \in Slot, NEW record \in Record
    PROVE  /\ LearnDecision(n, slot, record) => learned' \in [Server -> Records]
           /\ RecordChosen(slot, record) => chosen' \in Records
<1>1. ASSUME LearnDecision(n, slot, record) PROVE learned' \in [Server -> Records]
  <2> DEFINE new == IF learned[n][slot] = Nothing THEN record ELSE learned[n][slot]
  <2>1. learned[n] \in [Slot -> Record \cup {Nothing}] /\ new \in Record \cup {Nothing}
    BY DEF DecisionOK, Records
  <2>2. [learned[n] EXCEPT ![slot] = new] \in Records
    BY <2>1 DEF Records
  <2>3. learned' = [learned EXCEPT ![n] = [learned[n] EXCEPT ![slot] = new]]
    BY <1>1 DEF LearnDecision, DecisionOK
  <2> QED BY <2>2, <2>3 DEF DecisionOK
<1>2. ASSUME RecordChosen(slot, record) PROVE chosen' \in Records
  <2>1. chosen \in [Slot -> Record \cup {Nothing}]
    BY DEF DecisionOK, Records
  <2> QED BY <1>2, <2>1 DEF RecordChosen, Records
<1> QED BY <1>1, <1>2

LEMMA ProposeKeepsTypes ==
    ASSUME AcceptorOK, LeaderOK, DecisionOK, NEW n \in Server, NEW slot \in Slot, NEW v \in Command,
           Propose(n, slot, v)
    PROVE  AcceptorOK' /\ LeaderOK' /\ DecisionOK'
<1> DEFINE b == leaderBallot[n]
<1>1. b \in Ballot
  BY DEF Propose, HasLeaderAuthority, LeaderOK, Ballots
<1>2. PICK w \in ValuesToPropose(n, slot, v) :
        /\ pending' = [pending EXCEPT ![n][slot] = w]
        /\ \/ /\ acceptedBy' = [acceptedBy EXCEPT ![n][slot] = {}]
              /\ msgs' \in {msgs, msgs \cup {AcceptRequest(slot, b, w)}}
              /\ UNCHANGED acceptor
           \/ /\ Accept(n, slot, b, w)
              /\ acceptedBy' = [acceptedBy EXCEPT ![n][slot] = {n}]
              /\ msgs' = msgs \cup {AcceptRequest(slot, b, w)}
  BY DEF Propose
<1>3. UNCHANGED <<lastRound, learned, leaderBallot, promises, chosen>>
  BY DEF Propose
<1>4. w \in Command
  BY ProposedIsCommand
<1>5. AcceptRequest(slot, b, w) \in Messages
  BY <1>1, <1>4 DEF AcceptRequest, Messages
<1> HIDE DEF b
<1>6. AcceptorOK'
  <2>1. CASE UNCHANGED acceptor
    BY <2>1 DEF acceptor, AcceptorOK
  <2>2. CASE Accept(n, slot, b, w)
    BY <1>1, <1>4, <2>2, AcceptKeepsTypes
  <2> QED BY <1>2, <2>1, <2>2
<1>7. LeaderOK'
  <2>1. pending' \in [Server -> [Slot -> Command \cup {None}]]
    BY <1>2, <1>4, PendingKeepsType
  <2>2. [acceptedBy EXCEPT ![n][slot] = {}] \in [Server -> [Slot -> SUBSET Server]]
    BY AcceptedByKeepsType
  <2>3. [acceptedBy EXCEPT ![n][slot] = {n}] \in [Server -> [Slot -> SUBSET Server]]
    BY AcceptedByKeepsType
  <2> QED BY <1>2, <1>3, <2>1, <2>2, <2>3 DEF LeaderOK
<1>8. DecisionOK'
  BY <1>2, <1>3, <1>5 DEF DecisionOK
<1> QED BY <1>6, <1>7, <1>8

\* Rounds come from prepare_leadership, and those it is given are bounded.
BoundInv ==
    /\ \A n \in Server : leaderBallot[n].round <= MaxRound
    /\ \A m \in msgs : m.ballot.round <= MaxRound
    /\ \A n \in Server : \A e \in acceptHistory[n] : e[2].ballot.round <= MaxRound

LEMMA QuorumRecordsAreRecords ==
    ASSUME AcceptorOK, BoundInv, NEW s \in Slot
    PROVE  /\ QuorumRecords(s) \in SUBSET Record
           /\ QuorumRecords(s) # {} =>
                /\ RecoverChosen(s) \in QuorumRecords(s)
                /\ \A q \in QuorumRecords(s) : ~Less(RecoverChosen(s).ballot, q.ballot)
           /\ QuorumRecords(s) = {} => RecoverChosen(s) = Nothing
<1>1. ASSUME NEW r \in QuorumRecords(s) PROVE r \in Record /\ r.ballot.round <= MaxRound
  <2>1. PICK n \in Server : \E e \in acceptHistory[n] : r = e[2]
    BY DEF QuorumRecords
  <2>2. PICK e \in acceptHistory[n] : r = e[2]
    BY <2>1
  <2>3. e \in Slot \X Record
    BY DEF AcceptorOK
  <2> QED BY <2>2, <2>3 DEF BoundInv
<1>2. ASSUME QuorumRecords(s) # {}
      PROVE  \E r \in QuorumRecords(s) : \A q \in QuorumRecords(s) : ~Less(r.ballot, q.ballot)
  <2>1. QuorumRecords(s) \in SUBSET Record /\ \A r \in QuorumRecords(s) : r.ballot.round <= MaxRound
    BY <1>1
  <2> QED BY <1>2, <2>1, HighestExists
<1> QED BY <1>1, <1>2 DEF RecoverChosen

\* With no message and no acceptance, bounds stay.
LEMMA BoundStays ==
    ASSUME BoundInv, UNCHANGED <<acceptHistory, msgs>>,
           NEW n \in Server, \A k \in Server : leaderBallot'[k] \in {leaderBallot[k], NoBallot}
    PROVE  BoundInv'
<1>1. NoBallot.round <= MaxRound
  BY BoundAssumption DEF NoBallot
<1> QED BY <1>1 DEF BoundInv

LEMMA AcceptKeepsBound ==
    ASSUME AcceptorOK, BoundInv, NEW n \in Server, NEW slot, NEW b, NEW v, Accept(n, slot, b, v), b.round <= MaxRound
    PROVE  \A k \in Server : \A e \in acceptHistory'[k] : e[2].ballot.round <= MaxRound
<1> SUFFICES ASSUME NEW k \in Server, NEW e \in acceptHistory'[k] PROVE e[2].ballot.round <= MaxRound
  OBVIOUS
<1>1. e \in acceptHistory[k] \/ e = <<slot, [ballot |-> b, value |-> v]>>
  BY DEF Accept, AcceptorOK
<1>2. CASE e \in acceptHistory[k]
  BY <1>2 DEF BoundInv
<1>3. CASE e = <<slot, [ballot |-> b, value |-> v]>>
  BY <1>3
<1> QED BY <1>1, <1>2, <1>3

TypeInv == AcceptorOK /\ LeaderOK /\ DecisionOK /\ BoundInv

LEMMA ProposeKeepsBound ==
    ASSUME TypeInv, NEW n \in Server, NEW slot \in Slot, NEW v \in Command, Propose(n, slot, v)
    PROVE  BoundInv'
<1> DEFINE b == leaderBallot[n]
<1>1. b.round <= MaxRound
  BY DEF TypeInv, BoundInv
<1>2. leaderBallot' = leaderBallot
  BY DEF Propose
<1>3. PICK w \in ValuesToPropose(n, slot, v) :
        /\ msgs' \in {msgs, msgs \cup {AcceptRequest(slot, b, w)}}
        /\ acceptHistory' = acceptHistory \/ Accept(n, slot, b, w)
  BY DEF Propose, acceptor
<1>4. \A m \in msgs' : m.ballot.round <= MaxRound
  BY <1>1, <1>3 DEF TypeInv, BoundInv, AcceptRequest
<1>5. \A k \in Server : \A e \in acceptHistory'[k] : e[2].ballot.round <= MaxRound
  <2> HIDE DEF b
  <2> QED BY <1>1, <1>3, AcceptKeepsBound DEF TypeInv, BoundInv
<1> QED BY <1>2, <1>4, <1>5 DEF TypeInv, BoundInv

LEMMA TypeStep == TypeInv /\ [Next]_vars => TypeInv'
<1> SUFFICES ASSUME TypeInv, [Next]_vars PROVE TypeInv'
  OBVIOUS
<1> AcceptorOK /\ LeaderOK /\ DecisionOK /\ BoundInv
  BY DEF TypeInv
<1>1. ASSUME NEW n \in Server, Prepare(n) PROVE TypeInv'
  <2>1. PICK r \in 1..MaxRound : PrepareLeadership(n, r)
    BY <1>1 DEF Prepare
  <2> DEFINE b == [round |-> r, proposer |-> n]
             own == [acceptor |-> n, accepted |-> accepted[n]]
             prepare == [type |-> "Prepare", ballot |-> b]
  <2>2. r \in Nat /\ b \in Ballot /\ b.round <= MaxRound
    BY BoundAssumption DEF Ballot
  <2>3. own \in PromiseOf
    BY DEF AcceptorOK, PromiseOf
  <2>4. prepare \in Messages /\ prepare.ballot = b
    BY <2>2 DEF Messages
  <2>5. /\ lastRound' = [lastRound EXCEPT ![n] = r]
        /\ leaderBallot' = [leaderBallot EXCEPT ![n] = b]
        /\ pending' = [pending EXCEPT ![n] = [s \in Slot |-> None]]
        /\ acceptedBy' = [acceptedBy EXCEPT ![n] = [s \in Slot |-> {}]]
        /\ promises' = [promises EXCEPT ![n] = {}] \/ promises' = [promises EXCEPT ![n] = {own}]
        /\ promised' = promised \/ promised' = [promised EXCEPT ![n] = b]
        /\ msgs' = msgs \cup {prepare}
        /\ UNCHANGED <<accepted, acceptHistory, learned, chosen>>
    BY <2>1 DEF PrepareLeadership
  <2> HIDE DEF b, own, prepare
  <2>6. AcceptorOK'
    BY <2>2, <2>5 DEF AcceptorOK, Ballots
  <2>7. LeaderOK'
    <3>1. leaderBallot' \in [Server -> Ballots]
      BY <2>2, <2>5 DEF LeaderOK, Ballots
    <3>2. promises' \in [Server -> SUBSET PromiseOf]
      BY <2>3, <2>5 DEF LeaderOK
    <3>3. pending' \in [Server -> [Slot -> Command \cup {None}]] /\ acceptedBy' \in [Server -> [Slot -> SUBSET Server]]
      BY <2>5, ClearKeepsTypes
    <3> QED BY <3>1, <3>2, <3>3 DEF LeaderOK
  <2>8. DecisionOK'
    BY <2>2, <2>4, <2>5 DEF DecisionOK
  <2>9. BoundInv'
    <3>1. \A k \in Server : leaderBallot'[k].round <= MaxRound
      BY <2>2, <2>5 DEF LeaderOK, BoundInv
    <3>2. \A m \in msgs' : m.ballot.round <= MaxRound
      BY <2>2, <2>4, <2>5 DEF BoundInv
    <3> QED BY <2>5, <3>1, <3>2 DEF BoundInv
  <2> QED BY <2>6, <2>7, <2>8, <2>9 DEF TypeInv
<1>2. ASSUME NEW n \in Server, NEW v \in Command, NEW slot \in Slot, Propose(n, slot, v) PROVE TypeInv'
  BY <1>2, ProposeKeepsTypes, ProposeKeepsBound DEF TypeInv
<1>3. ASSUME NEW n \in Server, NEW slot \in Slot, RetryProposal(n, slot) PROVE TypeInv'
  <2> DEFINE request == AcceptRequest(slot, leaderBallot[n], pending[n][slot])
  <2>1. /\ msgs' = msgs \cup {request}
        /\ UNCHANGED <<promised, accepted, acceptHistory, lastRound, learned, leaderBallot, promises, pending,
                       acceptedBy, chosen>>
    BY <1>3 DEF RetryProposal, acceptor, leader
  <2>2. leaderBallot[n] \in Ballot /\ pending[n][slot] \in Command
    BY <1>3 DEF RetryProposal, HasLeaderAuthority, LeaderOK, Ballots
  <2>3. request \in Messages /\ request.ballot.round <= MaxRound
    BY <2>2 DEF AcceptRequest, Messages, BoundInv
  <2> HIDE DEF request
  <2>4. BoundInv'
    BY <2>1, <2>3 DEF BoundInv
  <2> QED BY <2>1, <2>3, <2>4 DEF TypeInv, AcceptorOK, LeaderOK, DecisionOK
<1>4. ASSUME NEW n \in Server, NEW m \in msgs, ReceivePrepare(n, m) PROVE TypeInv'
  <2> DEFINE promise == [type |-> "Promise", ballot |-> m.ballot, acceptor |-> n, accepted |-> accepted[n]]
  <2>1. /\ promised' = [promised EXCEPT ![n] = m.ballot]
        /\ msgs' = msgs \cup {promise}
        /\ UNCHANGED <<accepted, acceptHistory, lastRound, learned, leaderBallot, promises, pending,
                       acceptedBy, chosen>>
    BY <1>4 DEF ReceivePrepare, leader
  <2>2. m.ballot \in Ballot /\ m.ballot.round <= MaxRound
    BY MessageParts DEF DecisionOK, BoundInv
  <2>3. promise \in Messages /\ promise.ballot = m.ballot
    BY <2>2 DEF Messages, AcceptorOK
  <2> HIDE DEF promise
  <2>4. BoundInv'
    BY <2>1, <2>2, <2>3 DEF BoundInv
  <2> QED BY <2>1, <2>2, <2>3, <2>4 DEF TypeInv, AcceptorOK, LeaderOK, DecisionOK, Ballots
<1>5. ASSUME NEW n \in Server, NEW m \in msgs, ReceivePromise(n, m) PROVE TypeInv'
  <2> DEFINE p == [acceptor |-> m.acceptor, accepted |-> m.accepted]
  <2>1. /\ promises' = [promises EXCEPT ![n] = @ \cup {p}]
        /\ UNCHANGED <<promised, accepted, acceptHistory, lastRound, learned, leaderBallot, pending,
                       acceptedBy, chosen, msgs>>
    BY <1>5 DEF ReceivePromise, acceptor
  <2>2. p \in PromiseOf
    BY <1>5, MessageParts DEF ReceivePromise, DecisionOK, PromiseOf
  <2> HIDE DEF p
  <2>3. BoundInv'
    BY <2>1 DEF BoundInv
  <2> QED BY <2>1, <2>2, <2>3 DEF TypeInv, AcceptorOK, LeaderOK, DecisionOK
<1>6. ASSUME NEW n \in Server, NEW m \in msgs, ReceiveAccept(n, m) PROVE TypeInv'
  <2> DEFINE reply == [type |-> "Accepted", slot |-> m.slot, ballot |-> m.ballot, acceptor |-> n, value |-> m.value]
  <2>1. /\ UNCHANGED <<lastRound, learned, leaderBallot, promises, pending, acceptedBy, chosen>>
        /\ \/ promised' = [promised EXCEPT ![n] = m.ballot] /\ UNCHANGED <<accepted, acceptHistory, msgs>>
           \/ Accept(n, m.slot, m.ballot, m.value) /\ msgs' = msgs \cup {reply}
    BY <1>6 DEF ReceiveAccept, leader
  <2>2. m.ballot \in Ballot /\ m.slot \in Slot /\ m.value \in Command /\ m.ballot.round <= MaxRound
    BY <1>6, MessageParts DEF ReceiveAccept, DecisionOK, BoundInv
  <2>3. reply \in Messages /\ reply.ballot = m.ballot
    BY <2>2 DEF Messages
  <2> HIDE DEF reply
  <2>4. AcceptorOK'
    <3>1. CASE promised' = [promised EXCEPT ![n] = m.ballot] /\ UNCHANGED <<accepted, acceptHistory, msgs>>
      BY <2>2, <3>1 DEF AcceptorOK, Ballots
    <3>2. CASE Accept(n, m.slot, m.ballot, m.value)
      BY <2>2, <3>2, AcceptKeepsTypes
    <3> QED BY <2>1, <3>1, <3>2
  <2>5. BoundInv'
    <3>1. \A k \in Server : \A e \in acceptHistory'[k] : e[2].ballot.round <= MaxRound
      BY <2>1, <2>2, AcceptKeepsBound DEF BoundInv
    <3>2. \A x \in msgs' : x.ballot.round <= MaxRound
      BY <2>1, <2>2, <2>3 DEF BoundInv
    <3> QED BY <2>1, <3>1, <3>2 DEF BoundInv
  <2>6. LeaderOK' /\ DecisionOK'
    BY <2>1, <2>3 DEF LeaderOK, DecisionOK
  <2> QED BY <2>4, <2>5, <2>6 DEF TypeInv
<1>7. ASSUME NEW n \in Server, NEW m \in msgs, ReceiveAccepted(n, m) PROVE TypeInv'
  <2> DEFINE by == acceptedBy[n][m.slot] \cup {m.acceptor}
             record == [ballot |-> m.ballot, value |-> m.value]
             decision == [type |-> "Decision", slot |-> m.slot, ballot |-> m.ballot, value |-> m.value]
  <2>1. m.ballot \in Ballot /\ m.slot \in Slot /\ m.value \in Command /\ m.acceptor \in Server /\ m.ballot.round <= MaxRound
    BY <1>7, MessageParts DEF ReceiveAccepted, DecisionOK, BoundInv
  <2>2. UNCHANGED <<promised, accepted, acceptHistory, lastRound, leaderBallot, promises>>
    BY <1>7 DEF ReceiveAccepted, acceptor
  <2>3. \/ /\ RecordChosen(m.slot, record) /\ LearnDecision(n, m.slot, record)
           /\ pending' = [pending EXCEPT ![n][m.slot] = None]
           /\ acceptedBy' = [acceptedBy EXCEPT ![n][m.slot] = {}]
           /\ msgs' = msgs \cup {decision}
        \/ acceptedBy' = [acceptedBy EXCEPT ![n][m.slot] = by] /\ UNCHANGED <<pending, learned, chosen, msgs>>
    BY <1>7 DEF ReceiveAccepted
  <2>4. /\ by \in SUBSET Server /\ record \in Record
        /\ decision \in Messages /\ decision.ballot = m.ballot
    BY <2>1 DEF LeaderOK, Messages, Record
  <2> HIDE DEF by, record, decision
  <2>5. LeaderOK'
    <3>1. pending' \in [Server -> [Slot -> Command \cup {None}]]
      <4>1. CASE pending' = [pending EXCEPT ![n][m.slot] = None]
        BY <2>1, <4>1, PendingKeepsType
      <4> QED BY <2>3, <4>1 DEF LeaderOK
    <3>2. [acceptedBy EXCEPT ![n][m.slot] = {}] \in [Server -> [Slot -> SUBSET Server]]
      BY <2>1, AcceptedByKeepsType
    <3>3. [acceptedBy EXCEPT ![n][m.slot] = by] \in [Server -> [Slot -> SUBSET Server]]
      BY <2>1, <2>4, AcceptedByKeepsType
    <3> QED BY <2>2, <2>3, <3>1, <3>2, <3>3 DEF LeaderOK
  <2>6. DecisionOK'
    BY <2>1, <2>2, <2>3, <2>4, LearnKeepsTypes DEF DecisionOK
  <2>7. BoundInv'
    <3>1. \A x \in msgs' : x.ballot.round <= MaxRound
      BY <2>1, <2>3, <2>4 DEF BoundInv
    <3> QED BY <2>2, <3>1 DEF BoundInv
  <2> QED BY <2>2, <2>5, <2>6, <2>7 DEF TypeInv, AcceptorOK
<1>8. ASSUME NEW n \in Server, NEW m \in msgs, ReceiveDecision(n, m) PROVE TypeInv'
  <2> DEFINE record == [ballot |-> m.ballot, value |-> m.value]
  <2>1. m.slot \in Slot /\ record \in Record
    BY <1>8, MessageParts DEF ReceiveDecision, DecisionOK, Record
  <2>2. /\ LearnDecision(n, m.slot, record)
        /\ UNCHANGED <<promised, accepted, acceptHistory, lastRound, leaderBallot, promises, pending, acceptedBy,
                       chosen, msgs>>
    BY <1>8 DEF ReceiveDecision, acceptor, leader
  <2> HIDE DEF record
  <2>3. DecisionOK'
    BY <2>1, <2>2, LearnKeepsTypes DEF DecisionOK
  <2>4. BoundInv'
    BY <2>2 DEF BoundInv
  <2> QED BY <2>2, <2>3, <2>4 DEF TypeInv, AcceptorOK, LeaderOK
<1>9. ASSUME NEW n \in Server, Crash(n) PROVE TypeInv'
  <2>1. /\ leaderBallot' = [leaderBallot EXCEPT ![n] = NoBallot]
        /\ promises' = [promises EXCEPT ![n] = {}]
        /\ pending' = [pending EXCEPT ![n] = [s \in Slot |-> None]]
        /\ acceptedBy' = [acceptedBy EXCEPT ![n] = [s \in Slot |-> {}]]
        /\ UNCHANGED <<promised, accepted, acceptHistory, lastRound, learned, chosen, msgs>>
    BY <1>9 DEF Crash, acceptor
  <2>2. LeaderOK'
    <3>1. leaderBallot' \in [Server -> Ballots] /\ promises' \in [Server -> SUBSET PromiseOf]
      BY <2>1 DEF LeaderOK, Ballots
    <3>2. pending' \in [Server -> [Slot -> Command \cup {None}]] /\ acceptedBy' \in [Server -> [Slot -> SUBSET Server]]
      BY <2>1, ClearKeepsTypes
    <3> QED BY <3>1, <3>2 DEF LeaderOK
  <2>3. BoundInv'
    BY <2>1, BoundStays DEF LeaderOK
  <2> QED BY <2>1, <2>2, <2>3 DEF TypeInv, AcceptorOK, DecisionOK
<1>10. CASE Reconstruct
  <2>1. /\ chosen' = [s \in Slot |-> RecoverChosen(s)]
        /\ leaderBallot' = [n \in Server |-> NoBallot]
        /\ promises' = [n \in Server |-> {}]
        /\ pending' = [n \in Server |-> [s \in Slot |-> None]]
        /\ acceptedBy' = [n \in Server |-> [s \in Slot |-> {}]]
        /\ UNCHANGED <<promised, accepted, acceptHistory, lastRound, learned, msgs>>
    BY <1>10 DEF Reconstruct, acceptor
  <2>2. \A s \in Slot : RecoverChosen(s) \in Record \cup {Nothing}
    BY QuorumRecordsAreRecords
  <2>3. chosen' \in Records
    BY <2>1, <2>2 DEF Records
  <2>4. LeaderOK'
    BY <2>1 DEF LeaderOK, Ballots
  <2>5. BoundInv'
    <3>1. \A k \in Server : leaderBallot'[k].round <= MaxRound
      BY <2>1, BoundAssumption DEF NoBallot
    <3> QED BY <2>1, <3>1 DEF BoundInv
  <2> QED BY <2>1, <2>3, <2>4, <2>5 DEF TypeInv, AcceptorOK, DecisionOK
<1>11. CASE UNCHANGED vars
  <2>1. UNCHANGED <<promised, accepted, acceptHistory, lastRound, learned, leaderBallot, promises, pending,
                    acceptedBy, chosen, msgs>>
    BY <1>11 DEF vars, acceptor, leader
  <2>2. BoundInv'
    BY <2>1 DEF BoundInv
  <2> QED BY <2>1, <2>2 DEF TypeInv, AcceptorOK, LeaderOK, DecisionOK
<1>12. ASSUME NEW n \in Server, \/ \E v \in Value : SubmitRequest(n, v)
                                \/ RepairHole(n)
                                \/ \E v \in Value : ProposeAtHint(n, v)
       PROVE  \E slot \in Slot, v \in Command : Propose(n, slot, v)
  BY <1>12 DEF SubmitRequest, RepairHole, ProposeAtHint, Command
<1> QED BY <1>1, <1>2, <1>3, <1>4, <1>5, <1>6, <1>7, <1>8, <1>9, <1>10, <1>11, <1>12 DEF Next, Deliver

LEMMA TypeInitially == Init => TypeInv
<1> SUFFICES ASSUME Init PROVE TypeInv
  OBVIOUS
<1>1. AcceptorOK /\ LeaderOK /\ DecisionOK
  BY DEF Init, AcceptorOK, LeaderOK, DecisionOK, Ballots, Records
<1>2. BoundInv
  BY BoundAssumption DEF Init, BoundInv, NoBallot
<1> QED BY <1>1, <1>2 DEF TypeInv

\* The durable state and the volatile state of leaders keep their types: a reconstruction reads back only records that
\* _validate_durable_history and _validate_durable_learned admit.
THEOREM TypeCorrect == Spec => []TypeOK
<1>1. Spec => []TypeInv
  BY TypeInitially, TypeStep, PTL DEF Spec
<1>2. TypeInv => TypeOK
  BY TypeParts DEF TypeInv
<1> QED BY <1>1, <1>2, PTL

-----------------------------------------------------------------------------
(* The inductive invariant *)

Entry(s, b, v) == <<s, [ballot |-> b, value |-> v]>>

\* Node a has accepted v for slot s at b.
Has(a, s, b, v) == Entry(s, b, v) \in acceptHistory[a]

\* Node a has accepted nothing for the slot at c and never will.
WontAccept(a, s, c) == Less(c, promised[a]) /\ \A w \in Command : ~Has(a, s, c, w)

\* No value but v has been or will be chosen for the slot below b.
SafeAt(s, v, b) ==
    \A c \in Ballot : Less(c, b) =>
        \E Q \in SUBSET Server : IsQuorum(Q) /\ \A a \in Q : Has(a, s, c, v) \/ WontAccept(a, s, c)

\* What is accepted was requested, is not above the promise nor the last record of its slot, and is one value per
\* ballot; the last record is in the history.
AcceptorAt(a) ==
    /\ \A s \in Slot, b \in Ballot, v \in Command : Has(a, s, b, v) =>
          /\ AcceptRequest(s, b, v) \in msgs
          /\ ~Less(promised[a], b)
          /\ ~Less(accepted[a][s].ballot, b)
    /\ \A s \in Slot : accepted[a][s] # Nothing => Has(a, s, accepted[a][s].ballot, accepted[a][s].value)
    /\ \A s \in Slot, b \in Ballot, v, w \in Command : Has(a, s, b, v) /\ Has(a, s, b, w) => v = w

AcceptorInv == \A a \in Server : AcceptorAt(a)

\* Below b node a has nothing for the slot that is above the record r it reports, which it did accept.
PromiseTrue(a, b, s, r) ==
    /\ ~Less(promised[a], b)
    /\ \A c \in Ballot, v \in Command : Has(a, s, c, v) /\ Less(c, b) => ~Less(r.ballot, c)
    /\ r # Nothing => Has(a, s, r.ballot, r.value)

PromiseInv ==
    \A m \in msgs : m.type = "Promise" => \A s \in Slot : PromiseTrue(m.acceptor, m.ballot, s, m.accepted[s])

\* A leader's ballot is its own, what it proposes is safe, and the promises and acceptances it counts are on disk.
LeaderAt(n) ==
    /\ leaderBallot[n] # NoBallot => leaderBallot[n].proposer = n /\ leaderBallot[n].round <= lastRound[n]
    /\ \A p \in promises[n], s \in Slot : PromiseTrue(p.acceptor, leaderBallot[n], s, p.accepted[s])
    /\ \A s \in Slot : pending[n][s] # None => leaderBallot[n] # NoBallot /\ SafeAt(s, pending[n][s], leaderBallot[n])
    /\ \A s \in Slot : \A a \in acceptedBy[n][s] :
          pending[n][s] # None /\ Has(a, s, leaderBallot[n], pending[n][s])

LeaderInv == \A n \in Server : LeaderAt(n)

\* A leader that places its requests itself asks under its ballot for one value of a slot, until it learns the decision.
PendingAt(n) ==
    n \notin Hints => \A s \in Slot :
        /\ pending[n][s] # None => AcceptRequest(s, leaderBallot[n], pending[n][s]) \in msgs
        /\ \A v \in Command : AcceptRequest(s, leaderBallot[n], v) \in msgs =>
              v = pending[n][s] \/ (pending[n][s] = None /\ learned[n][s] # Nothing)

PendingInv == \A n \in Server : PendingAt(n)

\* Every ballot in a message was allocated: its round is on its proposer's disk.
NumberInv == \A m \in msgs : m.ballot.round <= lastRound[m.ballot.proposer]

\* One ballot of such a leader, one value for a slot.
RequestInv ==
    \A s \in Slot, b \in Ballot, v, w \in Command :
        b.proposer \notin Hints /\ AcceptRequest(s, b, v) \in msgs /\ AcceptRequest(s, b, w) \in msgs => v = w

\* What is requested is safe.
SafeInv == \A s \in Slot, b \in Ballot, v \in Command : AcceptRequest(s, b, v) \in msgs => SafeAt(s, v, b)

AcceptedInv == \A m \in msgs : m.type = "Accepted" => Has(m.acceptor, m.slot, m.ballot, m.value)

\* What is learned or in the cluster's map has its durable majority.
DecidedInv ==
    /\ \A n \in Server, s \in Slot : learned[n][s] # Nothing => HasEvidence(s, learned[n][s])
    /\ \A s \in Slot : chosen[s] # Nothing => HasEvidence(s, chosen[s])

MultiPaxosInv ==
    /\ AcceptorInv /\ LeaderInv /\ PendingInv /\ NumberInv /\ RequestInv /\ SafeInv
    /\ PromiseInv /\ AcceptedInv /\ DecidedInv

-----------------------------------------------------------------------------
(* Agreement *)

LEMMA HistoryForm ==
    ASSUME AcceptorOK, NEW a \in Server, NEW e \in acceptHistory[a]
    PROVE  /\ e[1] \in Slot /\ e[2] \in Record /\ e = <<e[1], e[2]>>
           /\ e[2].ballot \in Ballot /\ e[2].value \in Command
           /\ e = Entry(e[1], e[2].ballot, e[2].value) /\ Has(a, e[1], e[2].ballot, e[2].value)
<1>1. e \in Slot \X Record
  BY DEF AcceptorOK
<1>2. e[1] \in Slot /\ e[2] \in Record /\ e = <<e[1], e[2]>>
  BY <1>1
<1>3. e[2] = [ballot |-> e[2].ballot, value |-> e[2].value] /\ e[2].ballot \in Ballot /\ e[2].value \in Command
  BY <1>2, RecordParts
<1> QED BY <1>2, <1>3 DEF Entry, Has

\* The records with a majority of durable acceptances
LEMMA QuorumRecordsForm ==
    ASSUME AcceptorOK, NEW s \in Slot
    PROVE  /\ \A r \in QuorumRecords(s) : HasEvidence(s, r)
           /\ \A r : HasEvidence(s, r) => r \in QuorumRecords(s)
<1>1. ASSUME NEW r, HasEvidence(s, r) PROVE r \in QuorumRecords(s)
  <2>1. IsQuorum(Acceptors(s, r)) /\ Acceptors(s, r) \in SUBSET Server
    BY <1>1 DEF HasEvidence, Acceptors
  <2>2. PICK a \in Acceptors(s, r) : TRUE
    BY <2>1, QuorumHasMember
  <2>3. a \in Server /\ <<s, r>> \in acceptHistory[a]
    BY DEF Acceptors
  <2>4. <<s, r>> \in {x \in UNION {acceptHistory[n] : n \in Server} : x[1] = s}
    BY <2>3
  <2> QED BY <1>1, <2>4 DEF QuorumRecords
<1>2. \A r \in QuorumRecords(s) : HasEvidence(s, r)
  BY DEF QuorumRecords
<1> QED BY <1>1, <1>2

LEMMA EvidenceForm ==
    ASSUME AcceptorOK, AcceptorInv, NEW s \in Slot, NEW r, HasEvidence(s, r)
    PROVE  /\ r \in Record /\ r.ballot \in Ballot /\ r.value \in Command
           /\ Acceptors(s, r) \in SUBSET Server /\ IsQuorum(Acceptors(s, r))
           /\ \A a \in Acceptors(s, r) : Has(a, s, r.ballot, r.value)
           /\ AcceptRequest(s, r.ballot, r.value) \in msgs
<1>1. Acceptors(s, r) \in SUBSET Server /\ IsQuorum(Acceptors(s, r))
  BY DEF HasEvidence, Acceptors
<1>2. PICK a \in Acceptors(s, r) : TRUE
  BY <1>1, QuorumHasMember
<1>3. <<s, r>> \in acceptHistory[a] /\ a \in Server
  BY DEF Acceptors
<1>4. <<s, r>> \in Slot \X Record
  BY <1>3 DEF AcceptorOK
<1>5. r \in Record /\ r.ballot \in Ballot /\ r.value \in Command /\ r = [ballot |-> r.ballot, value |-> r.value]
  BY <1>4, RecordParts
<1>6. \A x \in Acceptors(s, r) : Has(x, s, r.ballot, r.value)
  BY <1>5 DEF Acceptors, Has, Entry
<1>7. AcceptRequest(s, r.ballot, r.value) \in msgs
  BY <1>2, <1>3, <1>5, <1>6 DEF AcceptorInv, AcceptorAt
<1> QED BY <1>1, <1>5, <1>6, <1>7

\* Two majorities for a slot are for one value.
LEMMA EvidenceAgrees ==
    ASSUME AcceptorOK, AcceptorInv, SafeInv, NEW s \in Slot, NEW q, NEW r, HasEvidence(s, q), HasEvidence(s, r)
    PROVE  q.value = r.value
<1>1. ASSUME NEW x, NEW y, HasEvidence(s, x), HasEvidence(s, y), Less(x.ballot, y.ballot) PROVE x.value = y.value
  <2>1. /\ x.ballot \in Ballot /\ x.value \in Command /\ y.ballot \in Ballot /\ y.value \in Command
        /\ Acceptors(s, x) \in SUBSET Server /\ IsQuorum(Acceptors(s, x))
        /\ \A a \in Acceptors(s, x) : Has(a, s, x.ballot, x.value)
        /\ AcceptRequest(s, y.ballot, y.value) \in msgs
    BY <1>1, EvidenceForm
  <2>2. SafeAt(s, y.value, y.ballot)
    BY <2>1 DEF SafeInv
  <2>3. PICK Q \in SUBSET Server :
           IsQuorum(Q) /\ \A a \in Q : Has(a, s, x.ballot, y.value) \/ WontAccept(a, s, x.ballot)
    BY <1>1, <2>1, <2>2 DEF SafeAt
  <2>4. PICK a \in Q : a \in Acceptors(s, x)
    BY <2>1, <2>3, QuorumsMeet
  <2>5. a \in Server /\ Has(a, s, x.ballot, x.value) /\ Has(a, s, x.ballot, y.value)
    BY <2>1, <2>3, <2>4 DEF WontAccept
  <2> QED BY <2>1, <2>5 DEF AcceptorInv, AcceptorAt
<1>2. CASE q.ballot = r.ballot
  <2>1. /\ q.ballot \in Ballot /\ q.value \in Command /\ r.value \in Command
        /\ Acceptors(s, q) \in SUBSET Server /\ IsQuorum(Acceptors(s, q))
        /\ Acceptors(s, r) \in SUBSET Server /\ IsQuorum(Acceptors(s, r))
        /\ \A a \in Acceptors(s, q) : Has(a, s, q.ballot, q.value)
        /\ \A a \in Acceptors(s, r) : Has(a, s, r.ballot, r.value)
    BY EvidenceForm
  <2>2. PICK a \in Acceptors(s, q) : a \in Acceptors(s, r)
    BY <2>1, QuorumsMeet
  <2>3. a \in Server /\ Has(a, s, q.ballot, q.value) /\ Has(a, s, q.ballot, r.value)
    BY <1>2, <2>1, <2>2
  <2> QED BY <2>1, <2>3 DEF AcceptorInv, AcceptorAt
<1>3. CASE q.ballot # r.ballot
  <2>1. q.ballot \in Ballots /\ r.ballot \in Ballots
    BY EvidenceForm DEF Ballots
  <2>2. Less(q.ballot, r.ballot) \/ Less(r.ballot, q.ballot)
    BY <1>3, <2>1, BallotOrder
  <2> QED BY <1>1, <2>2
<1> QED BY <1>2, <1>3

-----------------------------------------------------------------------------
(* What stays true while acceptors only move up *)

AcceptorsAdvance ==
    \A a \in Server :
        /\ ~Less(promised'[a], promised[a])
        /\ \A s \in Slot, c \in Ballot, v \in Command :
              /\ Has(a, s, c, v) => Has(a, s, c, v)'
              /\ Has(a, s, c, v)' => Has(a, s, c, v) \/ ~Less(c, promised[a])

LEMMA WontAcceptStable ==
    ASSUME AcceptorOK, AcceptorOK', AcceptorsAdvance,
           NEW a \in Server, NEW s \in Slot, NEW c \in Ballot, WontAccept(a, s, c)
    PROVE  WontAccept(a, s, c)'
<1>1. promised[a] \in Ballots /\ promised'[a] \in Ballots /\ c \in Ballots
  BY DEF AcceptorOK, Ballots
<1>2. ~Less(promised'[a], promised[a]) /\ Less(c, promised[a])
  BY DEF AcceptorsAdvance, WontAccept
<1>3. Less(c, promised'[a])
  <2>1. promised'[a] = promised[a] \/ Less(promised[a], promised'[a])
    BY <1>1, <1>2, BallotOrder
  <2> QED BY <1>1, <1>2, <2>1, BallotOrder
<1>4. \A w \in Command : ~Has(a, s, c, w)'
  BY <1>2 DEF AcceptorsAdvance, WontAccept
<1> QED BY <1>3, <1>4 DEF WontAccept

LEMMA SafeAtStable ==
    ASSUME AcceptorOK, AcceptorOK', AcceptorsAdvance,
           NEW s \in Slot, NEW v \in Command, NEW b \in Ballot, SafeAt(s, v, b)
    PROVE  SafeAt(s, v, b)'
<1> SUFFICES ASSUME NEW c \in Ballot, Less(c, b)
             PROVE  \E Q \in SUBSET Server :
                      IsQuorum(Q) /\ \A a \in Q : Has(a, s, c, v)' \/ WontAccept(a, s, c)'
  BY DEF SafeAt
<1>1. PICK Q \in SUBSET Server : IsQuorum(Q) /\ \A a \in Q : Has(a, s, c, v) \/ WontAccept(a, s, c)
  BY DEF SafeAt
<1>2. ASSUME NEW a \in Q PROVE Has(a, s, c, v)' \/ WontAccept(a, s, c)'
  BY <1>1, <1>2, WontAcceptStable DEF AcceptorsAdvance
<1> QED BY <1>1, <1>2

LEMMA PromiseStable ==
    ASSUME AcceptorOK, AcceptorOK', AcceptorsAdvance,
           NEW a \in Server, NEW b \in Ballots, NEW s \in Slot, NEW r \in Record \cup {Nothing}, PromiseTrue(a, b, s, r)
    PROVE  PromiseTrue(a, b, s, r)'
<1>1. promised[a] \in Ballots /\ promised'[a] \in Ballots
  BY DEF AcceptorOK
<1>2. ~Less(promised'[a], promised[a]) /\ ~Less(promised[a], b)
  BY DEF AcceptorsAdvance, PromiseTrue
<1>3. ~Less(promised'[a], b)
  BY <1>1, <1>2, BallotOrder
<1>4. ASSUME NEW c \in Ballot, NEW v \in Command, Has(a, s, c, v)', Less(c, b) PROVE ~Less(r.ballot, c)
  <2>1. c \in Ballots
    BY DEF Ballots
  <2>2. Less(c, promised[a])
    <3>1. promised[a] = b \/ Less(b, promised[a])
      BY <1>1, <1>2, BallotOrder
    <3> QED BY <1>1, <1>4, <2>1, <3>1, BallotOrder
  <2>3. Has(a, s, c, v)
    BY <1>4, <2>2 DEF AcceptorsAdvance
  <2> QED BY <1>4, <2>3 DEF PromiseTrue
<1>5. r # Nothing => Has(a, s, r.ballot, r.value)'
  <2> SUFFICES ASSUME r # Nothing PROVE Has(a, s, r.ballot, r.value)'
    OBVIOUS
  <2>1. r.ballot \in Ballot /\ r.value \in Command
    BY RecordParts
  <2>2. Has(a, s, r.ballot, r.value)
    BY DEF PromiseTrue
  <2> QED BY <2>1, <2>2 DEF AcceptorsAdvance
<1> QED BY <1>3, <1>4, <1>5 DEF PromiseTrue

LEMMA EvidenceStable ==
    ASSUME AcceptorOK, AcceptorOK', AcceptorInv, AcceptorsAdvance, NEW s \in Slot, NEW r, HasEvidence(s, r)
    PROVE  HasEvidence(s, r)'
<1>1. /\ r \in Record /\ r.ballot \in Ballot /\ r.value \in Command
      /\ Acceptors(s, r) \in SUBSET Server /\ IsQuorum(Acceptors(s, r))
      /\ \A a \in Acceptors(s, r) : Has(a, s, r.ballot, r.value)
  BY EvidenceForm
<1>2. r = [ballot |-> r.ballot, value |-> r.value]
  BY <1>1, RecordParts
<1>3. ASSUME NEW a \in Acceptors(s, r) PROVE a \in Acceptors(s, r)'
  <2>1. a \in Server /\ Has(a, s, r.ballot, r.value)'
    BY <1>1 DEF AcceptorsAdvance
  <2>2. Entry(s, r.ballot, r.value) = <<s, r>>
    BY <1>2 DEF Entry
  <2> QED BY <2>1, <2>2 DEF Has, Acceptors
<1>4. Acceptors(s, r)' \in SUBSET Server
  BY DEF Acceptors
<1>5. IsQuorum(Acceptors(s, r)')
  BY <1>1, <1>3, <1>4, QuorumGrows
<1> QED BY <1>5 DEF HasEvidence, IsQuorum

-----------------------------------------------------------------------------
(* The value of a proposal is safe *)

\* Some reported record is adopted when any is reported.
LEMMA AdoptedExists ==
    ASSUME TypeInv, AcceptorInv, NEW n \in Server, LeaderAt(n), NEW s \in Slot,
           NEW p \in promises[n], p.accepted[s] # Nothing
    PROVE  Adopted(n, s) # {}
<1> DEFINE reported == {x.accepted[s] : x \in promises[n]} \ {Nothing}
<1>1. ASSUME NEW r \in reported PROVE r \in Record /\ r.ballot.round <= MaxRound
  <2>1. PICK x \in promises[n] : r = x.accepted[s] /\ r # Nothing
    OBVIOUS
  <2>2. x.acceptor \in Server /\ x.accepted \in Records
    BY DEF TypeInv, LeaderOK, PromiseOf
  <2>3. r \in Record
    BY <2>1, <2>2, RecordParts
  <2>4. Has(x.acceptor, s, r.ballot, r.value)
    BY <2>1 DEF LeaderAt, PromiseTrue
  <2>5. AcceptRequest(s, r.ballot, r.value) \in msgs
    BY <2>2, <2>3, <2>4, RecordParts DEF AcceptorInv, AcceptorAt
  <2>6. AcceptRequest(s, r.ballot, r.value).ballot = r.ballot
    BY DEF AcceptRequest
  <2> QED BY <2>3, <2>5, <2>6 DEF TypeInv, BoundInv
<1>2. reported \in SUBSET Record /\ reported # {} /\ \A r \in reported : r.ballot.round <= MaxRound
  BY <1>1
<1>3. \E r \in reported : \A q \in reported : ~Less(r.ballot, q.ballot)
  <2> HIDE DEF reported
  <2> QED BY <1>2, HighestExists
<1> QED BY <1>3 DEF Adopted

LEMMA ProposedIsSafe ==
    ASSUME TypeInv, AcceptorInv, SafeInv, NEW n \in Server, LeaderAt(n), HasLeaderAuthority(n),
           NEW s \in Slot, NEW v \in Command, NEW w \in ValuesToPropose(n, s, v)
    PROVE  SafeAt(s, w, leaderBallot[n])
<1> DEFINE b == leaderBallot[n]
           Q == Promisers(promises[n])
<1> AcceptorOK /\ LeaderOK
  BY DEF TypeInv
<1>1. b \in Ballot /\ b \in Ballots /\ IsQuorum(Q) /\ w \in Command
  BY ProposedIsCommand DEF HasLeaderAuthority, LeaderOK, Ballots
<1>2. Q \in SUBSET Server
  BY DEF Promisers, LeaderOK, PromiseOf
<1>3. ASSUME NEW p \in promises[n]
      PROVE  /\ p.acceptor \in Server /\ PromiseTrue(p.acceptor, b, s, p.accepted[s])
             /\ p.accepted[s] = Nothing \/ p.accepted[s] \in Record
             /\ p.accepted[s].ballot \in Ballots
  BY RecordParts DEF LeaderAt, LeaderOK, PromiseOf
<1> HIDE DEF b
<1> SUFFICES ASSUME NEW c \in Ballot, Less(c, b)
             PROVE  \E R \in SUBSET Server : IsQuorum(R) /\ \A a \in R : Has(a, s, c, w) \/ WontAccept(a, s, c)
  BY DEF SafeAt, b
<1>4. c \in Ballots
  BY DEF Ballots
<1>5. ASSUME NEW p \in promises[n] PROVE Less(c, promised[p.acceptor])
  <2>1. ~Less(promised[p.acceptor], b) /\ promised[p.acceptor] \in Ballots
    BY <1>3 DEF PromiseTrue, AcceptorOK
  <2>2. promised[p.acceptor] = b \/ Less(b, promised[p.acceptor])
    BY <1>1, <2>1, BallotOrder
  <2> QED BY <1>1, <1>4, <2>1, <2>2, BallotOrder
<1>6. CASE Adopted(n, s) = {}
  <2>1. ASSUME NEW a \in Q PROVE WontAccept(a, s, c)
    <3>1. PICK p \in promises[n] : p.acceptor = a
      BY DEF Promisers
    <3>2. p.accepted[s] = Nothing
      BY <1>6, AdoptedExists
    <3>3. \A x \in Command : Has(a, s, c, x) => ~Less(NoBallot, c)
      BY <1>3, <3>1, <3>2, RecordParts DEF PromiseTrue
    <3> QED BY <1>5, <3>1, <3>3, NoBallotIsLowest DEF WontAccept
  <2> QED BY <1>1, <1>2, <2>1
<1>7. CASE Adopted(n, s) # {}
  <2>1. \A r \in Adopted(n, s) : r.value = w
    BY <1>7 DEF ValuesToPropose
  <2>2. PICK r \in Adopted(n, s) : TRUE
    BY <1>7
  <2> DEFINE k == r.ballot
  <2>3. PICK h \in promises[n] : r = h.accepted[s] /\ r # Nothing
    BY <2>2 DEF Adopted
  <2>4. r \in Record /\ k \in Ballot /\ k \in Ballots /\ r.value = w
    BY <1>3, <2>1, <2>3, RecordParts DEF Ballots
  <2>5. \A p \in promises[n] : p.accepted[s] # Nothing => ~Less(k, p.accepted[s].ballot)
    BY <2>2 DEF Adopted
  <2>6. AcceptRequest(s, k, w) \in msgs
    <3>1. Has(h.acceptor, s, k, w)
      BY <1>3, <2>3, <2>4 DEF PromiseTrue
    <3> QED BY <1>1, <1>3, <2>4, <3>1 DEF AcceptorInv, AcceptorAt
  <2> HIDE DEF k
  <2>7. CASE Less(c, k)
    BY <1>1, <2>4, <2>6, <2>7 DEF SafeInv, SafeAt
  <2>8. CASE c = k \/ Less(k, c)
    <3>1. ASSUME NEW a \in Q PROVE Has(a, s, c, w) \/ WontAccept(a, s, c)
      <4>1. PICK p \in promises[n] : p.acceptor = a
        BY DEF Promisers
      <4> DEFINE f == p.accepted[s]
      <4> SUFFICES ASSUME NEW x \in Command, Has(a, s, c, x) PROVE Has(a, s, c, w)
        BY <1>5, <4>1 DEF WontAccept
      <4>2. ~Less(f.ballot, c) /\ f.ballot \in Ballots
        BY <1>3, <4>1 DEF PromiseTrue
      <4>3. f # Nothing
        BY <4>2, NoBallotIsLowest, RecordParts
      <4>4. f.ballot = k /\ c = k
        <5>1. ~Less(k, f.ballot)
          BY <2>5, <4>3
        <5>2. f.ballot = c \/ Less(c, f.ballot)
          BY <1>4, <4>2, BallotOrder
        <5>3. ~Less(k, c)
          BY <1>4, <2>4, <4>2, <5>1, <5>2, BallotOrder
        <5> QED BY <1>4, <2>4, <2>8, <4>2, <5>1, <5>2, <5>3, BallotOrder
      <4>5. f \in Adopted(n, s)
        <5>1. \A q \in {y.accepted[s] : y \in promises[n]} \ {Nothing} : ~Less(f.ballot, q.ballot)
          BY <2>5, <4>4
        <5> QED BY <4>3, <5>1 DEF Adopted
      <4>6. f.value = w
        BY <2>1, <4>5
      <4>7. Has(a, s, c, w)
        BY <1>3, <4>1, <4>3, <4>4, <4>6 DEF PromiseTrue
      <4> QED BY <4>7
    <3> QED BY <1>1, <1>2, <3>1
  <2> QED BY <1>4, <2>4, <2>7, <2>8, BallotOrder
<1> QED BY <1>6, <1>7

-----------------------------------------------------------------------------
(* Frame lemmas: what a step leaves alone *)

LEMMA Stability ==
    ASSUME AcceptorOK, AcceptorOK', AcceptorInv, AcceptorsAdvance
    PROVE  /\ \A a \in Server, b \in Ballots, s \in Slot, r \in Record \cup {Nothing} :
                 PromiseTrue(a, b, s, r) => PromiseTrue(a, b, s, r)'
           /\ \A s \in Slot, v \in Command, b \in Ballot : SafeAt(s, v, b) => SafeAt(s, v, b)'
           /\ \A s \in Slot : \A r : HasEvidence(s, r) => HasEvidence(s, r)'
           /\ \A a \in Server, s \in Slot, b \in Ballot, v \in Command : Has(a, s, b, v) => Has(a, s, b, v)'
<1>1. \A a \in Server, b \in Ballots, s \in Slot, r \in Record \cup {Nothing} :
         PromiseTrue(a, b, s, r) => PromiseTrue(a, b, s, r)'
  BY PromiseStable
<1>2. \A s \in Slot, v \in Command, b \in Ballot : SafeAt(s, v, b) => SafeAt(s, v, b)'
  BY SafeAtStable
<1>3. \A s \in Slot : \A r : HasEvidence(s, r) => HasEvidence(s, r)'
  BY EvidenceStable
<1> QED BY <1>1, <1>2, <1>3 DEF AcceptorsAdvance

Messaging ==
    NumberInv /\ RequestInv /\ SafeInv /\ PromiseInv /\ AcceptedInv /\ DecidedInv

\* The parts of the invariant about messages and decisions, for a step that sends new.
LEMMA CarryMessages ==
    ASSUME TypeInv, TypeInv', MultiPaxosInv, AcceptorsAdvance,
           NEW new \in SUBSET Messages, msgs' = msgs \cup new,
           \A n \in Server : lastRound[n] <= lastRound'[n],
           \A m \in new : m.ballot.round <= lastRound'[m.ballot.proposer],
           \A m \in new : m.type = "Promise" => \A s \in Slot : PromiseTrue(m.acceptor, m.ballot, s, m.accepted[s])',
           \A m \in new : m.type = "Accepted" => Has(m.acceptor, m.slot, m.ballot, m.value)',
           \A s \in Slot, b \in Ballot, v \in Command : AcceptRequest(s, b, v) \in new =>
               /\ SafeAt(s, v, b)'
               /\ b.proposer \notin Hints => \A w \in Command : AcceptRequest(s, b, w) \in msgs' => w = v,
           \A n \in Server, s \in Slot :
               learned'[n][s] = learned[n][s] \/ HasEvidence(s, learned[n][s])',
           \A s \in Slot : chosen'[s] \in {chosen[s], Nothing} \/ HasEvidence(s, chosen[s])'
    PROVE  Messaging'
<1> /\ AcceptorOK /\ AcceptorOK' /\ DecisionOK /\ DecisionOK' /\ AcceptorInv
    /\ NumberInv /\ RequestInv /\ SafeInv /\ PromiseInv /\ AcceptedInv /\ DecidedInv
  BY DEF TypeInv, MultiPaxosInv
<1>m. \A m \in msgs : m \in Messages /\ m.ballot \in Ballot /\ m.ballot \in Ballots
                      /\ m.ballot.round \in Nat /\ m.ballot.proposer \in Server
  BY MessageParts DEF DecisionOK, Ballot, Ballots
<1>1. NumberInv'
  <2> SUFFICES ASSUME NEW m \in msgs' PROVE m.ballot.round <= lastRound'[m.ballot.proposer]
    BY DEF NumberInv
  <2>1. CASE m \in msgs
    <3>1. m.ballot.round \in Nat /\ m.ballot.proposer \in Server
      BY <1>m, <2>1
    <3>2. lastRound[m.ballot.proposer] \in Nat /\ lastRound'[m.ballot.proposer] \in Nat
      BY <3>1 DEF DecisionOK
    <3>3. m.ballot.round <= lastRound[m.ballot.proposer]
      BY <2>1 DEF NumberInv
    <3> QED BY <3>1, <3>2, <3>3
  <2> QED BY <2>1
<1>2. RequestInv'
  BY DEF RequestInv
<1>3. SafeInv'
  BY Stability DEF SafeInv
<1>4. PromiseInv'
  <2> SUFFICES ASSUME NEW m \in msgs', m.type = "Promise", NEW s \in Slot
               PROVE  PromiseTrue(m.acceptor, m.ballot, s, m.accepted[s])'
    BY DEF PromiseInv
  <2>1. CASE m \in msgs
    <3>1. m.acceptor \in Server /\ m.ballot \in Ballots /\ m.accepted[s] \in Record \cup {Nothing}
      BY <1>m, <2>1, MessageParts, RecordParts
    <3>2. PromiseTrue(m.acceptor, m.ballot, s, m.accepted[s])
      BY <2>1 DEF PromiseInv
    <3> QED BY <3>1, <3>2, Stability
  <2> QED BY <2>1
<1>5. AcceptedInv'
  <2> SUFFICES ASSUME NEW m \in msgs', m.type = "Accepted" PROVE Has(m.acceptor, m.slot, m.ballot, m.value)'
    BY DEF AcceptedInv
  <2>1. CASE m \in msgs
    <3>1. m.acceptor \in Server /\ m.slot \in Slot /\ m.ballot \in Ballot /\ m.value \in Command
      BY <1>m, <2>1, MessageParts
    <3>2. Has(m.acceptor, m.slot, m.ballot, m.value)
      BY <2>1 DEF AcceptedInv
    <3> QED BY <3>1, <3>2, Stability
  <2> QED BY <2>1
<1>6. DecidedInv'
  <2>0. \A s \in Slot : \A x : HasEvidence(s, x) => HasEvidence(s, x)'
    BY Stability
  <2>1. ASSUME NEW n \in Server, NEW s \in Slot, learned'[n][s] # Nothing PROVE HasEvidence(s, learned[n][s])'
    <3>1. CASE learned'[n][s] = learned[n][s]
      <4>1. HasEvidence(s, learned[n][s])
        BY <2>1, <3>1 DEF DecidedInv
      <4>2. \A x : x = learned[n][s] => HasEvidence(s, x)'
        BY <2>0, <4>1
      <4> QED BY <3>1, <4>2 DEF HasEvidence, Acceptors, IsQuorum
    <3> QED BY <3>1
  <2>2. ASSUME NEW s \in Slot, chosen'[s] # Nothing PROVE HasEvidence(s, chosen[s])'
    <3>1. CASE chosen'[s] = chosen[s]
      <4>1. HasEvidence(s, chosen[s])
        BY <2>2, <3>1 DEF DecidedInv
      <4>2. \A x : x = chosen[s] => HasEvidence(s, x)'
        BY <2>0, <4>1
      <4> QED BY <3>1, <4>2 DEF HasEvidence, Acceptors, IsQuorum
    <3> QED BY <2>2, <3>1
  <2> QED BY <2>1, <2>2 DEF DecidedInv
<1> QED BY <1>1, <1>2, <1>3, <1>4, <1>5, <1>6 DEF Messaging

LEMMA CarryAcceptor ==
    ASSUME NEW a \in Server, AcceptorAt(a), msgs \subseteq msgs',
           promised'[a] = promised[a], accepted'[a] = accepted[a], acceptHistory'[a] = acceptHistory[a]
    PROVE  AcceptorAt(a)'
BY DEF AcceptorAt, AcceptRequest, Has, Entry

LEMMA CarryLeader ==
    ASSUME TypeInv, TypeInv', AcceptorInv, AcceptorsAdvance, NEW k \in Server, LeaderAt(k),
           leaderBallot'[k] = leaderBallot[k], promises'[k] = promises[k], pending'[k] = pending[k],
           acceptedBy'[k] = acceptedBy[k], lastRound[k] <= lastRound'[k]
    PROVE  LeaderAt(k)'
<1> AcceptorOK /\ AcceptorOK' /\ LeaderOK /\ DecisionOK /\ DecisionOK'
  BY DEF TypeInv
<1> DEFINE b == leaderBallot[k]
<1>1. b # NoBallot => b.proposer = k /\ b.round <= lastRound'[k]
  <2> SUFFICES ASSUME b # NoBallot PROVE b.proposer = k /\ b.round <= lastRound'[k]
    OBVIOUS
  <2>1. b.round \in Nat /\ lastRound[k] \in Nat /\ lastRound'[k] \in Nat
    BY DEF LeaderOK, DecisionOK, Ballots, Ballot
  <2> QED BY <2>1 DEF LeaderAt
<1>2. ASSUME NEW p \in promises[k], NEW s \in Slot PROVE PromiseTrue(p.acceptor, leaderBallot[k], s, p.accepted[s])'
  <2>1. p.acceptor \in Server /\ p.accepted[s] \in Record \cup {Nothing} /\ b \in Ballots
    BY RecordParts DEF LeaderOK, PromiseOf
  <2>2. PromiseTrue(p.acceptor, b, s, p.accepted[s])
    BY DEF LeaderAt
  <2>3. \A c \in Ballots : PromiseTrue(p.acceptor, c, s, p.accepted[s]) => PromiseTrue(p.acceptor, c, s, p.accepted[s])'
    BY <2>1, Stability
  <2> QED BY <2>1, <2>2, <2>3
<1>3. ASSUME NEW s \in Slot, pending[k][s] # None
      PROVE  b # NoBallot /\ SafeAt(s, pending[k][s], leaderBallot[k])'
  <2>1. b # NoBallot /\ SafeAt(s, pending[k][s], b)
    BY <1>3 DEF LeaderAt
  <2>2. b \in Ballot /\ pending[k][s] \in Command
    BY <1>3, <2>1 DEF LeaderOK, Ballots
  <2>3. \A v \in Command, c \in Ballot : SafeAt(s, v, c) => SafeAt(s, v, c)'
    BY Stability
  <2> QED BY <2>1, <2>2, <2>3
<1>4. ASSUME NEW s \in Slot, NEW a \in acceptedBy[k][s]
      PROVE  pending[k][s] # None /\ Has(a, s, leaderBallot[k], pending[k][s])'
  <2>1. pending[k][s] # None /\ Has(a, s, b, pending[k][s])
    BY DEF LeaderAt
  <2>2. b \in Ballot /\ pending[k][s] \in Command /\ a \in Server
    BY <2>1, <1>3 DEF LeaderOK, Ballots
  <2>3. \A v \in Command, c \in Ballot : Has(a, s, c, v) => Has(a, s, c, v)'
    BY <2>2 DEF AcceptorsAdvance
  <2> QED BY <2>1, <2>2, <2>3
<1> QED BY <1>1, <1>2, <1>3, <1>4 DEF LeaderAt

LEMMA CarryPending ==
    ASSUME NEW k \in Server, PendingAt(k), msgs \subseteq msgs',
           leaderBallot'[k] = leaderBallot[k], pending'[k] = pending[k],
           \A s \in Slot : learned[k][s] # Nothing => learned'[k][s] # Nothing,
           \A s \in Slot, v \in Command :
               AcceptRequest(s, leaderBallot[k], v) \in msgs' => AcceptRequest(s, leaderBallot[k], v) \in msgs
    PROVE  PendingAt(k)'
BY DEF PendingAt, AcceptRequest

\* A node that leads nothing, asks for nothing and counts nothing
LEMMA NoLeader ==
    ASSUME TypeInv', NEW k \in Server, leaderBallot'[k] = NoBallot, promises'[k] = {},
           \A s \in Slot : pending'[k][s] = None /\ acceptedBy'[k][s] = {}
    PROVE  LeaderAt(k)' /\ PendingAt(k)'
<1>1. LeaderAt(k)'
  BY DEF LeaderAt
<1>2. ASSUME NEW s \in Slot, NEW v \in Command PROVE AcceptRequest(s, NoBallot, v) \notin msgs'
  <2> DEFINE request == AcceptRequest(s, NoBallot, v)
  <2>1. request.ballot = NoBallot
    BY DEF AcceptRequest
  <2>2. msgs' \in SUBSET Messages
    BY DEF TypeInv, DecisionOK
  <2> HIDE DEF request
  <2>3. request \notin msgs'
    BY <2>1, <2>2, MessageParts, NoBallotIsLowest
  <2> QED BY <2>3 DEF request
<1>3. PendingAt(k)'
  <2>1. \A s \in Slot, v \in Command : AcceptRequest(s, leaderBallot[k], v)' \notin msgs'
    BY <1>2 DEF AcceptRequest
  <2> QED BY <2>1 DEF PendingAt
<1> QED BY <1>1, <1>3

\* A step that sends nothing and leaves the acceptors alone
LEMMA SilentStep ==
    ASSUME TypeInv, TypeInv', MultiPaxosInv, UNCHANGED <<promised, accepted, acceptHistory, lastRound, msgs>>,
           \A n \in Server, s \in Slot :
               learned'[n][s] = learned[n][s] \/ HasEvidence(s, learned[n][s])',
           \A s \in Slot : chosen'[s] \in {chosen[s], Nothing} \/ HasEvidence(s, chosen[s])'
    PROVE  AcceptorsAdvance /\ AcceptorInv' /\ Messaging' /\ \A k \in Server : lastRound[k] <= lastRound'[k]
<1>1. AcceptorsAdvance
  <2>1. \A a \in Server : promised[a] \in Ballots
    BY DEF TypeInv, AcceptorOK
  <2> QED BY <2>1, BallotOrder DEF AcceptorsAdvance, Has, Entry
<1>2. AcceptorInv'
  BY CarryAcceptor DEF MultiPaxosInv, AcceptorInv
<1>3. {} \in SUBSET Messages /\ msgs' = msgs \cup {} /\ \A k \in Server : lastRound[k] <= lastRound'[k]
  BY DEF TypeInv, DecisionOK
<1>4. Messaging'
  BY <1>1, <1>3, CarryMessages
<1> QED BY <1>1, <1>2, <1>3, <1>4

\* A promise that goes up, with nothing accepted
LEMMA PromiseAdvances ==
    ASSUME TypeInv, TypeInv', AcceptorInv, msgs \subseteq msgs',
           NEW n \in Server, NEW b \in Ballot, ~Less(b, promised[n]),
           promised' = [promised EXCEPT ![n] = b], UNCHANGED <<accepted, acceptHistory>>
    PROVE  AcceptorsAdvance /\ AcceptorInv'
<1> AcceptorOK /\ AcceptorOK'
  BY DEF TypeInv
<1>1. \A a \in Server : promised[a] \in Ballots /\ promised'[a] \in Ballots
  BY DEF AcceptorOK
<1>2. \A a \in Server : ~Less(promised'[a], promised[a])
  BY <1>1, BallotOrder DEF AcceptorOK
<1>3. AcceptorsAdvance
  BY <1>2 DEF AcceptorsAdvance, Has, Entry
<1>4. ASSUME NEW a \in Server PROVE AcceptorAt(a)'
  <2>1. ASSUME NEW s \in Slot, NEW c \in Ballot, NEW v \in Command, Has(a, s, c, v) PROVE ~Less(promised'[a], c)
    <3>1. ~Less(promised[a], c) /\ c \in Ballots
      BY <2>1 DEF AcceptorInv, AcceptorAt, Ballots
    <3> QED BY <1>1, <1>2, <3>1, BallotOrder
  <2>2. AcceptorAt(a)
    BY DEF AcceptorInv
  <2> QED BY <2>1, <2>2 DEF AcceptorAt, AcceptRequest, Has, Entry
<1> QED BY <1>3, <1>4 DEF AcceptorInv

LEMMA AcceptEffect ==
    ASSUME AcceptorOK, NEW n \in Server, NEW s \in Slot, NEW b \in Ballot, NEW v \in Command, Accept(n, s, b, v),
           NEW a \in Server
    PROVE  /\ promised'[a] = IF a = n THEN b ELSE promised[a]
           /\ \A t \in Slot : accepted'[a][t] = IF a = n /\ t = s THEN [ballot |-> b, value |-> v] ELSE accepted[a][t]
           /\ \A t \in Slot, c \in Ballot, w \in Command :
                 Has(a, t, c, w)' <=> Has(a, t, c, w) \/ (a = n /\ t = s /\ c = b /\ w = v)
<1>1. promised'[a] = IF a = n THEN b ELSE promised[a]
  BY DEF Accept, AcceptorOK
<1>2. ASSUME NEW t \in Slot
      PROVE  accepted'[a][t] = IF a = n /\ t = s THEN [ballot |-> b, value |-> v] ELSE accepted[a][t]
  <2>1. accepted[n] \in [Slot -> Record \cup {Nothing}]
    BY DEF AcceptorOK, Records
  <2> QED BY <2>1 DEF Accept, AcceptorOK
<1>3. acceptHistory'[a] = IF a = n THEN acceptHistory[n] \cup {<<s, [ballot |-> b, value |-> v]>>} ELSE acceptHistory[a]
  BY DEF Accept, AcceptorOK
<1>4. ASSUME NEW t \in Slot, NEW c \in Ballot, NEW w \in Command
      PROVE  <<t, [ballot |-> c, value |-> w]>> = <<s, [ballot |-> b, value |-> v]>> <=> t = s /\ c = b /\ w = v
  <2>1. [ballot |-> c, value |-> w] = [ballot |-> b, value |-> v] <=> c = b /\ w = v
    OBVIOUS
  <2> QED BY <2>1
<1>5. ASSUME NEW t \in Slot, NEW c \in Ballot, NEW w \in Command
      PROVE  Has(a, t, c, w)' <=> Has(a, t, c, w) \/ (a = n /\ t = s /\ c = b /\ w = v)
  BY <1>3, <1>4 DEF Has, Entry
<1> QED BY <1>1, <1>2, <1>5

\* An acceptance
LEMMA AcceptAdvances ==
    ASSUME TypeInv, TypeInv', AcceptorInv, msgs \subseteq msgs',
           NEW n \in Server, NEW s \in Slot, NEW b \in Ballot, NEW v \in Command,
           ~Refuses(n, b), ~Contradicts(n, s, b, v), Accept(n, s, b, v), AcceptRequest(s, b, v) \in msgs'
    PROVE  AcceptorsAdvance /\ AcceptorInv' /\ Has(n, s, b, v)'
<1> AcceptorOK /\ AcceptorOK' /\ b \in Ballots
  BY DEF TypeInv, Ballots
<1> DEFINE record == [ballot |-> b, value |-> v]
<1>0. record # Nothing /\ record.ballot = b /\ record.value = v
  BY RecordParts
<1> HIDE DEF record
<1>x. ASSUME NEW a \in Server
      PROVE  /\ promised'[a] = IF a = n THEN b ELSE promised[a]
             /\ \A t \in Slot : accepted'[a][t] = IF a = n /\ t = s THEN record ELSE accepted[a][t]
             /\ \A t \in Slot, c \in Ballot, w \in Command :
                   Has(a, t, c, w)' <=> Has(a, t, c, w) \/ (a = n /\ t = s /\ c = b /\ w = v)
  BY AcceptEffect DEF record
<1>1. \A a \in Server : promised'[a] = IF a = n THEN b ELSE promised[a]
  BY <1>x
<1>2. \A a \in Server, t \in Slot : accepted'[a][t] = IF a = n /\ t = s THEN record ELSE accepted[a][t]
  BY <1>x
<1>3. \A a \in Server, t \in Slot, c \in Ballot, w \in Command :
         Has(a, t, c, w)' <=> Has(a, t, c, w) \/ (a = n /\ t = s /\ c = b /\ w = v)
  BY <1>x
<1>4. \A a \in Server : promised[a] \in Ballots /\ \A t \in Slot : accepted[a][t].ballot \in Ballots
  BY RecordParts DEF AcceptorOK
<1>5. ~Less(b, promised[n]) /\ ~Less(b, b)
  BY BallotOrder DEF Refuses
<1>6. \A a \in Server : ~Less(promised'[a], promised[a])
  BY <1>1, <1>4, <1>5, BallotOrder
<1>7. AcceptorsAdvance
  BY <1>3, <1>5, <1>6 DEF AcceptorsAdvance
<1>8. ASSUME NEW a \in Server PROVE AcceptorAt(a)'
  <2>0. AcceptorAt(a)
    BY DEF AcceptorInv
  <2>1. ASSUME NEW t \in Slot, NEW c \in Ballot, NEW w \in Command, Has(a, t, c, w)
        PROVE  /\ AcceptRequest(t, c, w) \in msgs'
               /\ ~Less(promised'[a], c)
               /\ ~Less(accepted'[a][t].ballot, c)
    <3>1. AcceptRequest(t, c, w) \in msgs /\ ~Less(promised[a], c) /\ ~Less(accepted[a][t].ballot, c) /\ c \in Ballots
      BY <2>0, <2>1 DEF AcceptorAt, Ballots
    <3>2. a = n => ~Less(b, c)
      BY <1>4, <1>5, <3>1, BallotOrder
    <3> QED BY <1>0, <1>1, <1>2, <3>1, <3>2
  <2>2. ASSUME NEW t \in Slot, NEW c \in Ballot, NEW w \in Command, Has(a, t, c, w)'
        PROVE  /\ AcceptRequest(t, c, w) \in msgs'
               /\ ~Less(promised'[a], c)
               /\ ~Less(accepted'[a][t].ballot, c)
    BY <1>0, <1>1, <1>2, <1>3, <1>5, <2>1, <2>2
  <2>3. ASSUME NEW t \in Slot, accepted'[a][t] # Nothing
        PROVE  Has(a, t, accepted[a][t].ballot, accepted[a][t].value)'
    <3>1. CASE a = n /\ t = s
      BY <1>0, <1>2, <1>3, <3>1
    <3>2. CASE ~(a = n /\ t = s)
      <4>1. accepted'[a][t] = accepted[a][t] /\ accepted[a][t] # Nothing
        BY <1>2, <2>3, <3>2
      <4>2. Has(a, t, accepted[a][t].ballot, accepted[a][t].value)
        BY <2>0, <4>1 DEF AcceptorAt
      <4>3. accepted[a][t].ballot \in Ballot /\ accepted[a][t].value \in Command
        BY <4>1, RecordParts DEF AcceptorOK
      <4> QED BY <1>3, <4>1, <4>2, <4>3
    <3> QED BY <3>1, <3>2
  <2>4. ASSUME NEW t \in Slot, NEW c \in Ballot, NEW w \in Command, NEW x \in Command,
               Has(a, t, c, w)', Has(a, t, c, x)'
        PROVE  w = x
    <3>1. ASSUME NEW y \in Command, Has(n, s, b, y) PROVE y = v
      <4>1. ~Less(promised[n], b) /\ ~Less(accepted[n][s].ballot, b)
        BY <3>1 DEF AcceptorInv, AcceptorAt
      <4>2. accepted[n][s].ballot \in Ballots
        BY <1>4
      <4>3. accepted[n][s] # Nothing
        BY <4>1, NoBallotIsLowest, RecordParts
      <4>4. accepted[n][s].ballot \in Ballot /\ accepted[n][s].value \in Command
        BY <4>3, RecordParts DEF AcceptorOK
      <4>5. Has(n, s, accepted[n][s].ballot, accepted[n][s].value)
        BY <4>3 DEF AcceptorInv, AcceptorAt
      <4>6. ~Less(promised[n], accepted[n][s].ballot)
        BY <4>4, <4>5 DEF AcceptorInv, AcceptorAt
      <4>7. promised[n] = b
        BY <1>4, <1>5, <4>1, BallotOrder
      <4>8. accepted[n][s].ballot = b
        BY <4>1, <4>2, <4>6, <4>7, BallotOrder
      <4>9. accepted[n][s].value = v
        BY <4>8 DEF Contradicts
      <4>10. Has(n, s, b, v)
        BY <4>5, <4>8, <4>9
      <4> QED BY <3>1, <4>10 DEF AcceptorInv, AcceptorAt
    <3>2. CASE Has(a, t, c, w) /\ Has(a, t, c, x)
      BY <2>0, <3>2 DEF AcceptorAt
    <3>3. CASE a = n /\ t = s /\ c = b
      BY <1>3, <2>4, <3>1, <3>3
    <3> QED BY <1>3, <2>4, <3>2, <3>3
  <2> QED BY <2>2, <2>3, <2>4 DEF AcceptorAt, AcceptRequest
<1>9. Has(n, s, b, v)'
  BY <1>3
<1> QED BY <1>7, <1>8, <1>9 DEF AcceptorInv

LEMMA RequestForm ==
    ASSUME NEW s, NEW b, NEW v, AcceptRequest(s, b, v) \in Messages
    PROVE  s \in Slot /\ b \in Ballot /\ v \in Command
<1> DEFINE request == AcceptRequest(s, b, v)
<1>1. request.type = "Accept" /\ request.slot = s /\ request.ballot = b /\ request.value = v
  BY DEF AcceptRequest
<1> HIDE DEF request
<1>2. request \in Messages
  BY DEF request
<1> QED BY <1>1, <1>2, MessageParts

\* A leader is not touched by what another node does.
LEMMA OthersKeep ==
    ASSUME TypeInv, TypeInv', MultiPaxosInv, AcceptorsAdvance, msgs \subseteq msgs', NEW k \in Server,
           leaderBallot'[k] = leaderBallot[k], promises'[k] = promises[k], pending'[k] = pending[k],
           acceptedBy'[k] = acceptedBy[k], lastRound[k] <= lastRound'[k],
           \A s \in Slot : learned[k][s] # Nothing => learned'[k][s] # Nothing,
           \A s \in Slot, b \in Ballot, v \in Command :
               AcceptRequest(s, b, v) \in msgs' => AcceptRequest(s, b, v) \in msgs \/ b.proposer # k
    PROVE  LeaderAt(k)' /\ PendingAt(k)'
<1>1. LeaderAt(k)'
  BY CarryLeader DEF MultiPaxosInv, LeaderInv
<1>2. ASSUME NEW s \in Slot, NEW v \in Command, AcceptRequest(s, leaderBallot[k], v) \in msgs'
      PROVE  AcceptRequest(s, leaderBallot[k], v) \in msgs
  <2>1. AcceptRequest(s, leaderBallot[k], v) \in Messages
    BY <1>2 DEF TypeInv, DecisionOK
  <2>2. leaderBallot[k] \in Ballot /\ leaderBallot[k] # NoBallot
    BY <2>1, RequestForm, NoBallotIsLowest
  <2>3. leaderBallot[k].proposer = k
    BY <2>2 DEF MultiPaxosInv, LeaderInv, LeaderAt
  <2> QED BY <1>2, <2>2, <2>3
<1>3. PendingAt(k)'
  BY <1>2, CarryPending DEF MultiPaxosInv, PendingInv
<1> QED BY <1>1, <1>3

\* A leader that changes what it does for one slot, or counts another promise
LEMMA LeaderKeeps ==
    ASSUME TypeInv, TypeInv', AcceptorInv, AcceptorsAdvance, NEW n \in Server, LeaderAt(n), NEW slot \in Slot,
           leaderBallot'[n] = leaderBallot[n], lastRound[n] <= lastRound'[n],
           \A p \in promises'[n] :
               p \in promises[n] \/ \A s \in Slot : PromiseTrue(p.acceptor, leaderBallot[n], s, p.accepted[s]),
           \A s \in Slot : s # slot => pending'[n][s] = pending[n][s] /\ acceptedBy'[n][s] = acceptedBy[n][s],
           pending'[n][slot] # None => leaderBallot[n] # NoBallot /\ SafeAt(slot, pending'[n][slot], leaderBallot[n]),
           \A a \in acceptedBy'[n][slot] :
               pending'[n][slot] # None /\ Has(a, slot, leaderBallot[n], pending[n][slot])'
    PROVE  LeaderAt(n)'
<1> AcceptorOK /\ AcceptorOK' /\ LeaderOK /\ LeaderOK' /\ DecisionOK /\ DecisionOK'
  BY DEF TypeInv
<1> DEFINE b == leaderBallot[n]
<1>1. b # NoBallot => b.proposer = n /\ b.round <= lastRound'[n]
  <2> SUFFICES ASSUME b # NoBallot PROVE b.proposer = n /\ b.round <= lastRound'[n]
    OBVIOUS
  <2>1. b.round \in Nat /\ lastRound[n] \in Nat /\ lastRound'[n] \in Nat
    BY DEF LeaderOK, DecisionOK, Ballots, Ballot
  <2> QED BY <2>1 DEF LeaderAt
<1>2. ASSUME NEW p \in promises'[n], NEW s \in Slot
      PROVE  PromiseTrue(p.acceptor, leaderBallot[n], s, p.accepted[s])'
  <2>1. p.acceptor \in Server /\ p.accepted[s] \in Record \cup {Nothing} /\ b \in Ballots
    BY RecordParts DEF LeaderOK, PromiseOf
  <2>2. PromiseTrue(p.acceptor, b, s, p.accepted[s])
    BY DEF LeaderAt
  <2>3. \A c \in Ballots : PromiseTrue(p.acceptor, c, s, p.accepted[s]) => PromiseTrue(p.acceptor, c, s, p.accepted[s])'
    BY <2>1, Stability
  <2> QED BY <2>1, <2>2, <2>3
<1>3. ASSUME NEW s \in Slot, pending'[n][s] # None
      PROVE  b # NoBallot /\ SafeAt(s, pending[n][s], leaderBallot[n])'
  <2>1. b # NoBallot /\ SafeAt(s, pending'[n][s], b)
    BY <1>3 DEF LeaderAt
  <2>2. b \in Ballot /\ pending'[n][s] \in Command
    BY <1>3, <2>1 DEF LeaderOK, Ballots
  <2>3. \A v \in Command, c \in Ballot : SafeAt(s, v, c) => SafeAt(s, v, c)'
    BY Stability
  <2> QED BY <2>1, <2>2, <2>3
<1>4. ASSUME NEW s \in Slot, NEW a \in acceptedBy'[n][s]
      PROVE  pending'[n][s] # None /\ Has(a, s, leaderBallot[n], pending[n][s])'
  <2>1. CASE s = slot
    BY <2>1
  <2>2. CASE s # slot
    <3>1. pending[n][s] # None /\ Has(a, s, b, pending[n][s]) /\ pending'[n][s] = pending[n][s]
      BY <2>2 DEF LeaderAt
    <3>2. b \in Ballot /\ pending[n][s] \in Command /\ a \in Server
      BY <1>3, <3>1 DEF LeaderOK, Ballots
    <3>3. \A v \in Command, c \in Ballot : Has(a, s, c, v) => Has(a, s, c, v)'
      BY <3>2 DEF AcceptorsAdvance
    <3> QED BY <3>1, <3>2, <3>3
  <2> QED BY <2>1, <2>2
<1> QED BY <1>1, <1>2, <1>3, <1>4 DEF LeaderAt

\* What a node reports when it promises is true.
LEMMA OwnPromise ==
    ASSUME TypeInv', AcceptorInv', NEW a \in Server, NEW b \in Ballot, promised'[a] = b, NEW s \in Slot
    PROVE  PromiseTrue(a, b, s, accepted[a][s])'
<1>1. ~Less(promised'[a], b)
  BY BallotOrder DEF Ballots
<1>2. AcceptorAt(a)'
  BY DEF AcceptorInv
<1> QED BY <1>1, <1>2 DEF PromiseTrue, AcceptorAt

-----------------------------------------------------------------------------
(* The invariant is inductive: the steps of acceptors *)

LEMMA ReceivePrepareStep ==
    ASSUME TypeInv, TypeInv', MultiPaxosInv, NEW n \in Server, NEW m \in msgs, ReceivePrepare(n, m)
    PROVE  MultiPaxosInv'
<1> AcceptorOK /\ LeaderOK /\ DecisionOK /\ AcceptorInv /\ NumberInv
  BY DEF TypeInv, MultiPaxosInv
<1> DEFINE new == [type |-> "Promise", ballot |-> m.ballot, acceptor |-> n, accepted |-> accepted[n]]
<1>1. /\ ~Less(m.ballot, promised[n])
      /\ promised' = [promised EXCEPT ![n] = m.ballot]
      /\ msgs' = msgs \cup {new}
      /\ UNCHANGED <<accepted, acceptHistory, lastRound, learned, leaderBallot, promises, pending, acceptedBy, chosen>>
  BY DEF ReceivePrepare, leader
<1>2. m.ballot \in Ballot
  BY MessageParts DEF DecisionOK
<1>3. AcceptorsAdvance /\ AcceptorInv'
  BY <1>1, <1>2, PromiseAdvances
<1>4. \A k \in Server : lastRound[k] <= lastRound'[k]
  BY <1>1 DEF DecisionOK
<1>5. \A s, b, v : AcceptRequest(s, b, v) \notin {new}
  BY DEF AcceptRequest
<1>6. \A k \in Server : LeaderAt(k)' /\ PendingAt(k)'
  BY <1>1, <1>3, <1>4, <1>5, OthersKeep
<1>7. Messaging'
  <2>1. new \in Messages /\ new.type = "Promise" /\ new.ballot = m.ballot /\ new.acceptor = n /\ new.accepted = accepted[n]
    BY <1>2 DEF Messages, AcceptorOK
  <2> HIDE DEF new
  <2>2. \A s \in Slot : PromiseTrue(n, m.ballot, s, accepted[n][s])'
    <3>1. promised'[n] = m.ballot
      BY <1>1 DEF AcceptorOK
    <3> QED BY <1>2, <1>3, <3>1, OwnPromise
  <2>3. \A x \in {new} : \A s \in Slot : PromiseTrue(x.acceptor, x.ballot, s, x.accepted[s])'
    BY <1>1, <2>1, <2>2
  <2>4. \A x \in {new} : x.ballot.round <= lastRound'[x.ballot.proposer]
    BY <1>1, <2>1 DEF NumberInv
  <2> QED BY <1>1, <1>3, <1>4, <1>5, <2>1, <2>3, <2>4, CarryMessages
<1> QED BY <1>3, <1>6, <1>7 DEF MultiPaxosInv, LeaderInv, PendingInv, Messaging

LEMMA ReceiveAcceptStep ==
    ASSUME TypeInv, TypeInv', MultiPaxosInv, NEW n \in Server, NEW m \in msgs, ReceiveAccept(n, m)
    PROVE  MultiPaxosInv'
<1> AcceptorOK /\ LeaderOK /\ DecisionOK /\ AcceptorInv /\ NumberInv
  BY DEF TypeInv, MultiPaxosInv
<1> DEFINE new == [type |-> "Accepted", slot |-> m.slot, ballot |-> m.ballot, acceptor |-> n, value |-> m.value]
<1>1. /\ m.type = "Accept" /\ ~Refuses(n, m.ballot)
      /\ UNCHANGED <<lastRound, learned, leaderBallot, promises, pending, acceptedBy, chosen>>
  BY DEF ReceiveAccept, leader
<1>2. /\ m.ballot \in Ballot /\ m.slot \in Slot /\ m.value \in Command
      /\ m = AcceptRequest(m.slot, m.ballot, m.value)
  BY <1>1, MessageParts DEF DecisionOK
<1>3. \A k \in Server : lastRound[k] <= lastRound'[k]
  BY <1>1 DEF DecisionOK
<1>4. \A s, b, v : AcceptRequest(s, b, v) \notin {new}
  BY DEF AcceptRequest
<1>5. CASE promised' = [promised EXCEPT ![n] = m.ballot] /\ UNCHANGED <<accepted, acceptHistory, msgs>>
  <2>1. AcceptorsAdvance /\ AcceptorInv'
    BY <1>1, <1>2, <1>5, PromiseAdvances DEF Refuses
  <2>2. \A k \in Server : LeaderAt(k)' /\ PendingAt(k)'
    BY <1>1, <1>3, <1>5, <2>1, OthersKeep
  <2>3. {} \in SUBSET Messages /\ msgs' = msgs \cup {}
    BY <1>5
  <2>4. Messaging'
    BY <1>1, <1>3, <2>1, <2>3, CarryMessages
  <2> QED BY <2>1, <2>2, <2>4 DEF MultiPaxosInv, LeaderInv, PendingInv, Messaging
<1>6. CASE /\ ~Contradicts(n, m.slot, m.ballot, m.value)
           /\ Accept(n, m.slot, m.ballot, m.value)
           /\ msgs' = msgs \cup {new}
  <2>1. AcceptorsAdvance /\ AcceptorInv' /\ Has(n, m.slot, m.ballot, m.value)'
    BY <1>1, <1>2, <1>6, AcceptAdvances
  <2>2. \A k \in Server : LeaderAt(k)' /\ PendingAt(k)'
    BY <1>1, <1>3, <1>4, <1>6, <2>1, OthersKeep
  <2>3. /\ new \in Messages /\ new.type = "Accepted" /\ new.ballot = m.ballot /\ new.acceptor = n
        /\ new.slot = m.slot /\ new.value = m.value
    BY <1>2 DEF Messages
  <2> HIDE DEF new
  <2>4. \A x \in {new} : x.ballot.round <= lastRound'[x.ballot.proposer]
    BY <1>1, <2>3 DEF NumberInv
  <2>5. \A x \in {new} : Has(x.acceptor, x.slot, x.ballot, x.value)'
    BY <2>1, <2>3
  <2>6. Messaging'
    BY <1>1, <1>3, <1>4, <1>6, <2>1, <2>3, <2>4, <2>5, CarryMessages
  <2> QED BY <2>1, <2>2, <2>6 DEF MultiPaxosInv, LeaderInv, PendingInv, Messaging
<1> QED BY <1>5, <1>6 DEF ReceiveAccept

-----------------------------------------------------------------------------
(* The invariant is inductive: the steps of leaders *)

LEMMA PrepareLeadershipStep ==
    ASSUME TypeInv, TypeInv', MultiPaxosInv, NEW n \in Server, NEW r \in 1..MaxRound, PrepareLeadership(n, r)
    PROVE  MultiPaxosInv'
<1> /\ AcceptorOK /\ AcceptorOK' /\ LeaderOK /\ LeaderOK' /\ DecisionOK /\ DecisionOK' /\ AcceptorInv
    /\ NumberInv
  BY DEF TypeInv, MultiPaxosInv
<1> DEFINE number == [round |-> r, proposer |-> n]
           own == [acceptor |-> n, accepted |-> accepted[n]]
           new == [type |-> "Prepare", ballot |-> number]
<1>1. r \in Nat /\ number \in Ballot /\ number # NoBallot /\ number.round = r /\ number.proposer = n
  BY BoundAssumption, NoBallotIsLowest DEF Ballot
<1>2. new \in Messages /\ new.type = "Prepare" /\ new.ballot = number
  BY <1>1 DEF Messages
<1>3. own.acceptor = n /\ own.accepted = accepted[n]
  OBVIOUS
<1>4. \A s, b, v : AcceptRequest(s, b, v) \notin {new}
  BY DEF AcceptRequest
<1>5. /\ r > lastRound[n]
      /\ lastRound' = [lastRound EXCEPT ![n] = r]
      /\ leaderBallot' = [leaderBallot EXCEPT ![n] = number]
      /\ pending' = [pending EXCEPT ![n] = [s \in Slot |-> None]]
      /\ acceptedBy' = [acceptedBy EXCEPT ![n] = [s \in Slot |-> {}]]
      /\ msgs' = msgs \cup {new}
      /\ UNCHANGED <<accepted, acceptHistory, learned, chosen>>
  BY DEF PrepareLeadership
<1>6. \/ promises' = [promises EXCEPT ![n] = {}] /\ UNCHANGED promised
      \/ /\ ~Less(number, promised[n])
         /\ promises' = [promises EXCEPT ![n] = {own}]
         /\ promised' = [promised EXCEPT ![n] = number]
  BY DEF PrepareLeadership
<1> HIDE DEF number, own, new
<1>7. AcceptorsAdvance /\ AcceptorInv'
  <2>1. CASE UNCHANGED promised
    <3>1. \A a \in Server : promised[a] \in Ballots
      BY DEF AcceptorOK
    <3>2. AcceptorsAdvance
      BY <1>5, <2>1, <3>1, BallotOrder DEF AcceptorsAdvance, Has, Entry
    <3>3. AcceptorInv'
      BY <1>5, <2>1, CarryAcceptor DEF AcceptorInv
    <3> QED BY <3>2, <3>3
  <2>2. CASE ~Less(number, promised[n]) /\ promised' = [promised EXCEPT ![n] = number]
    BY <1>1, <1>5, <2>2, PromiseAdvances
  <2> QED BY <1>6, <2>1, <2>2
<1>8. \A k \in Server : lastRound[k] <= lastRound'[k]
  BY <1>1, <1>5 DEF DecisionOK
<1>9. lastRound'[n] = r /\ leaderBallot'[n] = number
  BY <1>5 DEF DecisionOK, LeaderOK
<1>10. \A s \in Slot : pending'[n][s] = None /\ acceptedBy'[n][s] = {}
  BY <1>5 DEF LeaderOK
<1>11. LeaderAt(n)'
  <2>1. ASSUME NEW p \in promises'[n], NEW s \in Slot PROVE PromiseTrue(p.acceptor, leaderBallot[n], s, p.accepted[s])'
    <3>1. p = own /\ promised'[n] = number
      BY <1>6 DEF LeaderOK, AcceptorOK
    <3>2. PromiseTrue(n, number, s, accepted[n][s])'
      BY <1>1, <1>7, <3>1, OwnPromise
    <3> QED BY <1>3, <1>5, <1>9, <3>1, <3>2
  <2> QED BY <1>1, <1>9, <1>10, <2>1 DEF LeaderAt
<1>12. PendingAt(n)'
  <2>1. ASSUME NEW s \in Slot, NEW v \in Command, AcceptRequest(s, number, v) \in msgs' PROVE FALSE
    <3>1. AcceptRequest(s, number, v) \in msgs /\ AcceptRequest(s, number, v).ballot = number
      BY <1>4, <1>5, <2>1 DEF AcceptRequest
    <3> DEFINE request == AcceptRequest(s, number, v)
    <3> HIDE DEF request
    <3>2. request \in msgs /\ request.ballot = number
      BY <3>1 DEF request
    <3>3. number.round <= lastRound[n]
      BY <1>1, <3>2 DEF NumberInv
    <3> QED BY <1>1, <1>5, <3>3 DEF DecisionOK
  <2>2. \A s \in Slot, v \in Command : AcceptRequest(s, leaderBallot[n], v)' \notin msgs'
    BY <1>9, <2>1 DEF AcceptRequest
  <2> QED BY <1>10, <2>2 DEF PendingAt
<1>13. ASSUME NEW k \in Server, k # n PROVE LeaderAt(k)' /\ PendingAt(k)'
  <2>1. /\ leaderBallot'[k] = leaderBallot[k] /\ promises'[k] = promises[k] /\ pending'[k] = pending[k]
        /\ acceptedBy'[k] = acceptedBy[k]
    BY <1>5, <1>6, <1>13 DEF LeaderOK
  <2> QED BY <1>4, <1>5, <1>7, <1>8, <2>1, OthersKeep
<1>14. Messaging'
  <2>1. \A x \in {new} : x.ballot.round <= lastRound'[x.ballot.proposer]
    BY <1>1, <1>2, <1>9
  <2> QED BY <1>2, <1>4, <1>5, <1>7, <1>8, <2>1, CarryMessages
<1> QED BY <1>7, <1>11, <1>12, <1>13, <1>14 DEF MultiPaxosInv, LeaderInv, PendingInv, Messaging

LEMMA ReceivePromiseStep ==
    ASSUME TypeInv, TypeInv', MultiPaxosInv, NEW n \in Server, NEW m \in msgs, ReceivePromise(n, m)
    PROVE  MultiPaxosInv'
<1> AcceptorOK /\ LeaderOK /\ LeaderOK' /\ DecisionOK /\ AcceptorInv /\ PromiseInv /\ LeaderInv
  BY DEF TypeInv, MultiPaxosInv
<1> DEFINE held == [acceptor |-> m.acceptor, accepted |-> m.accepted]
<1>1. /\ m.type = "Promise" /\ m.ballot = leaderBallot[n]
      /\ promises' = [promises EXCEPT ![n] = @ \cup {held}]
      /\ UNCHANGED <<promised, accepted, acceptHistory, lastRound, learned, leaderBallot, pending, acceptedBy, chosen, msgs>>
  BY DEF ReceivePromise, acceptor
<1>2. AcceptorsAdvance /\ AcceptorInv' /\ Messaging' /\ \A k \in Server : lastRound[k] <= lastRound'[k]
  BY <1>1, SilentStep
<1>3. ASSUME NEW k \in Server, k # n PROVE LeaderAt(k)' /\ PendingAt(k)'
  <2>1. promises'[k] = promises[k]
    BY <1>1, <1>3 DEF LeaderOK
  <2> QED BY <1>1, <1>2, <2>1, OthersKeep
<1>4. LeaderAt(n)'
  <2>0. LeaderAt(n)
    BY DEF LeaderInv
  <2>1. held.acceptor = m.acceptor /\ held.accepted = m.accepted
    OBVIOUS
  <2> HIDE DEF held
  <2>2. \A s \in Slot : PromiseTrue(held.acceptor, leaderBallot[n], s, held.accepted[s])
    BY <1>1, <2>1 DEF PromiseInv
  <2>3. promises'[n] = promises[n] \cup {held}
    BY <1>1 DEF LeaderOK
  <2>4. \A p \in promises'[n] :
           p \in promises[n] \/ \A s \in Slot : PromiseTrue(p.acceptor, leaderBallot[n], s, p.accepted[s])
    BY <2>2, <2>3
  <2>5. ASSUME NEW slot \in Slot PROVE LeaderAt(n)'
    <3>1. pending'[n][slot] # None => leaderBallot[n] # NoBallot /\ SafeAt(slot, pending'[n][slot], leaderBallot[n])
      BY <1>1, <2>0 DEF LeaderAt
    <3>2. \A a \in acceptedBy'[n][slot] : pending'[n][slot] # None /\ Has(a, slot, leaderBallot[n], pending[n][slot])'
      BY <1>1, <2>0 DEF LeaderAt, Has, Entry
    <3> QED BY <1>1, <1>2, <2>0, <2>4, <3>1, <3>2, LeaderKeeps
  <2>6. CASE Slot = {}
    <3>1. leaderBallot[n] # NoBallot => leaderBallot[n].proposer = n /\ leaderBallot[n].round <= lastRound[n]
      BY <2>0 DEF LeaderAt
    <3> QED BY <1>1, <2>6, <3>1 DEF LeaderAt
  <2> QED BY <2>5, <2>6
<1>5. PendingAt(n)'
  BY <1>1, CarryPending DEF MultiPaxosInv, PendingInv
<1> QED BY <1>2, <1>3, <1>4, <1>5 DEF MultiPaxosInv, LeaderInv, PendingInv, Messaging

LEMMA RetryProposalStep ==
    ASSUME TypeInv, TypeInv', MultiPaxosInv, NEW n \in Server, NEW slot \in Slot, RetryProposal(n, slot)
    PROVE  MultiPaxosInv'
<1> AcceptorOK /\ AcceptorOK' /\ LeaderOK /\ DecisionOK /\ DecisionOK' /\ AcceptorInv /\ LeaderInv /\ PendingInv
  BY DEF TypeInv, MultiPaxosInv
<1> DEFINE b == leaderBallot[n]
           v == pending[n][slot]
           new == AcceptRequest(slot, b, v)
<1>1. /\ b # NoBallot /\ v # None
      /\ msgs' = msgs \cup {new}
      /\ UNCHANGED <<promised, accepted, acceptHistory, lastRound, learned, leaderBallot, promises, pending, acceptedBy, chosen>>
  BY DEF RetryProposal, HasLeaderAuthority, acceptor, leader
<1>2. b \in Ballot /\ v \in Command /\ b.proposer = n /\ b.round <= lastRound[n] /\ SafeAt(slot, v, b)
  BY <1>1 DEF LeaderOK, Ballots, LeaderInv, LeaderAt
<1>3. AcceptorsAdvance /\ AcceptorInv'
  <2>1. \A a \in Server : promised[a] \in Ballots
    BY DEF AcceptorOK
  <2>2. AcceptorsAdvance
    BY <1>1, <2>1, BallotOrder DEF AcceptorsAdvance, Has, Entry
  <2>3. AcceptorInv'
    BY <1>1, CarryAcceptor DEF AcceptorInv
  <2> QED BY <2>2, <2>3
<1>4. \A k \in Server : lastRound[k] <= lastRound'[k]
  BY <1>1 DEF DecisionOK
<1>5. \A s, c, w : AcceptRequest(s, c, w) = new => s = slot /\ c = b /\ w = v
  BY DEF AcceptRequest
<1>6. /\ new.type = "Accept" /\ new.ballot = b
      /\ new \in Messages
  BY <1>2 DEF AcceptRequest, Messages
<1>7. n \notin Hints => \A w \in Command : AcceptRequest(slot, b, w) \in msgs' => w = v
  BY <1>1, <1>5 DEF PendingInv, PendingAt
<1> HIDE DEF new
<1>8. ASSUME NEW k \in Server PROVE LeaderAt(k)' /\ PendingAt(k)'
  <2>1. CASE k # n
    BY <1>1, <1>2, <1>3, <1>4, <1>5, <2>1, OthersKeep
  <2>2. CASE k = n
    <3>1. LeaderAt(n)'
      BY <1>1, <1>3, <1>4, CarryLeader DEF LeaderInv
    <3>2. ASSUME n \notin Hints, NEW s \in Slot, NEW w \in Command, AcceptRequest(s, b, w) \in msgs'
          PROVE  AcceptRequest(s, b, w) \in msgs
      BY <1>1, <1>5, <3>2 DEF PendingInv, PendingAt, new
    <3>3. n \notin Hints => PendingAt(n)'
      <4>1. PendingAt(n)
        BY DEF PendingInv
      <4> QED BY <1>1, <3>2, <4>1, CarryPending
    <3>4. n \in Hints => PendingAt(n)'
      BY DEF PendingAt
    <3> QED BY <2>2, <3>1, <3>3, <3>4
  <2> QED BY <2>1, <2>2
<1>9. Messaging'
  <2>2. ASSUME NEW s \in Slot, NEW c \in Ballot, NEW w \in Command, AcceptRequest(s, c, w) \in {new}
        PROVE  /\ SafeAt(s, w, c)'
               /\ c.proposer \notin Hints => \A x \in Command : AcceptRequest(s, c, x) \in msgs' => x = w
    <3>1. s = slot /\ c = b /\ w = v
      BY <1>5, <2>2
    <3>2. \A x \in Command, d \in Ballot : SafeAt(slot, x, d) => SafeAt(slot, x, d)'
      BY <1>3, Stability
    <3>3. SafeAt(s, w, c)'
      BY <1>2, <3>1, <3>2
    <3> QED BY <1>2, <1>7, <3>1, <3>3
  <2>3. \A x \in {new} : x.ballot.round <= lastRound'[x.ballot.proposer]
    BY <1>1, <1>2, <1>6
  <2>4. /\ \A x \in {new} : x.type # "Promise" /\ x.type # "Accepted"
        /\ {new} \in SUBSET Messages /\ msgs' = msgs \cup {new}
    BY <1>1, <1>6
  <2>5. /\ \A k \in Server, s \in Slot : learned'[k][s] = learned[k][s]
        /\ \A s \in Slot : chosen'[s] = chosen[s]
    BY <1>1
  <2> QED BY <1>3, <1>4, <2>2, <2>3, <2>4, <2>5, CarryMessages
<1> QED BY <1>3, <1>8, <1>9 DEF MultiPaxosInv, LeaderInv, PendingInv, Messaging

\* A leader that places its requests itself proposes for a slot that it does not know to be in use.
LEMMA ProposeStep ==
    ASSUME TypeInv, TypeInv', MultiPaxosInv, NEW n \in Server, NEW slot \in Slot, NEW v \in Command,
           Propose(n, slot, v), n \in Hints \/ learned[n][slot] = Nothing
    PROVE  MultiPaxosInv'
<1> /\ AcceptorOK /\ AcceptorOK' /\ LeaderOK /\ LeaderOK' /\ DecisionOK /\ DecisionOK' /\ AcceptorInv
    /\ LeaderInv /\ PendingInv /\ SafeInv
  BY DEF TypeInv, MultiPaxosInv
<1> DEFINE b == leaderBallot[n]
<1>1. /\ HasLeaderAuthority(n) /\ pending[n][slot] = None
      /\ UNCHANGED <<lastRound, learned, leaderBallot, promises, chosen>>
  BY DEF Propose, SlotIsFree
<1>2. PICK w \in ValuesToPropose(n, slot, v) :
        /\ pending' = [pending EXCEPT ![n][slot] = w]
        /\ \/ /\ acceptedBy' = [acceptedBy EXCEPT ![n][slot] = {}]
              /\ msgs' = msgs \cup {AcceptRequest(slot, b, w)}
              /\ UNCHANGED <<promised, accepted, acceptHistory>>
           \/ /\ Contradicts(n, slot, b, w)
              /\ acceptedBy' = [acceptedBy EXCEPT ![n][slot] = {}]
              /\ UNCHANGED <<promised, accepted, acceptHistory, msgs>>
           \/ /\ ~Refuses(n, b)
              /\ ~Contradicts(n, slot, b, w)
              /\ Accept(n, slot, b, w)
              /\ acceptedBy' = [acceptedBy EXCEPT ![n][slot] = {n}]
              /\ msgs' = msgs \cup {AcceptRequest(slot, b, w)}
  BY DEF Propose, acceptor
<1> DEFINE request == AcceptRequest(slot, b, w)
<1>3. b \in Ballot /\ b # NoBallot /\ w \in Command /\ b.proposer = n /\ b.round <= lastRound[n]
  BY <1>1, ProposedIsCommand DEF HasLeaderAuthority, LeaderOK, Ballots, LeaderInv, LeaderAt
<1>4. SafeAt(slot, w, b)
  BY <1>1, ProposedIsSafe DEF LeaderInv
<1>5. ASSUME n \notin Hints, NEW x \in Command, AcceptRequest(slot, b, x) \in msgs PROVE FALSE
  <2>1. x = None
    BY <1>1, <1>5 DEF PendingInv, PendingAt
  <2> QED BY <2>1, ValueAssumption DEF Command
<1>6. n \notin Hints => ~Contradicts(n, slot, b, w)
  <2> SUFFICES ASSUME n \notin Hints, accepted[n][slot].ballot = b PROVE FALSE
    BY DEF Contradicts
  <2>1. accepted[n][slot] # Nothing /\ accepted[n][slot].value \in Command
    BY <1>3, RecordParts DEF AcceptorOK
  <2>2. AcceptRequest(slot, b, accepted[n][slot].value) \in msgs
    BY <1>3, <2>1 DEF AcceptorInv, AcceptorAt
  <2> QED BY <1>5, <2>1, <2>2
<1>7. \A s, c, x : AcceptRequest(s, c, x) = request => s = slot /\ c = b /\ x = w
  BY DEF AcceptRequest
<1>8. request.type = "Accept" /\ request.ballot = b /\ request \in Messages
  BY <1>3 DEF AcceptRequest, Messages
<1>9. AcceptorsAdvance /\ AcceptorInv' /\ \A a \in acceptedBy'[n][slot] : a = n /\ Has(n, slot, b, w)'
  <2>1. CASE UNCHANGED <<promised, accepted, acceptHistory>> /\ acceptedBy' = [acceptedBy EXCEPT ![n][slot] = {}]
    <3>1. \A a \in Server : promised[a] \in Ballots
      BY DEF AcceptorOK
    <3>2. AcceptorsAdvance
      BY <2>1, <3>1, BallotOrder DEF AcceptorsAdvance, Has, Entry
    <3>3. msgs \subseteq msgs'
      BY <1>2
    <3>4. AcceptorInv'
      BY <2>1, <3>3, CarryAcceptor DEF AcceptorInv
    <3>5. acceptedBy'[n][slot] = {}
      BY <2>1 DEF LeaderOK
    <3> QED BY <3>2, <3>4, <3>5
  <2>2. CASE /\ ~Refuses(n, b) /\ ~Contradicts(n, slot, b, w) /\ Accept(n, slot, b, w)
             /\ acceptedBy' = [acceptedBy EXCEPT ![n][slot] = {n}]
             /\ msgs' = msgs \cup {request}
    <3>1. acceptedBy'[n][slot] = {n}
      BY <2>2 DEF LeaderOK
    <3>2. AcceptRequest(slot, b, w) \in msgs' /\ msgs \subseteq msgs'
      BY <2>2
    <3>3. ASSUME NEW c \in Ballot, c = b PROVE AcceptorsAdvance /\ AcceptorInv' /\ Has(n, slot, c, w)'
      <4>1. ~Refuses(n, c) /\ ~Contradicts(n, slot, c, w) /\ Accept(n, slot, c, w)
        BY <2>2, <3>3 DEF Refuses, Contradicts, Accept
      <4>2. AcceptRequest(slot, c, w) \in msgs'
        BY <3>2, <3>3
      <4> QED BY <1>3, <3>2, <4>1, <4>2, AcceptAdvances
    <3>4. Has(n, slot, b, w)'
      BY <1>1, <1>3, <3>3
    <3> QED BY <1>3, <3>1, <3>3, <3>4
  <2> QED BY <1>2, <2>1, <2>2
<1>10. \A k \in Server : lastRound[k] <= lastRound'[k]
  BY <1>1 DEF DecisionOK
<1>11. PICK new \in SUBSET {request} : msgs' = msgs \cup new /\ (n \notin Hints => request \in new)
  <2>1. CASE msgs' = msgs \cup {request}
    BY <2>1
  <2>2. CASE msgs' = msgs /\ Contradicts(n, slot, b, w)
    <3>1. {} \in SUBSET {request} /\ msgs' = msgs \cup {} /\ n \in Hints
      BY <1>6, <2>2
    <3> QED BY <3>1
  <2> QED BY <1>2, <2>1, <2>2
<1>12. pending'[n][slot] = w /\ \A s \in Slot : s # slot => pending'[n][s] = pending[n][s] /\ acceptedBy'[n][s] = acceptedBy[n][s]
  BY <1>2 DEF LeaderOK
<1> HIDE DEF request
<1>13. ASSUME NEW k \in Server, k # n PROVE LeaderAt(k)' /\ PendingAt(k)'
  <2>1. /\ leaderBallot'[k] = leaderBallot[k] /\ promises'[k] = promises[k] /\ pending'[k] = pending[k]
        /\ acceptedBy'[k] = acceptedBy[k]
    BY <1>1, <1>2, <1>13 DEF LeaderOK
  <2>2. \A s \in Slot, c \in Ballot, x \in Command :
           AcceptRequest(s, c, x) \in msgs' => AcceptRequest(s, c, x) \in msgs \/ c.proposer # k
    BY <1>3, <1>7, <1>11, <1>13
  <2> QED BY <1>1, <1>9, <1>10, <1>11, <2>1, <2>2, OthersKeep
<1>14. LeaderAt(n)'
  <2>1. LeaderAt(n)
    BY DEF LeaderInv
  <2>2. \A a \in acceptedBy'[n][slot] : Has(a, slot, leaderBallot[n], pending[n][slot])'
    BY <1>1, <1>9, <1>12
  <2>3. w # None
    BY <1>3, ValueAssumption DEF Command
  <2> QED BY <1>1, <1>3, <1>4, <1>9, <1>10, <1>12, <2>1, <2>2, <2>3, LeaderKeeps
<1>15. PendingAt(n)'
  <2> SUFFICES ASSUME n \notin Hints, NEW s \in Slot
               PROVE  /\ pending'[n][s] # None => AcceptRequest(s, leaderBallot'[n], pending'[n][s]) \in msgs'
                      /\ \A x \in Command : AcceptRequest(s, leaderBallot'[n], x) \in msgs' =>
                            x = pending'[n][s] \/ (pending'[n][s] = None /\ learned'[n][s] # Nothing)
    BY DEF PendingAt, AcceptRequest
  <2>0. PendingAt(n)
    BY DEF PendingInv
  <2>1. CASE s = slot
    BY <1>1, <1>5, <1>7, <1>11, <1>12, <2>1 DEF request
  <2>2. CASE s # slot
    BY <1>1, <1>7, <1>11, <1>12, <2>0, <2>2 DEF PendingAt
  <2> QED BY <2>1, <2>2
<1>16. Messaging'
  <2>1. ASSUME NEW s \in Slot, NEW c \in Ballot, NEW x \in Command, AcceptRequest(s, c, x) \in new
        PROVE  /\ SafeAt(s, x, c)'
               /\ c.proposer \notin Hints => \A y \in Command : AcceptRequest(s, c, y) \in msgs' => y = x
    <3>1. s = slot /\ c = b /\ x = w
      BY <1>7, <2>1
    <3>2. \A y \in Command, d \in Ballot : SafeAt(slot, y, d) => SafeAt(slot, y, d)'
      BY <1>9, Stability
    <3>3. SafeAt(s, x, c)'
      BY <1>4, <3>1, <3>2
    <3>4. n \notin Hints => \A y \in Command : AcceptRequest(slot, b, y) \in msgs' => y = w
      BY <1>5, <1>7, <1>11
    <3> QED BY <1>3, <3>1, <3>3, <3>4
  <2>2. \A x \in new : /\ x.ballot.round <= lastRound'[x.ballot.proposer]
                       /\ x.type # "Promise" /\ x.type # "Accepted"
    BY <1>1, <1>3, <1>8
  <2>3. new \in SUBSET Messages /\ msgs' = msgs \cup new
    BY <1>8, <1>11
  <2>4. /\ \A k \in Server, s \in Slot : learned'[k][s] = learned[k][s]
        /\ \A s \in Slot : chosen'[s] = chosen[s]
    BY <1>1
  <2> QED BY <1>9, <1>10, <2>1, <2>2, <2>3, <2>4, CarryMessages
<1> QED BY <1>9, <1>13, <1>14, <1>15, <1>16 DEF MultiPaxosInv, LeaderInv, PendingInv, Messaging

-----------------------------------------------------------------------------
(* The invariant is inductive: decisions, crash and reconstruction *)

LEMMA LearnEffect ==
    ASSUME DecisionOK, NEW n \in Server, NEW slot \in Slot, NEW record \in Record, LearnDecision(n, slot, record)
    PROVE  \A k \in Server, s \in Slot :
              /\ learned'[k][s] = learned[k][s] \/ (k = n /\ s = slot /\ learned'[k][s] = record)
              /\ learned[k][s] # Nothing => learned'[k][s] = learned[k][s]
              /\ k = n /\ s = slot => learned'[k][s] # Nothing
<1>1. learned[n] \in [Slot -> Record \cup {Nothing}]
  BY DEF DecisionOK, Records
<1>2. record # Nothing
  BY RecordParts
<1> QED BY <1>1, <1>2 DEF LearnDecision, DecisionOK

LEMMA ReceiveDecisionStep ==
    ASSUME TypeInv, TypeInv', MultiPaxosInv, NEW n \in Server, NEW m \in msgs, ReceiveDecision(n, m)
    PROVE  MultiPaxosInv'
<1> AcceptorOK /\ DecisionOK /\ AcceptorInv
  BY DEF TypeInv, MultiPaxosInv
<1> DEFINE record == [ballot |-> m.ballot, value |-> m.value]
<1>1. /\ m.slot \in Slot /\ record \in Record
  BY MessageParts, RecordParts DEF ReceiveDecision, DecisionOK
<1>2. /\ HasEvidence(m.slot, record) /\ LearnDecision(n, m.slot, record)
      /\ UNCHANGED <<promised, accepted, acceptHistory, lastRound, leaderBallot, promises, pending, acceptedBy, chosen, msgs>>
  BY DEF ReceiveDecision, acceptor, leader
<1> HIDE DEF record
<1>3. \A k \in Server, s \in Slot :
         /\ learned'[k][s] = learned[k][s] \/ (k = n /\ s = m.slot /\ learned'[k][s] = record)
         /\ learned[k][s] # Nothing => learned'[k][s] = learned[k][s]
  BY <1>1, <1>2, LearnEffect
<1>4. \A k \in Server, s \in Slot : learned'[k][s] = learned[k][s] \/ HasEvidence(s, learned[k][s])'
  BY <1>2, <1>3 DEF HasEvidence, Acceptors, IsQuorum
<1>5. AcceptorsAdvance /\ AcceptorInv' /\ Messaging' /\ \A k \in Server : lastRound[k] <= lastRound'[k]
  BY <1>2, <1>4, SilentStep
<1>6. \A k \in Server : LeaderAt(k)' /\ PendingAt(k)'
  BY <1>2, <1>3, <1>5, OthersKeep
<1> QED BY <1>5, <1>6 DEF MultiPaxosInv, LeaderInv, PendingInv, Messaging

\* The acceptances that a leader counts for its proposal are on disk.
LEMMA CountedIsEvidence ==
    ASSUME TypeInv, AcceptedInv, LeaderInv, NEW n \in Server, NEW m \in msgs, m.type = "Accepted",
           m.ballot = leaderBallot[n], m.value = pending[n][m.slot]
    PROVE  LET by == acceptedBy[n][m.slot] \cup {m.acceptor}
               record == [ballot |-> m.ballot, value |-> m.value]
           IN  /\ record \in Record /\ by \in SUBSET Server
               /\ \A a \in by : Has(a, m.slot, m.ballot, m.value)
               /\ IsQuorum(by) => HasEvidence(m.slot, record)
<1> DEFINE by == acceptedBy[n][m.slot] \cup {m.acceptor}
           record == [ballot |-> m.ballot, value |-> m.value]
<1>1. m.slot \in Slot /\ m.ballot \in Ballot /\ m.value \in Command /\ m.acceptor \in Server
  BY MessageParts DEF TypeInv, DecisionOK
<1>2. record \in Record /\ by \in SUBSET Server
  BY <1>1, RecordParts DEF TypeInv, LeaderOK
<1>3. \A a \in by : Has(a, m.slot, m.ballot, m.value)
  BY <1>1 DEF AcceptedInv, LeaderInv, LeaderAt
<1> HIDE DEF by
<1>4. IsQuorum(by) => HasEvidence(m.slot, record)
  <2> SUFFICES ASSUME IsQuorum(by) PROVE IsQuorum(Acceptors(m.slot, record))
    BY DEF HasEvidence
  <2>1. by \subseteq Acceptors(m.slot, record) /\ Acceptors(m.slot, record) \in SUBSET Server
    BY <1>2, <1>3 DEF Acceptors, Has, Entry
  <2> QED BY <1>2, <2>1, QuorumGrows
<1> QED BY <1>2, <1>3, <1>4 DEF by

LEMMA ReceiveAcceptedStep ==
    ASSUME TypeInv, TypeInv', MultiPaxosInv, NEW n \in Server, NEW m \in msgs, ReceiveAccepted(n, m)
    PROVE  MultiPaxosInv'
<1> /\ AcceptorOK /\ AcceptorOK' /\ LeaderOK /\ LeaderOK' /\ DecisionOK /\ DecisionOK' /\ AcceptorInv
    /\ LeaderInv /\ PendingInv /\ AcceptedInv /\ NumberInv
  BY DEF TypeInv, MultiPaxosInv
<1> DEFINE b == leaderBallot[n]
           by == acceptedBy[n][m.slot] \cup {m.acceptor}
           record == [ballot |-> b, value |-> m.value]
           new == [type |-> "Decision", slot |-> m.slot, ballot |-> b, value |-> m.value]
           slot == m.slot
<1>1. /\ m.type = "Accepted" /\ m.ballot = b /\ m.value = pending[n][slot]
      /\ UNCHANGED <<promised, accepted, acceptHistory, lastRound, leaderBallot, promises>>
      /\ \/ /\ IsQuorum(by)
            /\ RecordChosen(slot, record) /\ LearnDecision(n, slot, record)
            /\ pending' = [pending EXCEPT ![n][slot] = None]
            /\ acceptedBy' = [acceptedBy EXCEPT ![n][slot] = {}]
            /\ msgs' = msgs \cup {new}
         \/ /\ acceptedBy' = [acceptedBy EXCEPT ![n][slot] = by]
            /\ UNCHANGED <<pending, learned, chosen, msgs>>
  BY DEF ReceiveAccepted, acceptor
<1>2. slot \in Slot /\ b \in Ballot /\ b # NoBallot /\ m.value \in Command /\ m.value # None /\ m.acceptor \in Server
  BY <1>1, MessageParts, RecordParts DEF DecisionOK
<1>3. record \in Record /\ record.ballot = b /\ record.value = m.value /\ by \in SUBSET Server
  BY <1>2, RecordParts DEF LeaderOK
<1>4. \A a \in by : Has(a, slot, b, m.value)
  BY <1>1, CountedIsEvidence
<1>5. IsQuorum(by) => HasEvidence(slot, record)
  BY <1>1, CountedIsEvidence
<1> HIDE DEF by
<1>6. AcceptorsAdvance
  <2>1. \A a \in Server : promised[a] \in Ballots
    BY DEF AcceptorOK
  <2> QED BY <1>1, <2>1, BallotOrder DEF AcceptorsAdvance, Has, Entry
<1>7. \A k \in Server : lastRound[k] <= lastRound'[k]
  BY <1>1 DEF DecisionOK
<1>8. \A s, c, v : AcceptRequest(s, c, v) # new
  BY DEF AcceptRequest
<1>9. msgs \subseteq msgs' /\ \A s, c, v : AcceptRequest(s, c, v) \in msgs' => AcceptRequest(s, c, v) \in msgs
  BY <1>1, <1>8
<1>10. AcceptorInv'
  BY <1>1, <1>9, CarryAcceptor DEF AcceptorInv
<1>11. \A k \in Server, s \in Slot :
         /\ learned'[k][s] = learned[k][s] \/ (IsQuorum(by) /\ s = slot /\ learned'[k][s] = record)
         /\ learned[k][s] # Nothing => learned'[k][s] = learned[k][s]
  BY <1>1, <1>2, <1>3, LearnEffect
<1> HIDE DEF record, new
<1>12. ASSUME NEW k \in Server, k # n PROVE LeaderAt(k)' /\ PendingAt(k)'
  <2>1. /\ leaderBallot'[k] = leaderBallot[k] /\ promises'[k] = promises[k] /\ pending'[k] = pending[k]
        /\ acceptedBy'[k] = acceptedBy[k]
    BY <1>1, <1>12 DEF LeaderOK
  <2> QED BY <1>6, <1>7, <1>9, <1>11, <2>1, OthersKeep
<1>13. \A s \in Slot : s # slot => pending'[n][s] = pending[n][s] /\ acceptedBy'[n][s] = acceptedBy[n][s]
  BY <1>1 DEF LeaderOK
<1>14. \/ pending'[n][slot] = None /\ acceptedBy'[n][slot] = {} /\ learned'[n][slot] # Nothing
       \/ pending'[n][slot] = pending[n][slot] /\ acceptedBy'[n][slot] = by /\ learned' = learned
  BY <1>1, <1>2, <1>3, LearnEffect DEF LeaderOK
<1>15. LeaderAt(n)'
  <2>1. LeaderAt(n)
    BY DEF LeaderInv
  <2>2. pending'[n][slot] # None => SafeAt(slot, pending'[n][slot], leaderBallot[n])
    BY <1>2, <1>14, <2>1 DEF LeaderAt
  <2>3. ASSUME NEW a \in acceptedBy'[n][slot]
        PROVE  pending'[n][slot] # None /\ Has(a, slot, leaderBallot[n], pending[n][slot])'
    <3>1. pending'[n][slot] = m.value /\ a \in by
      BY <1>1, <1>14
    <3>2. Has(a, slot, b, m.value)'
      BY <1>1, <1>4, <3>1 DEF Has, Entry
    <3> QED BY <1>1, <1>2, <3>1, <3>2
  <2>4. leaderBallot'[n] = leaderBallot[n] /\ promises'[n] = promises[n]
    BY <1>1
  <2> HIDE DEF slot, b
  <2> QED BY <1>2, <1>6, <1>7, <1>13, <2>1, <2>2, <2>3, <2>4, LeaderKeeps DEF b
<1>16. PendingAt(n)'
  <2> SUFFICES ASSUME n \notin Hints, NEW s \in Slot
               PROVE  /\ pending'[n][s] # None => AcceptRequest(s, leaderBallot'[n], pending'[n][s]) \in msgs'
                      /\ \A x \in Command : AcceptRequest(s, leaderBallot'[n], x) \in msgs' =>
                            x = pending'[n][s] \/ (pending'[n][s] = None /\ learned'[n][s] # Nothing)
    BY DEF PendingAt, AcceptRequest
  <2>1. PendingAt(n)
    BY DEF PendingInv
  <2>2. leaderBallot' = leaderBallot
    BY <1>1
  <2> QED BY <1>9, <1>11, <1>13, <1>14, <2>1, <2>2 DEF PendingAt
<1>17. Messaging'
  <2>1. PICK more \in SUBSET {new} : msgs' = msgs \cup more
    <3>1. msgs' = msgs \cup {new} \/ msgs' = msgs \cup {}
      BY <1>1
    <3>2. {new} \in SUBSET {new} /\ {} \in SUBSET {new}
      OBVIOUS
    <3> QED BY <3>1, <3>2
  <2>2. new \in Messages /\ new.type = "Decision" /\ new.ballot = b
    BY <1>2 DEF new, Messages
  <2>3. \A x \in more : x.ballot.round <= lastRound'[x.ballot.proposer] /\ x.type # "Promise" /\ x.type # "Accepted"
    BY <1>1, <2>2 DEF NumberInv
  <2>4. \A s, c, v : AcceptRequest(s, c, v) \notin more
    BY <1>8
  <2>5. \A s \in Slot : HasEvidence(s, record) => \A x : x = record => HasEvidence(s, x)'
    BY <1>1 DEF HasEvidence, Acceptors
  <2>6. \A k \in Server, s \in Slot : learned'[k][s] = learned[k][s] \/ HasEvidence(s, learned[k][s])'
    BY <1>5, <1>11, <2>5
  <2>7. \A s \in Slot : chosen'[s] = chosen[s] \/ (IsQuorum(by) /\ s = slot /\ chosen'[s] = record)
    BY <1>1 DEF RecordChosen, DecisionOK, Records
  <2>8. \A s \in Slot : chosen'[s] = chosen[s] \/ HasEvidence(s, chosen[s])'
    BY <1>5, <2>5, <2>7
  <2>9. more \in SUBSET Messages
    BY <2>2
  <2> QED BY <1>6, <1>7, <2>1, <2>3, <2>4, <2>6, <2>8, <2>9, CarryMessages
<1> QED BY <1>10, <1>12, <1>15, <1>16, <1>17 DEF MultiPaxosInv, LeaderInv, PendingInv, Messaging

LEMMA CrashStep ==
    ASSUME TypeInv, TypeInv', MultiPaxosInv, NEW n \in Server, Crash(n)
    PROVE  MultiPaxosInv'
<1>1. /\ leaderBallot' = [leaderBallot EXCEPT ![n] = NoBallot]
      /\ promises' = [promises EXCEPT ![n] = {}]
      /\ pending' = [pending EXCEPT ![n] = [s \in Slot |-> None]]
      /\ acceptedBy' = [acceptedBy EXCEPT ![n] = [s \in Slot |-> {}]]
      /\ UNCHANGED <<promised, accepted, acceptHistory, lastRound, learned, chosen, msgs>>
  BY DEF Crash, acceptor
<1>2. AcceptorsAdvance /\ AcceptorInv' /\ Messaging' /\ \A k \in Server : lastRound[k] <= lastRound'[k]
  BY <1>1, SilentStep
<1>3. ASSUME NEW k \in Server PROVE LeaderAt(k)' /\ PendingAt(k)'
  <2>1. CASE k # n
    <3>1. /\ leaderBallot'[k] = leaderBallot[k] /\ promises'[k] = promises[k] /\ pending'[k] = pending[k]
          /\ acceptedBy'[k] = acceptedBy[k]
      BY <1>1, <2>1 DEF TypeInv, LeaderOK
    <3> QED BY <1>1, <1>2, <3>1, OthersKeep
  <2>2. CASE k = n
    <3>1. /\ leaderBallot'[n] = NoBallot /\ promises'[n] = {}
          /\ \A s \in Slot : pending'[n][s] = None /\ acceptedBy'[n][s] = {}
      BY <1>1 DEF TypeInv, LeaderOK
    <3> QED BY <2>2, <3>1, NoLeader
  <2> QED BY <2>1, <2>2
<1> QED BY <1>2, <1>3 DEF MultiPaxosInv, LeaderInv, PendingInv, Messaging

LEMMA ReconstructStep ==
    ASSUME TypeInv, TypeInv', MultiPaxosInv, Reconstruct
    PROVE  MultiPaxosInv'
<1>1. /\ chosen' = [s \in Slot |-> RecoverChosen(s)]
      /\ leaderBallot' = [n \in Server |-> NoBallot]
      /\ promises' = [n \in Server |-> {}]
      /\ pending' = [n \in Server |-> [s \in Slot |-> None]]
      /\ acceptedBy' = [n \in Server |-> [s \in Slot |-> {}]]
      /\ UNCHANGED <<promised, accepted, acceptHistory, lastRound, learned, msgs>>
  BY DEF Reconstruct, acceptor
<1>2. ASSUME NEW s \in Slot PROVE chosen'[s] = Nothing \/ HasEvidence(s, chosen[s])'
  <2>1. chosen'[s] = Nothing \/ HasEvidence(s, chosen'[s])
    BY <1>1, QuorumRecordsAreRecords, QuorumRecordsForm DEF TypeInv
  <2> QED BY <1>1, <2>1 DEF HasEvidence, Acceptors
<1>3. AcceptorsAdvance /\ AcceptorInv' /\ Messaging'
  BY <1>1, <1>2, SilentStep
<1>4. ASSUME NEW k \in Server PROVE LeaderAt(k)' /\ PendingAt(k)'
  BY <1>1, NoLeader
<1> QED BY <1>3, <1>4 DEF MultiPaxosInv, LeaderInv, PendingInv, Messaging

LEMMA InvInitially == Init => MultiPaxosInv
<1> SUFFICES ASSUME Init PROVE MultiPaxosInv
  OBVIOUS
<1>1. AcceptorInv
  BY DEF Init, AcceptorInv, AcceptorAt, Has
<1>2. LeaderInv /\ PendingInv
  BY DEF Init, LeaderInv, LeaderAt, PendingInv, PendingAt
<1>3. NumberInv /\ RequestInv /\ SafeInv /\ PromiseInv /\ AcceptedInv /\ DecidedInv
  BY DEF Init, NumberInv, RequestInv, SafeInv, PromiseInv, AcceptedInv, DecidedInv
<1> QED BY <1>1, <1>2, <1>3 DEF MultiPaxosInv

\* Whoever calls propose: a client's request goes to the slot after all that are known to be in use, a repair to a slot
\* whose decision is not known, a caller with a slot of its own to any slot.
LEMMA Callers ==
    ASSUME TypeInv, NEW n \in Server,
           \/ \E v \in Value : SubmitRequest(n, v)
           \/ RepairHole(n)
           \/ \E v \in Value : ProposeAtHint(n, v)
    PROVE  \E slot \in Slot, v \in Command : Propose(n, slot, v) /\ (n \in Hints \/ learned[n][slot] = Nothing)
<1>1. CASE \E v \in Value : SubmitRequest(n, v)
  <2>1. PICK v \in Value, slot \in Slot : (\A s \in KnownSlots(n) : s < slot) /\ Propose(n, slot, v)
    BY <1>1 DEF SubmitRequest
  <2>2. ~(slot < slot)
    BY SlotAssumption
  <2>3. learned[n][slot] = Nothing
    BY <2>1, <2>2 DEF KnownSlots
  <2> QED BY <2>1, <2>3 DEF Command
<1>2. CASE RepairHole(n)
  BY <1>2 DEF RepairHole, Command
<1>3. CASE \E v \in Value : ProposeAtHint(n, v)
  BY <1>3 DEF ProposeAtHint, Command
<1> QED BY <1>1, <1>2, <1>3

LEMMA InvStep == TypeInv /\ TypeInv' /\ MultiPaxosInv /\ [Next]_vars => MultiPaxosInv'
<1> SUFFICES ASSUME TypeInv, TypeInv', MultiPaxosInv, [Next]_vars PROVE MultiPaxosInv'
  OBVIOUS
<1>1. ASSUME NEW n \in Server, Prepare(n) PROVE MultiPaxosInv'
  BY <1>1, PrepareLeadershipStep DEF Prepare
<1>2. ASSUME NEW n \in Server, \/ \E v \in Value : SubmitRequest(n, v)
                               \/ RepairHole(n)
                               \/ \E v \in Value : ProposeAtHint(n, v)
      PROVE  MultiPaxosInv'
  BY <1>2, Callers, ProposeStep
<1>3. ASSUME NEW n \in Server, NEW slot \in Slot, RetryProposal(n, slot) PROVE MultiPaxosInv'
  BY <1>3, RetryProposalStep
<1>4. ASSUME NEW n \in Server, NEW m \in msgs, Deliver(n, m) PROVE MultiPaxosInv'
  BY <1>4, ReceivePrepareStep, ReceivePromiseStep, ReceiveAcceptStep, ReceiveAcceptedStep, ReceiveDecisionStep DEF Deliver
<1>5. ASSUME NEW n \in Server, Crash(n) PROVE MultiPaxosInv'
  BY <1>5, CrashStep
<1>6. CASE Reconstruct
  BY <1>6, ReconstructStep
<1>7. CASE UNCHANGED vars
  <2>1. UNCHANGED <<promised, accepted, acceptHistory, lastRound, learned, leaderBallot, promises, pending,
                    acceptedBy, chosen, msgs>>
    BY <1>7 DEF vars, acceptor, leader
  <2>2. AcceptorsAdvance /\ AcceptorInv' /\ Messaging' /\ \A k \in Server : lastRound[k] <= lastRound'[k]
    BY <2>1, SilentStep
  <2>3. \A k \in Server : LeaderAt(k)' /\ PendingAt(k)'
    BY <2>1, <2>2, OthersKeep
  <2> QED BY <2>2, <2>3 DEF MultiPaxosInv, LeaderInv, PendingInv, Messaging
<1> QED BY <1>1, <1>2, <1>3, <1>4, <1>5, <1>6, <1>7 DEF Next

LEMMA InvAlways == Spec => [](TypeInv /\ MultiPaxosInv)
<1>1. Init => TypeInv /\ MultiPaxosInv
  BY TypeInitially, InvInitially
<1>2. TypeInv /\ MultiPaxosInv /\ [Next]_vars => (TypeInv /\ MultiPaxosInv)'
  BY TypeStep, InvStep
<1> QED BY <1>1, <1>2, PTL DEF Spec

-----------------------------------------------------------------------------
(* The theorems *)

LEMMA OneValueHolds ==
    ASSUME TypeInv, MultiPaxosInv
    PROVE  OneValuePerBallot
<1> AcceptorOK /\ LeaderOK /\ DecisionOK /\ AcceptorInv /\ LeaderInv /\ PendingInv /\ RequestInv /\ AcceptedInv
  BY DEF TypeInv, MultiPaxosInv
<1>1. ASSUME NEW n \in Server, NEW s \in Slot, NEW b \in Ballot, NEW v \in Command, Contradicts(n, s, b, v)
      PROVE  /\ accepted[n][s].value \in Command /\ accepted[n][s].value # v
             /\ AcceptRequest(s, b, accepted[n][s].value) \in msgs
  <2>1. accepted[n][s].ballot = b /\ accepted[n][s].value # v
    BY <1>1 DEF Contradicts
  <2>2. accepted[n][s] # Nothing /\ accepted[n][s].value \in Command
    BY <2>1, RecordParts DEF AcceptorOK
  <2> QED BY <2>1, <2>2 DEF AcceptorInv, AcceptorAt
<1>2. ASSUME NEW n \in Server, NEW m \in msgs, m.type = "Accept", m.ballot.proposer \notin Hints
      PROVE  ~Contradicts(n, m.slot, m.ballot, m.value)
  <2>1. /\ m.slot \in Slot /\ m.ballot \in Ballot /\ m.value \in Command
        /\ AcceptRequest(m.slot, m.ballot, m.value) \in msgs
    BY <1>2, MessageParts DEF DecisionOK
  <2> QED BY <1>1, <1>2, <2>1 DEF RequestInv
<1>3. ASSUME NEW n \in Server, NEW m \in msgs, m.type = "Accepted", m.ballot = leaderBallot[n], n \notin Hints
      PROVE  pending[n][m.slot] \in {None, m.value}
  <2>1. /\ m.slot \in Slot /\ m.ballot \in Ballot /\ m.value \in Command /\ m.acceptor \in Server
    BY <1>3, MessageParts DEF DecisionOK
  <2>2. AcceptRequest(m.slot, m.ballot, m.value) \in msgs
    BY <1>3, <2>1 DEF AcceptedInv, AcceptorInv, AcceptorAt
  <2> QED BY <1>3, <2>1, <2>2 DEF PendingInv, PendingAt
<1>4. ASSUME NEW n \in Server, NEW s \in Slot, pending[n][s] # None, n \notin Hints
      PROVE  ~Contradicts(n, s, leaderBallot[n], pending[n][s])
  <2>1. leaderBallot[n] \in Ballot /\ pending[n][s] \in Command
    BY <1>4 DEF LeaderOK, Ballots, LeaderInv, LeaderAt
  <2> QED BY <1>1, <1>4, <2>1 DEF PendingInv, PendingAt
<1>5. ASSUME NEW n \in Server, NEW s \in Slot, NEW q \in Adopted(n, s), NEW r \in Adopted(n, s),
             q.ballot.proposer \notin Hints
      PROVE  q.value = r.value
  <2>1. ASSUME NEW x \in Adopted(n, s)
        PROVE  /\ x.ballot \in Ballot /\ x.ballot \in Ballots /\ x.value \in Command
               /\ AcceptRequest(s, x.ballot, x.value) \in msgs
    <3>1. PICK p \in promises[n] : x = p.accepted[s] /\ x # Nothing
      BY DEF Adopted
    <3>2. p.acceptor \in Server /\ x \in Record
      BY <3>1, RecordParts DEF LeaderOK, PromiseOf
    <3>3. Has(p.acceptor, s, x.ballot, x.value)
      BY <3>1 DEF LeaderInv, LeaderAt, PromiseTrue
    <3> QED BY <3>2, <3>3, RecordParts DEF AcceptorInv, AcceptorAt, Ballots
  <2>2. ~Less(q.ballot, r.ballot) /\ ~Less(r.ballot, q.ballot)
    BY DEF Adopted
  <2>3. q.ballot = r.ballot
    BY <2>1, <2>2, BallotOrder
  <2> QED BY <1>5, <2>1, <2>3 DEF RequestInv
<1> QED BY <1>2, <1>3, <1>4, <1>5 DEF OneValuePerBallot

\* One value per slot and ballot, for the ballots of leaders that place their requests themselves: propose,
\* _receive_accept, _receive_accepted and _adopted_value never meet the conflict for which they raise.
THEOREM OneValue == Spec => []OneValuePerBallot
<1>1. TypeInv /\ MultiPaxosInv => OneValuePerBallot
  BY OneValueHolds
<1> QED BY <1>1, InvAlways, PTL

LEMMA ReconstructionHolds ==
    ASSUME TypeInv, MultiPaxosInv, Reconstruct, NEW s \in Slot, NEW r, HasEvidence(s, r)
    PROVE  chosen'[s].value = r.value
<1> AcceptorOK /\ AcceptorInv /\ SafeInv /\ BoundInv
  BY DEF TypeInv, MultiPaxosInv
<1>1. chosen'[s] = RecoverChosen(s)
  BY DEF Reconstruct
<1>2. r \in QuorumRecords(s)
  BY QuorumRecordsForm
<1>3. RecoverChosen(s) \in QuorumRecords(s)
  BY <1>2, QuorumRecordsAreRecords
<1>4. HasEvidence(s, RecoverChosen(s))
  BY <1>3, QuorumRecordsForm
<1>5. RecoverChosen(s).value = r.value
  BY <1>4, EvidenceAgrees
<1> QED BY <1>1, <1>5

\* _recover_chosen rebuilds every decision that a node has learned or that the cluster's map had.
THEOREM Durable == Spec => DecisionsSurvive
<1>1. ASSUME TypeInv, MultiPaxosInv, Reconstruct, NEW s \in Slot
      PROVE  /\ \A n \in Server : learned[n][s] # Nothing => chosen'[s].value = learned[n][s].value
             /\ chosen[s] # Nothing => chosen'[s].value = chosen[s].value
  BY <1>1, ReconstructionHolds DEF MultiPaxosInv, DecidedInv
<1>2. TypeInv /\ MultiPaxosInv /\ [Next]_vars =>
        [Reconstruct => \A s \in Slot :
          /\ \A n \in Server : learned[n][s] # Nothing => chosen'[s].value = learned[n][s].value
          /\ chosen[s] # Nothing => chosen'[s].value = chosen[s].value]_vars
  BY <1>1
<1> QED BY <1>2, InvAlways, PTL DEF Spec, DecisionsSurvive

-----------------------------------------------------------------------------
(* Every slot implements the decree *)

\* A step changes what acceptors have accepted or what is learned, never both; what is learned has its majority.
LEMMA StepEffect ==
    ASSUME TypeInv, MultiPaxosInv, [Next]_vars
    PROVE  \/ UNCHANGED learned /\ \A a \in Server : acceptHistory[a] \subseteq acceptHistory'[a]
           \/ /\ UNCHANGED acceptHistory
              /\ \E n \in Server, slot \in Slot, record \in Record :
                    HasEvidence(slot, record) /\ LearnDecision(n, slot, record)
<1> AcceptorOK /\ DecisionOK /\ AcceptedInv /\ LeaderInv
  BY DEF TypeInv, MultiPaxosInv
<1> DEFINE Grows == UNCHANGED learned /\ \A a \in Server : acceptHistory[a] \subseteq acceptHistory'[a]
           Learns == /\ UNCHANGED acceptHistory
                     /\ \E n \in Server, slot \in Slot, record \in Record :
                           HasEvidence(slot, record) /\ LearnDecision(n, slot, record)
<1>1. ASSUME NEW n \in Server, NEW s, NEW b, NEW v, Accept(n, s, b, v)
      PROVE  \A a \in Server : acceptHistory[a] \subseteq acceptHistory'[a]
  BY <1>1 DEF Accept, AcceptorOK
<1>2. ASSUME NEW n \in Server, NEW s \in Slot, NEW v \in Command, Propose(n, s, v) PROVE Grows
  BY <1>1, <1>2 DEF Propose, acceptor
<1>3. ASSUME NEW n \in Server, NEW m \in msgs, ReceiveAccept(n, m) PROVE Grows
  BY <1>1, <1>3 DEF ReceiveAccept
<1>4. ASSUME NEW n \in Server, NEW m \in msgs, ReceiveAccepted(n, m) PROVE Grows \/ Learns
  <2> DEFINE by == acceptedBy[n][m.slot] \cup {m.acceptor}
             record == [ballot |-> m.ballot, value |-> m.value]
  <2>1. /\ m.type = "Accepted" /\ m.ballot = leaderBallot[n] /\ m.value = pending[n][m.slot]
        /\ UNCHANGED acceptHistory
        /\ UNCHANGED learned \/ (IsQuorum(by) /\ LearnDecision(n, m.slot, record))
    BY <1>4 DEF ReceiveAccepted, acceptor
  <2>2. m.slot \in Slot /\ record \in Record /\ (IsQuorum(by) => HasEvidence(m.slot, record))
    BY <2>1, CountedIsEvidence, MessageParts DEF DecisionOK
  <2> HIDE DEF by, record
  <2> QED BY <2>1, <2>2
<1>5. ASSUME NEW n \in Server, NEW m \in msgs, ReceiveDecision(n, m) PROVE Learns
  <2> DEFINE record == [ballot |-> m.ballot, value |-> m.value]
  <2>1. m.slot \in Slot /\ record \in Record
    BY <1>5, MessageParts, RecordParts DEF ReceiveDecision, DecisionOK
  <2>2. HasEvidence(m.slot, record) /\ LearnDecision(n, m.slot, record) /\ UNCHANGED acceptHistory
    BY <1>5 DEF ReceiveDecision, acceptor
  <2> HIDE DEF record
  <2> QED BY <2>1, <2>2
<1>6. ASSUME NEW n \in Server, NEW m \in msgs, Deliver(n, m) PROVE Grows \/ Learns
  BY <1>3, <1>4, <1>5, <1>6 DEF Deliver, ReceivePrepare, ReceivePromise, acceptor
<1>7. ASSUME NEW n \in Server, \/ \E v \in Value : SubmitRequest(n, v)
                               \/ RepairHole(n)
                               \/ \E v \in Value : ProposeAtHint(n, v)
      PROVE  Grows
  BY <1>2, <1>7, Callers
<1>8. ASSUME NEW n \in Server, \/ Prepare(n) \/ Crash(n) \/ \E slot \in Slot : RetryProposal(n, slot) PROVE Grows
  BY <1>8 DEF Prepare, PrepareLeadership, Crash, RetryProposal, acceptor
<1>9. ASSUME Reconstruct \/ UNCHANGED vars PROVE Grows
  BY <1>9 DEF Reconstruct, vars, acceptor
<1> QED BY <1>6, <1>7, <1>8, <1>9 DEF Next

ChosenValues(s) == {r.value : r \in QuorumRecords(s)}

\* What is chosen for a slot is at most one command, and is so for good.
LEMMA ChosenValuesForm ==
    ASSUME TypeInv, MultiPaxosInv, NEW s \in Slot
    PROVE  /\ ChosenValues(s) = {} \/ \E v \in Command : ChosenValues(s) = {v}
           /\ \A r : HasEvidence(s, r) => r.value \in ChosenValues(s)
<1> AcceptorOK /\ AcceptorInv /\ SafeInv /\ BoundInv
  BY DEF TypeInv, MultiPaxosInv
<1>1. \A r : HasEvidence(s, r) => r \in QuorumRecords(s)
  BY QuorumRecordsForm
<1>2. \A q, r \in QuorumRecords(s) : q.value = r.value
  BY QuorumRecordsForm, EvidenceAgrees
<1>3. \A r \in QuorumRecords(s) : r.value \in Command
  BY QuorumRecordsAreRecords, RecordParts
<1> QED BY <1>1, <1>2, <1>3 DEF ChosenValues

LEMMA ChosenIsOne ==
    TypeInv /\ MultiPaxosInv => \A s \in Slot : ChosenValues(s) = {} \/ \E v \in Command : ChosenValues(s) = {v}
BY ChosenValuesForm

LEMMA ChosenStaysOne ==
    TypeInv' /\ MultiPaxosInv' =>
        \A s \in Slot : ChosenValues(s)' = {} \/ \E v \in Command : ChosenValues(s)' = {v}
<1>1. (TypeInv /\ MultiPaxosInv)' =>
        (\A s \in Slot : ChosenValues(s) = {} \/ \E v \in Command : ChosenValues(s) = {v})'
  BY ChosenIsOne, PTL
<1> QED BY <1>1

LEMMA DecreeStep ==
    ASSUME TypeInv, TypeInv', MultiPaxosInv, MultiPaxosInv', [Next]_vars, NEW s \in Slot
    PROVE  Decree(s)!Next \/ UNCHANGED Decree(s)!vars
<1> DEFINE C == ChosenValues(s)
           L == [n \in Server |-> learned[n][s].value]
<1> DecisionOK /\ DecisionOK' /\ AcceptorOK
  BY DEF TypeInv
<1>1. C = {} \/ \E v \in Command : C = {v}
  BY ChosenValuesForm
<1>2. C' = {} \/ \E v \in Command : C' = {v}
  BY ChosenStaysOne
<1>3. CASE UNCHANGED learned /\ \A a \in Server : acceptHistory[a] \subseteq acceptHistory'[a]
  <2>1. C \subseteq C'
    <3> SUFFICES ASSUME NEW r \in QuorumRecords(s) PROVE r \in QuorumRecords(s)'
      BY DEF ChosenValues
    <3>1. Acceptors(s, r) \in SUBSET Server /\ IsQuorum(Acceptors(s, r))
      BY QuorumRecordsForm DEF HasEvidence, Acceptors
    <3>2. Acceptors(s, r) \subseteq Acceptors(s, r)' /\ Acceptors(s, r)' \in SUBSET Server
      BY <1>3 DEF Acceptors
    <3>3. IsQuorum(Acceptors(s, r)')
      BY <3>1, <3>2, QuorumGrows
    <3>4. PICK a \in Acceptors(s, r) : a \in Server /\ <<s, r>> \in acceptHistory'[a]
      BY <1>3, <3>1, QuorumHasMember DEF Acceptors
    <3> QED BY <3>3, <3>4 DEF QuorumRecords, HasEvidence, IsQuorum
  <2>2. L' = L
    BY <1>3
  <2>3. C' = C \/ (C = {} /\ \E v \in Command : C' = {v})
    BY <1>1, <1>2, <2>1
  <2> QED BY <2>2, <2>3 DEF ChosenValues, Decree!Next, Decree!Choose, Decree!vars
<1>4. CASE /\ UNCHANGED acceptHistory
           /\ \E n \in Server, slot \in Slot, record \in Record :
                 HasEvidence(slot, record) /\ LearnDecision(n, slot, record)
  <2>1. C' = C
    BY <1>4 DEF ChosenValues, QuorumRecords, HasEvidence, Acceptors
  <2>2. PICK n \in Server, slot \in Slot, record \in Record :
           HasEvidence(slot, record) /\ LearnDecision(n, slot, record)
    BY <1>4
  <2>3. \A k \in Server, t \in Slot :
           /\ learned'[k][t] = learned[k][t] \/ (k = n /\ t = slot /\ learned'[k][t] = record)
           /\ learned[k][t] # Nothing => learned'[k][t] = learned[k][t]
    BY <2>2, LearnEffect
  <2>4. CASE \A k \in Server : learned'[k][s] = learned[k][s]
    BY <2>1, <2>4 DEF ChosenValues, Decree!vars
  <2>5. CASE slot = s /\ learned[n][s] = Nothing /\ learned'[n][s] = record
    <3>1. record.value \in C
      BY <2>2, <2>5, ChosenValuesForm
    <3>2. L[n] = None
      BY <2>5, RecordParts
    <3>3. L' = [L EXCEPT ![n] = record.value]
      BY <2>3, <2>5
    <3> HIDE DEF L
    <3> QED BY <2>1, <3>1, <3>2, <3>3 DEF L, ChosenValues, Decree!Next, Decree!Learn
  <2> QED BY <2>3, <2>4, <2>5
<1> QED BY <1>3, <1>4, StepEffect

\* Slot by slot, stable-leader Multi-Paxos is the consensus of module Consensus.
THEOREM Implements == Spec => SlotsImplementConsensus
<1>1. ASSUME Init, NEW s \in Slot PROVE Decree(s)!Init
  <2>1. \A a \in Server : acceptHistory[a] = {} /\ learned[a][s] = Nothing
    BY <1>1 DEF Init
  <2>2. QuorumRecords(s) = {}
    BY <2>1 DEF QuorumRecords
  <2>3. [n \in Server |-> learned[n][s].value] = [n \in Server |-> None]
    BY <2>1, RecordParts
  <2> QED BY <2>2, <2>3 DEF Decree!Init
<1>2. Init => \A s \in Slot : Decree(s)!Init
  BY <1>1
<1>3. TypeInv /\ MultiPaxosInv /\ (TypeInv /\ MultiPaxosInv)' /\ [Next]_vars =>
        [\A s \in Slot : Decree(s)!Next \/ UNCHANGED Decree(s)!vars]_vars
  BY DecreeStep
<1> QED BY <1>2, <1>3, InvAlways, PTL DEF Spec, SlotsImplementConsensus
=============================================================================
