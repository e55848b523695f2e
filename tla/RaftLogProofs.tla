--------------------------- MODULE RaftLogProofs ---------------------------
(***************************************************************************)
(* Proofs about RaftLog, for any finite cluster, any commands and any      *)
(* bounds.  Messages are lost and nodes forget, so why a state is safe is  *)
(* not always visible in it.  The inductive invariant therefore says that  *)
(* there is a history that explains the state:                             *)
(*   V[v][t]   whom v voted for in term t, or None                         *)
(*   Ld[t]     the leader of term t, or None                               *)
(*   Lg[t]     the log of the leader of term t, when it last led           *)
(*   K[c][t]   the log with which c became a candidate of term t           *)
(*   A[v][t]   the highest index that v has acknowledged to that leader    *)
(***************************************************************************)
EXTENDS RaftLog, FiniteSetTheorems, SequenceTheorems, TLAPS

-----------------------------------------------------------------------------
(* The inductive invariant *)

Logs == Seq(Entry)

Message ==
    [type : {"RequestVote"}, term : Nat, src : Server, dst : {None}, lastIndex : Nat, lastTerm : Nat]
    \cup [type : {"RequestVoteResponse"}, term : Nat, src : Server, dst : Server, granted : BOOLEAN]
    \cup [type : {"AppendEntries"}, term : Nat, src : Server, dst : Server, prev : Nat, prevTerm : Nat,
          entries : Logs, commit : Nat]
    \cup [type : {"AppendEntriesResponse"}, term : Nat, src : Server, dst : Server, granted : BOOLEAN,
          match : Nat]

MessagesOK == msgs \subseteq Message

\* The type invariant but for the bound on commit indexes, which follows from CommitInv.
StateOK ==
    /\ currentTerm \in [Server -> Nat]
    /\ votedFor \in [Server -> Server \cup {None}]
    /\ log \in [Server -> Logs]
    /\ applied \in [Server -> Logs]
    /\ role \in [Server -> {Follower, Candidate, Leader}]
    /\ votesReceived \in [Server -> SUBSET Server]
    /\ commitIndex \in [Server -> Nat]
    /\ matchIndex \in [Server -> [Server -> Nat]]

CommitBound == \A n \in Server : commitIndex[n] <= Len(log[n])

HistoryOK(V, Ld, Lg, K, A) ==
    /\ V \in [Server -> [Nat -> Server \cup {None}]]
    /\ Ld \in [Nat -> Server \cup {None}]
    /\ Lg \in [Nat -> Logs]
    /\ K \in [Server -> [Nat -> Logs]]
    /\ A \in [Server -> [Nat -> Nat]]

\* The logs a and b have the same entries up to i.
Agree(a, b, i) == i <= Len(a) /\ i <= Len(b) /\ \A j \in 1..i : a[j] = b[j]

\* Each entry of lg is the leader's of its term, and so is what comes before it.
Good(lg, Ld, Lg) ==
    \A i \in 1..Len(lg) : Ld[lg[i].term] # None /\ Agree(lg, Lg[lg[i].term], i)

TermsUpTo(lg, t) == \A i \in 1..Len(lg) : lg[i].term <= t

VoteInv(V) ==
    /\ \A v \in Server, t \in Nat : V[v][t] # None =>
          /\ t <= currentTerm[v] /\ t <= currentTerm[V[v][t]]
          /\ t = currentTerm[v] => votedFor[v] = V[v][t]
    /\ \A c \in Server : role[c] # Follower =>
          votedFor[c] = c /\ \A v \in votesReceived[c] : V[v][currentTerm[c]] = c
    /\ \A c \in Server : role[c] = Leader => HasMajority(votesReceived[c])
    /\ \A m \in msgs : m.type = "RequestVoteResponse" /\ m.granted => V[m.src][m.term] = m.dst

Voters(V, t, c) == {v \in Server : V[v][t] = c}

LeaderInv(V, Ld, Lg) ==
    /\ \A t \in Nat : Ld[t] # None => HasMajority(Voters(V, t, Ld[t])) /\ t <= currentTerm[Ld[t]]
    /\ \A l \in Server : role[l] = Leader => Ld[currentTerm[l]] = l /\ log[l] = Lg[currentTerm[l]]
    /\ \A c \in Server : role[c] = Candidate => Ld[currentTerm[c]] # c

LogInv(Ld, Lg) ==
    /\ \A n \in Server : Good(log[n], Ld, Lg) /\ TermsUpTo(log[n], currentTerm[n])
    /\ \A t \in Nat : Ld[t] # None => Good(Lg[t], Ld, Lg) /\ TermsUpTo(Lg[t], t)

CandidateInv(Ld, Lg, K) ==
    /\ \A c \in Server : role[c] = Candidate => log[c] = K[c][currentTerm[c]]
    /\ \A m \in msgs : m.type = "RequestVote" =>
          /\ m.term <= currentTerm[m.src]
          /\ m.lastIndex = Len(K[m.src][m.term]) /\ m.lastTerm = LastTerm(K[m.src][m.term])
    /\ \A c \in Server, t \in Nat :
          Good(K[c][t], Ld, Lg) /\ \A i \in 1..Len(K[c][t]) : K[c][t][i].term < t

AppendInv(Ld, Lg) ==
    \A m \in msgs : m.type = "AppendEntries" =>
        /\ Ld[m.term] = m.src /\ m.dst # m.src
        /\ m.prev + Len(m.entries) <= Len(Lg[m.term])
        /\ \A j \in 1..Len(m.entries) : m.entries[j] = Lg[m.term][m.prev + j]
        /\ m.prevTerm = TermAt(Lg[m.term], m.prev)

AckInv(Ld, Lg, A) ==
    /\ \A v \in Server, t \in Nat : A[v][t] > 0 =>
          /\ Ld[t] # None /\ t <= currentTerm[v] /\ A[v][t] <= Len(Lg[t])
          /\ t = currentTerm[v] => Agree(log[v], Lg[t], A[v][t])
    /\ \A m \in msgs : m.type = "AppendEntriesResponse" /\ m.granted => m.match <= A[m.src][m.term]
    /\ \A l \in Server : role[l] = Leader => A[l][currentTerm[l]] = Len(log[l])
    /\ \A l, p \in Server : IF role[l] = Leader THEN p # l => matchIndex[l][p] <= A[p][currentTerm[l]]
                                                ELSE matchIndex[l][p] = 0

\* An entry of its leader's own term that a majority has acknowledged or still may.
Choosable(Ld, Lg, A, t, i) ==
    /\ Ld[t] # None /\ i \in 1..Len(Lg[t]) /\ Lg[t][i].term = t
    /\ HasMajority({v \in Server : A[v][t] >= i \/ currentTerm[v] <= t})

Committed(Ld, Lg, A, t, i) ==
    /\ Ld[t] # None /\ i \in 1..Len(Lg[t]) /\ Lg[t][i].term = t
    /\ HasMajority({v \in Server : A[v][t] >= i})

\* Whoever has acknowledged such an entry keeps it, whoever got a vote from such a node had
\* it, and every later leader has it.
KeepInv(V, Ld, Lg, K, A) ==
    \A t, i \in Nat : Choosable(Ld, Lg, A, t, i) =>
        /\ \A v \in Server : A[v][t] >= i => Agree(log[v], Lg[t], i)
        /\ \A v \in Server, u \in Nat :
              t < u /\ V[v][u] # None /\ A[v][t] >= i => Agree(K[V[v][u]][u], Lg[t], i)
        /\ \A u \in Nat : t < u /\ Ld[u] # None => Agree(Lg[u], Lg[t], i)

\* The first i entries of lg are part of what was committed by term t0.
Safe(lg, i, t0, Ld, Lg, A) ==
    i = 0 \/ \E t, k \in Nat : t <= t0 /\ i <= k /\ Committed(Ld, Lg, A, t, k) /\ Agree(lg, Lg[t], i)

CommitInv(Ld, Lg, A) ==
    /\ \A n \in Server :
          /\ Safe(log[n], commitIndex[n], currentTerm[n], Ld, Lg, A)
          /\ Safe(applied[n], Len(applied[n]), currentTerm[n], Ld, Lg, A)
          /\ Agree(applied[n], log[n], Len(applied[n]))
    /\ \A m \in msgs : m.type = "AppendEntries" => Safe(Lg[m.term], m.commit, m.term, Ld, Lg, A)

Explains(V, Ld, Lg, K, A) ==
    /\ HistoryOK(V, Ld, Lg, K, A)
    /\ VoteInv(V) /\ LeaderInv(V, Ld, Lg) /\ LogInv(Ld, Lg) /\ CandidateInv(Ld, Lg, K)
    /\ AppendInv(Ld, Lg) /\ AckInv(Ld, Lg, A)
    /\ KeepInv(V, Ld, Lg, K, A) /\ CommitInv(Ld, Lg, A)

IInv == StateOK /\ MessagesOK /\ \E V, Ld, Lg, K, A : Explains(V, Ld, Lg, K, A)

-----------------------------------------------------------------------------
(* Majorities, logs that agree, and merge_after *)

LEMMA QuorumsMeet ==
    ASSUME NEW P \in SUBSET Server, NEW Q \in SUBSET Server, HasMajority(P), HasMajority(Q)
    PROVE  \E n \in P : n \in Q
<1> IsFiniteSet(Server)
  BY ServerAssumption
<1>1. /\ IsFiniteSet(P) /\ IsFiniteSet(Q)
      /\ Cardinality(P) \in Nat /\ Cardinality(Q) \in Nat /\ Cardinality(Server) \in Nat
  BY FS_Subset, FS_CardinalityType
<1>2. Cardinality(P) + Cardinality(Q) > Cardinality(Server)
  BY <1>1 DEF HasMajority
<1> QED BY <1>1, <1>2, FS_MajoritiesIntersect

LEMMA QuorumGrows ==
    ASSUME NEW P \in SUBSET Server, NEW Q \in SUBSET Server, P \subseteq Q, HasMajority(P)
    PROVE  HasMajority(Q)
<1>1. IsFiniteSet(Q) /\ IsFiniteSet(P) /\ Cardinality(P) <= Cardinality(Q)
  BY FS_Subset, ServerAssumption
<1>2. Cardinality(P) \in Nat /\ Cardinality(Q) \in Nat /\ Cardinality(Server) \in Nat
  BY <1>1, FS_CardinalityType, ServerAssumption
<1> QED BY <1>1, <1>2 DEF HasMajority

LEMMA LogFacts ==
    ASSUME NEW lg \in Logs
    PROVE  /\ Len(lg) \in Nat
           /\ \A i \in 1..Len(lg) : lg[i] \in Entry /\ lg[i].term \in Nat
<1>1. Len(lg) \in Nat /\ \A i \in 1..Len(lg) : lg[i] \in Entry
  BY LenProperties, ElementOfSeq DEF Logs
<1>2. \A e \in Entry : e.term \in Nat
  BY DEF Entry
<1> QED BY <1>1, <1>2

LEMMA AgreeSymmetric ==
    ASSUME NEW a \in Logs, NEW b \in Logs, NEW i \in Nat, Agree(a, b, i)
    PROVE  Agree(b, a, i)
BY DEF Agree

LEMMA AgreeTransitive ==
    ASSUME NEW a \in Logs, NEW b \in Logs, NEW c \in Logs, NEW i \in Nat, NEW j \in Nat, NEW k \in Nat,
           Agree(a, b, i), Agree(b, c, j), k <= i, k <= j
    PROVE  Agree(a, c, k)
<1>1. Len(a) \in Nat /\ Len(b) \in Nat /\ Len(c) \in Nat
  BY LogFacts
<1> QED BY <1>1 DEF Agree

LEMMA AgreeDown ==
    ASSUME NEW a \in Logs, NEW b \in Logs, NEW i \in Nat, NEW k \in Nat, Agree(a, b, i), k <= i
    PROVE  Agree(a, b, k)
<1>1. Len(a) \in Nat /\ Len(b) \in Nat
  BY LogFacts
<1> QED BY <1>1 DEF Agree

LEMMA AgreeReflexive ==
    ASSUME NEW a \in Logs, NEW i \in Nat, i <= Len(a)
    PROVE  Agree(a, a, i)
BY DEF Agree

LEMMA AgreeAsSubSeq ==
    ASSUME NEW a \in Logs, NEW b \in Logs, NEW i \in Nat, Agree(a, b, i)
    PROVE  SubSeq(a, 1, i) = SubSeq(b, 1, i)
<1>1. Len(a) \in Nat /\ Len(b) \in Nat /\ i <= Len(a) /\ i <= Len(b)
  BY LogFacts DEF Agree
<1>2. \A j \in 1..i : a[j] \in Entry /\ b[j] \in Entry /\ a[j] = b[j]
  BY <1>1, LogFacts DEF Agree
<1>3. /\ SubSeq(a, 1, i) \in Seq(Entry) /\ Len(SubSeq(a, 1, i)) = i
      /\ \A j \in 1..i : SubSeq(a, 1, i)[j] = a[j]
  BY <1>2, SubSeqProperties
<1>4. /\ SubSeq(b, 1, i) \in Seq(Entry) /\ Len(SubSeq(b, 1, i)) = i
      /\ \A j \in 1..i : SubSeq(b, 1, i)[j] = b[j]
  BY <1>2, SubSeqProperties
<1> QED BY <1>2, <1>3, <1>4, SeqEqual

LEMMA FunctionIsLog ==
    ASSUME NEW n \in Nat, NEW f \in [1..n -> Entry]
    PROVE  f \in Logs /\ Len(f) = n
BY DEF Logs

\* merge_after takes over a stretch of the leader's log L and loses nothing that lg and L share.
LEMMA MergeFollowsLeader ==
    ASSUME NEW lg \in Logs, NEW L \in Logs, NEW incoming \in Logs, NEW prev \in Nat,
           prev + Len(incoming) <= Len(L),
           \A j \in 1..Len(incoming) : incoming[j] = L[prev + j],
           Agree(lg, L, prev),
           \A i \in 1..Len(lg) : i <= Len(L) /\ lg[i].term = L[i].term => Agree(lg, L, i)
    PROVE  LET r == MergeAfter(lg, prev, incoming)
           IN  /\ r \in Logs
               /\ Agree(r, L, prev + Len(incoming))
               /\ \A i \in Nat : Agree(lg, L, i) => Agree(r, L, i)
               /\ r = lg \/ Len(r) = prev + Len(incoming)
<1> DEFINE n == Len(incoming)
           D == {j \in 1..n : prev + j > Len(lg) \/ lg[prev + j].term # incoming[j].term}
           f == [i \in 1..prev + n |-> IF \E j \in D : prev + j <= i THEN incoming[i - prev] ELSE lg[i]]
           r == MergeAfter(lg, prev, incoming)
<1>1. n \in Nat /\ Len(lg) \in Nat /\ Len(L) \in Nat /\ prev <= Len(lg)
  BY LogFacts DEF Agree
<1>2. r = IF D = {} THEN lg ELSE f
  BY DEF MergeAfter
<1>3. CASE D = {}
  <2>1. r = lg
    BY <1>2, <1>3
  <2>2. Agree(lg, L, prev + n)
    <3>1. CASE n = 0
      BY <1>1, <3>1
    <3>2. CASE n > 0
      <4>1. n \in 1..n /\ n \notin D
        <5>1. n \in 1..n
          BY <1>1, <3>2
        <5> QED BY <1>3, <5>1
      <4>2. prev + n <= Len(lg) /\ lg[prev + n].term = L[prev + n].term
        BY <1>1, <4>1
      <4> QED BY <1>1, <3>2, <4>2
    <3> QED BY <1>1, <3>1, <3>2
  <2> QED BY <2>1, <2>2
<1>4. CASE D # {}
  <2>1. r = f
    BY <1>2, <1>4
  <2>2. ASSUME NEW i \in 1..prev + n
        PROVE  f[i] = L[i]
    <3>1. CASE \E j \in D : prev + j <= i
      <4>1. i - prev \in 1..n
        BY <1>1, <3>1
      <4>2. f[i] = incoming[i - prev]
        BY <3>1
      <4> QED BY <1>1, <4>1, <4>2
    <3>2. CASE ~\E j \in D : prev + j <= i
      <4>1. f[i] = lg[i]
        BY <3>2
      <4>2. CASE i <= prev
        BY <1>1, <4>1, <4>2 DEF Agree
      <4>3. CASE i > prev
        <5>1. i - prev \in 1..n /\ i - prev \notin D
          BY <1>1, <3>2, <4>3
        <5>2. i <= Len(lg) /\ lg[i].term = L[i].term
          BY <1>1, <4>3, <5>1
        <5>3. Agree(lg, L, i)
          BY <1>1, <5>2
        <5> QED BY <1>1, <4>1, <5>3 DEF Agree
      <4> QED BY <1>1, <4>2, <4>3
    <3> QED BY <3>1, <3>2
  <2>3. f \in [1..prev + n -> Entry]
    <3>1. \A i \in 1..prev + n : L[i] \in Entry
      BY <1>1, LogFacts
    <3> QED BY <2>2, <3>1
  <2>4. f \in Logs /\ Len(f) = prev + n
    BY <1>1, <2>3, FunctionIsLog
  <2>5. Agree(f, L, prev + n)
    <3> HIDE DEF f, D
    <3> QED BY <1>1, <2>2, <2>4 DEF Agree
  <2>6. ASSUME NEW i \in Nat, Agree(lg, L, i)
        PROVE  i <= prev + n
    <3> SUFFICES ASSUME i > prev + n PROVE FALSE
      BY <1>1
    <3>1. \A j \in 1..n : prev + j <= Len(lg) /\ lg[prev + j] = L[prev + j]
      BY <1>1, <2>6 DEF Agree
    <3> QED BY <1>4, <3>1
  <2>7. \A i \in Nat : Agree(lg, L, i) => Agree(f, L, i)
    BY <1>1, <2>4, <2>5, <2>6 DEF Agree
  <2> QED BY <2>1, <2>4, <2>5, <2>7
<1> QED BY <1>3, <1>4

LEMMA MergeType ==
    ASSUME NEW lg \in Logs, NEW incoming \in Logs, NEW prev \in Nat, prev <= Len(lg)
    PROVE  MergeAfter(lg, prev, incoming) \in Logs
<1> DEFINE n == Len(incoming)
           D == {j \in 1..n : prev + j > Len(lg) \/ lg[prev + j].term # incoming[j].term}
           f == [i \in 1..prev + n |-> IF \E j \in D : prev + j <= i THEN incoming[i - prev] ELSE lg[i]]
<1>1. n \in Nat /\ Len(lg) \in Nat
  BY LogFacts
<1>2. MergeAfter(lg, prev, incoming) = IF D = {} THEN lg ELSE f
  BY DEF MergeAfter
<1>3. ASSUME NEW i \in 1..prev + n
      PROVE  f[i] \in Entry
  <2>1. CASE \E j \in D : prev + j <= i
    <3>1. i - prev \in 1..n /\ f[i] = incoming[i - prev]
      BY <1>1, <2>1
    <3> QED BY <3>1, LogFacts
  <2>2. CASE ~\E j \in D : prev + j <= i
    <3>1. f[i] = lg[i]
      BY <2>2
    <3>2. i <= Len(lg)
      <4>1. CASE i <= prev
        BY <1>1, <4>1
      <4>2. CASE i > prev
        <5>1. i - prev \in 1..n /\ i - prev \notin D
          BY <1>1, <2>2, <4>2
        <5> QED BY <1>1, <5>1
      <4> QED BY <4>1, <4>2
    <3> QED BY <1>1, <3>1, <3>2, LogFacts
  <2> QED BY <2>1, <2>2
<1>4. f \in [1..prev + n -> Entry]
  BY <1>3
<1>5. f \in Logs
  <2> HIDE DEF f
  <2> QED BY <1>1, <1>4, FunctionIsLog
<1> QED BY <1>2, <1>5

-----------------------------------------------------------------------------
(* Types *)

LEMMA MessageFacts ==
    ASSUME MessagesOK, NEW m \in msgs
    PROVE  /\ m.term \in Nat /\ m.src \in Server
           /\ m.type \in {"RequestVote", "RequestVoteResponse", "AppendEntries", "AppendEntriesResponse"}
           /\ m.type = "RequestVote" => m.lastIndex \in Nat /\ m.lastTerm \in Nat
           /\ m.type = "RequestVoteResponse" => m.dst \in Server /\ m.granted \in BOOLEAN
           /\ m.type = "AppendEntries" =>
                 m.dst \in Server /\ m.prev \in Nat /\ m.prevTerm \in Nat /\ m.entries \in Logs /\ m.commit \in Nat
           /\ m.type = "AppendEntriesResponse" => m.dst \in Server /\ m.granted \in BOOLEAN /\ m.match \in Nat
BY DEF MessagesOK, Message

LEMMA TypesGiven == StateOK /\ CommitBound => TypeOK
BY DEF StateOK, CommitBound, TypeOK, Logs

LEMMA TermAtType ==
    ASSUME NEW lg \in Logs, NEW i \in Nat, i <= Len(lg)
    PROVE  TermAt(lg, i) \in Nat
BY LogFacts DEF TermAt

LEMMA SuffixFacts ==
    ASSUME NEW lg \in Logs, NEW prev \in Nat, prev <= Len(lg)
    PROVE  /\ SuffixFrom(lg, prev + 1) \in Logs
           /\ prev + Len(SuffixFrom(lg, prev + 1)) = Len(lg)
           /\ \A j \in 1..Len(SuffixFrom(lg, prev + 1)) : SuffixFrom(lg, prev + 1)[j] = lg[prev + j]
<1>1. Len(lg) \in Nat /\ \A i \in prev + 1..Len(lg) : lg[i] \in Entry
  BY LogFacts
<1>2. /\ SubSeq(lg, prev + 1, Len(lg)) \in Seq(Entry)
      /\ Len(SubSeq(lg, prev + 1, Len(lg))) = IF prev + 1 <= Len(lg) THEN Len(lg) - (prev + 1) + 1 ELSE 0
      /\ \A j \in 1..Len(lg) - (prev + 1) + 1 : SubSeq(lg, prev + 1, Len(lg))[j] = lg[prev + 1 + j - 1]
  BY <1>1, SubSeqProperties
<1>3. Len(SubSeq(lg, prev + 1, Len(lg))) = Len(lg) - prev
  BY <1>1, <1>2
<1> QED BY <1>1, <1>2, <1>3 DEF SuffixFrom, Logs

LEMMA BecomeFollowerTypes ==
    ASSUME StateOK, NEW n \in Server, BecomeFollower(n)
    PROVE  /\ role' \in [Server -> {Follower, Candidate, Leader}]
           /\ votesReceived' \in [Server -> SUBSET Server]
           /\ matchIndex' \in [Server -> [Server -> Nat]]
<1>1. role' \in [Server -> {Follower, Candidate, Leader}] /\ votesReceived' \in [Server -> SUBSET Server]
  BY DEF StateOK, BecomeFollower
<1>2. [p \in Server |-> 0] \in [Server -> Nat]
  OBVIOUS
<1>3. matchIndex' \in [Server -> [Server -> Nat]]
  BY <1>2 DEF StateOK, BecomeFollower, ResetReplicator
<1> QED BY <1>1, <1>3

LEMMA StateOKStep == StateOK /\ MessagesOK /\ CommitBound /\ [Next]_vars => StateOK' /\ MessagesOK'
<1> SUFFICES ASSUME StateOK, MessagesOK, CommitBound, [Next]_vars
             PROVE  StateOK' /\ MessagesOK'
  OBVIOUS
<1> USE DEF StateOK
<1>1. ASSUME NEW n \in Server, StartElection(n)
      PROVE  StateOK' /\ MessagesOK'
  <2>1. StateOK'
    BY <1>1 DEF StartElection, PersistTermAndVote
  <2>2. LastIndex(log[n]) \in Nat /\ LastTerm(log[n]) \in Nat
    BY LogFacts, TermAtType DEF LastIndex, LastTerm
  <2>3. MessagesOK'
    BY <1>1, <2>2 DEF StartElection, Send, MessagesOK, Message
  <2> QED BY <2>1, <2>3
<1>2. ASSUME NEW n \in Server, NEW v \in Value, AppendCommand(n, v)
      PROVE  StateOK' /\ MessagesOK'
  <2>1. Append(log[n], [term |-> currentTerm[n], command |-> v]) \in Logs
    <3>1. [term |-> currentTerm[n], command |-> v] \in Entry
      BY DEF Entry
    <3> QED BY <3>1, AppendProperties DEF Logs
  <2> QED BY <1>2, <2>1 DEF AppendCommand, MessagesOK
<1>3. ASSUME NEW n \in Server, NewReplicator(n)
      PROVE  StateOK' /\ MessagesOK'
  BY <1>3 DEF NewReplicator, ResetReplicator, durable, MessagesOK
<1>4. ASSUME NEW n \in Server, NEW p \in Server, NEW prev \in 0..Len(log[n]), Replicate(n, p, prev)
      PROVE  StateOK' /\ MessagesOK'
  <2>1. prev \in Nat /\ prev <= Len(log[n])
    BY LogFacts
  <2>2. TermAt(log[n], prev) \in Nat /\ SuffixFrom(log[n], prev + 1) \in Logs
    BY <2>1, TermAtType, SuffixFacts
  <2>3. MessagesOK'
    BY <1>4, <2>1, <2>2 DEF Replicate, Send, MessagesOK, Message
  <2> QED BY <1>4, <2>3 DEF Replicate, durable
<1>5. ASSUME NEW n \in Server, ApplyCommitted(n)
      PROVE  StateOK' /\ MessagesOK'
  <2> DEFINE i == Len(applied[n]) + 1
  <2>1. Len(applied[n]) \in Nat /\ Len(log[n]) \in Nat /\ commitIndex[n] \in Nat /\ commitIndex[n] <= Len(log[n])
    BY LogFacts DEF CommitBound
  <2>2. SubSeq(log[n], i, commitIndex[n]) \in Logs
    <3>1. \A j \in i..commitIndex[n] : log[n][j] \in Entry
      BY <2>1, LogFacts
    <3> QED BY <2>1, <3>1, SubSeqProperties DEF Logs
  <2>3. applied[n] \o SubSeq(log[n], i, commitIndex[n]) \in Logs
    BY <2>2, ConcatProperties DEF Logs
  <2> QED BY <1>5, <2>3 DEF ApplyCommitted, durable, MessagesOK
<1>6. ASSUME NEW n \in Server, StepDown(n) \/ Restart(n)
      PROVE  StateOK' /\ MessagesOK'
  <2>1. BecomeFollower(n) /\ commitIndex' \in [Server -> Nat] /\ UNCHANGED <<durable, applied, msgs>>
    BY <1>6 DEF StepDown, Restart
  <2> QED BY <2>1, BecomeFollowerTypes DEF durable, MessagesOK
<1>7. ASSUME NEW n \in Server, NEW m \in msgs, HandleRequestVote(n, m)
      PROVE  StateOK' /\ MessagesOK'
  <2>1. m.term \in Nat /\ m.src \in Server
    BY MessageFacts
  <2>2. StateOK'
    <3>1. /\ currentTerm' \in [Server -> Nat] /\ votedFor' \in [Server -> Server \cup {None}]
          /\ UNCHANGED <<log, applied, commitIndex>>
      BY <1>7, <2>1 DEF HandleRequestVote, PersistTermAndVote
    <3>2. CASE m.term > currentTerm[n]
      BY <1>7, <3>1, <3>2, BecomeFollowerTypes DEF HandleRequestVote
    <3>3. CASE ~(m.term > currentTerm[n])
      <4>1. role' \in [Server -> {Follower, Candidate, Leader}] /\ UNCHANGED <<votesReceived, matchIndex>>
        BY <1>7, <3>3 DEF HandleRequestVote
      <4> QED BY <3>1, <4>1
    <3> QED BY <3>2, <3>3
  <2>3. MessagesOK'
    <3>1. \A t \in Nat, g \in BOOLEAN :
             [type |-> "RequestVoteResponse", term |-> t, src |-> n, dst |-> m.src, granted |-> g] \in Message
      BY <2>1 DEF Message
    <3>2. \E t \in Nat, g \in BOOLEAN :
             Deliver(m, Answer([type |-> "RequestVoteResponse", term |-> t, src |-> n, dst |-> m.src,
                                granted |-> g]))
      <4> DEFINE t == IF m.term > currentTerm[n] THEN m.term ELSE currentTerm[n]
                 v == IF m.term > currentTerm[n] THEN None ELSE votedFor[n]
                 g == m.term = t /\ CandidateLogIsUpToDate(m, log[n]) /\ v \in {None, m.src}
      <4>1. t \in Nat /\ g \in BOOLEAN
        BY <2>1
      <4>2. Deliver(m, Answer([type |-> "RequestVoteResponse", term |-> t, src |-> n, dst |-> m.src,
                               granted |-> g]))
        BY <1>7 DEF HandleRequestVote
      <4> HIDE DEF t, g
      <4> QED BY <4>1, <4>2
    <3> QED BY <3>1, <3>2 DEF Deliver, Answer, MessagesOK
  <2> QED BY <2>2, <2>3
<1>8. ASSUME NEW n \in Server, NEW m \in msgs, HandleRequestVoteResponse(n, m)
      PROVE  StateOK' /\ MessagesOK'
  <2>1. m.term \in Nat /\ m.src \in Server
    BY MessageFacts
  <2>2. StateOK'
    <3>1. CASE AdvanceTerm(n, m.term)
      <4>1. BecomeFollower(n)
        BY <3>1 DEF AdvanceTerm
      <4> QED BY <2>1, <3>1, <4>1, BecomeFollowerTypes DEF AdvanceTerm, PersistTermAndVote
    <3>2. CASE ~AdvanceTerm(n, m.term)
      BY <1>8, <2>1, <3>2 DEF HandleRequestVoteResponse, durable
    <3> QED BY <3>1, <3>2
  <2>3. MessagesOK'
    BY <1>8 DEF HandleRequestVoteResponse, Deliver, MessagesOK
  <2> QED BY <2>2, <2>3
<1>9. ASSUME NEW n \in Server, NEW m \in msgs, HandleAppendEntries(n, m)
      PROVE  StateOK' /\ MessagesOK'
  <2>1. /\ m.term \in Nat /\ m.src \in Server /\ m.prev \in Nat /\ m.entries \in Logs /\ m.commit \in Nat
        /\ Len(m.entries) \in Nat
    BY <1>9, MessageFacts, LogFacts DEF HandleAppendEntries, Receives
  <2>2. PrefixMatches(log[n], m.prev, m.prevTerm) => MergeAfter(log[n], m.prev, m.entries) \in Logs
    BY <2>1, MergeType DEF PrefixMatches
  <2>3. currentTerm' \in [Server -> Nat] /\ votedFor' \in [Server -> Server \cup {None}]
    BY <1>9, <2>1 DEF HandleAppendEntries, PersistTermAndVote
  <2>4. log' \in [Server -> Logs] /\ applied' = applied
    BY <1>9, <2>2 DEF HandleAppendEntries
  <2>5. /\ role' \in [Server -> {Follower, Candidate, Leader}] /\ votesReceived' \in [Server -> SUBSET Server]
        /\ matchIndex' \in [Server -> [Server -> Nat]]
    <3>1. CASE m.term >= currentTerm[n]
      BY <1>9, <3>1, BecomeFollowerTypes DEF HandleAppendEntries
    <3>2. CASE ~(m.term >= currentTerm[n])
      BY <1>9, <3>2 DEF HandleAppendEntries
    <3> QED BY <3>1, <3>2
  <2>6. commitIndex' \in [Server -> Nat]
    <3>1. \A k \in Nat : Smaller(m.commit, k) \in Nat
      BY <2>1 DEF Smaller
    <3>2. commitIndex' = commitIndex \/ \E k \in Nat : AdvanceNodeCommit(n, Smaller(m.commit, k))
      <4>1. CASE m.term >= currentTerm[n] /\ PrefixMatches(log[n], m.prev, m.prevTerm)
        <5>1. AdvanceNodeCommit(n, Smaller(m.commit, m.prev + Len(m.entries)))
          BY <1>9, <4>1 DEF HandleAppendEntries
        <5> QED BY <2>1, <5>1
      <4>2. CASE ~(m.term >= currentTerm[n] /\ PrefixMatches(log[n], m.prev, m.prevTerm))
        BY <1>9, <4>2 DEF HandleAppendEntries
      <4> QED BY <4>1, <4>2
    <3> QED BY <3>1, <3>2 DEF AdvanceNodeCommit
  <2>7. MessagesOK'
    <3>1. \A s \in BOOLEAN, k \in Nat :
             [type |-> "AppendEntriesResponse", term |-> currentTerm'[n], src |-> n, dst |-> m.src,
              granted |-> s, match |-> k] \in Message
      BY <2>1, <2>3 DEF Message
    <3>2. \E s \in BOOLEAN, k \in Nat :
             Deliver(m, Answer([type |-> "AppendEntriesResponse", term |-> currentTerm'[n], src |-> n,
                                dst |-> m.src, granted |-> s, match |-> k]))
      <4> DEFINE s == m.term >= currentTerm[n] /\ PrefixMatches(log[n], m.prev, m.prevTerm)
                 k == IF s THEN m.prev + Len(m.entries) ELSE 0
      <4>1. s \in BOOLEAN /\ k \in Nat
        BY <2>1 DEF PrefixMatches
      <4>2. Deliver(m, Answer([type |-> "AppendEntriesResponse", term |-> currentTerm'[n], src |-> n,
                               dst |-> m.src, granted |-> s, match |-> k]))
        BY <1>9 DEF HandleAppendEntries
      <4> HIDE DEF s, k
      <4> QED BY <4>1, <4>2
    <3> QED BY <3>1, <3>2 DEF Deliver, Answer, MessagesOK
  <2> QED BY <2>3, <2>4, <2>5, <2>6, <2>7
<1>10. ASSUME NEW n \in Server, NEW m \in msgs, HandleAppendEntriesResponse(n, m)
       PROVE  StateOK' /\ MessagesOK'
  <2>1. m.term \in Nat /\ m.src \in Server /\ m.match \in Nat
    BY <1>10, MessageFacts DEF HandleAppendEntriesResponse, Receives
  <2>2. MessagesOK'
    BY <1>10 DEF HandleAppendEntriesResponse, Deliver, MessagesOK
  <2>3. CASE AdvanceTerm(n, m.term)
    BY <2>1, <2>2, <2>3 DEF AdvanceTerm, PersistTermAndVote, BecomeFollower, ResetReplicator
  <2>4. CASE ~AdvanceTerm(n, m.term)
    <3>1. /\ matchIndex' = [matchIndex EXCEPT ![n][m.src] = IF m.match > @ THEN m.match ELSE @]
          /\ AdvanceCommitIndex(n, matchIndex'[n])
          /\ UNCHANGED <<durable, applied, role, votesReceived>>
      BY <1>10, <2>4 DEF HandleAppendEntriesResponse
    <3>2. matchIndex' \in [Server -> [Server -> Nat]]
      BY <2>1, <3>1
    <3>3. Replicated(n, matchIndex'[n]) \subseteq Nat
      BY LogFacts DEF Replicated
    <3>4. commitIndex' \in [Server -> Nat]
      BY <3>1, <3>3 DEF AdvanceCommitIndex, AdvanceNodeCommit
    <3> QED BY <2>2, <3>1, <3>2, <3>4 DEF durable
  <2> QED BY <2>3, <2>4
<1>11. ASSUME NEW m \in msgs, Lose(m)
       PROVE  StateOK' /\ MessagesOK'
  BY <1>11 DEF Lose, durable, MessagesOK
<1>12. CASE UNCHANGED vars
  BY <1>12 DEF vars, durable, MessagesOK
<1> QED BY <1>1, <1>2, <1>3, <1>4, <1>5, <1>6, <1>7, <1>8, <1>9, <1>10, <1>11, <1>12 DEF Next

-----------------------------------------------------------------------------
(* Histories *)

\* What a longer history keeps: the leaders, their logs but for new entries at the end, and
\* the acknowledgements.
Grows(Ld, Lg, A, Ld2, Lg2, A2) ==
    /\ \A t \in Nat : Ld[t] # None => Ld2[t] = Ld[t] /\ Agree(Lg2[t], Lg[t], Len(Lg[t]))
    /\ \A v \in Server, t \in Nat : A[v][t] <= A2[v][t]

HistoryLogs(Ld, Lg, A) ==
    Ld \in [Nat -> Server \cup {None}] /\ Lg \in [Nat -> Logs] /\ A \in [Server -> [Nat -> Nat]]

LEMMA GrowsReflexive ==
    ASSUME NEW Ld, NEW Lg, NEW A, HistoryLogs(Ld, Lg, A)
    PROVE  Grows(Ld, Lg, A, Ld, Lg, A)
<1>1. \A t \in Nat : Agree(Lg[t], Lg[t], Len(Lg[t]))
  BY LogFacts, AgreeReflexive DEF HistoryLogs
<1>2. \A v \in Server, t \in Nat : A[v][t] <= A[v][t]
  BY DEF HistoryLogs
<1> QED BY <1>1, <1>2 DEF Grows

LEMMA GoodGrows ==
    ASSUME NEW Ld, NEW Lg, NEW A, NEW Ld2, NEW Lg2, NEW A2,
           HistoryLogs(Ld, Lg, A), HistoryLogs(Ld2, Lg2, A2), Grows(Ld, Lg, A, Ld2, Lg2, A2),
           NEW lg \in Logs, Good(lg, Ld, Lg)
    PROVE  Good(lg, Ld2, Lg2)
<1> SUFFICES ASSUME NEW i \in 1..Len(lg)
             PROVE  Ld2[lg[i].term] # None /\ Agree(lg, Lg2[lg[i].term], i)
  BY DEF Good
<1> DEFINE u == lg[i].term
<1>1. i \in Nat /\ u \in Nat /\ Lg[u] \in Logs /\ Lg2[u] \in Logs /\ Len(Lg[u]) \in Nat
  <2>1. i \in Nat /\ u \in Nat
    BY LogFacts
  <2> HIDE DEF u
  <2>2. Lg[u] \in Logs /\ Lg2[u] \in Logs
    BY <2>1 DEF HistoryLogs
  <2> QED BY <2>1, <2>2, LogFacts
<1>2. Ld[u] # None /\ Agree(lg, Lg[u], i)
  BY DEF Good
<1>3. Ld2[u] = Ld[u] /\ Agree(Lg[u], Lg2[u], Len(Lg[u]))
  BY <1>1, <1>2, AgreeSymmetric DEF Grows
<1>4. i <= Len(Lg[u])
  BY <1>2 DEF Agree
<1> HIDE DEF u
<1>5. Agree(lg, Lg2[u], i)
  BY <1>1, <1>2, <1>3, <1>4, AgreeTransitive
<1> QED BY <1>2, <1>3, <1>5 DEF u

LEMMA CommittedGrows ==
    ASSUME NEW Ld, NEW Lg, NEW A, NEW Ld2, NEW Lg2, NEW A2,
           HistoryLogs(Ld, Lg, A), HistoryLogs(Ld2, Lg2, A2), Grows(Ld, Lg, A, Ld2, Lg2, A2),
           NEW t \in Nat, NEW k \in Nat, Committed(Ld, Lg, A, t, k)
    PROVE  Committed(Ld2, Lg2, A2, t, k)
<1>1. Len(Lg[t]) \in Nat /\ Len(Lg2[t]) \in Nat
  BY LogFacts DEF HistoryLogs
<1>2. Ld2[t] # None /\ k \in 1..Len(Lg2[t]) /\ Lg2[t][k].term = t
  BY <1>1 DEF Committed, Grows, Agree
<1>3. {v \in Server : A[v][t] >= k} \subseteq {v \in Server : A2[v][t] >= k}
  <2>1. \A v \in Server : A[v][t] \in Nat /\ A2[v][t] \in Nat
    BY DEF HistoryLogs
  <2>2. \A v \in Server : A[v][t] <= A2[v][t]
    BY DEF Grows
  <2> QED BY <2>1, <2>2
<1>4. HasMajority({v \in Server : A2[v][t] >= k})
  BY <1>3, QuorumGrows DEF Committed
<1> QED BY <1>2, <1>4 DEF Committed

LEMMA SafeGrows ==
    ASSUME NEW Ld, NEW Lg, NEW A, NEW Ld2, NEW Lg2, NEW A2,
           HistoryLogs(Ld, Lg, A), HistoryLogs(Ld2, Lg2, A2), Grows(Ld, Lg, A, Ld2, Lg2, A2),
           NEW lg \in Logs, NEW i \in Nat, NEW t0 \in Nat, NEW t1 \in Nat, t0 <= t1,
           Safe(lg, i, t0, Ld, Lg, A)
    PROVE  Safe(lg, i, t1, Ld2, Lg2, A2)
<1>1. CASE i = 0
  BY <1>1 DEF Safe
<1>2. CASE i # 0
  <2>1. PICK t \in Nat, k \in Nat : t <= t0 /\ i <= k /\ Committed(Ld, Lg, A, t, k) /\ Agree(lg, Lg[t], i)
    BY <1>2 DEF Safe
  <2>2. Committed(Ld2, Lg2, A2, t, k)
    BY <2>1, CommittedGrows
  <2>3. Lg[t] \in Logs /\ Lg2[t] \in Logs /\ Len(Lg[t]) \in Nat
    BY LogFacts DEF HistoryLogs
  <2>4. i <= Len(Lg[t]) /\ Agree(Lg[t], Lg2[t], Len(Lg[t]))
    BY <2>1, <2>3, AgreeSymmetric DEF Grows, Committed, Agree
  <2>5. Agree(lg, Lg2[t], i)
    BY <2>1, <2>3, <2>4, AgreeTransitive
  <2> QED BY <2>1, <2>2, <2>5 DEF Safe
<1> QED BY <1>1, <1>2

\* Of two logs with the same first i entries, one is as safe as the other.
LEMMA SafeAgrees ==
    ASSUME NEW Ld, NEW Lg, NEW A, HistoryLogs(Ld, Lg, A),
           NEW a \in Logs, NEW b \in Logs, NEW i \in Nat, NEW j \in Nat, NEW t0 \in Nat,
           Safe(a, i, t0, Ld, Lg, A), j <= i, Agree(b, a, j)
    PROVE  Safe(b, j, t0, Ld, Lg, A)
<1>1. CASE j = 0
  BY <1>1 DEF Safe
<1>2. CASE j # 0
  <2>1. PICK t \in Nat, k \in Nat : t <= t0 /\ i <= k /\ Committed(Ld, Lg, A, t, k) /\ Agree(a, Lg[t], i)
    BY <1>2 DEF Safe
  <2>2. Agree(b, Lg[t], j)
    BY <2>1, AgreeTransitive DEF HistoryLogs
  <2> QED BY <2>1, <2>2 DEF Safe
<1> QED BY <1>1, <1>2

\* Terms do not decrease along a log.
LEMMA TermsMonotone ==
    ASSUME NEW Ld, NEW Lg, NEW A, HistoryLogs(Ld, Lg, A), LogInv(Ld, Lg),
           NEW lg \in Logs, Good(lg, Ld, Lg), NEW i \in 1..Len(lg), NEW j \in 1..Len(lg), i <= j
    PROVE  lg[i].term <= lg[j].term
<1> DEFINE u == lg[j].term
<1>1. u \in Nat /\ i \in Nat /\ j \in Nat /\ Len(lg) \in Nat
  BY LogFacts
<1>2. Ld[u] # None /\ Agree(lg, Lg[u], j)
  BY DEF Good
<1>3. Len(Lg[u]) \in Nat
  BY <1>1, LogFacts DEF HistoryLogs
<1>4. i \in 1..Len(Lg[u]) /\ lg[i] = Lg[u][i]
  BY <1>1, <1>2, <1>3 DEF Agree
<1>5. Lg[u][i].term <= u
  BY <1>1, <1>2, <1>4 DEF LogInv, TermsUpTo
<1> QED BY <1>4, <1>5

\* Two good logs with an entry of one term at an index are equal up to it.
LEMMA GoodLogsMatch ==
    ASSUME NEW Ld, NEW Lg, NEW A, HistoryLogs(Ld, Lg, A),
           NEW a \in Logs, NEW b \in Logs, Good(a, Ld, Lg), Good(b, Ld, Lg),
           NEW i \in 1..Len(a), i <= Len(b), a[i].term = b[i].term
    PROVE  Agree(a, b, i)
<1> DEFINE u == a[i].term
<1>1. i \in Nat /\ i \in 1..Len(b) /\ u \in Nat /\ Lg[u] \in Logs
  <2>1. i \in Nat /\ i \in 1..Len(b) /\ u \in Nat
    BY LogFacts
  <2> HIDE DEF u
  <2> QED BY <2>1 DEF HistoryLogs
<1>2. Agree(a, Lg[u], i) /\ Agree(b, Lg[u], i)
  BY <1>1 DEF Good
<1>3. Agree(Lg[u], b, i)
  BY <1>1, <1>2, AgreeSymmetric
<1> HIDE DEF u
<1> QED BY <1>1, <1>2, <1>3, AgreeTransitive

\* A log that follows a good one to its own end is good.
LEMMA GoodPrefix ==
    ASSUME NEW Ld, NEW Lg, NEW A, HistoryLogs(Ld, Lg, A), NEW t \in Nat,
           NEW a \in Logs, NEW b \in Logs, Agree(a, b, Len(a)), Good(b, Ld, Lg), TermsUpTo(b, t)
    PROVE  Good(a, Ld, Lg) /\ TermsUpTo(a, t)
<1> SUFFICES ASSUME NEW i \in 1..Len(a)
             PROVE  Ld[a[i].term] # None /\ Agree(a, Lg[a[i].term], i) /\ a[i].term <= t
  BY DEF Good, TermsUpTo
<1> DEFINE u == a[i].term
<1>1. i \in Nat /\ i <= Len(a) /\ Len(a) \in Nat /\ u \in Nat /\ Lg[u] \in Logs /\ Len(b) \in Nat
  <2>1. i \in Nat /\ i <= Len(a) /\ Len(a) \in Nat /\ u \in Nat /\ Len(b) \in Nat
    BY LogFacts
  <2> HIDE DEF u
  <2> QED BY <2>1 DEF HistoryLogs
<1>2. i \in 1..Len(b) /\ a[i] = b[i]
  BY <1>1 DEF Agree
<1>3. Ld[u] # None /\ Agree(b, Lg[u], i) /\ u <= t
  BY <1>2 DEF Good, TermsUpTo
<1> HIDE DEF u
<1>4. Agree(a, Lg[u], i)
  BY <1>1, <1>3, AgreeTransitive
<1> QED BY <1>3, <1>4 DEF u

\* An entry does not become choosable later on: terms only rise, and who acknowledges an entry
\* was not beyond its term.
LEMMA ChoosableShrinks ==
    ASSUME StateOK, StateOK', \A v \in Server : currentTerm[v] <= currentTerm'[v],
           NEW Ld, NEW Lg, NEW A, NEW Ld2, NEW Lg2, NEW A2,
           HistoryLogs(Ld, Lg, A), HistoryLogs(Ld2, Lg2, A2), Grows(Ld, Lg, A, Ld2, Lg2, A2),
           NEW t \in Nat, NEW i \in Nat, Ld[t] # None, i <= Len(Lg[t]),
           \A v \in Server : A2[v][t] >= i => A[v][t] >= i \/ currentTerm[v] <= t,
           Choosable(Ld2, Lg2, A2, t, i)'
    PROVE  Choosable(Ld, Lg, A, t, i)
<1>1. Len(Lg[t]) \in Nat /\ Len(Lg2[t]) \in Nat
  BY LogFacts DEF HistoryLogs
<1>2. i \in 1..Len(Lg[t]) /\ Lg[t][i].term = t
  BY <1>1 DEF Choosable, Grows, Agree
<1> DEFINE P == {v \in Server : A2[v][t] >= i \/ currentTerm'[v] <= t}
           Q == {v \in Server : A[v][t] >= i \/ currentTerm[v] <= t}
<1>3. P \subseteq Q
  <2>1. \A v \in Server : currentTerm[v] \in Nat /\ currentTerm'[v] \in Nat
    BY DEF StateOK
  <2> QED BY <2>1
<1>4. HasMajority(P)
  BY DEF Choosable
<1>5. HasMajority(Q)
  <2> HIDE DEF P, Q
  <2>1. P \in SUBSET Server /\ Q \in SUBSET Server
    BY DEF P, Q
  <2> QED BY <1>3, <1>4, <2>1, QuorumGrows
<1> QED BY <1>2, <1>5 DEF Choosable

LEMMA CommittedIsChoosable ==
    ASSUME StateOK, NEW Ld, NEW Lg, NEW A, HistoryLogs(Ld, Lg, A), NEW t \in Nat, NEW k \in Nat,
           Committed(Ld, Lg, A, t, k)
    PROVE  Choosable(Ld, Lg, A, t, k)
<1> DEFINE P == {v \in Server : A[v][t] >= k}
           Q == {v \in Server : A[v][t] >= k \/ currentTerm[v] <= t}
<1>1. P \subseteq Q /\ P \in SUBSET Server /\ Q \in SUBSET Server
  OBVIOUS
<1>2. HasMajority(P)
  BY DEF Committed
<1>3. HasMajority(Q)
  <2> HIDE DEF P, Q
  <2> QED BY <1>1, <1>2, QuorumGrows
<1> QED BY <1>3 DEF Committed, Choosable

\* What is safe by a term is in the log of every leader from that term on.
LEMMA SafeIsInLeader ==
    ASSUME StateOK, NEW V, NEW Ld, NEW Lg, NEW K, NEW A, HistoryLogs(Ld, Lg, A), KeepInv(V, Ld, Lg, K, A),
           NEW lg \in Logs, NEW i \in Nat, NEW t0 \in Nat, Safe(lg, i, t0, Ld, Lg, A),
           NEW u \in Nat, t0 <= u, Ld[u] # None
    PROVE  Agree(lg, Lg[u], i)
<1>0. Lg[u] \in Logs /\ Len(Lg[u]) \in Nat /\ Len(lg) \in Nat
  BY LogFacts DEF HistoryLogs
<1>1. CASE i = 0
  BY <1>0, <1>1 DEF Agree
<1>2. CASE i # 0
  <2>1. PICK t \in Nat, k \in Nat : t <= t0 /\ i <= k /\ Committed(Ld, Lg, A, t, k) /\ Agree(lg, Lg[t], i)
    BY <1>2 DEF Safe
  <2>2. CASE t = u
    BY <2>1, <2>2
  <2>3. CASE t < u
    <3>1. Choosable(Ld, Lg, A, t, k)
      BY <2>1, CommittedIsChoosable
    <3>2. Agree(Lg[u], Lg[t], k)
      BY <2>3, <3>1 DEF KeepInv
    <3>3. Lg[t] \in Logs
      BY DEF HistoryLogs
    <3>4. Agree(Lg[t], Lg[u], k)
      BY <1>0, <3>2, <3>3, AgreeSymmetric
    <3> QED BY <1>0, <2>1, <3>3, <3>4, AgreeTransitive
  <2> QED BY <2>1, <2>2, <2>3
<1> QED BY <1>1, <1>2

\* Steps that leave logs and history alone.
LEMMA KeepStable ==
    ASSUME StateOK, StateOK', \A v \in Server : currentTerm[v] <= currentTerm'[v], log' = log,
           NEW V, NEW Ld, NEW Lg, NEW K, NEW A, HistoryOK(V, Ld, Lg, K, A), KeepInv(V, Ld, Lg, K, A)
    PROVE  KeepInv(V, Ld, Lg, K, A)'
<1>1. HistoryLogs(Ld, Lg, A)
  BY DEF HistoryOK, HistoryLogs
<1>2. Grows(Ld, Lg, A, Ld, Lg, A)
  BY <1>1, GrowsReflexive
<1>3. ASSUME NEW t \in Nat, NEW i \in Nat, Choosable(Ld, Lg, A, t, i)'
      PROVE  Choosable(Ld, Lg, A, t, i)
  <2>1. Ld[t] # None /\ i <= Len(Lg[t])
    BY <1>3 DEF Choosable
  <2> QED BY <1>1, <1>2, <1>3, <2>1, ChoosableShrinks
<1> QED BY <1>3 DEF KeepInv

-----------------------------------------------------------------------------
(* Steps that add nothing to the history *)

\* What a step may send without any history: refusals.
OnlyRefusals == \A m \in msgs' : m \in msgs \/ (m.type \in {"RequestVoteResponse", "AppendEntriesResponse"}
                                                /\ ~m.granted)

\* Messages are lost or refused, and no node changes.
LEMMA NothingChanges ==
    ASSUME StateOK, StateOK', MessagesOK, OnlyRefusals,
           UNCHANGED <<durable, applied, role, votesReceived, commitIndex, matchIndex>>,
           NEW V, NEW Ld, NEW Lg, NEW K, NEW A, Explains(V, Ld, Lg, K, A)
    PROVE  Explains(V, Ld, Lg, K, A)'
<1> USE DEF Explains
<1>0. /\ UNCHANGED <<currentTerm, votedFor, log, applied, role, votesReceived, commitIndex, matchIndex>>
      /\ \A m \in msgs' : m.type \in {"RequestVote", "AppendEntries"} => m \in msgs
      /\ \A m \in msgs' : m.granted => m \in msgs \/ m.type \notin {"RequestVoteResponse", "AppendEntriesResponse"}
  BY DEF OnlyRefusals, durable
<1>1. VoteInv(V)'
  BY <1>0 DEF VoteInv
<1>2. LeaderInv(V, Ld, Lg)'
  BY <1>0 DEF LeaderInv
<1>3. LogInv(Ld, Lg)'
  BY <1>0 DEF LogInv
<1>4. CandidateInv(Ld, Lg, K)'
  BY <1>0 DEF CandidateInv
<1>5. AppendInv(Ld, Lg)'
  BY <1>0 DEF AppendInv
<1>6. AckInv(Ld, Lg, A)'
  BY <1>0 DEF AckInv
<1>7. KeepInv(V, Ld, Lg, K, A)'
  <2>1. \A v \in Server : currentTerm[v] <= currentTerm'[v]
    BY <1>0 DEF StateOK
  <2> QED BY <1>0, <2>1, KeepStable
<1>8. CommitInv(Ld, Lg, A)'
  BY <1>0 DEF CommitInv
<1> QED BY <1>1, <1>2, <1>3, <1>4, <1>5, <1>6, <1>7, <1>8 DEF HistoryOK

\* Node n becomes a follower, in its term or in a later one, and may forget what is committed.
LEMMA NodeRetires ==
    ASSUME StateOK, StateOK', MessagesOK, OnlyRefusals, NEW n \in Server,
           log' = log, applied' = applied, currentTerm[n] <= currentTerm'[n],
           currentTerm'[n] = currentTerm[n] => votedFor'[n] = votedFor[n],
           role'[n] = Follower, \A p \in Server : matchIndex'[n][p] = 0,
           commitIndex'[n] \in {0, commitIndex[n]},
           \A p \in Server \ {n} :
               /\ currentTerm'[p] = currentTerm[p] /\ votedFor'[p] = votedFor[p] /\ role'[p] = role[p]
               /\ votesReceived'[p] = votesReceived[p] /\ matchIndex'[p] = matchIndex[p]
               /\ commitIndex'[p] = commitIndex[p],
           NEW V, NEW Ld, NEW Lg, NEW K, NEW A, Explains(V, Ld, Lg, K, A)
    PROVE  Explains(V, Ld, Lg, K, A)'
<1> USE DEF Explains
<1>0. /\ \A m \in msgs' : m.type \in {"RequestVote", "AppendEntries"} => m \in msgs
      /\ \A m \in msgs' : m.granted => m \in msgs \/ m.type \notin {"RequestVoteResponse", "AppendEntriesResponse"}
  BY DEF OnlyRefusals
<1>t. /\ \A v \in Server : currentTerm[v] \in Nat /\ currentTerm'[v] \in Nat /\ currentTerm[v] <= currentTerm'[v]
      /\ \A v \in Server : currentTerm'[v] = currentTerm[v] => votedFor'[v] = votedFor[v]
  BY DEF StateOK
<1>f. Follower # Candidate /\ Follower # Leader
  BY DEF Follower, Candidate, Leader
<1>1. VoteInv(V)'
  <2>1. ASSUME NEW v \in Server, NEW t \in Nat, V[v][t] # None
        PROVE  /\ t <= currentTerm'[v] /\ t <= currentTerm'[V[v][t]]
               /\ t = currentTerm'[v] => votedFor'[v] = V[v][t]
    <3>1. V[v][t] \in Server
      BY <2>1 DEF HistoryOK
    <3>2. t <= currentTerm[v] /\ t <= currentTerm[V[v][t]] /\ (t = currentTerm[v] => votedFor[v] = V[v][t])
      BY <2>1 DEF VoteInv
    <3> QED BY <1>t, <3>1, <3>2
  <2>2. ASSUME NEW c \in Server, role'[c] # Follower
        PROVE  /\ votedFor'[c] = c /\ \A v \in votesReceived'[c] : V[v][currentTerm'[c]] = c
               /\ role'[c] = Leader => HasMajority(votesReceived'[c])
    BY <2>2 DEF VoteInv
  <2>3. \A m \in msgs' : m.type = "RequestVoteResponse" /\ m.granted => V[m.src][m.term] = m.dst
    BY <1>0 DEF VoteInv
  <2> QED BY <1>f, <2>1, <2>2, <2>3 DEF VoteInv
<1>2. LeaderInv(V, Ld, Lg)'
  <2>1. ASSUME NEW t \in Nat, Ld[t] # None
        PROVE  HasMajority(Voters(V, t, Ld[t])) /\ t <= currentTerm'[Ld[t]]
    <3>1. Ld[t] \in Server /\ HasMajority(Voters(V, t, Ld[t])) /\ t <= currentTerm[Ld[t]]
      BY <2>1 DEF LeaderInv, HistoryOK
    <3> QED BY <1>t, <3>1
  <2>2. ASSUME NEW c \in Server, role'[c] # Follower
        PROVE  role'[c] = role[c] /\ currentTerm'[c] = currentTerm[c]
    BY <2>2
  <2> QED BY <1>f, <2>1, <2>2 DEF LeaderInv, Voters
<1>3. LogInv(Ld, Lg)'
  <2>1. ASSUME NEW p \in Server PROVE TermsUpTo(log[p], currentTerm'[p])
    <3>1. TermsUpTo(log[p], currentTerm[p]) /\ log[p] \in Logs
      BY DEF LogInv, StateOK
    <3> QED BY <1>t, <3>1, LogFacts DEF TermsUpTo
  <2> QED BY <2>1 DEF LogInv
<1>4. CandidateInv(Ld, Lg, K)'
  <2>1. ASSUME NEW c \in Server, role'[c] = Candidate
        PROVE  log'[c] = K[c][currentTerm'[c]]
    BY <1>f, <2>1 DEF CandidateInv
  <2>2. ASSUME NEW m \in msgs', m.type = "RequestVote"
        PROVE  /\ m.term <= currentTerm'[m.src]
               /\ m.lastIndex = Len(K[m.src][m.term]) /\ m.lastTerm = LastTerm(K[m.src][m.term])
    <3>1. m \in msgs /\ m.src \in Server /\ m.term \in Nat
      BY <1>0, <2>2, MessageFacts
    <3> QED BY <1>t, <2>2, <3>1 DEF CandidateInv
  <2> QED BY <2>1, <2>2 DEF CandidateInv
<1>5. AppendInv(Ld, Lg)'
  BY <1>0 DEF AppendInv
<1>6. AckInv(Ld, Lg, A)'
  <2>1. ASSUME NEW v \in Server, NEW t \in Nat, A[v][t] > 0
        PROVE  /\ Ld[t] # None /\ t <= currentTerm'[v] /\ A[v][t] <= Len(Lg[t])
               /\ t = currentTerm'[v] => Agree(log'[v], Lg[t], A[v][t])
    <3>1. /\ Ld[t] # None /\ t <= currentTerm[v] /\ A[v][t] <= Len(Lg[t])
          /\ t = currentTerm[v] => Agree(log[v], Lg[t], A[v][t])
      BY <2>1 DEF AckInv
    <3> QED BY <1>t, <3>1
  <2>2. \A m \in msgs' : m.type = "AppendEntriesResponse" /\ m.granted => m.match <= A[m.src][m.term]
    BY <1>0 DEF AckInv
  <2>3. ASSUME NEW l \in Server, role'[l] = Leader
        PROVE  /\ A[l][currentTerm'[l]] = Len(log'[l])
               /\ \A p \in Server : p # l => matchIndex'[l][p] <= A[p][currentTerm'[l]]
    BY <1>f, <2>3 DEF AckInv
  <2>4. ASSUME NEW l \in Server, NEW p \in Server, role'[l] # Leader
        PROVE  matchIndex'[l][p] = 0
    BY <2>4 DEF AckInv
  <2> QED BY <2>1, <2>2, <2>3, <2>4 DEF AckInv
<1>7. KeepInv(V, Ld, Lg, K, A)'
  BY <1>t, KeepStable
<1>8. CommitInv(Ld, Lg, A)'
  <2>h. HistoryLogs(Ld, Lg, A) /\ Grows(Ld, Lg, A, Ld, Lg, A)
    BY GrowsReflexive DEF HistoryOK, HistoryLogs
  <2>1. ASSUME NEW p \in Server
        PROVE  /\ Safe(log[p], commitIndex'[p], currentTerm'[p], Ld, Lg, A)
               /\ Safe(applied[p], Len(applied[p]), currentTerm'[p], Ld, Lg, A)
    <3>1. /\ log[p] \in Logs /\ applied[p] \in Logs /\ commitIndex[p] \in Nat /\ Len(applied[p]) \in Nat
          /\ commitIndex'[p] \in {0, commitIndex[p]}
      BY LogFacts DEF StateOK
    <3>2. /\ Safe(log[p], commitIndex[p], currentTerm[p], Ld, Lg, A)
          /\ Safe(applied[p], Len(applied[p]), currentTerm[p], Ld, Lg, A)
      BY DEF CommitInv
    <3>3. /\ Safe(log[p], commitIndex[p], currentTerm'[p], Ld, Lg, A)
          /\ Safe(applied[p], Len(applied[p]), currentTerm'[p], Ld, Lg, A)
      BY <1>t, <2>h, <3>1, <3>2, SafeGrows
    <3> QED BY <3>1, <3>3 DEF Safe
  <2>2. \A m \in msgs' : m.type = "AppendEntries" => Safe(Lg[m.term], m.commit, m.term, Ld, Lg, A)
    BY <1>0 DEF CommitInv
  <2> QED BY <2>1, <2>2 DEF CommitInv
<1> QED BY <1>1, <1>2, <1>3, <1>4, <1>5, <1>6, <1>7, <1>8 DEF HistoryOK

LEMMA CommitBounded ==
    ASSUME StateOK, NEW Ld, NEW Lg, NEW A, CommitInv(Ld, Lg, A)
    PROVE  CommitBound
<1> SUFFICES ASSUME NEW n \in Server
             PROVE  commitIndex[n] <= Len(log[n])
  BY DEF CommitBound
<1>1. Safe(log[n], commitIndex[n], currentTerm[n], Ld, Lg, A)
  BY DEF CommitInv
<1>2. commitIndex[n] \in Nat /\ Len(log[n]) \in Nat
  BY LogFacts DEF StateOK
<1> QED BY <1>1, <1>2 DEF Safe, Agree

LEMMA StepDownExplained ==
    ASSUME StateOK, StateOK', MessagesOK, NEW n \in Server, StepDown(n) \/ Restart(n),
           NEW V, NEW Ld, NEW Lg, NEW K, NEW A, Explains(V, Ld, Lg, K, A)
    PROVE  Explains(V, Ld, Lg, K, A)'
<1>1. /\ BecomeFollower(n) /\ UNCHANGED <<currentTerm, votedFor, log, applied, msgs>>
      /\ commitIndex' = commitIndex \/ commitIndex' = [commitIndex EXCEPT ![n] = 0]
  BY DEF StepDown, Restart, durable
<1>2. /\ role'[n] = Follower /\ \A p \in Server : matchIndex'[n][p] = 0
      /\ \A p \in Server \ {n} :
            role'[p] = role[p] /\ votesReceived'[p] = votesReceived[p] /\ matchIndex'[p] = matchIndex[p]
  BY <1>1 DEF StateOK, BecomeFollower, ResetReplicator
<1>3. OnlyRefusals
  BY <1>1 DEF OnlyRefusals
<1>4. commitIndex'[n] \in {0, commitIndex[n]} /\ \A p \in Server \ {n} : commitIndex'[p] = commitIndex[p]
  BY <1>1 DEF StateOK
<1>5. currentTerm[n] <= currentTerm'[n]
  BY <1>1 DEF StateOK
<1> QED BY <1>1, <1>2, <1>3, <1>4, <1>5, NodeRetires

LEMMA AdvanceTermExplained ==
    ASSUME StateOK, StateOK', MessagesOK, NEW n \in Server, NEW t \in Nat, t > currentTerm[n],
           AdvanceTerm(n, t), OnlyRefusals,
           NEW V, NEW Ld, NEW Lg, NEW K, NEW A, Explains(V, Ld, Lg, K, A)
    PROVE  Explains(V, Ld, Lg, K, A)'
<1>1. /\ BecomeFollower(n) /\ UNCHANGED <<log, applied, commitIndex>> /\ PersistTermAndVote(n, t, None)
  BY DEF AdvanceTerm
<1>2. /\ role'[n] = Follower /\ \A p \in Server : matchIndex'[n][p] = 0
      /\ \A p \in Server \ {n} :
            role'[p] = role[p] /\ votesReceived'[p] = votesReceived[p] /\ matchIndex'[p] = matchIndex[p]
  BY <1>1 DEF StateOK, BecomeFollower, ResetReplicator
<1>3. /\ currentTerm'[n] = t
      /\ \A p \in Server \ {n} : currentTerm'[p] = currentTerm[p] /\ votedFor'[p] = votedFor[p]
  BY <1>1 DEF StateOK, PersistTermAndVote
<1>4. currentTerm[n] < currentTerm'[n] /\ currentTerm[n] \in Nat /\ currentTerm'[n] \in Nat
  BY <1>3 DEF StateOK
<1>5. commitIndex'[n] \in {0, commitIndex[n]} /\ \A p \in Server \ {n} : commitIndex'[p] = commitIndex[p]
  BY <1>1
<1>6. currentTerm[n] <= currentTerm'[n] /\ currentTerm'[n] # currentTerm[n]
  BY <1>4
<1> QED BY <1>1, <1>2, <1>3, <1>5, <1>6, NodeRetires

LEMMA LoseExplained ==
    ASSUME StateOK, StateOK', MessagesOK, NEW m \in msgs, Lose(m),
           NEW V, NEW Ld, NEW Lg, NEW K, NEW A, Explains(V, Ld, Lg, K, A)
    PROVE  Explains(V, Ld, Lg, K, A)'
<1>1. OnlyRefusals
  BY DEF Lose, OnlyRefusals
<1> QED BY <1>1, NothingChanges DEF Lose

LEMMA NewReplicatorExplained ==
    ASSUME StateOK, StateOK', NEW n \in Server, NewReplicator(n),
           NEW V, NEW Ld, NEW Lg, NEW K, NEW A, Explains(V, Ld, Lg, K, A)
    PROVE  Explains(V, Ld, Lg, K, A)'
<1> USE DEF Explains
<1>0. /\ UNCHANGED <<currentTerm, votedFor, log, applied, role, votesReceived, commitIndex, msgs>>
      /\ role[n] = Leader /\ \A p \in Server : matchIndex'[n][p] = 0
      /\ \A l \in Server \ {n} : matchIndex'[l] = matchIndex[l]
  BY DEF NewReplicator, ResetReplicator, StateOK, durable
<1>1. VoteInv(V)' /\ LeaderInv(V, Ld, Lg)' /\ LogInv(Ld, Lg)' /\ CandidateInv(Ld, Lg, K)' /\ AppendInv(Ld, Lg)'
  BY <1>0 DEF VoteInv, LeaderInv, LogInv, CandidateInv, AppendInv
<1>2. AckInv(Ld, Lg, A)'
  <2>1. \A p \in Server : A[p][currentTerm[n]] \in Nat
    BY DEF StateOK, HistoryOK
  <2>2. ASSUME NEW l \in Server, NEW p \in Server
        PROVE  IF role[l] = Leader THEN p # l => matchIndex'[l][p] <= A[p][currentTerm[l]]
                                   ELSE matchIndex'[l][p] = 0
    <3>1. CASE l = n
      BY <1>0, <2>1, <3>1
    <3>2. CASE l # n
      BY <1>0, <3>2 DEF AckInv
    <3> QED BY <3>1, <3>2
  <2> QED BY <1>0, <2>2 DEF AckInv
<1>3. KeepInv(V, Ld, Lg, K, A)'
  <2>1. \A v \in Server : currentTerm[v] <= currentTerm'[v]
    BY <1>0 DEF StateOK
  <2> QED BY <1>0, <2>1, KeepStable
<1>4. CommitInv(Ld, Lg, A)'
  BY <1>0 DEF CommitInv
<1> QED BY <1>1, <1>2, <1>3, <1>4 DEF HistoryOK

LEMMA ReplicateExplained ==
    ASSUME StateOK, StateOK', NEW n \in Server, NEW p \in Server, NEW prev \in 0..Len(log[n]),
           Replicate(n, p, prev),
           NEW V, NEW Ld, NEW Lg, NEW K, NEW A, Explains(V, Ld, Lg, K, A)
    PROVE  Explains(V, Ld, Lg, K, A)'
<1> USE DEF Explains
<1> DEFINE r == [type |-> "AppendEntries", term |-> currentTerm[n], src |-> n, dst |-> p,
                 prev |-> prev, prevTerm |-> TermAt(log[n], prev),
                 entries |-> SuffixFrom(log[n], prev + 1), commit |-> commitIndex[n]]
<1>0. /\ UNCHANGED <<currentTerm, votedFor, log, applied, role, votesReceived, commitIndex, matchIndex>>
      /\ role[n] = Leader /\ p # n /\ \A m \in msgs' : m \in msgs \/ m = r
  BY DEF Replicate, Send, durable
<1>r. /\ r.type = "AppendEntries" /\ r.term = currentTerm[n] /\ r.src = n /\ r.dst = p /\ r.prev = prev
      /\ r.prevTerm = TermAt(log[n], prev) /\ r.entries = SuffixFrom(log[n], prev + 1)
      /\ r.commit = commitIndex[n]
  OBVIOUS
<1> HIDE DEF r
<1>m. \A m \in msgs' : m.type # "AppendEntries" => m \in msgs
  BY <1>0, <1>r
<1>l. Ld[currentTerm[n]] = n /\ log[n] = Lg[currentTerm[n]] /\ log[n] \in Logs
  BY <1>0 DEF LeaderInv, StateOK
<1>1. VoteInv(V)' /\ CandidateInv(Ld, Lg, K)' /\ AckInv(Ld, Lg, A)'
  BY <1>0, <1>m DEF VoteInv, CandidateInv, AckInv
<1>2. LeaderInv(V, Ld, Lg)' /\ LogInv(Ld, Lg)'
  BY <1>0 DEF LeaderInv, LogInv
<1>3. AppendInv(Ld, Lg)'
  <2>1. /\ prev + Len(SuffixFrom(log[n], prev + 1)) = Len(log[n]) /\ Len(log[n]) \in Nat
        /\ \A j \in 1..Len(SuffixFrom(log[n], prev + 1)) : SuffixFrom(log[n], prev + 1)[j] = log[n][prev + j]
    <3>1. prev \in Nat /\ prev <= Len(log[n]) /\ Len(log[n]) \in Nat
      BY <1>l, LogFacts
    <3> QED BY <1>l, <3>1, SuffixFacts
  <2>2. /\ Ld[r.term] = r.src /\ r.dst # r.src
        /\ r.prev + Len(r.entries) <= Len(Lg[r.term])
        /\ \A j \in 1..Len(r.entries) : r.entries[j] = Lg[r.term][r.prev + j]
        /\ r.prevTerm = TermAt(Lg[r.term], r.prev)
    BY <1>0, <1>r, <1>l, <2>1
  <2> QED BY <1>0, <2>2 DEF AppendInv
<1>4. KeepInv(V, Ld, Lg, K, A)'
  <2>1. \A v \in Server : currentTerm[v] <= currentTerm'[v]
    BY <1>0 DEF StateOK
  <2> QED BY <1>0, <2>1, KeepStable
<1>5. CommitInv(Ld, Lg, A)'
  <2>1. Safe(Lg[r.term], r.commit, r.term, Ld, Lg, A)
    BY <1>r, <1>l DEF CommitInv
  <2> QED BY <1>0, <2>1 DEF CommitInv
<1> QED BY <1>1, <1>2, <1>3, <1>4, <1>5 DEF HistoryOK

LEMMA ApplyCommittedExplained ==
    ASSUME StateOK, StateOK', NEW n \in Server, ApplyCommitted(n),
           NEW V, NEW Ld, NEW Lg, NEW K, NEW A, Explains(V, Ld, Lg, K, A)
    PROVE  Explains(V, Ld, Lg, K, A)'
<1> USE DEF Explains
<1> DEFINE c == commitIndex[n]
<1>0. /\ UNCHANGED <<currentTerm, votedFor, log, role, votesReceived, commitIndex, matchIndex, msgs>>
      /\ \A p \in Server \ {n} : applied'[p] = applied[p]
      /\ applied'[n] = applied[n] \o SubSeq(log[n], Len(applied[n]) + 1, c)
      /\ c \in Len(applied[n]) + 1..MaxApplied
  BY DEF ApplyCommitted, StateOK, durable
<1>1. VoteInv(V)' /\ CandidateInv(Ld, Lg, K)' /\ AckInv(Ld, Lg, A)'
  BY <1>0 DEF VoteInv, CandidateInv, AckInv
<1>2. LeaderInv(V, Ld, Lg)' /\ LogInv(Ld, Lg)' /\ AppendInv(Ld, Lg)'
  BY <1>0 DEF LeaderInv, LogInv, AppendInv
<1>3. KeepInv(V, Ld, Lg, K, A)'
  <2>1. \A v \in Server : currentTerm[v] <= currentTerm'[v]
    BY <1>0 DEF StateOK
  <2> QED BY <1>0, <2>1, KeepStable
<1>4. CommitInv(Ld, Lg, A)'
  <2>1. /\ log[n] \in Logs /\ applied[n] \in Logs /\ applied'[n] \in Logs /\ c \in Nat
        /\ Len(applied[n]) \in Nat /\ Len(log[n]) \in Nat /\ currentTerm[n] \in Nat
    BY LogFacts DEF StateOK
  <2>2. c <= Len(log[n]) /\ Len(applied[n]) < c
    BY <1>0, <2>1, CommitBounded DEF CommitBound
  <2>3. /\ SubSeq(log[n], Len(applied[n]) + 1, c) \in Seq(Entry)
        /\ Len(SubSeq(log[n], Len(applied[n]) + 1, c)) = c - Len(applied[n])
        /\ \A j \in 1..c - Len(applied[n]) :
              SubSeq(log[n], Len(applied[n]) + 1, c)[j] = log[n][Len(applied[n]) + j]
    <3>1. \A j \in Len(applied[n]) + 1..c : log[n][j] \in Entry
      BY <2>1, <2>2, LogFacts
    <3> QED BY <2>1, <2>2, <3>1, SubSeqProperties
  <2>4. /\ Len(applied'[n]) = c
        /\ \A j \in 1..Len(applied[n]) : applied'[n][j] = applied[n][j]
        /\ \A j \in Len(applied[n]) + 1..c : applied'[n][j] = log[n][j]
    <3> DEFINE a == applied[n]
               s == SubSeq(log[n], Len(applied[n]) + 1, c)
    <3>1. a \in Seq(Entry) /\ s \in Seq(Entry) /\ Len(a) \in Nat /\ Len(s) = c - Len(a) /\ applied'[n] = a \o s
          /\ \A j \in 1..c - Len(a) : s[j] = log[n][Len(a) + j]
      BY <1>0, <2>1, <2>3 DEF Logs
    <3> HIDE DEF a, s
    <3>2. /\ Len(a \o s) = Len(a) + Len(s)
          /\ \A j \in 1..Len(a) + Len(s) : (a \o s)[j] = IF j <= Len(a) THEN a[j] ELSE s[j - Len(a)]
      BY <3>1, ConcatProperties
    <3>3. c \in Nat /\ Len(a) < c
      BY <2>1, <2>2 DEF a
    <3>4. Len(applied'[n]) = c /\ \A j \in 1..Len(a) : applied'[n][j] = a[j]
      BY <3>1, <3>2, <3>3
    <3>5. ASSUME NEW j \in Len(a) + 1..c PROVE applied'[n][j] = log[n][j]
      <4>1. applied'[n][j] = s[j - Len(a)]
        BY <3>1, <3>2, <3>3
      <4>2. j - Len(a) \in 1..c - Len(a) /\ Len(a) + (j - Len(a)) = j
        BY <3>1, <3>3
      <4> QED BY <3>1, <4>1, <4>2
    <3> QED BY <3>4, <3>5 DEF a
  <2>5. Agree(applied[n], log[n], Len(applied[n]))
    BY DEF CommitInv
  <2>6. Agree(applied'[n], log[n], c)
    <3>1. \A j \in 1..c : applied'[n][j] = log[n][j]
      BY <2>1, <2>2, <2>4, <2>5 DEF Agree
    <3> QED BY <2>1, <2>2, <2>4, <3>1 DEF Agree
  <2>7. Safe(log[n], c, currentTerm[n], Ld, Lg, A)
    BY DEF CommitInv
  <2>8. Safe(applied'[n], c, currentTerm[n], Ld, Lg, A)
    <3>1. HistoryLogs(Ld, Lg, A)
      BY DEF HistoryOK, HistoryLogs
    <3>2. c <= c
      BY <2>1
    <3> HIDE DEF c
    <3> QED BY <2>1, <2>6, <2>7, <3>1, <3>2, SafeAgrees
  <2>9. ASSUME NEW p \in Server
        PROVE  /\ Safe(log[p], commitIndex[p], currentTerm[p], Ld, Lg, A)
               /\ Safe(applied'[p], Len(applied'[p]), currentTerm[p], Ld, Lg, A)
               /\ Agree(applied'[p], log[p], Len(applied'[p]))
    <3>1. CASE p = n
      BY <2>4, <2>6, <2>7, <2>8, <3>1
    <3>2. CASE p # n
      BY <1>0, <3>2 DEF CommitInv
    <3> QED BY <3>1, <3>2
  <2> QED BY <1>0, <2>9 DEF CommitInv
<1> QED BY <1>1, <1>2, <1>3, <1>4 DEF HistoryOK

-----------------------------------------------------------------------------
(* Elections *)

\* Node n has just become the leader of its term, and the history does not say so yet.
NearlyExplains(n, V, Ld, Lg, K, A) ==
    /\ HistoryOK(V, Ld, Lg, K, A)
    /\ VoteInv(V) /\ LogInv(Ld, Lg) /\ CandidateInv(Ld, Lg, K) /\ AppendInv(Ld, Lg)
    /\ KeepInv(V, Ld, Lg, K, A) /\ CommitInv(Ld, Lg, A)
    /\ role[n] = Leader /\ log[n] = K[n][currentTerm[n]] /\ Ld[currentTerm[n]] # n
    /\ \A t \in Nat : Ld[t] # None => HasMajority(Voters(V, t, Ld[t])) /\ t <= currentTerm[Ld[t]]
    /\ \A l \in Server \ {n} : role[l] = Leader => Ld[currentTerm[l]] = l /\ log[l] = Lg[currentTerm[l]]
    /\ \A c \in Server : role[c] = Candidate => Ld[currentTerm[c]] # c
    /\ \A v \in Server, t \in Nat : A[v][t] > 0 =>
          /\ Ld[t] # None /\ t <= currentTerm[v] /\ A[v][t] <= Len(Lg[t])
          /\ t = currentTerm[v] => Agree(log[v], Lg[t], A[v][t])
    /\ \A m \in msgs : m.type = "AppendEntriesResponse" /\ m.granted => m.match <= A[m.src][m.term]
    /\ \A l \in Server \ {n} : role[l] = Leader => A[l][currentTerm[l]] = Len(log[l])
    /\ \A l \in Server \ {n}, p \in Server :
          IF role[l] = Leader THEN p # l => matchIndex[l][p] <= A[p][currentTerm[l]] ELSE matchIndex[l][p] = 0
    /\ \A p \in Server : matchIndex[n][p] = 0

\* It is the only leader of that term, and by its voters it has all that is choosable.
LEMMA NewLeaderExplained ==
    ASSUME StateOK', MessagesOK', NEW n \in Server,
           NEW V, NEW Ld, NEW Lg, NEW K, NEW A, NearlyExplains(n, V, Ld, Lg, K, A)'
    PROVE  \E Ld2, Lg2, A2 : Explains(V, Ld2, Lg2, K, A2)'
<1>a. /\ HistoryOK(V, Ld, Lg, K, A)
      /\ VoteInv(V)' /\ LogInv(Ld, Lg)' /\ CandidateInv(Ld, Lg, K)' /\ AppendInv(Ld, Lg)'
      /\ KeepInv(V, Ld, Lg, K, A)' /\ CommitInv(Ld, Lg, A)'
  BY DEF NearlyExplains, HistoryOK
<1>b. /\ role'[n] = Leader /\ log'[n] = K[n][currentTerm'[n]] /\ Ld[currentTerm'[n]] # n
      /\ \A p \in Server : matchIndex'[n][p] = 0
  BY DEF NearlyExplains
<1>d. /\ \A u \in Nat : Ld[u] # None => HasMajority(Voters(V, u, Ld[u])) /\ u <= currentTerm'[Ld[u]]
      /\ \A l \in Server \ {n} : role'[l] = Leader =>
            /\ Ld[currentTerm'[l]] = l /\ log'[l] = Lg[currentTerm'[l]]
            /\ A[l][currentTerm'[l]] = Len(log'[l])
      /\ \A c \in Server : role'[c] = Candidate => Ld[currentTerm'[c]] # c
  BY DEF NearlyExplains, Voters
<1>e. /\ \A v \in Server, u \in Nat : A[v][u] > 0 =>
            /\ Ld[u] # None /\ u <= currentTerm'[v] /\ A[v][u] <= Len(Lg[u])
            /\ u = currentTerm'[v] => Agree(log'[v], Lg[u], A[v][u])
      /\ \A m \in msgs' : m.type = "AppendEntriesResponse" /\ m.granted => m.match <= A[m.src][m.term]
      /\ \A l \in Server \ {n}, p \in Server :
            IF role'[l] = Leader THEN p # l => matchIndex'[l][p] <= A[p][currentTerm'[l]]
                                 ELSE matchIndex'[l][p] = 0
  BY DEF NearlyExplains
<1>t. PICK t \in Nat : t = currentTerm'[n]
  BY DEF StateOK
<1>lg. PICK lg \in Logs : lg = log'[n]
  BY DEF StateOK
<1>Q. PICK Q : Q = votesReceived'[n]
  OBVIOUS
<1>1. t \in Nat /\ lg \in Logs /\ Len(lg) \in Nat /\ lg = K[n][t] /\ t = currentTerm'[n] /\ lg = log'[n]
  BY <1>b, <1>t, <1>lg, LogFacts
<1>2. (\A i \in 1..Len(lg) : lg[i].term < t) /\ Good(lg, Ld, Lg)
  BY <1>1, <1>a DEF CandidateInv
<1>3. Q \in SUBSET Server /\ HasMajority(Q) /\ \A v \in Q : V[v][t] = n
  BY <1>1, <1>a, <1>b, <1>Q DEF VoteInv, StateOK, Leader, Follower
<1>4. Ld[t] = None
  <2> SUFFICES ASSUME Ld[t] # None PROVE FALSE
    OBVIOUS
  <2>1. HasMajority(Voters(V, t, Ld[t])) /\ Voters(V, t, Ld[t]) \in SUBSET Server
    BY <1>1, <1>d DEF Voters
  <2>2. \E v \in Q : v \in Voters(V, t, Ld[t])
    BY <1>3, <2>1, QuorumsMeet
  <2>3. Ld[t] = n
    BY <1>3, <2>2 DEF Voters
  <2> QED BY <1>1, <1>b, <2>3
<1>5. \A v \in Server : A[v][t] = 0
  <2>1. \A v \in Server : A[v][t] \in Nat
    BY <1>1, <1>a DEF HistoryOK
  <2> QED BY <1>1, <1>4, <1>e, <2>1
<1>p. PICK Ld2 : /\ Ld2 \in [Nat -> Server \cup {None}] /\ Ld2[t] = n
                 /\ \A u \in Nat \ {t} : Ld2[u] = Ld[u]
  <2> DEFINE D == [Ld EXCEPT ![t] = n]
  <2>1. D \in [Nat -> Server \cup {None}] /\ D[t] = n /\ \A u \in Nat \ {t} : D[u] = Ld[u]
    BY <1>1, <1>a DEF HistoryOK
  <2> HIDE DEF D
  <2> QED BY <2>1
<1>q. PICK Lg2 : Lg2 \in [Nat -> Logs] /\ Lg2[t] = lg /\ \A u \in Nat \ {t} : Lg2[u] = Lg[u]
  <2> DEFINE G == [Lg EXCEPT ![t] = lg]
  <2>1. G \in [Nat -> Logs] /\ G[t] = lg /\ \A u \in Nat \ {t} : G[u] = Lg[u]
    BY <1>1, <1>a DEF HistoryOK
  <2> HIDE DEF G
  <2> QED BY <2>1
<1>r. PICK A2 : /\ A2 \in [Server -> [Nat -> Nat]] /\ A2[n][t] = Len(lg)
                /\ \A v \in Server, u \in Nat : u # t \/ v # n => A2[v][u] = A[v][u]
  <2> DEFINE B == [A EXCEPT ![n] = [A[n] EXCEPT ![t] = Len(lg)]]
  <2>1. A[n] \in [Nat -> Nat]
    BY <1>a DEF HistoryOK
  <2>2. /\ B \in [Server -> [Nat -> Nat]] /\ B[n][t] = Len(lg)
        /\ \A v \in Server, u \in Nat : u # t \/ v # n => B[v][u] = A[v][u]
    BY <1>1, <1>a, <2>1 DEF HistoryOK
  <2> HIDE DEF B
  <2> QED BY <2>2
<1>6. /\ Ld2 \in [Nat -> Server \cup {None}] /\ Lg2 \in [Nat -> Logs] /\ A2 \in [Server -> [Nat -> Nat]]
      /\ Ld2[t] = n /\ Lg2[t] = lg /\ A2[n][t] = Len(lg)
      /\ \A u \in Nat \ {t} : Ld2[u] = Ld[u] /\ Lg2[u] = Lg[u] /\ \A v \in Server : A2[v][u] = A[v][u]
      /\ \A v \in Server \ {n} : A2[v][t] = A[v][t]
  BY <1>p, <1>q, <1>r
<1>7. HistoryOK(V, Ld2, Lg2, K, A2) /\ HistoryLogs(Ld, Lg, A) /\ HistoryLogs(Ld2, Lg2, A2)
  BY <1>6, <1>a DEF HistoryOK, HistoryLogs
<1>8. Grows(Ld, Lg, A, Ld2, Lg2, A2)
  <2>1. \A u \in Nat : Ld[u] # None => Ld2[u] = Ld[u] /\ Agree(Lg2[u], Lg[u], Len(Lg[u]))
    <3>1. \A u \in Nat : Agree(Lg[u], Lg[u], Len(Lg[u]))
      <4>1. \A u \in Nat : Lg[u] \in Logs
        BY <1>7 DEF HistoryLogs
      <4>2. \A x \in Logs : Len(x) \in Nat /\ Agree(x, x, Len(x))
        BY LogFacts, AgreeReflexive
      <4> QED BY <4>1, <4>2
    <3> QED BY <1>4, <1>6, <3>1
  <2>2. \A v \in Server, u \in Nat : A[v][u] \in Nat
    BY <1>7 DEF HistoryLogs
  <2>3. ASSUME NEW v \in Server, NEW u \in Nat PROVE A[v][u] <= A2[v][u]
    <3>1. CASE u = t /\ v = n
      <4>1. A[v][u] = 0 /\ A2[v][u] = Len(lg)
        BY <1>5, <1>6, <3>1
      <4> QED BY <1>1, <4>1
    <3>2. CASE u # t \/ v # n
      <4>1. A2[v][u] = A[v][u]
        BY <1>6, <3>2
      <4> QED BY <2>2, <4>1
    <3> QED BY <3>1, <3>2
  <2> QED BY <2>1, <2>3 DEF Grows
<1>g. \A x \in Logs : Good(x, Ld, Lg) => Good(x, Ld2, Lg2)
  BY <1>7, <1>8, GoodGrows
<1>c. \A p \in Server : currentTerm'[p] \in Nat /\ log'[p] \in Logs
  BY DEF StateOK
<1>n. n # None /\ \A c \in Server : c # None
  BY NoneAssumption
<1>l. \A l \in Server \ {n} : role'[l] = Leader => currentTerm'[l] \in Nat \ {t}
  BY <1>1, <1>4, <1>c, <1>d, <1>n
<1>9. VoteInv(V)'
  BY <1>a
<1>10. LeaderInv(V, Ld2, Lg2)'
  <2>1. HasMajority(Voters(V, t, n))
    <3>1. Q \subseteq Voters(V, t, n) /\ Voters(V, t, n) \in SUBSET Server
      BY <1>3 DEF Voters
    <3> QED BY <1>3, <3>1, QuorumGrows
  <2>2. ASSUME NEW u \in Nat, Ld2[u] # None
        PROVE  HasMajority(Voters(V, u, Ld2[u])) /\ u <= currentTerm'[Ld2[u]]
    <3>1. CASE u = t
      BY <1>1, <1>6, <2>1, <3>1
    <3>2. CASE u # t
      BY <1>6, <1>d, <2>2, <3>2
    <3> QED BY <3>1, <3>2
  <2>3. ASSUME NEW l \in Server, role'[l] = Leader
        PROVE  Ld2[currentTerm'[l]] = l /\ log'[l] = Lg2[currentTerm'[l]]
    <3>1. CASE l = n
      BY <1>1, <1>6, <3>1
    <3>2. CASE l # n
      BY <1>6, <1>d, <1>l, <2>3, <3>2
    <3> QED BY <3>1, <3>2
  <2>4. ASSUME NEW c \in Server, role'[c] = Candidate
        PROVE  Ld2[currentTerm'[c]] # c
    <3>1. c # n
      BY <1>b, <2>4 DEF Candidate, Leader
    <3>2. CASE currentTerm'[c] = t
      BY <1>6, <3>1, <3>2
    <3>3. CASE currentTerm'[c] # t
      BY <1>6, <1>c, <1>d, <2>4, <3>3
    <3> QED BY <3>2, <3>3
  <2> QED BY <2>2, <2>3, <2>4 DEF LeaderInv, Voters
<1>11. LogInv(Ld2, Lg2)'
  <2>1. \A p \in Server : Good(log'[p], Ld2, Lg2) /\ TermsUpTo(log'[p], currentTerm'[p])
    BY <1>a, <1>g, <1>c DEF LogInv
  <2>2. ASSUME NEW u \in Nat, Ld2[u] # None
        PROVE  Good(Lg2[u], Ld2, Lg2) /\ TermsUpTo(Lg2[u], u)
    <3>1. CASE u = t
      <4>1. TermsUpTo(lg, t)
        BY <1>1, <1>2, LogFacts DEF TermsUpTo
      <4> QED BY <1>1, <1>2, <1>6, <1>g, <3>1, <4>1
    <3>2. CASE u # t
      <4>1. Good(Lg[u], Ld, Lg) /\ TermsUpTo(Lg[u], u) /\ Lg[u] \in Logs
        BY <1>6, <1>7, <1>a, <2>2, <3>2 DEF LogInv, HistoryLogs
      <4> QED BY <1>6, <1>g, <3>2, <4>1
    <3> QED BY <3>1, <3>2
  <2> QED BY <2>1, <2>2 DEF LogInv
<1>12. CandidateInv(Ld2, Lg2, K)'
  <2>1. \A c \in Server, u \in Nat : K[c][u] \in Logs
    BY <1>a DEF HistoryOK
  <2>2. \A c \in Server, u \in Nat : Good(K[c][u], Ld2, Lg2)
    BY <1>a, <1>g, <2>1 DEF CandidateInv
  <2> QED BY <1>a, <2>2 DEF CandidateInv
<1>m. \A m \in msgs' : m.type = "AppendEntries" => m.term \in Nat \ {t} /\ Lg2[m.term] = Lg[m.term]
  <2>1. \A m \in msgs' : m.type = "AppendEntries" => m.term \in Nat /\ m.src \in Server
    BY DEF MessagesOK, Message
  <2>2. \A m \in msgs' : m.type = "AppendEntries" => Ld[m.term] = m.src
    BY <1>a DEF AppendInv
  <2> QED BY <1>4, <1>6, <1>n, <2>1, <2>2
<1>13. AppendInv(Ld2, Lg2)'
  <2>1. ASSUME NEW m \in msgs', m.type = "AppendEntries" PROVE Ld2[m.term] = Ld[m.term]
    BY <1>6, <1>m, <2>1
  <2> QED BY <1>a, <1>m, <2>1 DEF AppendInv
<1>14. AckInv(Ld2, Lg2, A2)'
  <2>0. \A v \in Server, u \in Nat : A[v][u] \in Nat
    BY <1>7 DEF HistoryLogs
  <2>1. ASSUME NEW v \in Server, NEW u \in Nat, A2[v][u] > 0
        PROVE  /\ Ld2[u] # None /\ u <= currentTerm'[v] /\ A2[v][u] <= Len(Lg2[u])
               /\ u = currentTerm'[v] => Agree(log'[v], Lg2[u], A2[v][u])
    <3>1. CASE u = t /\ v = n
      <4>1. Agree(lg, lg, Len(lg))
        BY <1>1, AgreeReflexive
      <4>2. Ld2[t] # None /\ t <= t /\ Len(lg) <= Len(lg)
        BY <1>1, <1>6, <1>n
      <4> QED BY <1>1, <1>6, <3>1, <4>1, <4>2
    <3>2. CASE u = t /\ v # n
      <4>1. A2[v][u] = 0
        BY <1>5, <1>6, <3>2
      <4> QED BY <2>1, <4>1
    <3>3. CASE u # t
      <4>1. A2[v][u] = A[v][u] /\ Ld2[u] = Ld[u] /\ Lg2[u] = Lg[u]
        BY <1>6, <3>3
      <4> QED BY <1>e, <2>1, <4>1
    <3> QED BY <3>1, <3>2, <3>3
  <2>2. ASSUME NEW m \in msgs', m.type = "AppendEntriesResponse", m.granted
        PROVE  m.match <= A2[m.src][m.term]
    <3>1. m.src \in Server /\ m.term \in Nat /\ m.match \in Nat
      BY <2>2 DEF MessagesOK, Message
    <3>2. m.match <= A[m.src][m.term]
      BY <1>e, <2>2
    <3>3. A[m.src][m.term] \in Nat /\ A2[m.src][m.term] \in Nat /\ A[m.src][m.term] <= A2[m.src][m.term]
      BY <1>7, <1>8, <3>1 DEF HistoryLogs, Grows
    <3> QED BY <3>1, <3>2, <3>3
  <2>3. ASSUME NEW l \in Server, role'[l] = Leader
        PROVE  A2[l][currentTerm'[l]] = Len(log'[l])
    <3>1. CASE l = n
      BY <1>1, <1>6, <3>1
    <3>2. CASE l # n
      BY <1>6, <1>d, <1>l, <2>3, <3>2
    <3> QED BY <3>1, <3>2
  <2>4. ASSUME NEW l \in Server, NEW p \in Server
        PROVE  IF role'[l] = Leader THEN p # l => matchIndex'[l][p] <= A2[p][currentTerm'[l]]
                                    ELSE matchIndex'[l][p] = 0
    <3>1. CASE l = n
      <4>1. 0 <= A2[p][t]
        <5>1. A2[p][t] \in Nat
          BY <1>6
        <5> QED BY <5>1
      <4> QED BY <1>1, <1>b, <3>1, <4>1
    <3>2. CASE l # n
      BY <1>6, <1>e, <1>l, <3>2
    <3> QED BY <3>1, <3>2
  <2> QED BY <2>1, <2>2, <2>3, <2>4 DEF AckInv
<1>15. KeepInv(V, Ld2, Lg2, K, A2)'
  <2> SUFFICES ASSUME NEW u \in Nat, NEW i \in Nat, Choosable(Ld2, Lg2, A2, u, i)'
               PROVE  /\ \A v \in Server : A2[v][u] >= i => Agree(log'[v], Lg2[u], i)
                      /\ \A v \in Server, w \in Nat :
                            u < w /\ V[v][w] # None /\ A2[v][u] >= i => Agree(K[V[v][w]][w], Lg2[u], i)
                      /\ \A w \in Nat : u < w /\ Ld2[w] # None => Agree(Lg2[w], Lg2[u], i)
    BY DEF KeepInv
  <2>1. u # t
    <3> SUFFICES ASSUME u = t PROVE FALSE
      OBVIOUS
    <3>1. i \in 1..Len(lg) /\ lg[i].term = t
      BY <1>6 DEF Choosable
    <3>2. lg[i].term < t
      BY <1>2, <3>1
    <3> QED BY <1>1, <3>1, <3>2
  <2>2. Ld2[u] = Ld[u] /\ Lg2[u] = Lg[u] /\ \A v \in Server : A2[v][u] = A[v][u]
    BY <1>6, <2>1
  <2> DEFINE P == {v \in Server : A[v][u] >= i \/ currentTerm'[v] <= u}
  <2>3. P \in SUBSET Server /\ HasMajority(P) /\ Choosable(Ld, Lg, A, u, i)'
    <3>1. {v \in Server : A2[v][u] >= i \/ currentTerm'[v] <= u} = P
      BY <2>2
    <3> QED BY <2>2, <3>1 DEF Choosable
  <2>4. /\ \A v \in Server : A[v][u] >= i => Agree(log'[v], Lg[u], i)
        /\ \A v \in Server, w \in Nat :
              u < w /\ V[v][w] # None /\ A[v][u] >= i => Agree(K[V[v][w]][w], Lg[u], i)
        /\ \A w \in Nat : u < w /\ Ld[w] # None => Agree(Lg[w], Lg[u], i)
    BY <1>a, <2>3 DEF KeepInv
  <2>5. ASSUME u < t PROVE Agree(lg, Lg[u], i)
    <3>1. PICK v \in P : v \in Q
      BY <1>3, <2>3, QuorumsMeet
    <3>2. v \in Server /\ V[v][t] = n /\ V[v][t] # None
      BY <1>3, <1>n, <3>1
    <3>3. t <= currentTerm'[v]
      BY <1>1, <1>a, <3>2 DEF VoteInv
    <3>4. A[v][u] >= i
      <4>1. currentTerm'[v] \in Nat
        BY <1>c, <3>2
      <4> QED BY <1>1, <2>5, <3>1, <3>3, <4>1
    <3> QED BY <1>1, <2>4, <2>5, <3>2, <3>4
  <2>6. ASSUME NEW w \in Nat, u < w, Ld2[w] # None
        PROVE  Agree(Lg2[w], Lg2[u], i)
    <3>1. CASE w = t
      BY <1>6, <2>2, <2>5, <2>6, <3>1
    <3>2. CASE w # t
      BY <1>6, <2>2, <2>4, <2>6, <3>2
    <3> QED BY <3>1, <3>2
  <2> QED BY <2>2, <2>4, <2>6
<1>16. CommitInv(Ld2, Lg2, A2)'
  <2>1. ASSUME NEW p \in Server
        PROVE  /\ Safe(log'[p], commitIndex'[p], currentTerm'[p], Ld2, Lg2, A2)
               /\ Safe(applied'[p], Len(applied'[p]), currentTerm'[p], Ld2, Lg2, A2)
               /\ Agree(applied'[p], log'[p], Len(applied'[p]))
    <3>1. /\ log'[p] \in Logs /\ applied'[p] \in Logs /\ commitIndex'[p] \in Nat /\ Len(applied'[p]) \in Nat
          /\ currentTerm'[p] \in Nat /\ currentTerm'[p] <= currentTerm'[p]
      BY LogFacts DEF StateOK
    <3>2. /\ Safe(log'[p], commitIndex'[p], currentTerm'[p], Ld, Lg, A)
          /\ Safe(applied'[p], Len(applied'[p]), currentTerm'[p], Ld, Lg, A)
          /\ Agree(applied'[p], log'[p], Len(applied'[p]))
      BY <1>a DEF CommitInv
    <3> QED BY <1>7, <1>8, <3>1, <3>2, SafeGrows
  <2>2. ASSUME NEW m \in msgs', m.type = "AppendEntries"
        PROVE  Safe(Lg2[m.term], m.commit, m.term, Ld2, Lg2, A2)
    <3>1. m.commit \in Nat /\ m.term \in Nat
      BY <2>2 DEF MessagesOK, Message
    <3>2. Safe(Lg[m.term], m.commit, m.term, Ld, Lg, A)
      BY <1>a, <2>2 DEF CommitInv
    <3>3. Lg[m.term] \in Logs /\ m.term <= m.term
      BY <1>7, <3>1 DEF HistoryLogs
    <3> QED BY <1>7, <1>8, <1>m, <2>2, <3>1, <3>2, <3>3, SafeGrows
  <2> QED BY <2>1, <2>2 DEF CommitInv
<1>17. Explains(V, Ld2, Lg2, K, A2)'
  BY <1>7, <1>9, <1>10, <1>11, <1>12, <1>13, <1>14, <1>15, <1>16 DEF Explains, HistoryOK
<1> QED BY <1>17

LEMMA VoteResponseExplained ==
    ASSUME StateOK, StateOK', MessagesOK, MessagesOK',
           NEW n \in Server, NEW m \in msgs, HandleRequestVoteResponse(n, m),
           NEW V, NEW Ld, NEW Lg, NEW K, NEW A, Explains(V, Ld, Lg, K, A)
    PROVE  \E V2, Ld2, Lg2, K2, A2 : Explains(V2, Ld2, Lg2, K2, A2)'
<1>0. m.type = "RequestVoteResponse" /\ m.dst = n /\ m.term \in Nat /\ m.src \in Server /\ msgs' \subseteq msgs
  <2>1. m.type = "RequestVoteResponse" /\ m.dst \in {n, None} /\ msgs' \subseteq msgs
    BY DEF HandleRequestVoteResponse, Receives, Deliver
  <2> QED BY <2>1, MessageFacts, NoneAssumption
<1>1. CASE m.term > currentTerm[n] /\ AdvanceTerm(n, m.term)
  <2>1. OnlyRefusals
    BY <1>0 DEF OnlyRefusals
  <2>2. Explains(V, Ld, Lg, K, A)'
    BY <1>0, <1>1, <2>1, AdvanceTermExplained
  <2> QED BY <2>2
<1>2. CASE ~(m.term > currentTerm[n] /\ AdvanceTerm(n, m.term))
  <2>1. /\ m.term = currentTerm[n] /\ role[n] = Candidate /\ m.granted
        /\ votesReceived' = [votesReceived EXCEPT ![n] = votesReceived[n] \cup {m.src}]
        /\ IF HasMajority(votesReceived[n] \cup {m.src}) THEN role' = [role EXCEPT ![n] = Leader]
                                                          ELSE UNCHANGED role
        /\ UNCHANGED <<currentTerm, votedFor, log, applied, commitIndex, matchIndex>>
    BY <1>2 DEF HandleRequestVoteResponse, durable
  <2>2. /\ votesReceived'[n] = votesReceived[n] \cup {m.src} /\ role'[n] \in {Candidate, Leader}
        /\ role'[n] = Leader => HasMajority(votesReceived'[n])
        /\ \A p \in Server \ {n} : role'[p] = role[p] /\ votesReceived'[p] = votesReceived[p]
    BY <2>1 DEF StateOK, Candidate, Leader
  <2>f. Follower # Candidate /\ Follower # Leader /\ Candidate # Leader
    BY DEF Follower, Candidate, Leader
  <2>x. /\ VoteInv(V) /\ LeaderInv(V, Ld, Lg) /\ LogInv(Ld, Lg) /\ CandidateInv(Ld, Lg, K)
        /\ AppendInv(Ld, Lg) /\ AckInv(Ld, Lg, A) /\ KeepInv(V, Ld, Lg, K, A) /\ CommitInv(Ld, Lg, A)
        /\ HistoryOK(V, Ld, Lg, K, A)
    BY DEF Explains
  <2>3. VoteInv(V)'
    <3>1. ASSUME NEW c \in Server, role'[c] # Follower
          PROVE  /\ votedFor[c] = c /\ \A v \in votesReceived'[c] : V[v][currentTerm[c]] = c
                 /\ role'[c] = Leader => HasMajority(votesReceived'[c])
      <4>1. CASE c = n
        <5>1. V[m.src][currentTerm[n]] = n
          BY <1>0, <2>1, <2>x DEF VoteInv
        <5>2. votedFor[n] = n /\ \A v \in votesReceived[n] : V[v][currentTerm[n]] = n
          BY <2>1, <2>f, <2>x DEF VoteInv
        <5> QED BY <2>2, <4>1, <5>1, <5>2
      <4>2. CASE c # n
        BY <2>2, <2>x, <3>1, <4>2 DEF VoteInv
      <4> QED BY <4>1, <4>2
    <3> QED BY <1>0, <2>1, <2>f, <2>x, <3>1 DEF VoteInv
  <2>4. LogInv(Ld, Lg)' /\ AppendInv(Ld, Lg)' /\ CommitInv(Ld, Lg, A)'
    BY <1>0, <2>1, <2>x DEF LogInv, AppendInv, CommitInv
  <2>5. CandidateInv(Ld, Lg, K)'
    <3>1. \A c \in Server : role'[c] = Candidate => role[c] = Candidate
      BY <2>1, <2>2
    <3> QED BY <1>0, <2>1, <2>x, <3>1 DEF CandidateInv
  <2>6. KeepInv(V, Ld, Lg, K, A)'
    <3>1. \A v \in Server : currentTerm[v] <= currentTerm'[v]
      BY <2>1 DEF StateOK
    <3> QED BY <2>1, <2>x, <3>1, KeepStable
  <2>7. CASE role'[n] = Candidate
    <3>1. role' = role
      BY <2>1, <2>2, <2>7, <2>f DEF StateOK
    <3>2. LeaderInv(V, Ld, Lg)' /\ AckInv(Ld, Lg, A)'
      BY <1>0, <2>1, <2>x, <3>1 DEF LeaderInv, AckInv
    <3>3. Explains(V, Ld, Lg, K, A)'
      BY <2>3, <2>4, <2>5, <2>6, <2>x, <3>2 DEF Explains, HistoryOK
    <3> QED BY <3>3
  <2>8. CASE role'[n] = Leader
    <3>1. NearlyExplains(n, V, Ld, Lg, K, A)'
      <4>1. HistoryOK(V, Ld, Lg, K, A)'
        BY <2>x DEF HistoryOK
      <4>2. role'[n] = Leader /\ log'[n] = K[n][currentTerm'[n]] /\ Ld[currentTerm'[n]] # n
        BY <2>1, <2>8, <2>x DEF CandidateInv, LeaderInv
      <4>3. /\ \A u \in Nat : Ld[u] # None => HasMajority(Voters(V, u, Ld[u])) /\ u <= currentTerm'[Ld[u]]
            /\ \A l \in Server \ {n} : role'[l] = Leader =>
                  Ld[currentTerm'[l]] = l /\ log'[l] = Lg[currentTerm'[l]]
            /\ \A c \in Server : role'[c] = Candidate => Ld[currentTerm'[c]] # c
        BY <2>1, <2>2, <2>8, <2>f, <2>x DEF LeaderInv
      <4>4. /\ \A v \in Server, u \in Nat : A[v][u] > 0 =>
                  /\ Ld[u] # None /\ u <= currentTerm'[v] /\ A[v][u] <= Len(Lg[u])
                  /\ u = currentTerm'[v] => Agree(log'[v], Lg[u], A[v][u])
            /\ \A x \in msgs' : x.type = "AppendEntriesResponse" /\ x.granted => x.match <= A[x.src][x.term]
            /\ \A l \in Server \ {n} : role'[l] = Leader => A[l][currentTerm'[l]] = Len(log'[l])
            /\ \A l \in Server \ {n}, p \in Server :
                  IF role'[l] = Leader THEN p # l => matchIndex'[l][p] <= A[p][currentTerm'[l]]
                                       ELSE matchIndex'[l][p] = 0
        BY <1>0, <2>1, <2>2, <2>x DEF AckInv
      <4>5. \A p \in Server : matchIndex'[n][p] = 0
        BY <2>1, <2>f, <2>x DEF AckInv
      <4> QED BY <2>3, <2>4, <2>5, <2>6, <4>1, <4>2, <4>3, <4>4, <4>5 DEF NearlyExplains, Voters
    <3> QED BY <3>1, NewLeaderExplained
  <2> QED BY <2>2, <2>7, <2>8
<1> QED BY <1>1, <1>2

\* A new term of n is above all that n has voted and led in.
LEMMA StartElectionExplained ==
    ASSUME StateOK, StateOK', MessagesOK, MessagesOK', NEW n \in Server, StartElection(n),
           NEW V, NEW Ld, NEW Lg, NEW K, NEW A, Explains(V, Ld, Lg, K, A)
    PROVE  \E V2, Ld2, Lg2, K2, A2 : Explains(V2, Ld2, Lg2, K2, A2)'
<1>x. /\ VoteInv(V) /\ LeaderInv(V, Ld, Lg) /\ LogInv(Ld, Lg) /\ CandidateInv(Ld, Lg, K)
      /\ AppendInv(Ld, Lg) /\ AckInv(Ld, Lg, A) /\ KeepInv(V, Ld, Lg, K, A) /\ CommitInv(Ld, Lg, A)
      /\ HistoryOK(V, Ld, Lg, K, A)
  BY DEF Explains
<1>t. PICK t \in Nat : t = currentTerm[n] + 1
  BY DEF StateOK
<1>lg. PICK lg \in Logs : lg = log[n]
  BY DEF StateOK
<1>r. PICK r : r = [type |-> "RequestVote", term |-> t, src |-> n, dst |-> None,
                    lastIndex |-> LastIndex(lg), lastTerm |-> LastTerm(lg)]
  OBVIOUS
<1>rf. /\ r.type = "RequestVote" /\ r.term = t /\ r.src = n
       /\ r.lastIndex = Len(lg) /\ r.lastTerm = LastTerm(lg)
  BY <1>r DEF LastIndex
<1>f. Follower # Candidate /\ Follower # Leader /\ Candidate # Leader
  BY DEF Follower, Candidate, Leader
<1>n. n # None /\ \A c \in Server : c # None
  BY NoneAssumption
<1>0. /\ role[n] # Leader /\ UNCHANGED <<log, applied, commitIndex, matchIndex>>
      /\ currentTerm'[n] = t /\ votedFor'[n] = n /\ votesReceived'[n] = {n}
      /\ \A p \in Server \ {n} : /\ currentTerm'[p] = currentTerm[p] /\ votedFor'[p] = votedFor[p]
                                 /\ role'[p] = role[p] /\ votesReceived'[p] = votesReceived[p]
      /\ role'[n] \in {Candidate, Leader} /\ (role'[n] = Leader => HasMajority({n}))
      /\ \A m \in msgs' : m \in msgs \/ m = r
  <2>1. /\ role[n] # Leader /\ UNCHANGED <<log, applied, commitIndex, matchIndex>>
        /\ currentTerm' = [currentTerm EXCEPT ![n] = t] /\ votedFor' = [votedFor EXCEPT ![n] = n]
        /\ votesReceived' = [votesReceived EXCEPT ![n] = {n}]
    BY <1>t DEF StartElection, PersistTermAndVote
  <2>2. \/ HasMajority({n}) /\ role' = [role EXCEPT ![n] = Leader] /\ msgs' = msgs
        \/ role' = [role EXCEPT ![n] = Candidate] /\ msgs' = msgs \cup {r}
    BY <1>t, <1>lg, <1>r DEF StartElection, Send
  <2> QED BY <1>f, <2>1, <2>2 DEF StateOK
<1>c. /\ \A v \in Server : /\ currentTerm[v] \in Nat /\ currentTerm'[v] \in Nat /\ currentTerm[v] <= currentTerm'[v]
      /\ currentTerm[n] < t
  BY <1>t, <1>0 DEF StateOK
<1>h. HistoryLogs(Ld, Lg, A) /\ Grows(Ld, Lg, A, Ld, Lg, A)
  BY <1>x, GrowsReflexive DEF HistoryOK, HistoryLogs
<1>1. V[n][t] = None /\ (\A v \in Server : V[v][t] # n) /\ Ld[t] # n
  BY <1>x, <1>c, <1>n DEF VoteInv, LeaderInv
<1>V. PICK V2 : /\ V2 \in [Server -> [Nat -> Server \cup {None}]] /\ V2[n][t] = n
                /\ \A v \in Server, u \in Nat : u # t \/ v # n => V2[v][u] = V[v][u]
  <2> DEFINE W == [V EXCEPT ![n] = [V[n] EXCEPT ![t] = n]]
  <2>1. V[n] \in [Nat -> Server \cup {None}]
    BY <1>x DEF HistoryOK
  <2>2. /\ W \in [Server -> [Nat -> Server \cup {None}]] /\ W[n][t] = n
        /\ \A v \in Server, u \in Nat : u # t \/ v # n => W[v][u] = V[v][u]
    BY <1>x, <2>1 DEF HistoryOK
  <2> HIDE DEF W
  <2> QED BY <2>2
<1>K. PICK K2 : /\ K2 \in [Server -> [Nat -> Logs]] /\ K2[n][t] = lg
                /\ \A v \in Server, u \in Nat : u # t \/ v # n => K2[v][u] = K[v][u]
  <2> DEFINE W == [K EXCEPT ![n] = [K[n] EXCEPT ![t] = lg]]
  <2>1. K[n] \in [Nat -> Logs]
    BY <1>x DEF HistoryOK
  <2>2. /\ W \in [Server -> [Nat -> Logs]] /\ W[n][t] = lg
        /\ \A v \in Server, u \in Nat : u # t \/ v # n => W[v][u] = K[v][u]
    BY <1>x, <2>1 DEF HistoryOK
  <2> HIDE DEF W
  <2> QED BY <2>2
<1>2. HistoryOK(V2, Ld, Lg, K2, A)
  BY <1>x, <1>V, <1>K DEF HistoryOK
<1>m. \A m \in msgs : m.term \in Nat /\ m.src \in Server
  BY MessageFacts
<1>3. VoteInv(V2)'
  <2>1. ASSUME NEW v \in Server, NEW u \in Nat, V2[v][u] # None
        PROVE  /\ u <= currentTerm'[v] /\ u <= currentTerm'[V2[v][u]]
               /\ u = currentTerm'[v] => votedFor'[v] = V2[v][u]
    <3>1. CASE u = t /\ v = n
      BY <1>0, <1>V, <3>1
    <3>2. CASE u # t \/ v # n
      <4>1. V2[v][u] = V[v][u] /\ V[v][u] \in Server
        BY <1>V, <1>x, <2>1, <3>2 DEF HistoryOK
      <4>2. /\ u <= currentTerm[v] /\ u <= currentTerm[V[v][u]]
            /\ u = currentTerm[v] => votedFor[v] = V[v][u]
        BY <1>x, <2>1, <4>1 DEF VoteInv
      <4>3. u = currentTerm'[v] => v # n
        BY <1>0, <3>2
      <4> QED BY <1>0, <1>c, <4>1, <4>2, <4>3
    <3> QED BY <3>1, <3>2
  <2>2. ASSUME NEW c \in Server, role'[c] # Follower
        PROVE  /\ votedFor'[c] = c /\ \A v \in votesReceived'[c] : V2[v][currentTerm'[c]] = c
               /\ role'[c] = Leader => HasMajority(votesReceived'[c])
    <3>1. CASE c = n
      BY <1>0, <1>V, <3>1
    <3>2. CASE c # n
      <4>1. /\ role[c] # Follower /\ votedFor'[c] = votedFor[c] /\ votesReceived'[c] = votesReceived[c]
            /\ currentTerm'[c] = currentTerm[c] /\ role'[c] = role[c]
        BY <1>0, <2>2, <3>2
      <4>2. votedFor[c] = c /\ \A v \in votesReceived[c] : V[v][currentTerm[c]] = c
        BY <1>x, <4>1 DEF VoteInv
      <4>3. role[c] = Leader => HasMajority(votesReceived[c])
        BY <1>x DEF VoteInv
      <4>4. ASSUME NEW v \in votesReceived[c] PROVE V2[v][currentTerm[c]] = c
        <5>1. v \in Server /\ currentTerm[c] \in Nat
          BY DEF StateOK
        <5>2. V[v][currentTerm[c]] = c
          BY <4>2
        <5>3. currentTerm[c] # t \/ v # n
          BY <1>1, <1>n, <5>2
        <5> QED BY <1>V, <5>1, <5>2, <5>3
      <4> QED BY <4>1, <4>2, <4>3, <4>4
    <3> QED BY <3>1, <3>2
  <2>3. ASSUME NEW m \in msgs', m.type = "RequestVoteResponse", m.granted
        PROVE  V2[m.src][m.term] = m.dst
    <3>1. m \in msgs
      BY <1>0, <1>rf, <2>3
    <3>2. V[m.src][m.term] = m.dst /\ m.dst \in Server /\ m.src \in Server /\ m.term \in Nat
      BY <1>x, <2>3, <3>1, MessageFacts DEF VoteInv
    <3>3. m.term # t \/ m.src # n
      BY <1>1, <1>n, <3>2
    <3> QED BY <1>V, <3>2, <3>3
  <2> QED BY <1>f, <2>1, <2>2, <2>3 DEF VoteInv
<1>4. LogInv(Ld, Lg)'
  <2>1. ASSUME NEW p \in Server PROVE TermsUpTo(log[p], currentTerm'[p])
    <3>1. TermsUpTo(log[p], currentTerm[p]) /\ log[p] \in Logs
      BY <1>x DEF LogInv, StateOK
    <3> QED BY <1>c, <3>1, LogFacts DEF TermsUpTo
  <2> QED BY <1>0, <1>x, <2>1 DEF LogInv
<1>5. CandidateInv(Ld, Lg, K2)'
  <2>1. ASSUME NEW c \in Server, role'[c] = Candidate
        PROVE  log'[c] = K2[c][currentTerm'[c]]
    <3>1. CASE c = n
      BY <1>0, <1>lg, <1>K, <3>1
    <3>2. CASE c # n
      BY <1>0, <1>c, <1>x, <1>K, <2>1, <3>2 DEF CandidateInv
    <3> QED BY <3>1, <3>2
  <2>2. ASSUME NEW m \in msgs', m.type = "RequestVote"
        PROVE  /\ m.term <= currentTerm'[m.src]
               /\ m.lastIndex = Len(K2[m.src][m.term]) /\ m.lastTerm = LastTerm(K2[m.src][m.term])
    <3>1. CASE m = r
      BY <1>0, <1>rf, <1>K, <3>1
    <3>2. CASE m # r
      <4>1. m \in msgs /\ m.term \in Nat /\ m.src \in Server
        BY <1>0, <1>m, <3>2
      <4>2. /\ m.term <= currentTerm[m.src]
            /\ m.lastIndex = Len(K[m.src][m.term]) /\ m.lastTerm = LastTerm(K[m.src][m.term])
        BY <1>x, <2>2, <4>1 DEF CandidateInv
      <4>3. m.term # t \/ m.src # n
        BY <1>c, <4>1, <4>2
      <4>4. K2[m.src][m.term] = K[m.src][m.term]
        BY <1>K, <4>1, <4>3
      <4> QED BY <1>c, <4>1, <4>2, <4>4
    <3> QED BY <3>1, <3>2
  <2>3. ASSUME NEW c \in Server, NEW u \in Nat
        PROVE  Good(K2[c][u], Ld, Lg) /\ \A i \in 1..Len(K2[c][u]) : K2[c][u][i].term < u
    <3>1. CASE u = t /\ c = n
      <4>1. Good(lg, Ld, Lg) /\ TermsUpTo(lg, currentTerm[n])
        BY <1>x, <1>lg DEF LogInv
      <4>2. \A i \in 1..Len(lg) : lg[i].term < t
        BY <1>c, <4>1, LogFacts DEF TermsUpTo
      <4> QED BY <1>K, <3>1, <4>1, <4>2
    <3>2. CASE u # t \/ c # n
      <4>1. K2[c][u] = K[c][u]
        BY <1>K, <3>2
      <4> QED BY <1>x, <4>1 DEF CandidateInv
    <3> QED BY <3>1, <3>2
  <2> QED BY <2>1, <2>2, <2>3 DEF CandidateInv
<1>6. AppendInv(Ld, Lg)'
  BY <1>0, <1>rf, <1>x DEF AppendInv
<1>7. KeepInv(V2, Ld, Lg, K2, A)'
  <2> SUFFICES ASSUME NEW u \in Nat, NEW i \in Nat, Choosable(Ld, Lg, A, u, i)'
               PROVE  /\ \A v \in Server : A[v][u] >= i => Agree(log'[v], Lg[u], i)
                      /\ \A v \in Server, w \in Nat :
                            u < w /\ V2[v][w] # None /\ A[v][u] >= i => Agree(K2[V2[v][w]][w], Lg[u], i)
                      /\ \A w \in Nat : u < w /\ Ld[w] # None => Agree(Lg[w], Lg[u], i)
    BY DEF KeepInv
  <2>1. Choosable(Ld, Lg, A, u, i)
    <3>1. Ld[u] # None /\ i <= Len(Lg[u])
      BY DEF Choosable
    <3> QED BY <1>h, <1>c, <3>1, ChoosableShrinks
  <2>2. /\ \A v \in Server : A[v][u] >= i => Agree(log[v], Lg[u], i)
        /\ \A v \in Server, w \in Nat :
              u < w /\ V[v][w] # None /\ A[v][u] >= i => Agree(K[V[v][w]][w], Lg[u], i)
        /\ \A w \in Nat : u < w /\ Ld[w] # None => Agree(Lg[w], Lg[u], i)
    BY <1>x, <2>1 DEF KeepInv
  <2>3. ASSUME NEW v \in Server, NEW w \in Nat, u < w, V2[v][w] # None, A[v][u] >= i
        PROVE  Agree(K2[V2[v][w]][w], Lg[u], i)
    <3>1. CASE w = t /\ v = n
      BY <1>lg, <1>V, <1>K, <2>2, <2>3, <3>1
    <3>2. CASE w # t \/ v # n
      <4>1. V2[v][w] = V[v][w] /\ V[v][w] \in Server
        BY <1>V, <1>x, <2>3, <3>2 DEF HistoryOK
      <4>2. K2[V[v][w]][w] = K[V[v][w]][w]
        BY <1>1, <1>K, <4>1
      <4> QED BY <2>2, <2>3, <4>1, <4>2
    <3> QED BY <3>1, <3>2
  <2> QED BY <1>0, <2>2, <2>3
<1>8. CommitInv(Ld, Lg, A)'
  <2>1. ASSUME NEW p \in Server
        PROVE  /\ Safe(log[p], commitIndex[p], currentTerm'[p], Ld, Lg, A)
               /\ Safe(applied[p], Len(applied[p]), currentTerm'[p], Ld, Lg, A)
    <3>1. log[p] \in Logs /\ applied[p] \in Logs /\ commitIndex[p] \in Nat /\ Len(applied[p]) \in Nat
      BY LogFacts DEF StateOK
    <3>2. /\ Safe(log[p], commitIndex[p], currentTerm[p], Ld, Lg, A)
          /\ Safe(applied[p], Len(applied[p]), currentTerm[p], Ld, Lg, A)
      BY <1>x DEF CommitInv
    <3> QED BY <1>c, <1>h, <3>1, <3>2, SafeGrows
  <2>2. \A m \in msgs' : m.type = "AppendEntries" => m \in msgs
    BY <1>0, <1>rf
  <2> QED BY <1>0, <1>x, <2>1, <2>2 DEF CommitInv
<1>9. /\ \A u \in Nat : Ld[u] # None => HasMajority(Voters(V2, u, Ld[u])) /\ u <= currentTerm'[Ld[u]]
      /\ \A l \in Server \ {n} : role'[l] = Leader => Ld[currentTerm'[l]] = l /\ log'[l] = Lg[currentTerm'[l]]
      /\ \A c \in Server : role'[c] = Candidate => Ld[currentTerm'[c]] # c
  <2>1. ASSUME NEW u \in Nat, Ld[u] # None
        PROVE  HasMajority(Voters(V2, u, Ld[u])) /\ u <= currentTerm'[Ld[u]]
    <3>1. Ld[u] \in Server /\ HasMajority(Voters(V, u, Ld[u])) /\ u <= currentTerm[Ld[u]]
      BY <1>x, <2>1 DEF LeaderInv, HistoryOK
    <3>2. ASSUME NEW v \in Server, V[v][u] = Ld[u] PROVE V2[v][u] = Ld[u]
      <4>1. u # t \/ v # n
        BY <1>1, <2>1, <3>2
      <4> QED BY <1>V, <3>2, <4>1
    <3>3. Voters(V, u, Ld[u]) \subseteq Voters(V2, u, Ld[u])
      BY <3>2 DEF Voters
    <3>4. Voters(V, u, Ld[u]) \in SUBSET Server /\ Voters(V2, u, Ld[u]) \in SUBSET Server
      BY DEF Voters
    <3>5. HasMajority(Voters(V2, u, Ld[u]))
      BY <3>1, <3>3, <3>4, QuorumGrows
    <3> QED BY <1>c, <3>1, <3>5
  <2>2. ASSUME NEW c \in Server, role'[c] = Candidate PROVE Ld[currentTerm'[c]] # c
    <3>1. CASE c = n
      BY <1>0, <1>1, <3>1
    <3>2. CASE c # n
      BY <1>0, <1>x, <2>2, <3>2 DEF LeaderInv
    <3> QED BY <3>1, <3>2
  <2> QED BY <1>0, <1>x, <2>1, <2>2 DEF LeaderInv
<1>10. /\ \A v \in Server, u \in Nat : A[v][u] > 0 =>
             /\ Ld[u] # None /\ u <= currentTerm'[v] /\ A[v][u] <= Len(Lg[u])
             /\ u = currentTerm'[v] => Agree(log'[v], Lg[u], A[v][u])
       /\ \A m \in msgs' : m.type = "AppendEntriesResponse" /\ m.granted => m.match <= A[m.src][m.term]
       /\ \A l \in Server \ {n} : role'[l] = Leader => A[l][currentTerm'[l]] = Len(log'[l])
       /\ \A l \in Server \ {n}, p \in Server :
             IF role'[l] = Leader THEN p # l => matchIndex'[l][p] <= A[p][currentTerm'[l]]
                                  ELSE matchIndex'[l][p] = 0
       /\ \A p \in Server : matchIndex'[n][p] = 0
  <2>1. ASSUME NEW v \in Server, NEW u \in Nat, A[v][u] > 0
        PROVE  /\ Ld[u] # None /\ u <= currentTerm'[v] /\ A[v][u] <= Len(Lg[u])
               /\ u = currentTerm'[v] => Agree(log'[v], Lg[u], A[v][u])
    <3>1. /\ Ld[u] # None /\ u <= currentTerm[v] /\ A[v][u] <= Len(Lg[u])
          /\ u = currentTerm[v] => Agree(log[v], Lg[u], A[v][u])
      BY <1>x, <2>1 DEF AckInv
    <3>2. u = currentTerm'[v] => v # n
      BY <1>0, <1>c, <3>1
    <3> QED BY <1>0, <1>c, <3>1, <3>2
  <2>2. \A m \in msgs' : m.type = "AppendEntriesResponse" => m \in msgs
    BY <1>0, <1>rf
  <2> QED BY <1>0, <1>x, <2>1, <2>2 DEF AckInv
<1>11. HistoryOK(V2, Ld, Lg, K2, A)'
  BY <1>2 DEF HistoryOK
<1>12. CASE role'[n] = Candidate
  <2>1. LeaderInv(V2, Ld, Lg)'
    <3>1. \A l \in Server : role'[l] = Leader => l # n
      BY <1>12, <1>f
    <3> QED BY <1>9, <3>1 DEF LeaderInv, Voters
  <2>2. AckInv(Ld, Lg, A)'
    <3>1. \A l \in Server : role'[l] = Leader => l # n
      BY <1>12, <1>f
    <3>2. ASSUME NEW l \in Server, NEW p \in Server
          PROVE  IF role'[l] = Leader THEN p # l => matchIndex'[l][p] <= A[p][currentTerm'[l]]
                                      ELSE matchIndex'[l][p] = 0
      BY <1>10, <3>1
    <3> QED BY <1>10, <3>1, <3>2 DEF AckInv
  <2>3. Explains(V2, Ld, Lg, K2, A)'
    BY <1>3, <1>4, <1>5, <1>6, <1>7, <1>8, <1>11, <2>1, <2>2 DEF Explains
  <2> QED BY <2>3
<1>13. CASE role'[n] = Leader
  <2>1. role'[n] = Leader /\ log'[n] = K2[n][currentTerm'[n]] /\ Ld[currentTerm'[n]] # n
    BY <1>0, <1>1, <1>lg, <1>K, <1>13
  <2>2. NearlyExplains(n, V2, Ld, Lg, K2, A)'
    BY <1>3, <1>4, <1>5, <1>6, <1>7, <1>8, <1>9, <1>10, <1>11, <2>1 DEF NearlyExplains, Voters
  <2> QED BY <2>2, NewLeaderExplained
<1> QED BY <1>0, <1>12, <1>13

\* A log that is as up to date as one with a choosable entry has the entry too.
LEMMA UpToDateHasChoosable ==
    ASSUME NEW Ld, NEW Lg, NEW A, HistoryLogs(Ld, Lg, A), LogInv(Ld, Lg),
           NEW u \in Nat, NEW i \in Nat, Ld[u] # None, i \in 1..Len(Lg[u]), Lg[u][i].term = u,
           \A w \in Nat : u < w /\ Ld[w] # None => Agree(Lg[w], Lg[u], i),
           NEW lg \in Logs, Good(lg, Ld, Lg), Agree(lg, Lg[u], i),
           NEW k \in Logs, Good(k, Ld, Lg), NEW m, m.lastIndex = Len(k), m.lastTerm = LastTerm(k),
           CandidateLogIsUpToDate(m, lg)
    PROVE  Agree(k, Lg[u], i)
<1>1. /\ Lg[u] \in Logs /\ Len(Lg[u]) \in Nat /\ Len(lg) \in Nat /\ Len(k) \in Nat
      /\ i >= 1 /\ i <= Len(lg) /\ lg[i].term = u
  <2>1. Lg[u] \in Logs
    BY DEF HistoryLogs
  <2>2. Len(Lg[u]) \in Nat /\ Len(lg) \in Nat /\ Len(k) \in Nat
    BY <2>1, LogFacts
  <2>3. i >= 1 /\ i <= Len(lg) /\ lg[i] = Lg[u][i]
    BY <2>2 DEF Agree
  <2> QED BY <2>1, <2>2, <2>3
<1>2. LastTerm(lg) \in Nat /\ LastTerm(lg) = lg[Len(lg)].term /\ u <= LastTerm(lg)
  <2>1. i \in 1..Len(lg) /\ Len(lg) \in 1..Len(lg) /\ i <= Len(lg)
    BY <1>1
  <2>2. lg[i].term <= lg[Len(lg)].term
    BY <2>1, TermsMonotone
  <2>3. LastTerm(lg) = lg[Len(lg)].term /\ lg[Len(lg)].term \in Nat
    BY <1>1, <2>1, LogFacts DEF LastTerm, TermAt
  <2> QED BY <1>1, <2>2, <2>3
<1>3. Len(k) # 0
  <2> SUFFICES ASSUME Len(k) = 0 PROVE FALSE
    OBVIOUS
  <2>1. m.lastTerm = 0 /\ m.lastIndex = 0
    BY DEF LastTerm, TermAt
  <2> QED BY <1>1, <1>2, <2>1 DEF CandidateLogIsUpToDate, LastIndex
<1> DEFINE j == Len(k)
           w == k[j].term
<1>4. j \in 1..Len(k) /\ j \in Nat /\ w \in Nat /\ LastTerm(k) = w /\ j >= 1
  <2>1. j \in 1..Len(k)
    BY <1>1, <1>3
  <2> QED BY <1>1, <1>3, <2>1, LogFacts DEF LastTerm, TermAt
<1>5. Ld[w] # None /\ Agree(k, Lg[w], j)
  BY <1>4 DEF Good
<1>6. m.lastIndex = j /\ m.lastTerm = w
  BY <1>4
<1> HIDE DEF j, w
<1>7. Lg[w] \in Logs /\ Len(Lg[w]) \in Nat
  BY <1>4, LogFacts DEF HistoryLogs
<1>8. CASE w = u
  <2>1. i <= j
    BY <1>1, <1>2, <1>4, <1>6, <1>8 DEF CandidateLogIsUpToDate, LastIndex
  <2> QED BY <1>1, <1>4, <1>5, <1>8, <2>1, AgreeDown
<1>9. CASE w > u
  <2>1. Agree(Lg[w], Lg[u], i)
    BY <1>4, <1>5, <1>9
  <2>2. i <= j
    <3> SUFFICES ASSUME j < i PROVE FALSE
      BY <1>4
    <3>1. k[j] = Lg[w][j] /\ Lg[w][j] = Lg[u][j] /\ k[j].term = w /\ j \in 1..Len(Lg[u])
      BY <1>1, <1>4, <1>5, <1>7, <2>1 DEF Agree, w
    <3>2. Lg[u][j].term <= u
      BY <3>1 DEF LogInv, TermsUpTo
    <3> QED BY <1>4, <1>9, <3>1, <3>2
  <2> QED BY <1>1, <1>4, <1>5, <1>7, <2>1, <2>2, AgreeTransitive
<1>10. w >= u
  BY <1>1, <1>2, <1>4, <1>6 DEF CandidateLogIsUpToDate
<1> QED BY <1>4, <1>8, <1>9, <1>10

\* A vote that is granted goes to a candidate of that term whose log is up to date.
LEMMA VoteGrantedExplained ==
    ASSUME StateOK, StateOK', MessagesOK, MessagesOK',
           NEW n \in Server, NEW m \in msgs, m.type = "RequestVote", m.src # n,
           currentTerm[n] <= m.term, m.term = currentTerm[n] => votedFor[n] \in {None, m.src},
           CandidateLogIsUpToDate(m, log[n]),
           UNCHANGED <<log, applied, commitIndex>>,
           currentTerm'[n] = m.term, votedFor'[n] = m.src, role'[n] = Follower,
           \A p \in Server : matchIndex'[n][p] = 0,
           \A p \in Server \ {n} :
               /\ currentTerm'[p] = currentTerm[p] /\ votedFor'[p] = votedFor[p] /\ role'[p] = role[p]
               /\ votesReceived'[p] = votesReceived[p] /\ matchIndex'[p] = matchIndex[p],
           NEW r, r.type = "RequestVoteResponse", r.src = n, r.dst = m.src, r.term = m.term,
           \A x \in msgs' : x \in msgs \/ x = r,
           NEW V, NEW Ld, NEW Lg, NEW K, NEW A, Explains(V, Ld, Lg, K, A)
    PROVE  \E V2, Ld2, Lg2, K2, A2 : Explains(V2, Ld2, Lg2, K2, A2)'
<1>x. /\ VoteInv(V) /\ LeaderInv(V, Ld, Lg) /\ LogInv(Ld, Lg) /\ CandidateInv(Ld, Lg, K)
      /\ AppendInv(Ld, Lg) /\ AckInv(Ld, Lg, A) /\ KeepInv(V, Ld, Lg, K, A) /\ CommitInv(Ld, Lg, A)
      /\ HistoryOK(V, Ld, Lg, K, A)
  BY DEF Explains
<1>f. Follower # Candidate /\ Follower # Leader /\ Candidate # Leader
  BY DEF Follower, Candidate, Leader
<1>t. PICK t \in Nat : t = m.term
  BY MessageFacts
<1>s. PICK s \in Server : s = m.src
  BY MessageFacts
<1>n. s # None /\ s # n /\ \A c \in Server : c # None
  BY <1>s, NoneAssumption
<1>c. /\ \A v \in Server : currentTerm[v] \in Nat /\ currentTerm'[v] \in Nat /\ currentTerm[v] <= currentTerm'[v]
      /\ currentTerm[n] <= t /\ currentTerm'[n] = t /\ t <= currentTerm[s]
  <2>1. t <= currentTerm[s]
    BY <1>x, <1>t, <1>s DEF CandidateInv
  <2> QED BY <1>t, <2>1 DEF StateOK
<1>h. HistoryLogs(Ld, Lg, A) /\ Grows(Ld, Lg, A, Ld, Lg, A)
  BY <1>x, GrowsReflexive DEF HistoryOK, HistoryLogs
<1>1. V[n][t] \in {None, s}
  <2> SUFFICES ASSUME V[n][t] # None PROVE V[n][t] = s
    OBVIOUS
  <2>1. t <= currentTerm[n] /\ (t = currentTerm[n] => votedFor[n] = V[n][t])
    BY <1>x DEF VoteInv
  <2> QED BY <1>c, <1>t, <1>s, <2>1
<1>V. PICK V2 : /\ V2 \in [Server -> [Nat -> Server \cup {None}]] /\ V2[n][t] = s
                /\ \A v \in Server, u \in Nat : u # t \/ v # n => V2[v][u] = V[v][u]
  <2> DEFINE W == [V EXCEPT ![n] = [V[n] EXCEPT ![t] = s]]
  <2>1. V[n] \in [Nat -> Server \cup {None}]
    BY <1>x DEF HistoryOK
  <2>2. /\ W \in [Server -> [Nat -> Server \cup {None}]] /\ W[n][t] = s
        /\ \A v \in Server, u \in Nat : u # t \/ v # n => W[v][u] = V[v][u]
    BY <1>x, <2>1 DEF HistoryOK
  <2> HIDE DEF W
  <2> QED BY <2>2
<1>k. \A v \in Server, u \in Nat : V[v][u] # None => V2[v][u] = V[v][u]
  BY <1>1, <1>V
<1>2. HistoryOK(V2, Ld, Lg, K, A)
  BY <1>x, <1>V DEF HistoryOK
<1>3. VoteInv(V2)'
  <2>1. ASSUME NEW v \in Server, NEW u \in Nat, V2[v][u] # None
        PROVE  /\ u <= currentTerm'[v] /\ u <= currentTerm'[V2[v][u]]
               /\ u = currentTerm'[v] => votedFor'[v] = V2[v][u]
    <3>1. CASE u = t /\ v = n
      BY <1>c, <1>s, <1>n, <1>V, <3>1
    <3>2. CASE u # t \/ v # n
      <4>1. V2[v][u] = V[v][u] /\ V[v][u] \in Server
        BY <1>V, <1>x, <2>1, <3>2 DEF HistoryOK
      <4>2. /\ u <= currentTerm[v] /\ u <= currentTerm[V[v][u]]
            /\ u = currentTerm[v] => votedFor[v] = V[v][u]
        BY <1>x, <2>1, <4>1 DEF VoteInv
      <4>3. u = currentTerm'[v] => v # n
        BY <1>c, <3>2
      <4> QED BY <1>c, <4>1, <4>2, <4>3
    <3> QED BY <3>1, <3>2
  <2>2. ASSUME NEW c \in Server, role'[c] # Follower
        PROVE  /\ votedFor'[c] = c /\ \A v \in votesReceived'[c] : V2[v][currentTerm'[c]] = c
               /\ role'[c] = Leader => HasMajority(votesReceived'[c])
    <3>1. c # n
      BY <2>2
    <3>2. /\ role[c] # Follower /\ votedFor'[c] = votedFor[c] /\ votesReceived'[c] = votesReceived[c]
          /\ currentTerm'[c] = currentTerm[c] /\ role'[c] = role[c]
      BY <2>2, <3>1
    <3>3. votedFor[c] = c /\ \A v \in votesReceived[c] : V[v][currentTerm[c]] = c
      BY <1>x, <3>2 DEF VoteInv
    <3>4. role[c] = Leader => HasMajority(votesReceived[c])
      BY <1>x DEF VoteInv
    <3>5. ASSUME NEW v \in votesReceived[c] PROVE V2[v][currentTerm[c]] = c
      <4>1. v \in Server /\ currentTerm[c] \in Nat
        BY DEF StateOK
      <4> QED BY <1>k, <1>n, <3>3, <4>1
    <3> QED BY <3>2, <3>3, <3>4, <3>5
  <2>3. ASSUME NEW x \in msgs', x.type = "RequestVoteResponse", x.granted
        PROVE  V2[x.src][x.term] = x.dst
    <3>1. CASE x = r
      BY <1>t, <1>s, <1>V, <3>1
    <3>2. CASE x # r
      <4>1. x \in msgs
        BY <3>2
      <4>2. V[x.src][x.term] = x.dst /\ x.dst \in Server /\ x.src \in Server /\ x.term \in Nat
        BY <1>x, <2>3, <4>1, MessageFacts DEF VoteInv
      <4> QED BY <1>k, <1>n, <4>2
    <3> QED BY <3>1, <3>2
  <2> QED BY <1>f, <2>1, <2>2, <2>3 DEF VoteInv
<1>4. LogInv(Ld, Lg)'
  <2>1. ASSUME NEW p \in Server PROVE TermsUpTo(log[p], currentTerm'[p])
    <3>1. TermsUpTo(log[p], currentTerm[p]) /\ log[p] \in Logs
      BY <1>x DEF LogInv, StateOK
    <3> QED BY <1>c, <3>1, LogFacts DEF TermsUpTo
  <2> QED BY <1>x, <2>1 DEF LogInv
<1>5. CandidateInv(Ld, Lg, K)'
  <2>1. ASSUME NEW c \in Server, role'[c] = Candidate
        PROVE  log'[c] = K[c][currentTerm'[c]]
    BY <1>f, <1>x, <2>1 DEF CandidateInv
  <2>2. ASSUME NEW x \in msgs', x.type = "RequestVote"
        PROVE  /\ x.term <= currentTerm'[x.src]
               /\ x.lastIndex = Len(K[x.src][x.term]) /\ x.lastTerm = LastTerm(K[x.src][x.term])
    <3>1. x \in msgs
      BY <2>2
    <3>2. x.term \in Nat /\ x.src \in Server
      BY <3>1, MessageFacts
    <3> QED BY <1>c, <1>x, <2>2, <3>1, <3>2 DEF CandidateInv
  <2> QED BY <1>x, <2>1, <2>2 DEF CandidateInv
<1>6. AppendInv(Ld, Lg)'
  BY <1>x DEF AppendInv
<1>7. KeepInv(V2, Ld, Lg, K, A)'
  <2> SUFFICES ASSUME NEW u \in Nat, NEW i \in Nat, Choosable(Ld, Lg, A, u, i)'
               PROVE  /\ \A v \in Server : A[v][u] >= i => Agree(log'[v], Lg[u], i)
                      /\ \A v \in Server, w \in Nat :
                            u < w /\ V2[v][w] # None /\ A[v][u] >= i => Agree(K[V2[v][w]][w], Lg[u], i)
                      /\ \A w \in Nat : u < w /\ Ld[w] # None => Agree(Lg[w], Lg[u], i)
    BY DEF KeepInv
  <2>1. Choosable(Ld, Lg, A, u, i)
    <3>1. Ld[u] # None /\ i <= Len(Lg[u])
      BY DEF Choosable
    <3> QED BY <1>h, <1>c, <3>1, ChoosableShrinks
  <2>2. /\ \A v \in Server : A[v][u] >= i => Agree(log[v], Lg[u], i)
        /\ \A v \in Server, w \in Nat :
              u < w /\ V[v][w] # None /\ A[v][u] >= i => Agree(K[V[v][w]][w], Lg[u], i)
        /\ \A w \in Nat : u < w /\ Ld[w] # None => Agree(Lg[w], Lg[u], i)
    BY <1>x, <2>1 DEF KeepInv
  <2>3. ASSUME NEW v \in Server, NEW w \in Nat, u < w, V2[v][w] # None, A[v][u] >= i
        PROVE  Agree(K[V2[v][w]][w], Lg[u], i)
    <3>1. CASE w = t /\ v = n
      <4>1. Agree(log[n], Lg[u], i)
        BY <2>2, <2>3, <3>1
      <4>2. Good(log[n], Ld, Lg) /\ log[n] \in Logs
        BY <1>x DEF LogInv, StateOK
      <4>3. K[s][t] \in Logs /\ Good(K[s][t], Ld, Lg)
        BY <1>x DEF CandidateInv, HistoryOK
      <4>4. m.lastIndex = Len(K[s][t]) /\ m.lastTerm = LastTerm(K[s][t])
        BY <1>x, <1>t, <1>s DEF CandidateInv
      <4>5. Ld[u] # None /\ i \in 1..Len(Lg[u]) /\ Lg[u][i].term = u
        BY <2>1 DEF Choosable
      <4>6. Agree(K[s][t], Lg[u], i)
        BY <1>h, <1>x, <2>2, <4>1, <4>2, <4>3, <4>4, <4>5, UpToDateHasChoosable
      <4> QED BY <1>V, <3>1, <4>6
    <3>2. CASE w # t \/ v # n
      <4>1. V2[v][w] = V[v][w]
        BY <1>V, <3>2
      <4> QED BY <2>2, <2>3, <4>1
    <3> QED BY <3>1, <3>2
  <2> QED BY <2>2, <2>3
<1>8. CommitInv(Ld, Lg, A)'
  <2>1. ASSUME NEW p \in Server
        PROVE  /\ Safe(log[p], commitIndex[p], currentTerm'[p], Ld, Lg, A)
               /\ Safe(applied[p], Len(applied[p]), currentTerm'[p], Ld, Lg, A)
    <3>1. log[p] \in Logs /\ applied[p] \in Logs /\ commitIndex[p] \in Nat /\ Len(applied[p]) \in Nat
      BY LogFacts DEF StateOK
    <3>2. /\ Safe(log[p], commitIndex[p], currentTerm[p], Ld, Lg, A)
          /\ Safe(applied[p], Len(applied[p]), currentTerm[p], Ld, Lg, A)
      BY <1>x DEF CommitInv
    <3> QED BY <1>c, <1>h, <3>1, <3>2, SafeGrows
  <2>2. \A x \in msgs' : x.type = "AppendEntries" => x \in msgs
    OBVIOUS
  <2> QED BY <1>x, <2>1, <2>2 DEF CommitInv
<1>9. LeaderInv(V2, Ld, Lg)'
  <2>1. ASSUME NEW u \in Nat, Ld[u] # None
        PROVE  HasMajority(Voters(V2, u, Ld[u])) /\ u <= currentTerm'[Ld[u]]
    <3>1. Ld[u] \in Server /\ HasMajority(Voters(V, u, Ld[u])) /\ u <= currentTerm[Ld[u]]
      BY <1>x, <2>1 DEF LeaderInv, HistoryOK
    <3>2. /\ Voters(V, u, Ld[u]) \subseteq Voters(V2, u, Ld[u])
          /\ Voters(V, u, Ld[u]) \in SUBSET Server /\ Voters(V2, u, Ld[u]) \in SUBSET Server
      BY <1>k, <2>1 DEF Voters
    <3>3. HasMajority(Voters(V2, u, Ld[u]))
      BY <3>1, <3>2, QuorumGrows
    <3> QED BY <1>c, <3>1, <3>3
  <2>2. ASSUME NEW c \in Server, role'[c] # Follower
        PROVE  role'[c] = role[c] /\ currentTerm'[c] = currentTerm[c] /\ log'[c] = log[c]
    BY <2>2
  <2>3. \A l \in Server : role'[l] = Leader => Ld[currentTerm'[l]] = l /\ log'[l] = Lg[currentTerm'[l]]
    BY <1>f, <1>x, <2>2 DEF LeaderInv
  <2>4. \A c \in Server : role'[c] = Candidate => Ld[currentTerm'[c]] # c
    BY <1>f, <1>x, <2>2 DEF LeaderInv
  <2> QED BY <2>1, <2>3, <2>4 DEF LeaderInv, Voters
<1>10. AckInv(Ld, Lg, A)'
  <2>1. ASSUME NEW v \in Server, NEW u \in Nat, A[v][u] > 0
        PROVE  /\ Ld[u] # None /\ u <= currentTerm'[v] /\ A[v][u] <= Len(Lg[u])
               /\ u = currentTerm'[v] => Agree(log'[v], Lg[u], A[v][u])
    <3>1. /\ Ld[u] # None /\ u <= currentTerm[v] /\ A[v][u] <= Len(Lg[u])
          /\ u = currentTerm[v] => Agree(log[v], Lg[u], A[v][u])
      BY <1>x, <2>1 DEF AckInv
    <3> QED BY <1>c, <3>1
  <2>2. \A x \in msgs' : x.type = "AppendEntriesResponse" => x \in msgs
    OBVIOUS
  <2>3. ASSUME NEW l \in Server, role'[l] = Leader
        PROVE  /\ A[l][currentTerm'[l]] = Len(log'[l])
               /\ \A p \in Server : p # l => matchIndex'[l][p] <= A[p][currentTerm'[l]]
    <3>1. l # n
      BY <1>f, <2>3
    <3> QED BY <1>x, <2>3, <3>1 DEF AckInv
  <2>4. ASSUME NEW l \in Server, NEW p \in Server, role'[l] # Leader
        PROVE  matchIndex'[l][p] = 0
    BY <1>x, <2>4 DEF AckInv
  <2> QED BY <1>x, <2>1, <2>2, <2>3, <2>4 DEF AckInv
<1>11. Explains(V2, Ld, Lg, K, A)'
  BY <1>2, <1>3, <1>4, <1>5, <1>6, <1>7, <1>8, <1>9, <1>10 DEF Explains, HistoryOK
<1> QED BY <1>11

LEMMA RequestVoteExplained ==
    ASSUME StateOK, StateOK', MessagesOK, MessagesOK',
           NEW n \in Server, NEW m \in msgs, HandleRequestVote(n, m),
           NEW V, NEW Ld, NEW Lg, NEW K, NEW A, Explains(V, Ld, Lg, K, A)
    PROVE  \E V2, Ld2, Lg2, K2, A2 : Explains(V2, Ld2, Lg2, K2, A2)'
<1>1. m.term \in Nat /\ m.src \in Server /\ m.type = "RequestVote" /\ m.src # n
  BY MessageFacts DEF HandleRequestVote, Receives
<1>x. VoteInv(V) /\ AckInv(Ld, Lg, A)
  BY DEF Explains
<1>f. Follower # Candidate /\ Follower # Leader
  BY DEF Follower, Candidate, Leader
<1>n. n # None /\ currentTerm[n] \in Nat
  BY NoneAssumption DEF StateOK
<1>t. PICK newer, term, vote, grant :
          /\ newer = (m.term > currentTerm[n])
          /\ term = IF newer THEN m.term ELSE currentTerm[n]
          /\ vote = IF newer THEN None ELSE votedFor[n]
          /\ grant = (m.term = term /\ CandidateLogIsUpToDate(m, log[n]) /\ vote \in {None, m.src})
  OBVIOUS
<1>b. /\ newer => m.term > currentTerm[n] /\ term = m.term /\ vote = None
      /\ ~newer => m.term <= currentTerm[n] /\ term = currentTerm[n] /\ vote = votedFor[n]
  <2>1. m.term > currentTerm[n] \/ m.term <= currentTerm[n]
    BY <1>1, <1>n
  <2>2. ~(m.term > currentTerm[n] /\ m.term <= currentTerm[n])
    BY <1>1, <1>n
  <2> QED BY <1>t, <2>1, <2>2
<1>r. PICK r : r = [type |-> "RequestVoteResponse", term |-> term, src |-> n, dst |-> m.src, granted |-> grant]
  OBVIOUS
<1>2. /\ currentTerm' = [currentTerm EXCEPT ![n] = term]
      /\ votedFor' = [votedFor EXCEPT ![n] = IF grant THEN m.src ELSE vote]
      /\ UNCHANGED <<log, applied, commitIndex>>
      /\ IF newer THEN BecomeFollower(n)
                  ELSE /\ role' = [role EXCEPT ![n] = IF grant THEN Follower ELSE role[n]]
                       /\ UNCHANGED <<votesReceived, matchIndex>>
  BY <1>t DEF HandleRequestVote, PersistTermAndVote
<1>3. \A x \in msgs' : x \in msgs \/ x = r
  <2>1. Deliver(m, Answer(r))
    BY <1>t, <1>r DEF HandleRequestVote
  <2> QED BY <2>1 DEF Deliver, Answer
<1>4. /\ r.type = "RequestVoteResponse" /\ r.src = n /\ r.dst = m.src /\ r.term = term /\ r.granted = grant
  BY <1>r
<1>5. currentTerm'[n] = term /\ votedFor'[n] = IF grant THEN m.src ELSE vote
  BY <1>2 DEF StateOK
<1>6. \A p \in Server \ {n} :
          /\ currentTerm'[p] = currentTerm[p] /\ votedFor'[p] = votedFor[p] /\ role'[p] = role[p]
          /\ votesReceived'[p] = votesReceived[p] /\ matchIndex'[p] = matchIndex[p]
  BY <1>2 DEF StateOK, BecomeFollower, ResetReplicator
<1>7. newer => role'[n] = Follower /\ \A p \in Server : matchIndex'[n][p] = 0
  BY <1>2 DEF StateOK, BecomeFollower, ResetReplicator
<1>8. CASE grant
  <2>1. m.term = term /\ CandidateLogIsUpToDate(m, log[n]) /\ vote \in {None, m.src}
    BY <1>t, <1>8
  <2>2. role'[n] = Follower /\ \A p \in Server : matchIndex'[n][p] = 0
    <3>1. CASE newer
      BY <1>7, <3>1
    <3>2. CASE ~newer
      <4>1. votedFor[n] # n
        BY <1>1, <1>n, <1>t, <2>1, <3>2
      <4>2. role[n] = Follower
        BY <1>x, <4>1 DEF VoteInv
      <4>3. \A p \in Server : matchIndex[n][p] = 0
        BY <1>x, <1>f, <4>2 DEF AckInv
      <4>4. role'[n] = Follower /\ matchIndex' = matchIndex
        BY <1>2, <1>8, <3>2 DEF StateOK
      <4> QED BY <4>3, <4>4
    <3> QED BY <3>1, <3>2
  <2>3. currentTerm[n] <= m.term /\ (m.term = currentTerm[n] => votedFor[n] \in {None, m.src})
    BY <1>1, <1>n, <1>b, <2>1
  <2>4. votedFor'[n] = m.src /\ currentTerm'[n] = m.term /\ r.term = m.term
    BY <1>4, <1>5, <1>8, <2>1
  <2> QED BY <1>1, <1>2, <1>3, <1>4, <1>6, <2>1, <2>2, <2>3, <2>4, VoteGrantedExplained
<1>9. CASE ~grant
  <2>1. OnlyRefusals
    BY <1>3, <1>4, <1>9 DEF OnlyRefusals
  <2>2. CASE newer
    <3>1. currentTerm[n] <= currentTerm'[n] /\ currentTerm'[n] # currentTerm[n]
      BY <1>1, <1>n, <1>b, <1>5, <2>2
    <3>2. commitIndex'[n] \in {0, commitIndex[n]} /\ \A p \in Server \ {n} : commitIndex'[p] = commitIndex[p]
      BY <1>2
    <3>3. Explains(V, Ld, Lg, K, A)'
      BY <1>2, <1>6, <1>7, <2>1, <2>2, <3>1, <3>2, NodeRetires
    <3> QED BY <3>3
  <2>3. CASE ~newer
    <3>1. UNCHANGED <<currentTerm, votedFor, role, votesReceived, matchIndex>>
      BY <1>2, <1>9, <1>t, <2>3 DEF StateOK
    <3>2. Explains(V, Ld, Lg, K, A)'
      BY <1>2, <2>1, <3>1, NothingChanges DEF durable
    <3> QED BY <3>2
  <2> QED BY <2>2, <2>3
<1> QED BY <1>8, <1>9

-----------------------------------------------------------------------------
(* Replication *)

\* What is safe of a log is still safe when it and the history have grown.
LEMMA SafeExtends ==
    ASSUME NEW Ld, NEW Lg, NEW A, NEW Ld2, NEW Lg2, NEW A2,
           HistoryLogs(Ld, Lg, A), HistoryLogs(Ld2, Lg2, A2), Grows(Ld, Lg, A, Ld2, Lg2, A2),
           NEW a \in Logs, NEW b \in Logs, NEW i \in Nat, NEW t0 \in Nat, Agree(b, a, Len(a)),
           Safe(a, i, t0, Ld, Lg, A)
    PROVE  Safe(b, i, t0, Ld2, Lg2, A2)
<1>1. Len(a) \in Nat /\ t0 <= t0 /\ i <= i
  BY LogFacts
<1>2. i <= Len(a)
  BY <1>1 DEF Safe, Agree
<1>3. Safe(a, i, t0, Ld2, Lg2, A2)
  BY <1>1, SafeGrows
<1>4. Agree(b, a, i)
  BY <1>1, <1>2, AgreeDown
<1> QED BY <1>1, <1>3, <1>4, SafeAgrees

\* Only n holds the new entry, and n has gone no further than its term.
LEMMA AppendCommandExplained ==
    ASSUME StateOK, StateOK', MessagesOK, NEW n \in Server, NEW val \in Value, AppendCommand(n, val),
           NEW V, NEW Ld, NEW Lg, NEW K, NEW A, Explains(V, Ld, Lg, K, A)
    PROVE  \E V2, Ld2, Lg2, K2, A2 : Explains(V2, Ld2, Lg2, K2, A2)'
<1>x. /\ VoteInv(V) /\ LeaderInv(V, Ld, Lg) /\ LogInv(Ld, Lg) /\ CandidateInv(Ld, Lg, K)
      /\ AppendInv(Ld, Lg) /\ AckInv(Ld, Lg, A) /\ KeepInv(V, Ld, Lg, K, A) /\ CommitInv(Ld, Lg, A)
      /\ HistoryOK(V, Ld, Lg, K, A)
  BY DEF Explains
<1>t. PICK t \in Nat : t = currentTerm[n]
  BY DEF StateOK
<1>lg. PICK lg \in Logs : lg = log[n]
  BY DEF StateOK
<1>e. PICK e : e = [term |-> t, command |-> val]
  OBVIOUS
<1>ef. e \in Entry /\ e.term = t
  BY <1>e DEF Entry
<1>b. PICK b \in Logs : b = Append(lg, e)
  BY <1>ef, AppendProperties DEF Logs
<1>L. Len(lg) \in Nat /\ Len(b) = Len(lg) + 1 /\ b[Len(lg) + 1] = e /\ \A i \in 1..Len(lg) : b[i] = lg[i]
  BY <1>b, <1>ef, LogFacts, AppendProperties DEF Logs
<1>0. /\ UNCHANGED <<currentTerm, votedFor, applied, role, votesReceived, commitIndex, matchIndex, msgs>>
      /\ role[n] = Leader /\ log'[n] = b /\ \A p \in Server \ {n} : log'[p] = log[p]
  BY <1>t, <1>lg, <1>e, <1>b DEF AppendCommand, StateOK
<1>n. n # None /\ \A c \in Server : c # None
  BY NoneAssumption
<1>c. \A p \in Server : currentTerm[p] \in Nat /\ log[p] \in Logs /\ log'[p] \in Logs
  BY DEF StateOK
<1>1. Ld[t] = n /\ Lg[t] = lg /\ A[n][t] = Len(lg)
  BY <1>0, <1>t, <1>lg, <1>x DEF LeaderInv, AckInv
<1>l. \A l \in Server \ {n} : role[l] = Leader => currentTerm[l] \in Nat \ {t}
  BY <1>1, <1>c, <1>x DEF LeaderInv
<1>q. PICK Lg2 : Lg2 \in [Nat -> Logs] /\ Lg2[t] = b /\ \A u \in Nat \ {t} : Lg2[u] = Lg[u]
  <2> DEFINE G == [Lg EXCEPT ![t] = b]
  <2>1. G \in [Nat -> Logs] /\ G[t] = b /\ \A u \in Nat \ {t} : G[u] = Lg[u]
    BY <1>x DEF HistoryOK
  <2> HIDE DEF G
  <2> QED BY <2>1
<1>r. PICK A2 : /\ A2 \in [Server -> [Nat -> Nat]] /\ A2[n][t] = Len(lg) + 1
                /\ \A v \in Server, u \in Nat : u # t \/ v # n => A2[v][u] = A[v][u]
  <2>0. PICK k \in Nat : k = Len(lg) + 1
    BY <1>L
  <2> DEFINE B == [A EXCEPT ![n] = [A[n] EXCEPT ![t] = k]]
  <2>1. A[n] \in [Nat -> Nat]
    BY <1>x DEF HistoryOK
  <2>2. /\ B \in [Server -> [Nat -> Nat]] /\ B[n][t] = k
        /\ \A v \in Server, u \in Nat : u # t \/ v # n => B[v][u] = A[v][u]
    BY <1>x, <2>1 DEF HistoryOK
  <2> HIDE DEF B
  <2>3. /\ B \in [Server -> [Nat -> Nat]] /\ B[n][t] = Len(lg) + 1
        /\ \A v \in Server, u \in Nat : u # t \/ v # n => B[v][u] = A[v][u]
    BY <2>0, <2>2
  <2> QED BY <2>3
<1>2. HistoryOK(V, Ld, Lg2, K, A2) /\ HistoryLogs(Ld, Lg, A) /\ HistoryLogs(Ld, Lg2, A2)
  BY <1>x, <1>q, <1>r DEF HistoryOK, HistoryLogs
<1>a. \A v \in Server, u \in Nat : A[v][u] \in Nat /\ A2[v][u] \in Nat
  BY <1>2 DEF HistoryLogs
<1>3. Agree(b, lg, Len(lg)) /\ Agree(b, b, Len(b))
  <2>1. Len(lg) <= Len(lg) /\ Len(lg) <= Len(b) /\ Len(b) <= Len(b) /\ Len(b) \in Nat
    BY <1>L
  <2> QED BY <1>L, <2>1, AgreeReflexive DEF Agree
<1>4. \A u \in Nat : /\ Lg[u] \in Logs /\ Lg2[u] \in Logs /\ Len(Lg[u]) \in Nat
                     /\ Agree(Lg2[u], Lg[u], Len(Lg[u])) /\ Agree(Lg[u], Lg2[u], Len(Lg[u]))
  <2> SUFFICES ASSUME NEW u \in Nat
               PROVE  /\ Lg[u] \in Logs /\ Lg2[u] \in Logs /\ Len(Lg[u]) \in Nat
                      /\ Agree(Lg2[u], Lg[u], Len(Lg[u])) /\ Agree(Lg[u], Lg2[u], Len(Lg[u]))
    OBVIOUS
  <2>1. Lg[u] \in Logs /\ Lg2[u] \in Logs
    BY <1>2 DEF HistoryLogs
  <2>2. Len(Lg[u]) \in Nat
    BY <2>1, LogFacts
  <2>3. Agree(Lg2[u], Lg[u], Len(Lg[u]))
    <3>1. CASE u = t
      BY <1>1, <1>3, <1>q, <3>1
    <3>2. CASE u # t
      <4>1. Len(Lg[u]) <= Len(Lg[u]) /\ Lg2[u] = Lg[u]
        BY <1>q, <2>2, <3>2
      <4> QED BY <2>1, <2>2, <4>1, AgreeReflexive
    <3> QED BY <3>1, <3>2
  <2> QED BY <2>1, <2>2, <2>3, AgreeSymmetric
<1>5. Grows(Ld, Lg, A, Ld, Lg2, A2)
  <2>1. ASSUME NEW v \in Server, NEW u \in Nat PROVE A[v][u] <= A2[v][u]
    <3>1. CASE u = t /\ v = n
      <4>1. A[v][u] = Len(lg) /\ A2[v][u] = Len(lg) + 1
        BY <1>1, <1>r, <3>1
      <4> QED BY <1>L, <4>1
    <3>2. CASE u # t \/ v # n
      <4>1. A2[v][u] = A[v][u] /\ A[v][u] \in Nat
        BY <1>r, <1>a, <3>2
      <4> QED BY <4>1
    <3> QED BY <3>1, <3>2
  <2> QED BY <1>4, <2>1 DEF Grows
<1>g. \A x \in Logs : Good(x, Ld, Lg) => Good(x, Ld, Lg2)
  BY <1>2, <1>5, GoodGrows
<1>6. VoteInv(V)'
  BY <1>0, <1>x DEF VoteInv
<1>7. LeaderInv(V, Ld, Lg2)'
  <2>1. ASSUME NEW l \in Server, role[l] = Leader
        PROVE  Ld[currentTerm[l]] = l /\ log'[l] = Lg2[currentTerm[l]]
    <3>1. CASE l = n
      BY <1>0, <1>1, <1>t, <1>q, <3>1
    <3>2. CASE l # n
      BY <1>0, <1>l, <1>q, <1>x, <2>1, <3>2 DEF LeaderInv
    <3> QED BY <3>1, <3>2
  <2> QED BY <1>0, <1>x, <2>1 DEF LeaderInv
<1>8. Good(b, Ld, Lg2) /\ TermsUpTo(b, t)
  <2>1. Good(lg, Ld, Lg) /\ TermsUpTo(lg, t)
    BY <1>x, <1>t, <1>lg DEF LogInv
  <2>2. Good(lg, Ld, Lg2)
    BY <1>g, <2>1
  <2>3. ASSUME NEW i \in 1..Len(b)
        PROVE  Ld[b[i].term] # None /\ Agree(b, Lg2[b[i].term], i) /\ b[i].term <= t
    <3>1. CASE i = Len(lg) + 1
      BY <1>1, <1>3, <1>L, <1>ef, <1>n, <1>q, <3>1
    <3>2. CASE i # Len(lg) + 1
      <4>1. i \in 1..Len(lg) /\ i \in Nat /\ i <= Len(lg)
        BY <1>L, <3>2
      <4>2. PICK w \in Nat : w = lg[i].term
        BY <4>1, LogFacts
      <4>3. b[i].term = w
        BY <1>L, <4>1, <4>2
      <4>4. Ld[w] # None /\ Agree(lg, Lg2[w], i) /\ w <= t
        BY <2>1, <2>2, <4>1, <4>2 DEF Good, TermsUpTo
      <4>5. Agree(b, Lg2[w], i)
        <5>1. Lg2[w] \in Logs /\ i <= i
          BY <1>4, <4>1
        <5> QED BY <1>3, <1>L, <4>1, <4>4, <5>1, AgreeTransitive
      <4> QED BY <4>3, <4>4, <4>5
    <3> QED BY <3>1, <3>2
  <2> QED BY <2>3 DEF Good, TermsUpTo
<1>9. LogInv(Ld, Lg2)'
  <2>1. ASSUME NEW p \in Server
        PROVE  Good(log'[p], Ld, Lg2) /\ TermsUpTo(log'[p], currentTerm[p])
    <3>1. CASE p = n
      BY <1>0, <1>8, <1>t, <3>1
    <3>2. CASE p # n
      BY <1>0, <1>c, <1>g, <1>x, <3>2 DEF LogInv
    <3> QED BY <3>1, <3>2
  <2>2. ASSUME NEW u \in Nat, Ld[u] # None
        PROVE  Good(Lg2[u], Ld, Lg2) /\ TermsUpTo(Lg2[u], u)
    <3>1. CASE u = t
      BY <1>8, <1>q, <3>1
    <3>2. CASE u # t
      BY <1>4, <1>g, <1>q, <1>x, <2>2, <3>2 DEF LogInv
    <3> QED BY <3>1, <3>2
  <2> QED BY <1>0, <2>1, <2>2 DEF LogInv
<1>10. CandidateInv(Ld, Lg2, K)'
  <2>1. \A c \in Server, u \in Nat : K[c][u] \in Logs
    BY <1>x DEF HistoryOK
  <2>2. \A c \in Server, u \in Nat : Good(K[c][u], Ld, Lg2)
    BY <1>g, <1>x, <2>1 DEF CandidateInv
  <2>3. \A c \in Server : role[c] = Candidate => c # n
    BY <1>0 DEF Candidate, Leader
  <2> QED BY <1>0, <1>x, <2>2, <2>3 DEF CandidateInv
<1>11. AppendInv(Ld, Lg2)'
  <2> SUFFICES ASSUME NEW m \in msgs, m.type = "AppendEntries"
               PROVE  /\ Ld[m.term] = m.src /\ m.dst # m.src
                      /\ m.prev + Len(m.entries) <= Len(Lg2[m.term])
                      /\ \A j \in 1..Len(m.entries) : m.entries[j] = Lg2[m.term][m.prev + j]
                      /\ m.prevTerm = TermAt(Lg2[m.term], m.prev)
    BY <1>0 DEF AppendInv
  <2>1. PICK u \in Nat : u = m.term
    BY MessageFacts
  <2>2. m.prev \in Nat /\ Len(m.entries) \in Nat
    BY MessageFacts, LogFacts
  <2>3. /\ Ld[u] = m.src /\ m.dst # m.src /\ m.prev + Len(m.entries) <= Len(Lg[u])
        /\ \A j \in 1..Len(m.entries) : m.entries[j] = Lg[u][m.prev + j]
        /\ m.prevTerm = TermAt(Lg[u], m.prev)
    BY <1>x, <2>1 DEF AppendInv
  <2>4. /\ Len(Lg[u]) \in Nat /\ Len(Lg2[u]) \in Nat /\ Len(Lg[u]) <= Len(Lg2[u])
        /\ \A i \in 1..Len(Lg[u]) : Lg2[u][i] = Lg[u][i]
    BY <1>4, LogFacts DEF Agree
  <2>5. ASSUME NEW j \in 1..Len(m.entries) PROVE m.entries[j] = Lg2[u][m.prev + j]
    <3>1. m.prev + j \in 1..Len(Lg[u])
      BY <2>2, <2>3, <2>4
    <3> QED BY <2>3, <2>4, <3>1
  <2>6. m.prevTerm = TermAt(Lg2[u], m.prev)
    <3>1. m.prev = 0 \/ m.prev \in 1..Len(Lg[u])
      BY <2>2, <2>3, <2>4
    <3> QED BY <2>3, <2>4, <3>1 DEF TermAt
  <2> QED BY <2>1, <2>2, <2>3, <2>4, <2>5, <2>6
<1>12. AckInv(Ld, Lg2, A2)'
  <2>1. ASSUME NEW v \in Server, NEW u \in Nat, A2[v][u] > 0
        PROVE  /\ Ld[u] # None /\ A2[v][u] <= Len(Lg2[u]) /\ u <= currentTerm[v]
               /\ u = currentTerm[v] => Agree(log'[v], Lg2[u], A2[v][u])
    <3>1. CASE u = t /\ v = n
      <4>1. Ld[t] # None /\ A2[n][t] = Len(b) /\ Len(b) <= Len(b) /\ t <= t
        BY <1>1, <1>L, <1>n, <1>r
      <4> QED BY <1>0, <1>3, <1>q, <1>t, <3>1, <4>1
    <3>2. CASE u # t \/ v # n
      <4>1. A2[v][u] = A[v][u] /\ A[v][u] \in Nat
        BY <1>r, <1>a, <3>2
      <4>2. /\ Ld[u] # None /\ u <= currentTerm[v] /\ A[v][u] <= Len(Lg[u])
            /\ u = currentTerm[v] => Agree(log[v], Lg[u], A[v][u])
        BY <1>x, <2>1, <4>1 DEF AckInv
      <4>3. Len(Lg[u]) <= Len(Lg2[u]) /\ Len(Lg2[u]) \in Nat
        BY <1>4, LogFacts DEF Agree
      <4>4. ASSUME u = currentTerm[v] PROVE Agree(log'[v], Lg2[u], A[v][u])
        <5>1. v # n /\ log'[v] = log[v] /\ log[v] \in Logs /\ A[v][u] <= A[v][u]
          BY <1>0, <1>c, <1>t, <3>2, <4>1, <4>4
        <5>2. Agree(log[v], Lg2[u], A[v][u])
          BY <1>4, <4>1, <4>2, <4>4, <5>1, AgreeTransitive
        <5> QED BY <5>1, <5>2
      <4> QED BY <1>4, <4>1, <4>2, <4>3, <4>4
    <3> QED BY <3>1, <3>2
  <2>2. ASSUME NEW m \in msgs, m.type = "AppendEntriesResponse", m.granted
        PROVE  m.match <= A2[m.src][m.term]
    <3>1. m.src \in Server /\ m.term \in Nat /\ m.match \in Nat
      BY <2>2, MessageFacts
    <3>2. m.match <= A[m.src][m.term]
      BY <1>x, <2>2 DEF AckInv
    <3>3. A[m.src][m.term] <= A2[m.src][m.term]
      BY <1>5, <3>1 DEF Grows
    <3> QED BY <1>a, <3>1, <3>2, <3>3
  <2>3. ASSUME NEW l \in Server, role[l] = Leader
        PROVE  A2[l][currentTerm[l]] = Len(log'[l])
    <3>1. CASE l = n
      BY <1>0, <1>L, <1>r, <1>t, <3>1
    <3>2. CASE l # n
      BY <1>0, <1>l, <1>r, <1>x, <2>3, <3>2 DEF AckInv
    <3> QED BY <3>1, <3>2
  <2>4. ASSUME NEW l \in Server, NEW p \in Server
        PROVE  IF role[l] = Leader THEN p # l => matchIndex[l][p] <= A2[p][currentTerm[l]]
                                   ELSE matchIndex[l][p] = 0
    <3>1. CASE role[l] = Leader /\ p # l
      <4>1. matchIndex[l][p] <= A[p][currentTerm[l]] /\ matchIndex[l][p] \in Nat
        BY <1>x, <3>1 DEF AckInv, StateOK
      <4>2. A[p][currentTerm[l]] <= A2[p][currentTerm[l]]
        BY <1>5, <1>c DEF Grows
      <4> QED BY <1>a, <1>c, <3>1, <4>1, <4>2
    <3>2. CASE ~(role[l] = Leader /\ p # l)
      BY <1>x, <3>2 DEF AckInv
    <3> QED BY <3>1, <3>2
  <2> QED BY <1>0, <2>1, <2>2, <2>3, <2>4 DEF AckInv
<1>13. KeepInv(V, Ld, Lg2, K, A2)'
  <2> SUFFICES ASSUME NEW u \in Nat, NEW i \in Nat, Choosable(Ld, Lg2, A2, u, i)'
               PROVE  /\ \A v \in Server : A2[v][u] >= i => Agree(log'[v], Lg2[u], i)
                      /\ \A v \in Server, w \in Nat :
                            u < w /\ V[v][w] # None /\ A2[v][u] >= i => Agree(K[V[v][w]][w], Lg2[u], i)
                      /\ \A w \in Nat : u < w /\ Ld[w] # None => Agree(Lg2[w], Lg2[u], i)
    BY DEF KeepInv
  <2>0. Ld[u] # None /\ i \in 1..Len(Lg2[u]) /\ HasMajority({v \in Server : A2[v][u] >= i \/ currentTerm[v] <= u})
    BY <1>0 DEF Choosable
  <2>1. CASE i <= Len(Lg[u])
    <3>0. /\ \A x, y \in Logs : Agree(x, y, i) => i <= Len(x) /\ i <= Len(y)
          /\ Agree(Lg[u], Lg2[u], Len(Lg[u])) /\ Lg[u] \in Logs /\ Lg2[u] \in Logs /\ Len(Lg[u]) \in Nat
          /\ i <= i
      BY <1>4 DEF Agree
    <3>1. \A v \in Server : A2[v][u] >= i => A[v][u] >= i \/ currentTerm[v] <= u
      <4> SUFFICES ASSUME NEW v \in Server, A2[v][u] >= i PROVE A[v][u] >= i \/ currentTerm[v] <= u
        OBVIOUS
      <4>1. CASE u = t /\ v = n
        BY <1>c, <1>t, <4>1
      <4>2. CASE u # t \/ v # n
        BY <1>r, <4>2
      <4> QED BY <4>1, <4>2
    <3>2. Choosable(Ld, Lg, A, u, i)
      <4>1. \A v \in Server : currentTerm[v] <= currentTerm'[v]
        BY <1>0, <1>c
      <4> QED BY <1>2, <1>5, <2>0, <2>1, <3>1, <4>1, ChoosableShrinks
    <3>3. /\ \A v \in Server : A[v][u] >= i => Agree(log[v], Lg[u], i)
          /\ \A v \in Server, w \in Nat :
                u < w /\ V[v][w] # None /\ A[v][u] >= i => Agree(K[V[v][w]][w], Lg[u], i)
          /\ \A w \in Nat : u < w /\ Ld[w] # None => Agree(Lg[w], Lg[u], i)
      BY <1>x, <3>2 DEF KeepInv
    <3>4. \A v \in Server : A2[v][u] >= i => A[v][u] >= i
      <4> SUFFICES ASSUME NEW v \in Server, A2[v][u] >= i PROVE A[v][u] >= i
        OBVIOUS
      <4>1. CASE u = t /\ v = n
        BY <1>1, <2>1, <4>1
      <4>2. CASE u # t \/ v # n
        <5>1. A2[v][u] = A[v][u]
          BY <1>r, <4>2
        <5> QED BY <5>1
      <4> QED BY <4>1, <4>2
    <3>5. \A x \in Logs : Agree(x, Lg[u], i) => Agree(x, Lg2[u], i)
      BY <2>1, <3>0, AgreeTransitive
    <3>6. ASSUME NEW v \in Server, A2[v][u] >= i PROVE Agree(log'[v], Lg2[u], i)
      <4>1. Agree(log[v], Lg2[u], i)
        BY <1>c, <3>3, <3>4, <3>5, <3>6
      <4>2. CASE v = n
        <5>1. Agree(lg, Lg2[u], i) /\ i <= Len(lg)
          BY <1>lg, <3>0, <4>1, <4>2
        <5>2. Agree(b, Lg2[u], i)
          BY <1>3, <1>L, <3>0, <5>1, AgreeTransitive
        <5> QED BY <1>0, <4>2, <5>2
      <4>3. CASE v # n
        BY <1>0, <4>1, <4>3
      <4> QED BY <4>2, <4>3
    <3>7. ASSUME NEW v \in Server, NEW w \in Nat, u < w, V[v][w] # None, A2[v][u] >= i
          PROVE  Agree(K[V[v][w]][w], Lg2[u], i)
      <4>1. V[v][w] \in Server
        BY <1>x, <3>7 DEF HistoryOK
      <4>2. K[V[v][w]][w] \in Logs
        BY <1>x, <4>1 DEF HistoryOK
      <4> QED BY <3>3, <3>4, <3>5, <3>7, <4>2
    <3>8. ASSUME NEW w \in Nat, u < w, Ld[w] # None PROVE Agree(Lg2[w], Lg2[u], i)
      <4>1. Agree(Lg[w], Lg2[u], i) /\ Lg[w] \in Logs /\ Lg2[w] \in Logs /\ Len(Lg[w]) \in Nat
        BY <1>4, <3>3, <3>5, <3>8
      <4>2. i <= Len(Lg[w]) /\ Agree(Lg2[w], Lg[w], Len(Lg[w]))
        BY <1>4, <3>0, <4>1
      <4> QED BY <3>0, <4>1, <4>2, AgreeTransitive
    <3> QED BY <3>6, <3>7, <3>8
  <2>2. CASE i > Len(Lg[u])
    <3>1. u = t /\ i = Len(lg) + 1
      <4>1. u = t
        BY <1>4, <1>q, <2>0, <2>2
      <4> QED BY <1>1, <1>L, <1>q, <2>0, <2>2, <4>1
    <3>2. \A v \in Server : A2[v][u] >= i => v = n
      <4> SUFFICES ASSUME NEW v \in Server, A2[v][t] >= Len(lg) + 1, v # n PROVE FALSE
        BY <3>1
      <4>1. A[v][t] >= Len(lg) + 1 /\ A[v][t] \in Nat
        BY <1>r, <1>a
      <4>2. A[v][t] <= Len(lg)
        <5>1. A[v][t] > 0
          BY <1>L, <4>1
        <5> QED BY <1>1, <1>x, <5>1 DEF AckInv
      <4> QED BY <1>L, <4>1, <4>2
    <3>3. ASSUME NEW v \in Server, A2[v][u] >= i PROVE Agree(log'[v], Lg2[u], i)
      BY <1>0, <1>3, <1>L, <1>q, <3>1, <3>2, <3>3
    <3>4. ASSUME NEW v \in Server, NEW w \in Nat, u < w, V[v][w] # None, A2[v][u] >= i
          PROVE  FALSE
      <4>1. w <= currentTerm[n]
        BY <1>x, <3>2, <3>4 DEF VoteInv
      <4> QED BY <1>t, <3>1, <3>4, <4>1
    <3>5. ASSUME NEW w \in Nat, u < w, Ld[w] # None PROVE FALSE
      <4> DEFINE P == {v \in Server : A2[v][u] >= i \/ currentTerm[v] <= u}
      <4>1. HasMajority(P) /\ P \in SUBSET Server
        BY <2>0
      <4>2. HasMajority(Voters(V, w, Ld[w])) /\ Voters(V, w, Ld[w]) \in SUBSET Server
        BY <1>x, <3>5 DEF LeaderInv, Voters
      <4>3. PICK v \in P : v \in Voters(V, w, Ld[w])
        <5> HIDE DEF P
        <5> QED BY <4>1, <4>2, QuorumsMeet
      <4>4. v \in Server /\ V[v][w] # None
        BY <3>5, <4>3 DEF Voters
      <4>5. w <= currentTerm[v]
        BY <1>x, <4>4 DEF VoteInv
      <4>6. A2[v][u] >= i
        BY <1>c, <3>5, <4>3, <4>4, <4>5
      <4> QED BY <3>4, <3>5, <4>4, <4>6
    <3> QED BY <3>3, <3>4, <3>5
  <2>3. i <= Len(Lg[u]) \/ i > Len(Lg[u])
    BY <1>4
  <2> QED BY <2>1, <2>2, <2>3
<1>14. CommitInv(Ld, Lg2, A2)'
  <2>1. ASSUME NEW p \in Server
        PROVE  /\ Safe(log'[p], commitIndex[p], currentTerm[p], Ld, Lg2, A2)
               /\ Safe(applied[p], Len(applied[p]), currentTerm[p], Ld, Lg2, A2)
               /\ Agree(applied[p], log'[p], Len(applied[p]))
    <3>1. /\ applied[p] \in Logs /\ commitIndex[p] \in Nat /\ Len(applied[p]) \in Nat /\ Len(log[p]) \in Nat
          /\ currentTerm[p] <= currentTerm[p] /\ Len(applied[p]) <= Len(applied[p])
      BY <1>c, LogFacts DEF StateOK
    <3>2. /\ Safe(log[p], commitIndex[p], currentTerm[p], Ld, Lg, A)
          /\ Safe(applied[p], Len(applied[p]), currentTerm[p], Ld, Lg, A)
          /\ Agree(applied[p], log[p], Len(applied[p]))
      BY <1>x DEF CommitInv
    <3>3. Agree(log'[p], log[p], Len(log[p])) /\ Agree(log[p], log'[p], Len(log[p]))
      <4>1. Agree(log'[p], log[p], Len(log[p]))
        <5>1. CASE p = n
          BY <1>0, <1>3, <1>lg, <5>1
        <5>2. CASE p # n
          <6>1. log'[p] = log[p] /\ Len(log[p]) <= Len(log[p])
            BY <1>0, <3>1, <5>2
          <6> QED BY <1>c, <3>1, <6>1, AgreeReflexive
        <5> QED BY <5>1, <5>2
      <4> QED BY <1>c, <3>1, <4>1, AgreeSymmetric
    <3>4. Safe(log'[p], commitIndex[p], currentTerm[p], Ld, Lg2, A2)
      BY <1>2, <1>5, <1>c, <3>1, <3>2, <3>3, SafeExtends
    <3>5. Safe(applied[p], Len(applied[p]), currentTerm[p], Ld, Lg2, A2)
      BY <1>2, <1>5, <1>c, <3>1, <3>2, SafeGrows
    <3>6. Agree(applied[p], log'[p], Len(applied[p]))
      <4>1. Len(applied[p]) <= Len(log[p])
        BY <3>2 DEF Agree
      <4> QED BY <1>c, <3>1, <3>2, <3>3, <4>1, AgreeTransitive
    <3> QED BY <3>4, <3>5, <3>6
  <2>2. ASSUME NEW m \in msgs, m.type = "AppendEntries"
        PROVE  Safe(Lg2[m.term], m.commit, m.term, Ld, Lg2, A2)
    <3>1. m.commit \in Nat /\ m.term \in Nat
      BY <2>2, MessageFacts
    <3>2. Safe(Lg[m.term], m.commit, m.term, Ld, Lg, A)
      BY <1>x, <2>2 DEF CommitInv
    <3> QED BY <1>2, <1>4, <1>5, <3>1, <3>2, SafeExtends
  <2> QED BY <1>0, <2>1, <2>2 DEF CommitInv
<1>15. Explains(V, Ld, Lg2, K, A2)'
  BY <1>2, <1>6, <1>7, <1>9, <1>10, <1>11, <1>12, <1>13, <1>14 DEF Explains, HistoryOK
<1> QED BY <1>15

\* A2 is A with v's acknowledgement of index i in term t.
Acknowledges(v, t, i, A, A2) ==
    /\ A2 \in [Server -> [Nat -> Nat]]
    /\ A2[v][t] = IF i > A[v][t] THEN i ELSE A[v][t]
    /\ \A w \in Server, u \in Nat : u # t \/ w # v => A2[w][u] = A[w][u]

LEMMA AcknowledgeMore ==
    ASSUME NEW A \in [Server -> [Nat -> Nat]], NEW v \in Server, NEW t \in Nat, NEW i \in Nat
    PROVE  \E A2 : Acknowledges(v, t, i, A, A2)
<1> DEFINE a == IF i > A[v][t] THEN i ELSE A[v][t]
           B == [A EXCEPT ![v] = [A[v] EXCEPT ![t] = a]]
<1>1. A[v][t] \in Nat
  OBVIOUS
<1>2. a \in Nat
  BY <1>1
<1> HIDE DEF a
<1>3. /\ B \in [Server -> [Nat -> Nat]] /\ B[v][t] = a
      /\ \A w \in Server, u \in Nat : u # t \/ w # v => B[w][u] = A[w][u]
  BY <1>2
<1> HIDE DEF B
<1>4. Acknowledges(v, t, i, A, B)
  BY <1>3 DEF Acknowledges, a
<1> QED BY <1>4

\* A follower takes over what a leader sent: it keeps what is safe, and acknowledges a prefix.
LEMMA EntriesAcceptedExplained ==
    ASSUME StateOK, StateOK', MessagesOK, NEW n \in Server, NEW m \in msgs,
           m.type = "AppendEntries", m.src # n, currentTerm[n] <= m.term,
           PrefixMatches(log[n], m.prev, m.prevTerm),
           applied' = applied, currentTerm'[n] = m.term,
           m.term = currentTerm[n] => votedFor'[n] = votedFor[n],
           role'[n] = Follower, \A p \in Server : matchIndex'[n][p] = 0,
           log'[n] = MergeAfter(log[n], m.prev, m.entries),
           commitIndex'[n] \in {commitIndex[n], Smaller(m.commit, m.prev + Len(m.entries))},
           \A p \in Server \ {n} :
               /\ currentTerm'[p] = currentTerm[p] /\ votedFor'[p] = votedFor[p] /\ role'[p] = role[p]
               /\ votesReceived'[p] = votesReceived[p] /\ matchIndex'[p] = matchIndex[p]
               /\ log'[p] = log[p] /\ commitIndex'[p] = commitIndex[p],
           NEW r, r.type = "AppendEntriesResponse", r.src = n, r.term = m.term,
           r.match = m.prev + Len(m.entries),
           \A x \in msgs' : x \in msgs \/ x = r,
           NEW V, NEW Ld, NEW Lg, NEW K, NEW A, Explains(V, Ld, Lg, K, A),
           NEW A2, Acknowledges(n, m.term, r.match, A, A2)
    PROVE  Explains(V, Ld, Lg, K, A2)'
<1>x. /\ VoteInv(V) /\ LeaderInv(V, Ld, Lg) /\ LogInv(Ld, Lg) /\ CandidateInv(Ld, Lg, K)
      /\ AppendInv(Ld, Lg) /\ AckInv(Ld, Lg, A) /\ KeepInv(V, Ld, Lg, K, A) /\ CommitInv(Ld, Lg, A)
      /\ HistoryOK(V, Ld, Lg, K, A)
  BY DEF Explains
<1>f. Follower # Candidate /\ Follower # Leader /\ Candidate # Leader
  BY DEF Follower, Candidate, Leader
<1>t. PICK t \in Nat : t = m.term
  BY MessageFacts
<1>lg. PICK lg \in Logs : lg = log[n]
  BY DEF StateOK
<1>b. PICK b \in Logs : b = log'[n]
  BY DEF StateOK
<1>L. PICK L \in Logs : L = Lg[t]
  BY <1>x DEF HistoryOK
<1>k. PICK k \in Nat : k = m.prev + Len(m.entries)
  BY MessageFacts, LogFacts
<1>i. m.prev \in Nat /\ m.entries \in Logs /\ Len(m.entries) \in Nat /\ m.commit \in Nat
  BY MessageFacts, LogFacts
<1>c. /\ \A v \in Server : currentTerm[v] \in Nat /\ currentTerm'[v] \in Nat /\ currentTerm[v] <= currentTerm'[v]
      /\ currentTerm[n] <= t /\ currentTerm'[n] = t
      /\ \A v \in Server : log[v] \in Logs /\ log'[v] \in Logs
  <2>1. /\ \A v \in Server : currentTerm[v] \in Nat /\ currentTerm'[v] \in Nat
        /\ \A v \in Server : log[v] \in Logs /\ log'[v] \in Logs
    BY DEF StateOK
  <2>2. currentTerm[n] <= t /\ currentTerm'[n] = t
    BY <1>t
  <2>3. \A v \in Server : currentTerm[v] <= currentTerm'[v]
    BY <2>1, <2>2
  <2> QED BY <2>1, <2>2, <2>3
<1>1. /\ Ld[t] = m.src /\ Ld[t] # None /\ k <= Len(L)
      /\ \A j \in 1..Len(m.entries) : m.entries[j] = L[m.prev + j]
      /\ m.prevTerm = TermAt(L, m.prev)
  <2>1. m.src # None
    BY MessageFacts, NoneAssumption
  <2> QED BY <1>x, <1>t, <1>L, <1>k, <2>1 DEF AppendInv
<1>h. HistoryLogs(Ld, Lg, A)
  BY <1>x DEF HistoryOK, HistoryLogs
<1>2. Good(lg, Ld, Lg) /\ TermsUpTo(lg, currentTerm[n]) /\ Good(L, Ld, Lg) /\ TermsUpTo(L, t)
  BY <1>x, <1>lg, <1>L, <1>1 DEF LogInv
<1>len. Len(lg) \in Nat /\ Len(L) \in Nat /\ Len(b) \in Nat
  BY LogFacts
<1>3. \A i \in 1..Len(lg) : i <= Len(L) /\ lg[i].term = L[i].term => Agree(lg, L, i)
  BY <1>h, <1>2, GoodLogsMatch
<1>4. Agree(lg, L, m.prev)
  <2>1. m.prev <= Len(lg) /\ m.prev <= Len(L) /\ TermAt(lg, m.prev) = TermAt(L, m.prev)
    BY <1>1, <1>i, <1>k, <1>len, <1>lg DEF PrefixMatches
  <2>2. CASE m.prev = 0
    BY <1>len, <2>2 DEF Agree
  <2>3. CASE m.prev # 0
    <3>1. m.prev \in 1..Len(lg) /\ lg[m.prev].term = L[m.prev].term
      BY <1>i, <1>len, <2>1, <2>3 DEF TermAt
    <3> QED BY <1>3, <2>1, <3>1
  <2> QED BY <2>2, <2>3
<1>5. /\ Agree(b, L, k) /\ (\A i \in Nat : Agree(lg, L, i) => Agree(b, L, i))
      /\ b = lg \/ Len(b) = k
  <2>0. PICK inc \in Logs, prev \in Nat : inc = m.entries /\ prev = m.prev
    BY <1>i
  <2>k. prev + Len(inc) = k
    BY <1>k, <2>0
  <2>1. prev + Len(inc) <= Len(L)
    BY <1>1, <2>k
  <2>2. \A j \in 1..Len(inc) : inc[j] = L[prev + j]
    BY <1>1, <2>0
  <2>3. Agree(lg, L, prev)
    BY <1>4, <2>0
  <2> DEFINE r2 == MergeAfter(lg, prev, inc)
  <2>4. /\ Agree(r2, L, prev + Len(inc))
        /\ \A i \in Nat : Agree(lg, L, i) => Agree(r2, L, i)
        /\ r2 = lg \/ Len(r2) = prev + Len(inc)
    BY <1>3, <2>1, <2>2, <2>3, MergeFollowsLeader
  <2>5. r2 = b
    BY <1>b, <1>lg, <2>0
  <2> HIDE DEF r2
  <2> QED BY <2>k, <2>4, <2>5
<1>6. Good(b, Ld, Lg) /\ TermsUpTo(b, t)
  <2>1. CASE b = lg
    <3>1. TermsUpTo(lg, t)
      BY <1>2, <1>c, LogFacts DEF TermsUpTo
    <3> QED BY <1>2, <2>1, <3>1
  <2>2. CASE Len(b) = k
    BY <1>h, <1>2, <1>5, <2>2, GoodPrefix
  <2> QED BY <1>5, <2>1, <2>2
<1>a0. A[n][t] \in Nat
  BY <1>h DEF HistoryLogs
<1>a. PICK a \in Nat : /\ a >= k /\ a >= A[n][t] /\ a <= Len(L) /\ Agree(b, L, a)
                      /\ a = IF k > A[n][t] THEN k ELSE A[n][t]
  <2>2. CASE k > A[n][t]
    BY <1>1, <1>5, <1>a0, <2>2
  <2>3. CASE k <= A[n][t]
    <3>1. CASE A[n][t] = 0
      BY <1>1, <1>5, <2>3, <3>1
    <3>2. CASE A[n][t] > 0
      <4>1. t <= currentTerm[n] /\ A[n][t] <= Len(L) /\ (t = currentTerm[n] => Agree(lg, L, A[n][t]))
        BY <1>x, <1>lg, <1>L, <3>2 DEF AckInv
      <4>2. Agree(lg, L, A[n][t])
        BY <1>c, <4>1
      <4>3. A[n][t] >= k /\ A[n][t] >= A[n][t] /\ A[n][t] <= Len(L) /\ Agree(b, L, A[n][t])
        BY <1>5, <1>a0, <2>3, <4>1, <4>2
      <4> QED BY <1>a0, <2>3, <4>3
    <3> QED BY <1>a0, <3>1, <3>2
  <2> QED BY <1>a0, <2>2, <2>3
<1>A. /\ A2 \in [Server -> [Nat -> Nat]] /\ A2[n][t] = a
      /\ \A v \in Server, u \in Nat : u # t \/ v # n => A2[v][u] = A[v][u]
  <2>1. Acknowledges(n, t, k, A, A2)
    BY <1>t, <1>k
  <2> QED BY <1>a, <2>1 DEF Acknowledges
<1>7. HistoryOK(V, Ld, Lg, K, A2) /\ HistoryLogs(Ld, Lg, A2)
  BY <1>x, <1>A DEF HistoryOK, HistoryLogs
<1>an. \A v \in Server, u \in Nat : A[v][u] \in Nat /\ A2[v][u] \in Nat
  BY <1>h, <1>7 DEF HistoryLogs
<1>8. Grows(Ld, Lg, A, Ld, Lg, A2)
  <2>1. ASSUME NEW v \in Server, NEW u \in Nat PROVE A[v][u] <= A2[v][u]
    <3>1. CASE u = t /\ v = n
      BY <1>a, <1>A, <1>an, <3>1
    <3>2. CASE u # t \/ v # n
      <4>1. A2[v][u] = A[v][u] /\ A[v][u] \in Nat
        BY <1>A, <1>an, <3>2
      <4> QED BY <4>1
    <3> QED BY <3>1, <3>2
  <2>2. \A u \in Nat : Agree(Lg[u], Lg[u], Len(Lg[u]))
    BY <1>h, GrowsReflexive, LogFacts, AgreeReflexive DEF HistoryLogs
  <2> QED BY <2>1, <2>2 DEF Grows
<1>u. \A c \in Server : role'[c] # Follower =>
          /\ c # n /\ role'[c] = role[c] /\ currentTerm'[c] = currentTerm[c] /\ votedFor'[c] = votedFor[c]
          /\ votesReceived'[c] = votesReceived[c] /\ matchIndex'[c] = matchIndex[c] /\ log'[c] = log[c]
  OBVIOUS
<1>m. \A x \in msgs' : x.type # "AppendEntriesResponse" => x \in msgs
  OBVIOUS
<1>9. VoteInv(V)'
  <2>1. ASSUME NEW v \in Server, NEW u \in Nat, V[v][u] # None
        PROVE  /\ u <= currentTerm'[v] /\ u <= currentTerm'[V[v][u]]
               /\ u = currentTerm'[v] => votedFor'[v] = V[v][u]
    <3>1. V[v][u] \in Server
      <4>1. V \in [Server -> [Nat -> Server \cup {None}]]
        BY <1>x DEF HistoryOK
      <4> QED BY <2>1, <4>1
    <3>2. u <= currentTerm[v] /\ u <= currentTerm[V[v][u]] /\ (u = currentTerm[v] => votedFor[v] = V[v][u])
      BY <1>x, <2>1 DEF VoteInv
    <3>3. u = currentTerm'[v] => u = currentTerm[v] /\ votedFor'[v] = votedFor[v]
      <4>1. CASE v = n
        <5> SUFFICES ASSUME u = t PROVE u = currentTerm[n] /\ votedFor'[n] = votedFor[n]
          BY <1>c, <4>1
        <5>1. u = currentTerm[n]
          BY <1>c, <3>2, <4>1
        <5> QED BY <1>t, <5>1
      <4>2. CASE v # n
        BY <4>2
      <4> QED BY <4>1, <4>2
    <3> QED BY <1>c, <3>1, <3>2, <3>3
  <2>2. ASSUME NEW c \in Server, role'[c] # Follower
        PROVE  /\ votedFor'[c] = c /\ \A v \in votesReceived'[c] : V[v][currentTerm'[c]] = c
               /\ role'[c] = Leader => HasMajority(votesReceived'[c])
    BY <1>u, <1>x, <2>2 DEF VoteInv
  <2>3. \A x \in msgs' : x.type = "RequestVoteResponse" /\ x.granted => V[x.src][x.term] = x.dst
    BY <1>m, <1>x DEF VoteInv
  <2> QED BY <1>f, <2>1, <2>2, <2>3 DEF VoteInv
<1>10. LeaderInv(V, Ld, Lg)'
  <2>1. ASSUME NEW u \in Nat, Ld[u] # None
        PROVE  HasMajority(Voters(V, u, Ld[u])) /\ u <= currentTerm'[Ld[u]]
    <3>1. Ld[u] \in Server /\ HasMajority(Voters(V, u, Ld[u])) /\ u <= currentTerm[Ld[u]]
      BY <1>x, <2>1 DEF LeaderInv, HistoryOK
    <3> QED BY <1>c, <3>1
  <2>2. /\ \A l \in Server : role'[l] = Leader => Ld[currentTerm'[l]] = l /\ log'[l] = Lg[currentTerm'[l]]
        /\ \A c \in Server : role'[c] = Candidate => Ld[currentTerm'[c]] # c
    BY <1>f, <1>u, <1>x DEF LeaderInv
  <2> QED BY <2>1, <2>2 DEF LeaderInv, Voters
<1>11. LogInv(Ld, Lg)'
  <2>1. ASSUME NEW p \in Server
        PROVE  Good(log'[p], Ld, Lg) /\ TermsUpTo(log'[p], currentTerm'[p])
    <3>1. CASE p = n
      BY <1>6, <1>b, <1>c, <3>1
    <3>2. CASE p # n
      BY <1>x, <3>2 DEF LogInv
    <3> QED BY <3>1, <3>2
  <2> QED BY <1>x, <2>1 DEF LogInv
<1>12. CandidateInv(Ld, Lg, K)'
  <2>1. \A c \in Server : role'[c] = Candidate => log'[c] = K[c][currentTerm'[c]]
    BY <1>f, <1>u, <1>x DEF CandidateInv
  <2>2. ASSUME NEW x \in msgs', x.type = "RequestVote"
        PROVE  /\ x.term <= currentTerm'[x.src]
               /\ x.lastIndex = Len(K[x.src][x.term]) /\ x.lastTerm = LastTerm(K[x.src][x.term])
    <3>1. x \in msgs
      BY <1>m, <2>2
    <3>2. x.term \in Nat /\ x.src \in Server
      BY <3>1, MessageFacts
    <3> QED BY <1>c, <1>x, <2>2, <3>1, <3>2 DEF CandidateInv
  <2> QED BY <1>x, <2>1, <2>2 DEF CandidateInv
<1>13. AppendInv(Ld, Lg)'
  BY <1>m, <1>x DEF AppendInv
<1>14. AckInv(Ld, Lg, A2)'
  <2>1. ASSUME NEW v \in Server, NEW u \in Nat, A2[v][u] > 0
        PROVE  /\ Ld[u] # None /\ u <= currentTerm'[v] /\ A2[v][u] <= Len(Lg[u])
               /\ u = currentTerm'[v] => Agree(log'[v], Lg[u], A2[v][u])
    <3>1. CASE u = t /\ v = n
      <4>1. A2[v][u] = a /\ Lg[u] = L /\ log'[v] = b /\ currentTerm'[v] = u /\ Ld[u] # None
        BY <1>1, <1>A, <1>b, <1>c, <1>L, <3>1
      <4> QED BY <1>a, <4>1
    <3>2. CASE u # t \/ v # n
      <4>1. A2[v][u] = A[v][u]
        BY <1>A, <3>2
      <4>2. /\ Ld[u] # None /\ u <= currentTerm[v] /\ A[v][u] <= Len(Lg[u])
            /\ u = currentTerm[v] => Agree(log[v], Lg[u], A[v][u])
        BY <1>x, <2>1, <4>1 DEF AckInv
      <4>3. u = currentTerm'[v] => v # n
        BY <1>c, <3>2
      <4> QED BY <1>c, <4>1, <4>2, <4>3
    <3> QED BY <3>1, <3>2
  <2>2. ASSUME NEW x \in msgs', x.type = "AppendEntriesResponse", x.granted
        PROVE  x.match <= A2[x.src][x.term]
    <3>1. CASE x = r
      BY <1>a, <1>A, <1>k, <1>t, <3>1
    <3>2. CASE x # r
      <4>1. x \in msgs
        BY <3>2
      <4>2. x.src \in Server /\ x.term \in Nat /\ x.match \in Nat
        BY <2>2, <4>1, MessageFacts
      <4>3. x.match <= A[x.src][x.term]
        BY <1>x, <2>2, <4>1 DEF AckInv
      <4>4. A[x.src][x.term] <= A2[x.src][x.term]
        BY <1>8, <4>2 DEF Grows
      <4> QED BY <1>an, <4>2, <4>3, <4>4
    <3> QED BY <3>1, <3>2
  <2>3. ASSUME NEW l \in Server, role'[l] = Leader
        PROVE  A2[l][currentTerm'[l]] = Len(log'[l])
    <3>1. l # n /\ role[l] = Leader /\ currentTerm'[l] = currentTerm[l] /\ log'[l] = log[l]
      BY <1>f, <1>u, <2>3
    <3>2. A[l][currentTerm[l]] = Len(log[l])
      BY <1>x, <3>1 DEF AckInv
    <3>3. A2[l][currentTerm[l]] = A[l][currentTerm[l]]
      BY <1>A, <1>c, <3>1
    <3> QED BY <3>1, <3>2, <3>3
  <2>4. ASSUME NEW l \in Server, NEW p \in Server
        PROVE  IF role'[l] = Leader THEN p # l => matchIndex'[l][p] <= A2[p][currentTerm'[l]]
                                    ELSE matchIndex'[l][p] = 0
    <3>1. CASE role'[l] = Leader /\ p # l
      <4>0. l # n /\ role[l] = Leader /\ currentTerm'[l] = currentTerm[l] /\ matchIndex'[l] = matchIndex[l]
        BY <1>f, <1>u, <3>1
      <4>1. matchIndex[l][p] <= A[p][currentTerm[l]] /\ matchIndex[l][p] \in Nat
        BY <1>x, <3>1, <4>0 DEF AckInv, StateOK
      <4>2. A[p][currentTerm[l]] <= A2[p][currentTerm[l]]
        BY <1>8, <1>c DEF Grows
      <4> QED BY <1>an, <1>c, <3>1, <4>0, <4>1, <4>2
    <3>2. CASE role'[l] # Leader
      <4>1. CASE l = n
        BY <3>2, <4>1
      <4>2. CASE l # n
        BY <1>x, <3>2, <4>2 DEF AckInv
      <4> QED BY <4>1, <4>2
    <3> QED BY <3>1, <3>2
  <2> QED BY <2>1, <2>2, <2>3, <2>4 DEF AckInv
<1>15. KeepInv(V, Ld, Lg, K, A2)'
  <2> SUFFICES ASSUME NEW u \in Nat, NEW i \in Nat, Choosable(Ld, Lg, A2, u, i)'
               PROVE  /\ \A v \in Server : A2[v][u] >= i => Agree(log'[v], Lg[u], i)
                      /\ \A v \in Server, w \in Nat :
                            u < w /\ V[v][w] # None /\ A2[v][u] >= i => Agree(K[V[v][w]][w], Lg[u], i)
                      /\ \A w \in Nat : u < w /\ Ld[w] # None => Agree(Lg[w], Lg[u], i)
    BY DEF KeepInv
  <2>0. Ld[u] # None /\ i \in 1..Len(Lg[u]) /\ i <= Len(Lg[u]) /\ Lg[u] \in Logs /\ i <= i /\ i > 0
    <3>1. Ld[u] # None /\ i \in 1..Len(Lg[u]) /\ Lg[u] \in Logs
      BY <1>h DEF Choosable, HistoryLogs
    <3> QED BY <3>1, LogFacts
  <2>1. Choosable(Ld, Lg, A, u, i)
    <3>1. \A v \in Server : A2[v][u] >= i => A[v][u] >= i \/ currentTerm[v] <= u
      <4> SUFFICES ASSUME NEW v \in Server, A2[v][u] >= i PROVE A[v][u] >= i \/ currentTerm[v] <= u
        OBVIOUS
      <4>1. CASE u = t /\ v = n
        BY <1>c, <4>1
      <4>2. CASE u # t \/ v # n
        BY <1>A, <4>2
      <4> QED BY <4>1, <4>2
    <3> QED BY <1>h, <1>7, <1>8, <1>c, <2>0, <3>1, ChoosableShrinks
  <2>2. /\ \A v \in Server : A[v][u] >= i => Agree(log[v], Lg[u], i)
        /\ \A v \in Server, w \in Nat :
              u < w /\ V[v][w] # None /\ A[v][u] >= i => Agree(K[V[v][w]][w], Lg[u], i)
        /\ \A w \in Nat : u < w /\ Ld[w] # None => Agree(Lg[w], Lg[u], i)
    BY <1>x, <2>1 DEF KeepInv
  <2>3. ASSUME NEW v \in Server, A2[v][u] >= i PROVE Agree(log'[v], Lg[u], i)
    <3>1. CASE v # n
      BY <1>A, <2>2, <2>3, <3>1
    <3>2. CASE v = n /\ u = t
      <4>1. Agree(b, L, i)
        BY <1>a, <1>A, <2>3, <3>2, AgreeDown
      <4> QED BY <1>b, <1>L, <3>2, <4>1
    <3>3. CASE v = n /\ u # t
      <4>1. A[n][u] >= i /\ A[n][u] > 0
        <5>1. A2[n][u] = A[n][u] /\ A[n][u] \in Nat
          BY <1>A, <1>an, <3>3
        <5> QED BY <2>0, <2>3, <3>3, <5>1
      <4>2. u < t
        <5>1. u <= currentTerm[n]
          BY <1>x, <4>1 DEF AckInv
        <5> QED BY <1>c, <3>3, <5>1
      <4>3. Agree(lg, Lg[u], i) /\ Agree(L, Lg[u], i)
        BY <1>1, <1>lg, <1>L, <2>2, <4>1, <4>2
      <4>4. Agree(Lg[u], L, i)
        BY <2>0, <4>3, AgreeSymmetric
      <4>5. Agree(lg, L, i)
        BY <2>0, <4>3, <4>4, AgreeTransitive
      <4>6. Agree(b, L, i)
        BY <1>5, <4>5
      <4>7. Agree(b, Lg[u], i)
        BY <2>0, <4>3, <4>6, AgreeTransitive
      <4> QED BY <1>b, <3>3, <4>7
    <3> QED BY <3>1, <3>2, <3>3
  <2>4. ASSUME NEW v \in Server, NEW w \in Nat, u < w, V[v][w] # None, A2[v][u] >= i
        PROVE  Agree(K[V[v][w]][w], Lg[u], i)
    <3>1. CASE u = t /\ v = n
      <4>1. w <= currentTerm[n]
        BY <1>x, <2>4, <3>1 DEF VoteInv
      <4> QED BY <1>c, <2>4, <3>1, <4>1
    <3>2. CASE u # t \/ v # n
      BY <1>A, <2>2, <2>4, <3>2
    <3> QED BY <3>1, <3>2
  <2> QED BY <2>2, <2>3, <2>4
<1>16. CommitInv(Ld, Lg, A2)'
  <2>1. ASSUME NEW p \in Server
        PROVE  /\ applied[p] \in Logs /\ commitIndex[p] \in Nat /\ Len(applied[p]) \in Nat
               /\ Safe(log[p], commitIndex[p], currentTerm[p], Ld, Lg, A)
               /\ Safe(applied[p], Len(applied[p]), currentTerm[p], Ld, Lg, A)
               /\ Agree(applied[p], log[p], Len(applied[p]))
    BY <1>x, LogFacts DEF CommitInv, StateOK
  <2>2. \A x \in Logs, i \in Nat : Safe(x, i, t, Ld, Lg, A) => Safe(x, i, t, Ld, Lg, A2)
    <3>1. t <= t
      OBVIOUS
    <3> QED BY <1>h, <1>7, <1>8, <3>1, SafeGrows
  <2>3. \A x \in Logs, i \in Nat, p \in Server :
            Safe(x, i, currentTerm[p], Ld, Lg, A) => Safe(x, i, currentTerm'[p], Ld, Lg, A2)
    BY <1>h, <1>7, <1>8, <1>c, SafeGrows
  <2>4. Safe(applied[n], Len(applied[n]), currentTerm'[n], Ld, Lg, A2) /\ Agree(applied[n], b, Len(applied[n]))
    <3> DEFINE x == applied[n]
    <3>1. x \in Logs /\ Len(x) \in Nat /\ Len(x) <= Len(x)
      BY <2>1
    <3>2. Agree(x, L, Len(x))
      BY <1>c, <1>h, <1>x, <1>1, <1>L, <2>1, SafeIsInLeader
    <3>3. Agree(lg, L, Len(x))
      <4>1. Agree(lg, x, Len(x))
        BY <1>lg, <2>1, <3>1, AgreeSymmetric
      <4> QED BY <3>1, <3>2, <4>1, AgreeTransitive
    <3>4. Agree(L, b, Len(x))
      BY <1>5, <3>1, <3>3, AgreeSymmetric
    <3>5. Agree(x, b, Len(x))
      BY <3>1, <3>2, <3>4, AgreeTransitive
    <3> QED BY <2>1, <2>3, <3>5
  <2>5. Safe(b, commitIndex'[n], t, Ld, Lg, A2)
    <3>1. CASE commitIndex'[n] = commitIndex[n]
      <4> DEFINE i == commitIndex[n]
      <4>1. i \in Nat /\ i <= i /\ Safe(lg, i, currentTerm[n], Ld, Lg, A)
        BY <1>lg, <2>1
      <4> HIDE DEF i
      <4>2. Agree(lg, L, i)
        BY <1>c, <1>h, <1>x, <1>1, <1>L, <4>1, SafeIsInLeader
      <4>3. Agree(L, lg, i) /\ Agree(b, L, i)
        BY <1>5, <4>1, <4>2, AgreeSymmetric
      <4>4. Agree(b, lg, i)
        BY <4>1, <4>3, AgreeTransitive
      <4>5. Safe(b, i, currentTerm[n], Ld, Lg, A)
        BY <1>c, <1>h, <4>1, <4>4, SafeAgrees
      <4> QED BY <1>c, <2>3, <3>1, <4>1, <4>5 DEF i
    <3>2. CASE commitIndex'[n] = Smaller(m.commit, k)
      <4> DEFINE i == commitIndex'[n]
      <4>1. i \in Nat /\ i <= m.commit /\ i <= k
        BY <1>i, <3>2 DEF Smaller
      <4> HIDE DEF i
      <4>2. Safe(L, m.commit, t, Ld, Lg, A)
        BY <1>x, <1>t, <1>L DEF CommitInv
      <4>3. Agree(b, L, i)
        BY <1>5, <4>1, AgreeDown
      <4>4. Safe(b, i, t, Ld, Lg, A)
        BY <1>h, <1>i, <4>1, <4>2, <4>3, SafeAgrees
      <4> QED BY <2>2, <4>1, <4>4 DEF i
    <3> QED BY <1>k, <3>1, <3>2
  <2>6. ASSUME NEW p \in Server
        PROVE  /\ Safe(log'[p], commitIndex'[p], currentTerm'[p], Ld, Lg, A2)
               /\ Safe(applied[p], Len(applied[p]), currentTerm'[p], Ld, Lg, A2)
               /\ Agree(applied[p], log'[p], Len(applied[p]))
    <3>1. CASE p = n
      BY <1>b, <1>c, <2>4, <2>5, <3>1
    <3>2. CASE p # n
      <4>1. log'[p] = log[p] /\ commitIndex'[p] = commitIndex[p]
        BY <3>2
      <4> QED BY <1>c, <2>1, <2>3, <4>1
    <3> QED BY <3>1, <3>2
  <2>7. ASSUME NEW x \in msgs', x.type = "AppendEntries"
        PROVE  Safe(Lg[x.term], x.commit, x.term, Ld, Lg, A2)
    <3>1. x \in msgs
      BY <1>m, <2>7
    <3>2. x.term \in Nat /\ x.commit \in Nat /\ x.term <= x.term
      BY <2>7, <3>1, MessageFacts
    <3>3. Lg[x.term] \in Logs
      BY <1>h, <3>2 DEF HistoryLogs
    <3>4. Safe(Lg[x.term], x.commit, x.term, Ld, Lg, A)
      BY <1>x, <2>7, <3>1 DEF CommitInv
    <3> QED BY <1>h, <1>7, <1>8, <3>2, <3>3, <3>4, SafeGrows
  <2> QED BY <2>6, <2>7 DEF CommitInv
<1> QED
  BY <1>7, <1>9, <1>10, <1>11, <1>12, <1>13, <1>14, <1>15, <1>16 DEF Explains, HistoryOK

LEMMA AppendEntriesExplained ==
    ASSUME StateOK, StateOK', MessagesOK,
           NEW n \in Server, NEW m \in msgs, HandleAppendEntries(n, m),
           NEW V, NEW Ld, NEW Lg, NEW K, NEW A, Explains(V, Ld, Lg, K, A)
    PROVE  \E V2, Ld2, Lg2, K2, A2 : Explains(V2, Ld2, Lg2, K2, A2)'
<1>1. /\ m.term \in Nat /\ m.src \in Server /\ m.type = "AppendEntries" /\ m.src # n
      /\ m.prev \in Nat /\ m.entries \in Logs /\ Len(m.entries) \in Nat
  BY MessageFacts, LogFacts DEF HandleAppendEntries, Receives
<1>n. currentTerm[n] \in Nat
  BY DEF StateOK
<1>t. PICK newer, current, success, match :
          /\ newer = (m.term > currentTerm[n])
          /\ current = (m.term >= currentTerm[n])
          /\ success = (current /\ PrefixMatches(log[n], m.prev, m.prevTerm))
          /\ match = IF success THEN m.prev + Len(m.entries) ELSE 0
  OBVIOUS
<1>b. /\ newer => m.term > currentTerm[n] /\ current
      /\ ~newer => m.term <= currentTerm[n]
      /\ current <=> currentTerm[n] <= m.term
      /\ current /\ ~newer => currentTerm[n] = m.term
  <2>1. m.term > currentTerm[n] \/ m.term <= currentTerm[n]
    BY <1>1, <1>n
  <2>2. m.term > currentTerm[n] => currentTerm[n] <= m.term
    BY <1>1, <1>n
  <2>3. m.term >= currentTerm[n] <=> currentTerm[n] <= m.term
    BY <1>1, <1>n
  <2>4. currentTerm[n] <= m.term /\ ~(m.term > currentTerm[n]) => currentTerm[n] = m.term
    BY <1>1, <1>n
  <2> QED BY <1>t, <2>1, <2>2, <2>3, <2>4
<1>r. PICK r : r = [type |-> "AppendEntriesResponse", term |-> currentTerm'[n], src |-> n, dst |-> m.src,
                    granted |-> success, match |-> match]
  OBVIOUS
<1>2. /\ IF newer THEN PersistTermAndVote(n, m.term, None) ELSE UNCHANGED <<currentTerm, votedFor>>
      /\ IF current THEN BecomeFollower(n) ELSE UNCHANGED <<role, votesReceived, matchIndex>>
      /\ IF success
           THEN /\ log' = [log EXCEPT ![n] = MergeAfter(log[n], m.prev, m.entries)]
                /\ AdvanceNodeCommit(n, Smaller(m.commit, match))
           ELSE UNCHANGED <<log, commitIndex>>
      /\ applied' = applied
  BY <1>t DEF HandleAppendEntries
<1>3. \A x \in msgs' : x \in msgs \/ x = r
  <2>1. Deliver(m, Answer(r))
    BY <1>t, <1>r DEF HandleAppendEntries
  <2> QED BY <2>1 DEF Deliver, Answer
<1>4. r.type = "AppendEntriesResponse" /\ r.src = n /\ r.term = currentTerm'[n] /\ r.granted = success /\ r.match = match
  BY <1>r
<1>5. /\ newer => currentTerm'[n] = m.term
      /\ ~newer => currentTerm'[n] = currentTerm[n] /\ votedFor'[n] = votedFor[n]
      /\ \A p \in Server \ {n} : currentTerm'[p] = currentTerm[p] /\ votedFor'[p] = votedFor[p]
  BY <1>2 DEF StateOK, PersistTermAndVote
<1>6. /\ current => role'[n] = Follower /\ \A p \in Server : matchIndex'[n][p] = 0
      /\ \A p \in Server \ {n} :
            role'[p] = role[p] /\ votesReceived'[p] = votesReceived[p] /\ matchIndex'[p] = matchIndex[p]
  BY <1>2 DEF StateOK, BecomeFollower, ResetReplicator
<1>7. CASE success
  <2>1. current /\ PrefixMatches(log[n], m.prev, m.prevTerm) /\ match = m.prev + Len(m.entries)
    BY <1>t, <1>7
  <2>2. currentTerm[n] <= m.term /\ currentTerm'[n] = m.term
    BY <1>b, <1>5, <2>1
  <2>3. m.term = currentTerm[n] => votedFor'[n] = votedFor[n]
    BY <1>1, <1>n, <1>b, <1>5
  <2>4. /\ log'[n] = MergeAfter(log[n], m.prev, m.entries)
        /\ commitIndex'[n] \in {commitIndex[n], Smaller(m.commit, m.prev + Len(m.entries))}
        /\ \A p \in Server \ {n} : log'[p] = log[p] /\ commitIndex'[p] = commitIndex[p]
    BY <1>2, <1>7, <2>1 DEF StateOK, AdvanceNodeCommit
  <2>5. PICK A2 : Acknowledges(n, m.term, r.match, A, A2)
    <3>1. A \in [Server -> [Nat -> Nat]]
      BY DEF Explains, HistoryOK
    <3>2. r.match \in Nat
      BY <1>1, <1>4, <2>1
    <3> QED BY <1>1, <3>1, <3>2, AcknowledgeMore
  <2>6. r.type = "AppendEntriesResponse" /\ r.src = n /\ r.term = m.term /\ r.match = m.prev + Len(m.entries)
    BY <1>4, <2>1, <2>2
  <2>7. role'[n] = Follower /\ (\A p \in Server : matchIndex'[n][p] = 0) /\ applied' = applied
    BY <1>2, <1>6, <2>1
  <2>8. \A p \in Server \ {n} :
            /\ currentTerm'[p] = currentTerm[p] /\ votedFor'[p] = votedFor[p] /\ role'[p] = role[p]
            /\ votesReceived'[p] = votesReceived[p] /\ matchIndex'[p] = matchIndex[p]
            /\ log'[p] = log[p] /\ commitIndex'[p] = commitIndex[p]
    BY <1>5, <1>6, <2>4
  <2>9. Explains(V, Ld, Lg, K, A2)'
    BY <1>1, <1>3, <2>1, <2>2, <2>3, <2>4, <2>5, <2>6, <2>7, <2>8, EntriesAcceptedExplained
  <2> QED BY <2>9
<1>8. CASE ~success
  <2>1. OnlyRefusals
    BY <1>3, <1>4, <1>8 DEF OnlyRefusals
  <2>2. CASE current
    <3>1. currentTerm[n] <= currentTerm'[n] /\ (currentTerm'[n] = currentTerm[n] => votedFor'[n] = votedFor[n])
      <4>1. CASE newer
        BY <1>1, <1>n, <1>b, <1>5, <4>1
      <4>2. CASE ~newer
        BY <1>n, <1>5, <4>2
      <4> QED BY <4>1, <4>2
    <3>2. /\ log' = log /\ applied' = applied
          /\ commitIndex'[n] \in {0, commitIndex[n]} /\ \A p \in Server \ {n} : commitIndex'[p] = commitIndex[p]
      BY <1>2, <1>8
    <3>3. Explains(V, Ld, Lg, K, A)'
      BY <1>5, <1>6, <2>1, <2>2, <3>1, <3>2, NodeRetires
    <3> QED BY <3>3
  <2>3. CASE ~current
    <3>1. UNCHANGED <<durable, applied, role, votesReceived, commitIndex, matchIndex>>
      BY <1>2, <1>8, <1>b, <2>3 DEF durable
    <3>2. Explains(V, Ld, Lg, K, A)'
      BY <2>1, <3>1, NothingChanges
    <3> QED BY <3>2
  <2> QED BY <2>2, <2>3
<1> QED BY <1>7, <1>8

\* What a leader counts as replicated is committed.
LEMMA ReplicatedIsSafe ==
    ASSUME StateOK, NEW V, NEW Ld, NEW Lg, NEW K, NEW A, Explains(V, Ld, Lg, K, A),
           NEW n \in Server, role[n] = Leader, NEW match \in [Server -> Nat],
           \A p \in Server \ {n} : match[p] <= A[p][currentTerm[n]],
           NEW i \in Replicated(n, match)
    PROVE  Safe(log[n], i, currentTerm[n], Ld, Lg, A) /\ i \in Nat
<1>x. LeaderInv(V, Ld, Lg) /\ AckInv(Ld, Lg, A) /\ HistoryOK(V, Ld, Lg, K, A)
  BY DEF Explains
<1>t. PICK t \in Nat : t = currentTerm[n]
  BY DEF StateOK
<1>1. /\ Ld[t] = n /\ n # None /\ log[n] = Lg[t] /\ log[n] \in Logs
      /\ A[n][t] = Len(log[n])
  BY <1>x, <1>t, NoneAssumption DEF LeaderInv, AckInv, StateOK
<1>2. \A v \in Server : A[v][t] \in Nat
  BY <1>x DEF HistoryOK
<1>3. commitIndex[n] \in Nat /\ Len(log[n]) \in Nat
  BY <1>1, LogFacts DEF StateOK
<1>4. /\ i \in Nat /\ i \in 1..Len(log[n]) /\ i <= Len(log[n]) /\ i <= i
      /\ log[n][i].term = t
      /\ HasMajority({n} \cup {p \in Server \ {n} : match[p] >= i})
  BY <1>3, <1>t DEF Replicated
<1>5. \A p \in {n} \cup {p \in Server \ {n} : match[p] >= i} : p \in Server /\ A[p][t] >= i
  BY <1>1, <1>2, <1>3, <1>4, <1>t
<1>6. HasMajority({v \in Server : A[v][t] >= i})
  <2>1. {n} \cup {p \in Server \ {n} : match[p] >= i} \subseteq {v \in Server : A[v][t] >= i}
    BY <1>5
  <2> QED BY <1>4, <2>1, QuorumGrows
<1>7. Committed(Ld, Lg, A, t, i)
  BY <1>1, <1>4, <1>6 DEF Committed
<1>8. Agree(log[n], Lg[t], i)
  BY <1>1, <1>4, AgreeReflexive
<1>9. t <= t
  OBVIOUS
<1> QED BY <1>4, <1>7, <1>8, <1>9, <1>t DEF Safe

\* A leader counts an acknowledgement, and commits what a majority has acknowledged.
LEMMA AcknowledgementExplained ==
    ASSUME StateOK, StateOK', MessagesOK, NEW n \in Server, role[n] = Leader,
           UNCHANGED <<durable, applied, role, votesReceived>>, msgs' \subseteq msgs,
           \A l \in Server \ {n} : matchIndex'[l] = matchIndex[l] /\ commitIndex'[l] = commitIndex[l],
           NEW V, NEW Ld, NEW Lg, NEW K, NEW A, Explains(V, Ld, Lg, K, A),
           \A p \in Server \ {n} : matchIndex'[n][p] <= A[p][currentTerm[n]],
           Safe(log[n], commitIndex'[n], currentTerm[n], Ld, Lg, A)
    PROVE  Explains(V, Ld, Lg, K, A)'
<1>x. /\ VoteInv(V) /\ LeaderInv(V, Ld, Lg) /\ LogInv(Ld, Lg) /\ CandidateInv(Ld, Lg, K)
      /\ AppendInv(Ld, Lg) /\ AckInv(Ld, Lg, A) /\ KeepInv(V, Ld, Lg, K, A) /\ CommitInv(Ld, Lg, A)
      /\ HistoryOK(V, Ld, Lg, K, A)
  BY DEF Explains
<1>u. /\ currentTerm' = currentTerm /\ votedFor' = votedFor /\ log' = log /\ applied' = applied
      /\ role' = role /\ votesReceived' = votesReceived
  BY DEF durable
<1>m. \A x \in msgs' : x \in msgs
  OBVIOUS
<1>1. VoteInv(V)'
  BY <1>m, <1>u, <1>x DEF VoteInv
<1>2. LeaderInv(V, Ld, Lg)' /\ LogInv(Ld, Lg)'
  BY <1>u, <1>x DEF LeaderInv, LogInv, Voters
<1>3. CandidateInv(Ld, Lg, K)'
  BY <1>m, <1>u, <1>x DEF CandidateInv
<1>4. AppendInv(Ld, Lg)'
  BY <1>m, <1>x DEF AppendInv
<1>5. AckInv(Ld, Lg, A)'
  <2>1. ASSUME NEW l \in Server, NEW p \in Server
        PROVE  IF role'[l] = Leader THEN p # l => matchIndex'[l][p] <= A[p][currentTerm'[l]]
                                    ELSE matchIndex'[l][p] = 0
    <3>1. CASE l = n
      BY <1>u, <3>1
    <3>2. CASE l # n
      BY <1>u, <1>x, <3>2 DEF AckInv
    <3> QED BY <3>1, <3>2
  <2>2. \A v \in Server, t \in Nat : A[v][t] > 0 =>
            /\ Ld[t] # None /\ t <= currentTerm'[v] /\ A[v][t] <= Len(Lg[t])
            /\ t = currentTerm'[v] => Agree(log'[v], Lg[t], A[v][t])
    BY <1>u, <1>x DEF AckInv
  <2>3. /\ \A x \in msgs' : x.type = "AppendEntriesResponse" /\ x.granted => x.match <= A[x.src][x.term]
        /\ \A l \in Server : role'[l] = Leader => A[l][currentTerm'[l]] = Len(log'[l])
    BY <1>m, <1>u, <1>x DEF AckInv
  <2> QED BY <2>1, <2>2, <2>3 DEF AckInv
<1>6. KeepInv(V, Ld, Lg, K, A)'
  <2>1. \A v \in Server : currentTerm[v] <= currentTerm'[v]
    BY <1>u DEF StateOK
  <2> QED BY <1>u, <1>x, <2>1, KeepStable
<1>7. CommitInv(Ld, Lg, A)'
  <2>1. ASSUME NEW p \in Server
        PROVE  /\ Safe(log[p], commitIndex'[p], currentTerm[p], Ld, Lg, A)
               /\ Safe(applied[p], Len(applied[p]), currentTerm[p], Ld, Lg, A)
               /\ Agree(applied[p], log[p], Len(applied[p]))
    <3>1. CASE p = n
      BY <1>x, <3>1 DEF CommitInv
    <3>2. CASE p # n
      BY <1>x, <3>2 DEF CommitInv
    <3> QED BY <3>1, <3>2
  <2>2. \A x \in msgs' : x.type = "AppendEntries" => Safe(Lg[x.term], x.commit, x.term, Ld, Lg, A)
    BY <1>m, <1>x DEF CommitInv
  <2> QED BY <1>u, <2>1, <2>2 DEF CommitInv
<1> QED BY <1>x, <1>1, <1>2, <1>3, <1>4, <1>5, <1>6, <1>7 DEF Explains, HistoryOK

LEMMA AppendResponseExplained ==
    ASSUME StateOK, StateOK', MessagesOK,
           NEW n \in Server, NEW m \in msgs, HandleAppendEntriesResponse(n, m),
           NEW V, NEW Ld, NEW Lg, NEW K, NEW A, Explains(V, Ld, Lg, K, A)
    PROVE  Explains(V, Ld, Lg, K, A)'
<1>1. /\ m.term \in Nat /\ m.src \in Server /\ m.type = "AppendEntriesResponse" /\ m.src # n
      /\ m.match \in Nat
  BY MessageFacts DEF HandleAppendEntriesResponse, Receives
<1>2. msgs' \subseteq msgs
  BY DEF HandleAppendEntriesResponse, Deliver
<1>3. OnlyRefusals
  BY <1>2 DEF OnlyRefusals
<1>4. CASE m.term > currentTerm[n] /\ AdvanceTerm(n, m.term)
  BY <1>1, <1>3, <1>4, AdvanceTermExplained
<1>5. CASE /\ role[n] = Leader /\ m.term = currentTerm[n] /\ m.granted
           /\ matchIndex' = [matchIndex EXCEPT ![n][m.src] = IF m.match > @ THEN m.match ELSE @]
           /\ AdvanceCommitIndex(n, matchIndex'[n])
           /\ UNCHANGED <<durable, applied, role, votesReceived>>
  <2>x. AckInv(Ld, Lg, A) /\ CommitInv(Ld, Lg, A) /\ HistoryOK(V, Ld, Lg, K, A)
    BY DEF Explains
  <2>1. /\ matchIndex \in [Server -> [Server -> Nat]] /\ matchIndex'[n] \in [Server -> Nat]
        /\ commitIndex \in [Server -> Nat]
    BY DEF StateOK
  <2>2. \A p \in Server : matchIndex'[n][p] \in {matchIndex[n][p], m.match}
                          /\ (p # m.src => matchIndex'[n][p] = matchIndex[n][p])
    BY <1>5, <2>1
  <2>3. m.match <= A[m.src][currentTerm[n]]
    BY <1>1, <1>5, <2>x DEF AckInv
  <2>4. \A p \in Server \ {n} : matchIndex[n][p] <= A[p][currentTerm[n]]
    BY <1>5, <2>x DEF AckInv
  <2>5. \A p \in Server \ {n} : matchIndex'[n][p] <= A[p][currentTerm[n]]
    BY <2>2, <2>3, <2>4
  <2>6. \A l \in Server \ {n} : matchIndex'[l] = matchIndex[l] /\ commitIndex'[l] = commitIndex[l]
    BY <1>5, <2>1 DEF AdvanceCommitIndex, AdvanceNodeCommit
  <2>7. commitIndex'[n] = commitIndex[n] \/ commitIndex'[n] \in Replicated(n, matchIndex'[n])
    BY <1>5, <2>1 DEF AdvanceCommitIndex, AdvanceNodeCommit
  <2>8. Safe(log[n], commitIndex'[n], currentTerm[n], Ld, Lg, A)
    <3>1. CASE commitIndex'[n] = commitIndex[n]
      BY <2>x, <3>1 DEF CommitInv
    <3>2. CASE commitIndex'[n] \in Replicated(n, matchIndex'[n])
      <4>1. PICK match \in [Server -> Nat] : match = matchIndex'[n]
        BY <2>1
      <4>2. PICK i \in Replicated(n, match) : i = commitIndex'[n]
        BY <3>2, <4>1
      <4>3. \A p \in Server \ {n} : match[p] <= A[p][currentTerm[n]]
        BY <2>5, <4>1
      <4>4. Safe(log[n], i, currentTerm[n], Ld, Lg, A)
        BY <1>5, <4>3, ReplicatedIsSafe
      <4> QED BY <4>2, <4>4
    <3> QED BY <2>7, <3>1, <3>2
  <2> QED BY <1>2, <1>5, <2>5, <2>6, <2>8, AcknowledgementExplained
<1> QED BY <1>4, <1>5 DEF HandleAppendEntriesResponse

-----------------------------------------------------------------------------
(* The invariant is inductive *)

LEMMA InitExplained == Init => IInv
<1> SUFFICES ASSUME Init PROVE IInv
  OBVIOUS
<1> DEFINE V == [v \in Server |-> [t \in Nat |-> None]]
           Ld == [t \in Nat |-> None]
           Lg == [t \in Nat |-> <<>>]
           K == [c \in Server |-> [t \in Nat |-> <<>>]]
           A == [v \in Server |-> [t \in Nat |-> 0]]
<1>1. StateOK /\ MessagesOK
  BY DEF Init, StateOK, MessagesOK, Logs
<1>e. <<>> \in Logs /\ Len(<<>>) = 0 /\ \A i \in 1..Len(<<>>) : FALSE
  BY DEF Logs
<1>2. /\ HistoryOK(V, Ld, Lg, K, A)
      /\ \A v \in Server, t \in Nat : V[v][t] = None /\ K[v][t] = <<>> /\ A[v][t] = 0
      /\ \A t \in Nat : Ld[t] = None
  BY <1>e DEF HistoryOK
<1> HIDE DEF V, Ld, Lg, K, A
<1>3. /\ msgs = {}
      /\ \A n \in Server : /\ role[n] = Follower /\ commitIndex[n] = 0 /\ log[n] = <<>> /\ applied[n] = <<>>
                           /\ \A p \in Server : matchIndex[n][p] = 0
  BY DEF Init
<1>f. Follower # Candidate /\ Follower # Leader
  BY DEF Follower, Candidate, Leader
<1>4. VoteInv(V) /\ LeaderInv(V, Ld, Lg)
  BY <1>2, <1>3, <1>f DEF VoteInv, LeaderInv
<1>5. Good(<<>>, Ld, Lg) /\ \A t \in Nat : TermsUpTo(<<>>, t)
  BY <1>e DEF Good, TermsUpTo
<1>6. LogInv(Ld, Lg)
  BY <1>1, <1>2, <1>3, <1>5 DEF LogInv, StateOK
<1>7. CandidateInv(Ld, Lg, K) /\ AppendInv(Ld, Lg)
  BY <1>2, <1>3, <1>e, <1>f, <1>5 DEF CandidateInv, AppendInv
<1>8. AckInv(Ld, Lg, A)
  BY <1>2, <1>3, <1>f DEF AckInv
<1>9. KeepInv(V, Ld, Lg, K, A)
  BY <1>2 DEF KeepInv, Choosable
<1>10. CommitInv(Ld, Lg, A)
  BY <1>3, <1>e DEF CommitInv, Safe, Agree
<1>11. Explains(V, Ld, Lg, K, A)
  BY <1>2, <1>4, <1>6, <1>7, <1>8, <1>9, <1>10 DEF Explains
<1> QED BY <1>1, <1>11 DEF IInv

LEMMA StepExplained == IInv /\ [Next]_vars => IInv'
<1> SUFFICES ASSUME IInv, [Next]_vars PROVE IInv'
  OBVIOUS
<1>1. PICK V, Ld, Lg, K, A : Explains(V, Ld, Lg, K, A)
  BY DEF IInv
<1>2. StateOK /\ MessagesOK /\ CommitBound
  <2>1. CommitInv(Ld, Lg, A)
    BY <1>1 DEF Explains
  <2> QED BY <2>1, CommitBounded DEF IInv
<1>3. StateOK' /\ MessagesOK'
  BY <1>2, StateOKStep
<1> DEFINE Explained == \E V2, Ld2, Lg2, K2, A2 : Explains(V2, Ld2, Lg2, K2, A2)'
<1> SUFFICES Explained
  BY <1>3 DEF IInv
<1>4. Explains(V, Ld, Lg, K, A)' => Explained
  OBVIOUS
<1> HIDE DEF Explained
<1>5. ASSUME NEW n \in Server, StartElection(n) PROVE Explained
  BY <1>1, <1>2, <1>3, <1>5, StartElectionExplained DEF Explained
<1>6. ASSUME NEW n \in Server, NEW v \in Value, AppendCommand(n, v) PROVE Explained
  BY <1>1, <1>2, <1>3, <1>6, AppendCommandExplained DEF Explained
<1>7. ASSUME NEW n \in Server, NewReplicator(n) PROVE Explained
  BY <1>1, <1>2, <1>3, <1>4, <1>7, NewReplicatorExplained
<1>8. ASSUME NEW n \in Server, NEW p \in Server, NEW prev \in 0..Len(log[n]), Replicate(n, p, prev)
      PROVE  Explained
  BY <1>1, <1>2, <1>3, <1>4, <1>8, ReplicateExplained
<1>9. ASSUME NEW n \in Server, ApplyCommitted(n) PROVE Explained
  BY <1>1, <1>2, <1>3, <1>4, <1>9, ApplyCommittedExplained
<1>10. ASSUME NEW n \in Server, StepDown(n) \/ Restart(n) PROVE Explained
  BY <1>1, <1>2, <1>3, <1>4, <1>10, StepDownExplained
<1>11. ASSUME NEW n \in Server, NEW m \in msgs, HandleRequestVote(n, m) PROVE Explained
  BY <1>1, <1>2, <1>3, <1>11, RequestVoteExplained DEF Explained
<1>12. ASSUME NEW n \in Server, NEW m \in msgs, HandleRequestVoteResponse(n, m) PROVE Explained
  BY <1>1, <1>2, <1>3, <1>12, VoteResponseExplained DEF Explained
<1>13. ASSUME NEW n \in Server, NEW m \in msgs, HandleAppendEntries(n, m) PROVE Explained
  BY <1>1, <1>2, <1>3, <1>13, AppendEntriesExplained DEF Explained
<1>14. ASSUME NEW n \in Server, NEW m \in msgs, HandleAppendEntriesResponse(n, m) PROVE Explained
  BY <1>1, <1>2, <1>3, <1>4, <1>14, AppendResponseExplained
<1>15. ASSUME NEW m \in msgs, Lose(m) PROVE Explained
  BY <1>1, <1>2, <1>3, <1>4, <1>15, LoseExplained
<1>16. CASE UNCHANGED vars
  <2>1. UNCHANGED <<durable, applied, role, votesReceived, commitIndex, matchIndex>> /\ msgs' = msgs
    BY <1>16 DEF vars
  <2>2. OnlyRefusals
    BY <2>1 DEF OnlyRefusals
  <2> QED BY <1>1, <1>2, <1>3, <1>4, <2>1, <2>2, NothingChanges
<1> QED
  BY <1>5, <1>6, <1>7, <1>8, <1>9, <1>10, <1>11, <1>12, <1>13, <1>14, <1>15, <1>16 DEF Next

\* Every reachable state has a history that explains it, for every cluster and all bounds.
THEOREM Explanation == Spec => []IInv
<1>1. Init => IInv
  BY InitExplained
<1>2. IInv /\ [Next]_vars => IInv'
  BY StepExplained
<1> QED BY <1>1, <1>2, PTL DEF Spec

-----------------------------------------------------------------------------
(* What follows for every reachable state *)

LEMMA ExplainedFacts ==
    ASSUME NEW V, NEW Ld, NEW Lg, NEW K, NEW A, Explains(V, Ld, Lg, K, A)
    PROVE  /\ LeaderInv(V, Ld, Lg) /\ LogInv(Ld, Lg) /\ AckInv(Ld, Lg, A) /\ KeepInv(V, Ld, Lg, K, A)
           /\ CommitInv(Ld, Lg, A) /\ HistoryLogs(Ld, Lg, A) /\ HistoryOK(V, Ld, Lg, K, A)
BY DEF Explains, HistoryOK, HistoryLogs

\* The type invariant: every variable keeps its type, and no node knows of a commit beyond
\* the end of its log.
THEOREM TypeCorrect == Spec => []TypeOK
<1>1. IInv => TypeOK
  <2> SUFFICES ASSUME IInv PROVE TypeOK
    OBVIOUS
  <2>1. PICK V, Ld, Lg, K, A : Explains(V, Ld, Lg, K, A)
    BY DEF IInv
  <2>2. StateOK /\ CommitInv(Ld, Lg, A)
    BY <2>1, ExplainedFacts DEF IInv
  <2> QED BY <2>2, CommitBounded, TypesGiven
<1> QED BY <1>1, Explanation, PTL

\* Log Matching (assert_log_matching of raft.py, LogMatchingViolation of log_index.py): two
\* logs with an entry of the same term at an index are equal up to it, because both follow
\* the log of that term's leader.
THEOREM LogsMatch == Spec => []LogMatching
<1>1. IInv => LogMatching
  <2> SUFFICES ASSUME IInv, NEW a \in Server, NEW b \in Server, NEW i \in 1..Smaller(Len(log[a]), Len(log[b])),
                      log[a][i].term = log[b][i].term
               PROVE  SubSeq(log[a], 1, i) = SubSeq(log[b], 1, i)
    BY DEF LogMatching
  <2>1. PICK V, Ld, Lg, K, A : Explains(V, Ld, Lg, K, A)
    BY DEF IInv
  <2>2. HistoryLogs(Ld, Lg, A) /\ LogInv(Ld, Lg)
    BY <2>1, ExplainedFacts
  <2>3. log[a] \in Logs /\ log[b] \in Logs
    BY DEF IInv, StateOK
  <2>4. i \in 1..Len(log[a]) /\ i <= Len(log[b]) /\ i \in Nat
    BY <2>3, LogFacts DEF Smaller
  <2>5. Good(log[a], Ld, Lg) /\ Good(log[b], Ld, Lg)
    BY <2>2 DEF LogInv
  <2>6. Agree(log[a], log[b], i)
    BY <2>2, <2>3, <2>4, <2>5, GoodLogsMatch
  <2> QED BY <2>3, <2>4, <2>6, AgreeAsSubSeq
<1> QED BY <1>1, Explanation, PTL

\* No merge raises LogMatchingViolation: where a node takes a request, an entry that its log
\* has with the term of the request's entry is that entry.
NoMergeConflict ==
    \A n \in Server, m \in msgs :
        m.type = "AppendEntries" /\ PrefixMatches(log[n], m.prev, m.prevTerm) =>
            \A j \in 1..Len(m.entries) :
                m.prev + j <= Len(log[n]) /\ log[n][m.prev + j].term = m.entries[j].term =>
                    log[n][m.prev + j] = m.entries[j]

\* merge_after of log_index.py finds no conflicting entry of the same term, whatever is in
\* flight: the request comes from the leader whose log explains that term.
THEOREM MergesNeverConflict == Spec => []NoMergeConflict
<1>1. IInv => NoMergeConflict
  <2> SUFFICES ASSUME IInv, NEW n \in Server, NEW m \in msgs, m.type = "AppendEntries",
                      NEW j \in 1..Len(m.entries), m.prev + j <= Len(log[n]),
                      log[n][m.prev + j].term = m.entries[j].term
               PROVE  log[n][m.prev + j] = m.entries[j]
    BY DEF NoMergeConflict
  <2>1. PICK V, Ld, Lg, K, A : Explains(V, Ld, Lg, K, A)
    BY DEF IInv
  <2>2. HistoryLogs(Ld, Lg, A) /\ LogInv(Ld, Lg) /\ AppendInv(Ld, Lg)
    BY <2>1, ExplainedFacts DEF Explains
  <2>3. /\ m.term \in Nat /\ m.src \in Server /\ m.prev \in Nat /\ m.entries \in Logs
        /\ Len(m.entries) \in Nat /\ j \in Nat /\ j >= 1 /\ j <= Len(m.entries)
    BY MessageFacts, LogFacts DEF IInv
  <2>4. PICK lg \in Logs : lg = log[n]
    BY DEF IInv, StateOK
  <2>5. PICK L \in Logs : L = Lg[m.term]
    BY <2>2, <2>3 DEF HistoryLogs
  <2>6. PICK i \in Nat : i = m.prev + j
    BY <2>3
  <2>7. /\ Ld[m.term] # None /\ m.prev + Len(m.entries) <= Len(L)
        /\ m.entries[j] = L[i]
    BY <2>2, <2>3, <2>5, <2>6, NoneAssumption DEF AppendInv
  <2>8. i \in 1..Len(lg) /\ i <= Len(L)
    BY <2>3, <2>4, <2>5, <2>6, <2>7, LogFacts
  <2>9. Good(lg, Ld, Lg) /\ Good(L, Ld, Lg) /\ lg[i].term = L[i].term
    BY <2>2, <2>3, <2>4, <2>5, <2>6, <2>7 DEF LogInv
  <2>10. Agree(lg, L, i)
    BY <2>2, <2>8, <2>9, GoodLogsMatch
  <2> QED BY <2>4, <2>6, <2>7, <2>8, <2>10 DEF Agree
<1> QED BY <1>1, Explanation, PTL

\* What the leader's replicator counts a peer for (match_index of replication.py) is in the
\* peer's log while both are in that term: a follower of the term never drops what it
\* acknowledged.
THEOREM MatchIndexesAreTrue == Spec => []MatchIndexIsTrue
<1>1. IInv => MatchIndexIsTrue
  <2> SUFFICES ASSUME IInv, NEW l \in Server, NEW p \in Server, role[l] = Leader,
                      currentTerm[p] = currentTerm[l], p # l
               PROVE  /\ matchIndex[l][p] <= Len(log[p])
                      /\ SubSeq(log[p], 1, matchIndex[l][p]) = SubSeq(log[l], 1, matchIndex[l][p])
    BY DEF MatchIndexIsTrue
  <2>1. PICK V, Ld, Lg, K, A : Explains(V, Ld, Lg, K, A)
    BY DEF IInv
  <2>2. HistoryLogs(Ld, Lg, A) /\ LeaderInv(V, Ld, Lg) /\ AckInv(Ld, Lg, A)
    BY <2>1, ExplainedFacts
  <2>3. PICK i \in Nat : i = matchIndex[l][p]
    BY DEF IInv, StateOK
  <2>4. PICK t \in Nat : t = currentTerm[l]
    BY DEF IInv, StateOK
  <2>5. /\ log[p] \in Logs /\ log[l] \in Logs /\ Len(log[p]) \in Nat /\ Len(log[l]) \in Nat
        /\ A[p][t] \in Nat
    BY <2>2, LogFacts DEF IInv, StateOK, HistoryLogs
  <2>6. i <= A[p][t]
    BY <2>2, <2>3, <2>4 DEF AckInv
  <2>7. Agree(log[p], log[l], i)
    <3>1. CASE i = 0
      BY <2>5, <3>1 DEF Agree
    <3>2. CASE i > 0
      <4>1. Agree(log[p], Lg[t], A[p][t])
        BY <2>2, <2>4, <2>5, <2>6, <3>2 DEF AckInv
      <4>2. Lg[t] = log[l]
        BY <2>2, <2>4 DEF LeaderInv
      <4> QED BY <2>5, <2>6, <4>1, <4>2, AgreeDown
    <3> QED BY <3>1, <3>2
  <2>8. i <= Len(log[p])
    BY <2>7 DEF Agree
  <2> QED BY <2>3, <2>5, <2>7, <2>8, AgreeAsSubSeq
<1> QED BY <1>1, Explanation, PTL

\* Leader Completeness: a leader has all that a node of its own or an earlier term knows to
\* be committed or has applied.
THEOREM LeadersAreComplete == Spec => []LeaderCompleteness
<1>1. IInv => LeaderCompleteness
  <2> SUFFICES ASSUME IInv, NEW l \in Server, NEW n \in Server, role[l] = Leader,
                      currentTerm[n] <= currentTerm[l]
               PROVE  /\ commitIndex[n] <= Len(log[l])
                      /\ SubSeq(log[n], 1, commitIndex[n]) = SubSeq(log[l], 1, commitIndex[n])
                      /\ Len(applied[n]) <= Len(log[l])
                      /\ applied[n] = SubSeq(log[l], 1, Len(applied[n]))
    BY DEF LeaderCompleteness
  <2>1. PICK V, Ld, Lg, K, A : Explains(V, Ld, Lg, K, A)
    BY DEF IInv
  <2>2. /\ HistoryLogs(Ld, Lg, A) /\ LeaderInv(V, Ld, Lg) /\ KeepInv(V, Ld, Lg, K, A)
        /\ CommitInv(Ld, Lg, A) /\ StateOK
    BY <2>1, ExplainedFacts DEF IInv
  <2>3. PICK u \in Nat, t \in Nat : u = currentTerm[l] /\ t = currentTerm[n]
    BY <2>2 DEF StateOK
  <2>4. /\ log[n] \in Logs /\ log[l] \in Logs /\ applied[n] \in Logs
        /\ commitIndex[n] \in Nat /\ Len(applied[n]) \in Nat
    BY <2>2, LogFacts DEF StateOK
  <2>5. Ld[u] # None /\ Lg[u] = log[l] /\ t <= u
    BY <2>2, <2>3, NoneAssumption DEF LeaderInv
  <2>6. Agree(log[n], log[l], commitIndex[n])
    <3>1. Safe(log[n], commitIndex[n], t, Ld, Lg, A)
      BY <2>2, <2>3 DEF CommitInv
    <3>2. Agree(log[n], Lg[u], commitIndex[n])
      BY <2>2, <2>4, <2>5, <3>1, SafeIsInLeader
    <3> QED BY <2>5, <3>2
  <2>7. Agree(applied[n], log[l], Len(applied[n]))
    <3>1. Safe(applied[n], Len(applied[n]), t, Ld, Lg, A)
      BY <2>2, <2>3 DEF CommitInv
    <3>2. Agree(applied[n], Lg[u], Len(applied[n]))
      BY <2>2, <2>4, <2>5, <3>1, SafeIsInLeader
    <3> QED BY <2>5, <3>2
  <2>8. SubSeq(log[n], 1, commitIndex[n]) = SubSeq(log[l], 1, commitIndex[n])
    BY <2>4, <2>6, AgreeAsSubSeq
  <2>9. applied[n] = SubSeq(log[l], 1, Len(applied[n]))
    <3>1. SubSeq(applied[n], 1, Len(applied[n])) = SubSeq(log[l], 1, Len(applied[n]))
      BY <2>4, <2>7, AgreeAsSubSeq
    <3> QED BY <2>4, <3>1, SubSeqFull DEF Logs
  <2> QED BY <2>6, <2>7, <2>8, <2>9 DEF Agree
<1> QED BY <1>1, Explanation, PTL

\* What a state machine has applied stays a prefix of its node's log (_load_durable_state
\* never rejects it), through every truncation by a later leader.
THEOREM AppliedStays == Spec => []AppliedStaysInLog
<1>1. IInv => AppliedStaysInLog
  <2> SUFFICES ASSUME IInv, NEW n \in Server
               PROVE  Len(applied[n]) <= Len(log[n]) /\ applied[n] = SubSeq(log[n], 1, Len(applied[n]))
    BY DEF AppliedStaysInLog
  <2>1. PICK V, Ld, Lg, K, A : Explains(V, Ld, Lg, K, A)
    BY DEF IInv
  <2>2. Agree(applied[n], log[n], Len(applied[n]))
    <3>1. CommitInv(Ld, Lg, A)
      BY <2>1, ExplainedFacts
    <3> QED BY <3>1 DEF CommitInv
  <2>3. log[n] \in Logs /\ applied[n] \in Logs /\ Len(applied[n]) \in Nat
    BY LogFacts DEF IInv, StateOK
  <2>4. SubSeq(applied[n], 1, Len(applied[n])) = SubSeq(log[n], 1, Len(applied[n]))
    BY <2>2, <2>3, AgreeAsSubSeq
  <2>5. SubSeq(applied[n], 1, Len(applied[n])) = applied[n]
    BY <2>3, SubSeqFull DEF Logs
  <2> QED BY <2>2, <2>4, <2>5 DEF Agree
<1> QED BY <1>1, Explanation, PTL

\* What two terms committed agrees, and so do logs that are safe by them.
LEMMA SafeLogsAgree ==
    ASSUME StateOK, NEW V, NEW Ld, NEW Lg, NEW K, NEW A, HistoryLogs(Ld, Lg, A), KeepInv(V, Ld, Lg, K, A),
           NEW a \in Logs, NEW b \in Logs, NEW i \in Nat, NEW j \in Nat, NEW s \in Nat, NEW t \in Nat,
           Safe(a, i, s, Ld, Lg, A), Safe(b, j, t, Ld, Lg, A),
           NEW x \in Nat, 1 <= x, x <= i, x <= j
    PROVE  a[x] = b[x]
<1>1. i # 0 /\ j # 0
  OBVIOUS
<1>2. PICK u \in Nat, k \in Nat : i <= k /\ Committed(Ld, Lg, A, u, k) /\ Agree(a, Lg[u], i)
  BY <1>1 DEF Safe
<1>3. PICK w \in Nat, l \in Nat : j <= l /\ Committed(Ld, Lg, A, w, l) /\ Agree(b, Lg[w], j)
  BY <1>1 DEF Safe
<1>4. Ld[u] # None /\ Ld[w] # None /\ u <= u /\ w <= w
  BY <1>2, <1>3 DEF Committed
<1>5. Safe(a, i, u, Ld, Lg, A) /\ Safe(b, j, w, Ld, Lg, A)
  BY <1>2, <1>3, <1>4 DEF Safe
<1>6. CASE u <= w
  <2>1. Agree(a, Lg[w], i)
    BY <1>4, <1>5, <1>6, SafeIsInLeader
  <2> QED BY <1>3, <2>1 DEF Agree
<1>7. CASE w <= u
  <2>1. Agree(b, Lg[u], j)
    BY <1>4, <1>5, <1>7, SafeIsInLeader
  <2> QED BY <1>2, <2>1 DEF Agree
<1> QED BY <1>6, <1>7

\* State Machine Safety (StateMachineSafetyViolation of state_machine.py): no two nodes ever
\* apply different entries at an index, whatever terms they learned of the commits in.
THEOREM MachinesAreSafe == Spec => []StateMachineSafety
<1>1. IInv => StateMachineSafety
  <2> SUFFICES ASSUME IInv, NEW a \in Server, NEW b \in Server,
                      NEW x \in 1..Smaller(Len(applied[a]), Len(applied[b]))
               PROVE  applied[a][x] = applied[b][x]
    BY DEF StateMachineSafety
  <2>1. PICK V, Ld, Lg, K, A : Explains(V, Ld, Lg, K, A)
    BY DEF IInv
  <2>2. HistoryLogs(Ld, Lg, A) /\ KeepInv(V, Ld, Lg, K, A) /\ CommitInv(Ld, Lg, A) /\ StateOK
    BY <2>1, ExplainedFacts DEF IInv
  <2>3. /\ applied[a] \in Logs /\ applied[b] \in Logs
        /\ Len(applied[a]) \in Nat /\ Len(applied[b]) \in Nat
        /\ currentTerm[a] \in Nat /\ currentTerm[b] \in Nat
    BY <2>2, LogFacts DEF StateOK
  <2>4. x \in Nat /\ 1 <= x /\ x <= Len(applied[a]) /\ x <= Len(applied[b])
    BY <2>3 DEF Smaller
  <2>5. /\ Safe(applied[a], Len(applied[a]), currentTerm[a], Ld, Lg, A)
        /\ Safe(applied[b], Len(applied[b]), currentTerm[b], Ld, Lg, A)
    BY <2>2 DEF CommitInv
  <2> QED BY <2>2, <2>3, <2>4, <2>5, SafeLogsAgree
<1> QED BY <1>1, Explanation, PTL

LEMMA LeaderKeepsLog ==
    ASSUME StateOK, [Next]_vars, NEW n \in Server, role[n] = Leader, role'[n] = Leader
    PROVE  log'[n] = log[n] \/ \E v \in Value : log'[n] = Append(log[n], [term |-> currentTerm[n], command |-> v])
<1> DEFINE Kept == \/ log'[n] = log[n]
                   \/ \E v \in Value : log'[n] = Append(log[n], [term |-> currentTerm[n], command |-> v])
<1>l. log' = log => Kept
  OBVIOUS
<1>f. Follower # Leader
  BY DEF Follower, Leader
<1>1. ASSUME NEW p \in Server, NEW v \in Value, AppendCommand(p, v) PROVE Kept
  BY <1>1 DEF AppendCommand, StateOK
<1>2. ASSUME NEW p \in Server, NEW m \in msgs, HandleAppendEntries(p, m) PROVE Kept
  <2>1. CASE p # n
    BY <1>2, <2>1 DEF HandleAppendEntries, StateOK
  <2>2. CASE p = n
    <3>1. ~(m.term >= currentTerm[n])
      <4> SUFFICES ASSUME m.term >= currentTerm[n] PROVE FALSE
        OBVIOUS
      <4>1. BecomeFollower(n)
        BY <1>2, <2>2 DEF HandleAppendEntries
      <4> QED BY <1>f, <4>1 DEF BecomeFollower, StateOK
    <3>2. log' = log
      BY <1>2, <2>2, <3>1 DEF HandleAppendEntries
    <3> QED BY <1>l, <3>2
  <2> QED BY <2>1, <2>2
<1> HIDE DEF Kept
<1>3. ASSUME NEW p \in Server, StartElection(p) PROVE Kept
  BY <1>l, <1>3 DEF StartElection
<1>4. ASSUME NEW p \in Server, NewReplicator(p) \/ StepDown(p) \/ Restart(p) \/ ApplyCommitted(p) PROVE Kept
  BY <1>l, <1>4 DEF NewReplicator, StepDown, Restart, ApplyCommitted, durable
<1>5. ASSUME NEW p \in Server, NEW q \in Server, NEW prev \in 0..Len(log[p]), Replicate(p, q, prev) PROVE Kept
  BY <1>l, <1>5 DEF Replicate, durable
<1>6. ASSUME NEW p \in Server, NEW m \in msgs,
             HandleRequestVote(p, m) \/ HandleRequestVoteResponse(p, m) \/ HandleAppendEntriesResponse(p, m)
      PROVE  Kept
  BY <1>l, <1>6 DEF HandleRequestVote, HandleRequestVoteResponse, HandleAppendEntriesResponse, AdvanceTerm, durable
<1>7. ASSUME NEW m \in msgs, Lose(m) PROVE Kept
  BY <1>l, <1>7 DEF Lose, durable
<1>8. CASE UNCHANGED vars
  BY <1>l, <1>8 DEF vars, durable
<1> QED BY <1>1, <1>2, <1>3, <1>4, <1>5, <1>6, <1>7, <1>8 DEF Next, Kept

\* Leader Append-Only: while a node leads, its log only grows at the end, through every
\* request and response it takes in between.
THEOREM LeadersOnlyAppend == Spec => LeaderAppendOnly
<1> DEFINE Only == \A n \in Server : role[n] = Leader /\ role'[n] = Leader =>
                       /\ Len(log'[n]) >= Len(log[n])
                       /\ SubSeq(log'[n], 1, Len(log[n])) = log[n]
<1>1. IInv /\ [Next]_vars => Only
  <2> SUFFICES ASSUME IInv, [Next]_vars, NEW n \in Server, role[n] = Leader, role'[n] = Leader
               PROVE  Len(log'[n]) >= Len(log[n]) /\ SubSeq(log'[n], 1, Len(log[n])) = log[n]
    OBVIOUS
  <2>1. StateOK
    BY DEF IInv
  <2>2. PICK lg \in Logs : lg = log[n]
    BY <2>1 DEF StateOK
  <2>3. Len(lg) \in Nat /\ SubSeq(lg, 1, Len(lg)) = lg
    BY <2>2, LogFacts, SubSeqFull DEF Logs
  <2>4. log'[n] = lg \/ \E v \in Value : log'[n] = Append(lg, [term |-> currentTerm[n], command |-> v])
    BY <2>1, <2>2, LeaderKeepsLog
  <2>5. CASE log'[n] = lg
    BY <2>2, <2>3, <2>5
  <2>6. ASSUME NEW v \in Value, log'[n] = Append(lg, [term |-> currentTerm[n], command |-> v])
        PROVE  Len(log'[n]) >= Len(log[n]) /\ SubSeq(log'[n], 1, Len(log[n])) = log[n]
    <3> DEFINE e == [term |-> currentTerm[n], command |-> v]
               b == Append(lg, e)
    <3>1. e \in Entry
      BY <2>1 DEF StateOK, Entry
    <3>2. b \in Logs /\ Len(b) = Len(lg) + 1 /\ \A i \in 1..Len(lg) : b[i] = lg[i]
      BY <3>1, AppendProperties DEF Logs
    <3> HIDE DEF b
    <3>3. Agree(b, lg, Len(lg))
      BY <2>3, <3>2 DEF Agree
    <3>4. SubSeq(b, 1, Len(lg)) = lg
      BY <2>3, <3>2, <3>3, AgreeAsSubSeq
    <3>5. Len(b) >= Len(lg)
      BY <2>3, <3>2
    <3> QED BY <2>2, <2>6, <3>4, <3>5 DEF b
  <2> QED BY <2>4, <2>5, <2>6
<1> HIDE DEF Only
<1>2. [][Only]_vars => LeaderAppendOnly
  BY PTL DEF Only, LeaderAppendOnly
<1>3. Spec => [][Only]_vars
  BY <1>1, Explanation, PTL DEF Spec
<1> QED BY <1>2, <1>3
=============================================================================
