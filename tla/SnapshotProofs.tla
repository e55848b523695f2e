----------------------------- MODULE SnapshotProofs -----------------------------
(***************************************************************************)
(* Snapshots, compaction and reconstruction, for any finite cluster, any   *)
(* terms and any lengths of logs.                                          *)
(*                                                                         *)
(* A compacted log stands for a whole one: what the image has executed up  *)
(* to the base, and the retained entries after it.  Compaction does not    *)
(* change the whole log, and the argument of RaftLogProofs is about whole  *)
(* logs.  As there, messages are lost and nodes forget, so the invariant   *)
(* says that there is a history that explains the state:                   *)
(*   Ld[t]     the leader of term t, or None                               *)
(*   Lg[t]     the whole log of the leader of term t, when it last led     *)
(*   A[v][t]   the highest index that v has acknowledged to that leader    *)
(***************************************************************************)
EXTENDS Snapshot, FiniteSetTheorems, SequenceTheorems, WellFoundedInduction, TLAPS

-----------------------------------------------------------------------------
(* The invariant of the whole logs.  An entry is its term. *)

Logs == Seq(Nat)

whole == [n \in Server |-> WholeLog(n)]

RaftOK ==
    /\ term \in [Server -> Nat] /\ whole \in [Server -> Logs] /\ image \in [Server -> Logs]
    /\ leads \in [Server -> BOOLEAN] /\ commit \in [Server -> Nat]
    /\ match \in [Server -> [Server -> Nat]]

Snapshots == [index : Nat, term : Nat, state : Logs]

IsSnapshot(s) == s \in Snapshots /\ s.index > 0 /\ Len(s.state) = s.index /\ s.term = s.state[s.index]

IsMessage(m) ==
    /\ m.term \in Nat /\ m.src \in Server /\ m.dst \in Server
    /\ m.type \in {"AppendEntries", "InstallSnapshot"}
    /\ m.type = "AppendEntries" => m.prev \in Nat /\ m.entries \in Logs /\ m.commit \in Nat
    /\ m.type = "InstallSnapshot" => IsSnapshot(m.snapshot)

MessagesOK == \A m \in msgs : IsMessage(m)

TermIn(lg, i) == IF i = 0 THEN 0 ELSE lg[i]

HistoryLogs(Ld, Lg, A) ==
    Ld \in [Nat -> Server \cup {None}] /\ Lg \in [Nat -> Logs] /\ A \in [Server -> [Nat -> Nat]]

\* The logs a and b have the same entries up to i.
Agree(a, b, i) == i <= Len(a) /\ i <= Len(b) /\ \A j \in 1..i : a[j] = b[j]

\* Each entry of lg is the leader's of its term, and so is what comes before it.
Good(lg, Ld, Lg) ==
    \A i \in 1..Len(lg) : Ld[lg[i]] # None /\ Agree(lg, Lg[lg[i]], i)

TermsUpTo(lg, t) == \A i \in 1..Len(lg) : lg[i] <= t

LeaderInv(Ld, Lg) ==
    /\ \A t \in Nat : Ld[t] # None => t > 0 /\ t <= term[Ld[t]] /\ IsQuorum({v \in Server : t <= term[v]})
    /\ \A l \in Server : leads[l] => Ld[term[l]] = l /\ whole[l] = Lg[term[l]]

LogInv(Ld, Lg) ==
    /\ \A n \in Server : Good(whole[n], Ld, Lg) /\ TermsUpTo(whole[n], term[n])
    /\ \A t \in Nat : Ld[t] # None => Good(Lg[t], Ld, Lg) /\ TermsUpTo(Lg[t], t)

\* What a leader has counted for a peer has been acknowledged.
AckInv(Ld, Lg, A) ==
    /\ \A v \in Server, t \in Nat : A[v][t] > 0 =>
          /\ Ld[t] # None /\ t <= term[v] /\ A[v][t] <= Len(Lg[t])
          /\ t = term[v] => Agree(whole[v], Lg[t], A[v][t])
    /\ \A l \in Server : leads[l] => A[l][term[l]] = Len(whole[l])

MatchInv(A) ==
    \A l, p \in Server : leads[l] /\ p # l => match[l][p] <= A[p][term[l]]

\* An entry of its leader's own term that a majority has acknowledged or still may.
Choosable(Ld, Lg, A, t, i) ==
    /\ Ld[t] # None /\ i \in 1..Len(Lg[t]) /\ Lg[t][i] = t
    /\ IsQuorum({v \in Server : A[v][t] >= i \/ term[v] <= t})

Committed(Ld, Lg, A, t, i) ==
    /\ Ld[t] # None /\ i \in 1..Len(Lg[t]) /\ Lg[t][i] = t
    /\ IsQuorum({v \in Server : A[v][t] >= i})

\* Whoever has acknowledged such an entry keeps it, and every later leader has it.
KeepInv(Ld, Lg, A) ==
    \A t, i \in Nat : Choosable(Ld, Lg, A, t, i) =>
        /\ \A v \in Server : A[v][t] >= i => Agree(whole[v], Lg[t], i)
        /\ \A u \in Nat : t < u /\ Ld[u] # None => Agree(Lg[u], Lg[t], i)

\* The first i entries of lg are part of what was committed by term t0.
Safe(lg, i, t0, Ld, Lg, A) ==
    i = 0 \/ \E t, k \in Nat : t <= t0 /\ i <= k /\ Committed(Ld, Lg, A, t, k) /\ Agree(lg, Lg[t], i)

\* A node in term t with whole log lg, commit index c and image a
NodeSafe(lg, a, c, t, Ld, Lg, A) ==
    Safe(lg, c, t, Ld, Lg, A) /\ Safe(a, Len(a), t, Ld, Lg, A) /\ Agree(a, lg, Len(a))

CommitInv(Ld, Lg, A) ==
    \A n \in Server : NodeSafe(whole[n], image[n], commit[n], term[n], Ld, Lg, A)

\* An AppendEntries carries a piece of its leader's log, and a snapshot what is committed.
AppendTrue(m, Ld, Lg, A) ==
    /\ m.prev + Len(m.entries) <= Len(Lg[m.term])
    /\ \A j \in 1..Len(m.entries) : m.entries[j] = Lg[m.term][m.prev + j]
    /\ m.prevTerm = TermIn(Lg[m.term], m.prev)
    /\ Safe(Lg[m.term], m.commit, m.term, Ld, Lg, A)

MessageTrue(m, Ld, Lg, A) ==
    /\ Ld[m.term] = m.src /\ m.dst # m.src
    /\ m.type = "AppendEntries" => AppendTrue(m, Ld, Lg, A)
    /\ m.type = "InstallSnapshot" => Safe(m.snapshot.state, m.snapshot.index, m.term, Ld, Lg, A)

MessageInv(Ld, Lg, A) == \A m \in msgs : MessageTrue(m, Ld, Lg, A)

RaftInv(Ld, Lg, A) ==
    /\ HistoryLogs(Ld, Lg, A)
    /\ LeaderInv(Ld, Lg) /\ LogInv(Ld, Lg) /\ AckInv(Ld, Lg, A) /\ MatchInv(A)
    /\ KeepInv(Ld, Lg, A) /\ CommitInv(Ld, Lg, A) /\ MessageInv(Ld, Lg, A)

-----------------------------------------------------------------------------
(* Majorities, logs that agree, and histories that grow *)

LEMMA QuorumsMeet ==
    ASSUME NEW P \in SUBSET Server, NEW Q \in SUBSET Server, IsQuorum(P), IsQuorum(Q)
    PROVE  \E n \in P : n \in Q
<1> IsFiniteSet(Server)
  BY ConstantAssumption
<1>1. /\ IsFiniteSet(P) /\ IsFiniteSet(Q)
      /\ Cardinality(P) \in Nat /\ Cardinality(Q) \in Nat /\ Cardinality(Server) \in Nat
  BY FS_Subset, FS_CardinalityType
<1>2. Cardinality(P) + Cardinality(Q) > Cardinality(Server)
  BY <1>1 DEF IsQuorum
<1> QED BY <1>1, <1>2, FS_MajoritiesIntersect

LEMMA QuorumGrows ==
    ASSUME NEW P \in SUBSET Server, NEW Q \in SUBSET Server, P \subseteq Q, IsQuorum(P)
    PROVE  IsQuorum(Q)
<1>1. IsFiniteSet(Q) /\ IsFiniteSet(P) /\ Cardinality(P) <= Cardinality(Q)
  BY FS_Subset, ConstantAssumption
<1>2. Cardinality(P) \in Nat /\ Cardinality(Q) \in Nat /\ Cardinality(Server) \in Nat
  BY <1>1, FS_CardinalityType, ConstantAssumption
<1> QED BY <1>1, <1>2 DEF IsQuorum

LEMMA LogFacts ==
    ASSUME NEW lg \in Logs
    PROVE  /\ Len(lg) \in Nat
           /\ \A i \in 1..Len(lg) : lg[i] \in Nat
BY LenProperties, ElementOfSeq DEF Logs

LEMMA AgreeSymmetric ==
    ASSUME NEW a \in Logs, NEW b \in Logs, NEW i \in Nat, Agree(a, b, i)
    PROVE  Agree(b, a, i)
BY DEF Agree

LEMMA AgreeTransitive ==
    ASSUME NEW a \in Logs, NEW b \in Logs, NEW c \in Logs, NEW i \in Nat, NEW j \in Nat, NEW k \in Nat,
           Agree(a, b, i), Agree(b, c, j), k <= i, k <= j
    PROVE  Agree(a, c, k)
<1>1. Len(a) \in Nat /\ Len(b) \in Nat /\ Len(c) \in Nat
  BY LogFacts
<1> QED BY <1>1 DEF Agree

LEMMA AgreeDown ==
    ASSUME NEW a \in Logs, NEW b \in Logs, NEW i \in Nat, NEW k \in Nat, Agree(a, b, i), k <= i
    PROVE  Agree(a, b, k)
<1>1. Len(a) \in Nat /\ Len(b) \in Nat
  BY LogFacts
<1> QED BY <1>1 DEF Agree

LEMMA AgreeReflexive ==
    ASSUME NEW a \in Logs, NEW i \in Nat, i <= Len(a)
    PROVE  Agree(a, a, i)
BY DEF Agree

\* What a longer history keeps: the leaders, their logs but for new entries at the end, and
\* the acknowledgements.
Grows(Ld, Lg, A, Ld2, Lg2, A2) ==
    /\ \A t \in Nat : Ld[t] # None => Ld2[t] = Ld[t] /\ Agree(Lg2[t], Lg[t], Len(Lg[t]))
    /\ \A v \in Server, t \in Nat : A[v][t] <= A2[v][t]

LEMMA GrowsReflexive ==
    ASSUME NEW Ld, NEW Lg, NEW A, HistoryLogs(Ld, Lg, A)
    PROVE  Grows(Ld, Lg, A, Ld, Lg, A)
<1>1. \A t \in Nat : Agree(Lg[t], Lg[t], Len(Lg[t]))
  BY LogFacts, AgreeReflexive DEF HistoryLogs
<1>2. \A v \in Server, t \in Nat : A[v][t] <= A[v][t]
  BY DEF HistoryLogs
<1> QED BY <1>1, <1>2 DEF Grows

LEMMA GoodGrows ==
    ASSUME NEW Ld, NEW Lg, NEW A, NEW Ld2, NEW Lg2, NEW A2,
           HistoryLogs(Ld, Lg, A), HistoryLogs(Ld2, Lg2, A2), Grows(Ld, Lg, A, Ld2, Lg2, A2),
           NEW lg \in Logs, Good(lg, Ld, Lg)
    PROVE  Good(lg, Ld2, Lg2)
<1> SUFFICES ASSUME NEW i \in 1..Len(lg)
             PROVE  Ld2[lg[i]] # None /\ Agree(lg, Lg2[lg[i]], i)
  BY DEF Good
<1> DEFINE u == lg[i]
<1>1. i \in Nat /\ u \in Nat /\ Lg[u] \in Logs /\ Lg2[u] \in Logs /\ Len(Lg[u]) \in Nat
  <2>1. i \in Nat /\ u \in Nat
    BY LogFacts
  <2> HIDE DEF u
  <2>2. Lg[u] \in Logs /\ Lg2[u] \in Logs
    BY <2>1 DEF HistoryLogs
  <2> QED BY <2>1, <2>2, LogFacts
<1>2. Ld[u] # None /\ Agree(lg, Lg[u], i)
  BY DEF Good
<1>3. Ld2[u] = Ld[u] /\ Agree(Lg[u], Lg2[u], Len(Lg[u]))
  BY <1>1, <1>2, AgreeSymmetric DEF Grows
<1>4. i <= Len(Lg[u])
  BY <1>2 DEF Agree
<1> HIDE DEF u
<1>5. Agree(lg, Lg2[u], i)
  BY <1>1, <1>2, <1>3, <1>4, AgreeTransitive
<1> QED BY <1>2, <1>3, <1>5 DEF u

LEMMA CommittedGrows ==
    ASSUME NEW Ld, NEW Lg, NEW A, NEW Ld2, NEW Lg2, NEW A2,
           HistoryLogs(Ld, Lg, A), HistoryLogs(Ld2, Lg2, A2), Grows(Ld, Lg, A, Ld2, Lg2, A2),
           NEW t \in Nat, NEW k \in Nat, Committed(Ld, Lg, A, t, k)
    PROVE  Committed(Ld2, Lg2, A2, t, k)
<1>1. Len(Lg[t]) \in Nat /\ Len(Lg2[t]) \in Nat
  BY LogFacts DEF HistoryLogs
<1>2. Ld2[t] # None /\ k \in 1..Len(Lg2[t]) /\ Lg2[t][k] = t
  BY <1>1 DEF Committed, Grows, Agree
<1>3. {v \in Server : A[v][t] >= k} \subseteq {v \in Server : A2[v][t] >= k}
  <2>1. \A v \in Server : A[v][t] \in Nat /\ A2[v][t] \in Nat
    BY DEF HistoryLogs
  <2>2. \A v \in Server : A[v][t] <= A2[v][t]
    BY DEF Grows
  <2> QED BY <2>1, <2>2
<1>4. IsQuorum({v \in Server : A2[v][t] >= k})
  BY <1>3, QuorumGrows DEF Committed
<1> QED BY <1>2, <1>4 DEF Committed

LEMMA SafeGrows ==
    ASSUME NEW Ld, NEW Lg, NEW A, NEW Ld2, NEW Lg2, NEW A2,
           HistoryLogs(Ld, Lg, A), HistoryLogs(Ld2, Lg2, A2), Grows(Ld, Lg, A, Ld2, Lg2, A2),
           NEW lg \in Logs, NEW i \in Nat, NEW t0 \in Nat, NEW t1 \in Nat, t0 <= t1,
           Safe(lg, i, t0, Ld, Lg, A)
    PROVE  Safe(lg, i, t1, Ld2, Lg2, A2)
<1>1. CASE i = 0
  BY <1>1 DEF Safe
<1>2. CASE i # 0
  <2>1. PICK t \in Nat, k \in Nat : t <= t0 /\ i <= k /\ Committed(Ld, Lg, A, t, k) /\ Agree(lg, Lg[t], i)
    BY <1>2 DEF Safe
  <2>2. Committed(Ld2, Lg2, A2, t, k)
    BY <2>1, CommittedGrows
  <2>3. Lg[t] \in Logs /\ Lg2[t] \in Logs /\ Len(Lg[t]) \in Nat
    BY LogFacts DEF HistoryLogs
  <2>4. i <= Len(Lg[t]) /\ Agree(Lg[t], Lg2[t], Len(Lg[t]))
    BY <2>1, <2>3, AgreeSymmetric DEF Grows, Committed, Agree
  <2>5. Agree(lg, Lg2[t], i)
    BY <2>1, <2>3, <2>4, AgreeTransitive
  <2> QED BY <2>1, <2>2, <2>5 DEF Safe
<1> QED BY <1>1, <1>2

\* Of two logs with the same first i entries, one is as safe as the other.
LEMMA SafeAgrees ==
    ASSUME NEW Ld, NEW Lg, NEW A, HistoryLogs(Ld, Lg, A),
           NEW a \in Logs, NEW b \in Logs, NEW i \in Nat, NEW j \in Nat, NEW t0 \in Nat,
           Safe(a, i, t0, Ld, Lg, A), j <= i, Agree(b, a, j)
    PROVE  Safe(b, j, t0, Ld, Lg, A)
<1>1. CASE j = 0
  BY <1>1 DEF Safe
<1>2. CASE j # 0
  <2>1. PICK t \in Nat, k \in Nat : t <= t0 /\ i <= k /\ Committed(Ld, Lg, A, t, k) /\ Agree(a, Lg[t], i)
    BY <1>2 DEF Safe
  <2>2. Agree(b, Lg[t], j)
    BY <2>1, AgreeTransitive DEF HistoryLogs
  <2> QED BY <2>1, <2>2 DEF Safe
<1> QED BY <1>1, <1>2

\* Terms do not decrease along a good log.
LEMMA TermsMonotone ==
    ASSUME NEW Ld, NEW Lg, NEW A, HistoryLogs(Ld, Lg, A), LogInv(Ld, Lg),
           NEW lg \in Logs, Good(lg, Ld, Lg), NEW i \in 1..Len(lg), NEW j \in 1..Len(lg), i <= j
    PROVE  lg[i] <= lg[j]
<1> DEFINE u == lg[j]
<1>1. u \in Nat /\ i \in Nat /\ j \in Nat /\ Len(lg) \in Nat
  BY LogFacts
<1>2. Ld[u] # None /\ Agree(lg, Lg[u], j)
  BY DEF Good
<1>3. Len(Lg[u]) \in Nat
  BY <1>1, LogFacts DEF HistoryLogs
<1>4. i \in 1..Len(Lg[u]) /\ lg[i] = Lg[u][i]
  BY <1>1, <1>2, <1>3 DEF Agree
<1>5. Lg[u][i] <= u
  BY <1>1, <1>2, <1>4 DEF LogInv, TermsUpTo
<1> QED BY <1>4, <1>5

\* Two good logs with an entry of one term at an index are equal up to it.
LEMMA GoodLogsMatch ==
    ASSUME NEW Ld, NEW Lg, NEW A, HistoryLogs(Ld, Lg, A),
           NEW a \in Logs, NEW b \in Logs, Good(a, Ld, Lg), Good(b, Ld, Lg),
           NEW i \in 1..Len(a), i <= Len(b), a[i] = b[i]
    PROVE  Agree(a, b, i)
<1> DEFINE u == a[i]
<1>1. i \in Nat /\ i \in 1..Len(b) /\ u \in Nat /\ Lg[u] \in Logs
  <2>1. i \in Nat /\ i \in 1..Len(b) /\ u \in Nat
    BY LogFacts
  <2> HIDE DEF u
  <2> QED BY <2>1 DEF HistoryLogs
<1>2. Agree(a, Lg[u], i) /\ Agree(b, Lg[u], i)
  BY <1>1 DEF Good
<1>3. Agree(Lg[u], b, i)
  BY <1>1, <1>2, AgreeSymmetric
<1> HIDE DEF u
<1> QED BY <1>1, <1>2, <1>3, AgreeTransitive

\* A log that follows a good one to its own end is good.
LEMMA GoodPrefix ==
    ASSUME NEW Ld, NEW Lg, NEW A, HistoryLogs(Ld, Lg, A), NEW t \in Nat,
           NEW a \in Logs, NEW b \in Logs, Agree(a, b, Len(a)), Good(b, Ld, Lg), TermsUpTo(b, t)
    PROVE  Good(a, Ld, Lg) /\ TermsUpTo(a, t)
<1> SUFFICES ASSUME NEW i \in 1..Len(a)
             PROVE  Ld[a[i]] # None /\ Agree(a, Lg[a[i]], i) /\ a[i] <= t
  BY DEF Good, TermsUpTo
<1> DEFINE u == a[i]
<1>1. i \in Nat /\ i <= Len(a) /\ Len(a) \in Nat /\ u \in Nat /\ Lg[u] \in Logs /\ Len(b) \in Nat
  <2>1. i \in Nat /\ i <= Len(a) /\ Len(a) \in Nat /\ u \in Nat /\ Len(b) \in Nat
    BY LogFacts
  <2> HIDE DEF u
  <2> QED BY <2>1 DEF HistoryLogs
<1>2. i \in 1..Len(b) /\ a[i] = b[i]
  BY <1>1 DEF Agree
<1>3. Ld[u] # None /\ Agree(b, Lg[u], i) /\ u <= t
  BY <1>2 DEF Good, TermsUpTo
<1> HIDE DEF u
<1>4. Agree(a, Lg[u], i)
  BY <1>1, <1>3, AgreeTransitive
<1> QED BY <1>3, <1>4 DEF u

\* An entry does not become choosable later on: terms only rise, and who acknowledges an entry
\* was not beyond its term.
LEMMA ChoosableShrinks ==
    ASSUME RaftOK, RaftOK', \A v \in Server : term[v] <= term'[v],
           NEW Ld, NEW Lg, NEW A, NEW Ld2, NEW Lg2, NEW A2,
           HistoryLogs(Ld, Lg, A), HistoryLogs(Ld2, Lg2, A2), Grows(Ld, Lg, A, Ld2, Lg2, A2),
           NEW t \in Nat, NEW i \in Nat, Ld[t] # None, i <= Len(Lg[t]),
           \A v \in Server : A2[v][t] >= i => A[v][t] >= i \/ term[v] <= t,
           Choosable(Ld2, Lg2, A2, t, i)'
    PROVE  Choosable(Ld, Lg, A, t, i)
<1>1. Len(Lg[t]) \in Nat /\ Len(Lg2[t]) \in Nat
  BY LogFacts DEF HistoryLogs
<1>2. i \in 1..Len(Lg[t]) /\ Lg[t][i] = t
  BY <1>1 DEF Choosable, Grows, Agree
<1> DEFINE P == {v \in Server : A2[v][t] >= i \/ term'[v] <= t}
           Q == {v \in Server : A[v][t] >= i \/ term[v] <= t}
<1>3. P \subseteq Q
  <2>1. \A v \in Server : term[v] \in Nat /\ term'[v] \in Nat
    BY DEF RaftOK
  <2> QED BY <2>1
<1>4. IsQuorum(P)
  BY DEF Choosable
<1>5. IsQuorum(Q)
  <2> HIDE DEF P, Q
  <2>1. P \in SUBSET Server /\ Q \in SUBSET Server
    BY DEF P, Q
  <2> QED BY <1>3, <1>4, <2>1, QuorumGrows
<1> QED BY <1>2, <1>5 DEF Choosable

LEMMA CommittedIsChoosable ==
    ASSUME RaftOK, NEW Ld, NEW Lg, NEW A, HistoryLogs(Ld, Lg, A), NEW t \in Nat, NEW k \in Nat,
           Committed(Ld, Lg, A, t, k)
    PROVE  Choosable(Ld, Lg, A, t, k)
<1> DEFINE P == {v \in Server : A[v][t] >= k}
           Q == {v \in Server : A[v][t] >= k \/ term[v] <= t}
<1>1. P \subseteq Q /\ P \in SUBSET Server /\ Q \in SUBSET Server
  OBVIOUS
<1>2. IsQuorum(P)
  BY DEF Committed
<1>3. IsQuorum(Q)
  <2> HIDE DEF P, Q
  <2> QED BY <1>1, <1>2, QuorumGrows
<1> QED BY <1>3 DEF Committed, Choosable

\* What is safe by a term is in the log of every leader from that term on.
LEMMA SafeIsInLeader ==
    ASSUME RaftOK, NEW Ld, NEW Lg, NEW A, HistoryLogs(Ld, Lg, A), KeepInv(Ld, Lg, A),
           NEW lg \in Logs, NEW i \in Nat, NEW t0 \in Nat, Safe(lg, i, t0, Ld, Lg, A),
           NEW u \in Nat, t0 <= u, Ld[u] # None
    PROVE  Agree(lg, Lg[u], i)
<1>0. Lg[u] \in Logs /\ Len(Lg[u]) \in Nat /\ Len(lg) \in Nat
  BY LogFacts DEF HistoryLogs
<1>1. CASE i = 0
  BY <1>0, <1>1 DEF Agree
<1>2. CASE i # 0
  <2>1. PICK t \in Nat, k \in Nat : t <= t0 /\ i <= k /\ Committed(Ld, Lg, A, t, k) /\ Agree(lg, Lg[t], i)
    BY <1>2 DEF Safe
  <2>2. CASE t = u
    BY <2>1, <2>2
  <2>3. CASE t < u
    <3>1. Choosable(Ld, Lg, A, t, k)
      BY <2>1, CommittedIsChoosable
    <3>2. Agree(Lg[u], Lg[t], k)
      BY <2>3, <3>1 DEF KeepInv
    <3>3. Lg[t] \in Logs
      BY DEF HistoryLogs
    <3>4. Agree(Lg[t], Lg[u], k)
      BY <1>0, <3>2, <3>3, AgreeSymmetric
    <3> QED BY <1>0, <2>1, <3>3, <3>4, AgreeTransitive
  <2> QED BY <2>1, <2>2, <2>3
<1> QED BY <1>1, <1>2

LEMMA SafeExtends ==
    ASSUME NEW Ld, NEW Lg, NEW A, NEW Ld2, NEW Lg2, NEW A2,
           HistoryLogs(Ld, Lg, A), HistoryLogs(Ld2, Lg2, A2), Grows(Ld, Lg, A, Ld2, Lg2, A2),
           NEW a \in Logs, NEW b \in Logs, NEW i \in Nat, NEW t0 \in Nat, Agree(b, a, Len(a)),
           Safe(a, i, t0, Ld, Lg, A)
    PROVE  Safe(b, i, t0, Ld2, Lg2, A2)
<1>1. Len(a) \in Nat /\ t0 <= t0 /\ i <= i
  BY LogFacts
<1>2. i <= Len(a)
  BY <1>1 DEF Safe, Agree
<1>3. Safe(a, i, t0, Ld2, Lg2, A2)
  BY <1>1, SafeGrows
<1>4. Agree(b, a, i)
  BY <1>1, <1>2, AgreeDown
<1> QED BY <1>1, <1>3, <1>4, SafeAgrees

\* A set of natural numbers that is not empty has a least element ...
LessThan == {p \in Nat \X Nat : p[1] < p[2]}

LEMMA Least ==
    ASSUME NEW T \in SUBSET Nat, T # {}
    PROVE  \E x \in T : \A y \in T : x <= y
<1>1. IsWellFoundedOn(LessThan, Nat)
  <2>1. LessThan = OpToRel(<, Nat)
    BY DEF LessThan, OpToRel
  <2> QED BY <2>1, NatLessThanWellFounded
<1>2. PICK x \in T : \A y \in T : ~(<<y, x>> \in LessThan)
  BY <1>1, WFMin
<1>3. \A y \in T : x <= y
  <2> TAKE y \in T
  <2>1. x \in Nat /\ y \in Nat
    OBVIOUS
  <2>2. ~(y < x)
    <3> SUFFICES ASSUME y < x PROVE FALSE
      OBVIOUS
    <3>1. <<y, x>> \in LessThan
      BY <2>1 DEF LessThan
    <3> QED BY <1>2, <3>1
  <2> QED BY <2>1, <2>2
<1> QED BY <1>3

\* ... and a greatest one when it is bounded.
LEMMA Greatest ==
    ASSUME NEW T \in SUBSET Nat, T # {}, NEW bound \in Nat, \A y \in T : y <= bound
    PROVE  \E x \in T : \A y \in T : y <= x
<1> DEFINE Upper == {k \in Nat : \A y \in T : y <= k}
<1>1. PICK x \in Upper : \A k \in Upper : x <= k
  <2>1. Upper \in SUBSET Nat /\ Upper # {}
    OBVIOUS
  <2> HIDE DEF Upper
  <2> QED BY <2>1, Least
<1>2. x \in T
  <2> SUFFICES ASSUME x \notin T PROVE FALSE
    OBVIOUS
  <2>1. x \in Nat /\ x > 0
    <3>1. PICK y \in T : TRUE
      OBVIOUS
    <3>2. y \in Nat /\ y <= x /\ y # x /\ x \in Nat
      BY <3>1
    <3> QED BY <3>2
  <2>2. x - 1 \in Nat /\ \A y \in T : y <= x - 1
    <3>1. \A y \in T : y \in Nat /\ y <= x /\ y # x
      OBVIOUS
    <3> QED BY <2>1, <3>1
  <2>3. x <= x - 1
    BY <1>1, <2>2
  <2> QED BY <2>1, <2>3
<1> QED BY <1>2

-----------------------------------------------------------------------------
(* Logs *)

LEMMA AppendFacts ==
    ASSUME NEW lg \in Logs, NEW e \in Nat
    PROVE  LET b == Append(lg, e)
           IN  /\ b \in Logs /\ Len(b) = Len(lg) + 1 /\ b[Len(lg) + 1] = e
               /\ \A i \in 1..Len(lg) : b[i] = lg[i]
               /\ Agree(b, lg, Len(lg))
<1> DEFINE b == Append(lg, e)
<1>1. /\ b \in Logs /\ Len(b) = Len(lg) + 1 /\ b[Len(lg) + 1] = e
      /\ \A i \in 1..Len(lg) : b[i] = lg[i]
  BY LogFacts, AppendProperties DEF Logs
<1>2. Len(lg) \in Nat
  BY LogFacts
<1> HIDE DEF b
<1>3. Agree(b, lg, Len(lg))
  BY <1>1, <1>2 DEF Agree
<1> QED BY <1>1, <1>3 DEF b

LEMMA PrefixFacts ==
    ASSUME NEW lg \in Logs, NEW i \in Nat, i <= Len(lg)
    PROVE  SubSeq(lg, 1, i) \in Logs /\ Len(SubSeq(lg, 1, i)) = i /\ Agree(SubSeq(lg, 1, i), lg, i)
<1>1. Len(lg) \in Nat /\ \A j \in 1..i : lg[j] \in Nat
  BY LogFacts
<1>2. /\ SubSeq(lg, 1, i) \in Seq(Nat) /\ Len(SubSeq(lg, 1, i)) = i
      /\ \A j \in 1..i : SubSeq(lg, 1, i)[j] = lg[j]
  BY <1>1, SubSeqProperties
<1> QED BY <1>1, <1>2 DEF Agree, Logs

\* What replicate sends from prev on
LEMMA SuffixFacts ==
    ASSUME NEW lg \in Logs, NEW prev \in Nat, prev <= Len(lg)
    PROVE  LET s == SubSeq(lg, prev + 1, Len(lg))
           IN  /\ s \in Logs /\ prev + Len(s) = Len(lg)
               /\ \A j \in 1..Len(s) : s[j] = lg[prev + j]
<1> DEFINE s == SubSeq(lg, prev + 1, Len(lg))
<1>1. Len(lg) \in Nat /\ \A i \in prev + 1..Len(lg) : lg[i] \in Nat
  BY LogFacts
<1>2. /\ s \in Seq(Nat)
      /\ Len(s) = IF prev + 1 <= Len(lg) THEN Len(lg) - (prev + 1) + 1 ELSE 0
      /\ \A j \in 1..Len(lg) - (prev + 1) + 1 : s[j] = lg[prev + 1 + j - 1]
  BY <1>1, SubSeqProperties
<1>3. Len(s) = Len(lg) - prev
  BY <1>1, <1>2
<1> QED BY <1>1, <1>2, <1>3 DEF Logs

\* What merge_after does to a whole log
MergeIn(lg, prev, entries) ==
    IF \A i \in 1..Len(entries) : prev + i <= Len(lg) /\ lg[prev + i] = entries[i]
      THEN lg
      ELSE SubSeq(lg, 1, prev) \o entries

\* merge_after takes over a stretch of the leader's whole log L and loses nothing that lg and L share.
LEMMA MergeFollowsLeader ==
    ASSUME NEW lg \in Logs, NEW L \in Logs, NEW entries \in Logs, NEW prev \in Nat,
           prev + Len(entries) <= Len(L), prev <= Len(lg),
           \A j \in 1..Len(entries) : entries[j] = L[prev + j],
           Agree(lg, L, prev)
    PROVE  LET r == MergeIn(lg, prev, entries)
           IN  /\ r \in Logs
               /\ Agree(r, L, prev + Len(entries))
               /\ \A i \in Nat : Agree(lg, L, i) => Agree(r, L, i)
               /\ r = lg \/ Len(r) = prev + Len(entries)
<1> DEFINE n == Len(entries)
           same == \A i \in 1..n : prev + i <= Len(lg) /\ lg[prev + i] = entries[i]
           cut == SubSeq(lg, 1, prev)
           b == cut \o entries
<1>1. n \in Nat /\ Len(lg) \in Nat /\ Len(L) \in Nat
  BY LogFacts
<1>2. CASE same
  <2>1. MergeIn(lg, prev, entries) = lg
    BY <1>2 DEF MergeIn
  <2>2. ASSUME NEW j \in 1..prev + n PROVE lg[j] = L[j]
    <3>1. CASE j <= prev
      BY <1>1, <3>1 DEF Agree
    <3>2. CASE j > prev
      <4>1. j - prev \in 1..n
        BY <1>1, <3>2
      <4>2. lg[prev + (j - prev)] = entries[j - prev] /\ entries[j - prev] = L[prev + (j - prev)]
        BY <1>2, <4>1
      <4>3. prev + (j - prev) = j
        BY <1>1
      <4> QED BY <4>2, <4>3
    <3> QED BY <1>1, <3>1, <3>2
  <2>3. prev + n <= Len(lg)
    <3>1. CASE n = 0
      BY <1>1, <3>1
    <3>2. CASE n > 0
      <4>1. n \in 1..n
        BY <1>1, <3>2
      <4> QED BY <1>2, <4>1
    <3> QED BY <1>1, <3>1, <3>2
  <2>4. Agree(lg, L, prev + n)
    BY <1>1, <2>2, <2>3 DEF Agree
  <2> QED BY <2>1, <2>4
<1>3. CASE ~same
  <2>1. MergeIn(lg, prev, entries) = b
    BY <1>3 DEF MergeIn
  <2>2. cut \in Logs /\ Len(cut) = prev /\ \A j \in 1..prev : cut[j] = lg[j]
    BY PrefixFacts DEF Agree
  <2> HIDE DEF cut
  <2>3. /\ b \in Logs /\ Len(b) = prev + n
        /\ \A j \in 1..prev + n : b[j] = IF j <= prev THEN cut[j] ELSE entries[j - prev]
    BY <2>2, ConcatProperties DEF Logs
  <2> HIDE DEF b
  <2>4. ASSUME NEW j \in 1..prev + n PROVE b[j] = L[j]
    <3>1. CASE j <= prev
      <4>1. j \in 1..prev
        BY <3>1
      <4> QED BY <2>2, <2>3, <3>1, <4>1 DEF Agree
    <3>2. CASE j > prev
      <4>1. j - prev \in 1..n
        BY <1>1, <3>2
      <4>2. entries[j - prev] = L[prev + (j - prev)] /\ prev + (j - prev) = j
        BY <1>1, <4>1
      <4> QED BY <2>3, <3>2, <4>2
    <3> QED BY <1>1, <3>1, <3>2
  <2>5. Agree(b, L, prev + n)
    BY <1>1, <2>3, <2>4 DEF Agree
  <2>6. ASSUME NEW i \in Nat, Agree(lg, L, i) PROVE Agree(b, L, i)
    <3>1. i <= prev + n
      <4> SUFFICES ASSUME i > prev + n PROVE FALSE
        BY <1>1
      <4>1. \A j \in 1..n : prev + j <= Len(lg) /\ lg[prev + j] = L[prev + j]
        BY <1>1, <2>6 DEF Agree
      <4> QED BY <1>3, <4>1
    <3> QED BY <1>1, <2>3, <2>5, <2>6, <3>1 DEF Agree
  <2> QED BY <2>1, <2>3, <2>5, <2>6
<1> QED BY <1>2, <1>3

-----------------------------------------------------------------------------
(* Messages and nodes, as the history of the cluster grows *)

LEMMA MessageTrueGrows ==
    ASSUME NEW Ld, NEW Lg, NEW A, NEW Ld2, NEW Lg2, NEW A2,
           HistoryLogs(Ld, Lg, A), HistoryLogs(Ld2, Lg2, A2), Grows(Ld, Lg, A, Ld2, Lg2, A2),
           NEW m, IsMessage(m), MessageTrue(m, Ld, Lg, A)
    PROVE  MessageTrue(m, Ld2, Lg2, A2)
<1>t. PICK t \in Nat, src \in Server : t = m.term /\ src = m.src
  BY DEF IsMessage
<1>l. Lg[t] \in Logs /\ Lg2[t] \in Logs
  BY DEF HistoryLogs
<1>n. Len(Lg[t]) \in Nat /\ Len(Lg2[t]) \in Nat
  BY <1>l, LogFacts
<1>1. Ld[t] = src /\ m.dst # src /\ Ld2[t] = src /\ Agree(Lg2[t], Lg[t], Len(Lg[t]))
  BY <1>t, ConstantAssumption DEF MessageTrue, Grows
<1>2. ASSUME m.type = "AppendEntries" PROVE AppendTrue(m, Ld2, Lg2, A2)
  <2>1. /\ m.prev + Len(m.entries) <= Len(Lg[t])
        /\ \A j \in 1..Len(m.entries) : m.entries[j] = Lg[t][m.prev + j]
        /\ m.prevTerm = TermIn(Lg[t], m.prev) /\ Safe(Lg[t], m.commit, t, Ld, Lg, A)
    BY <1>2, <1>t DEF MessageTrue, AppendTrue
  <2>2. m.prev \in Nat /\ Len(m.entries) \in Nat /\ m.commit \in Nat
    BY <1>2, LogFacts DEF IsMessage
  <2>5. Len(Lg[t]) <= Len(Lg2[t]) /\ \A i \in 1..Len(Lg[t]) : Lg2[t][i] = Lg[t][i]
    BY <1>1 DEF Agree
  <2>6. ASSUME NEW j \in 1..Len(m.entries) PROVE m.entries[j] = Lg2[t][m.prev + j]
    <3>1. m.prev + j \in 1..Len(Lg[t])
      BY <1>n, <2>1, <2>2
    <3> QED BY <2>1, <2>5, <3>1
  <2>7. m.prevTerm = TermIn(Lg2[t], m.prev)
    <3>1. m.prev = 0 \/ m.prev \in 1..Len(Lg[t])
      BY <1>n, <2>1, <2>2
    <3> QED BY <2>1, <2>5, <3>1 DEF TermIn
  <2>8. Safe(Lg2[t], m.commit, t, Ld2, Lg2, A2)
    BY <1>1, <1>l, <2>1, <2>2, SafeExtends
  <2> QED BY <1>n, <1>t, <2>1, <2>2, <2>5, <2>6, <2>7, <2>8 DEF AppendTrue
<1>3. ASSUME m.type = "InstallSnapshot"
      PROVE  Safe(m.snapshot.state, m.snapshot.index, m.term, Ld2, Lg2, A2)
  <2>1. PICK s \in Logs, i \in Nat : s = m.snapshot.state /\ i = m.snapshot.index
    BY <1>3 DEF IsMessage, IsSnapshot, Snapshots
  <2>2. Safe(s, i, t, Ld, Lg, A) /\ t <= t
    BY <1>3, <1>t, <2>1 DEF MessageTrue
  <2>3. Safe(s, i, t, Ld2, Lg2, A2)
    BY <2>2, SafeGrows
  <2> QED BY <1>t, <2>1, <2>3
<1> QED BY <1>1, <1>2, <1>3, <1>t DEF MessageTrue

LEMMA NodeSafeGrows ==
    ASSUME NEW Ld, NEW Lg, NEW A, NEW Ld2, NEW Lg2, NEW A2,
           HistoryLogs(Ld, Lg, A), HistoryLogs(Ld2, Lg2, A2), Grows(Ld, Lg, A, Ld2, Lg2, A2),
           NEW lg \in Logs, NEW a \in Logs, NEW c \in Nat, NEW t0 \in Nat, NEW t1 \in Nat, t0 <= t1,
           NodeSafe(lg, a, c, t0, Ld, Lg, A)
    PROVE  NodeSafe(lg, a, c, t1, Ld2, Lg2, A2)
<1>1. Len(a) \in Nat
  BY LogFacts
<1> QED BY <1>1, SafeGrows DEF NodeSafe

-----------------------------------------------------------------------------
(* Steps that add nothing to the history *)

\* Terms may rise, leaders may retire, messages may be lost, and what is committed or executed
\* may change within what is safe.
LEMMA RaftQuiet ==
    ASSUME RaftOK, RaftOK', NEW Ld, NEW Lg, NEW A, RaftInv(Ld, Lg, A),
           whole' = whole, \A v \in Server : term[v] <= term'[v],
           \A v \in Server : leads'[v] => leads[v] /\ term'[v] = term[v] /\ match'[v] = match[v],
           CommitInv(Ld, Lg, A)', MessageInv(Ld, Lg, A)'
    PROVE  RaftInv(Ld, Lg, A)'
<1>x. /\ HistoryLogs(Ld, Lg, A) /\ LeaderInv(Ld, Lg) /\ LogInv(Ld, Lg) /\ AckInv(Ld, Lg, A)
      /\ KeepInv(Ld, Lg, A) /\ MatchInv(A)
  BY DEF RaftInv
<1>t. \A v \in Server : term[v] \in Nat /\ term'[v] \in Nat /\ whole[v] \in Logs
  BY DEF RaftOK
<1>1. LeaderInv(Ld, Lg)'
  <2>1. ASSUME NEW t \in Nat, Ld[t] # None
        PROVE  t > 0 /\ t <= term'[Ld[t]] /\ IsQuorum({v \in Server : t <= term'[v]})
    <3>1. Ld[t] \in Server
      BY <1>x, <2>1 DEF HistoryLogs
    <3>2. t > 0 /\ t <= term[Ld[t]] /\ IsQuorum({v \in Server : t <= term[v]})
      BY <1>x, <2>1 DEF LeaderInv
    <3>3. {v \in Server : t <= term[v]} \subseteq {v \in Server : t <= term'[v]}
      BY <1>t
    <3>4. IsQuorum({v \in Server : t <= term'[v]})
      BY <3>2, <3>3, QuorumGrows
    <3> QED BY <1>t, <3>1, <3>2, <3>4
  <2> QED BY <1>x, <2>1 DEF LeaderInv
<1>2. LogInv(Ld, Lg)'
  <2>1. ASSUME NEW p \in Server PROVE TermsUpTo(whole[p], term'[p])
    <3>1. TermsUpTo(whole[p], term[p])
      BY <1>x DEF LogInv
    <3> QED BY <1>t, <3>1, LogFacts DEF TermsUpTo
  <2> QED BY <1>x, <2>1 DEF LogInv
<1>3. AckInv(Ld, Lg, A)'
  <2>1. ASSUME NEW v \in Server, NEW t \in Nat, A[v][t] > 0
        PROVE  /\ Ld[t] # None /\ t <= term'[v] /\ A[v][t] <= Len(Lg[t])
               /\ t = term'[v] => Agree(whole[v], Lg[t], A[v][t])
    <3>1. /\ Ld[t] # None /\ t <= term[v] /\ A[v][t] <= Len(Lg[t])
          /\ t = term[v] => Agree(whole[v], Lg[t], A[v][t])
      BY <1>x, <2>1 DEF AckInv
    <3> QED BY <1>t, <3>1
  <2> QED BY <1>x, <2>1 DEF AckInv
<1>4. KeepInv(Ld, Lg, A)'
  <2>1. ASSUME NEW t \in Nat, NEW i \in Nat, Choosable(Ld, Lg, A, t, i)'
        PROVE  Choosable(Ld, Lg, A, t, i)
    <3>1. Ld[t] # None /\ i <= Len(Lg[t]) /\ Grows(Ld, Lg, A, Ld, Lg, A)
      BY <1>x, <2>1, GrowsReflexive DEF Choosable
    <3> QED BY <1>x, <2>1, <3>1, ChoosableShrinks
  <2> QED BY <1>x, <2>1 DEF KeepInv
<1>5. MatchInv(A)'
  BY <1>x DEF MatchInv
<1> QED BY <1>x, <1>1, <1>2, <1>3, <1>4, <1>5 DEF RaftInv, HistoryLogs

-----------------------------------------------------------------------------
(* A leader appends an entry *)

\* A2 is A with v's acknowledgement of index i in term t.
Acknowledges(v, t, i, A, A2) ==
    /\ A2 \in [Server -> [Nat -> Nat]]
    /\ A2[v][t] = IF i > A[v][t] THEN i ELSE A[v][t]
    /\ \A w \in Server, u \in Nat : u # t \/ w # v => A2[w][u] = A[w][u]

LEMMA AcknowledgeMore ==
    ASSUME NEW A \in [Server -> [Nat -> Nat]], NEW v \in Server, NEW t \in Nat, NEW i \in Nat
    PROVE  \E A2 : Acknowledges(v, t, i, A, A2)
<1> DEFINE a == IF i > A[v][t] THEN i ELSE A[v][t]
           B == [A EXCEPT ![v] = [A[v] EXCEPT ![t] = a]]
<1>1. A[v][t] \in Nat
  OBVIOUS
<1>2. a \in Nat
  BY <1>1
<1> HIDE DEF a
<1>3. /\ B \in [Server -> [Nat -> Nat]] /\ B[v][t] = a
      /\ \A w \in Server, u \in Nat : u # t \/ w # v => B[w][u] = A[w][u]
  BY <1>2
<1> HIDE DEF B
<1>4. Acknowledges(v, t, i, A, B)
  BY <1>3 DEF Acknowledges, a
<1> QED BY <1>4

\* Only n holds the new entry, and n has gone no further than its term.
LEMMA RaftExtends ==
    ASSUME RaftOK, RaftOK', MessagesOK, NEW Ld, NEW Lg, NEW A, RaftInv(Ld, Lg, A),
           NEW n \in Server, leads[n],
           whole' = [whole EXCEPT ![n] = Append(whole[n], term[n])],
           UNCHANGED <<term, leads, commit, image, match, msgs>>
    PROVE  \E Lg2, A2 : Grows(Ld, Lg, A, Ld, Lg2, A2) /\ RaftInv(Ld, Lg2, A2)'
<1>x. /\ HistoryLogs(Ld, Lg, A) /\ LeaderInv(Ld, Lg) /\ LogInv(Ld, Lg) /\ AckInv(Ld, Lg, A)
      /\ KeepInv(Ld, Lg, A) /\ MessageInv(Ld, Lg, A) /\ CommitInv(Ld, Lg, A) /\ MatchInv(A)
  BY DEF RaftInv
<1>t. PICK t \in Nat : t = term[n]
  BY DEF RaftOK
<1>lg. PICK lg \in Logs : lg = whole[n]
  BY DEF RaftOK
<1>e. PICK e \in Nat : e = t
  OBVIOUS
<1>b. PICK b \in Logs : b = Append(lg, e)
  BY AppendFacts
<1>L. /\ Len(lg) \in Nat /\ Len(b) = Len(lg) + 1 /\ b[Len(lg) + 1] = e /\ \A i \in 1..Len(lg) : b[i] = lg[i]
      /\ Agree(b, lg, Len(lg))
  BY <1>b, AppendFacts, LogFacts
<1>0. /\ term' = term /\ leads' = leads /\ commit' = commit /\ image' = image /\ match' = match /\ msgs' = msgs
      /\ whole'[n] = b /\ \A p \in Server \ {n} : whole'[p] = whole[p]
  BY <1>lg, <1>b, <1>e, <1>t DEF RaftOK
<1>n. n # None /\ \A c \in Server : c # None
  BY ConstantAssumption
<1>c. \A p \in Server : term[p] \in Nat /\ whole[p] \in Logs /\ whole'[p] \in Logs /\ image'[p] \in Logs
  BY DEF RaftOK
<1>1. Ld[t] = n /\ Lg[t] = lg /\ A[n][t] = Len(lg)
  BY <1>t, <1>lg, <1>x DEF LeaderInv, AckInv
<1>l. \A l \in Server \ {n} : leads[l] => term[l] \in Nat \ {t}
  BY <1>1, <1>c, <1>x DEF LeaderInv
<1>q. PICK Lg2 : Lg2 \in [Nat -> Logs] /\ Lg2[t] = b /\ \A u \in Nat \ {t} : Lg2[u] = Lg[u]
  <2> DEFINE G == [Lg EXCEPT ![t] = b]
  <2>1. G \in [Nat -> Logs] /\ G[t] = b /\ \A u \in Nat \ {t} : G[u] = Lg[u]
    BY <1>x DEF HistoryLogs
  <2> HIDE DEF G
  <2> QED BY <2>1
<1>k. PICK k \in Nat : k = Len(lg) + 1 /\ k = Len(b)
  BY <1>L
<1>r0. PICK A2 : Acknowledges(n, t, k, A, A2)
  BY <1>x, AcknowledgeMore DEF HistoryLogs
<1>r. /\ A2 \in [Server -> [Nat -> Nat]] /\ A2[n][t] = k
      /\ \A v \in Server, u \in Nat : u # t \/ v # n => A2[v][u] = A[v][u]
  <2>1. k > A[n][t]
    BY <1>1, <1>k, <1>L
  <2> QED BY <1>r0, <2>1 DEF Acknowledges
<1>2. HistoryLogs(Ld, Lg, A) /\ HistoryLogs(Ld, Lg2, A2)
  <2>1. Ld \in [Nat -> Server \cup {None}] /\ HistoryLogs(Ld, Lg, A)
    BY <1>x DEF HistoryLogs
  <2>2. Lg2 \in [Nat -> Logs] /\ A2 \in [Server -> [Nat -> Nat]]
    BY <1>q, <1>r
  <2> QED BY <2>1, <2>2 DEF HistoryLogs
<1>a. \A v \in Server, u \in Nat : A[v][u] \in Nat /\ A2[v][u] \in Nat
  BY <1>2 DEF HistoryLogs
<1>3. Agree(b, lg, Len(lg)) /\ Agree(b, b, Len(b))
  <2>1. Len(b) <= Len(b) /\ Len(b) \in Nat
    BY <1>k
  <2> QED BY <1>L, <2>1, AgreeReflexive
<1>4. \A u \in Nat : /\ Lg[u] \in Logs /\ Lg2[u] \in Logs /\ Len(Lg[u]) \in Nat
                     /\ Agree(Lg2[u], Lg[u], Len(Lg[u])) /\ Agree(Lg[u], Lg2[u], Len(Lg[u]))
  <2> SUFFICES ASSUME NEW u \in Nat
               PROVE  /\ Lg[u] \in Logs /\ Lg2[u] \in Logs /\ Len(Lg[u]) \in Nat
                      /\ Agree(Lg2[u], Lg[u], Len(Lg[u])) /\ Agree(Lg[u], Lg2[u], Len(Lg[u]))
    OBVIOUS
  <2>1. Lg[u] \in Logs /\ Lg2[u] \in Logs
    BY <1>2 DEF HistoryLogs
  <2>2. Len(Lg[u]) \in Nat
    BY <2>1, LogFacts
  <2>3. Agree(Lg2[u], Lg[u], Len(Lg[u]))
    <3>1. CASE u = t
      BY <1>1, <1>3, <1>q, <3>1
    <3>2. CASE u # t
      <4>1. Len(Lg[u]) <= Len(Lg[u]) /\ Lg2[u] = Lg[u]
        BY <1>q, <2>2, <3>2
      <4> QED BY <2>1, <2>2, <4>1, AgreeReflexive
    <3> QED BY <3>1, <3>2
  <2> QED BY <2>1, <2>2, <2>3, AgreeSymmetric
<1>5. Grows(Ld, Lg, A, Ld, Lg2, A2)
  <2>1. ASSUME NEW v \in Server, NEW u \in Nat PROVE A[v][u] <= A2[v][u]
    <3>1. CASE u = t /\ v = n
      <4>1. A[v][u] = Len(lg) /\ A2[v][u] = k
        BY <1>1, <1>r, <3>1
      <4> QED BY <1>L, <1>k, <4>1
    <3>2. CASE u # t \/ v # n
      <4>1. A2[v][u] = A[v][u] /\ A[v][u] \in Nat
        BY <1>r, <1>a, <3>2
      <4> QED BY <4>1
    <3> QED BY <3>1, <3>2
  <2> QED BY <1>4, <2>1 DEF Grows
<1>g. \A x \in Logs : Good(x, Ld, Lg) => Good(x, Ld, Lg2)
  BY <1>2, <1>5, GoodGrows
<1>7. LeaderInv(Ld, Lg2)'
  <2>1. ASSUME NEW l \in Server, leads[l]
        PROVE  Ld[term[l]] = l /\ whole'[l] = Lg2[term[l]]
    <3>1. CASE l = n
      BY <1>0, <1>1, <1>t, <1>q, <3>1
    <3>2. CASE l # n
      BY <1>0, <1>l, <1>q, <1>x, <2>1, <3>2 DEF LeaderInv
    <3> QED BY <3>1, <3>2
  <2> QED BY <1>0, <1>x, <2>1 DEF LeaderInv
<1>8. Good(b, Ld, Lg2) /\ TermsUpTo(b, t)
  <2>1. Good(lg, Ld, Lg) /\ TermsUpTo(lg, t)
    BY <1>x, <1>t, <1>lg DEF LogInv
  <2>2. Good(lg, Ld, Lg2)
    BY <1>g, <2>1
  <2>3. ASSUME NEW i \in 1..Len(b)
        PROVE  Ld[b[i]] # None /\ Agree(b, Lg2[b[i]], i) /\ b[i] <= t
    <3>1. CASE i = Len(lg) + 1
      BY <1>1, <1>3, <1>L, <1>e, <1>t, <1>n, <1>q, <3>1
    <3>2. CASE i # Len(lg) + 1
      <4>1. i \in 1..Len(lg) /\ i \in Nat /\ i <= Len(lg)
        BY <1>L, <3>2
      <4>2. PICK w \in Nat : w = lg[i]
        BY <4>1, LogFacts
      <4>3. b[i] = w
        BY <1>L, <4>1, <4>2
      <4>4. Ld[w] # None /\ Agree(lg, Lg2[w], i) /\ w <= t
        BY <2>1, <2>2, <4>1, <4>2 DEF Good, TermsUpTo
      <4>5. Agree(b, Lg2[w], i)
        <5>1. Lg2[w] \in Logs /\ i <= i
          BY <1>4, <4>1
        <5> QED BY <1>3, <1>L, <4>1, <4>4, <5>1, AgreeTransitive
      <4> QED BY <4>3, <4>4, <4>5
    <3> QED BY <3>1, <3>2
  <2> QED BY <2>3 DEF Good, TermsUpTo
<1>9. LogInv(Ld, Lg2)'
  <2>1. ASSUME NEW p \in Server
        PROVE  Good(whole'[p], Ld, Lg2) /\ TermsUpTo(whole'[p], term[p])
    <3>1. CASE p = n
      BY <1>0, <1>8, <1>t, <3>1
    <3>2. CASE p # n
      BY <1>0, <1>c, <1>g, <1>x, <3>2 DEF LogInv
    <3> QED BY <3>1, <3>2
  <2>2. ASSUME NEW u \in Nat, Ld[u] # None
        PROVE  Good(Lg2[u], Ld, Lg2) /\ TermsUpTo(Lg2[u], u)
    <3>1. CASE u = t
      BY <1>8, <1>q, <3>1
    <3>2. CASE u # t
      BY <1>4, <1>g, <1>q, <1>x, <2>2, <3>2 DEF LogInv
    <3> QED BY <3>1, <3>2
  <2> QED BY <1>0, <2>1, <2>2 DEF LogInv
<1>11. MessageInv(Ld, Lg2, A2)'
  BY <1>0, <1>2, <1>5, <1>x, MessageTrueGrows DEF MessageInv, MessagesOK
<1>12. AckInv(Ld, Lg2, A2)'
  <2>1. ASSUME NEW v \in Server, NEW u \in Nat, A2[v][u] > 0
        PROVE  /\ Ld[u] # None /\ u <= term[v] /\ A2[v][u] <= Len(Lg2[u])
               /\ u = term[v] => Agree(whole'[v], Lg2[u], A2[v][u])
    <3>1. CASE u = t /\ v = n
      <4>0. A2[v][u] = k /\ Ld[u] = n /\ Lg2[u] = b
        BY <1>1, <1>q, <1>r, <3>1
      <4>1. Ld[u] # None /\ A2[v][u] = Len(b) /\ Lg2[u] = b /\ Len(b) <= Len(b) /\ t <= t
        BY <1>k, <1>n, <4>0
      <4>2. u <= term[v] /\ whole'[v] = b
        <5>1. term[v] = t /\ u = t /\ t <= t
          BY <1>t, <3>1
        <5> QED BY <1>0, <3>1, <5>1
      <4>3. Agree(b, b, Len(b))
        BY <1>3
      <4> QED BY <4>1, <4>2, <4>3
    <3>2. CASE u # t \/ v # n
      <4>1. A2[v][u] = A[v][u] /\ A[v][u] \in Nat
        BY <1>r, <1>a, <3>2
      <4>2. /\ Ld[u] # None /\ u <= term[v] /\ A[v][u] <= Len(Lg[u])
            /\ u = term[v] => Agree(whole[v], Lg[u], A[v][u])
        BY <1>x, <2>1, <4>1 DEF AckInv
      <4>3. Len(Lg[u]) <= Len(Lg2[u]) /\ Len(Lg2[u]) \in Nat
        BY <1>4, LogFacts DEF Agree
      <4>4. ASSUME u = term[v] PROVE Agree(whole'[v], Lg2[u], A[v][u])
        <5>1. v # n /\ whole'[v] = whole[v] /\ whole[v] \in Logs /\ A[v][u] <= A[v][u]
          BY <1>0, <1>c, <1>t, <3>2, <4>1, <4>4
        <5>2. Agree(whole[v], Lg2[u], A[v][u])
          BY <1>4, <4>1, <4>2, <4>4, <5>1, AgreeTransitive
        <5> QED BY <5>1, <5>2
      <4> QED BY <1>4, <4>1, <4>2, <4>3, <4>4
    <3> QED BY <3>1, <3>2
  <2>2. ASSUME NEW l \in Server, leads[l]
        PROVE  A2[l][term[l]] = Len(whole'[l])
    <3>1. CASE l = n
      BY <1>0, <1>k, <1>r, <1>t, <3>1
    <3>2. CASE l # n
      BY <1>0, <1>l, <1>r, <1>x, <2>2, <3>2 DEF AckInv
    <3> QED BY <3>1, <3>2
  <2> QED BY <1>0, <2>1, <2>2 DEF AckInv
<1>13. KeepInv(Ld, Lg2, A2)'
  <2> SUFFICES ASSUME NEW u \in Nat, NEW i \in Nat, Choosable(Ld, Lg2, A2, u, i)'
               PROVE  /\ \A v \in Server : A2[v][u] >= i => Agree(whole'[v], Lg2[u], i)
                      /\ \A w \in Nat : u < w /\ Ld[w] # None => Agree(Lg2[w], Lg2[u], i)
    BY DEF KeepInv
  <2>0. Ld[u] # None /\ i \in 1..Len(Lg2[u]) /\ IsQuorum({v \in Server : A2[v][u] >= i \/ term[v] <= u})
    BY <1>0 DEF Choosable
  <2>1. CASE i <= Len(Lg[u])
    <3>0. /\ \A x, y \in Logs : Agree(x, y, i) => i <= Len(x) /\ i <= Len(y)
          /\ Agree(Lg[u], Lg2[u], Len(Lg[u])) /\ Lg[u] \in Logs /\ Lg2[u] \in Logs /\ Len(Lg[u]) \in Nat
          /\ i <= i
      BY <1>4 DEF Agree
    <3>1. \A v \in Server : A2[v][u] >= i => A[v][u] >= i \/ term[v] <= u
      <4> SUFFICES ASSUME NEW v \in Server, A2[v][u] >= i PROVE A[v][u] >= i \/ term[v] <= u
        OBVIOUS
      <4>1. CASE u = t /\ v = n
        BY <1>c, <1>t, <4>1
      <4>2. CASE u # t \/ v # n
        BY <1>r, <4>2
      <4> QED BY <4>1, <4>2
    <3>2. Choosable(Ld, Lg, A, u, i)
      <4>1. \A v \in Server : term[v] <= term'[v]
        BY <1>0, <1>c
      <4> QED BY <1>2, <1>5, <2>0, <2>1, <3>1, <4>1, ChoosableShrinks
    <3>3. /\ \A v \in Server : A[v][u] >= i => Agree(whole[v], Lg[u], i)
          /\ \A w \in Nat : u < w /\ Ld[w] # None => Agree(Lg[w], Lg[u], i)
      BY <1>x, <3>2 DEF KeepInv
    <3>4. \A v \in Server : A2[v][u] >= i => A[v][u] >= i
      <4> SUFFICES ASSUME NEW v \in Server, A2[v][u] >= i PROVE A[v][u] >= i
        OBVIOUS
      <4>1. CASE u = t /\ v = n
        BY <1>1, <2>1, <4>1
      <4>2. CASE u # t \/ v # n
        <5>1. A2[v][u] = A[v][u]
          BY <1>r, <4>2
        <5> QED BY <5>1
      <4> QED BY <4>1, <4>2
    <3>5. \A x \in Logs : Agree(x, Lg[u], i) => Agree(x, Lg2[u], i)
      BY <2>1, <3>0, AgreeTransitive
    <3>6. ASSUME NEW v \in Server, A2[v][u] >= i PROVE Agree(whole'[v], Lg2[u], i)
      <4>1. Agree(whole[v], Lg2[u], i)
        BY <1>c, <3>3, <3>4, <3>5, <3>6
      <4>2. CASE v = n
        <5>1. Agree(lg, Lg2[u], i) /\ i <= Len(lg)
          BY <1>lg, <3>0, <4>1, <4>2
        <5>2. Agree(b, Lg2[u], i)
          BY <1>3, <1>L, <3>0, <5>1, AgreeTransitive
        <5> QED BY <1>0, <4>2, <5>2
      <4>3. CASE v # n
        BY <1>0, <4>1, <4>3
      <4> QED BY <4>2, <4>3
    <3>8. ASSUME NEW w \in Nat, u < w, Ld[w] # None PROVE Agree(Lg2[w], Lg2[u], i)
      <4>1. Agree(Lg[w], Lg2[u], i) /\ Lg[w] \in Logs /\ Lg2[w] \in Logs /\ Len(Lg[w]) \in Nat
        BY <1>4, <3>3, <3>5, <3>8
      <4>2. i <= Len(Lg[w]) /\ Agree(Lg2[w], Lg[w], Len(Lg[w]))
        BY <1>4, <3>0, <4>1
      <4> QED BY <3>0, <4>1, <4>2, AgreeTransitive
    <3> QED BY <3>6, <3>8
  <2>2. CASE i > Len(Lg[u])
    <3>1. u = t /\ i = Len(lg) + 1
      <4>1. u = t
        BY <1>4, <1>q, <2>0, <2>2
      <4> QED BY <1>1, <1>L, <1>q, <2>0, <2>2, <4>1
    <3>2. \A v \in Server : A2[v][u] >= i => v = n
      <4> SUFFICES ASSUME NEW v \in Server, A2[v][t] >= Len(lg) + 1, v # n PROVE FALSE
        BY <3>1
      <4>1. A[v][t] >= Len(lg) + 1 /\ A[v][t] \in Nat
        BY <1>r, <1>a
      <4>2. A[v][t] <= Len(lg)
        <5>1. A[v][t] > 0
          BY <1>L, <4>1
        <5> QED BY <1>1, <1>x, <5>1 DEF AckInv
      <4> QED BY <1>L, <4>1, <4>2
    <3>3. ASSUME NEW v \in Server, A2[v][u] >= i PROVE Agree(whole'[v], Lg2[u], i)
      <4>1. v = n /\ whole'[v] = b /\ Lg2[u] = b /\ i = Len(b)
        BY <1>0, <1>k, <1>q, <3>1, <3>2, <3>3
      <4> QED BY <1>3, <4>1
    <3>5. ASSUME NEW w \in Nat, u < w, Ld[w] # None PROVE FALSE
      <4> DEFINE P == {v \in Server : A2[v][u] >= i \/ term[v] <= u}
                 Q == {v \in Server : w <= term[v]}
      <4>1. IsQuorum(P) /\ P \in SUBSET Server
        BY <2>0
      <4>2. IsQuorum(Q) /\ Q \in SUBSET Server
        BY <1>x, <3>5 DEF LeaderInv
      <4>3. PICK v \in P : v \in Q
        <5> HIDE DEF P, Q
        <5> QED BY <4>1, <4>2, QuorumsMeet
      <4>4. v \in Server /\ w <= term[v] /\ (A2[v][u] >= i \/ term[v] <= u)
        BY <4>3
      <4>6. A2[v][u] >= i
        BY <1>c, <3>5, <4>4
      <4>7. v = n
        BY <3>2, <4>4, <4>6
      <4> QED BY <1>t, <3>1, <3>5, <4>4, <4>7
    <3> QED BY <3>3, <3>5
  <2>3. i <= Len(Lg[u]) \/ i > Len(Lg[u])
    BY <1>4
  <2> QED BY <2>1, <2>2, <2>3
<1>14. CommitInv(Ld, Lg2, A2)'
  <2>1. ASSUME NEW p \in Server
        PROVE  /\ Safe(whole'[p], commit[p], term[p], Ld, Lg2, A2)
               /\ Safe(image'[p], Len(image'[p]), term[p], Ld, Lg2, A2)
               /\ Agree(image'[p], whole'[p], Len(image'[p]))
    <3>1. /\ commit[p] \in Nat /\ Len(image'[p]) \in Nat /\ Len(whole[p]) \in Nat
          /\ term[p] <= term[p] /\ Len(image'[p]) <= Len(image'[p])
      BY <1>c, LogFacts DEF RaftOK
    <3>2. /\ Safe(whole[p], commit[p], term[p], Ld, Lg, A)
          /\ Safe(image'[p], Len(image'[p]), term[p], Ld, Lg, A)
          /\ Agree(image'[p], whole[p], Len(image'[p]))
        BY <1>0, <1>x DEF CommitInv, NodeSafe
    <3>3. Agree(whole'[p], whole[p], Len(whole[p])) /\ Agree(whole[p], whole'[p], Len(whole[p]))
      <4>1. Agree(whole'[p], whole[p], Len(whole[p]))
        <5>1. CASE p = n
          BY <1>0, <1>3, <1>lg, <5>1
        <5>2. CASE p # n
          <6>1. whole'[p] = whole[p] /\ Len(whole[p]) <= Len(whole[p])
            BY <1>0, <3>1, <5>2
          <6> QED BY <1>c, <3>1, <6>1, AgreeReflexive
        <5> QED BY <5>1, <5>2
      <4> QED BY <1>c, <3>1, <4>1, AgreeSymmetric
    <3>4. Safe(whole'[p], commit[p], term[p], Ld, Lg2, A2)
      BY <1>2, <1>5, <1>c, <3>1, <3>2, <3>3, SafeExtends
    <3>5. Safe(image'[p], Len(image'[p]), term[p], Ld, Lg2, A2)
      BY <1>2, <1>5, <1>c, <3>1, <3>2, SafeGrows
    <3>6. Agree(image'[p], whole'[p], Len(image'[p]))
      <4>1. Len(image'[p]) <= Len(whole[p])
        BY <3>2 DEF Agree
      <4> QED BY <1>c, <3>1, <3>2, <3>3, <4>1, AgreeTransitive
    <3> QED BY <3>4, <3>5, <3>6
  <2> QED BY <1>0, <2>1 DEF CommitInv, NodeSafe
<1>16. MatchInv(A2)'
  <2> SUFFICES ASSUME NEW l \in Server, NEW p \in Server, leads[l], p # l
               PROVE  match[l][p] <= A2[p][term[l]]
    BY <1>0 DEF MatchInv
  <2>1. match[l][p] <= A[p][term[l]] /\ match[l][p] \in Nat
    BY <1>x DEF MatchInv, RaftOK
  <2>2. A[p][term[l]] <= A2[p][term[l]]
    BY <1>5, <1>c DEF Grows
  <2> QED BY <1>a, <1>c, <2>1, <2>2
<1>15. RaftInv(Ld, Lg2, A2)'
  BY <1>2, <1>7, <1>9, <1>11, <1>12, <1>13, <1>14, <1>16 DEF RaftInv, HistoryLogs
<1> QED BY <1>5, <1>15

-----------------------------------------------------------------------------
(* A follower accepts entries or a snapshot *)

\* A follower takes over what a leader sent: it keeps what is safe, and acknowledges a prefix
\* of k entries, which the leader learns or not.
LEMMA RaftAccepts ==
    ASSUME RaftOK, RaftOK', MessagesOK, NEW Ld, NEW Lg, NEW A, RaftInv(Ld, Lg, A),
           NEW n \in Server, NEW t \in Nat, NEW k \in Nat,
           term[n] <= t, term'[n] = t, ~leads'[n], Ld[t] # None,
           Agree(whole'[n], Lg[t], k),
           \A i \in Nat : Agree(whole[n], Lg[t], i) => Agree(whole'[n], Lg[t], i),
           whole'[n] = whole[n] \/ Len(whole'[n]) = k,
           \/ image'[n] = image[n]
           \/ Safe(image'[n], Len(image'[n]), t, Ld, Lg, A) /\ Agree(image'[n], whole'[n], Len(image'[n])),
           \/ commit'[n] = commit[n]
           \/ commit'[n] <= k /\ Safe(Lg[t], commit'[n], t, Ld, Lg, A),
           \A p \in Server \ {n} :
               term'[p] = term[p] /\ leads'[p] = leads[p] /\ whole'[p] = whole[p] /\ image'[p] = image[p],
           \A A2 : Acknowledges(n, t, k, A, A2) /\ HistoryLogs(Ld, Lg, A2) /\ Grows(Ld, Lg, A, Ld, Lg, A2) =>
               /\ MatchInv(A2)'
               /\ \A p \in Server \ {n} : Safe(whole[p], commit'[p], term[p], Ld, Lg, A2),
           msgs' \subseteq msgs
    PROVE  \E A2 : Grows(Ld, Lg, A, Ld, Lg, A2) /\ RaftInv(Ld, Lg, A2)'
<1>x. /\ HistoryLogs(Ld, Lg, A) /\ LeaderInv(Ld, Lg) /\ LogInv(Ld, Lg) /\ AckInv(Ld, Lg, A)
      /\ KeepInv(Ld, Lg, A) /\ CommitInv(Ld, Lg, A) /\ MessageInv(Ld, Lg, A)
  BY DEF RaftInv
<1>lg. PICK lg \in Logs : lg = whole[n]
  BY DEF RaftOK
<1>b. PICK b \in Logs : b = whole'[n]
  BY DEF RaftOK
<1>L. PICK L \in Logs : L = Lg[t]
  BY <1>x DEF HistoryLogs
<1>c. /\ \A v \in Server : term[v] \in Nat /\ term'[v] \in Nat /\ term[v] <= term'[v]
      /\ term[n] <= t /\ term'[n] = t
      /\ \A v \in Server : whole[v] \in Logs /\ whole'[v] \in Logs
  <2>1. /\ \A v \in Server : term[v] \in Nat /\ term'[v] \in Nat
        /\ \A v \in Server : whole[v] \in Logs /\ whole'[v] \in Logs
    BY DEF RaftOK
  <2>3. \A v \in Server : term[v] <= term'[v]
    BY <2>1
  <2> QED BY <2>1, <2>3
<1>h. HistoryLogs(Ld, Lg, A)
  BY <1>x
<1>2. Good(lg, Ld, Lg) /\ TermsUpTo(lg, term[n]) /\ Good(L, Ld, Lg) /\ TermsUpTo(L, t)
  BY <1>x, <1>lg, <1>L DEF LogInv
<1>len. Len(lg) \in Nat /\ Len(L) \in Nat /\ Len(b) \in Nat
  BY LogFacts
<1>5. /\ Agree(b, L, k) /\ (\A i \in Nat : Agree(lg, L, i) => Agree(b, L, i))
      /\ b = lg \/ Len(b) = k
  BY <1>b, <1>lg, <1>L
<1>1. k <= Len(L)
  BY <1>5 DEF Agree
<1>6. Good(b, Ld, Lg) /\ TermsUpTo(b, t)
  <2>1. CASE b = lg
    <3>1. TermsUpTo(lg, t)
      BY <1>2, <1>c, LogFacts DEF TermsUpTo
    <3> QED BY <1>2, <2>1, <3>1
  <2>2. CASE Len(b) = k
    BY <1>h, <1>2, <1>5, <2>2, GoodPrefix
  <2> QED BY <1>5, <2>1, <2>2
<1>a0. A[n][t] \in Nat
  BY <1>h DEF HistoryLogs
<1>a. PICK a \in Nat : /\ a >= k /\ a >= A[n][t] /\ a <= Len(L) /\ Agree(b, L, a)
                      /\ a = IF k > A[n][t] THEN k ELSE A[n][t]
  <2>2. CASE k > A[n][t]
    BY <1>1, <1>5, <1>a0, <2>2
  <2>3. CASE k <= A[n][t]
    <3>1. CASE A[n][t] = 0
      BY <1>1, <1>5, <2>3, <3>1
    <3>2. CASE A[n][t] > 0
      <4>1. t <= term[n] /\ A[n][t] <= Len(L) /\ (t = term[n] => Agree(lg, L, A[n][t]))
        BY <1>x, <1>lg, <1>L, <3>2 DEF AckInv
      <4>2. Agree(lg, L, A[n][t])
        BY <1>c, <4>1
      <4>3. A[n][t] >= k /\ A[n][t] >= A[n][t] /\ A[n][t] <= Len(L) /\ Agree(b, L, A[n][t])
        BY <1>5, <1>a0, <2>3, <4>1, <4>2
      <4> QED BY <1>a0, <2>3, <4>3
    <3> QED BY <1>a0, <3>1, <3>2
  <2> QED BY <1>a0, <2>2, <2>3
<1>A0. PICK A2 : Acknowledges(n, t, k, A, A2)
  BY <1>h, AcknowledgeMore DEF HistoryLogs
<1>A. /\ A2 \in [Server -> [Nat -> Nat]] /\ A2[n][t] = a
      /\ \A v \in Server, u \in Nat : u # t \/ v # n => A2[v][u] = A[v][u]
  BY <1>a, <1>A0 DEF Acknowledges
<1>7. HistoryLogs(Ld, Lg, A2)
  BY <1>x, <1>A DEF HistoryLogs
<1>an. \A v \in Server, u \in Nat : A[v][u] \in Nat /\ A2[v][u] \in Nat
  BY <1>h, <1>7 DEF HistoryLogs
<1>8. Grows(Ld, Lg, A, Ld, Lg, A2)
  <2>1. ASSUME NEW v \in Server, NEW u \in Nat PROVE A[v][u] <= A2[v][u]
    <3>1. CASE u = t /\ v = n
      BY <1>a, <1>A, <1>an, <3>1
    <3>2. CASE u # t \/ v # n
      <4>1. A2[v][u] = A[v][u] /\ A[v][u] \in Nat
        BY <1>A, <1>an, <3>2
      <4> QED BY <4>1
    <3> QED BY <3>1, <3>2
  <2>2. \A u \in Nat : Agree(Lg[u], Lg[u], Len(Lg[u]))
    <3>1. \A u \in Nat : Lg[u] \in Logs
      BY <1>h DEF HistoryLogs
    <3>2. \A x \in Logs : Len(x) \in Nat /\ Agree(x, x, Len(x))
      BY LogFacts, AgreeReflexive
    <3> QED BY <3>1, <3>2
  <2> QED BY <2>1, <2>2 DEF Grows
<1>u. \A l \in Server : leads'[l] =>
          l # n /\ leads[l] /\ term'[l] = term[l] /\ whole'[l] = whole[l]
  OBVIOUS
<1>10. LeaderInv(Ld, Lg)'
  <2>1. ASSUME NEW u \in Nat, Ld[u] # None
        PROVE  /\ u > 0 /\ u <= term'[Ld[u]]
               /\ IsQuorum({v \in Server : u <= term'[v]})
    <3>1. /\ Ld[u] \in Server /\ u > 0 /\ u <= term[Ld[u]]
          /\ IsQuorum({v \in Server : u <= term[v]})
      <4>1. Ld[u] \in Server
        BY <1>x, <2>1 DEF HistoryLogs
      <4> QED BY <1>x, <2>1, <4>1 DEF LeaderInv
    <3>2. {v \in Server : u <= term[v]} \subseteq {v \in Server : u <= term'[v]}
      BY <1>c
    <3>3. IsQuorum({v \in Server : u <= term'[v]})
      BY <3>1, <3>2, QuorumGrows
    <3> QED BY <1>c, <3>1, <3>3
  <2>2. \A l \in Server : leads'[l] => Ld[term'[l]] = l /\ whole'[l] = Lg[term'[l]]
    BY <1>u, <1>x DEF LeaderInv
  <2> QED BY <2>1, <2>2 DEF LeaderInv
<1>11. LogInv(Ld, Lg)'
  <2>1. ASSUME NEW p \in Server
        PROVE  Good(whole'[p], Ld, Lg) /\ TermsUpTo(whole'[p], term'[p])
    <3>1. CASE p = n
      BY <1>6, <1>b, <1>c, <3>1
    <3>2. CASE p # n
      BY <1>x, <3>2 DEF LogInv
    <3> QED BY <3>1, <3>2
  <2> QED BY <1>x, <2>1 DEF LogInv
<1>13. MessageInv(Ld, Lg, A2)'
  BY <1>h, <1>7, <1>8, <1>x, MessageTrueGrows DEF MessageInv, MessagesOK
<1>14. AckInv(Ld, Lg, A2)'
  <2>1. ASSUME NEW v \in Server, NEW u \in Nat, A2[v][u] > 0
        PROVE  /\ Ld[u] # None /\ u <= term'[v] /\ A2[v][u] <= Len(Lg[u])
               /\ u = term'[v] => Agree(whole'[v], Lg[u], A2[v][u])
    <3>1. CASE u = t /\ v = n
      <4>1. A2[v][u] = a /\ Lg[u] = L /\ whole'[v] = b /\ term'[v] = u /\ Ld[u] # None
        BY <1>A, <1>b, <1>c, <1>L, <3>1
      <4> QED BY <1>a, <4>1
    <3>2. CASE u # t \/ v # n
      <4>1. A2[v][u] = A[v][u]
        BY <1>A, <3>2
      <4>2. /\ Ld[u] # None /\ u <= term[v] /\ A[v][u] <= Len(Lg[u])
            /\ u = term[v] => Agree(whole[v], Lg[u], A[v][u])
        BY <1>x, <2>1, <4>1 DEF AckInv
      <4>3. u = term'[v] => v # n
        BY <1>c, <3>2
      <4> QED BY <1>c, <4>1, <4>2, <4>3
    <3> QED BY <3>1, <3>2
  <2>3. ASSUME NEW l \in Server, leads'[l]
        PROVE  A2[l][term'[l]] = Len(whole'[l])
    <3>1. l # n /\ leads[l] /\ term'[l] = term[l] /\ whole'[l] = whole[l]
      BY <1>u, <2>3
    <3>2. A[l][term[l]] = Len(whole[l])
      BY <1>x, <3>1 DEF AckInv
    <3>3. A2[l][term[l]] = A[l][term[l]]
      BY <1>A, <1>c, <3>1
    <3> QED BY <3>1, <3>2, <3>3
  <2> QED BY <2>1, <2>3 DEF AckInv
<1>15. KeepInv(Ld, Lg, A2)'
  <2> SUFFICES ASSUME NEW u \in Nat, NEW i \in Nat, Choosable(Ld, Lg, A2, u, i)'
               PROVE  /\ \A v \in Server : A2[v][u] >= i => Agree(whole'[v], Lg[u], i)
                      /\ \A w \in Nat : u < w /\ Ld[w] # None => Agree(Lg[w], Lg[u], i)
    BY DEF KeepInv
  <2>0. Ld[u] # None /\ i \in 1..Len(Lg[u]) /\ i <= Len(Lg[u]) /\ Lg[u] \in Logs /\ i <= i /\ i > 0
    <3>1. Ld[u] # None /\ i \in 1..Len(Lg[u]) /\ Lg[u] \in Logs
      BY <1>h DEF Choosable, HistoryLogs
    <3> QED BY <3>1, LogFacts
  <2>1. Choosable(Ld, Lg, A, u, i)
    <3>1. \A v \in Server : A2[v][u] >= i => A[v][u] >= i \/ term[v] <= u
      <4> SUFFICES ASSUME NEW v \in Server, A2[v][u] >= i PROVE A[v][u] >= i \/ term[v] <= u
        OBVIOUS
      <4>1. CASE u = t /\ v = n
        BY <1>c, <4>1
      <4>2. CASE u # t \/ v # n
        BY <1>A, <4>2
      <4> QED BY <4>1, <4>2
    <3> QED BY <1>h, <1>7, <1>8, <1>c, <2>0, <3>1, ChoosableShrinks
  <2>2. /\ \A v \in Server : A[v][u] >= i => Agree(whole[v], Lg[u], i)
        /\ \A w \in Nat : u < w /\ Ld[w] # None => Agree(Lg[w], Lg[u], i)
    BY <1>x, <2>1 DEF KeepInv
  <2>3. ASSUME NEW v \in Server, A2[v][u] >= i PROVE Agree(whole'[v], Lg[u], i)
    <3>1. CASE v # n
      BY <1>A, <2>2, <2>3, <3>1
    <3>2. CASE v = n /\ u = t
      <4>1. Agree(b, L, i)
        BY <1>a, <1>A, <2>3, <3>2, AgreeDown
      <4> QED BY <1>b, <1>L, <3>2, <4>1
    <3>3. CASE v = n /\ u # t
      <4>1. A[n][u] >= i /\ A[n][u] > 0
        <5>1. A2[n][u] = A[n][u] /\ A[n][u] \in Nat
          BY <1>A, <1>an, <3>3
        <5> QED BY <2>0, <2>3, <3>3, <5>1
      <4>2. u < t
        <5>1. u <= term[n]
          BY <1>x, <4>1 DEF AckInv
        <5> QED BY <1>c, <3>3, <5>1
      <4>3. Agree(lg, Lg[u], i) /\ Agree(L, Lg[u], i)
        BY <1>lg, <1>L, <2>2, <4>1, <4>2
      <4>4. Agree(Lg[u], L, i)
        BY <2>0, <4>3, AgreeSymmetric
      <4>5. Agree(lg, L, i)
        BY <2>0, <4>3, <4>4, AgreeTransitive
      <4>6. Agree(b, L, i)
        BY <1>5, <4>5
      <4>7. Agree(b, Lg[u], i)
        BY <2>0, <4>3, <4>6, AgreeTransitive
      <4> QED BY <1>b, <3>3, <4>7
    <3> QED BY <3>1, <3>2, <3>3
  <2> QED BY <2>2, <2>3
<1>9. MatchInv(A2)' /\ \A p \in Server \ {n} : Safe(whole[p], commit'[p], term[p], Ld, Lg, A2)
  BY <1>A0, <1>7, <1>8
<1>16. CommitInv(Ld, Lg, A2)'
  <2>1. ASSUME NEW p \in Server
        PROVE  /\ image[p] \in Logs /\ commit[p] \in Nat /\ Len(image[p]) \in Nat
               /\ Safe(whole[p], commit[p], term[p], Ld, Lg, A)
               /\ Safe(image[p], Len(image[p]), term[p], Ld, Lg, A)
               /\ Agree(image[p], whole[p], Len(image[p]))
    BY <1>x, LogFacts DEF CommitInv, NodeSafe, RaftOK
  <2>2. \A x \in Logs, i \in Nat : Safe(x, i, t, Ld, Lg, A) => Safe(x, i, t, Ld, Lg, A2)
    <3>1. t <= t
      OBVIOUS
    <3> QED BY <1>h, <1>7, <1>8, <3>1, SafeGrows
  <2>3. \A x \in Logs, i \in Nat, p \in Server :
            Safe(x, i, term[p], Ld, Lg, A) => Safe(x, i, term'[p], Ld, Lg, A2)
    BY <1>h, <1>7, <1>8, <1>c, SafeGrows
  <2>4. /\ Safe(image'[n], Len(image'[n]), term'[n], Ld, Lg, A2)
        /\ Agree(image'[n], b, Len(image'[n]))
    <3>a. CASE image'[n] = image[n]
      <4> DEFINE x == image[n]
      <4>1. x \in Logs /\ Len(x) \in Nat /\ Len(x) <= Len(x)
        BY <2>1
      <4>2. Agree(x, L, Len(x))
        BY <1>c, <1>h, <1>x, <1>L, <2>1, SafeIsInLeader
      <4>3. Agree(lg, L, Len(x))
        <5>1. Agree(lg, x, Len(x))
          BY <1>lg, <2>1, <4>1, AgreeSymmetric
        <5> QED BY <4>1, <4>2, <5>1, AgreeTransitive
      <4>4. Agree(L, b, Len(x))
        BY <1>5, <4>1, <4>3, AgreeSymmetric
      <4>5. Agree(x, b, Len(x))
        BY <4>1, <4>2, <4>4, AgreeTransitive
      <4>6. Safe(x, Len(x), term'[n], Ld, Lg, A2)
        BY <2>1, <2>3
      <4> QED BY <3>a, <4>5, <4>6
    <3>b. CASE Safe(image'[n], Len(image'[n]), t, Ld, Lg, A) /\ Agree(image'[n], whole'[n], Len(image'[n]))
      <4>1. image'[n] \in Logs
        BY DEF RaftOK
      <4>2. Len(image'[n]) \in Nat
        BY <4>1, LogFacts
      <4> QED BY <1>b, <1>c, <2>2, <3>b, <4>1, <4>2
    <3> QED BY <3>a, <3>b
  <2>5. Safe(b, commit'[n], t, Ld, Lg, A2)
    <3>1. CASE commit'[n] = commit[n]
      <4> DEFINE i == commit[n]
      <4>1. i \in Nat /\ i <= i /\ Safe(lg, i, term[n], Ld, Lg, A)
        BY <1>lg, <2>1
      <4> HIDE DEF i
      <4>2. Agree(lg, L, i)
        BY <1>c, <1>h, <1>x, <1>L, <4>1, SafeIsInLeader
      <4>3. Agree(L, lg, i) /\ Agree(b, L, i)
        BY <1>5, <4>1, <4>2, AgreeSymmetric
      <4>4. Agree(b, lg, i)
        BY <4>1, <4>3, AgreeTransitive
      <4>5. Safe(b, i, term[n], Ld, Lg, A)
        BY <1>c, <1>h, <4>1, <4>4, SafeAgrees
      <4> QED BY <1>c, <2>3, <3>1, <4>1, <4>5 DEF i
    <3>2. CASE commit'[n] <= k /\ Safe(Lg[t], commit'[n], t, Ld, Lg, A)
      <4>0. PICK i \in Nat : i = commit'[n]
        BY DEF RaftOK
      <4>1. i <= k /\ i <= i /\ Safe(L, i, t, Ld, Lg, A)
        BY <1>L, <3>2, <4>0
      <4>3. Agree(b, L, i)
        BY <1>5, <4>1, AgreeDown
      <4>4. Safe(b, i, t, Ld, Lg, A)
        BY <1>h, <4>1, <4>3, SafeAgrees
      <4> QED BY <2>2, <4>0, <4>4
    <3> QED BY <3>1, <3>2
  <2>6. ASSUME NEW p \in Server
        PROVE  /\ Safe(whole'[p], commit'[p], term'[p], Ld, Lg, A2)
               /\ Safe(image'[p], Len(image'[p]), term'[p], Ld, Lg, A2)
               /\ Agree(image'[p], whole'[p], Len(image'[p]))
    <3>1. CASE p = n
      BY <1>b, <1>c, <2>4, <2>5, <3>1
    <3>2. CASE p # n
      <4>1. whole'[p] = whole[p] /\ image'[p] = image[p] /\ term'[p] = term[p]
        BY <3>2
      <4>2. Safe(whole[p], commit'[p], term[p], Ld, Lg, A2)
        BY <1>9, <3>2
      <4>3. Safe(image[p], Len(image[p]), term[p], Ld, Lg, A2)
        BY <2>1, <2>3, <4>1
      <4> QED BY <2>1, <4>1, <4>2, <4>3
    <3> QED BY <3>1, <3>2
  <2> QED BY <2>6 DEF CommitInv, NodeSafe
<1>17. RaftInv(Ld, Lg, A2)'
  BY <1>7, <1>9, <1>10, <1>11, <1>13, <1>14, <1>15, <1>16 DEF RaftInv, HistoryLogs
<1> QED BY <1>8, <1>17

-----------------------------------------------------------------------------
(* A node is elected *)

\* A voter's log is no further than that of n.
WholeUpToDate(n, voter) ==
    LET a == whole[n]
        b == whole[voter]
    IN  \/ TermIn(a, Len(a)) > TermIn(b, Len(b))
        \/ TermIn(a, Len(a)) = TermIn(b, Len(b)) /\ Len(a) >= Len(b)

\* A log that is as up to date as one with a choosable entry has the entry too.
LEMMA UpToDateHasChoosable ==
    ASSUME RaftOK, NEW Ld, NEW Lg, NEW A, HistoryLogs(Ld, Lg, A), LogInv(Ld, Lg),
           NEW u \in Nat, NEW i \in Nat, Ld[u] # None, i \in 1..Len(Lg[u]), Lg[u][i] = u,
           \A w \in Nat : u < w /\ Ld[w] # None => Agree(Lg[w], Lg[u], i),
           NEW n \in Server, NEW v \in Server, Agree(whole[v], Lg[u], i), WholeUpToDate(n, v)
    PROVE  Agree(whole[n], Lg[u], i)
<1>lg. PICK lg \in Logs : lg = whole[v]
  BY DEF RaftOK
<1>k. PICK k \in Logs : k = whole[n]
  BY DEF RaftOK
<1>g. Good(lg, Ld, Lg) /\ Good(k, Ld, Lg) /\ Agree(lg, Lg[u], i)
  BY <1>lg, <1>k DEF LogInv
<1>1. /\ Lg[u] \in Logs /\ Len(Lg[u]) \in Nat /\ Len(lg) \in Nat /\ Len(k) \in Nat
      /\ i >= 1 /\ i <= Len(lg) /\ lg[i] = u
  <2>1. Lg[u] \in Logs
    BY DEF HistoryLogs
  <2>2. Len(Lg[u]) \in Nat /\ Len(lg) \in Nat /\ Len(k) \in Nat
    BY <2>1, LogFacts
  <2>3. i >= 1 /\ i <= Len(lg) /\ lg[i] = Lg[u][i]
    BY <1>g, <2>2 DEF Agree
  <2> QED BY <2>1, <2>2, <2>3
<1>up. \/ TermIn(k, Len(k)) > TermIn(lg, Len(lg))
       \/ TermIn(k, Len(k)) = TermIn(lg, Len(lg)) /\ Len(k) >= Len(lg)
  BY <1>lg, <1>k DEF WholeUpToDate
<1>2. TermIn(lg, Len(lg)) \in Nat /\ u <= TermIn(lg, Len(lg))
  <2>1. i \in 1..Len(lg) /\ Len(lg) \in 1..Len(lg) /\ i <= Len(lg)
    BY <1>1
  <2>2. lg[i] <= lg[Len(lg)]
    BY <1>g, <2>1, TermsMonotone
  <2>3. TermIn(lg, Len(lg)) = lg[Len(lg)] /\ lg[Len(lg)] \in Nat
    BY <1>1, <2>1, LogFacts DEF TermIn
  <2> QED BY <1>1, <2>2, <2>3
<1>3. Len(k) # 0
  <2> SUFFICES ASSUME Len(k) = 0 PROVE FALSE
    OBVIOUS
  <2>1. TermIn(k, Len(k)) = 0
    BY DEF TermIn
  <2> QED BY <1>1, <1>2, <1>up, <2>1
<1> DEFINE j == Len(k)
           w == k[j]
<1>4. j \in 1..Len(k) /\ j \in Nat /\ w \in Nat /\ TermIn(k, Len(k)) = w /\ j >= 1
  <2>1. j \in 1..Len(k)
    BY <1>1, <1>3
  <2> QED BY <1>1, <1>3, <2>1, LogFacts DEF TermIn
<1>5. Ld[w] # None /\ Agree(k, Lg[w], j)
  BY <1>4, <1>g DEF Good
<1>j. j = Len(k)
  OBVIOUS
<1> HIDE DEF j, w
<1>7. Lg[w] \in Logs /\ Len(Lg[w]) \in Nat
  BY <1>4, LogFacts DEF HistoryLogs
<1>8. CASE w = u
  <2>1. i <= j
    BY <1>1, <1>2, <1>4, <1>8, <1>j, <1>up
  <2> QED BY <1>1, <1>4, <1>5, <1>8, <1>k, <2>1, AgreeDown
<1>9. CASE w > u
  <2>1. Agree(Lg[w], Lg[u], i)
    BY <1>4, <1>5, <1>9
  <2>2. i <= j
    <3> SUFFICES ASSUME j < i PROVE FALSE
      BY <1>4
    <3>1. k[j] = Lg[w][j] /\ Lg[w][j] = Lg[u][j] /\ k[j] = w /\ j \in 1..Len(Lg[u])
      BY <1>1, <1>4, <1>5, <1>7, <2>1 DEF Agree, w
    <3>2. Lg[u][j] <= u
      BY <3>1 DEF LogInv, TermsUpTo
    <3> QED BY <1>4, <1>9, <3>1, <3>2
  <2>3. Agree(k, Lg[u], i)
    <3>1. i <= i
      OBVIOUS
    <3> QED BY <1>1, <1>4, <1>5, <1>7, <2>1, <2>2, <3>1, AgreeTransitive
  <2> QED BY <1>k, <2>3
<1>10. w >= u
  BY <1>1, <1>2, <1>4, <1>up
<1> QED BY <1>4, <1>8, <1>9, <1>10

\* A majority was below the new term, so it is nobody else's, and by its voters the new leader
\* has all that is choosable.
LEMMA RaftElects ==
    ASSUME RaftOK, RaftOK', MessagesOK, NEW n \in Server, NEW S \in SUBSET (Server \ {n}),
           NEW Ld, NEW Lg, NEW A, RaftInv(Ld, Lg, A),
           IsQuorum({n} \cup S), \A v \in S : term[v] < term[n] + 1 /\ WholeUpToDate(n, v),
           term' = [k \in Server |-> IF k \in S \cup {n} THEN term[n] + 1 ELSE term[k]],
           leads' = [k \in Server |-> k = n \/ (k \notin S /\ leads[k])],
           match' = [k \in Server |-> IF k = n \/ k \in S THEN [p \in Server |-> 0] ELSE match[k]],
           whole' = whole, UNCHANGED <<commit, image, msgs>>
    PROVE  \E Ld2, Lg2, A2 : Grows(Ld, Lg, A, Ld2, Lg2, A2) /\ RaftInv(Ld2, Lg2, A2)'
<1>x. /\ HistoryLogs(Ld, Lg, A) /\ LeaderInv(Ld, Lg) /\ LogInv(Ld, Lg) /\ AckInv(Ld, Lg, A)
      /\ KeepInv(Ld, Lg, A) /\ CommitInv(Ld, Lg, A) /\ MessageInv(Ld, Lg, A) /\ MatchInv(A)
  BY DEF RaftInv
<1>t. PICK t \in Nat : t = term[n] + 1
  BY DEF RaftOK
<1>lg. PICK lg \in Logs : lg = whole[n]
  BY DEF RaftOK
<1>Q. PICK Q : Q = {n} \cup S
  OBVIOUS
<1>0. /\ whole' = whole /\ image' = image /\ commit' = commit /\ msgs' = msgs
      /\ \A v \in S : term[v] < t
      /\ \A k \in Server : term'[k] = IF k \in S \cup {n} THEN t ELSE term[k]
      /\ \A k \in Server \ {n} : leads'[k] => k \notin S /\ leads[k]
      /\ leads'[n]
      /\ \A k \in Server : match'[k] = IF k = n \/ k \in S THEN [p \in Server |-> 0] ELSE match[k]
  BY <1>t
<1>c. /\ \A v \in Server : term[v] \in Nat /\ term'[v] \in Nat /\ term[v] <= term'[v] /\ whole[v] \in Logs
      /\ term[n] < t /\ term'[n] = t /\ t > 0
  <2>1. /\ \A v \in Server : term[v] \in Nat /\ term'[v] \in Nat /\ whole[v] \in Logs
    BY DEF RaftOK
  <2>2. term[n] < t /\ term'[n] = t /\ t > 0
    BY <1>0, <1>t, <2>1
  <2>3. \A v \in S \cup {n} : term[v] < t
    BY <1>0, <2>2
  <2>4. \A v \in Server : term[v] <= term'[v]
    BY <1>0, <2>1, <2>3
  <2> QED BY <2>1, <2>2, <2>4
<1>1. t \in Nat /\ lg \in Logs /\ Len(lg) \in Nat /\ t = term'[n] /\ lg = whole'[n]
  BY <1>0, <1>c, <1>lg, LogFacts
<1>2. (\A i \in 1..Len(lg) : lg[i] < t) /\ Good(lg, Ld, Lg)
  <2>1. Good(lg, Ld, Lg) /\ TermsUpTo(lg, term[n])
    BY <1>lg, <1>x DEF LogInv
  <2> QED BY <1>c, <2>1, LogFacts DEF TermsUpTo
<1>3. /\ Q \in SUBSET Server /\ IsQuorum(Q)
      /\ \A v \in Q : v \in Server /\ term[v] < t /\ term'[v] = t /\ (v = n \/ WholeUpToDate(n, v))
  <2>1. Q \in SUBSET Server /\ IsQuorum(Q) /\ Q \subseteq S \cup {n}
    BY <1>Q
  <2>2. \A v \in Q : v = n \/ WholeUpToDate(n, v)
    BY <1>Q
  <2> QED BY <1>0, <1>c, <2>1, <2>2
<1>4. Ld[t] = None
  <2> SUFFICES ASSUME Ld[t] # None PROVE FALSE
    OBVIOUS
  <2> DEFINE P == {v \in Server : t <= term[v]}
  <2>1. IsQuorum(P) /\ P \in SUBSET Server
    BY <1>x DEF LeaderInv
  <2>2. PICK v \in Q : v \in P
    <3> HIDE DEF P
    <3> QED BY <1>3, <2>1, QuorumsMeet
  <2> QED BY <1>3, <1>c, <2>2
<1>5. \A v \in Server : A[v][t] = 0
  <2>1. \A v \in Server : A[v][t] \in Nat
    BY <1>1, <1>x DEF HistoryLogs
  <2> QED BY <1>1, <1>4, <1>x, <2>1 DEF AckInv
<1>p. PICK Ld2 : /\ Ld2 \in [Nat -> Server \cup {None}] /\ Ld2[t] = n
                 /\ \A u \in Nat \ {t} : Ld2[u] = Ld[u]
  <2> DEFINE D == [Ld EXCEPT ![t] = n]
  <2>1. D \in [Nat -> Server \cup {None}] /\ D[t] = n /\ \A u \in Nat \ {t} : D[u] = Ld[u]
    BY <1>1, <1>x DEF HistoryLogs
  <2> HIDE DEF D
  <2> QED BY <2>1
<1>q. PICK Lg2 : Lg2 \in [Nat -> Logs] /\ Lg2[t] = lg /\ \A u \in Nat \ {t} : Lg2[u] = Lg[u]
  <2> DEFINE G == [Lg EXCEPT ![t] = lg]
  <2>1. G \in [Nat -> Logs] /\ G[t] = lg /\ \A u \in Nat \ {t} : G[u] = Lg[u]
    BY <1>1, <1>x DEF HistoryLogs
  <2> HIDE DEF G
  <2> QED BY <2>1
<1>k. PICK k \in Nat : k = Len(lg)
  BY <1>1
<1>r0. PICK A2 : Acknowledges(n, t, k, A, A2)
  BY <1>x, AcknowledgeMore DEF HistoryLogs
<1>r. /\ A2 \in [Server -> [Nat -> Nat]] /\ A2[n][t] = k
      /\ \A v \in Server, u \in Nat : u # t \/ v # n => A2[v][u] = A[v][u]
  <2>1. A2[n][t] = k
    BY <1>5, <1>r0 DEF Acknowledges
  <2> QED BY <1>r0, <2>1 DEF Acknowledges
<1>6. /\ Ld2 \in [Nat -> Server \cup {None}] /\ Lg2 \in [Nat -> Logs] /\ A2 \in [Server -> [Nat -> Nat]]
      /\ Ld2[t] = n /\ Lg2[t] = lg /\ A2[n][t] = k
      /\ \A u \in Nat \ {t} : Ld2[u] = Ld[u] /\ Lg2[u] = Lg[u] /\ \A v \in Server : A2[v][u] = A[v][u]
      /\ \A v \in Server \ {n} : A2[v][t] = A[v][t]
  BY <1>p, <1>q, <1>r
<1>7. HistoryLogs(Ld, Lg, A) /\ HistoryLogs(Ld2, Lg2, A2)
  BY <1>6, <1>x DEF HistoryLogs
<1>8. Grows(Ld, Lg, A, Ld2, Lg2, A2)
  <2>1. \A u \in Nat : Ld[u] # None => Ld2[u] = Ld[u] /\ Agree(Lg2[u], Lg[u], Len(Lg[u]))
    <3>1. \A u \in Nat : Agree(Lg[u], Lg[u], Len(Lg[u]))
      <4>1. \A u \in Nat : Lg[u] \in Logs
        BY <1>7 DEF HistoryLogs
      <4>2. \A x \in Logs : Len(x) \in Nat /\ Agree(x, x, Len(x))
        BY LogFacts, AgreeReflexive
      <4> QED BY <4>1, <4>2
    <3> QED BY <1>4, <1>6, <3>1
  <2>2. \A v \in Server, u \in Nat : A[v][u] \in Nat
    BY <1>7 DEF HistoryLogs
  <2>3. ASSUME NEW v \in Server, NEW u \in Nat PROVE A[v][u] <= A2[v][u]
    <3>1. CASE u = t /\ v = n
      <4>1. A[v][u] = 0 /\ A2[v][u] = k
        BY <1>5, <1>6, <3>1
      <4> QED BY <4>1
    <3>2. CASE u # t \/ v # n
      <4>1. A2[v][u] = A[v][u]
        BY <1>6, <3>2
      <4> QED BY <2>2, <4>1
    <3> QED BY <3>1, <3>2
  <2> QED BY <2>1, <2>3 DEF Grows
<1>g. \A x \in Logs : Good(x, Ld, Lg) => Good(x, Ld2, Lg2)
  BY <1>7, <1>8, GoodGrows
<1>n. n # None /\ \A c \in Server : c # None
  BY ConstantAssumption
<1>l. \A l \in Server \ {n} : leads'[l] =>
          leads[l] /\ term'[l] = term[l] /\ term[l] \in Nat \ {t}
  <2> SUFFICES ASSUME NEW l \in Server \ {n}, leads'[l]
               PROVE  leads[l] /\ term'[l] = term[l] /\ term[l] \in Nat \ {t}
    OBVIOUS
  <2>1. leads[l] /\ term'[l] = term[l]
    BY <1>0
  <2>2. Ld[term[l]] # None
    BY <1>n, <1>x, <2>1 DEF LeaderInv
  <2> QED BY <1>4, <1>c, <2>1, <2>2
<1>10. LeaderInv(Ld2, Lg2)'
  <2>1. IsQuorum({v \in Server : t <= term'[v]})
    <3>1. Q \subseteq {v \in Server : t <= term'[v]}
      BY <1>3
    <3> QED BY <1>3, <3>1, QuorumGrows
  <2>2. ASSUME NEW u \in Nat, Ld2[u] # None
        PROVE  /\ u > 0 /\ u <= term'[Ld2[u]]
               /\ IsQuorum({v \in Server : u <= term'[v]})
    <3>1. CASE u = t
      <4>1. u > 0 /\ Ld2[u] = n /\ u <= term'[n]
        BY <1>0, <1>6, <1>c, <3>1
      <4> QED BY <2>1, <3>1, <4>1
    <3>2. CASE u # t
      <4>1. Ld2[u] = Ld[u]
        BY <1>6, <3>2
      <4>2. Ld[u] \in Server
        BY <1>7, <2>2, <4>1 DEF HistoryLogs
      <4>3. /\ u > 0 /\ u <= term[Ld[u]]
            /\ IsQuorum({v \in Server : u <= term[v]})
        BY <1>x, <2>2, <4>1 DEF LeaderInv
      <4>4. {v \in Server : u <= term[v]} \subseteq {v \in Server : u <= term'[v]}
        BY <1>c
      <4>5. IsQuorum({v \in Server : u <= term'[v]})
        BY <4>3, <4>4, QuorumGrows
      <4>6. u <= term'[Ld[u]]
        BY <1>0, <1>c, <4>2, <4>3
      <4> QED BY <4>1, <4>3, <4>5, <4>6
    <3> QED BY <3>1, <3>2
  <2>3. ASSUME NEW l \in Server, leads'[l]
        PROVE  Ld2[term'[l]] = l /\ whole'[l] = Lg2[term'[l]]
    <3>1. CASE l = n
      BY <1>1, <1>6, <3>1
    <3>2. CASE l # n
      <4>1. leads[l] /\ term'[l] = term[l] /\ term[l] \in Nat \ {t}
        BY <1>l, <2>3, <3>2
      <4>2. Ld[term[l]] = l /\ whole[l] = Lg[term[l]]
        BY <1>x, <4>1 DEF LeaderInv
      <4>3. Ld2[term[l]] = Ld[term[l]] /\ Lg2[term[l]] = Lg[term[l]]
        BY <1>6, <4>1
      <4> QED BY <1>0, <4>1, <4>2, <4>3
    <3> QED BY <3>1, <3>2
  <2> QED BY <2>2, <2>3 DEF LeaderInv
<1>11. LogInv(Ld2, Lg2)'
  <2>1. ASSUME NEW p \in Server
        PROVE  Good(whole[p], Ld2, Lg2) /\ TermsUpTo(whole[p], term'[p])
    <3>1. Good(whole[p], Ld, Lg) /\ TermsUpTo(whole[p], term[p])
      BY <1>x DEF LogInv
    <3>2. TermsUpTo(whole[p], term'[p])
      BY <1>c, <3>1, LogFacts DEF TermsUpTo
    <3> QED BY <1>c, <1>g, <3>1, <3>2
  <2>2. ASSUME NEW u \in Nat, Ld2[u] # None
        PROVE  Good(Lg2[u], Ld2, Lg2) /\ TermsUpTo(Lg2[u], u)
    <3>1. CASE u = t
      <4>1. TermsUpTo(lg, t)
        BY <1>1, <1>2, LogFacts DEF TermsUpTo
      <4> QED BY <1>1, <1>2, <1>6, <1>g, <3>1, <4>1
    <3>2. CASE u # t
      <4>1. Good(Lg[u], Ld, Lg) /\ TermsUpTo(Lg[u], u) /\ Lg[u] \in Logs
        BY <1>6, <1>7, <1>x, <2>2, <3>2 DEF LogInv, HistoryLogs
      <4> QED BY <1>6, <1>g, <3>2, <4>1
    <3> QED BY <3>1, <3>2
  <2> QED BY <1>0, <2>1, <2>2 DEF LogInv
<1>13. MessageInv(Ld2, Lg2, A2)'
  BY <1>0, <1>7, <1>8, <1>x, MessageTrueGrows DEF MessageInv, MessagesOK
<1>14. AckInv(Ld2, Lg2, A2)'
  <2>1. ASSUME NEW v \in Server, NEW u \in Nat, A2[v][u] > 0
        PROVE  /\ Ld2[u] # None /\ u <= term'[v] /\ A2[v][u] <= Len(Lg2[u])
               /\ u = term'[v] => Agree(whole'[v], Lg2[u], A2[v][u])
    <3>1. CASE u = t /\ v = n
      <4>1. Agree(lg, lg, Len(lg))
        <5>1. Len(lg) <= Len(lg)
          BY <1>1
        <5> QED BY <1>1, <5>1, AgreeReflexive
      <4>2. Ld2[u] # None /\ Lg2[u] = lg /\ A2[v][u] = Len(lg) /\ whole'[v] = lg
        BY <1>1, <1>6, <1>k, <1>n, <3>1
      <4>3. u <= term'[v] /\ Len(lg) <= Len(lg)
        BY <1>1, <3>1
      <4> QED BY <4>1, <4>2, <4>3
    <3>2. CASE u = t /\ v # n
      <4>1. A2[v][u] = 0
        BY <1>5, <1>6, <3>2
      <4> QED BY <2>1, <4>1
    <3>3. CASE u # t
      <4>1. A2[v][u] = A[v][u] /\ Ld2[u] = Ld[u] /\ Lg2[u] = Lg[u]
        BY <1>6, <3>3
      <4>2. /\ Ld[u] # None /\ u <= term[v] /\ A[v][u] <= Len(Lg[u])
            /\ u = term[v] => Agree(whole[v], Lg[u], A[v][u])
        BY <1>x, <2>1, <4>1 DEF AckInv
      <4>3. u <= term'[v] /\ (u = term'[v] => u = term[v])
        BY <1>c, <4>2
      <4> QED BY <1>0, <4>1, <4>2, <4>3
    <3> QED BY <3>1, <3>2, <3>3
  <2>3. ASSUME NEW l \in Server, leads'[l]
        PROVE  A2[l][term'[l]] = Len(whole'[l])
    <3>1. CASE l = n
      BY <1>1, <1>6, <1>k, <3>1
    <3>2. CASE l # n
      <4>1. leads[l] /\ term'[l] = term[l] /\ term[l] \in Nat \ {t}
        BY <1>l, <2>3, <3>2
      <4>2. A[l][term[l]] = Len(whole[l])
        BY <1>x, <4>1 DEF AckInv
      <4>3. A2[l][term[l]] = A[l][term[l]]
        BY <1>6, <4>1
      <4> QED BY <1>0, <4>1, <4>2, <4>3
    <3> QED BY <3>1, <3>2
  <2> QED BY <2>1, <2>3 DEF AckInv
<1>15. KeepInv(Ld2, Lg2, A2)'
  <2> SUFFICES ASSUME NEW u \in Nat, NEW i \in Nat, Choosable(Ld2, Lg2, A2, u, i)'
               PROVE  /\ \A v \in Server : A2[v][u] >= i => Agree(whole'[v], Lg2[u], i)
                      /\ \A w \in Nat : u < w /\ Ld2[w] # None => Agree(Lg2[w], Lg2[u], i)
    BY DEF KeepInv
  <2>1. u # t
    <3> SUFFICES ASSUME u = t PROVE FALSE
      OBVIOUS
    <3>1. i \in 1..Len(lg) /\ lg[i] = t
      BY <1>6 DEF Choosable
    <3>2. lg[i] < t
      BY <1>2, <3>1
    <3> QED BY <1>1, <3>1, <3>2
  <2>2. Ld2[u] = Ld[u] /\ Lg2[u] = Lg[u] /\ \A v \in Server : A2[v][u] = A[v][u]
    BY <1>6, <2>1
  <2>0. Ld[u] # None /\ i \in 1..Len(Lg[u]) /\ Lg[u][i] = u /\ i <= Len(Lg[u])
    <3>1. Ld[u] # None /\ i \in 1..Len(Lg[u]) /\ Lg[u][i] = u
      BY <2>2 DEF Choosable
    <3> QED BY <3>1
  <2> DEFINE P == {v \in Server : A[v][u] >= i \/ term'[v] <= u}
  <2>3. P \in SUBSET Server /\ IsQuorum(P)
    <3>1. {v \in Server : A2[v][u] >= i \/ term'[v] <= u} = P
      BY <2>2
    <3> QED BY <3>1 DEF Choosable
  <2>c. Choosable(Ld, Lg, A, u, i)
    <3>1. \A v \in Server : A2[v][u] >= i => A[v][u] >= i \/ term[v] <= u
      BY <2>2
    <3> QED BY <1>7, <1>8, <1>c, <2>0, <3>1, ChoosableShrinks
  <2>4. /\ \A v \in Server : A[v][u] >= i => Agree(whole[v], Lg[u], i)
        /\ \A w \in Nat : u < w /\ Ld[w] # None => Agree(Lg[w], Lg[u], i)
    BY <1>x, <2>c DEF KeepInv
  <2>5. ASSUME u < t PROVE Agree(lg, Lg[u], i)
    <3>1. PICK v \in P : v \in Q
      <4> HIDE DEF P
      <4> QED BY <1>3, <2>3, QuorumsMeet
    <3>2. v \in Server /\ term'[v] = t /\ (v = n \/ WholeUpToDate(n, v))
      BY <1>3, <3>1
    <3>3. A[v][u] >= i
      BY <1>1, <2>5, <3>1, <3>2
    <3>4. Agree(whole[v], Lg[u], i)
      BY <2>4, <3>2, <3>3
    <3>5. CASE v = n
      BY <1>lg, <3>4, <3>5
    <3>6. CASE WholeUpToDate(n, v)
      <4>1. Agree(whole[n], Lg[u], i)
        BY <1>7, <1>x, <2>0, <2>4, <3>2, <3>4, <3>6, UpToDateHasChoosable
      <4> QED BY <1>lg, <4>1
    <3> QED BY <3>2, <3>5, <3>6
  <2>6. ASSUME NEW w \in Nat, u < w, Ld2[w] # None
        PROVE  Agree(Lg2[w], Lg2[u], i)
    <3>1. CASE w = t
      BY <1>6, <2>2, <2>5, <2>6, <3>1
    <3>2. CASE w # t
      BY <1>6, <2>2, <2>4, <2>6, <3>2
    <3> QED BY <3>1, <3>2
  <2> QED BY <1>0, <2>2, <2>4, <2>6
<1>16. CommitInv(Ld2, Lg2, A2)'
  <2>1. ASSUME NEW p \in Server
        PROVE  NodeSafe(whole[p], image[p], commit[p], term'[p], Ld2, Lg2, A2)
    <3>1. whole[p] \in Logs /\ image[p] \in Logs /\ commit[p] \in Nat
      BY DEF RaftOK
    <3>2. NodeSafe(whole[p], image[p], commit[p], term[p], Ld, Lg, A)
      BY <1>x DEF CommitInv
    <3> QED BY <1>7, <1>8, <1>c, <3>1, <3>2, NodeSafeGrows
  <2> QED BY <1>0, <2>1 DEF CommitInv
<1>9. MatchInv(A2)'
  <2>0. \A v \in Server, u \in Nat : A2[v][u] \in Nat
    BY <1>7 DEF HistoryLogs
  <2> SUFFICES ASSUME NEW l \in Server, NEW p \in Server, leads'[l], p # l
               PROVE  match'[l][p] <= A2[p][term'[l]]
    BY DEF MatchInv
  <2>1. CASE l = n
    <3>1. match'[l][p] = 0
      BY <1>0, <2>1
    <3> QED BY <1>c, <2>0, <3>1
  <2>2. CASE l # n
    <3>1. leads[l] /\ term'[l] = term[l] /\ term[l] \in Nat \ {t} /\ match'[l] = match[l]
      BY <1>0, <1>l, <2>2
    <3>2. match[l][p] <= A[p][term[l]]
      BY <1>x, <3>1 DEF MatchInv
    <3>3. A2[p][term[l]] = A[p][term[l]]
      BY <1>6, <3>1
    <3> QED BY <3>1, <3>2, <3>3
  <2> QED BY <2>1, <2>2
<1>17. RaftInv(Ld2, Lg2, A2)'
  BY <1>7, <1>9, <1>10, <1>11, <1>13, <1>14, <1>15, <1>16 DEF RaftInv, HistoryLogs
<1> QED BY <1>8, <1>17

-----------------------------------------------------------------------------
(* The whole log that a compacted one stands for *)

LogViews == [base : Nat, baseTerm : Nat, entries : Logs]

Histories == [base : Nat, term : Nat, entries : Logs]

Whole(img, l) == SubSeq(img, 1, l.base) \o l.entries

\* What the durable state of a node says of its image: the applied history has the log's base,
\* both know the term of the entry there, and a snapshot is a prefix of the image.  While no
\* snapshot is created on its own after a compaction, it is the prefix up to the base.
NodeOK(l, a, s, img) ==
    /\ a.base = l.base /\ Len(img) = a.base + Len(a.entries)
    /\ \A i \in 1..Len(a.entries) : a.entries[i] = img[a.base + i]
    /\ l.base = 0 => l.baseTerm = 0
    /\ l.base > 0 => l.baseTerm = img[l.base] /\ a.term = img[l.base] /\ s # None
    /\ s # None => IsSnapshot(s) /\ l.base <= s.index /\ Agree(s.state, img, s.index)
    /\ l.base > 0 /\ ~CreateAfterCompact => s.index = l.base

StateOK ==
    /\ term \in [Server -> Nat] /\ leads \in [Server -> BOOLEAN] /\ commit \in [Server -> Nat]
    /\ match \in [Server -> [Server -> Nat]] /\ image \in [Server -> Logs]
    /\ log \in [Server -> LogViews] /\ applied \in [Server -> Histories]
    /\ snap \in [Server -> Snapshots \cup {None}]

NodesOK == \A n \in Server : NodeOK(log[n], applied[n], snap[n], image[n])

LEMMA LogsEqual ==
    ASSUME NEW a \in Logs, NEW b \in Logs, Agree(a, b, Len(a)), Len(b) = Len(a)
    PROVE  a = b
BY LogFacts, SeqEqual DEF Agree, Logs

LEMMA WholeFacts ==
    ASSUME NEW img \in Logs, NEW l \in LogViews, l.base <= Len(img)
    PROVE  /\ Whole(img, l) \in Logs /\ Len(Whole(img, l)) = LastIndex(l)
           /\ LastIndex(l) \in Nat /\ LastIndex(l) >= l.base
           /\ Agree(Whole(img, l), img, l.base)
           /\ \A i \in l.base + 1..LastIndex(l) : Whole(img, l)[i] = EntryAt(l, i)
<1>1. l.base \in Nat /\ l.entries \in Logs /\ Len(l.entries) \in Nat /\ Len(img) \in Nat
  BY LogFacts DEF LogViews
<1>2. /\ SubSeq(img, 1, l.base) \in Logs /\ Len(SubSeq(img, 1, l.base)) = l.base
      /\ \A i \in 1..l.base : SubSeq(img, 1, l.base)[i] = img[i]
  BY <1>1, PrefixFacts DEF Agree
<1> DEFINE cut == SubSeq(img, 1, l.base)
           w == Whole(img, l)
<1>3. /\ w \in Logs /\ Len(w) = Len(cut) + Len(l.entries)
      /\ \A i \in 1..Len(cut) + Len(l.entries) : w[i] = IF i <= Len(cut) THEN cut[i] ELSE l.entries[i - Len(cut)]
  BY <1>1, <1>2, ConcatProperties DEF Whole, Logs
<1> HIDE DEF cut, w
<1>4. Len(cut) = l.base /\ \A i \in 1..l.base : cut[i] = img[i]
  BY <1>2 DEF cut
<1>5. Agree(w, img, l.base)
  BY <1>1, <1>3, <1>4 DEF Agree
<1>6. ASSUME NEW i \in l.base + 1..LastIndex(l) PROVE w[i] = EntryAt(l, i)
  <2>1. i \in 1..Len(cut) + Len(l.entries) /\ ~(i <= Len(cut))
    BY <1>1, <1>4 DEF LastIndex
  <2> QED BY <1>3, <1>4, <2>1 DEF EntryAt
<1> QED BY <1>1, <1>3, <1>4, <1>5, <1>6 DEF LastIndex, w

\* The term that a log knows at its base or beyond is that of the whole log.
LEMMA WholeTerm ==
    ASSUME NEW img \in Logs, NEW l \in LogViews, NEW a \in Histories, NEW s, NodeOK(l, a, s, img),
           NEW i \in Nat, i >= l.base, i <= LastIndex(l)
    PROVE  TermAt(l, i) = TermIn(Whole(img, l), i)
<1>1. l.base \in Nat /\ Len(a.entries) \in Nat /\ Len(img) \in Nat
  BY LogFacts DEF LogViews, Histories
<1>2. l.base <= Len(img)
  BY <1>1 DEF NodeOK
<1>3. /\ Agree(Whole(img, l), img, l.base) /\ LastIndex(l) \in Nat
      /\ \A k \in l.base + 1..LastIndex(l) : Whole(img, l)[k] = EntryAt(l, k)
  BY <1>2, WholeFacts
<1>4. CASE i = l.base /\ i = 0
  BY <1>4 DEF NodeOK, TermAt, TermIn
<1>5. CASE i = l.base /\ i > 0
  <2>1. l.baseTerm = img[i] /\ i \in 1..l.base
    BY <1>1, <1>5 DEF NodeOK
  <2>2. Whole(img, l)[i] = img[i]
    BY <1>3, <2>1 DEF Agree
  <2> QED BY <1>5, <2>1, <2>2 DEF TermAt, TermIn
<1>6. CASE i # l.base
  <2>1. i \in l.base + 1..LastIndex(l) /\ i # 0
    BY <1>1, <1>3, <1>6
  <2> QED BY <1>3, <1>6, <2>1 DEF TermAt, TermIn
<1> QED BY <1>1, <1>4, <1>5, <1>6

LEMMA ConcatFacts ==
    ASSUME NEW a \in Logs, NEW b \in Logs
    PROVE  /\ a \o b \in Logs /\ Len(a \o b) = Len(a) + Len(b)
           /\ \A i \in 1..Len(a) : (a \o b)[i] = a[i]
           /\ \A i \in 1..Len(b) : (a \o b)[Len(a) + i] = b[i]
<1>1. Len(a) \in Nat /\ Len(b) \in Nat
  BY LogFacts
<1> DEFINE c == a \o b
<1>2. /\ c \in Logs /\ Len(c) = Len(a) + Len(b)
      /\ \A i \in 1..Len(a) + Len(b) : c[i] = IF i <= Len(a) THEN a[i] ELSE b[i - Len(a)]
  BY ConcatProperties DEF Logs
<1> HIDE DEF c
<1>3. ASSUME NEW i \in 1..Len(b) PROVE c[Len(a) + i] = b[i]
  <2>1. Len(a) + i \in 1..Len(a) + Len(b) /\ ~(Len(a) + i <= Len(a)) /\ Len(a) + i - Len(a) = i
    BY <1>1
  <2> QED BY <1>2, <2>1
<1>4. ASSUME NEW i \in 1..Len(a) PROVE c[i] = a[i]
  BY <1>1, <1>2
<1> QED BY <1>2, <1>3, <1>4 DEF c

LEMMA ConcatThree ==
    ASSUME NEW a \in Logs, NEW b \in Logs, NEW c \in Logs
    PROVE  (a \o b) \o c = a \o (b \o c)
<1>1. a \in Seq(Nat) /\ b \in Seq(Nat) /\ c \in Seq(Nat)
  BY DEF Logs
<1> QED BY <1>1, ConcatAssociative, SMTT(30)

LEMMA PrefixOfConcat ==
    ASSUME NEW a \in Logs, NEW b \in Logs, NEW j \in Nat, j <= Len(b)
    PROVE  SubSeq(a \o b, 1, Len(a) + j) = a \o SubSeq(b, 1, j)
<1> DEFINE c == a \o b
           d == SubSeq(b, 1, j)
           x == SubSeq(c, 1, Len(a) + j)
           y == a \o d
<1>1. Len(a) \in Nat /\ Len(b) \in Nat /\ c \in Logs /\ Len(c) = Len(a) + Len(b)
  BY LogFacts, ConcatFacts
<1>2. d \in Logs /\ Len(d) = j /\ \A i \in 1..j : d[i] = b[i]
  BY PrefixFacts DEF Agree
<1> HIDE DEF d
<1>3. /\ y \in Logs /\ Len(y) = Len(a) + j /\ \A i \in 1..Len(a) : y[i] = a[i]
      /\ \A i \in 1..j : y[Len(a) + i] = d[i]
  BY <1>2, ConcatFacts
<1>4. /\ \A i \in 1..Len(a) : c[i] = a[i]
      /\ \A i \in 1..Len(b) : c[Len(a) + i] = b[i]
  BY ConcatFacts
<1> HIDE DEF c, y
<1>5. x \in Logs /\ Len(x) = Len(a) + j /\ \A i \in 1..Len(a) + j : x[i] = c[i]
  <2>1. Len(a) + j \in Nat /\ Len(a) + j <= Len(c)
    BY <1>1
  <2> QED BY <1>1, <2>1, PrefixFacts DEF Agree
<1> HIDE DEF x
<1>6. ASSUME NEW i \in 1..Len(a) + j PROVE x[i] = y[i]
  <2>1. CASE i <= Len(a)
    <3>1. i \in 1..Len(a)
      BY <1>1, <2>1
    <3> QED BY <1>3, <1>4, <1>5, <3>1
  <2>2. CASE i > Len(a)
    <3>1. PICK k \in Nat : i = Len(a) + k
      <4>1. i - Len(a) \in Nat /\ i = Len(a) + (i - Len(a))
        BY <1>1, <2>2
      <4> QED BY <4>1
    <3>2. k \in 1..j /\ k \in 1..Len(b)
      BY <1>1, <2>2, <3>1
    <3> QED BY <1>2, <1>3, <1>4, <1>5, <3>1, <3>2
  <2> QED BY <1>1, <2>1, <2>2
<1>7. Agree(x, y, Len(x))
  BY <1>1, <1>3, <1>5, <1>6 DEF Agree
<1>8. x = y
  BY <1>3, <1>5, <1>7, LogsEqual
<1> QED BY <1>8 DEF x, y, c, d

LEMMA WholeAppend ==
    ASSUME NEW img \in Logs, NEW l \in LogViews, l.base <= Len(img), NEW e \in Nat,
           NEW l2, l2.base = l.base, l2.entries = Append(l.entries, e)
    PROVE  Whole(img, l2) = Append(Whole(img, l), e)
<1>b. PICK base \in Nat, es \in Logs : base = l.base /\ es = l.entries
  BY DEF LogViews
<1>p. PICK pre \in Logs : pre = SubSeq(img, 1, base)
  BY <1>b, PrefixFacts
<1>0. pre \in Seq(Nat) /\ es \in Seq(Nat) /\ <<e>> \in Seq(Nat) /\ pre \o es \in Seq(Nat)
  BY ConcatFacts DEF Logs
<1>1. Append(pre \o es, e) = (pre \o es) \o <<e>>
  <2> DEFINE c == pre \o es
  <2>1. c \in Seq(Nat)
    BY <1>0
  <2> HIDE DEF c
  <2>2. Append(c, e) = c \o <<e>>
    BY <2>1, AppendIsConcat
  <2> QED BY <2>2 DEF c
<1>3. Append(es, e) = es \o <<e>>
  BY <1>0, AppendIsConcat
<1>2. (pre \o es) \o <<e>> = pre \o (es \o <<e>>)
  <2> DEFINE f == <<e>>
  <2>1. f \in Seq(Nat)
    BY <1>0
  <2> HIDE DEF f
  <2>2. (pre \o es) \o f = pre \o (es \o f)
    BY <2>1, ConcatThree, SMTT(30) DEF Logs
  <2> QED BY <2>2 DEF f
<1> QED BY <1>b, <1>p, <1>1, <1>2, <1>3 DEF Whole

LEMMA WholeMerge ==
    ASSUME NEW img \in Logs, NEW l \in LogViews, l.base <= Len(img), NEW entries \in Logs,
           NEW prev \in Nat, l.base <= prev, prev <= LastIndex(l)
    PROVE  /\ MergeAfter(l, prev, entries) \in LogViews
           /\ MergeAfter(l, prev, entries).base = l.base
           /\ MergeAfter(l, prev, entries).baseTerm = l.baseTerm
           /\ Whole(img, MergeAfter(l, prev, entries)) = MergeIn(Whole(img, l), prev, entries)
<1>b. PICK base \in Nat, es \in Logs : base = l.base /\ es = l.entries
  BY DEF LogViews
<1>p. PICK pre \in Logs : pre = SubSeq(img, 1, base) /\ Len(pre) = base
  BY <1>b, PrefixFacts
<1>1. Len(es) \in Nat /\ Len(entries) \in Nat /\ LastIndex(l) = base + Len(es)
  BY <1>b, LogFacts DEF LastIndex
<1>w. PICK w \in Logs : w = Whole(img, l) /\ w = pre \o es
  BY <1>b, <1>p, ConcatFacts DEF Whole
<1>2. /\ Len(w) = base + Len(es)
      /\ \A i \in base + 1..LastIndex(l) : w[i] = EntryAt(l, i)
  <2>1. /\ Len(Whole(img, l)) = LastIndex(l)
        /\ \A i \in l.base + 1..LastIndex(l) : Whole(img, l)[i] = EntryAt(l, i)
    BY WholeFacts
  <2> QED BY <1>1, <1>b, <1>w, <2>1
<1>i. base <= prev /\ prev <= base + Len(es)
  BY <1>1, <1>b
<1> DEFINE same == \A i \in 1..Len(entries) : prev + i <= LastIndex(l) /\ EntryAt(l, prev + i) = entries[i]
<1>3. same <=> \A i \in 1..Len(entries) : prev + i <= Len(w) /\ w[prev + i] = entries[i]
  <2>1. ASSUME NEW i \in 1..Len(entries), prev + i <= LastIndex(l) PROVE w[prev + i] = EntryAt(l, prev + i)
    <3>1. prev + i \in base + 1..LastIndex(l)
      BY <1>1, <1>i, <2>1
    <3> QED BY <1>2, <3>1
  <2> QED BY <1>1, <1>2, <2>1
<1>4. CASE same
  <2>1. MergeAfter(l, prev, entries) = l
    BY <1>4 DEF MergeAfter
  <2>2. MergeIn(w, prev, entries) = w
    BY <1>3, <1>4 DEF MergeIn
  <2> QED BY <1>w, <2>1, <2>2
<1>5. CASE ~same
  <2>1. PICK j \in Nat : j = prev - l.base /\ prev = base + j /\ j <= Len(es)
    <3>1. prev - base \in Nat /\ prev = base + (prev - base) /\ prev - base <= Len(es)
      BY <1>1, <1>i
    <3> QED BY <1>b, <3>1
  <2>2. PICK cut \in Logs : cut = SubSeq(es, 1, j)
    BY <2>1, PrefixFacts
  <2>3. MergeAfter(l, prev, entries) = [l EXCEPT !.entries = cut \o entries]
    BY <1>5, <1>b, <2>1, <2>2 DEF MergeAfter, LogViews
  <2>4. cut \o entries \in Logs
    BY ConcatFacts
  <2>5. PICK l2 \in LogViews : /\ l2 = MergeAfter(l, prev, entries)
                               /\ l2.base = l.base /\ l2.baseTerm = l.baseTerm /\ l2.entries = cut \o entries
    BY <2>3, <2>4 DEF LogViews
  <2>6. Whole(img, l2) = (pre \o cut) \o entries
    <3>1. (pre \o cut) \o entries = pre \o (cut \o entries)
      BY ConcatThree, SMTT(30)
    <3> QED BY <1>b, <1>p, <2>5, <3>1 DEF Whole
  <2>7. SubSeq(w, 1, prev) = pre \o cut
    <3>1. SubSeq(pre \o es, 1, Len(pre) + j) = pre \o SubSeq(es, 1, j)
      BY <2>1, PrefixOfConcat
    <3> QED BY <1>p, <1>w, <2>1, <2>2, <3>1
  <2>8. MergeIn(w, prev, entries) = (pre \o cut) \o entries
    BY <1>3, <1>5, <2>7 DEF MergeIn
  <2> QED BY <1>w, <2>5, <2>6, <2>8
<1> QED BY <1>4, <1>5

LEMMA PrefixesEqual ==
    ASSUME NEW a \in Logs, NEW b \in Logs, NEW i \in Nat, Agree(a, b, i)
    PROVE  SubSeq(a, 1, i) = SubSeq(b, 1, i)
<1>1. i <= Len(a) /\ i <= Len(b) /\ \A j \in 1..i : a[j] = b[j]
  BY DEF Agree
<1>2. PICK x \in Logs : x = SubSeq(a, 1, i) /\ Len(x) = i /\ \A j \in 1..i : x[j] = a[j]
  BY <1>1, PrefixFacts DEF Agree
<1>3. PICK y \in Logs : y = SubSeq(b, 1, i) /\ Len(y) = i /\ \A j \in 1..i : y[j] = b[j]
  BY <1>1, PrefixFacts DEF Agree
<1>4. Agree(x, y, Len(x))
  BY <1>1, <1>2, <1>3 DEF Agree
<1>5. x = y
  BY <1>2, <1>3, <1>4, LogsEqual
<1> QED BY <1>2, <1>3, <1>5

\* Cutting a log at i, with an image that has its first i entries, leaves the whole log as it was.
LEMMA WholeCut ==
    ASSUME NEW img \in Logs, NEW l \in LogViews, l.base <= Len(img),
           NEW i \in Nat, l.base <= i, i <= LastIndex(l),
           NEW img2 \in Logs, Agree(img2, Whole(img, l), i),
           NEW l2, l2.base = i, l2.entries = SuffixFrom(l, i + 1)
    PROVE  /\ Whole(img2, l2) = Whole(img, l)
           /\ SuffixFrom(l, i + 1) \in Logs
<1>b. PICK base \in Nat, es \in Logs : base = l.base /\ es = l.entries
  BY DEF LogViews
<1>p. PICK pre \in Logs : pre = SubSeq(img, 1, base) /\ Len(pre) = base
  BY <1>b, PrefixFacts
<1>1. Len(es) \in Nat /\ LastIndex(l) = base + Len(es)
  BY <1>b, LogFacts DEF LastIndex
<1>w. PICK w \in Logs : w = Whole(img, l) /\ w = pre \o es
  BY <1>b, <1>p, ConcatFacts DEF Whole
<1>2. base <= i /\ i <= base + Len(es)
  BY <1>1, <1>b
<1>j. PICK j \in Nat : i = base + j /\ j <= Len(es) /\ (i + 1) - base = j + 1
  <2>1. i - base \in Nat /\ i = base + (i - base) /\ i - base <= Len(es) /\ (i + 1) - base = i - base + 1
    BY <1>1, <1>2
  <2> QED BY <2>1
<1>3. SubSeq(img2, 1, i) = pre \o SubSeq(es, 1, j)
  <2>1. SubSeq(img2, 1, i) = SubSeq(w, 1, i)
    BY <1>w, PrefixesEqual
  <2>2. SubSeq(pre \o es, 1, Len(pre) + j) = pre \o SubSeq(es, 1, j)
    BY <1>j, PrefixOfConcat
  <2> QED BY <1>j, <1>p, <1>w, <2>1, <2>2
<1>4. SuffixFrom(l, i + 1) = SubSeq(es, j + 1, Len(es))
  <2>1. (i + 1) - l.base = j + 1 /\ l.entries = es
    BY <1>b, <1>j, Zenon
  <2>2. SuffixFrom(l, i + 1) = SubSeq(l.entries, (i + 1) - l.base, Len(l.entries))
    BY Zenon DEF SuffixFrom
  <2> QED BY <2>1, <2>2, Zenon
<1>5. PICK x \in Logs, y \in Logs : x = SubSeq(es, 1, j) /\ y = SubSeq(es, j + 1, Len(es))
  BY <1>j, PrefixFacts, SuffixFacts
<1>6. x \o y = es
  <2>1. 1 \in 1..Len(es) + 1 /\ j \in 1 - 1..Len(es) /\ Len(es) \in j..Len(es)
    BY <1>1, <1>j
  <2>2. es \in Seq(Nat)
    BY DEF Logs
  <2>3. SubSeq(es, 1, j) \o SubSeq(es, j + 1, Len(es)) = SubSeq(es, 1, Len(es))
    BY <2>1, <2>2, ConcatAdjacentSubSeq
  <2>4. SubSeq(es, 1, Len(es)) = es
    <3>1. Len(es) <= Len(es)
      BY <1>1
    <3>2. /\ SubSeq(es, 1, Len(es)) \in Logs /\ Len(SubSeq(es, 1, Len(es))) = Len(es)
          /\ Agree(SubSeq(es, 1, Len(es)), es, Len(es))
      BY <1>1, <3>1, PrefixFacts
    <3> QED BY <3>2, LogsEqual
  <2> QED BY <1>5, <2>3, <2>4, Zenon
<1>7. (pre \o x) \o y = pre \o (x \o y)
  BY ConcatThree, SMTT(30)
<1> QED BY <1>3, <1>4, <1>5, <1>6, <1>7, <1>w DEF Whole

\* What replicate sends is what follows prev in the whole log.
LEMMA WholeSuffix ==
    ASSUME NEW img \in Logs, NEW l \in LogViews, l.base <= Len(img),
           NEW prev \in Nat, l.base <= prev, prev <= LastIndex(l)
    PROVE  LET s == SuffixFrom(l, prev + 1)
           IN  /\ s \in Logs /\ prev + Len(s) = Len(Whole(img, l))
               /\ \A j \in 1..Len(s) : s[j] = Whole(img, l)[prev + j]
<1>b. PICK base \in Nat, es \in Logs : base = l.base /\ es = l.entries
  BY DEF LogViews
<1>1. Len(es) \in Nat /\ LastIndex(l) = base + Len(es)
  BY <1>b, LogFacts DEF LastIndex
<1>2. base <= prev /\ prev <= base + Len(es)
  BY <1>1, <1>b
<1>w. PICK w \in Logs : /\ w = Whole(img, l) /\ Len(w) = base + Len(es)
                        /\ \A k \in base + 1..base + Len(es) : w[k] = es[k - base]
  <2>1. /\ Whole(img, l) \in Logs /\ Len(Whole(img, l)) = LastIndex(l)
        /\ \A i \in l.base + 1..LastIndex(l) : Whole(img, l)[i] = EntryAt(l, i)
    BY WholeFacts
  <2> QED BY <1>1, <1>b, <2>1 DEF EntryAt
<1>j. PICK i \in Nat : prev = base + i /\ i <= Len(es) /\ (prev + 1) - base = i + 1
  <2>1. prev - base \in Nat /\ prev = base + (prev - base) /\ prev - base <= Len(es) /\ (prev + 1) - base = prev - base + 1
    BY <1>1, <1>2
  <2> QED BY <2>1
<1>3. PICK s \in Logs : s = SuffixFrom(l, prev + 1) /\ i + Len(s) = Len(es) /\ \A j \in 1..Len(s) : s[j] = es[i + j]
  <2>1. SuffixFrom(l, prev + 1) = SubSeq(es, i + 1, Len(es))
    <3>1. (prev + 1) - l.base = i + 1 /\ l.entries = es
      BY <1>b, <1>j, Zenon
    <3>2. SuffixFrom(l, prev + 1) = SubSeq(l.entries, (prev + 1) - l.base, Len(l.entries))
      BY Zenon DEF SuffixFrom
    <3> QED BY <3>1, <3>2, Zenon
  <2> QED BY <1>j, <2>1, SuffixFacts
<1>4. Len(s) \in Nat
  BY LogFacts
<1>5. ASSUME NEW j \in 1..Len(s) PROVE s[j] = w[prev + j]
  <2>1. prev + j \in base + 1..base + Len(es) /\ prev + j - base = i + j
    BY <1>1, <1>3, <1>4, <1>j
  <2>2. w[prev + j] = es[prev + j - base]
    BY <1>w, <2>1
  <2>3. s[j] = es[i + j]
    BY <1>3
  <2> QED BY <2>1, <2>2, <2>3, Zenon
<1>6. prev + Len(s) = Len(w)
  <2>1. i + Len(s) = Len(es) /\ Len(w) = base + Len(es) /\ prev = base + i
    BY <1>3, <1>j, <1>w, Zenon
  <2> QED BY <1>4, <2>1
<1> QED BY <1>3, <1>5, <1>6, <1>w, Zenon

\* A log without entries after its base stands for what the image has.
LEMMA WholeOfImage ==
    ASSUME NEW img \in Logs, NEW l2, l2.base = Len(img), l2.entries = <<>>
    PROVE  Whole(img, l2) = img
<1>1. Len(img) \in Nat /\ Len(img) <= Len(img)
  BY LogFacts
<1>2. SubSeq(img, 1, Len(img)) = img
  <2>1. /\ SubSeq(img, 1, Len(img)) \in Logs /\ Len(SubSeq(img, 1, Len(img))) = Len(img)
        /\ Agree(SubSeq(img, 1, Len(img)), img, Len(img))
    BY <1>1, PrefixFacts
  <2> QED BY <2>1, LogsEqual
<1>3. img \o <<>> = img
  BY ConcatEmptySeq DEF Logs
<1> QED BY <1>2, <1>3 DEF Whole

\* Executing more does not change what is below the base.
LEMMA WholeExecutes ==
    ASSUME NEW img \in Logs, NEW img2 \in Logs, NEW l, l.base \in Nat, l.base <= Len(img),
           Agree(img2, img, Len(img))
    PROVE  Whole(img2, l) = Whole(img, l)
<1>1. Len(img) \in Nat
  BY LogFacts
<1>2. Agree(img2, img, l.base)
  BY <1>1, AgreeDown
<1> QED BY <1>2, PrefixesEqual DEF Whole

-----------------------------------------------------------------------------
(* Nodes, and steps that add nothing to the whole logs *)

LEMMA NodeFacts ==
    ASSUME NEW img \in Logs, NEW l \in LogViews, NEW a \in Histories, NEW s, NodeOK(l, a, s, img)
    PROVE  /\ l.base \in Nat /\ Len(img) \in Nat /\ l.base <= Len(img)
           /\ a.base = l.base /\ a.base + Len(a.entries) = Len(img)
           /\ Whole(img, l) \in Logs /\ Len(Whole(img, l)) = LastIndex(l) /\ LastIndex(l) \in Nat
           /\ l.base <= LastIndex(l) /\ Agree(Whole(img, l), img, l.base)
<1>1. l.base \in Nat /\ Len(a.entries) \in Nat /\ Len(img) \in Nat
  BY LogFacts DEF LogViews, Histories
<1>2. l.base <= Len(img) /\ a.base = l.base /\ a.base + Len(a.entries) = Len(img)
  BY <1>1 DEF NodeOK
<1> QED BY <1>1, <1>2, WholeFacts

LEMMA WholeOf ==
    ASSUME NEW n \in Server
    PROVE  whole[n] = Whole(image[n], log[n]) /\ whole'[n] = Whole(image'[n], log'[n])
BY DEF whole, WholeLog, Whole

LEMMA StateFacts ==
    ASSUME StateOK, NodesOK
    PROVE  /\ RaftOK
           /\ \A n \in Server :
                 /\ image[n] \in Logs /\ log[n] \in LogViews /\ applied[n] \in Histories
                 /\ NodeOK(log[n], applied[n], snap[n], image[n])
                 /\ log[n].base \in Nat /\ Len(image[n]) \in Nat /\ log[n].base <= Len(image[n])
                 /\ applied[n].base = log[n].base /\ LastApplied(n) = Len(image[n])
                 /\ whole[n] \in Logs /\ Len(whole[n]) = LastIndex(log[n]) /\ LastIndex(log[n]) \in Nat
                 /\ log[n].base <= LastIndex(log[n])
                 /\ Agree(whole[n], image[n], log[n].base)
<1>1. ASSUME NEW n \in Server
      PROVE  /\ image[n] \in Logs /\ log[n] \in LogViews /\ applied[n] \in Histories
             /\ NodeOK(log[n], applied[n], snap[n], image[n])
  BY DEF StateOK, NodesOK
<1>2. ASSUME NEW n \in Server
      PROVE  /\ log[n].base \in Nat /\ Len(image[n]) \in Nat /\ log[n].base <= Len(image[n])
             /\ applied[n].base = log[n].base /\ LastApplied(n) = Len(image[n])
             /\ whole[n] \in Logs /\ Len(whole[n]) = LastIndex(log[n]) /\ LastIndex(log[n]) \in Nat
             /\ log[n].base <= LastIndex(log[n])
             /\ Agree(whole[n], image[n], log[n].base)
  BY <1>1, NodeFacts, WholeOf DEF LastApplied
<1>3. whole \in [Server -> Logs]
  <2>1. \A n \in Server : WholeLog(n) \in Logs
    BY <1>2 DEF whole
  <2> QED BY <2>1 DEF whole
<1>4. RaftOK
  BY <1>3 DEF RaftOK, StateOK
<1> QED BY <1>1, <1>2, <1>4

LEMMA StateFactsNext ==
    ASSUME StateOK', NodesOK'
    PROVE  RaftOK'
<1>1. ASSUME NEW n \in Server
      PROVE  /\ image'[n] \in Logs /\ log'[n] \in LogViews /\ applied'[n] \in Histories
             /\ NodeOK(log'[n], applied'[n], snap'[n], image'[n])
  BY DEF StateOK, NodesOK
<1>2. ASSUME NEW n \in Server PROVE whole'[n] \in Logs
  BY <1>1, NodeFacts, WholeOf
<1>3. whole' \in [Server -> Logs]
  <2>1. \A n \in Server : WholeLog(n)' \in Logs
    BY <1>2 DEF whole
  <2> QED BY <2>1 DEF whole
<1> QED BY <1>3 DEF RaftOK, StateOK

LEMMA WholeUnchanged ==
    ASSUME \A n \in Server : Whole(image'[n], log'[n]) = Whole(image[n], log[n])
    PROVE  whole' = whole
BY DEF whole, WholeLog, Whole

\* What a leader knows in its own log is what the history says.
LEMMA TermsAreWhole ==
    ASSUME StateOK, NodesOK, NEW n \in Server, NEW i \in Nat, i >= log[n].base, i <= LastIndex(log[n])
    PROVE  TermAt(log[n], i) = TermIn(whole[n], i)
BY StateFacts, WholeOf, WholeTerm

LEMMA Quiet ==
    ASSUME StateOK, NodesOK, MessagesOK, StateOK', NodesOK', NEW Ld, NEW Lg, NEW A, RaftInv(Ld, Lg, A),
           whole' = whole, image' = image, \A v \in Server : term[v] <= term'[v],
           \A v \in Server : leads'[v] => leads[v] /\ term'[v] = term[v] /\ match'[v] = match[v],
           \A v \in Server : commit'[v] = commit[v] \/ commit'[v] = 0,
           msgs' \subseteq msgs
    PROVE  RaftInv(Ld, Lg, A)'
<1>0. RaftOK /\ RaftOK'
  BY StateFacts, StateFactsNext
<1>x. HistoryLogs(Ld, Lg, A) /\ CommitInv(Ld, Lg, A) /\ MessageInv(Ld, Lg, A)
  BY DEF RaftInv
<1>1. MessageInv(Ld, Lg, A)'
  BY <1>x DEF MessageInv
<1>2. CommitInv(Ld, Lg, A)'
  <2> SUFFICES ASSUME NEW v \in Server
               PROVE  NodeSafe(whole[v], image[v], commit'[v], term'[v], Ld, Lg, A)
    BY DEF CommitInv
  <2>1. whole[v] \in Logs /\ image[v] \in Logs /\ commit[v] \in Nat /\ term[v] \in Nat /\ term'[v] \in Nat
    BY <1>0 DEF RaftOK
  <2>2. NodeSafe(whole[v], image[v], commit[v], term[v], Ld, Lg, A)
    BY <1>x DEF CommitInv
  <2>3. NodeSafe(whole[v], image[v], commit[v], term'[v], Ld, Lg, A)
    BY <1>x, <2>1, <2>2, GrowsReflexive, NodeSafeGrows
  <2>4. commit'[v] = 0 => Safe(whole[v], commit'[v], term'[v], Ld, Lg, A)
    BY DEF Safe
  <2> QED BY <2>3, <2>4 DEF NodeSafe
<1> QED BY <1>0, <1>1, <1>2, RaftQuiet

\* The state of the cluster
History == \E Ld, Lg, A : RaftInv(Ld, Lg, A)

IInv == StateOK /\ NodesOK /\ MessagesOK /\ History

LEMMA InitIInv == Init => IInv
<1> SUFFICES ASSUME Init PROVE IInv
  OBVIOUS
<1>e. <<>> \in Logs /\ Len(<<>>) = 0
  BY EmptySeq DEF Logs
<1>1. StateOK
  <2>1. [base |-> 0, baseTerm |-> 0, entries |-> <<>>] \in LogViews
    BY <1>e DEF LogViews
  <2>2. [base |-> 0, term |-> 0, entries |-> <<>>] \in Histories
    BY <1>e DEF Histories
  <2> QED BY <1>e, <2>1, <2>2 DEF Init, StateOK
<1>2. NodesOK
  BY <1>e DEF Init, NodesOK, NodeOK
<1>3. MessagesOK
  BY DEF Init, MessagesOK
<1>4. History
  <2> DEFINE Ld == [t \in Nat |-> None]
             Lg == [t \in Nat |-> <<>>]
             A == [v \in Server |-> [t \in Nat |-> 0]]
  <2>1. HistoryLogs(Ld, Lg, A)
    BY <1>e DEF HistoryLogs
  <2>2. /\ \A t \in Nat : Ld[t] = None
        /\ \A v \in Server, t \in Nat : A[v][t] = 0
    OBVIOUS
  <2> HIDE DEF Ld, Lg, A
  <2>3. \A n \in Server : whole[n] = <<>> /\ image[n] = <<>> /\ ~leads[n] /\ commit[n] = 0
    <3>1. ASSUME NEW n \in Server PROVE Whole(image[n], log[n]) = image[n]
      <4>1. image[n] \in Logs /\ log[n].base = Len(image[n]) /\ log[n].entries = <<>>
        BY <1>e DEF Init
      <4> QED BY <4>1, WholeOfImage
    <3> QED BY <3>1, WholeOf DEF Init
  <2>4. LeaderInv(Ld, Lg) /\ LogInv(Ld, Lg) /\ AckInv(Ld, Lg, A) /\ MatchInv(A) /\ KeepInv(Ld, Lg, A)
    <3>1. Good(<<>>, Ld, Lg) /\ \A t : TermsUpTo(<<>>, t)
      BY <1>e DEF Good, TermsUpTo
    <3> QED BY <2>2, <2>3, <3>1 DEF LeaderInv, LogInv, AckInv, MatchInv, KeepInv, Choosable
  <2>5. CommitInv(Ld, Lg, A)
    BY <1>e, <2>3 DEF CommitInv, NodeSafe, Safe, Agree
  <2>6. MessageInv(Ld, Lg, A)
    BY DEF Init, MessageInv
  <2>7. RaftInv(Ld, Lg, A)
    BY <2>1, <2>4, <2>5, <2>6 DEF RaftInv
  <2> QED BY <2>7 DEF History
<1> QED BY <1>1, <1>2, <1>3, <1>4 DEF IInv

-----------------------------------------------------------------------------
(* Steps of one node *)

LEMMA ElectStep ==
    ASSUME IInv, NEW n \in Server, NEW S \in SUBSET (Server \ {n}), Elect(n, S)
    PROVE  IInv'
<1>1. /\ StateOK /\ NodesOK /\ MessagesOK /\ History
      /\ term' = [k \in Server |-> IF k \in S \cup {n} THEN term[n] + 1 ELSE term[k]]
      /\ leads' = [k \in Server |-> k = n \/ (k \notin S /\ leads[k])]
      /\ match' = [k \in Server |-> IF k = n \/ k \in S THEN [p \in Server |-> 0] ELSE match[k]]
      /\ UNCHANGED <<log, commit, applied, image, snap, msgs>>
  BY DEF IInv, Elect
<1>2. StateOK'
  BY <1>1 DEF StateOK
<1>3. NodesOK' /\ MessagesOK'
  BY <1>1 DEF NodesOK, MessagesOK
<1>4. whole' = whole
  BY <1>1, WholeUnchanged
<1>5. ASSUME NEW v \in S PROVE term[v] < term[n] + 1 /\ WholeUpToDate(n, v)
  <2>1. term[v] < term[n] + 1 /\ UpToDate(n, v) /\ v \in Server
    BY DEF Elect
  <2>2. \A p \in Server : LastTerm(log[p]) = TermIn(whole[p], Len(whole[p])) /\ LastIndex(log[p]) = Len(whole[p])
    <3> SUFFICES ASSUME NEW p \in Server
                 PROVE  LastTerm(log[p]) = TermIn(whole[p], Len(whole[p])) /\ LastIndex(log[p]) = Len(whole[p])
      OBVIOUS
    <3>1. LastIndex(log[p]) \in Nat /\ LastIndex(log[p]) >= log[p].base /\ LastIndex(log[p]) = Len(whole[p])
      BY <1>1, StateFacts
    <3>2. LastIndex(log[p]) <= LastIndex(log[p])
      BY <3>1
    <3>3. TermAt(log[p], LastIndex(log[p])) = TermIn(whole[p], LastIndex(log[p]))
      BY <1>1, <3>1, <3>2, TermsAreWhole
    <3> QED BY <3>1, <3>3 DEF LastTerm
  <2> QED BY <2>1, <2>2 DEF UpToDate, WholeUpToDate
<1>6. IsQuorum({n} \cup S)
  BY DEF Elect
<1>7. PICK Ld, Lg, A : RaftInv(Ld, Lg, A)
  BY <1>1 DEF History
<1>8. RaftOK /\ RaftOK'
  BY <1>1, <1>2, <1>3, StateFacts, StateFactsNext
<1>9. \E Ld2, Lg2, A2 : Grows(Ld, Lg, A, Ld2, Lg2, A2) /\ RaftInv(Ld2, Lg2, A2)'
  <2>1. UNCHANGED <<commit, image, msgs>> /\ MessagesOK
    BY <1>1
  <2>2. \A v \in S : term[v] < term[n] + 1 /\ WholeUpToDate(n, v)
    BY <1>5
  <2> QED BY <1>1, <1>4, <1>6, <1>7, <1>8, <2>1, <2>2, RaftElects, Zenon
<1> QED BY <1>2, <1>3, <1>9 DEF IInv, History

LEMMA CrashStep ==
    ASSUME IInv, NEW n \in Server, Crash(n)
    PROVE  IInv'
<1>1. /\ StateOK /\ NodesOK /\ MessagesOK /\ History
      /\ leads' = [leads EXCEPT ![n] = FALSE] /\ commit' = [commit EXCEPT ![n] = 0]
      /\ match' = [match EXCEPT ![n] = [p \in Server |-> 0]]
      /\ UNCHANGED <<term, log, applied, image, snap, msgs>>
  BY DEF IInv, Crash
<1>2. StateOK'
  BY <1>1 DEF StateOK
<1>3. NodesOK' /\ MessagesOK'
  BY <1>1 DEF NodesOK, MessagesOK
<1>4. whole' = whole
  BY <1>1, WholeUnchanged
<1>5. /\ \A v \in Server : term[v] <= term'[v]
      /\ \A v \in Server : leads'[v] => leads[v] /\ term'[v] = term[v] /\ match'[v] = match[v]
      /\ \A v \in Server : commit'[v] = commit[v] \/ commit'[v] = 0
  BY <1>1 DEF StateOK
<1>6. \A Ld, Lg, A : RaftInv(Ld, Lg, A) => RaftInv(Ld, Lg, A)'
  BY <1>1, <1>2, <1>3, <1>4, <1>5, Quiet
<1> QED BY <1>1, <1>2, <1>3, <1>6 DEF IInv, History

LEMMA AppendCommandStep ==
    ASSUME IInv, NEW n \in Server, AppendCommand(n)
    PROVE  IInv'
<1>1. /\ StateOK /\ NodesOK /\ MessagesOK /\ History /\ leads[n]
      /\ log' = [log EXCEPT ![n].entries = Append(@, term[n])]
      /\ UNCHANGED <<term, leads, commit, applied, image, snap, match, msgs>>
  BY DEF IInv, AppendCommand
<1>l. /\ log[n] \in LogViews /\ log[n].entries \in Logs /\ term[n] \in Nat /\ image[n] \in Logs
      /\ log[n].base <= Len(image[n])
  BY <1>1, StateFacts DEF LogViews, StateOK
<1>e. Append(log[n].entries, term[n]) \in Logs
  BY <1>l, AppendFacts
<1>2. /\ log'[n] \in LogViews /\ log'[n].base = log[n].base /\ log'[n].baseTerm = log[n].baseTerm
      /\ log'[n].entries = Append(log[n].entries, term[n])
      /\ log' \in [Server -> LogViews] /\ \A p \in Server \ {n} : log'[p] = log[p]
  BY <1>1, <1>l, <1>e DEF StateOK, LogViews
<1>3. StateOK'
  BY <1>1, <1>2 DEF StateOK
<1>4. NodesOK' /\ MessagesOK'
  BY <1>1, <1>2 DEF NodesOK, NodeOK, MessagesOK
<1>5. whole' = [whole EXCEPT ![n] = Append(whole[n], term[n])]
  <2>1. Whole(image'[n], log'[n]) = Append(Whole(image[n], log[n]), term[n])
    <3>1. Whole(image[n], log'[n]) = Append(Whole(image[n], log[n]), term[n])
      BY <1>2, <1>l, WholeAppend, Zenon
    <3> QED BY <1>1, <3>1
  <2>2. \A p \in Server \ {n} : Whole(image'[p], log'[p]) = Whole(image[p], log[p])
    BY <1>1, <1>2
  <2>3. whole'[n] = Append(whole[n], term[n]) /\ \A p \in Server \ {n} : whole'[p] = whole[p]
    BY <2>1, <2>2, WholeOf
  <2>4. whole = [p \in Server |-> whole[p]] /\ whole' = [p \in Server |-> whole'[p]]
    BY DEF whole
  <2> HIDE DEF whole
  <2> QED BY <2>3, <2>4
<1>7. PICK Ld, Lg, A : RaftInv(Ld, Lg, A)
  BY <1>1 DEF History
<1>8. RaftOK /\ RaftOK'
  BY <1>1, <1>3, <1>4, StateFacts, StateFactsNext
<1>9. \E Lg2, A2 : RaftInv(Ld, Lg2, A2)'
  BY <1>1, <1>5, <1>7, <1>8, RaftExtends
<1> QED BY <1>3, <1>4, <1>9 DEF IInv, History

\* A message that is true may be sent.
LEMMA SendStep ==
    ASSUME IInv, NEW m, msgs' = msgs \cup {m}, UNCHANGED nodeVars, IsMessage(m),
           \A Ld, Lg, A : RaftInv(Ld, Lg, A) => MessageTrue(m, Ld, Lg, A)
    PROVE  IInv'
<1>1. /\ StateOK /\ NodesOK /\ MessagesOK /\ History
      /\ UNCHANGED <<term, leads, log, commit, applied, image, snap, match>>
  BY DEF IInv, nodeVars
<1>2. StateOK' /\ NodesOK' /\ MessagesOK'
  BY <1>1 DEF StateOK, NodesOK, MessagesOK
<1>4. whole' = whole
  BY <1>1, WholeUnchanged
<1>5. /\ \A v \in Server : term[v] <= term'[v]
      /\ \A v \in Server : leads'[v] => leads[v] /\ term'[v] = term[v] /\ match'[v] = match[v]
  BY <1>1 DEF StateOK
<1>7. PICK Ld, Lg, A : RaftInv(Ld, Lg, A)
  BY <1>1 DEF History
<1>8. CommitInv(Ld, Lg, A)'
  BY <1>1, <1>4, <1>7 DEF RaftInv, CommitInv
<1>9. MessageInv(Ld, Lg, A)'
  BY <1>7 DEF RaftInv, MessageInv
<1>10. RaftInv(Ld, Lg, A)'
  BY <1>1, <1>2, <1>4, <1>5, <1>7, <1>8, <1>9, StateFacts, StateFactsNext, RaftQuiet
<1> QED BY <1>2, <1>10 DEF IInv, History

LEMMA SendAppendEntriesStep ==
    ASSUME IInv, NEW n \in Server, NEW k \in Server, NEW next \in 1..LastIndex(log[n]) + 1,
           SendAppendEntries(n, k, next)
    PROVE  IInv'
<1> DEFINE m == [type |-> "AppendEntries", src |-> n, dst |-> k, term |-> term[n],
                 prev |-> next - 1, prevTerm |-> TermAt(log[n], next - 1),
                 entries |-> SuffixFrom(log[n], next), commit |-> commit[n]]
<1>1. /\ StateOK /\ NodesOK /\ leads[n] /\ k # n /\ next > log[n].base
      /\ msgs' = msgs \cup {m} /\ UNCHANGED nodeVars
  BY DEF IInv, SendAppendEntries
<1>2. /\ log[n] \in LogViews /\ image[n] \in Logs /\ log[n].base \in Nat /\ log[n].base <= Len(image[n])
      /\ whole[n] \in Logs /\ Len(whole[n]) = LastIndex(log[n]) /\ LastIndex(log[n]) \in Nat
      /\ term[n] \in Nat /\ commit[n] \in Nat
  BY <1>1, StateFacts DEF StateOK
<1>p. PICK prev \in Nat : prev = next - 1 /\ next = prev + 1 /\ log[n].base <= prev /\ prev <= LastIndex(log[n])
  <2>1. PICK base \in Nat, last \in Nat : base = log[n].base /\ last = LastIndex(log[n])
    BY <1>2
  <2>2. next \in 1..last + 1 /\ base < next
    BY <1>1, <2>1
  <2>3. next - 1 \in Nat /\ next = (next - 1) + 1 /\ base <= next - 1 /\ next - 1 <= last
    BY <2>2
  <2> QED BY <2>1, <2>3
<1>3. PICK s \in Logs : /\ s = SuffixFrom(log[n], next) /\ prev + Len(s) = Len(whole[n])
                        /\ \A j \in 1..Len(s) : s[j] = whole[n][prev + j]
  <2>1. LET s == SuffixFrom(log[n], prev + 1)
        IN  /\ s \in Logs /\ prev + Len(s) = Len(Whole(image[n], log[n]))
            /\ \A j \in 1..Len(s) : s[j] = Whole(image[n], log[n])[prev + j]
    BY <1>2, <1>p, WholeSuffix
  <2> QED BY <1>p, <2>1, WholeOf
<1>4. TermAt(log[n], next - 1) = TermIn(whole[n], prev)
  BY <1>1, <1>2, <1>p, TermsAreWhole
<1>m. /\ m.type = "AppendEntries" /\ m.src = n /\ m.dst = k /\ m.term = term[n] /\ m.prev = prev
      /\ m.prevTerm = TermIn(whole[n], prev) /\ m.entries = s /\ m.commit = commit[n]
  BY <1>3, <1>4, <1>p
<1> HIDE DEF m
<1>5. IsMessage(m)
  BY <1>2, <1>m DEF IsMessage
<1>6. ASSUME NEW Ld, NEW Lg, NEW A, RaftInv(Ld, Lg, A) PROVE MessageTrue(m, Ld, Lg, A)
  <2>1. Ld[term[n]] = n /\ whole[n] = Lg[term[n]]
    BY <1>1, <1>6 DEF RaftInv, LeaderInv
  <2>2. Safe(whole[n], commit[n], term[n], Ld, Lg, A)
    BY <1>6 DEF RaftInv, CommitInv, NodeSafe
  <2>3. Len(whole[n]) <= Len(whole[n])
    BY <1>2
  <2>4. AppendTrue(m, Ld, Lg, A)
    BY <1>3, <1>m, <2>1, <2>2, <2>3 DEF AppendTrue
  <2> QED BY <1>1, <1>m, <2>1, <2>4 DEF MessageTrue
<1> QED BY <1>1, <1>5, <1>6, SendStep

LEMMA SendInstallSnapshotStep ==
    ASSUME IInv, NEW n \in Server, NEW k \in Server, SendInstallSnapshot(n, k)
    PROVE  IInv'
<1> DEFINE m == [type |-> "InstallSnapshot", src |-> n, dst |-> k, term |-> term[n], snapshot |-> snap[n]]
<1>1. /\ StateOK /\ NodesOK /\ leads[n] /\ k # n /\ snap[n] # None
      /\ msgs' = msgs \cup {m} /\ UNCHANGED nodeVars
  BY DEF IInv, SendInstallSnapshot
<1>2. PICK s : s = snap[n] /\ IsSnapshot(s) /\ Agree(s.state, image[n], s.index)
  BY <1>1, StateFacts DEF NodeOK
<1>3. /\ image[n] \in Logs /\ Len(image[n]) \in Nat /\ term[n] \in Nat /\ s.state \in Logs /\ s.index \in Nat
  BY <1>1, <1>2, StateFacts DEF StateOK, IsSnapshot, Snapshots
<1>m. m.type = "InstallSnapshot" /\ m.src = n /\ m.dst = k /\ m.term = term[n] /\ m.snapshot = s
  BY <1>2
<1> HIDE DEF m
<1>5. IsMessage(m)
  BY <1>2, <1>3, <1>m DEF IsMessage
<1>6. ASSUME NEW Ld, NEW Lg, NEW A, RaftInv(Ld, Lg, A) PROVE MessageTrue(m, Ld, Lg, A)
  <2>1. Ld[term[n]] = n
    BY <1>1, <1>6 DEF RaftInv, LeaderInv
  <2>2. Safe(image[n], Len(image[n]), term[n], Ld, Lg, A) /\ HistoryLogs(Ld, Lg, A)
    BY <1>6 DEF RaftInv, CommitInv, NodeSafe
  <2>3. s.index <= Len(image[n])
    BY <1>2 DEF Agree
  <2>4. Safe(s.state, s.index, term[n], Ld, Lg, A)
    BY <1>2, <1>3, <2>2, <2>3, SafeAgrees
  <2> QED BY <1>1, <1>m, <2>1, <2>4 DEF MessageTrue
<1> QED BY <1>1, <1>5, <1>6, SendStep

LEMMA RefuseOldTermStep ==
    ASSUME IInv, NEW n \in Server, NEW m \in msgs, RefuseOldTerm(n, m)
    PROVE  IInv'
<1>1. /\ StateOK /\ NodesOK /\ MessagesOK /\ History
      /\ \/ UNCHANGED <<term, leads>>
         \/ /\ term[m.src] < term[n]
            /\ term' = [term EXCEPT ![m.src] = term[n]]
            /\ leads' = [leads EXCEPT ![m.src] = FALSE]
      /\ msgs' \in Taken(m) /\ UNCHANGED <<log, commit, applied, image, snap, match>>
  BY DEF IInv, RefuseOldTerm
<1>m. m.src \in Server
  BY <1>1 DEF MessagesOK, IsMessage
<1>q. msgs' \subseteq msgs
  BY <1>1 DEF Taken
<1>2. StateOK'
  BY <1>1, <1>m DEF StateOK
<1>3. NodesOK' /\ MessagesOK'
  BY <1>1, <1>q DEF NodesOK, MessagesOK
<1>4. whole' = whole
  BY <1>1, WholeUnchanged
<1>5. /\ \A v \in Server : term[v] <= term'[v]
      /\ \A v \in Server : leads'[v] => leads[v] /\ term'[v] = term[v] /\ match'[v] = match[v]
      /\ \A v \in Server : commit'[v] = commit[v] \/ commit'[v] = 0
  <2>0. \A v \in Server : term[v] \in Nat
    BY <1>1 DEF StateOK
  <2>1. CASE UNCHANGED <<term, leads>>
    BY <1>1, <2>0, <2>1
  <2>2. CASE /\ term[m.src] < term[n]
             /\ term' = [term EXCEPT ![m.src] = term[n]]
             /\ leads' = [leads EXCEPT ![m.src] = FALSE]
    <3>1. PICK l \in Server : l = m.src
      BY <1>m
    <3>2. /\ term[l] < term[n] /\ term'[l] = term[n] /\ ~leads'[l]
          /\ \A v \in Server \ {l} : term'[v] = term[v] /\ leads'[v] = leads[v]
      BY <1>1, <2>2, <3>1 DEF StateOK
    <3>3. \A v \in Server : term[v] <= term'[v]
      BY <2>0, <3>2
    <3>4. \A v \in Server : leads'[v] => leads[v] /\ term'[v] = term[v] /\ match'[v] = match[v]
      BY <1>1, <3>2
    <3> QED BY <1>1, <3>3, <3>4
  <2> QED BY <1>1, <2>1, <2>2
<1>6. \A Ld, Lg, A : RaftInv(Ld, Lg, A) => RaftInv(Ld, Lg, A)'
  BY <1>1, <1>2, <1>3, <1>4, <1>5, <1>q, Quiet
<1> QED BY <1>1, <1>2, <1>3, <1>6 DEF IInv, History

\* Whatever leaves the whole logs, the terms and the commit indexes as they are
LEMMA StillStep ==
    ASSUME IInv, StateOK', NodesOK', \A n \in Server : Whole(image'[n], log'[n]) = Whole(image[n], log[n]),
           UNCHANGED <<term, leads, commit, image, match>>, msgs' \subseteq msgs
    PROVE  IInv'
<1>1. StateOK /\ NodesOK /\ MessagesOK /\ History
  BY DEF IInv
<1>3. MessagesOK'
  BY <1>1 DEF MessagesOK
<1>4. whole' = whole
  BY WholeUnchanged
<1>5. /\ \A v \in Server : term[v] <= term'[v]
      /\ \A v \in Server : leads'[v] => leads[v] /\ term'[v] = term[v] /\ match'[v] = match[v]
      /\ \A v \in Server : commit'[v] = commit[v] \/ commit'[v] = 0
  BY <1>1 DEF StateOK
<1>6. \A Ld, Lg, A : RaftInv(Ld, Lg, A) => RaftInv(Ld, Lg, A)'
  BY <1>1, <1>3, <1>4, <1>5, Quiet
<1> QED BY <1>1, <1>3, <1>6 DEF IInv, History

LEMMA LoseStep ==
    ASSUME IInv, NEW m \in msgs, Lose(m)
    PROVE  IInv'
<1>1. /\ StateOK /\ NodesOK /\ msgs' \subseteq msgs
      /\ UNCHANGED <<term, leads, log, commit, applied, image, snap, match>>
  BY DEF IInv, Lose, nodeVars
<1>2. StateOK' /\ NodesOK'
  BY <1>1 DEF StateOK, NodesOK
<1> QED BY <1>1, <1>2, StillStep

-----------------------------------------------------------------------------
(* The applier and the snapshot store *)

LEMMA NodeExecutes ==
    ASSUME NEW img \in Logs, NEW l \in LogViews, NEW a \in Histories, NEW s, NodeOK(l, a, s, img),
           NEW now \in Logs, NEW a2, a2.base = a.base, a2.term = a.term, a2.entries = a.entries \o now
    PROVE  NodeOK(l, a2, s, img \o now)
<1>b. PICK base \in Nat, es \in Logs : base = a.base /\ es = a.entries
  BY DEF Histories
<1>n. Len(img) \in Nat /\ Len(now) \in Nat /\ Len(es) \in Nat
  BY LogFacts
<1>0. /\ l.base = base /\ Len(img) = base + Len(es) /\ \A i \in 1..Len(es) : es[i] = img[base + i]
      /\ l.base = 0 => l.baseTerm = 0
      /\ l.base > 0 => l.baseTerm = img[l.base] /\ a.term = img[l.base] /\ s # None
      /\ s # None => IsSnapshot(s) /\ l.base <= s.index /\ Agree(s.state, img, s.index)
      /\ l.base > 0 /\ ~CreateAfterCompact => s.index = l.base
  BY <1>b DEF NodeOK
<1>1. PICK b \in Logs : /\ b = img \o now /\ Len(b) = Len(img) + Len(now)
                        /\ \A i \in 1..Len(img) : b[i] = img[i]
                        /\ \A i \in 1..Len(now) : b[Len(img) + i] = now[i]
  BY ConcatFacts
<1>2. PICK c \in Logs : /\ c = es \o now /\ Len(c) = Len(es) + Len(now)
                        /\ \A i \in 1..Len(es) : c[i] = es[i]
                        /\ \A i \in 1..Len(now) : c[Len(es) + i] = now[i]
  BY ConcatFacts
<1>3. ASSUME NEW i \in 1..Len(c) PROVE c[i] = b[base + i]
  <2>1. CASE i <= Len(es)
    <3>1. i \in 1..Len(es) /\ base + i \in 1..Len(img)
      BY <1>0, <1>n, <2>1
    <3> QED BY <1>0, <1>1, <1>2, <3>1
  <2>2. CASE i > Len(es)
    <3>1. PICK j \in Nat : i = Len(es) + j /\ base + i = Len(img) + j
      <4>1. i - Len(es) \in Nat /\ i = Len(es) + (i - Len(es)) /\ base + i = Len(img) + (i - Len(es))
        BY <1>0, <1>n, <2>2
      <4> QED BY <4>1
    <3>2. j \in 1..Len(now)
      BY <1>2, <1>n, <2>2, <3>1
    <3>3. c[Len(es) + j] = now[j] /\ b[Len(img) + j] = now[j]
      BY <1>1, <1>2, <3>2
    <3> QED BY <3>1, <3>3
  <2> QED BY <1>n, <2>1, <2>2
<1>4. Len(b) = base + Len(c)
  BY <1>0, <1>1, <1>2, <1>n
<1>5. base > 0 => b[base] = img[base]
  <2>1. base > 0 => base \in 1..Len(img)
    BY <1>0, <1>n
  <2> QED BY <1>1, <2>1
<1>6. s # None => Agree(s.state, b, s.index)
  <2> SUFFICES ASSUME s # None PROVE Agree(s.state, b, s.index)
    OBVIOUS
  <2>1. s.index \in Nat /\ s.state \in Logs /\ Agree(s.state, img, s.index)
    BY <1>0 DEF IsSnapshot, Snapshots
  <2>2. Agree(img, b, Len(img))
    BY <1>1, <1>n DEF Agree
  <2>3. PICK k \in Nat, x \in Logs : k = s.index /\ x = s.state /\ Agree(x, img, k) /\ k <= Len(img) /\ k <= k
    <3>1. s.index <= Len(img) /\ s.index <= s.index
      BY <2>1 DEF Agree
    <3> QED BY <2>1, <3>1
  <2>4. Agree(x, b, k)
    BY <1>n, <2>2, <2>3, AgreeTransitive
  <2> QED BY <2>3, <2>4
<1>7. a2.base = base /\ a2.term = a.term /\ a2.entries = c
  BY <1>b, <1>2
<1>8. NodeOK(l, a2, s, b)
  BY <1>0, <1>3, <1>4, <1>5, <1>6, <1>7 DEF NodeOK
<1> QED BY <1>1, <1>8

\* What has been executed is in the whole log.
LEMMA ImageInWhole ==
    ASSUME IInv, NEW n \in Server
    PROVE  /\ Agree(image[n], whole[n], Len(image[n]))
           /\ Len(image[n]) <= LastIndex(log[n]) /\ commit[n] <= LastIndex(log[n])
<1>1. StateOK /\ NodesOK /\ History
  BY DEF IInv
<1>2. PICK Ld, Lg, A : RaftInv(Ld, Lg, A)
  BY <1>1 DEF History
<1>3. Agree(image[n], whole[n], Len(image[n])) /\ Safe(whole[n], commit[n], term[n], Ld, Lg, A)
  BY <1>2 DEF RaftInv, CommitInv, NodeSafe
<1>4. Len(whole[n]) = LastIndex(log[n]) /\ LastIndex(log[n]) \in Nat
  BY <1>1, StateFacts
<1>5. commit[n] <= Len(whole[n])
  BY <1>3, <1>4 DEF Safe, Agree
<1> QED BY <1>3, <1>4, <1>5 DEF Agree

LEMMA ApplyCommittedStep ==
    ASSUME IInv, NEW n \in Server, ApplyCommitted(n)
    PROVE  IInv' /\ Agree(image'[n], image[n], Len(image[n]))
<1> DEFINE first == LastApplied(n) + 1 - log[n].base
           last == commit[n] - log[n].base
           now == SubSeq(log[n].entries, first, last)
<1>1. /\ StateOK /\ NodesOK /\ MessagesOK /\ History /\ commit[n] > LastApplied(n)
      /\ applied' = [applied EXCEPT ![n].entries = @ \o now]
      /\ image' = [image EXCEPT ![n] = @ \o now]
      /\ UNCHANGED <<term, leads, log, commit, snap, match, msgs>>
  BY DEF IInv, ApplyCommitted
<1>b. PICK base \in Nat, es \in Logs, img \in Logs, k \in Nat, c \in Nat :
          base = log[n].base /\ es = log[n].entries /\ img = image[n] /\ k = Len(img) /\ c = commit[n]
  BY <1>1, LogFacts DEF StateOK, LogViews
<1>2. /\ log[n] \in LogViews /\ applied[n] \in Histories /\ NodeOK(log[n], applied[n], snap[n], img)
      /\ LastApplied(n) = k /\ base <= k /\ k < c
      /\ whole[n] \in Logs /\ Len(whole[n]) = LastIndex(log[n]) /\ LastIndex(log[n]) = base + Len(es)
  BY <1>1, <1>b, StateFacts DEF LastIndex
<1>3. c <= base + Len(es) /\ Len(es) \in Nat
  BY <1>2, <1>b, ImageInWhole, LogFacts
<1>4. PICK x \in Logs : x = now /\ k + Len(x) = c /\ \A j \in 1..Len(x) : x[j] = whole[n][k + j]
  <2>0. first = k + (1 - base) /\ last = c - base
    BY <1>2, <1>b
  <2> HIDE DEF first, last
  <2>1. first \in Nat /\ last \in Nat /\ first >= 1 /\ last >= first
    BY <1>2, <2>0
  <2>2. last <= Len(es)
    BY <1>3, <2>0
  <2>3. \A i \in first..last : es[i] \in Nat
    BY <1>3, <2>1, <2>2, LogFacts
  <2>i. first \in Int /\ last \in Int
    BY <2>1
  <2>4. /\ SubSeq(es, first, last) \in Seq(Nat)
        /\ Len(SubSeq(es, first, last)) = IF first <= last THEN last - first + 1 ELSE 0
        /\ \A i \in 1..last - first + 1 : SubSeq(es, first, last)[i] = es[first + i - 1]
    BY <2>3, <2>i, SubSeqProperties
  <2>5. PICK x \in Logs : /\ x = SubSeq(es, first, last) /\ Len(x) = last - first + 1
                          /\ \A i \in 1..last - first + 1 : x[i] = es[first + i - 1]
    BY <2>1, <2>4 DEF Logs
  <2>6. k + Len(x) = c
    BY <1>2, <2>0, <2>1, <2>5
  <2>7. ASSUME NEW j \in 1..Len(x) PROVE x[j] = whole[n][k + j]
    <3>1. x[j] = es[first + j - 1] /\ first + j - 1 = (k + j) - base
      BY <2>0, <2>1, <2>5
    <3>2. k + j \in base + 1..LastIndex(log[n])
      BY <1>2, <1>3, <2>6
    <3>3. \A i \in log[n].base + 1..LastIndex(log[n]) : Whole(image[n], log[n])[i] = EntryAt(log[n], i)
      BY <1>2, <1>b, WholeFacts
    <3>4. whole[n][k + j] = EntryAt(log[n], k + j)
      BY <1>b, <3>2, <3>3, WholeOf
    <3>5. EntryAt(log[n], k + j) = es[(k + j) - base]
      BY <1>b, Zenon DEF EntryAt
    <3> QED BY <3>1, <3>4, <3>5
  <2>8. x = now
    BY <1>b, <2>5
  <2> QED BY <2>6, <2>7, <2>8
<1> HIDE DEF now, first, last
<1>5. PICK img2 \in Logs : /\ img2 = img \o x /\ Len(img2) = k + Len(x)
                           /\ \A i \in 1..k : img2[i] = img[i]
                           /\ \A i \in 1..Len(x) : img2[k + i] = x[i]
  <2>1. PICK y \in Logs : /\ y = img \o x /\ Len(y) = Len(img) + Len(x)
                          /\ \A i \in 1..Len(img) : y[i] = img[i]
                          /\ \A i \in 1..Len(x) : y[Len(img) + i] = x[i]
    BY ConcatFacts
  <2> QED BY <1>b, <2>1
<1>6. Len(x) \in Nat
  BY LogFacts
<1>7. Agree(img2, img, k)
  BY <1>5, <1>6, <1>b DEF Agree
<1>i. image' = [image EXCEPT ![n] = img2] /\ image'[n] = img2 /\ \A p \in Server \ {n} : image'[p] = image[p]
  BY <1>1, <1>4, <1>5, <1>b DEF StateOK
<1>a. /\ applied' \in [Server -> Histories]
      /\ applied'[n].base = applied[n].base /\ applied'[n].term = applied[n].term
      /\ applied'[n].entries = applied[n].entries \o x /\ \A p \in Server \ {n} : applied'[p] = applied[p]
  <2>1. applied[n].entries \o x \in Logs
    BY <1>2, ConcatFacts DEF Histories
  <2> QED BY <1>1, <1>4, <2>1 DEF StateOK, Histories
<1>8. StateOK'
  BY <1>1, <1>a, <1>i DEF StateOK
<1>9. NodesOK' /\ MessagesOK'
  <2>1. NodeOK(log[n], applied'[n], snap[n], img2)
    BY <1>2, <1>5, <1>a, NodeExecutes
  <2> QED BY <1>1, <1>a, <1>i, <2>1 DEF NodesOK, MessagesOK
<1>10. whole' = whole
  <2>1. Whole(img2, log[n]) = Whole(img, log[n])
    BY <1>2, <1>7, <1>b, WholeExecutes
  <2> QED BY <1>1, <1>b, <1>i, <2>1, WholeUnchanged
<1>11. PICK Ld, Lg, A : RaftInv(Ld, Lg, A)
  BY <1>1 DEF History
<1>12. CommitInv(Ld, Lg, A)'
  <2>1. HistoryLogs(Ld, Lg, A) /\ \A p \in Server : NodeSafe(whole[p], image[p], commit[p], term[p], Ld, Lg, A)
    BY <1>11 DEF RaftInv, CommitInv
  <2>2. Agree(img, whole[n], k) /\ Safe(whole[n], c, term[n], Ld, Lg, A)
    BY <1>b, <2>1 DEF NodeSafe
  <2>3. ASSUME NEW i \in 1..c PROVE img2[i] = whole[n][i]
    <3>1. CASE i <= k
      BY <1>5, <2>2, <3>1 DEF Agree
    <3>2. CASE i > k
      <4>1. i - k \in 1..Len(x) /\ k + (i - k) = i
        BY <1>4, <1>6, <3>2
      <4> QED BY <1>4, <1>5, <4>1
    <3> QED BY <3>1, <3>2
  <2>4. Len(img2) = c /\ Agree(img2, whole[n], c)
    BY <1>2, <1>3, <1>4, <1>5, <2>3 DEF Agree
  <2>5. Safe(img2, c, term[n], Ld, Lg, A)
    <3>1. c <= c /\ term[n] \in Nat
      BY <1>1 DEF StateOK
    <3> QED BY <1>2, <2>1, <2>2, <2>4, <3>1, SafeAgrees
  <2>6. NodeSafe(whole[n], img2, c, term[n], Ld, Lg, A)
    BY <2>2, <2>4, <2>5 DEF NodeSafe
  <2> QED BY <1>1, <1>10, <1>b, <1>i, <2>1, <2>6 DEF CommitInv
<1>13. MessageInv(Ld, Lg, A)'
  BY <1>1, <1>11 DEF RaftInv, MessageInv
<1>14. /\ \A v \in Server : term[v] <= term'[v]
       /\ \A v \in Server : leads'[v] => leads[v] /\ term'[v] = term[v] /\ match'[v] = match[v]
  BY <1>1 DEF StateOK
<1>15. RaftInv(Ld, Lg, A)'
  BY <1>1, <1>8, <1>9, <1>10, <1>11, <1>12, <1>13, <1>14, StateFacts, StateFactsNext, RaftQuiet
<1> QED BY <1>7, <1>8, <1>9, <1>15, <1>b, <1>i DEF IInv, History

\* The snapshot that a node creates is all it has executed.
LEMMA SnapshotFacts ==
    ASSUME IInv, NEW n \in Server, LastApplied(n) > 0
    PROVE  LET s == NewSnapshot(n)
               i == Len(image[n])
           IN  /\ s \in Snapshots /\ IsSnapshot(s)
               /\ s.index = i /\ s.state = image[n] /\ s.term = image[n][i] /\ i > 0
               /\ i = LastApplied(n) /\ TermAt(log[n], LastApplied(n)) = image[n][i]
               /\ log[n].base <= i /\ i <= LastIndex(log[n])
               /\ Agree(image[n], whole[n], i) /\ Agree(image[n], image[n], i)
<1>1. StateOK /\ NodesOK
  BY DEF IInv
<1>2. PICK img \in Logs, i \in Nat : img = image[n] /\ i = Len(img)
  BY <1>1, LogFacts DEF StateOK
<1>3. LastApplied(n) = i /\ i > 0 /\ log[n].base <= i /\ log[n].base \in Nat /\ i <= LastIndex(log[n]) /\ Agree(img, whole[n], i)
  BY <1>1, <1>2, StateFacts, ImageInWhole
<1>4. TermAt(log[n], i) = img[i] /\ img[i] \in Nat
  <2>1. TermAt(log[n], i) = TermIn(whole[n], i)
    BY <1>1, <1>3, TermsAreWhole
  <2>2. i \in 1..i
    BY <1>3
  <2>3. whole[n][i] = img[i]
    BY <1>3, <2>2 DEF Agree
  <2>4. img[i] \in Nat
    BY <1>2, <2>2, LogFacts
  <2> QED BY <1>3, <2>1, <2>3, <2>4 DEF TermIn
<1>5. NewSnapshot(n) = [index |-> i, term |-> img[i], state |-> img]
  BY <1>2, <1>3, <1>4 DEF NewSnapshot
<1>6. Agree(img, img, i)
  <2>1. i <= Len(img)
    BY <1>2
  <2> QED BY <2>1, AgreeReflexive
<1>7. [index |-> i, term |-> img[i], state |-> img] \in Snapshots
  BY <1>4 DEF Snapshots
<1> DEFINE s == [index |-> i, term |-> img[i], state |-> img]
<1>8. s.index = i /\ s.term = img[i] /\ s.state = img
  OBVIOUS
<1> HIDE DEF s
<1>9. IsSnapshot(s)
  BY <1>2, <1>3, <1>7, <1>8 DEF IsSnapshot, s
<1> QED BY <1>2, <1>3, <1>4, <1>5, <1>6, <1>7, <1>8, <1>9 DEF s

LEMMA CreateStep ==
    ASSUME IInv, NEW n \in Server, Create(n)
    PROVE  IInv'
<1>1. /\ StateOK /\ NodesOK /\ LastApplied(n) > 0 /\ (CreateAfterCompact \/ log[n].base = 0)
      /\ snap' = [snap EXCEPT ![n] = NewSnapshot(n)]
      /\ UNCHANGED <<term, leads, log, commit, applied, image, match, msgs>>
  BY DEF IInv, Create
<1>2. PICK s \in Snapshots : /\ s = NewSnapshot(n) /\ IsSnapshot(s) /\ s.index = Len(image[n]) /\ s.state = image[n]
                             /\ log[n].base <= s.index /\ Agree(image[n], image[n], s.index)
  BY <1>1, SnapshotFacts
<1>3. snap' \in [Server -> Snapshots \cup {None}] /\ snap'[n] = s /\ \A p \in Server \ {n} : snap'[p] = snap[p]
  BY <1>1, <1>2 DEF StateOK
<1>4. StateOK'
  BY <1>1, <1>3 DEF StateOK
<1>n. s # None
  BY ConstantAssumption DEF Snapshots, Logs
<1>5. NodeOK(log[n], applied[n], s, image[n])
  <2>1. NodeOK(log[n], applied[n], snap[n], image[n]) /\ log[n].base \in Nat
    BY <1>1, StateFacts
  <2> QED BY <1>1, <1>2, <1>n, <2>1 DEF NodeOK
<1>6. NodesOK'
  BY <1>1, <1>3, <1>5 DEF NodesOK
<1> QED BY <1>1, <1>4, <1>6, StillStep

LEMMA CompactStep ==
    ASSUME IInv, NEW n \in Server, Compact(n)
    PROVE  IInv'
<1>1. /\ StateOK /\ NodesOK /\ LastApplied(n) > 0
      /\ snap' = [snap EXCEPT ![n] = NewSnapshot(n)]
      /\ log' = [log EXCEPT ![n] = CompactThrough(@, NewSnapshot(n).index)]
      /\ applied' = [applied EXCEPT ![n] = [base |-> NewSnapshot(n).index, term |-> NewSnapshot(n).term, entries |-> <<>>]]
      /\ UNCHANGED <<term, leads, commit, image, match, msgs>>
  BY DEF IInv, Compact
<1>2. PICK s \in Snapshots, i \in Nat, img \in Logs :
          /\ s = NewSnapshot(n) /\ IsSnapshot(s) /\ s.index = i /\ s.state = img /\ s.term = img[i]
          /\ img = image[n] /\ i = Len(img) /\ i > 0 /\ TermAt(log[n], i) = img[i]
          /\ log[n].base <= i /\ i <= LastIndex(log[n])
          /\ Agree(img, whole[n], i) /\ Agree(img, img, i)
  <2>1. image[n] \in Logs /\ Len(image[n]) \in Nat
    BY <1>1, StateFacts
  <2> QED BY <1>1, <2>1, SnapshotFacts
<1>3. img[i] \in Nat /\ log[n] \in LogViews /\ log[n].base \in Nat /\ log[n].base <= Len(img)
  BY <1>1, <1>2, StateFacts DEF Snapshots
<1>4. PICK l2 \in LogViews : /\ l2 = CompactThrough(log[n], i) /\ l2.base = i /\ l2.baseTerm = img[i]
                             /\ l2.entries = SuffixFrom(log[n], i + 1)
                             /\ Whole(img, l2) = Whole(img, log[n])
  <2> DEFINE l2 == [base |-> i, baseTerm |-> img[i], entries |-> SuffixFrom(log[n], i + 1)]
  <2>1. l2.base = i /\ l2.baseTerm = img[i] /\ l2.entries = SuffixFrom(log[n], i + 1)
    OBVIOUS
  <2>2. l2 = CompactThrough(log[n], i)
    BY <1>2 DEF CompactThrough
  <2>3. Whole(img, l2) = Whole(img, log[n]) /\ SuffixFrom(log[n], i + 1) \in Logs
    <3> HIDE DEF l2
    <3>1. Agree(img, Whole(img, log[n]), i)
      BY <1>2, WholeOf
    <3> QED BY <1>2, <1>3, <2>1, <3>1, WholeCut
  <2>4. l2 \in LogViews
    BY <1>3, <2>3 DEF LogViews
  <2> HIDE DEF l2
  <2> QED BY <2>1, <2>2, <2>3, <2>4
<1>5. PICK a2 \in Histories : /\ a2 = [base |-> NewSnapshot(n).index, term |-> NewSnapshot(n).term, entries |-> <<>>]
                              /\ a2.base = i /\ a2.term = img[i] /\ a2.entries = <<>>
  <2> DEFINE a2 == [base |-> i, term |-> img[i], entries |-> <<>>]
  <2>1. a2 \in Histories /\ a2.base = i /\ a2.term = img[i] /\ a2.entries = <<>>
    BY <1>3, EmptySeq DEF Histories, Logs
  <2>2. a2 = [base |-> NewSnapshot(n).index, term |-> NewSnapshot(n).term, entries |-> <<>>]
    BY <1>2
  <2> HIDE DEF a2
  <2> QED BY <2>1, <2>2
<1>6. /\ log' \in [Server -> LogViews] /\ applied' \in [Server -> Histories]
      /\ snap' \in [Server -> Snapshots \cup {None}]
      /\ log'[n] = l2 /\ applied'[n] = a2 /\ snap'[n] = s
      /\ \A p \in Server \ {n} : log'[p] = log[p] /\ applied'[p] = applied[p] /\ snap'[p] = snap[p]
  BY <1>1, <1>2, <1>4, <1>5 DEF StateOK
<1>7. StateOK'
  BY <1>1, <1>6 DEF StateOK
<1>n. s # None
  BY ConstantAssumption DEF Snapshots, Logs
<1>8. NodeOK(l2, a2, s, img)
  <2>1. Len(a2.entries) = 0
    BY <1>5, EmptySeq
  <2>2. i <= i /\ i + 0 = i
    OBVIOUS
  <2> QED BY <1>2, <1>4, <1>5, <1>n, <2>1, <2>2 DEF NodeOK
<1>9. NodesOK'
  BY <1>1, <1>2, <1>6, <1>8 DEF NodesOK
<1>10. \A p \in Server : Whole(image'[p], log'[p]) = Whole(image[p], log[p])
  BY <1>1, <1>2, <1>4, <1>6
<1> QED BY <1>1, <1>7, <1>9, <1>10, StillStep

-----------------------------------------------------------------------------
(* A leader and its follower *)

\* A commit index that a leader advances to covers what a majority has acknowledged.
LEMMA AdvancedIsSafe ==
    ASSUME IInv, NEW Ld, NEW Lg, NEW A, RaftInv(Ld, Lg, A), NEW l \in Server, leads[l],
           NEW matched \in [Server -> Nat],
           NEW A2, HistoryLogs(Ld, Lg, A2), Grows(Ld, Lg, A, Ld, Lg, A2),
           \A p \in Server \ {l} : matched[p] <= A2[p][term[l]]
    PROVE  /\ AdvancedCommitIndex(l, matched) \in Nat
           /\ Safe(whole[l], AdvancedCommitIndex(l, matched), term[l], Ld, Lg, A2)
<1>x. HistoryLogs(Ld, Lg, A) /\ LeaderInv(Ld, Lg) /\ AckInv(Ld, Lg, A) /\ CommitInv(Ld, Lg, A)
  BY DEF RaftInv
<1>s. StateOK /\ NodesOK
  BY DEF IInv
<1>t. PICK t \in Nat, lg \in Logs, c \in Nat : t = term[l] /\ lg = whole[l] /\ c = commit[l]
  BY <1>s, StateFacts DEF StateOK
<1>1. Ld[t] = l /\ Lg[t] = lg /\ l # None /\ A[l][t] = Len(lg)
  BY <1>t, <1>x, ConstantAssumption DEF LeaderInv, AckInv
<1> DEFINE held == {i \in log[l].base + 1..LastIndex(log[l]) :
                       /\ i > commit[l]
                       /\ TermAt(log[l], i) = term[l]
                       /\ IsQuorum({l} \cup {p \in Server : matched[p] >= i})}
<1>2. CASE held = {}
  <2>1. AdvancedCommitIndex(l, matched) = c
    BY <1>2, <1>t DEF AdvancedCommitIndex
  <2>2. Safe(lg, c, t, Ld, Lg, A) /\ t <= t
    BY <1>t, <1>x DEF CommitInv, NodeSafe
  <2>3. Safe(lg, c, t, Ld, Lg, A2)
    BY <1>x, <2>2, SafeGrows
  <2> QED BY <1>t, <2>1, <2>3
<1>3. CASE held # {}
  <2>b. /\ log[l].base \in Nat /\ LastIndex(log[l]) \in Nat /\ Len(lg) = LastIndex(log[l])
    BY <1>s, <1>t, StateFacts
  <2>1. PICK i \in held : AdvancedCommitIndex(l, matched) = i
    <3>1. AdvancedCommitIndex(l, matched) = Max(held)
      BY <1>3 DEF AdvancedCommitIndex
    <3>2. held \in SUBSET Nat /\ \A y \in held : y <= LastIndex(log[l])
      BY <2>b
    <3> HIDE DEF held
    <3>3. \E x \in held : \A y \in held : x >= y
      <4>1. PICK x \in held : \A y \in held : y <= x
        BY <1>3, <2>b, <3>2, Greatest
      <4> QED BY <3>2, <4>1
    <3>4. Max(held) \in held
      BY <3>3 DEF Max
    <3> QED BY <3>1, <3>4
  <2>2. /\ i \in Nat /\ i >= log[l].base /\ i > 0 /\ i <= LastIndex(log[l]) /\ TermAt(log[l], i) = t
        /\ IsQuorum({l} \cup {p \in Server : matched[p] >= i})
    BY <1>t, <2>b
  <2> HIDE DEF held
  <2>3. lg[i] = t
    <3>1. TermAt(log[l], i) = TermIn(lg, i)
      BY <1>s, <1>t, <2>2, TermsAreWhole
    <3> QED BY <2>2, <3>1 DEF TermIn
  <2>4. i \in 1..Len(Lg[t]) /\ Lg[t][i] = t
    BY <1>1, <2>2, <2>3, <2>b
  <2>5. {l} \cup {p \in Server : matched[p] >= i} \subseteq {v \in Server : A2[v][t] >= i}
    <3>1. \A v \in Server : A2[v][t] \in Nat /\ A[v][t] \in Nat /\ A[v][t] <= A2[v][t]
      <4>1. \A v \in Server : A2[v][t] \in Nat /\ A[v][t] \in Nat
        BY <1>x DEF HistoryLogs
      <4>2. \A v \in Server : A[v][t] <= A2[v][t]
        BY <1>x DEF Grows
      <4> QED BY <4>1, <4>2
    <3>2. A2[l][t] >= i
      BY <1>1, <2>2, <2>b, <3>1
    <3>3. ASSUME NEW p \in Server \ {l}, matched[p] >= i PROVE A2[p][t] >= i
      <4>1. matched[p] <= A2[p][t] /\ matched[p] \in Nat
        BY <1>t
      <4> QED BY <2>2, <3>1, <3>3, <4>1
    <3> QED BY <3>2, <3>3
  <2>6. IsQuorum({v \in Server : A2[v][t] >= i})
    <3>1. {l} \cup {p \in Server : matched[p] >= i} \in SUBSET Server
      OBVIOUS
    <3>2. {v \in Server : A2[v][t] >= i} \in SUBSET Server
      OBVIOUS
    <3> QED BY <2>2, <2>5, <3>1, <3>2, QuorumGrows
  <2>7. Committed(Ld, Lg, A2, t, i)
    BY <1>1, <2>4, <2>6 DEF Committed
  <2>8. Agree(lg, Lg[t], i)
    BY <1>1, <2>2, <2>b, AgreeReflexive
  <2>9. t <= t /\ i <= i
    BY <2>2
  <2>10. Safe(lg, i, t, Ld, Lg, A2)
    BY <2>2, <2>7, <2>8, <2>9 DEF Safe
  <2> QED BY <1>t, <2>1, <2>2, <2>10
<1> QED BY <1>2, <1>3

\* The leader learns of an acknowledgement, or not.
LEMMA Acknowledged ==
    ASSUME IInv, NEW m \in msgs, NEW n \in Server, m.dst = n, NEW k \in Nat, NEW upto \in Nat,
           Acknowledge(m, k, upto), Follow(n, m),
           NEW Ld, NEW Lg, NEW A, RaftInv(Ld, Lg, A)
    PROVE  /\ commit' \in [Server -> Nat] /\ match' \in [Server -> [Server -> Nat]]
           /\ commit'[n] = commit[n] \/ commit'[n] = upto
           /\ \A A2 : /\ Acknowledges(n, m.term, k, A, A2)
                      /\ HistoryLogs(Ld, Lg, A2) /\ Grows(Ld, Lg, A, Ld, Lg, A2)
                => /\ MatchInv(A2)'
                   /\ \A p \in Server \ {n} : Safe(whole[p], commit'[p], term[p], Ld, Lg, A2)
<1>s. StateOK /\ NodesOK /\ MessagesOK
  BY DEF IInv
<1>m. PICK t \in Nat, l \in Server : t = m.term /\ l = m.src /\ l # n
  BY <1>s DEF MessagesOK, IsMessage, RaftInv, MessageInv, MessageTrue
<1>f. /\ term' = [term EXCEPT ![n] = t] /\ leads' = [leads EXCEPT ![n] = FALSE]
  BY <1>m DEF Follow
<1>c. \A p \in Server : term[p] \in Nat /\ commit[p] \in Nat /\ match[p] \in [Server -> Nat] /\ whole[p] \in Logs
  BY <1>s, StateFacts DEF StateOK
<1>x. HistoryLogs(Ld, Lg, A) /\ MatchInv(A) /\ CommitInv(Ld, Lg, A)
  BY DEF RaftInv
<1>u. \A p \in Server \ {n} : term'[p] = term[p] /\ (leads'[p] <=> leads[p])
  BY <1>f, <1>s DEF StateOK
<1>d. ~leads'[n]
  BY <1>f, <1>s DEF StateOK
\* what an acknowledgement leaves in place
<1>a. ASSUME NEW A2, Acknowledges(n, t, k, A, A2), HistoryLogs(Ld, Lg, A2), Grows(Ld, Lg, A, Ld, Lg, A2)
      PROVE  /\ \A p \in Server : Safe(whole[p], commit[p], term[p], Ld, Lg, A2)
             /\ \A p, q \in Server : leads[p] /\ q # p => match[p][q] <= A2[q][term[p]]
             /\ k <= A2[n][t]
  <2>1. \A p \in Server, i \in Nat : A[p][i] \in Nat /\ A2[p][i] \in Nat /\ A[p][i] <= A2[p][i]
    <3>1. \A p \in Server, i \in Nat : A[p][i] \in Nat /\ A2[p][i] \in Nat
      BY <1>a, <1>x DEF HistoryLogs
    <3>2. \A p \in Server, i \in Nat : A[p][i] <= A2[p][i]
      BY <1>a DEF Grows
    <3> QED BY <3>1, <3>2
  <2>2. ASSUME NEW p \in Server PROVE Safe(whole[p], commit[p], term[p], Ld, Lg, A2)
    <3>1. Safe(whole[p], commit[p], term[p], Ld, Lg, A) /\ term[p] <= term[p]
      BY <1>c, <1>x DEF CommitInv, NodeSafe
    <3> QED BY <1>a, <1>c, <1>x, <3>1, SafeGrows
  <2>3. ASSUME NEW p \in Server, NEW q \in Server, leads[p], q # p PROVE match[p][q] <= A2[q][term[p]]
    <3>1. match[p][q] <= A[q][term[p]]
      BY <1>x, <2>3 DEF MatchInv
    <3> QED BY <1>c, <2>1, <3>1
  <2>4. k <= A2[n][t]
    BY <1>a, <2>1 DEF Acknowledges
  <2> QED BY <2>2, <2>3, <2>4
<1> DEFINE matched == [match[l] EXCEPT ![n] = IF k > @ THEN k ELSE @]
           follower == [commit EXCEPT ![n] = IF upto > @ THEN upto ELSE @]
<1>1. /\ matched \in [Server -> Nat] /\ \A q \in Server \ {n} : matched[q] = match[l][q]
      /\ matched[n] = match[l][n] \/ matched[n] = k
  BY <1>c
<1>2. /\ follower \in [Server -> Nat] /\ \A q \in Server \ {n} : follower[q] = commit[q]
      /\ follower[n] = commit[n] \/ follower[n] = upto
  BY <1>s DEF StateOK
<1>3. \/ commit' = follower /\ UNCHANGED match
      \/ /\ leads[l] /\ term[l] = t
         /\ match' = [match EXCEPT ![l] = matched]
         /\ commit' = [follower EXCEPT ![l] = AdvancedCommitIndex(l, matched)]
  BY <1>m DEF Acknowledge
<1> HIDE DEF matched, follower
<1>4. CASE commit' = follower /\ UNCHANGED match
  <2>1. match' \in [Server -> [Server -> Nat]]
    BY <1>4, <1>s DEF StateOK
  <2>2. ASSUME NEW A2, Acknowledges(n, m.term, k, A, A2), HistoryLogs(Ld, Lg, A2), Grows(Ld, Lg, A, Ld, Lg, A2)
        PROVE  MatchInv(A2)' /\ \A p \in Server \ {n} : Safe(whole[p], commit'[p], term[p], Ld, Lg, A2)
    <3>1. /\ \A p \in Server : Safe(whole[p], commit[p], term[p], Ld, Lg, A2)
          /\ \A p, q \in Server : leads[p] /\ q # p => match[p][q] <= A2[q][term[p]]
      BY <1>a, <1>m, <2>2
    <3>2. MatchInv(A2)'
      BY <1>4, <1>d, <1>u, <3>1 DEF MatchInv
    <3> QED BY <1>2, <1>4, <3>1, <3>2
  <2> QED BY <1>2, <1>4, <2>1, <2>2
<1>5. CASE /\ leads[l] /\ term[l] = t
           /\ match' = [match EXCEPT ![l] = matched]
           /\ commit' = [follower EXCEPT ![l] = AdvancedCommitIndex(l, matched)]
  <2>1. /\ match' \in [Server -> [Server -> Nat]] /\ match'[l] = matched
        /\ \A p \in Server \ {l} : match'[p] = match[p]
    BY <1>1, <1>5, <1>s DEF StateOK
  <2>2. ASSUME NEW A2, Acknowledges(n, t, k, A, A2), HistoryLogs(Ld, Lg, A2), Grows(Ld, Lg, A, Ld, Lg, A2)
        PROVE  /\ AdvancedCommitIndex(l, matched) \in Nat
               /\ MatchInv(A2)' /\ \A p \in Server \ {n} : Safe(whole[p], commit'[p], term[p], Ld, Lg, A2)
    <3>1. /\ \A p \in Server : Safe(whole[p], commit[p], term[p], Ld, Lg, A2)
          /\ \A p, q \in Server : leads[p] /\ q # p => match[p][q] <= A2[q][term[p]]
          /\ k <= A2[n][t]
      BY <1>a, <2>2
    <3>2. \A q \in Server \ {l} : matched[q] <= A2[q][t]
      BY <1>1, <1>5, <3>1
    <3>3. MatchInv(A2)'
      <4> SUFFICES ASSUME NEW p \in Server, NEW q \in Server, leads'[p], q # p
                   PROVE  match'[p][q] <= A2[q][term'[p]]
        BY DEF MatchInv
      <4>1. p # n /\ leads[p] /\ term'[p] = term[p]
        BY <1>d, <1>u
      <4>2. CASE p = l
        BY <1>5, <2>1, <3>2, <4>1, <4>2
      <4>3. CASE p # l
        BY <2>1, <3>1, <4>1, <4>3
      <4> QED BY <4>2, <4>3
    <3>4. /\ AdvancedCommitIndex(l, matched) \in Nat
          /\ Safe(whole[l], AdvancedCommitIndex(l, matched), term[l], Ld, Lg, A2)
      BY <1>1, <1>5, <2>2, <3>2, AdvancedIsSafe
    <3>5. ASSUME NEW p \in Server \ {n} PROVE Safe(whole[p], commit'[p], term[p], Ld, Lg, A2)
      <4>1. CASE p = l
        BY <1>2, <1>5, <3>4, <4>1
      <4>2. CASE p # l
        BY <1>2, <1>5, <3>1, <4>2
      <4> QED BY <4>1, <4>2
    <3> QED BY <3>3, <3>4, <3>5
  <2>3. AdvancedCommitIndex(l, matched) \in Nat
    \* A itself, once n has acknowledged
    <3>1. \A q \in Server : A[q][t] \in Nat
      BY <1>x DEF HistoryLogs
    <3>2. PICK A2 : Acknowledges(n, t, k, A, A2)
      BY <1>x, AcknowledgeMore DEF HistoryLogs
    <3>3. HistoryLogs(Ld, Lg, A2)
      BY <1>x, <3>2 DEF HistoryLogs, Acknowledges
    <3>4. Grows(Ld, Lg, A, Ld, Lg, A2)
      <4>1. Grows(Ld, Lg, A, Ld, Lg, A)
        BY <1>x, GrowsReflexive
      <4>2. ASSUME NEW v \in Server, NEW u \in Nat PROVE A[v][u] <= A2[v][u]
        <5>1. A[v][u] \in Nat /\ (u # t \/ v # n => A2[v][u] = A[v][u]) /\ A2[n][t] = IF k > A[n][t] THEN k ELSE A[n][t]
          BY <1>x, <3>2 DEF HistoryLogs, Acknowledges
        <5> QED BY <3>1, <5>1
      <4> QED BY <4>1, <4>2 DEF Grows
    <3> QED BY <2>2, <3>2, <3>3, <3>4
  <2>4. commit' \in [Server -> Nat] /\ commit'[n] = follower[n]
    BY <1>2, <1>5, <1>m, <2>3
  <2> QED BY <1>2, <1>m, <2>1, <2>2, <2>4
<1> QED BY <1>3, <1>4, <1>5

\* A follower takes over entries or a snapshot of its leader and acknowledges k.
LEMMA AcceptStep ==
    ASSUME IInv, NEW m \in msgs, NEW n \in Server, m.dst = n, NEW k \in Nat, NEW upto \in Nat,
           Acknowledge(m, k, upto), Follow(n, m), msgs' \in Taken(m),
           NodesOK', log' \in [Server -> LogViews], applied' \in [Server -> Histories],
           snap' \in [Server -> Snapshots \cup {None}], image' \in [Server -> Logs],
           \A p \in Server \ {n} : log'[p] = log[p] /\ image'[p] = image[p],
           \A Ld, Lg, A : RaftInv(Ld, Lg, A) =>
               /\ Agree(whole'[n], Lg[m.term], k)
               /\ \A i \in Nat : Agree(whole[n], Lg[m.term], i) => Agree(whole'[n], Lg[m.term], i)
               /\ whole'[n] = whole[n] \/ Len(whole'[n]) = k
               /\ \/ image'[n] = image[n]
                  \/ /\ Safe(image'[n], Len(image'[n]), m.term, Ld, Lg, A)
                     /\ Agree(image'[n], whole'[n], Len(image'[n]))
               /\ upto <= k /\ Safe(Lg[m.term], upto, m.term, Ld, Lg, A)
    PROVE  IInv'
<1>s. StateOK /\ NodesOK /\ MessagesOK /\ History
  BY DEF IInv
<1>h. PICK Ld, Lg, A : RaftInv(Ld, Lg, A)
  BY <1>s DEF History
<1>m. PICK t \in Nat : t = m.term /\ Ld[t] # None
  BY <1>h, <1>s, ConstantAssumption DEF MessagesOK, IsMessage, RaftInv, MessageInv, MessageTrue
<1>f. /\ term[n] <= t /\ term' = [term EXCEPT ![n] = t] /\ leads' = [leads EXCEPT ![n] = FALSE]
  BY <1>m, <1>s DEF Follow, StateOK
<1>q. msgs' \subseteq msgs
  BY DEF Taken
<1>1. /\ commit' \in [Server -> Nat] /\ match' \in [Server -> [Server -> Nat]]
      /\ commit'[n] = commit[n] \/ commit'[n] = upto
      /\ \A A2 : Acknowledges(n, t, k, A, A2) /\ HistoryLogs(Ld, Lg, A2) /\ Grows(Ld, Lg, A, Ld, Lg, A2)
              => /\ MatchInv(A2)'
                 /\ \A p \in Server \ {n} : Safe(whole[p], commit'[p], term[p], Ld, Lg, A2)
  <2>1. /\ commit' \in [Server -> Nat] /\ match' \in [Server -> [Server -> Nat]]
        /\ commit'[n] = commit[n] \/ commit'[n] = upto
        /\ \A A2 : /\ Acknowledges(n, m.term, k, A, A2)
                   /\ HistoryLogs(Ld, Lg, A2) /\ Grows(Ld, Lg, A, Ld, Lg, A2)
                => /\ MatchInv(A2)'
                   /\ \A p \in Server \ {n} : Safe(whole[p], commit'[p], term[p], Ld, Lg, A2)
    BY <1>h, Acknowledged
  <2> QED BY <1>m, <2>1
<1>2. StateOK'
  BY <1>1, <1>f, <1>s DEF StateOK
<1>3. MessagesOK'
  BY <1>q, <1>s DEF MessagesOK
<1>4. RaftOK /\ RaftOK'
  BY <1>2, <1>s, StateFacts, StateFactsNext
<1>5. term'[n] = t /\ ~leads'[n] /\ \A p \in Server \ {n} : term'[p] = term[p] /\ leads'[p] = leads[p]
  BY <1>f, <1>s DEF StateOK
<1>6. \A p \in Server \ {n} : whole'[p] = whole[p]
  BY WholeOf
<1>7. \A p \in Server \ {n} :
          term'[p] = term[p] /\ leads'[p] = leads[p] /\ whole'[p] = whole[p] /\ image'[p] = image[p]
  BY <1>5, <1>6
<1>8. /\ Agree(whole'[n], Lg[t], k)
      /\ \A i \in Nat : Agree(whole[n], Lg[t], i) => Agree(whole'[n], Lg[t], i)
      /\ whole'[n] = whole[n] \/ Len(whole'[n]) = k
      /\ \/ image'[n] = image[n]
         \/ Safe(image'[n], Len(image'[n]), t, Ld, Lg, A) /\ Agree(image'[n], whole'[n], Len(image'[n]))
      /\ upto <= k /\ Safe(Lg[t], upto, t, Ld, Lg, A)
  BY <1>h, <1>m
<1>9. \/ commit'[n] = commit[n]
      \/ commit'[n] <= k /\ Safe(Lg[t], commit'[n], t, Ld, Lg, A)
  BY <1>1, <1>8
<1>10. \E A2 : Grows(Ld, Lg, A, Ld, Lg, A2) /\ RaftInv(Ld, Lg, A2)'
  BY <1>1, <1>4, <1>5, <1>7, <1>8, <1>9, <1>f, <1>h, <1>m, <1>q, <1>s, RaftAccepts
<1> QED BY <1>2, <1>3, <1>10 DEF IInv, History

-----------------------------------------------------------------------------
(* AppendEntries and InstallSnapshot *)

\* Where the term at i is the one of a log on record, the two agree up to i.
LEMMA HeadersAgree ==
    ASSUME StateOK, NodesOK, NEW Ld, NEW Lg, NEW A, RaftInv(Ld, Lg, A), NEW n \in Server,
           NEW L \in Logs, Good(L, Ld, Lg), NEW i \in Nat, i <= Len(L),
           PrefixMatches(log[n], i, TermIn(L, i))
    PROVE  Agree(whole[n], L, i)
<1>x. HistoryLogs(Ld, Lg, A) /\ LogInv(Ld, Lg)
  BY DEF RaftInv
<1>1. i >= log[n].base /\ i <= LastIndex(log[n]) /\ TermAt(log[n], i) = TermIn(L, i)
  BY DEF PrefixMatches
<1>2. PICK lg \in Logs : lg = whole[n] /\ Len(lg) = LastIndex(log[n])
  BY StateFacts
<1>3. Good(lg, Ld, Lg)
  BY <1>2, <1>x DEF LogInv
<1>4. TermIn(lg, i) = TermIn(L, i)
  BY <1>1, <1>2, TermsAreWhole
<1>5. CASE i = 0
  <2>1. Len(lg) \in Nat /\ Len(L) \in Nat
    BY LogFacts
  <2> QED BY <1>2, <1>5, <2>1 DEF Agree
<1>6. CASE i > 0
  <2>1. i \in 1..Len(lg) /\ lg[i] = L[i]
    BY <1>1, <1>2, <1>4, <1>6 DEF TermIn
  <2>2. Agree(lg, L, i)
    BY <1>3, <1>x, <2>1, GoodLogsMatch
  <2> QED BY <1>2, <2>2
<1> QED BY <1>5, <1>6

LEMMA AcceptAppendEntries ==
    ASSUME IInv, NEW m \in msgs, NEW n \in Server, m.dst = n, m.type = "AppendEntries", Follow(n, m),
           PrefixMatches(log[n], m.prev, m.prevTerm),
           log' = [log EXCEPT ![n] = MergeAfter(@, m.prev, m.entries)],
           LET index == m.prev + Len(m.entries)
           IN  Acknowledge(m, index, IF m.commit < index THEN m.commit ELSE index),
           msgs' \in Taken(m), UNCHANGED <<applied, image, snap>>
    PROVE  IInv'
<1>1. StateOK /\ NodesOK /\ MessagesOK
  BY DEF IInv
<1>m. PICK prev \in Nat, entries \in Logs, c \in Nat, t \in Nat :
          prev = m.prev /\ entries = m.entries /\ c = m.commit /\ t = m.term
  BY <1>1 DEF MessagesOK, IsMessage
<1>k. PICK k \in Nat, upto \in Nat :
          /\ k = prev + Len(entries) /\ upto = IF c < k THEN c ELSE k
          /\ upto <= k /\ upto <= c
  <2>1. prev + Len(entries) \in Nat
    BY LogFacts
  <2> DEFINE k == prev + Len(entries)
             upto == IF c < k THEN c ELSE k
  <2>2. k \in Nat /\ upto \in Nat /\ upto <= k /\ upto <= c
    BY <2>1
  <2> QED BY <2>2
<1>a. Acknowledge(m, k, upto)
  BY <1>m, <1>k
<1>2. PICK l \in LogViews : /\ l = log[n] /\ NodeOK(l, applied[n], snap[n], image[n])
                            /\ l.base <= Len(image[n]) /\ image[n] \in Logs
                            /\ whole[n] = Whole(image[n], l) /\ Len(whole[n]) = LastIndex(l) /\ whole[n] \in Logs
  BY <1>1, StateFacts, WholeOf
<1>3. l.base <= prev /\ prev <= LastIndex(l)
  BY <1>2, <1>m DEF PrefixMatches
<1>4. PICK l2 \in LogViews : /\ l2 = MergeAfter(l, prev, entries) /\ l2.base = l.base /\ l2.baseTerm = l.baseTerm
                             /\ Whole(image[n], l2) = MergeIn(whole[n], prev, entries)
  BY <1>2, <1>3, WholeMerge
<1>5. log' \in [Server -> LogViews] /\ log'[n] = l2 /\ \A p \in Server \ {n} : log'[p] = log[p]
  BY <1>1, <1>2, <1>4, <1>m DEF StateOK
<1>6. NodesOK'
  <2>1. NodeOK(l2, applied[n], snap[n], image[n])
    BY <1>2, <1>4 DEF NodeOK
  <2> QED BY <1>1, <1>5, <2>1 DEF NodesOK
<1>7. whole'[n] = MergeIn(whole[n], prev, entries)
  BY <1>4, <1>5, WholeOf
<1>8. ASSUME NEW Ld, NEW Lg, NEW A, RaftInv(Ld, Lg, A)
      PROVE  /\ Agree(whole'[n], Lg[t], k)
             /\ \A i \in Nat : Agree(whole[n], Lg[t], i) => Agree(whole'[n], Lg[t], i)
             /\ whole'[n] = whole[n] \/ Len(whole'[n]) = k
             /\ upto <= k /\ Safe(Lg[t], upto, t, Ld, Lg, A)
  <2>x. HistoryLogs(Ld, Lg, A) /\ LogInv(Ld, Lg) /\ MessageTrue(m, Ld, Lg, A)
    BY <1>8 DEF RaftInv, MessageInv
  <2>1. PICK L \in Logs : L = Lg[t]
    BY <2>x DEF HistoryLogs
  <2>2. /\ Ld[t] # None /\ prev + Len(entries) <= Len(L)
        /\ \A j \in 1..Len(entries) : entries[j] = L[prev + j]
        /\ m.prevTerm = TermIn(L, prev) /\ Safe(L, c, t, Ld, Lg, A)
    BY <1>1, <1>m, <2>1, <2>x, ConstantAssumption DEF MessageTrue, AppendTrue, MessagesOK, IsMessage
  <2>3. Good(L, Ld, Lg)
    BY <2>1, <2>2, <2>x DEF LogInv
  <2>4. prev <= Len(L) /\ Len(L) \in Nat /\ prev <= Len(whole[n])
    BY <1>2, <1>3, <2>2, LogFacts
  <2>5. Agree(whole[n], L, prev)
    BY <1>1, <1>8, <1>m, <2>2, <2>3, <2>4, HeadersAgree
  <2>6. LET r == MergeIn(whole[n], prev, entries)
        IN  /\ Agree(r, L, prev + Len(entries))
            /\ \A i \in Nat : Agree(whole[n], L, i) => Agree(r, L, i)
            /\ r = whole[n] \/ Len(r) = prev + Len(entries)
    BY <1>2, <2>2, <2>4, <2>5, MergeFollowsLeader
  <2>7. upto <= Len(L)
    BY <1>k, <2>2, <2>4
  <2>8. Safe(L, upto, t, Ld, Lg, A)
    BY <1>k, <2>2, <2>7, <2>x, AgreeReflexive, SafeAgrees
  <2> QED BY <1>7, <1>k, <2>1, <2>6, <2>8
<1>9. /\ applied' \in [Server -> Histories] /\ snap' \in [Server -> Snapshots \cup {None}] /\ image' \in [Server -> Logs]
      /\ \A p \in Server : image'[p] = image[p]
  BY <1>1 DEF StateOK
<1> QED BY <1>5, <1>6, <1>8, <1>9, <1>a, <1>m, AcceptStep

\* A request that is answered without success leaves a node of the leader's term behind.
LEMMA FollowStep ==
    ASSUME IInv, NEW m \in msgs, NEW n \in Server, Follow(n, m), msgs' \in Taken(m),
           UNCHANGED <<log, commit, applied, image, snap, match>>
    PROVE  IInv'
<1>1. StateOK /\ NodesOK /\ MessagesOK /\ History
  BY DEF IInv
<1>2. PICK t \in Nat : /\ term[n] <= t /\ term' = [term EXCEPT ![n] = t] /\ leads' = [leads EXCEPT ![n] = FALSE]
  BY <1>1 DEF Follow, MessagesOK, IsMessage, StateOK
<1>q. msgs' \subseteq msgs
  BY DEF Taken
<1>3. StateOK' /\ NodesOK' /\ MessagesOK'
  <2>1. StateOK'
    BY <1>1, <1>2 DEF StateOK
  <2> QED BY <1>1, <1>q, <2>1 DEF NodesOK, MessagesOK
<1>4. whole' = whole
  BY WholeUnchanged
<1>5. /\ \A v \in Server : term[v] <= term'[v]
      /\ \A v \in Server : leads'[v] => leads[v] /\ term'[v] = term[v] /\ match'[v] = match[v]
      /\ \A v \in Server : commit'[v] = commit[v] \/ commit'[v] = 0
  <2>1. /\ \A v \in Server : term[v] \in Nat
        /\ term'[n] = t /\ ~leads'[n] /\ \A v \in Server \ {n} : term'[v] = term[v] /\ leads'[v] = leads[v]
    BY <1>1, <1>2 DEF StateOK
  <2>2. \A v \in Server : term[v] <= term'[v]
    BY <1>2, <2>1
  <2> QED BY <2>1, <2>2
<1>6. \A Ld, Lg, A : RaftInv(Ld, Lg, A) => RaftInv(Ld, Lg, A)'
  BY <1>1, <1>3, <1>4, <1>5, <1>q, Quiet
<1> QED BY <1>1, <1>3, <1>6 DEF IInv, History

LEMMA HandleAppendEntriesStep ==
    ASSUME IInv, NEW n \in Server, NEW m \in msgs, HandleAppendEntries(n, m)
    PROVE  IInv'
<1>1. m.type = "AppendEntries" /\ m.dst = n /\ Follow(n, m) /\ msgs' \in Taken(m) /\ UNCHANGED <<applied, image, snap>>
  BY DEF HandleAppendEntries
<1>2. CASE /\ PrefixMatches(log[n], m.prev, m.prevTerm)
           /\ log' = [log EXCEPT ![n] = MergeAfter(@, m.prev, m.entries)]
           /\ LET index == m.prev + Len(m.entries)
              IN  Acknowledge(m, index, IF m.commit < index THEN m.commit ELSE index)
  BY <1>1, <1>2, AcceptAppendEntries
<1>3. CASE UNCHANGED <<log, commit, match>>
  BY <1>1, <1>3, FollowStep
<1> QED BY <1>2, <1>3 DEF HandleAppendEntries

\* The log of every leader from now on has what a node has executed.
LEMMA ImageInLeader ==
    ASSUME IInv, NEW Ld, NEW Lg, NEW A, RaftInv(Ld, Lg, A), NEW n \in Server,
           NEW t \in Nat, term[n] <= t, Ld[t] # None
    PROVE  Agree(image[n], Lg[t], Len(image[n])) /\ Agree(whole[n], Lg[t], Len(image[n]))
<1>1. StateOK /\ NodesOK /\ RaftOK
  BY StateFacts DEF IInv
<1>x. HistoryLogs(Ld, Lg, A) /\ KeepInv(Ld, Lg, A) /\ CommitInv(Ld, Lg, A)
  BY DEF RaftInv
<1>2. PICK img \in Logs, w \in Logs, L \in Logs, i \in Nat, t0 \in Nat :
          img = image[n] /\ w = whole[n] /\ L = Lg[t] /\ i = Len(img) /\ t0 = term[n]
  BY <1>1, <1>x, LogFacts DEF RaftOK, HistoryLogs
<1>3. Safe(img, i, t0, Ld, Lg, A) /\ Agree(img, w, i)
  BY <1>2, <1>x DEF CommitInv, NodeSafe
<1>4. Agree(img, L, i)
  BY <1>1, <1>2, <1>3, <1>x, SafeIsInLeader
<1>5. Agree(w, L, i)
  <2>1. Agree(w, img, i) /\ i <= i
    BY <1>2, <1>3, AgreeSymmetric
  <2> QED BY <1>2, <1>4, <2>1, AgreeTransitive
<1> QED BY <1>2, <1>4, <1>5

LEMMA KeepSnapshot ==
    ASSUME IInv, NEW m \in msgs, NEW n \in Server, m.dst = n, m.type = "InstallSnapshot", Follow(n, m),
           HasSnapshot(n, m.snapshot), Acknowledge(m, m.snapshot.index, 0),
           msgs' \in Taken(m), UNCHANGED <<log, applied, image, snap>>
    PROVE  IInv'
<1>1. StateOK /\ NodesOK /\ MessagesOK
  BY DEF IInv
<1>m. PICK k \in Nat, t \in Nat : k = m.snapshot.index /\ t = m.term /\ IsSnapshot(m.snapshot)
  BY <1>1 DEF MessagesOK, IsMessage, IsSnapshot, Snapshots
<1>2. PICK img \in Logs, w \in Logs, i \in Nat : img = image[n] /\ w = whole[n] /\ i = Len(img)
  BY <1>1, StateFacts
<1>3. k <= i
  <2>1. snap[n] # None /\ snap[n].index >= k
    BY <1>m DEF HasSnapshot
  <2>2. IsSnapshot(snap[n]) /\ Agree(snap[n].state, img, snap[n].index)
    BY <1>1, <1>2, <2>1 DEF NodesOK, NodeOK
  <2>3. snap[n].index \in Nat /\ snap[n].index <= i
    BY <1>2, <2>2 DEF Agree, IsSnapshot, Snapshots
  <2> QED BY <2>1, <2>3
<1>4. whole'[n] = whole[n]
  BY WholeOf
<1>5. ASSUME NEW Ld, NEW Lg, NEW A, RaftInv(Ld, Lg, A)
      PROVE  Agree(whole'[n], Lg[t], k) /\ 0 <= k /\ Safe(Lg[t], 0, t, Ld, Lg, A)
  <2>x. HistoryLogs(Ld, Lg, A) /\ MessageTrue(m, Ld, Lg, A)
    BY <1>5 DEF RaftInv, MessageInv
  <2>1. Ld[t] # None
    BY <1>1, <1>m, <2>x, ConstantAssumption DEF MessageTrue, MessagesOK, IsMessage
  <2>2. PICK L \in Logs : L = Lg[t]
    BY <2>x DEF HistoryLogs
  <2>3. term[n] <= t
    BY <1>1, <1>m DEF Follow, StateOK
  <2>4. Agree(w, L, i)
    BY <1>2, <1>5, <2>1, <2>2, <2>3, ImageInLeader
  <2>5. Agree(w, L, k)
    BY <1>2, <1>3, <2>4, AgreeDown
  <2> QED BY <1>2, <1>4, <2>2, <2>5 DEF Safe
<1>6. /\ log' \in [Server -> LogViews] /\ applied' \in [Server -> Histories]
      /\ snap' \in [Server -> Snapshots \cup {None}] /\ image' \in [Server -> Logs]
      /\ \A p \in Server : log'[p] = log[p] /\ image'[p] = image[p]
  BY <1>1 DEF StateOK
<1>7. NodesOK'
  BY <1>1 DEF NodesOK
<1>8. Acknowledge(m, k, 0) /\ 0 \in Nat
  BY <1>m
<1> QED BY <1>4, <1>5, <1>6, <1>7, <1>8, <1>m, AcceptStep

\* A node right after it has installed a snapshot
LEMMA InstalledIsOK ==
    ASSUME NEW s \in Snapshots, IsSnapshot(s), NEW l2 \in LogViews, l2.base = s.index, l2.baseTerm = s.term
    PROVE  LET a == [base |-> s.index, term |-> s.term, entries |-> <<>>]
           IN  a \in Histories /\ NodeOK(l2, a, s, s.state) /\ s # None
<1>1. PICK k \in Nat, v \in Nat, img \in Logs :
          k = s.index /\ v = s.term /\ img = s.state /\ k > 0 /\ Len(img) = k /\ v = img[k]
  BY DEF Snapshots, IsSnapshot
<1> DEFINE a == [base |-> k, term |-> v, entries |-> <<>>]
<1>2. a \in Histories /\ a.base = k /\ a.term = v /\ Len(a.entries) = 0
  <2>1. <<>> \in Logs /\ Len(<<>>) = 0
    BY EmptySeq DEF Logs
  <2> QED BY <2>1 DEF Histories
<1> HIDE DEF a
<1>3. s # None
  BY ConstantAssumption DEF Snapshots, Logs
<1>4. Agree(img, img, k)
  BY <1>1, AgreeReflexive
<1>5. NodeOK(l2, a, s, img)
  BY <1>1, <1>2, <1>3, <1>4 DEF NodeOK
<1> QED BY <1>1, <1>2, <1>3, <1>5 DEF a

\* What install leaves behind: the suffix beyond the boundary, or nothing but the snapshot.
LEMMA InstalledWhole ==
    ASSUME NEW img \in Logs, NEW l \in LogViews, l.base <= Len(img),
           NEW s \in Snapshots, IsSnapshot(s), l.base <= s.index, NEW l2,
           l2 = [base |-> s.index, baseTerm |-> s.term,
                 entries |-> IF LastIndex(l) > s.index THEN SuffixFrom(l, s.index + 1) ELSE <<>>],
           LastIndex(l) > s.index => Agree(s.state, Whole(img, l), s.index)
    PROVE  /\ l2 \in LogViews
           /\ LastIndex(l) > s.index => Whole(s.state, l2) = Whole(img, l)
           /\ ~(LastIndex(l) > s.index) => Whole(s.state, l2) = s.state
<1>1. PICK k \in Nat, v \in Nat, st \in Logs : k = s.index /\ v = s.term /\ st = s.state /\ Len(st) = k
  BY DEF Snapshots, IsSnapshot
<1>2. LastIndex(l) \in Nat
  BY WholeFacts
<1>3. CASE LastIndex(l) > k
  <2>1. l2 = [base |-> k, baseTerm |-> v, entries |-> SuffixFrom(l, k + 1)]
    BY <1>1, <1>3
  <2>2. l2.base = k /\ l2.entries = SuffixFrom(l, k + 1)
    BY <2>1
  <2>3. Agree(st, Whole(img, l), k) /\ l.base <= k /\ k <= LastIndex(l)
    BY <1>1, <1>2, <1>3
  <2>4. Whole(st, l2) = Whole(img, l) /\ SuffixFrom(l, k + 1) \in Logs
    BY <2>2, <2>3, WholeCut
  <2>5. l2 \in LogViews
    BY <2>1, <2>4 DEF LogViews
  <2> QED BY <1>1, <1>3, <2>4, <2>5
<1>4. CASE ~(LastIndex(l) > k)
  <2>1. l2 = [base |-> k, baseTerm |-> v, entries |-> <<>>]
    BY <1>1, <1>4
  <2>2. l2.base = Len(st) /\ l2.entries = <<>>
    BY <1>1, <2>1
  <2>3. Whole(st, l2) = st
    BY <2>2, WholeOfImage
  <2>4. <<>> \in Logs
    BY DEF Logs
  <2>5. l2 \in LogViews
    BY <2>1, <2>4 DEF LogViews
  <2> QED BY <1>1, <1>4, <2>3, <2>5
<1> QED BY <1>1, <1>3, <1>4

LEMMA InstallStep ==
    ASSUME IInv, NEW m \in msgs, NEW n \in Server, m.dst = n, m.type = "InstallSnapshot", Follow(n, m),
           ~InstallIsRefused(n, m.snapshot), Install(n, m.snapshot),
           Acknowledge(m, m.snapshot.index, m.snapshot.index), msgs' \in Taken(m)
    PROVE  IInv' /\ Agree(image'[n], image[n], Len(image[n]))
<1>1. StateOK /\ NodesOK /\ MessagesOK /\ History
  BY DEF IInv
<1>m. PICK s \in Snapshots, k \in Nat, st \in Logs, t \in Nat :
          /\ s = m.snapshot /\ t = m.term /\ IsSnapshot(s)
          /\ k = s.index /\ st = s.state /\ Len(st) = k /\ k > 0 /\ s.term = st[k]
  BY <1>1 DEF MessagesOK, IsMessage, IsSnapshot, Snapshots
<1>2. PICK l \in LogViews, img \in Logs, w \in Logs, i \in Nat :
          /\ l = log[n] /\ img = image[n] /\ w = whole[n] /\ i = Len(img)
          /\ w = Whole(img, l) /\ l.base <= i /\ LastApplied(n) = i
          /\ Len(w) = LastIndex(l) /\ LastIndex(l) \in Nat /\ l.base \in Nat
  BY <1>1, StateFacts, WholeOf
<1>3. l.base <= k /\ i <= k /\ (LastIndex(l) > k => PrefixMatches(l, k, s.term))
  BY <1>2, <1>m DEF InstallIsRefused, SuffixConflicts
\* what the leader's log says of the snapshot and of the node
<1>4. ASSUME NEW Ld, NEW Lg, NEW A, RaftInv(Ld, Lg, A)
      PROVE  /\ Agree(st, Lg[t], k) /\ Agree(img, Lg[t], i) /\ Lg[t] \in Logs
             /\ Safe(st, k, t, Ld, Lg, A) /\ Safe(Lg[t], k, t, Ld, Lg, A)
             /\ LastIndex(l) > k => Agree(w, Lg[t], k)
  <2>x. HistoryLogs(Ld, Lg, A) /\ KeepInv(Ld, Lg, A) /\ LogInv(Ld, Lg) /\ MessageTrue(m, Ld, Lg, A)
    BY <1>4 DEF RaftInv, MessageInv
  <2>1. Ld[t] # None /\ Safe(st, k, t, Ld, Lg, A)
    BY <1>1, <1>m, <2>x, ConstantAssumption DEF MessageTrue, MessagesOK, IsMessage
  <2>2. PICK L \in Logs : L = Lg[t]
    BY <2>x DEF HistoryLogs
  <2>3. Agree(st, L, k)
    <3>1. RaftOK /\ t <= t
      BY <1>1, <1>m, StateFacts
    <3> QED BY <2>1, <2>2, <2>x, <3>1, SafeIsInLeader
  <2>4. Agree(img, L, i)
    <3>1. term[n] <= t
      BY <1>1, <1>m DEF Follow, StateOK
    <3> QED BY <1>2, <1>4, <2>1, <2>2, <3>1, ImageInLeader
  <2>5. Safe(L, k, t, Ld, Lg, A)
    <3>1. Agree(L, st, k) /\ k <= k
      BY <2>3, AgreeSymmetric
    <3> QED BY <2>1, <2>x, <3>1, SafeAgrees
  <2>6. ASSUME LastIndex(l) > k PROVE Agree(w, L, k)
    <3>1. Good(L, Ld, Lg)
      BY <2>1, <2>2, <2>x DEF LogInv
    <3>2. k <= Len(L) /\ st[k] = L[k]
      <4>1. k \in 1..k
        BY <1>m
      <4> QED BY <2>3, <4>1 DEF Agree
    <3>3. PrefixMatches(log[n], k, TermIn(L, k))
      BY <1>2, <1>3, <1>m, <2>6, <3>2 DEF TermIn
    <3> QED BY <1>1, <1>2, <1>4, <3>1, <3>2, <3>3, HeadersAgree
  <2> QED BY <2>1, <2>2, <2>3, <2>4, <2>5, <2>6
<1>h. PICK Ld, Lg, A : RaftInv(Ld, Lg, A)
  BY <1>1 DEF History
<1>5. /\ Agree(st, img, i)
      /\ LastIndex(l) > k => Agree(st, w, k)
  <2>1. PICK L \in Logs : /\ Agree(st, L, k) /\ Agree(img, L, i)
                          /\ LastIndex(l) > k => Agree(w, L, k)
    BY <1>4, <1>h
  <2>2. Agree(L, img, i) /\ i <= i /\ k <= k
    BY <2>1, AgreeSymmetric
  <2>3. Agree(st, img, i)
    BY <1>3, <2>1, <2>2, AgreeTransitive
  <2>4. ASSUME LastIndex(l) > k PROVE Agree(st, w, k)
    <3>1. Agree(L, w, k)
      BY <2>1, <2>4, AgreeSymmetric
    <3> QED BY <2>1, <2>2, <3>1, AgreeTransitive
  <2> QED BY <2>3, <2>4
<1> DEFINE l2 == Installed(n, s)
           a2 == [base |-> s.index, term |-> s.term, entries |-> <<>>]
<1>6. /\ l2 \in LogViews /\ l2.base = s.index /\ l2.baseTerm = s.term
      /\ LastIndex(l) > k => Whole(st, l2) = w
      /\ ~(LastIndex(l) > k) => Whole(st, l2) = st
  <2>1. l2 = [base |-> s.index, baseTerm |-> s.term,
              entries |-> IF LastIndex(l) > s.index THEN SuffixFrom(l, s.index + 1) ELSE <<>>]
    BY <1>2 DEF Installed
  <2>2. l.base <= Len(img) /\ l.base <= s.index /\ (LastIndex(l) > s.index => Agree(s.state, Whole(img, l), s.index))
    BY <1>2, <1>3, <1>5, <1>m
  <2> HIDE DEF l2
  <2>3. /\ l2 \in LogViews
        /\ LastIndex(l) > s.index => Whole(s.state, l2) = Whole(img, l)
        /\ ~(LastIndex(l) > s.index) => Whole(s.state, l2) = s.state
    BY <1>m, <2>1, <2>2, InstalledWhole
  <2>4. l2.base = s.index /\ l2.baseTerm = s.term
    BY <2>1
  <2> QED BY <1>2, <1>m, <2>3, <2>4
<1>7. /\ log' = [log EXCEPT ![n] = l2] /\ applied' = [applied EXCEPT ![n] = a2]
      /\ snap' = [snap EXCEPT ![n] = s] /\ image' = [image EXCEPT ![n] = st]
  BY <1>m DEF Install
<1> HIDE DEF l2
<1>8. a2 \in Histories /\ NodeOK(l2, a2, s, st)
  BY <1>6, <1>m, InstalledIsOK
<1> HIDE DEF a2
<1>9. /\ log' \in [Server -> LogViews] /\ applied' \in [Server -> Histories]
      /\ snap' \in [Server -> Snapshots \cup {None}] /\ image' \in [Server -> Logs]
      /\ log'[n] = l2 /\ applied'[n] = a2 /\ snap'[n] = s /\ image'[n] = st
      /\ \A p \in Server \ {n} : log'[p] = log[p] /\ applied'[p] = applied[p] /\ snap'[p] = snap[p] /\ image'[p] = image[p]
  BY <1>1, <1>6, <1>7, <1>8, <1>m DEF StateOK
<1>10. NodesOK'
  BY <1>1, <1>8, <1>9 DEF NodesOK
<1>11. whole'[n] = Whole(st, l2)
  BY <1>9, WholeOf
<1>12. ASSUME NEW Ld2, NEW Lg2, NEW A2, RaftInv(Ld2, Lg2, A2)
       PROVE  /\ Agree(whole'[n], Lg2[t], k)
              /\ \A j \in Nat : Agree(whole[n], Lg2[t], j) => Agree(whole'[n], Lg2[t], j)
              /\ whole'[n] = whole[n] \/ Len(whole'[n]) = k
              /\ Safe(image'[n], Len(image'[n]), t, Ld2, Lg2, A2) /\ Agree(image'[n], whole'[n], Len(image'[n]))
              /\ k <= k /\ Safe(Lg2[t], k, t, Ld2, Lg2, A2)
  <2>1. PICK L \in Logs : /\ L = Lg2[t] /\ Agree(st, L, k)
                          /\ Safe(st, k, t, Ld2, Lg2, A2) /\ Safe(L, k, t, Ld2, Lg2, A2)
                          /\ LastIndex(l) > k => Agree(w, L, k)
    BY <1>4, <1>12
  <2>2. Len(image'[n]) = k /\ image'[n] = st /\ k <= k
    BY <1>9, <1>m
  <2>3. CASE LastIndex(l) > k
    <3>1. whole'[n] = w
      BY <1>6, <1>11, <2>3
    <3> QED BY <1>2, <1>5, <2>1, <2>2, <2>3, <3>1
  <2>4. CASE ~(LastIndex(l) > k)
    <3>1. whole'[n] = st
      BY <1>6, <1>11, <2>4
    <3>2. Agree(st, st, k)
      BY <1>m, <2>2, AgreeReflexive
    <3>3. ASSUME NEW j \in Nat, Agree(w, L, j) PROVE Agree(st, L, j)
      <4>1. j <= k
        BY <1>2, <2>4, <3>3 DEF Agree
      <4> QED BY <2>1, <4>1, AgreeDown
    <3> QED BY <1>2, <1>m, <2>1, <2>2, <3>1, <3>2, <3>3
  <2> QED BY <2>3, <2>4
<1>13. Acknowledge(m, k, k)
  BY <1>m
<1>14. IInv'
  BY <1>9, <1>10, <1>12, <1>13, <1>m, AcceptStep
<1> QED BY <1>2, <1>5, <1>9, <1>14

LEMMA HandleInstallSnapshotStep ==
    ASSUME IInv, NEW n \in Server, NEW m \in msgs, HandleInstallSnapshot(n, m)
    PROVE  IInv' /\ (image' = image \/ Agree(image'[n], image[n], Len(image[n])))
<1>1. m.type = "InstallSnapshot" /\ m.dst = n /\ Follow(n, m) /\ msgs' \in Taken(m)
  BY DEF HandleInstallSnapshot
<1>2. CASE /\ HasSnapshot(n, m.snapshot) /\ UNCHANGED <<log, applied, image, snap>>
           /\ Acknowledge(m, m.snapshot.index, 0)
  BY <1>1, <1>2, KeepSnapshot
<1>3. CASE UNCHANGED <<log, applied, image, snap>> /\ UNCHANGED <<commit, match>>
  BY <1>1, <1>3, FollowStep
<1>4. CASE /\ ~InstallIsRefused(n, m.snapshot) /\ Install(n, m.snapshot)
           /\ Acknowledge(m, m.snapshot.index, m.snapshot.index)
  BY <1>1, <1>4, InstallStep
<1> QED BY <1>2, <1>3, <1>4 DEF HandleInstallSnapshot

-----------------------------------------------------------------------------
(* The invariant is inductive *)

LEMMA AgreeIsPrefix ==
    ASSUME NEW a \in Logs, NEW b \in Logs, Agree(b, a, Len(a))
    PROVE  IsPrefix(a, b)
<1>1. Len(a) \in Nat /\ Len(a) <= Len(b)
  BY LogFacts DEF Agree
<1>2. SubSeq(b, 1, Len(a)) = SubSeq(a, 1, Len(a))
  BY <1>1, PrefixesEqual
<1> QED BY <1>1, <1>2 DEF IsPrefix

\* A step either executes nothing, or one node executes more.
LEMMA StepIInv ==
    ASSUME IInv, [Next]_vars
    PROVE  IInv' /\ \A n \in Server : IsPrefix(image[n], image'[n])
<1> DEFINE More(n) == /\ \A p \in Server \ {n} : image'[p] = image[p]
                      /\ Agree(image'[n], image[n], Len(image[n]))
<1>s. StateOK
  BY DEF IInv
<1>1. ASSUME NEW n \in Server, ApplyCommitted(n) PROVE IInv' /\ More(n)
  <2>1. \A p \in Server \ {n} : image'[p] = image[p]
    BY <1>1, <1>s DEF ApplyCommitted, StateOK
  <2> QED BY <1>1, <2>1, ApplyCommittedStep
<1>2. ASSUME NEW n \in Server, NEW m \in msgs, HandleInstallSnapshot(n, m)
      PROVE  IInv' /\ (image' = image \/ More(n))
  <2>1. \A p \in Server \ {n} : image'[p] = image[p]
    BY <1>2, <1>s DEF HandleInstallSnapshot, Install, StateOK
  <2> QED BY <1>2, <2>1, HandleInstallSnapshotStep
<1>3. ASSUME NEW n \in Server, NEW S \in SUBSET (Server \ {n}), Elect(n, S)
      PROVE  IInv' /\ image' = image
  BY <1>3, ElectStep DEF Elect
<1>4. ASSUME NEW n \in Server, Crash(n) PROVE IInv' /\ image' = image
  BY <1>4, CrashStep DEF Crash
<1>5. ASSUME NEW n \in Server, AppendCommand(n) PROVE IInv' /\ image' = image
  BY <1>5, AppendCommandStep DEF AppendCommand
<1>6. ASSUME NEW n \in Server, NEW k \in Server, NEW next \in 1..LastIndex(log[n]) + 1, SendAppendEntries(n, k, next)
      PROVE  IInv' /\ image' = image
  BY <1>6, SendAppendEntriesStep DEF SendAppendEntries, nodeVars
<1>7. ASSUME NEW n \in Server, NEW k \in Server, SendInstallSnapshot(n, k) PROVE IInv' /\ image' = image
  BY <1>7, SendInstallSnapshotStep DEF SendInstallSnapshot, nodeVars
<1>8. ASSUME NEW n \in Server, Create(n) PROVE IInv' /\ image' = image
  BY <1>8, CreateStep DEF Create
<1>9. ASSUME NEW n \in Server, Compact(n) PROVE IInv' /\ image' = image
  BY <1>9, CompactStep DEF Compact
<1>10. ASSUME NEW n \in Server, NEW m \in msgs, HandleAppendEntries(n, m) PROVE IInv' /\ image' = image
  BY <1>10, HandleAppendEntriesStep DEF HandleAppendEntries
<1>11. ASSUME NEW n \in Server, NEW m \in msgs, RefuseOldTerm(n, m) PROVE IInv' /\ image' = image
  BY <1>11, RefuseOldTermStep DEF RefuseOldTerm
<1>12. ASSUME NEW m \in msgs, Lose(m) PROVE IInv' /\ image' = image
  BY <1>12, LoseStep DEF Lose, nodeVars
<1>13. ASSUME UNCHANGED vars PROVE IInv' /\ image' = image
  <2>1. UNCHANGED <<term, leads, log, commit, applied, image, snap, match, msgs>>
    BY <1>13 DEF vars, nodeVars
  <2>2. StateOK' /\ NodesOK' /\ msgs' \subseteq msgs
    BY <2>1 DEF IInv, StateOK, NodesOK
  <2> QED BY <2>1, <2>2, StillStep
<1>14. IInv' /\ (image' = image \/ \E n \in Server : More(n))
  <2> HIDE DEF More
  <2> QED BY <1>1, <1>2, <1>3, <1>4, <1>5, <1>6, <1>7, <1>8, <1>9, <1>10, <1>11, <1>12, <1>13 DEF Next
<1>15. ASSUME NEW n \in Server PROVE IsPrefix(image[n], image'[n])
  <2>1. image[n] \in Logs /\ image'[n] \in Logs
    BY <1>14, <1>s DEF IInv, StateOK
  <2>2. image'[n] = image[n] => Agree(image'[n], image[n], Len(image[n]))
    BY <2>1, LogFacts, AgreeReflexive
  <2>3. Agree(image'[n], image[n], Len(image[n]))
    BY <1>14, <2>2
  <2> QED BY <2>1, <2>3, AgreeIsPrefix
<1> QED BY <1>14, <1>15

LEMMA Invariant == Spec => []IInv
<1>1. IInv /\ [Next]_vars => IInv'
  BY StepIInv
<1> QED BY <1>1, InitIInv, PTL DEF Spec

-----------------------------------------------------------------------------
(* What it implies *)

LEMMA IInvMatch == IInv => MatchIndexIsTrue
<1> SUFFICES ASSUME IInv, NEW n \in Server, NEW k \in Server, leads[n], k # n,
                    \A p \in Server : term[p] <= term[n]
             PROVE  SubSeq(WholeLog(n), 1, match[n][k]) = SubSeq(WholeLog(k), 1, match[n][k])
  BY DEF MatchIndexIsTrue
<1>s. StateOK /\ NodesOK /\ History
  BY DEF IInv
<1>1. PICK a \in Logs, b \in Logs, t \in Nat, i \in Nat :
          a = whole[n] /\ b = whole[k] /\ t = term[n] /\ i = match[n][k] /\ term[k] \in Nat /\ term[k] <= t
  BY <1>s, StateFacts DEF StateOK
<1>h. PICK Ld, Lg, A : RaftInv(Ld, Lg, A)
  BY <1>s DEF History
<1>x. HistoryLogs(Ld, Lg, A) /\ LeaderInv(Ld, Lg) /\ AckInv(Ld, Lg, A) /\ MatchInv(A)
  BY <1>h DEF RaftInv
<1>2. PICK j \in Nat : j = A[k][t] /\ i <= j
  <2>1. match[n][k] <= A[k][term[n]]
    BY <1>x DEF MatchInv
  <2>2. A[k][t] \in Nat
    BY <1>x DEF HistoryLogs
  <2> QED BY <1>1, <2>1, <2>2
<1>3. Agree(a, b, i)
  <2>1. CASE j = 0
    <3>1. i = 0 /\ Len(a) \in Nat /\ Len(b) \in Nat
      BY <1>2, <2>1, LogFacts
    <3> QED BY <3>1 DEF Agree
  <2>2. CASE j > 0
    <3>1. t <= term[k] /\ (t = term[k] => Agree(b, Lg[t], j))
      BY <1>1, <1>2, <1>x, <2>2 DEF AckInv
    <3>2. a = Lg[t]
      BY <1>1, <1>x DEF LeaderInv
    <3>3. t = term[k]
      BY <1>1, <3>1
    <3>4. Agree(b, a, j)
      BY <3>1, <3>2, <3>3
    <3>5. Agree(b, a, i)
      BY <1>2, <3>4, AgreeDown
    <3> QED BY <3>5, AgreeSymmetric
  <2> QED BY <2>1, <2>2
<1>4. SubSeq(a, 1, i) = SubSeq(b, 1, i)
  BY <1>3, PrefixesEqual
<1>5. a = WholeLog(n) /\ b = WholeLog(k)
  BY <1>1 DEF whole
<1> QED BY <1>1, <1>4, <1>5

LEMMA HistoryIsValid ==
    ASSUME IInv, NEW n \in Server
    PROVE  AppliedHistoryIsValid(n)
<1>s. StateOK /\ NodesOK
  BY DEF IInv
<1>1. PICK base \in Nat, es \in Logs, img \in Logs, w \in Logs, k \in Nat, last \in Nat :
          /\ base = log[n].base /\ base = applied[n].base /\ es = applied[n].entries /\ img = image[n]
          /\ w = whole[n] /\ k = Len(img) /\ k = LastApplied(n) /\ last = LastIndex(log[n])
  BY <1>s, StateFacts DEF Histories
<1>2. /\ log[n] \in LogViews /\ NodeOK(log[n], applied[n], snap[n], img) /\ base <= k
      /\ w = Whole(img, log[n])
  BY <1>1, <1>s, StateFacts, WholeOf
<1>3. k = base + Len(es) /\ Len(es) \in Nat /\ (\A i \in 1..Len(es) : es[i] = img[base + i])
      /\ (base > 0 => log[n].baseTerm = applied[n].term)
  BY <1>1, <1>2, LogFacts DEF NodeOK
<1>4. Agree(img, w, k) /\ k <= last
  BY <1>1, ImageInWhole
<1>5. \A i \in base + 1..last : w[i] = EntryAt(log[n], i)
  <2>1. base <= Len(img) /\ log[n].base = base /\ LastIndex(log[n]) = last
    BY <1>1, <1>2
  <2>2. \A i \in log[n].base + 1..LastIndex(log[n]) : Whole(img, log[n])[i] = EntryAt(log[n], i)
    BY <1>2, <2>1, WholeFacts
  <2> QED BY <1>2, <2>1, <2>2
<1>6. ASSUME NEW i \in base + 1..k PROVE es[i - base] = EntryAt(log[n], i)
  <2>1. PICK j \in Nat : j = i - base /\ i = base + j /\ j \in 1..Len(es) /\ i \in 1..k /\ i \in base + 1..last
    <3>1. i - base \in Nat /\ i = base + (i - base) /\ (i - base) \in 1..Len(es) /\ i \in 1..k /\ i \in base + 1..last
      BY <1>3, <1>4
    <3> QED BY <3>1
  <2>2. es[j] = img[base + j] /\ img[i] = w[i] /\ w[i] = EntryAt(log[n], i)
    BY <1>3, <1>4, <1>5, <2>1 DEF Agree
  <2> QED BY <2>1, <2>2
<1> QED BY <1>1, <1>3, <1>4, <1>6 DEF AppliedHistoryIsValid

LEMMA SnapshotValid ==
    ASSUME IInv, ~CreateAfterCompact, NEW n \in Server
    PROVE  SnapshotIsValid(n) /\ Rebuilt(n) = image[n]
<1>s. StateOK /\ NodesOK
  BY DEF IInv
<1>1. PICK base \in Nat, es \in Logs, img \in Logs :
          /\ base = log[n].base /\ base = applied[n].base /\ es = applied[n].entries /\ img = image[n]
          /\ NodeOK(log[n], applied[n], snap[n], img)
  BY <1>s, StateFacts DEF Histories
<1>2. /\ Len(img) = base + Len(es) /\ Len(es) \in Nat /\ Len(img) \in Nat
      /\ \A i \in 1..Len(es) : es[i] = img[base + i]
      /\ base > 0 => applied[n].term = img[base] /\ snap[n] # None /\ snap[n].index = base
      /\ snap[n] # None => IsSnapshot(snap[n]) /\ Agree(snap[n].state, img, snap[n].index)
  BY <1>1, LogFacts DEF NodeOK
<1>3. ASSUME snap[n] # None
      PROVE  \E k \in Nat, st \in Logs : /\ k = snap[n].index /\ st = snap[n].state /\ Len(st) = k /\ Agree(st, img, k)
                                         /\ k > 0 /\ snap[n].term = img[k]
  <2>1. PICK k \in Nat, st \in Logs : /\ k = snap[n].index /\ st = snap[n].state /\ Len(st) = k /\ Agree(st, img, k)
                                      /\ k > 0 /\ snap[n].term = st[k]
    BY <1>2, <1>3 DEF IsSnapshot, Snapshots
  <2>2. st[k] = img[k]
    <3>1. k \in 1..k
      BY <2>1
    <3> QED BY <2>1, <3>1 DEF Agree
  <2> QED BY <2>1, <2>2
<1>4. CASE base = 0
  <2>1. es = img
    <3>1. Agree(es, img, Len(es)) /\ Len(img) = Len(es)
      BY <1>2, <1>4 DEF Agree
    <3> QED BY <3>1, LogsEqual
  <2>2. Rebuilt(n) = img
    BY <1>1, <1>4, <2>1, ConcatEmptySeq DEF Rebuilt, Logs
  <2>3. ASSUME snap[n] # None
        PROVE  /\ snap[n].index <= Len(es) /\ es[snap[n].index] = snap[n].term
               /\ snap[n].state = SubSeq(es, 1, snap[n].index)
    <3>1. PICK k \in Nat, st \in Logs : /\ k = snap[n].index /\ st = snap[n].state /\ Len(st) = k /\ Agree(st, img, k)
                                        /\ snap[n].term = img[k]
      BY <1>3, <2>3
    <3>2. SubSeq(st, 1, k) = SubSeq(img, 1, k)
      BY <3>1, PrefixesEqual
    <3>3. SubSeq(st, 1, k) = st
      <4>1. k <= Len(st)
        BY <3>1
      <4>2. SubSeq(st, 1, k) \in Logs /\ Len(SubSeq(st, 1, k)) = k /\ Agree(SubSeq(st, 1, k), st, k)
        BY <4>1, PrefixFacts
      <4> QED BY <3>1, <4>2, LogsEqual
    <3>4. k <= Len(img)
      BY <3>1 DEF Agree
    <3> QED BY <2>1, <3>1, <3>2, <3>3, <3>4
  <2> QED BY <1>1, <1>4, <2>2, <2>3 DEF SnapshotIsValid
<1>5. CASE base > 0
  <2>1. PICK st \in Logs : /\ snap[n] # None /\ snap[n].index = base /\ st = snap[n].state /\ Len(st) = base
                           /\ Agree(st, img, base) /\ snap[n].term = img[base] /\ applied[n].term = img[base]
    BY <1>2, <1>3, <1>5
  <2>2. PICK b \in Logs : /\ b = st \o es /\ Len(b) = Len(st) + Len(es)
                          /\ \A i \in 1..Len(st) : b[i] = st[i]
                          /\ \A i \in 1..Len(es) : b[Len(st) + i] = es[i]
    BY ConcatFacts
  <2>3. b = img
    <3>1. ASSUME NEW i \in 1..Len(b) PROVE b[i] = img[i]
      <4>1. CASE i <= base
        <5>1. i \in 1..base
          BY <4>1
        <5> QED BY <2>1, <2>2, <5>1 DEF Agree
      <4>2. CASE i > base
        <5>1. PICK j \in Nat : i = base + j /\ j \in 1..Len(es)
          <6>1. i - base \in Nat /\ i = base + (i - base) /\ (i - base) \in 1..Len(es)
            BY <1>2, <2>1, <2>2, <4>2
          <6> QED BY <6>1
        <5> QED BY <1>2, <2>1, <2>2, <5>1
      <4> QED BY <1>2, <2>1, <2>2, <4>1, <4>2
    <3>2. Len(b) = Len(img)
      BY <1>2, <2>1, <2>2
    <3>3. Agree(b, img, Len(b))
      BY <1>2, <3>1, <3>2 DEF Agree
    <3> QED BY <3>2, <3>3, LogsEqual
  <2>4. Rebuilt(n) = img
    <3>1. applied[n].base # 0 /\ snap[n].state = st /\ applied[n].entries = es
      BY <1>1, <1>5, <2>1
    <3>2. Rebuilt(n) = st \o es
      BY <3>1, Zenon DEF Rebuilt
    <3> QED BY <2>2, <2>3, <3>2
  <2>5. SnapshotIsValid(n)
    BY <1>1, <1>5, <2>1 DEF SnapshotIsValid
  <2> QED BY <1>1, <2>4, <2>5
<1> QED BY <1>4, <1>5

-----------------------------------------------------------------------------
(* The theorems *)

\* What a leader counts for a peer is in the peer's log, or below its base in what it executed,
\* as long as the leader has authority: snapshots may stand for entries that were never sent.
THEOREM MatchIndexesAreTrue == Spec => []MatchIndexIsTrue
BY Invariant, IInvMatch, PTL

\* Unless create is called by itself after a compaction, the durable log, applied history and
\* snapshot of every node fit together at all times: a restart raises nothing and
\* rebuilds the image that was in memory.
THEOREM DurableStateIsWhole == ~CreateAfterCompact => (Spec => []DurableStateReconstructs)
<1> SUFFICES ASSUME ~CreateAfterCompact PROVE Spec => []DurableStateReconstructs
  OBVIOUS
<1>1. IInv => DurableStateReconstructs
  BY HistoryIsValid, SnapshotValid DEF DurableStateReconstructs
<1> QED BY <1>1, Invariant, PTL

\* install and apply_committed only ever extend what a node has executed, however late,
\* often and out of order requests arrive.
THEOREM ExecutionIsNeverTakenBack == Spec => NothingIsRolledBack
<1>1. IInv /\ [Next]_vars => [\A n \in Server : IsPrefix(image[n], image'[n])]_vars
  BY StepIInv
<1> QED BY <1>1, Invariant, PTL DEF Spec, NothingIsRolledBack

=============================================================================
