-------------------------- MODULE LeaderServiceProofs --------------------------
(***************************************************************************)
(* Reads, CheckQuorum rounds and acknowledged writes of LeaderService, for *)
(* any finite cluster, any requests and any bounds.                        *)
(*                                                                         *)
(* As in RaftLogProofs, messages are lost and nodes forget, so the         *)
(* invariant says that there is a history that explains the state:         *)
(*   Ld[t]     the leader of term t, or None                               *)
(*   Lg[t]     the log of the leader of term t, when it last led           *)
(*   A[v][t]   the highest index that v has acknowledged to that leader    *)
(* Elections are one step here, so no votes are needed: a majority that    *)
(* has reached a term keeps every rival of its leader out of it.           *)
(***************************************************************************)
EXTENDS LeaderService, FiniteSetTheorems, SequenceTheorems, WellFoundedInduction, TLAPS

-----------------------------------------------------------------------------
(* The invariant of the Raft nodes *)

LogEntry == [term : Nat, command : Request \cup {Barrier}]

Logs == Seq(LogEntry)

StateOK ==
    /\ term \in [Server -> Nat] /\ log \in [Server -> Logs] /\ applied \in [Server -> Logs]
    /\ leads \in [Server -> BOOLEAN] /\ commit \in [Server -> Nat] /\ elected \in Nat

ResponseFields == {"type", "src", "dst", "term", "outcome", "match", "fresh"}

IsMessage(m) ==
    /\ m.term \in Nat /\ m.src \in Server /\ m.dst \in Server
    /\ m.type \in {"AppendEntries", "Response"}
    /\ m.type = "AppendEntries" => m.prev \in Nat /\ m.entries \in Logs /\ m.commit \in Nat
    /\ m.type = "Response" => m.match \in Nat /\ DOMAIN m = ResponseFields

MessagesOK == \A m \in msgs : IsMessage(m)

HistoryLogs(Ld, Lg, A) ==
    Ld \in [Nat -> Server \cup {None}] /\ Lg \in [Nat -> Logs] /\ A \in [Server -> [Nat -> Nat]]

\* The logs a and b have the same entries up to i.
Agree(a, b, i) == i <= Len(a) /\ i <= Len(b) /\ \A j \in 1..i : a[j] = b[j]

\* Each entry of lg is the leader's of its term, and so is what comes before it.
Good(lg, Ld, Lg) ==
    \A i \in 1..Len(lg) : Ld[lg[i].term] # None /\ Agree(lg, Lg[lg[i].term], i)

TermsUpTo(lg, t) == \A i \in 1..Len(lg) : lg[i].term <= t

\* No request is in lg twice.
Unique(lg) ==
    \A i, j \in 1..Len(lg) : lg[i].command = lg[j].command /\ lg[i].command # Barrier => i = j

LeaderInv(Ld, Lg) ==
    /\ \A t \in Nat : Ld[t] # None =>
          t > 0 /\ t <= elected /\ t <= term[Ld[t]] /\ IsQuorum({v \in Server : t <= term[v]})
    /\ \A l \in Server : leads[l] => Ld[term[l]] = l /\ log[l] = Lg[term[l]]
    /\ elected = 0 \/ Ld[elected] # None

LogInv(Ld, Lg) ==
    /\ \A n \in Server : Good(log[n], Ld, Lg) /\ TermsUpTo(log[n], term[n])
    /\ \A t \in Nat : Ld[t] # None => Good(Lg[t], Ld, Lg) /\ TermsUpTo(Lg[t], t) /\ Unique(Lg[t])

AckInv(Ld, Lg, A) ==
    /\ \A v \in Server, t \in Nat : A[v][t] > 0 =>
          /\ Ld[t] # None /\ t <= term[v] /\ A[v][t] <= Len(Lg[t])
          /\ t = term[v] => Agree(log[v], Lg[t], A[v][t])
    /\ \A l \in Server : leads[l] => A[l][term[l]] = Len(log[l])

\* An entry of its leader's own term that a majority has acknowledged or still may.
Choosable(Ld, Lg, A, t, i) ==
    /\ Ld[t] # None /\ i \in 1..Len(Lg[t]) /\ Lg[t][i].term = t
    /\ IsQuorum({v \in Server : A[v][t] >= i \/ term[v] <= t})

Committed(Ld, Lg, A, t, i) ==
    /\ Ld[t] # None /\ i \in 1..Len(Lg[t]) /\ Lg[t][i].term = t
    /\ IsQuorum({v \in Server : A[v][t] >= i})

\* Whoever has acknowledged such an entry keeps it, and every later leader has it.
KeepInv(Ld, Lg, A) ==
    \A t, i \in Nat : Choosable(Ld, Lg, A, t, i) =>
        /\ \A v \in Server : A[v][t] >= i => Agree(log[v], Lg[t], i)
        /\ \A u \in Nat : t < u /\ Ld[u] # None => Agree(Lg[u], Lg[t], i)

\* The first i entries of lg are part of what was committed by term t0.
Safe(lg, i, t0, Ld, Lg, A) ==
    i = 0 \/ \E t, k \in Nat : t <= t0 /\ i <= k /\ Committed(Ld, Lg, A, t, k) /\ Agree(lg, Lg[t], i)

\* A node in term t with log lg, commit index c and applied history a
NodeSafe(lg, a, c, t, Ld, Lg, A) ==
    Safe(lg, c, t, Ld, Lg, A) /\ Safe(a, Len(a), t, Ld, Lg, A) /\ Agree(a, lg, Len(a))

CommitInv(Ld, Lg, A) ==
    \A n \in Server : NodeSafe(log[n], applied[n], commit[n], term[n], Ld, Lg, A)

\* An AppendEntries carries a piece of its leader's log, and a success is an acknowledgement.
AppendTrue(m, Ld, Lg, A) ==
    /\ Ld[m.term] = m.src /\ m.dst # m.src
    /\ m.prev + Len(m.entries) <= Len(Lg[m.term])
    /\ \A j \in 1..Len(m.entries) : m.entries[j] = Lg[m.term][m.prev + j]
    /\ m.prevTerm = TermAt(Lg[m.term], m.prev)
    /\ Safe(Lg[m.term], m.commit, m.term, Ld, Lg, A)

MessageTrue(m, Ld, Lg, A) ==
    /\ m.type = "AppendEntries" => AppendTrue(m, Ld, Lg, A)
    /\ m.type = "Response" /\ m.outcome = "ok" => m.match <= A[m.src][m.term]

MessageInv(Ld, Lg, A) == \A m \in msgs : MessageTrue(m, Ld, Lg, A)

RaftInv(Ld, Lg, A) ==
    /\ HistoryLogs(Ld, Lg, A)
    /\ LeaderInv(Ld, Lg) /\ LogInv(Ld, Lg) /\ AckInv(Ld, Lg, A)
    /\ KeepInv(Ld, Lg, A) /\ CommitInv(Ld, Lg, A) /\ MessageInv(Ld, Lg, A)

-----------------------------------------------------------------------------
(* Majorities, logs that agree, and histories that grow *)

LEMMA QuorumsMeet ==
    ASSUME NEW P \in SUBSET Server, NEW Q \in SUBSET Server, IsQuorum(P), IsQuorum(Q)
    PROVE  \E n \in P : n \in Q
<1> IsFiniteSet(Server)
  BY ConstantAssumption
<1>1. /\ IsFiniteSet(P) /\ IsFiniteSet(Q)
      /\ Cardinality(P) \in Nat /\ Cardinality(Q) \in Nat /\ Cardinality(Server) \in Nat
  BY FS_Subset, FS_CardinalityType
<1>2. Cardinality(P) + Cardinality(Q) > Cardinality(Server)
  BY <1>1 DEF IsQuorum
<1> QED BY <1>1, <1>2, FS_MajoritiesIntersect

LEMMA QuorumGrows ==
    ASSUME NEW P \in SUBSET Server, NEW Q \in SUBSET Server, P \subseteq Q, IsQuorum(P)
    PROVE  IsQuorum(Q)
<1>1. IsFiniteSet(Q) /\ IsFiniteSet(P) /\ Cardinality(P) <= Cardinality(Q)
  BY FS_Subset, ConstantAssumption
<1>2. Cardinality(P) \in Nat /\ Cardinality(Q) \in Nat /\ Cardinality(Server) \in Nat
  BY <1>1, FS_CardinalityType, ConstantAssumption
<1> QED BY <1>1, <1>2 DEF IsQuorum

LEMMA LogFacts ==
    ASSUME NEW lg \in Logs
    PROVE  /\ Len(lg) \in Nat
           /\ \A i \in 1..Len(lg) : lg[i] \in LogEntry /\ lg[i].term \in Nat
<1>1. Len(lg) \in Nat /\ \A i \in 1..Len(lg) : lg[i] \in LogEntry
  BY LenProperties, ElementOfSeq DEF Logs
<1>2. \A e \in LogEntry : e.term \in Nat
  BY DEF LogEntry
<1> QED BY <1>1, <1>2

LEMMA AgreeSymmetric ==
    ASSUME NEW a \in Logs, NEW b \in Logs, NEW i \in Nat, Agree(a, b, i)
    PROVE  Agree(b, a, i)
BY DEF Agree

LEMMA AgreeTransitive ==
    ASSUME NEW a \in Logs, NEW b \in Logs, NEW c \in Logs, NEW i \in Nat, NEW j \in Nat, NEW k \in Nat,
           Agree(a, b, i), Agree(b, c, j), k <= i, k <= j
    PROVE  Agree(a, c, k)
<1>1. Len(a) \in Nat /\ Len(b) \in Nat /\ Len(c) \in Nat
  BY LogFacts
<1> QED BY <1>1 DEF Agree

LEMMA AgreeDown ==
    ASSUME NEW a \in Logs, NEW b \in Logs, NEW i \in Nat, NEW k \in Nat, Agree(a, b, i), k <= i
    PROVE  Agree(a, b, k)
<1>1. Len(a) \in Nat /\ Len(b) \in Nat
  BY LogFacts
<1> QED BY <1>1 DEF Agree

LEMMA AgreeReflexive ==
    ASSUME NEW a \in Logs, NEW i \in Nat, i <= Len(a)
    PROVE  Agree(a, a, i)
BY DEF Agree

\* What a longer history keeps: the leaders, their logs but for new entries at the end, and
\* the acknowledgements.
Grows(Ld, Lg, A, Ld2, Lg2, A2) ==
    /\ \A t \in Nat : Ld[t] # None => Ld2[t] = Ld[t] /\ Agree(Lg2[t], Lg[t], Len(Lg[t]))
    /\ \A v \in Server, t \in Nat : A[v][t] <= A2[v][t]

LEMMA GrowsReflexive ==
    ASSUME NEW Ld, NEW Lg, NEW A, HistoryLogs(Ld, Lg, A)
    PROVE  Grows(Ld, Lg, A, Ld, Lg, A)
<1>1. \A t \in Nat : Agree(Lg[t], Lg[t], Len(Lg[t]))
  BY LogFacts, AgreeReflexive DEF HistoryLogs
<1>2. \A v \in Server, t \in Nat : A[v][t] <= A[v][t]
  BY DEF HistoryLogs
<1> QED BY <1>1, <1>2 DEF Grows

LEMMA GoodGrows ==
    ASSUME NEW Ld, NEW Lg, NEW A, NEW Ld2, NEW Lg2, NEW A2,
           HistoryLogs(Ld, Lg, A), HistoryLogs(Ld2, Lg2, A2), Grows(Ld, Lg, A, Ld2, Lg2, A2),
           NEW lg \in Logs, Good(lg, Ld, Lg)
    PROVE  Good(lg, Ld2, Lg2)
<1> SUFFICES ASSUME NEW i \in 1..Len(lg)
             PROVE  Ld2[lg[i].term] # None /\ Agree(lg, Lg2[lg[i].term], i)
  BY DEF Good
<1> DEFINE u == lg[i].term
<1>1. i \in Nat /\ u \in Nat /\ Lg[u] \in Logs /\ Lg2[u] \in Logs /\ Len(Lg[u]) \in Nat
  <2>1. i \in Nat /\ u \in Nat
    BY LogFacts
  <2> HIDE DEF u
  <2>2. Lg[u] \in Logs /\ Lg2[u] \in Logs
    BY <2>1 DEF HistoryLogs
  <2> QED BY <2>1, <2>2, LogFacts
<1>2. Ld[u] # None /\ Agree(lg, Lg[u], i)
  BY DEF Good
<1>3. Ld2[u] = Ld[u] /\ Agree(Lg[u], Lg2[u], Len(Lg[u]))
  BY <1>1, <1>2, AgreeSymmetric DEF Grows
<1>4. i <= Len(Lg[u])
  BY <1>2 DEF Agree
<1> HIDE DEF u
<1>5. Agree(lg, Lg2[u], i)
  BY <1>1, <1>2, <1>3, <1>4, AgreeTransitive
<1> QED BY <1>2, <1>3, <1>5 DEF u

LEMMA CommittedGrows ==
    ASSUME NEW Ld, NEW Lg, NEW A, NEW Ld2, NEW Lg2, NEW A2,
           HistoryLogs(Ld, Lg, A), HistoryLogs(Ld2, Lg2, A2), Grows(Ld, Lg, A, Ld2, Lg2, A2),
           NEW t \in Nat, NEW k \in Nat, Committed(Ld, Lg, A, t, k)
    PROVE  Committed(Ld2, Lg2, A2, t, k)
<1>1. Len(Lg[t]) \in Nat /\ Len(Lg2[t]) \in Nat
  BY LogFacts DEF HistoryLogs
<1>2. Ld2[t] # None /\ k \in 1..Len(Lg2[t]) /\ Lg2[t][k].term = t
  BY <1>1 DEF Committed, Grows, Agree
<1>3. {v \in Server : A[v][t] >= k} \subseteq {v \in Server : A2[v][t] >= k}
  <2>1. \A v \in Server : A[v][t] \in Nat /\ A2[v][t] \in Nat
    BY DEF HistoryLogs
  <2>2. \A v \in Server : A[v][t] <= A2[v][t]
    BY DEF Grows
  <2> QED BY <2>1, <2>2
<1>4. IsQuorum({v \in Server : A2[v][t] >= k})
  BY <1>3, QuorumGrows DEF Committed
<1> QED BY <1>2, <1>4 DEF Committed

LEMMA SafeGrows ==
    ASSUME NEW Ld, NEW Lg, NEW A, NEW Ld2, NEW Lg2, NEW A2,
           HistoryLogs(Ld, Lg, A), HistoryLogs(Ld2, Lg2, A2), Grows(Ld, Lg, A, Ld2, Lg2, A2),
           NEW lg \in Logs, NEW i \in Nat, NEW t0 \in Nat, NEW t1 \in Nat, t0 <= t1,
           Safe(lg, i, t0, Ld, Lg, A)
    PROVE  Safe(lg, i, t1, Ld2, Lg2, A2)
<1>1. CASE i = 0
  BY <1>1 DEF Safe
<1>2. CASE i # 0
  <2>1. PICK t \in Nat, k \in Nat : t <= t0 /\ i <= k /\ Committed(Ld, Lg, A, t, k) /\ Agree(lg, Lg[t], i)
    BY <1>2 DEF Safe
  <2>2. Committed(Ld2, Lg2, A2, t, k)
    BY <2>1, CommittedGrows
  <2>3. Lg[t] \in Logs /\ Lg2[t] \in Logs /\ Len(Lg[t]) \in Nat
    BY LogFacts DEF HistoryLogs
  <2>4. i <= Len(Lg[t]) /\ Agree(Lg[t], Lg2[t], Len(Lg[t]))
    BY <2>1, <2>3, AgreeSymmetric DEF Grows, Committed, Agree
  <2>5. Agree(lg, Lg2[t], i)
    BY <2>1, <2>3, <2>4, AgreeTransitive
  <2> QED BY <2>1, <2>2, <2>5 DEF Safe
<1> QED BY <1>1, <1>2

\* Of two logs with the same first i entries, one is as safe as the other.
LEMMA SafeAgrees ==
    ASSUME NEW Ld, NEW Lg, NEW A, HistoryLogs(Ld, Lg, A),
           NEW a \in Logs, NEW b \in Logs, NEW i \in Nat, NEW j \in Nat, NEW t0 \in Nat,
           Safe(a, i, t0, Ld, Lg, A), j <= i, Agree(b, a, j)
    PROVE  Safe(b, j, t0, Ld, Lg, A)
<1>1. CASE j = 0
  BY <1>1 DEF Safe
<1>2. CASE j # 0
  <2>1. PICK t \in Nat, k \in Nat : t <= t0 /\ i <= k /\ Committed(Ld, Lg, A, t, k) /\ Agree(a, Lg[t], i)
    BY <1>2 DEF Safe
  <2>2. Agree(b, Lg[t], j)
    BY <2>1, AgreeTransitive DEF HistoryLogs
  <2> QED BY <2>1, <2>2 DEF Safe
<1> QED BY <1>1, <1>2

\* Terms do not decrease along a log.
LEMMA TermsMonotone ==
    ASSUME NEW Ld, NEW Lg, NEW A, HistoryLogs(Ld, Lg, A), LogInv(Ld, Lg),
           NEW lg \in Logs, Good(lg, Ld, Lg), NEW i \in 1..Len(lg), NEW j \in 1..Len(lg), i <= j
    PROVE  lg[i].term <= lg[j].term
<1> DEFINE u == lg[j].term
<1>1. u \in Nat /\ i \in Nat /\ j \in Nat /\ Len(lg) \in Nat
  BY LogFacts
<1>2. Ld[u] # None /\ Agree(lg, Lg[u], j)
  BY DEF Good
<1>3. Len(Lg[u]) \in Nat
  BY <1>1, LogFacts DEF HistoryLogs
<1>4. i \in 1..Len(Lg[u]) /\ lg[i] = Lg[u][i]
  BY <1>1, <1>2, <1>3 DEF Agree
<1>5. Lg[u][i].term <= u
  BY <1>1, <1>2, <1>4 DEF LogInv, TermsUpTo
<1> QED BY <1>4, <1>5

\* Two good logs with an entry of one term at an index are equal up to it.
LEMMA GoodLogsMatch ==
    ASSUME NEW Ld, NEW Lg, NEW A, HistoryLogs(Ld, Lg, A),
           NEW a \in Logs, NEW b \in Logs, Good(a, Ld, Lg), Good(b, Ld, Lg),
           NEW i \in 1..Len(a), i <= Len(b), a[i].term = b[i].term
    PROVE  Agree(a, b, i)
<1> DEFINE u == a[i].term
<1>1. i \in Nat /\ i \in 1..Len(b) /\ u \in Nat /\ Lg[u] \in Logs
  <2>1. i \in Nat /\ i \in 1..Len(b) /\ u \in Nat
    BY LogFacts
  <2> HIDE DEF u
  <2> QED BY <2>1 DEF HistoryLogs
<1>2. Agree(a, Lg[u], i) /\ Agree(b, Lg[u], i)
  BY <1>1 DEF Good
<1>3. Agree(Lg[u], b, i)
  BY <1>1, <1>2, AgreeSymmetric
<1> HIDE DEF u
<1> QED BY <1>1, <1>2, <1>3, AgreeTransitive

\* A log that follows a good one to its own end is good.
LEMMA GoodPrefix ==
    ASSUME NEW Ld, NEW Lg, NEW A, HistoryLogs(Ld, Lg, A), NEW t \in Nat,
           NEW a \in Logs, NEW b \in Logs, Agree(a, b, Len(a)), Good(b, Ld, Lg), TermsUpTo(b, t)
    PROVE  Good(a, Ld, Lg) /\ TermsUpTo(a, t)
<1> SUFFICES ASSUME NEW i \in 1..Len(a)
             PROVE  Ld[a[i].term] # None /\ Agree(a, Lg[a[i].term], i) /\ a[i].term <= t
  BY DEF Good, TermsUpTo
<1> DEFINE u == a[i].term
<1>1. i \in Nat /\ i <= Len(a) /\ Len(a) \in Nat /\ u \in Nat /\ Lg[u] \in Logs /\ Len(b) \in Nat
  <2>1. i \in Nat /\ i <= Len(a) /\ Len(a) \in Nat /\ u \in Nat /\ Len(b) \in Nat
    BY LogFacts
  <2> HIDE DEF u
  <2> QED BY <2>1 DEF HistoryLogs
<1>2. i \in 1..Len(b) /\ a[i] = b[i]
  BY <1>1 DEF Agree
<1>3. Ld[u] # None /\ Agree(b, Lg[u], i) /\ u <= t
  BY <1>2 DEF Good, TermsUpTo
<1> HIDE DEF u
<1>4. Agree(a, Lg[u], i)
  BY <1>1, <1>3, AgreeTransitive
<1> QED BY <1>3, <1>4 DEF u

\* An entry does not become choosable later on: terms only rise, and who acknowledges an entry
\* was not beyond its term.
LEMMA ChoosableShrinks ==
    ASSUME StateOK, StateOK', \A v \in Server : term[v] <= term'[v],
           NEW Ld, NEW Lg, NEW A, NEW Ld2, NEW Lg2, NEW A2,
           HistoryLogs(Ld, Lg, A), HistoryLogs(Ld2, Lg2, A2), Grows(Ld, Lg, A, Ld2, Lg2, A2),
           NEW t \in Nat, NEW i \in Nat, Ld[t] # None, i <= Len(Lg[t]),
           \A v \in Server : A2[v][t] >= i => A[v][t] >= i \/ term[v] <= t,
           Choosable(Ld2, Lg2, A2, t, i)'
    PROVE  Choosable(Ld, Lg, A, t, i)
<1>1. Len(Lg[t]) \in Nat /\ Len(Lg2[t]) \in Nat
  BY LogFacts DEF HistoryLogs
<1>2. i \in 1..Len(Lg[t]) /\ Lg[t][i].term = t
  BY <1>1 DEF Choosable, Grows, Agree
<1> DEFINE P == {v \in Server : A2[v][t] >= i \/ term'[v] <= t}
           Q == {v \in Server : A[v][t] >= i \/ term[v] <= t}
<1>3. P \subseteq Q
  <2>1. \A v \in Server : term[v] \in Nat /\ term'[v] \in Nat
    BY DEF StateOK
  <2> QED BY <2>1
<1>4. IsQuorum(P)
  BY DEF Choosable
<1>5. IsQuorum(Q)
  <2> HIDE DEF P, Q
  <2>1. P \in SUBSET Server /\ Q \in SUBSET Server
    BY DEF P, Q
  <2> QED BY <1>3, <1>4, <2>1, QuorumGrows
<1> QED BY <1>2, <1>5 DEF Choosable

LEMMA CommittedIsChoosable ==
    ASSUME StateOK, NEW Ld, NEW Lg, NEW A, HistoryLogs(Ld, Lg, A), NEW t \in Nat, NEW k \in Nat,
           Committed(Ld, Lg, A, t, k)
    PROVE  Choosable(Ld, Lg, A, t, k)
<1> DEFINE P == {v \in Server : A[v][t] >= k}
           Q == {v \in Server : A[v][t] >= k \/ term[v] <= t}
<1>1. P \subseteq Q /\ P \in SUBSET Server /\ Q \in SUBSET Server
  OBVIOUS
<1>2. IsQuorum(P)
  BY DEF Committed
<1>3. IsQuorum(Q)
  <2> HIDE DEF P, Q
  <2> QED BY <1>1, <1>2, QuorumGrows
<1> QED BY <1>3 DEF Committed, Choosable

\* What is safe by a term is in the log of every leader from that term on.
LEMMA SafeIsInLeader ==
    ASSUME StateOK, NEW Ld, NEW Lg, NEW A, HistoryLogs(Ld, Lg, A), KeepInv(Ld, Lg, A),
           NEW lg \in Logs, NEW i \in Nat, NEW t0 \in Nat, Safe(lg, i, t0, Ld, Lg, A),
           NEW u \in Nat, t0 <= u, Ld[u] # None
    PROVE  Agree(lg, Lg[u], i)
<1>0. Lg[u] \in Logs /\ Len(Lg[u]) \in Nat /\ Len(lg) \in Nat
  BY LogFacts DEF HistoryLogs
<1>1. CASE i = 0
  BY <1>0, <1>1 DEF Agree
<1>2. CASE i # 0
  <2>1. PICK t \in Nat, k \in Nat : t <= t0 /\ i <= k /\ Committed(Ld, Lg, A, t, k) /\ Agree(lg, Lg[t], i)
    BY <1>2 DEF Safe
  <2>2. CASE t = u
    BY <2>1, <2>2
  <2>3. CASE t < u
    <3>1. Choosable(Ld, Lg, A, t, k)
      BY <2>1, CommittedIsChoosable
    <3>2. Agree(Lg[u], Lg[t], k)
      BY <2>3, <3>1 DEF KeepInv
    <3>3. Lg[t] \in Logs
      BY DEF HistoryLogs
    <3>4. Agree(Lg[t], Lg[u], k)
      BY <1>0, <3>2, <3>3, AgreeSymmetric
    <3> QED BY <1>0, <2>1, <3>3, <3>4, AgreeTransitive
  <2> QED BY <2>1, <2>2, <2>3
<1> QED BY <1>1, <1>2

LEMMA SafeExtends ==
    ASSUME NEW Ld, NEW Lg, NEW A, NEW Ld2, NEW Lg2, NEW A2,
           HistoryLogs(Ld, Lg, A), HistoryLogs(Ld2, Lg2, A2), Grows(Ld, Lg, A, Ld2, Lg2, A2),
           NEW a \in Logs, NEW b \in Logs, NEW i \in Nat, NEW t0 \in Nat, Agree(b, a, Len(a)),
           Safe(a, i, t0, Ld, Lg, A)
    PROVE  Safe(b, i, t0, Ld2, Lg2, A2)
<1>1. Len(a) \in Nat /\ t0 <= t0 /\ i <= i
  BY LogFacts
<1>2. i <= Len(a)
  BY <1>1 DEF Safe, Agree
<1>3. Safe(a, i, t0, Ld2, Lg2, A2)
  BY <1>1, SafeGrows
<1>4. Agree(b, a, i)
  BY <1>1, <1>2, AgreeDown
<1> QED BY <1>1, <1>3, <1>4, SafeAgrees

\* A set of natural numbers that is not empty has a least element ...
LessThan == {p \in Nat \X Nat : p[1] < p[2]}

LEMMA Least ==
    ASSUME NEW T \in SUBSET Nat, T # {}
    PROVE  \E x \in T : \A y \in T : x <= y
<1>1. IsWellFoundedOn(LessThan, Nat)
  <2>1. LessThan = OpToRel(<, Nat)
    BY DEF LessThan, OpToRel
  <2> QED BY <2>1, NatLessThanWellFounded
<1>2. PICK x \in T : \A y \in T : ~(<<y, x>> \in LessThan)
  BY <1>1, WFMin
<1>3. \A y \in T : x <= y
  <2> TAKE y \in T
  <2>1. x \in Nat /\ y \in Nat
    OBVIOUS
  <2>2. ~(y < x)
    <3> SUFFICES ASSUME y < x PROVE FALSE
      OBVIOUS
    <3>1. <<y, x>> \in LessThan
      BY <2>1 DEF LessThan
    <3> QED BY <1>2, <3>1
  <2> QED BY <2>1, <2>2
<1> QED BY <1>3

\* ... and a greatest one when it is bounded.
LEMMA Greatest ==
    ASSUME NEW T \in SUBSET Nat, T # {}, NEW bound \in Nat, \A y \in T : y <= bound
    PROVE  \E x \in T : \A y \in T : y <= x
<1> DEFINE Upper == {k \in Nat : \A y \in T : y <= k}
<1>1. PICK x \in Upper : \A k \in Upper : x <= k
  <2>1. Upper \in SUBSET Nat /\ Upper # {}
    OBVIOUS
  <2> HIDE DEF Upper
  <2> QED BY <2>1, Least
<1>2. x \in T
  <2> SUFFICES ASSUME x \notin T PROVE FALSE
    OBVIOUS
  <2>1. x \in Nat /\ x > 0
    <3>1. PICK y \in T : TRUE
      OBVIOUS
    <3>2. y \in Nat /\ y <= x /\ y # x /\ x \in Nat
      BY <3>1
    <3> QED BY <3>2
  <2>2. x - 1 \in Nat /\ \A y \in T : y <= x - 1
    <3>1. \A y \in T : y \in Nat /\ y <= x /\ y # x
      OBVIOUS
    <3> QED BY <2>1, <3>1
  <2>3. x <= x - 1
    BY <1>1, <2>2
  <2> QED BY <2>1, <2>3
<1> QED BY <1>2

-----------------------------------------------------------------------------
(* Logs *)

LEMMA AppendFacts ==
    ASSUME NEW lg \in Logs, NEW e \in LogEntry
    PROVE  LET b == Append(lg, e)
           IN  /\ b \in Logs /\ Len(b) = Len(lg) + 1 /\ b[Len(lg) + 1] = e
               /\ \A i \in 1..Len(lg) : b[i] = lg[i]
               /\ Agree(b, lg, Len(lg))
<1> DEFINE b == Append(lg, e)
<1>1. /\ b \in Logs /\ Len(b) = Len(lg) + 1 /\ b[Len(lg) + 1] = e
      /\ \A i \in 1..Len(lg) : b[i] = lg[i]
  BY LogFacts, AppendProperties DEF Logs
<1>2. Len(lg) \in Nat
  BY LogFacts
<1> HIDE DEF b
<1>3. Agree(b, lg, Len(lg))
  BY <1>1, <1>2 DEF Agree
<1> QED BY <1>1, <1>3 DEF b

LEMMA PrefixFacts ==
    ASSUME NEW lg \in Logs, NEW i \in Nat, i <= Len(lg)
    PROVE  SubSeq(lg, 1, i) \in Logs /\ Len(SubSeq(lg, 1, i)) = i /\ Agree(SubSeq(lg, 1, i), lg, i)
<1>1. Len(lg) \in Nat /\ \A j \in 1..i : lg[j] \in LogEntry
  BY LogFacts
<1>2. /\ SubSeq(lg, 1, i) \in Seq(LogEntry) /\ Len(SubSeq(lg, 1, i)) = i
      /\ \A j \in 1..i : SubSeq(lg, 1, i)[j] = lg[j]
  BY <1>1, SubSeqProperties
<1> QED BY <1>1, <1>2 DEF Agree, Logs

\* What replicate sends from prev on
LEMMA SuffixFacts ==
    ASSUME NEW lg \in Logs, NEW prev \in Nat, prev <= Len(lg)
    PROVE  LET s == SubSeq(lg, prev + 1, Len(lg))
           IN  /\ s \in Logs /\ prev + Len(s) = Len(lg)
               /\ \A j \in 1..Len(s) : s[j] = lg[prev + j]
<1> DEFINE s == SubSeq(lg, prev + 1, Len(lg))
<1>1. Len(lg) \in Nat /\ \A i \in prev + 1..Len(lg) : lg[i] \in LogEntry
  BY LogFacts
<1>2. /\ s \in Seq(LogEntry)
      /\ Len(s) = IF prev + 1 <= Len(lg) THEN Len(lg) - (prev + 1) + 1 ELSE 0
      /\ \A j \in 1..Len(lg) - (prev + 1) + 1 : s[j] = lg[prev + 1 + j - 1]
  BY <1>1, SubSeqProperties
<1>3. Len(s) = Len(lg) - prev
  BY <1>1, <1>2
<1> QED BY <1>1, <1>2, <1>3 DEF Logs

\* merge_after takes over a stretch of the leader's log L and loses nothing that lg and L share.
LEMMA MergeFollowsLeader ==
    ASSUME NEW lg \in Logs, NEW L \in Logs, NEW entries \in Logs, NEW prev \in Nat,
           prev + Len(entries) <= Len(L), prev <= Len(lg),
           \A j \in 1..Len(entries) : entries[j] = L[prev + j],
           Agree(lg, L, prev)
    PROVE  LET r == MergeAfter(lg, prev, entries)
           IN  /\ r \in Logs
               /\ Agree(r, L, prev + Len(entries))
               /\ \A i \in Nat : Agree(lg, L, i) => Agree(r, L, i)
               /\ r = lg \/ Len(r) = prev + Len(entries)
<1> DEFINE n == Len(entries)
           same == \A i \in 1..n : prev + i <= Len(lg) /\ lg[prev + i] = entries[i]
           cut == SubSeq(lg, 1, prev)
           b == cut \o entries
<1>1. n \in Nat /\ Len(lg) \in Nat /\ Len(L) \in Nat
  BY LogFacts
<1>2. CASE same
  <2>1. MergeAfter(lg, prev, entries) = lg
    BY <1>2 DEF MergeAfter
  <2>2. ASSUME NEW j \in 1..prev + n PROVE lg[j] = L[j]
    <3>1. CASE j <= prev
      BY <1>1, <3>1 DEF Agree
    <3>2. CASE j > prev
      <4>1. j - prev \in 1..n
        BY <1>1, <3>2
      <4>2. lg[prev + (j - prev)] = entries[j - prev] /\ entries[j - prev] = L[prev + (j - prev)]
        BY <1>2, <4>1
      <4>3. prev + (j - prev) = j
        BY <1>1
      <4> QED BY <4>2, <4>3
    <3> QED BY <1>1, <3>1, <3>2
  <2>3. prev + n <= Len(lg)
    <3>1. CASE n = 0
      BY <1>1, <3>1
    <3>2. CASE n > 0
      <4>1. n \in 1..n
        BY <1>1, <3>2
      <4> QED BY <1>2, <4>1
    <3> QED BY <1>1, <3>1, <3>2
  <2>4. Agree(lg, L, prev + n)
    BY <1>1, <2>2, <2>3 DEF Agree
  <2> QED BY <2>1, <2>4
<1>3. CASE ~same
  <2>1. MergeAfter(lg, prev, entries) = b
    BY <1>3 DEF MergeAfter
  <2>2. cut \in Logs /\ Len(cut) = prev /\ \A j \in 1..prev : cut[j] = lg[j]
    BY PrefixFacts DEF Agree
  <2> HIDE DEF cut
  <2>3. /\ b \in Logs /\ Len(b) = prev + n
        /\ \A j \in 1..prev + n : b[j] = IF j <= prev THEN cut[j] ELSE entries[j - prev]
    BY <2>2, ConcatProperties DEF Logs
  <2> HIDE DEF b
  <2>4. ASSUME NEW j \in 1..prev + n PROVE b[j] = L[j]
    <3>1. CASE j <= prev
      <4>1. j \in 1..prev
        BY <3>1
      <4> QED BY <2>2, <2>3, <3>1, <4>1 DEF Agree
    <3>2. CASE j > prev
      <4>1. j - prev \in 1..n
        BY <1>1, <3>2
      <4>2. entries[j - prev] = L[prev + (j - prev)] /\ prev + (j - prev) = j
        BY <1>1, <4>1
      <4> QED BY <2>3, <3>2, <4>2
    <3> QED BY <1>1, <3>1, <3>2
  <2>5. Agree(b, L, prev + n)
    BY <1>1, <2>3, <2>4 DEF Agree
  <2>6. ASSUME NEW i \in Nat, Agree(lg, L, i) PROVE Agree(b, L, i)
    <3>1. i <= prev + n
      <4> SUFFICES ASSUME i > prev + n PROVE FALSE
        BY <1>1
      <4>1. \A j \in 1..n : prev + j <= Len(lg) /\ lg[prev + j] = L[prev + j]
        BY <1>1, <2>6 DEF Agree
      <4> QED BY <1>3, <4>1
    <3> QED BY <1>1, <2>3, <2>5, <2>6, <3>1 DEF Agree
  <2> QED BY <2>1, <2>3, <2>5, <2>6
<1> QED BY <1>2, <1>3

\* Each good log is unique, since it is a prefix of a leader's.
LEMMA GoodIsUnique ==
    ASSUME NEW Ld, NEW Lg, NEW A, HistoryLogs(Ld, Lg, A), LogInv(Ld, Lg), NEW lg \in Logs, Good(lg, Ld, Lg)
    PROVE  Unique(lg)
<1> SUFFICES ASSUME NEW i \in 1..Len(lg), NEW j \in 1..Len(lg), lg[i].command = lg[j].command,
                    lg[i].command # Barrier
             PROVE  i = j
  BY DEF Unique
<1> DEFINE k == Len(lg)
           u == lg[k].term
<1>1. k \in Nat /\ k \in 1..Len(lg) /\ i \in 1..k /\ j \in 1..k
  BY LogFacts
<1>2. u \in Nat /\ Ld[u] # None /\ Agree(lg, Lg[u], k)
  BY <1>1, LogFacts DEF Good
<1> HIDE DEF k, u
<1>3. Unique(Lg[u]) /\ Len(Lg[u]) \in Nat
  BY <1>2, LogFacts DEF LogInv, HistoryLogs
<1>4. i \in 1..Len(Lg[u]) /\ j \in 1..Len(Lg[u]) /\ Lg[u][i] = lg[i] /\ Lg[u][j] = lg[j]
  BY <1>1, <1>2, <1>3 DEF Agree
<1> QED BY <1>3, <1>4 DEF Unique

-----------------------------------------------------------------------------
(* Messages and applied histories, as the history of the cluster grows *)

LEMMA MessageTrueGrows ==
    ASSUME NEW Ld, NEW Lg, NEW A, NEW Ld2, NEW Lg2, NEW A2,
           HistoryLogs(Ld, Lg, A), HistoryLogs(Ld2, Lg2, A2), Grows(Ld, Lg, A, Ld2, Lg2, A2),
           NEW m, IsMessage(m), MessageTrue(m, Ld, Lg, A)
    PROVE  MessageTrue(m, Ld2, Lg2, A2)
<1>t. PICK t \in Nat, src \in Server : t = m.term /\ src = m.src
  BY DEF IsMessage
<1>1. ASSUME m.type = "AppendEntries" PROVE AppendTrue(m, Ld2, Lg2, A2)
  <2>1. /\ Ld[t] = src /\ m.dst # src /\ m.prev + Len(m.entries) <= Len(Lg[t])
        /\ \A j \in 1..Len(m.entries) : m.entries[j] = Lg[t][m.prev + j]
        /\ m.prevTerm = TermAt(Lg[t], m.prev) /\ Safe(Lg[t], m.commit, t, Ld, Lg, A)
    BY <1>1, <1>t DEF MessageTrue, AppendTrue
  <2>2. /\ m.prev \in Nat /\ Len(m.entries) \in Nat /\ m.commit \in Nat
        /\ Lg[t] \in Logs /\ Lg2[t] \in Logs
    BY <1>1, LogFacts DEF IsMessage, HistoryLogs
  <2>3. Len(Lg[t]) \in Nat /\ Len(Lg2[t]) \in Nat
    BY <2>2, LogFacts
  <2>4. Ld2[t] = src /\ Agree(Lg2[t], Lg[t], Len(Lg[t])) /\ src # None
    BY <2>1, ConstantAssumption DEF Grows
  <2>5. Len(Lg[t]) <= Len(Lg2[t]) /\ \A i \in 1..Len(Lg[t]) : Lg2[t][i] = Lg[t][i]
    BY <2>4 DEF Agree
  <2>6. ASSUME NEW j \in 1..Len(m.entries) PROVE m.entries[j] = Lg2[t][m.prev + j]
    <3>1. m.prev + j \in 1..Len(Lg[t])
      BY <2>1, <2>2, <2>3
    <3> QED BY <2>1, <2>5, <3>1
  <2>7. m.prevTerm = TermAt(Lg2[t], m.prev)
    <3>1. m.prev = 0 \/ m.prev \in 1..Len(Lg[t])
      BY <2>1, <2>2, <2>3
    <3> QED BY <2>1, <2>5, <3>1 DEF TermAt
  <2>8. Safe(Lg2[t], m.commit, t, Ld2, Lg2, A2)
    BY <2>1, <2>2, <2>4, SafeExtends
  <2> QED BY <1>t, <2>1, <2>2, <2>3, <2>4, <2>5, <2>6, <2>7, <2>8 DEF AppendTrue
<1>2. ASSUME m.type = "Response", m.outcome = "ok" PROVE m.match <= A2[m.src][m.term]
  <2>1. m.match <= A[src][t] /\ A[src][t] <= A2[src][t] /\ m.match \in Nat
    BY <1>2, <1>t DEF MessageTrue, Grows, IsMessage
  <2>2. A[src][t] \in Nat /\ A2[src][t] \in Nat
    BY DEF HistoryLogs
  <2> QED BY <1>t, <2>1, <2>2
<1> QED BY <1>1, <1>2 DEF MessageTrue

LEMMA StaleFacts ==
    ASSUME MessagesOK, NEW m \in Stale(msgs)
    PROVE  /\ IsMessage(m)
           /\ m.type = "AppendEntries" => m \in msgs
           /\ m.type = "Response" => ~m.fresh
           /\ \A Ld, Lg, A : MessageInv(Ld, Lg, A) => MessageTrue(m, Ld, Lg, A)
<1>1. PICK x \in msgs : m = IF x.type = "Response" THEN [x EXCEPT !.fresh = FALSE] ELSE x
  BY DEF Stale
<1>2. IsMessage(x)
  BY DEF MessagesOK
<1>3. CASE x.type = "Response"
  <2>1. m = [x EXCEPT !.fresh = FALSE] /\ DOMAIN x = ResponseFields
    BY <1>1, <1>2, <1>3 DEF IsMessage
  <2>2. /\ DOMAIN m = ResponseFields /\ m.type = x.type /\ m.src = x.src /\ m.dst = x.dst /\ m.term = x.term
        /\ m.outcome = x.outcome /\ m.match = x.match /\ ~m.fresh
    BY <2>1 DEF ResponseFields
  <2>3. IsMessage(m)
    BY <1>2, <1>3, <2>2 DEF IsMessage
  <2>4. ASSUME NEW Ld, NEW Lg, NEW A, MessageInv(Ld, Lg, A) PROVE MessageTrue(m, Ld, Lg, A)
    BY <1>3, <2>2, <2>4 DEF MessageInv, MessageTrue
  <2> QED BY <1>3, <2>2, <2>3, <2>4
<1>4. CASE x.type # "Response"
  BY <1>1, <1>2, <1>4 DEF IsMessage, MessageInv
<1> QED BY <1>3, <1>4

LEMMA NodeSafeGrows ==
    ASSUME NEW Ld, NEW Lg, NEW A, NEW Ld2, NEW Lg2, NEW A2,
           HistoryLogs(Ld, Lg, A), HistoryLogs(Ld2, Lg2, A2), Grows(Ld, Lg, A, Ld2, Lg2, A2),
           NEW lg \in Logs, NEW a \in Logs, NEW c \in Nat, NEW t0 \in Nat, NEW t1 \in Nat, t0 <= t1,
           NodeSafe(lg, a, c, t0, Ld, Lg, A)
    PROVE  NodeSafe(lg, a, c, t1, Ld2, Lg2, A2)
<1>1. Len(a) \in Nat
  BY LogFacts
<1> QED BY <1>1, SafeGrows DEF NodeSafe

\* apply_committed applies more of what is safe, or nothing.
LEMMA ApplyFacts ==
    ASSUME NEW Ld, NEW Lg, NEW A, HistoryLogs(Ld, Lg, A), StateOK, NEW n \in Server, NEW i \in Nat,
           NEW t0 \in Nat, NodeSafe(log[n], applied[n], commit[n], t0, Ld, Lg, A),
           Safe(log[n], i, t0, Ld, Lg, A)
    PROVE  LET now == ApplyCommitted(n, i)
           IN  /\ now \in Logs
               /\ Safe(now, Len(now), t0, Ld, Lg, A) /\ Agree(now, log[n], Len(now))
               /\ i <= Len(now) /\ Agree(now, applied[n], Len(applied[n]))
<1>1. log[n] \in Logs /\ applied[n] \in Logs
  BY DEF StateOK
<1>2. Len(log[n]) \in Nat /\ Len(applied[n]) \in Nat /\ Len(applied[n]) <= Len(applied[n])
  BY <1>1, LogFacts
<1>3. /\ Safe(applied[n], Len(applied[n]), t0, Ld, Lg, A)
      /\ Agree(applied[n], log[n], Len(applied[n]))
  BY DEF NodeSafe
<1>4. CASE i > Len(applied[n])
  <2> DEFINE now == SubSeq(log[n], 1, i)
  <2>1. ApplyCommitted(n, i) = now
    BY <1>4 DEF ApplyCommitted
  <2>2. i <= Len(log[n])
    BY <1>2, <1>4 DEF Safe, Agree
  <2>3. now \in Logs /\ Len(now) = i /\ Agree(now, log[n], i) /\ i <= i
    BY <1>1, <2>2, PrefixFacts
  <2> HIDE DEF now
  <2>4. Safe(now, i, t0, Ld, Lg, A)
    BY <1>1, <2>3, SafeAgrees
  <2>5. Agree(now, applied[n], Len(applied[n]))
    BY <1>1, <1>2, <1>3, <1>4, <2>3, AgreeSymmetric, AgreeTransitive
  <2> QED BY <2>1, <2>3, <2>4, <2>5
<1>5. CASE ~(i > Len(applied[n]))
  <2>1. ApplyCommitted(n, i) = applied[n] /\ i <= Len(applied[n])
    BY <1>2, <1>5 DEF ApplyCommitted
  <2> QED BY <1>1, <1>2, <1>3, <2>1, AgreeReflexive
<1> QED BY <1>4, <1>5

-----------------------------------------------------------------------------
(* Steps that add nothing to the history *)

\* Terms may rise, leaders may retire, messages may be lost, and what is committed or applied
\* may change within what is safe.
LEMMA RaftQuiet ==
    ASSUME StateOK, StateOK', NEW Ld, NEW Lg, NEW A, RaftInv(Ld, Lg, A),
           log' = log, elected' = elected, \A v \in Server : term[v] <= term'[v],
           \A v \in Server : leads'[v] => leads[v] /\ term'[v] = term[v],
           CommitInv(Ld, Lg, A)', MessageInv(Ld, Lg, A)'
    PROVE  RaftInv(Ld, Lg, A)'
<1>x. /\ HistoryLogs(Ld, Lg, A) /\ LeaderInv(Ld, Lg) /\ LogInv(Ld, Lg) /\ AckInv(Ld, Lg, A)
      /\ KeepInv(Ld, Lg, A)
  BY DEF RaftInv
<1>t. \A v \in Server : term[v] \in Nat /\ term'[v] \in Nat /\ log[v] \in Logs
  BY DEF StateOK
<1>1. LeaderInv(Ld, Lg)'
  <2>1. ASSUME NEW t \in Nat, Ld[t] # None
        PROVE  t > 0 /\ t <= elected /\ t <= term'[Ld[t]] /\ IsQuorum({v \in Server : t <= term'[v]})
    <3>1. Ld[t] \in Server
      BY <1>x, <2>1 DEF HistoryLogs
    <3>2. t > 0 /\ t <= elected /\ t <= term[Ld[t]] /\ IsQuorum({v \in Server : t <= term[v]})
      BY <1>x, <2>1 DEF LeaderInv
    <3>3. {v \in Server : t <= term[v]} \subseteq {v \in Server : t <= term'[v]}
      BY <1>t
    <3>4. IsQuorum({v \in Server : t <= term'[v]})
      BY <3>2, <3>3, QuorumGrows
    <3> QED BY <1>t, <3>1, <3>2, <3>4
  <2> QED BY <1>x, <2>1 DEF LeaderInv
<1>2. LogInv(Ld, Lg)'
  <2>1. ASSUME NEW p \in Server PROVE TermsUpTo(log[p], term'[p])
    <3>1. TermsUpTo(log[p], term[p])
      BY <1>x DEF LogInv
    <3> QED BY <1>t, <3>1, LogFacts DEF TermsUpTo
  <2> QED BY <1>x, <2>1 DEF LogInv
<1>3. AckInv(Ld, Lg, A)'
  <2>1. ASSUME NEW v \in Server, NEW t \in Nat, A[v][t] > 0
        PROVE  /\ Ld[t] # None /\ t <= term'[v] /\ A[v][t] <= Len(Lg[t])
               /\ t = term'[v] => Agree(log[v], Lg[t], A[v][t])
    <3>1. /\ Ld[t] # None /\ t <= term[v] /\ A[v][t] <= Len(Lg[t])
          /\ t = term[v] => Agree(log[v], Lg[t], A[v][t])
      BY <1>x, <2>1 DEF AckInv
    <3> QED BY <1>t, <3>1
  <2> QED BY <1>x, <2>1 DEF AckInv
<1>4. KeepInv(Ld, Lg, A)'
  <2>1. ASSUME NEW t \in Nat, NEW i \in Nat, Choosable(Ld, Lg, A, t, i)'
        PROVE  Choosable(Ld, Lg, A, t, i)
    <3>1. Ld[t] # None /\ i <= Len(Lg[t]) /\ Grows(Ld, Lg, A, Ld, Lg, A)
      BY <1>x, <2>1, GrowsReflexive DEF Choosable
    <3> QED BY <1>x, <2>1, <3>1, ChoosableShrinks
  <2> QED BY <1>x, <2>1 DEF KeepInv
<1> QED BY <1>x, <1>1, <1>2, <1>3, <1>4 DEF RaftInv, HistoryLogs


-----------------------------------------------------------------------------
(* A leader appends an entry *)

\* A2 is A with v's acknowledgement of index i in term t.
Acknowledges(v, t, i, A, A2) ==
    /\ A2 \in [Server -> [Nat -> Nat]]
    /\ A2[v][t] = IF i > A[v][t] THEN i ELSE A[v][t]
    /\ \A w \in Server, u \in Nat : u # t \/ w # v => A2[w][u] = A[w][u]

LEMMA AcknowledgeMore ==
    ASSUME NEW A \in [Server -> [Nat -> Nat]], NEW v \in Server, NEW t \in Nat, NEW i \in Nat
    PROVE  \E A2 : Acknowledges(v, t, i, A, A2)
<1> DEFINE a == IF i > A[v][t] THEN i ELSE A[v][t]
           B == [A EXCEPT ![v] = [A[v] EXCEPT ![t] = a]]
<1>1. A[v][t] \in Nat
  OBVIOUS
<1>2. a \in Nat
  BY <1>1
<1> HIDE DEF a
<1>3. /\ B \in [Server -> [Nat -> Nat]] /\ B[v][t] = a
      /\ \A w \in Server, u \in Nat : u # t \/ w # v => B[w][u] = A[w][u]
  BY <1>2
<1> HIDE DEF B
<1>4. Acknowledges(v, t, i, A, B)
  BY <1>3 DEF Acknowledges, a
<1> QED BY <1>4

\* Only n holds the new entry, and n has gone no further than its term.
LEMMA RaftExtends ==
    ASSUME StateOK, StateOK', MessagesOK, NEW Ld, NEW Lg, NEW A, RaftInv(Ld, Lg, A),
           NEW n \in Server, leads[n], NEW e \in LogEntry, e.term = term[n],
           e.command # Barrier => \A i \in 1..Len(log[n]) : log[n][i].command # e.command,
           log' = [log EXCEPT ![n] = Append(log[n], e)],
           UNCHANGED <<term, leads, commit, elected>>, MessagesOK', MessageInv(Ld, Lg, A)',
           \A p \in Server : NodeSafe(log[p], applied'[p], commit[p], term[p], Ld, Lg, A)
    PROVE  \E Lg2, A2 : Grows(Ld, Lg, A, Ld, Lg2, A2) /\ RaftInv(Ld, Lg2, A2)'
<1>x. /\ HistoryLogs(Ld, Lg, A) /\ LeaderInv(Ld, Lg) /\ LogInv(Ld, Lg) /\ AckInv(Ld, Lg, A)
      /\ KeepInv(Ld, Lg, A) /\ MessageInv(Ld, Lg, A)
  BY DEF RaftInv
<1>t. PICK t \in Nat : t = term[n]
  BY DEF StateOK
<1>lg. PICK lg \in Logs : lg = log[n]
  BY DEF StateOK
<1>b. PICK b \in Logs : b = Append(lg, e)
  BY AppendFacts
<1>L. /\ Len(lg) \in Nat /\ Len(b) = Len(lg) + 1 /\ b[Len(lg) + 1] = e /\ \A i \in 1..Len(lg) : b[i] = lg[i]
      /\ Agree(b, lg, Len(lg))
  BY <1>b, AppendFacts, LogFacts
<1>0. /\ term' = term /\ leads' = leads /\ commit' = commit /\ elected' = elected
      /\ log'[n] = b /\ \A p \in Server \ {n} : log'[p] = log[p]
  BY <1>lg, <1>b DEF StateOK
<1>n. n # None /\ \A c \in Server : c # None
  BY ConstantAssumption
<1>c. \A p \in Server : term[p] \in Nat /\ log[p] \in Logs /\ log'[p] \in Logs /\ applied'[p] \in Logs
  BY DEF StateOK
<1>1. Ld[t] = n /\ Lg[t] = lg /\ A[n][t] = Len(lg)
  BY <1>t, <1>lg, <1>x DEF LeaderInv, AckInv
<1>l. \A l \in Server \ {n} : leads[l] => term[l] \in Nat \ {t}
  BY <1>1, <1>c, <1>x DEF LeaderInv
<1>q. PICK Lg2 : Lg2 \in [Nat -> Logs] /\ Lg2[t] = b /\ \A u \in Nat \ {t} : Lg2[u] = Lg[u]
  <2> DEFINE G == [Lg EXCEPT ![t] = b]
  <2>1. G \in [Nat -> Logs] /\ G[t] = b /\ \A u \in Nat \ {t} : G[u] = Lg[u]
    BY <1>x DEF HistoryLogs
  <2> HIDE DEF G
  <2> QED BY <2>1
<1>k. PICK k \in Nat : k = Len(lg) + 1 /\ k = Len(b)
  BY <1>L
<1>r0. PICK A2 : Acknowledges(n, t, k, A, A2)
  BY <1>x, AcknowledgeMore DEF HistoryLogs
<1>r. /\ A2 \in [Server -> [Nat -> Nat]] /\ A2[n][t] = k
      /\ \A v \in Server, u \in Nat : u # t \/ v # n => A2[v][u] = A[v][u]
  <2>1. k > A[n][t]
    BY <1>1, <1>k, <1>L
  <2> QED BY <1>r0, <2>1 DEF Acknowledges
<1>2. HistoryLogs(Ld, Lg, A) /\ HistoryLogs(Ld, Lg2, A2)
  <2>1. Ld \in [Nat -> Server \cup {None}] /\ HistoryLogs(Ld, Lg, A)
    BY <1>x DEF HistoryLogs
  <2>2. Lg2 \in [Nat -> Logs] /\ A2 \in [Server -> [Nat -> Nat]]
    BY <1>q, <1>r
  <2> QED BY <2>1, <2>2 DEF HistoryLogs
<1>a. \A v \in Server, u \in Nat : A[v][u] \in Nat /\ A2[v][u] \in Nat
  BY <1>2 DEF HistoryLogs
<1>3. Agree(b, lg, Len(lg)) /\ Agree(b, b, Len(b))
  <2>1. Len(b) <= Len(b) /\ Len(b) \in Nat
    BY <1>k
  <2> QED BY <1>L, <2>1, AgreeReflexive
<1>4. \A u \in Nat : /\ Lg[u] \in Logs /\ Lg2[u] \in Logs /\ Len(Lg[u]) \in Nat
                     /\ Agree(Lg2[u], Lg[u], Len(Lg[u])) /\ Agree(Lg[u], Lg2[u], Len(Lg[u]))
  <2> SUFFICES ASSUME NEW u \in Nat
               PROVE  /\ Lg[u] \in Logs /\ Lg2[u] \in Logs /\ Len(Lg[u]) \in Nat
                      /\ Agree(Lg2[u], Lg[u], Len(Lg[u])) /\ Agree(Lg[u], Lg2[u], Len(Lg[u]))
    OBVIOUS
  <2>1. Lg[u] \in Logs /\ Lg2[u] \in Logs
    BY <1>2 DEF HistoryLogs
  <2>2. Len(Lg[u]) \in Nat
    BY <2>1, LogFacts
  <2>3. Agree(Lg2[u], Lg[u], Len(Lg[u]))
    <3>1. CASE u = t
      BY <1>1, <1>3, <1>q, <3>1
    <3>2. CASE u # t
      <4>1. Len(Lg[u]) <= Len(Lg[u]) /\ Lg2[u] = Lg[u]
        BY <1>q, <2>2, <3>2
      <4> QED BY <2>1, <2>2, <4>1, AgreeReflexive
    <3> QED BY <3>1, <3>2
  <2> QED BY <2>1, <2>2, <2>3, AgreeSymmetric
<1>5. Grows(Ld, Lg, A, Ld, Lg2, A2)
  <2>1. ASSUME NEW v \in Server, NEW u \in Nat PROVE A[v][u] <= A2[v][u]
    <3>1. CASE u = t /\ v = n
      <4>1. A[v][u] = Len(lg) /\ A2[v][u] = k
        BY <1>1, <1>r, <3>1
      <4> QED BY <1>L, <1>k, <4>1
    <3>2. CASE u # t \/ v # n
      <4>1. A2[v][u] = A[v][u] /\ A[v][u] \in Nat
        BY <1>r, <1>a, <3>2
      <4> QED BY <4>1
    <3> QED BY <3>1, <3>2
  <2> QED BY <1>4, <2>1 DEF Grows
<1>g. \A x \in Logs : Good(x, Ld, Lg) => Good(x, Ld, Lg2)
  BY <1>2, <1>5, GoodGrows
<1>7. LeaderInv(Ld, Lg2)'
  <2>1. ASSUME NEW l \in Server, leads[l]
        PROVE  Ld[term[l]] = l /\ log'[l] = Lg2[term[l]]
    <3>1. CASE l = n
      BY <1>0, <1>1, <1>t, <1>q, <3>1
    <3>2. CASE l # n
      BY <1>0, <1>l, <1>q, <1>x, <2>1, <3>2 DEF LeaderInv
    <3> QED BY <3>1, <3>2
  <2> QED BY <1>0, <1>x, <2>1 DEF LeaderInv
<1>8. Good(b, Ld, Lg2) /\ TermsUpTo(b, t) /\ Unique(b)
  <2>1. Good(lg, Ld, Lg) /\ TermsUpTo(lg, t)
    BY <1>x, <1>t, <1>lg DEF LogInv
  <2>2. Good(lg, Ld, Lg2)
    BY <1>g, <2>1
  <2>3. ASSUME NEW i \in 1..Len(b)
        PROVE  Ld[b[i].term] # None /\ Agree(b, Lg2[b[i].term], i) /\ b[i].term <= t
    <3>1. CASE i = Len(lg) + 1
      BY <1>1, <1>3, <1>L, <1>t, <1>n, <1>q, <3>1
    <3>2. CASE i # Len(lg) + 1
      <4>1. i \in 1..Len(lg) /\ i \in Nat /\ i <= Len(lg)
        BY <1>L, <3>2
      <4>2. PICK w \in Nat : w = lg[i].term
        BY <4>1, LogFacts
      <4>3. b[i].term = w
        BY <1>L, <4>1, <4>2
      <4>4. Ld[w] # None /\ Agree(lg, Lg2[w], i) /\ w <= t
        BY <2>1, <2>2, <4>1, <4>2 DEF Good, TermsUpTo
      <4>5. Agree(b, Lg2[w], i)
        <5>1. Lg2[w] \in Logs /\ i <= i
          BY <1>4, <4>1
        <5> QED BY <1>3, <1>L, <4>1, <4>4, <5>1, AgreeTransitive
      <4> QED BY <4>3, <4>4, <4>5
    <3> QED BY <3>1, <3>2
  <2>4. Unique(lg)
    BY <1>1, <1>n, <1>x DEF LogInv
  <2>5. ASSUME NEW i \in 1..Len(b), NEW j \in 1..Len(b), b[i].command = b[j].command, b[i].command # Barrier
        PROVE  i = j
    <3>1. \A x \in 1..Len(lg) : e.command # Barrier => b[x].command # e.command
      BY <1>L, <1>lg
    <3>2. \A x \in 1..Len(b) : x = Len(lg) + 1 \/ x \in 1..Len(lg)
      BY <1>L
    <3>3. CASE i \in 1..Len(lg) /\ j \in 1..Len(lg)
      BY <1>L, <2>4, <2>5, <3>3 DEF Unique
    <3>4. CASE i = Len(lg) + 1 \/ j = Len(lg) + 1
      BY <1>L, <2>5, <3>1, <3>2, <3>4
    <3> QED BY <3>2, <3>3, <3>4
  <2> QED BY <2>3, <2>5 DEF Good, TermsUpTo, Unique
<1>9. LogInv(Ld, Lg2)'
  <2>1. ASSUME NEW p \in Server
        PROVE  Good(log'[p], Ld, Lg2) /\ TermsUpTo(log'[p], term[p])
    <3>1. CASE p = n
      BY <1>0, <1>8, <1>t, <3>1
    <3>2. CASE p # n
      BY <1>0, <1>c, <1>g, <1>x, <3>2 DEF LogInv
    <3> QED BY <3>1, <3>2
  <2>2. ASSUME NEW u \in Nat, Ld[u] # None
        PROVE  Good(Lg2[u], Ld, Lg2) /\ TermsUpTo(Lg2[u], u) /\ Unique(Lg2[u])
    <3>1. CASE u = t
      BY <1>8, <1>q, <3>1
    <3>2. CASE u # t
      BY <1>4, <1>g, <1>q, <1>x, <2>2, <3>2 DEF LogInv
    <3> QED BY <3>1, <3>2
  <2> QED BY <1>0, <2>1, <2>2 DEF LogInv
<1>11. MessageInv(Ld, Lg2, A2)'
  BY <1>2, <1>5, MessageTrueGrows DEF MessageInv, MessagesOK
<1>12. AckInv(Ld, Lg2, A2)'
  <2>1. ASSUME NEW v \in Server, NEW u \in Nat, A2[v][u] > 0
        PROVE  /\ Ld[u] # None /\ u <= term[v] /\ A2[v][u] <= Len(Lg2[u])
               /\ u = term[v] => Agree(log'[v], Lg2[u], A2[v][u])
    <3>1. CASE u = t /\ v = n
      <4>0. A2[v][u] = k /\ Ld[u] = n /\ Lg2[u] = b
        BY <1>1, <1>q, <1>r, <3>1
      <4>1. Ld[u] # None /\ A2[v][u] = Len(b) /\ Lg2[u] = b /\ Len(b) <= Len(b) /\ t <= t
        BY <1>k, <1>n, <4>0
      <4>2. u <= term[v] /\ log'[v] = b
        <5>1. term[v] = t /\ u = t /\ t <= t
          BY <1>t, <3>1
        <5> QED BY <1>0, <3>1, <5>1
      <4>3. Agree(b, b, Len(b))
        BY <1>3
      <4> QED BY <4>1, <4>2, <4>3
    <3>2. CASE u # t \/ v # n
      <4>1. A2[v][u] = A[v][u] /\ A[v][u] \in Nat
        BY <1>r, <1>a, <3>2
      <4>2. /\ Ld[u] # None /\ u <= term[v] /\ A[v][u] <= Len(Lg[u])
            /\ u = term[v] => Agree(log[v], Lg[u], A[v][u])
        BY <1>x, <2>1, <4>1 DEF AckInv
      <4>3. Len(Lg[u]) <= Len(Lg2[u]) /\ Len(Lg2[u]) \in Nat
        BY <1>4, LogFacts DEF Agree
      <4>4. ASSUME u = term[v] PROVE Agree(log'[v], Lg2[u], A[v][u])
        <5>1. v # n /\ log'[v] = log[v] /\ log[v] \in Logs /\ A[v][u] <= A[v][u]
          BY <1>0, <1>c, <1>t, <3>2, <4>1, <4>4
        <5>2. Agree(log[v], Lg2[u], A[v][u])
          BY <1>4, <4>1, <4>2, <4>4, <5>1, AgreeTransitive
        <5> QED BY <5>1, <5>2
      <4> QED BY <1>4, <4>1, <4>2, <4>3, <4>4
    <3> QED BY <3>1, <3>2
  <2>2. ASSUME NEW l \in Server, leads[l]
        PROVE  A2[l][term[l]] = Len(log'[l])
    <3>1. CASE l = n
      BY <1>0, <1>k, <1>r, <1>t, <3>1
    <3>2. CASE l # n
      BY <1>0, <1>l, <1>r, <1>x, <2>2, <3>2 DEF AckInv
    <3> QED BY <3>1, <3>2
  <2> QED BY <1>0, <2>1, <2>2 DEF AckInv
<1>13. KeepInv(Ld, Lg2, A2)'
  <2> SUFFICES ASSUME NEW u \in Nat, NEW i \in Nat, Choosable(Ld, Lg2, A2, u, i)'
               PROVE  /\ \A v \in Server : A2[v][u] >= i => Agree(log'[v], Lg2[u], i)
                      /\ \A w \in Nat : u < w /\ Ld[w] # None => Agree(Lg2[w], Lg2[u], i)
    BY DEF KeepInv
  <2>0. Ld[u] # None /\ i \in 1..Len(Lg2[u]) /\ IsQuorum({v \in Server : A2[v][u] >= i \/ term[v] <= u})
    BY <1>0 DEF Choosable
  <2>1. CASE i <= Len(Lg[u])
    <3>0. /\ \A x, y \in Logs : Agree(x, y, i) => i <= Len(x) /\ i <= Len(y)
          /\ Agree(Lg[u], Lg2[u], Len(Lg[u])) /\ Lg[u] \in Logs /\ Lg2[u] \in Logs /\ Len(Lg[u]) \in Nat
          /\ i <= i
      BY <1>4 DEF Agree
    <3>1. \A v \in Server : A2[v][u] >= i => A[v][u] >= i \/ term[v] <= u
      <4> SUFFICES ASSUME NEW v \in Server, A2[v][u] >= i PROVE A[v][u] >= i \/ term[v] <= u
        OBVIOUS
      <4>1. CASE u = t /\ v = n
        BY <1>c, <1>t, <4>1
      <4>2. CASE u # t \/ v # n
        BY <1>r, <4>2
      <4> QED BY <4>1, <4>2
    <3>2. Choosable(Ld, Lg, A, u, i)
      <4>1. \A v \in Server : term[v] <= term'[v]
        BY <1>0, <1>c
      <4> QED BY <1>2, <1>5, <2>0, <2>1, <3>1, <4>1, ChoosableShrinks
    <3>3. /\ \A v \in Server : A[v][u] >= i => Agree(log[v], Lg[u], i)
          /\ \A w \in Nat : u < w /\ Ld[w] # None => Agree(Lg[w], Lg[u], i)
      BY <1>x, <3>2 DEF KeepInv
    <3>4. \A v \in Server : A2[v][u] >= i => A[v][u] >= i
      <4> SUFFICES ASSUME NEW v \in Server, A2[v][u] >= i PROVE A[v][u] >= i
        OBVIOUS
      <4>1. CASE u = t /\ v = n
        BY <1>1, <2>1, <4>1
      <4>2. CASE u # t \/ v # n
        <5>1. A2[v][u] = A[v][u]
          BY <1>r, <4>2
        <5> QED BY <5>1
      <4> QED BY <4>1, <4>2
    <3>5. \A x \in Logs : Agree(x, Lg[u], i) => Agree(x, Lg2[u], i)
      BY <2>1, <3>0, AgreeTransitive
    <3>6. ASSUME NEW v \in Server, A2[v][u] >= i PROVE Agree(log'[v], Lg2[u], i)
      <4>1. Agree(log[v], Lg2[u], i)
        BY <1>c, <3>3, <3>4, <3>5, <3>6
      <4>2. CASE v = n
        <5>1. Agree(lg, Lg2[u], i) /\ i <= Len(lg)
          BY <1>lg, <3>0, <4>1, <4>2
        <5>2. Agree(b, Lg2[u], i)
          BY <1>3, <1>L, <3>0, <5>1, AgreeTransitive
        <5> QED BY <1>0, <4>2, <5>2
      <4>3. CASE v # n
        BY <1>0, <4>1, <4>3
      <4> QED BY <4>2, <4>3
    <3>8. ASSUME NEW w \in Nat, u < w, Ld[w] # None PROVE Agree(Lg2[w], Lg2[u], i)
      <4>1. Agree(Lg[w], Lg2[u], i) /\ Lg[w] \in Logs /\ Lg2[w] \in Logs /\ Len(Lg[w]) \in Nat
        BY <1>4, <3>3, <3>5, <3>8
      <4>2. i <= Len(Lg[w]) /\ Agree(Lg2[w], Lg[w], Len(Lg[w]))
        BY <1>4, <3>0, <4>1
      <4> QED BY <3>0, <4>1, <4>2, AgreeTransitive
    <3> QED BY <3>6, <3>8
  <2>2. CASE i > Len(Lg[u])
    <3>1. u = t /\ i = Len(lg) + 1
      <4>1. u = t
        BY <1>4, <1>q, <2>0, <2>2
      <4> QED BY <1>1, <1>L, <1>q, <2>0, <2>2, <4>1
    <3>2. \A v \in Server : A2[v][u] >= i => v = n
      <4> SUFFICES ASSUME NEW v \in Server, A2[v][t] >= Len(lg) + 1, v # n PROVE FALSE
        BY <3>1
      <4>1. A[v][t] >= Len(lg) + 1 /\ A[v][t] \in Nat
        BY <1>r, <1>a
      <4>2. A[v][t] <= Len(lg)
        <5>1. A[v][t] > 0
          BY <1>L, <4>1
        <5> QED BY <1>1, <1>x, <5>1 DEF AckInv
      <4> QED BY <1>L, <4>1, <4>2
    <3>3. ASSUME NEW v \in Server, A2[v][u] >= i PROVE Agree(log'[v], Lg2[u], i)
      <4>1. v = n /\ log'[v] = b /\ Lg2[u] = b /\ i = Len(b)
        BY <1>0, <1>k, <1>q, <3>1, <3>2, <3>3
      <4> QED BY <1>3, <4>1
    <3>5. ASSUME NEW w \in Nat, u < w, Ld[w] # None PROVE FALSE
      <4> DEFINE P == {v \in Server : A2[v][u] >= i \/ term[v] <= u}
                 Q == {v \in Server : w <= term[v]}
      <4>1. IsQuorum(P) /\ P \in SUBSET Server
        BY <2>0
      <4>2. IsQuorum(Q) /\ Q \in SUBSET Server
        BY <1>x, <3>5 DEF LeaderInv
      <4>3. PICK v \in P : v \in Q
        <5> HIDE DEF P, Q
        <5> QED BY <4>1, <4>2, QuorumsMeet
      <4>4. v \in Server /\ w <= term[v] /\ (A2[v][u] >= i \/ term[v] <= u)
        BY <4>3
      <4>6. A2[v][u] >= i
        BY <1>c, <3>5, <4>4
      <4>7. v = n
        BY <3>2, <4>4, <4>6
      <4> QED BY <1>t, <3>1, <3>5, <4>4, <4>7
    <3> QED BY <3>3, <3>5
  <2>3. i <= Len(Lg[u]) \/ i > Len(Lg[u])
    BY <1>4
  <2> QED BY <2>1, <2>2, <2>3
<1>14. CommitInv(Ld, Lg2, A2)'
  <2>1. ASSUME NEW p \in Server
        PROVE  /\ Safe(log'[p], commit[p], term[p], Ld, Lg2, A2)
               /\ Safe(applied'[p], Len(applied'[p]), term[p], Ld, Lg2, A2)
               /\ Agree(applied'[p], log'[p], Len(applied'[p]))
    <3>1. /\ commit[p] \in Nat /\ Len(applied'[p]) \in Nat /\ Len(log[p]) \in Nat
          /\ term[p] <= term[p] /\ Len(applied'[p]) <= Len(applied'[p])
      BY <1>c, LogFacts DEF StateOK
    <3>2. /\ Safe(log[p], commit[p], term[p], Ld, Lg, A)
          /\ Safe(applied'[p], Len(applied'[p]), term[p], Ld, Lg, A)
          /\ Agree(applied'[p], log[p], Len(applied'[p]))
      BY DEF NodeSafe
    <3>3. Agree(log'[p], log[p], Len(log[p])) /\ Agree(log[p], log'[p], Len(log[p]))
      <4>1. Agree(log'[p], log[p], Len(log[p]))
        <5>1. CASE p = n
          BY <1>0, <1>3, <1>lg, <5>1
        <5>2. CASE p # n
          <6>1. log'[p] = log[p] /\ Len(log[p]) <= Len(log[p])
            BY <1>0, <3>1, <5>2
          <6> QED BY <1>c, <3>1, <6>1, AgreeReflexive
        <5> QED BY <5>1, <5>2
      <4> QED BY <1>c, <3>1, <4>1, AgreeSymmetric
    <3>4. Safe(log'[p], commit[p], term[p], Ld, Lg2, A2)
      BY <1>2, <1>5, <1>c, <3>1, <3>2, <3>3, SafeExtends
    <3>5. Safe(applied'[p], Len(applied'[p]), term[p], Ld, Lg2, A2)
      BY <1>2, <1>5, <1>c, <3>1, <3>2, SafeGrows
    <3>6. Agree(applied'[p], log'[p], Len(applied'[p]))
      <4>1. Len(applied'[p]) <= Len(log[p])
        BY <3>2 DEF Agree
      <4> QED BY <1>c, <3>1, <3>2, <3>3, <4>1, AgreeTransitive
    <3> QED BY <3>4, <3>5, <3>6
  <2> QED BY <1>0, <2>1 DEF CommitInv, NodeSafe
<1>15. RaftInv(Ld, Lg2, A2)'
  BY <1>2, <1>7, <1>9, <1>11, <1>12, <1>13, <1>14 DEF RaftInv, HistoryLogs
<1> QED BY <1>5, <1>15

-----------------------------------------------------------------------------
(* A follower accepts entries *)

\* A follower takes over what a leader sent: it keeps what is safe, and acknowledges a prefix.
LEMMA RaftAccepts ==
    ASSUME StateOK, StateOK', MessagesOK, NEW n \in Server, NEW m \in msgs,
           m.type = "AppendEntries", m.dst = n, term[n] <= m.term,
           m.prev <= Len(log[n]), TermAt(log[n], m.prev) = m.prevTerm,
           applied' = applied, elected' = elected, term'[n] = m.term, ~leads'[n],
           log'[n] = MergeAfter(log[n], m.prev, m.entries),
           \/ commit'[n] = commit[n]
           \/ commit'[n] <= m.commit /\ commit'[n] <= m.prev + Len(m.entries),
           \A p \in Server \ {n} :
               term'[p] = term[p] /\ leads'[p] = leads[p] /\ log'[p] = log[p] /\ commit'[p] = commit[p],
           NEW r, IsMessage(r), r.type = "Response", r.src = n, r.term = m.term,
           r.match = m.prev + Len(m.entries),
           \A x \in msgs' : x \in msgs \/ x = r,
           NEW Ld, NEW Lg, NEW A, RaftInv(Ld, Lg, A)
    PROVE  \E A2 : Grows(Ld, Lg, A, Ld, Lg, A2) /\ RaftInv(Ld, Lg, A2)'
<1>x. /\ HistoryLogs(Ld, Lg, A) /\ LeaderInv(Ld, Lg) /\ LogInv(Ld, Lg) /\ AckInv(Ld, Lg, A)
      /\ KeepInv(Ld, Lg, A) /\ CommitInv(Ld, Lg, A) /\ MessageInv(Ld, Lg, A)
  BY DEF RaftInv
<1>t. PICK t \in Nat : t = m.term
  BY DEF MessagesOK, IsMessage
<1>i. /\ m.prev \in Nat /\ m.entries \in Logs /\ Len(m.entries) \in Nat /\ m.commit \in Nat
      /\ m.src \in Server
  BY LogFacts DEF MessagesOK, IsMessage
<1>lg. PICK lg \in Logs : lg = log[n]
  BY DEF StateOK
<1>b. PICK b \in Logs : b = log'[n]
  BY DEF StateOK
<1>L. PICK L \in Logs : L = Lg[t]
  BY <1>x DEF HistoryLogs
<1>k. PICK k \in Nat : k = m.prev + Len(m.entries)
  BY <1>i
<1>c. /\ \A v \in Server : term[v] \in Nat /\ term'[v] \in Nat /\ term[v] <= term'[v]
      /\ term[n] <= t /\ term'[n] = t
      /\ \A v \in Server : log[v] \in Logs /\ log'[v] \in Logs
  <2>1. /\ \A v \in Server : term[v] \in Nat /\ term'[v] \in Nat
        /\ \A v \in Server : log[v] \in Logs /\ log'[v] \in Logs
    BY DEF StateOK
  <2>2. term[n] <= t /\ term'[n] = t
    BY <1>t
  <2>3. \A v \in Server : term[v] <= term'[v]
    BY <2>1, <2>2
  <2> QED BY <2>1, <2>2, <2>3
<1>m0. AppendTrue(m, Ld, Lg, A)
  BY <1>x DEF MessageInv, MessageTrue
<1>1. /\ Ld[t] = m.src /\ Ld[t] # None /\ k <= Len(L) /\ m.src # n
      /\ \A j \in 1..Len(m.entries) : m.entries[j] = L[m.prev + j]
      /\ m.prevTerm = TermAt(L, m.prev)
      /\ Safe(L, m.commit, t, Ld, Lg, A)
  <2>1. m.src # None
    BY <1>i, ConstantAssumption
  <2> QED BY <1>m0, <1>t, <1>L, <1>k, <2>1 DEF AppendTrue
<1>h. HistoryLogs(Ld, Lg, A)
  BY <1>x
<1>2. Good(lg, Ld, Lg) /\ TermsUpTo(lg, term[n]) /\ Good(L, Ld, Lg) /\ TermsUpTo(L, t)
  BY <1>x, <1>lg, <1>L, <1>1 DEF LogInv
<1>len. Len(lg) \in Nat /\ Len(L) \in Nat /\ Len(b) \in Nat
  BY LogFacts
<1>3. \A i \in 1..Len(lg) : i <= Len(L) /\ lg[i].term = L[i].term => Agree(lg, L, i)
  BY <1>h, <1>2, GoodLogsMatch
<1>4. Agree(lg, L, m.prev)
  <2>1. m.prev <= Len(lg) /\ m.prev <= Len(L) /\ TermAt(lg, m.prev) = TermAt(L, m.prev)
    BY <1>1, <1>i, <1>k, <1>len, <1>lg
  <2>2. CASE m.prev = 0
    BY <1>len, <2>2 DEF Agree
  <2>3. CASE m.prev # 0
    <3>1. m.prev \in 1..Len(lg) /\ lg[m.prev].term = L[m.prev].term
      BY <1>i, <1>len, <2>1, <2>3 DEF TermAt
    <3> QED BY <1>3, <2>1, <3>1
  <2> QED BY <2>2, <2>3
<1>5. /\ Agree(b, L, k) /\ (\A i \in Nat : Agree(lg, L, i) => Agree(b, L, i))
      /\ b = lg \/ Len(b) = k
  <2>0. PICK inc \in Logs, prev \in Nat : inc = m.entries /\ prev = m.prev
    BY <1>i
  <2>k. prev + Len(inc) = k
    BY <1>k, <2>0
  <2>1. prev + Len(inc) <= Len(L) /\ prev <= Len(lg)
    BY <1>1, <1>lg, <2>0, <2>k
  <2>2. \A j \in 1..Len(inc) : inc[j] = L[prev + j]
    BY <1>1, <2>0
  <2>3. Agree(lg, L, prev)
    BY <1>4, <2>0
  <2> DEFINE r2 == MergeAfter(lg, prev, inc)
  <2>4. /\ Agree(r2, L, prev + Len(inc))
        /\ \A i \in Nat : Agree(lg, L, i) => Agree(r2, L, i)
        /\ r2 = lg \/ Len(r2) = prev + Len(inc)
    BY <2>1, <2>2, <2>3, MergeFollowsLeader
  <2>5. r2 = b
    BY <1>b, <1>lg, <2>0
  <2> HIDE DEF r2
  <2> QED BY <2>k, <2>4, <2>5
<1>6. Good(b, Ld, Lg) /\ TermsUpTo(b, t)
  <2>1. CASE b = lg
    <3>1. TermsUpTo(lg, t)
      BY <1>2, <1>c, LogFacts DEF TermsUpTo
    <3> QED BY <1>2, <2>1, <3>1
  <2>2. CASE Len(b) = k
    BY <1>h, <1>2, <1>5, <2>2, GoodPrefix
  <2> QED BY <1>5, <2>1, <2>2
<1>a0. A[n][t] \in Nat
  BY <1>h DEF HistoryLogs
<1>a. PICK a \in Nat : /\ a >= k /\ a >= A[n][t] /\ a <= Len(L) /\ Agree(b, L, a)
                      /\ a = IF k > A[n][t] THEN k ELSE A[n][t]
  <2>2. CASE k > A[n][t]
    BY <1>1, <1>5, <1>a0, <2>2
  <2>3. CASE k <= A[n][t]
    <3>1. CASE A[n][t] = 0
      BY <1>1, <1>5, <2>3, <3>1
    <3>2. CASE A[n][t] > 0
      <4>1. t <= term[n] /\ A[n][t] <= Len(L) /\ (t = term[n] => Agree(lg, L, A[n][t]))
        BY <1>x, <1>lg, <1>L, <3>2 DEF AckInv
      <4>2. Agree(lg, L, A[n][t])
        BY <1>c, <4>1
      <4>3. A[n][t] >= k /\ A[n][t] >= A[n][t] /\ A[n][t] <= Len(L) /\ Agree(b, L, A[n][t])
        BY <1>5, <1>a0, <2>3, <4>1, <4>2
      <4> QED BY <1>a0, <2>3, <4>3
    <3> QED BY <1>a0, <3>1, <3>2
  <2> QED BY <1>a0, <2>2, <2>3
<1>A0. PICK A2 : Acknowledges(n, t, k, A, A2)
  BY <1>h, AcknowledgeMore DEF HistoryLogs
<1>A. /\ A2 \in [Server -> [Nat -> Nat]] /\ A2[n][t] = a
      /\ \A v \in Server, u \in Nat : u # t \/ v # n => A2[v][u] = A[v][u]
  BY <1>a, <1>A0 DEF Acknowledges
<1>7. HistoryLogs(Ld, Lg, A2)
  BY <1>x, <1>A DEF HistoryLogs
<1>an. \A v \in Server, u \in Nat : A[v][u] \in Nat /\ A2[v][u] \in Nat
  BY <1>h, <1>7 DEF HistoryLogs
<1>8. Grows(Ld, Lg, A, Ld, Lg, A2)
  <2>1. ASSUME NEW v \in Server, NEW u \in Nat PROVE A[v][u] <= A2[v][u]
    <3>1. CASE u = t /\ v = n
      BY <1>a, <1>A, <1>an, <3>1
    <3>2. CASE u # t \/ v # n
      <4>1. A2[v][u] = A[v][u] /\ A[v][u] \in Nat
        BY <1>A, <1>an, <3>2
      <4> QED BY <4>1
    <3> QED BY <3>1, <3>2
  <2>2. \A u \in Nat : Agree(Lg[u], Lg[u], Len(Lg[u]))
    <3>1. \A u \in Nat : Lg[u] \in Logs
      BY <1>h DEF HistoryLogs
    <3>2. \A x \in Logs : Len(x) \in Nat /\ Agree(x, x, Len(x))
      BY LogFacts, AgreeReflexive
    <3> QED BY <3>1, <3>2
  <2> QED BY <2>1, <2>2 DEF Grows
<1>u. \A l \in Server : leads'[l] =>
          l # n /\ leads[l] /\ term'[l] = term[l] /\ log'[l] = log[l]
  OBVIOUS
<1>10. LeaderInv(Ld, Lg)'
  <2>1. ASSUME NEW u \in Nat, Ld[u] # None
        PROVE  /\ u > 0 /\ u <= elected' /\ u <= term'[Ld[u]]
               /\ IsQuorum({v \in Server : u <= term'[v]})
    <3>1. /\ Ld[u] \in Server /\ u > 0 /\ u <= elected /\ u <= term[Ld[u]]
          /\ IsQuorum({v \in Server : u <= term[v]})
      <4>1. Ld[u] \in Server
        BY <1>x, <2>1 DEF HistoryLogs
      <4> QED BY <1>x, <2>1, <4>1 DEF LeaderInv
    <3>2. {v \in Server : u <= term[v]} \subseteq {v \in Server : u <= term'[v]}
      BY <1>c
    <3>3. IsQuorum({v \in Server : u <= term'[v]})
      BY <3>1, <3>2, QuorumGrows
    <3> QED BY <1>c, <3>1, <3>3
  <2>2. \A l \in Server : leads'[l] => Ld[term'[l]] = l /\ log'[l] = Lg[term'[l]]
    BY <1>u, <1>x DEF LeaderInv
  <2>3. elected' = 0 \/ Ld[elected'] # None
    BY <1>x DEF LeaderInv
  <2> QED BY <2>1, <2>2, <2>3 DEF LeaderInv
<1>11. LogInv(Ld, Lg)'
  <2>1. ASSUME NEW p \in Server
        PROVE  Good(log'[p], Ld, Lg) /\ TermsUpTo(log'[p], term'[p])
    <3>1. CASE p = n
      BY <1>6, <1>b, <1>c, <3>1
    <3>2. CASE p # n
      BY <1>x, <3>2 DEF LogInv
    <3> QED BY <3>1, <3>2
  <2> QED BY <1>x, <2>1 DEF LogInv
<1>13. MessageInv(Ld, Lg, A2)'
  <2> SUFFICES ASSUME NEW x \in msgs' PROVE MessageTrue(x, Ld, Lg, A2)
    BY DEF MessageInv
  <2>1. CASE x = r
    <3>1. r.match <= A2[r.src][r.term]
      BY <1>a, <1>A, <1>k, <1>t
    <3> QED BY <2>1, <3>1 DEF MessageTrue
  <2>2. CASE x \in msgs
    BY <1>h, <1>7, <1>8, <1>x, <2>2, MessageTrueGrows DEF MessageInv, MessagesOK
  <2> QED BY <2>1, <2>2
<1>14. AckInv(Ld, Lg, A2)'
  <2>1. ASSUME NEW v \in Server, NEW u \in Nat, A2[v][u] > 0
        PROVE  /\ Ld[u] # None /\ u <= term'[v] /\ A2[v][u] <= Len(Lg[u])
               /\ u = term'[v] => Agree(log'[v], Lg[u], A2[v][u])
    <3>1. CASE u = t /\ v = n
      <4>1. A2[v][u] = a /\ Lg[u] = L /\ log'[v] = b /\ term'[v] = u /\ Ld[u] # None
        BY <1>1, <1>A, <1>b, <1>c, <1>L, <3>1
      <4> QED BY <1>a, <4>1
    <3>2. CASE u # t \/ v # n
      <4>1. A2[v][u] = A[v][u]
        BY <1>A, <3>2
      <4>2. /\ Ld[u] # None /\ u <= term[v] /\ A[v][u] <= Len(Lg[u])
            /\ u = term[v] => Agree(log[v], Lg[u], A[v][u])
        BY <1>x, <2>1, <4>1 DEF AckInv
      <4>3. u = term'[v] => v # n
        BY <1>c, <3>2
      <4> QED BY <1>c, <4>1, <4>2, <4>3
    <3> QED BY <3>1, <3>2
  <2>3. ASSUME NEW l \in Server, leads'[l]
        PROVE  A2[l][term'[l]] = Len(log'[l])
    <3>1. l # n /\ leads[l] /\ term'[l] = term[l] /\ log'[l] = log[l]
      BY <1>u, <2>3
    <3>2. A[l][term[l]] = Len(log[l])
      BY <1>x, <3>1 DEF AckInv
    <3>3. A2[l][term[l]] = A[l][term[l]]
      BY <1>A, <1>c, <3>1
    <3> QED BY <3>1, <3>2, <3>3
  <2> QED BY <2>1, <2>3 DEF AckInv
<1>15. KeepInv(Ld, Lg, A2)'
  <2> SUFFICES ASSUME NEW u \in Nat, NEW i \in Nat, Choosable(Ld, Lg, A2, u, i)'
               PROVE  /\ \A v \in Server : A2[v][u] >= i => Agree(log'[v], Lg[u], i)
                      /\ \A w \in Nat : u < w /\ Ld[w] # None => Agree(Lg[w], Lg[u], i)
    BY DEF KeepInv
  <2>0. Ld[u] # None /\ i \in 1..Len(Lg[u]) /\ i <= Len(Lg[u]) /\ Lg[u] \in Logs /\ i <= i /\ i > 0
    <3>1. Ld[u] # None /\ i \in 1..Len(Lg[u]) /\ Lg[u] \in Logs
      BY <1>h DEF Choosable, HistoryLogs
    <3> QED BY <3>1, LogFacts
  <2>1. Choosable(Ld, Lg, A, u, i)
    <3>1. \A v \in Server : A2[v][u] >= i => A[v][u] >= i \/ term[v] <= u
      <4> SUFFICES ASSUME NEW v \in Server, A2[v][u] >= i PROVE A[v][u] >= i \/ term[v] <= u
        OBVIOUS
      <4>1. CASE u = t /\ v = n
        BY <1>c, <4>1
      <4>2. CASE u # t \/ v # n
        BY <1>A, <4>2
      <4> QED BY <4>1, <4>2
    <3> QED BY <1>h, <1>7, <1>8, <1>c, <2>0, <3>1, ChoosableShrinks
  <2>2. /\ \A v \in Server : A[v][u] >= i => Agree(log[v], Lg[u], i)
        /\ \A w \in Nat : u < w /\ Ld[w] # None => Agree(Lg[w], Lg[u], i)
    BY <1>x, <2>1 DEF KeepInv
  <2>3. ASSUME NEW v \in Server, A2[v][u] >= i PROVE Agree(log'[v], Lg[u], i)
    <3>1. CASE v # n
      BY <1>A, <2>2, <2>3, <3>1
    <3>2. CASE v = n /\ u = t
      <4>1. Agree(b, L, i)
        BY <1>a, <1>A, <2>3, <3>2, AgreeDown
      <4> QED BY <1>b, <1>L, <3>2, <4>1
    <3>3. CASE v = n /\ u # t
      <4>1. A[n][u] >= i /\ A[n][u] > 0
        <5>1. A2[n][u] = A[n][u] /\ A[n][u] \in Nat
          BY <1>A, <1>an, <3>3
        <5> QED BY <2>0, <2>3, <3>3, <5>1
      <4>2. u < t
        <5>1. u <= term[n]
          BY <1>x, <4>1 DEF AckInv
        <5> QED BY <1>c, <3>3, <5>1
      <4>3. Agree(lg, Lg[u], i) /\ Agree(L, Lg[u], i)
        BY <1>1, <1>lg, <1>L, <2>2, <4>1, <4>2
      <4>4. Agree(Lg[u], L, i)
        BY <2>0, <4>3, AgreeSymmetric
      <4>5. Agree(lg, L, i)
        BY <2>0, <4>3, <4>4, AgreeTransitive
      <4>6. Agree(b, L, i)
        BY <1>5, <4>5
      <4>7. Agree(b, Lg[u], i)
        BY <2>0, <4>3, <4>6, AgreeTransitive
      <4> QED BY <1>b, <3>3, <4>7
    <3> QED BY <3>1, <3>2, <3>3
  <2> QED BY <2>2, <2>3
<1>16. CommitInv(Ld, Lg, A2)'
  <2>1. ASSUME NEW p \in Server
        PROVE  /\ applied[p] \in Logs /\ commit[p] \in Nat /\ Len(applied[p]) \in Nat
               /\ Safe(log[p], commit[p], term[p], Ld, Lg, A)
               /\ Safe(applied[p], Len(applied[p]), term[p], Ld, Lg, A)
               /\ Agree(applied[p], log[p], Len(applied[p]))
    BY <1>x, LogFacts DEF CommitInv, NodeSafe, StateOK
  <2>2. \A x \in Logs, i \in Nat : Safe(x, i, t, Ld, Lg, A) => Safe(x, i, t, Ld, Lg, A2)
    <3>1. t <= t
      OBVIOUS
    <3> QED BY <1>h, <1>7, <1>8, <3>1, SafeGrows
  <2>3. \A x \in Logs, i \in Nat, p \in Server :
            Safe(x, i, term[p], Ld, Lg, A) => Safe(x, i, term'[p], Ld, Lg, A2)
    BY <1>h, <1>7, <1>8, <1>c, SafeGrows
  <2>4. Safe(applied[n], Len(applied[n]), term'[n], Ld, Lg, A2) /\ Agree(applied[n], b, Len(applied[n]))
    <3> DEFINE x == applied[n]
    <3>1. x \in Logs /\ Len(x) \in Nat /\ Len(x) <= Len(x)
      BY <2>1
    <3>2. Agree(x, L, Len(x))
      BY <1>c, <1>h, <1>x, <1>1, <1>L, <2>1, SafeIsInLeader
    <3>3. Agree(lg, L, Len(x))
      <4>1. Agree(lg, x, Len(x))
        BY <1>lg, <2>1, <3>1, AgreeSymmetric
      <4> QED BY <3>1, <3>2, <4>1, AgreeTransitive
    <3>4. Agree(L, b, Len(x))
      BY <1>5, <3>1, <3>3, AgreeSymmetric
    <3>5. Agree(x, b, Len(x))
      BY <3>1, <3>2, <3>4, AgreeTransitive
    <3> QED BY <2>1, <2>3, <3>5
  <2>5. Safe(b, commit'[n], t, Ld, Lg, A2)
    <3>1. CASE commit'[n] = commit[n]
      <4> DEFINE i == commit[n]
      <4>1. i \in Nat /\ i <= i /\ Safe(lg, i, term[n], Ld, Lg, A)
        BY <1>lg, <2>1
      <4> HIDE DEF i
      <4>2. Agree(lg, L, i)
        BY <1>c, <1>h, <1>x, <1>1, <1>L, <4>1, SafeIsInLeader
      <4>3. Agree(L, lg, i) /\ Agree(b, L, i)
        BY <1>5, <4>1, <4>2, AgreeSymmetric
      <4>4. Agree(b, lg, i)
        BY <4>1, <4>3, AgreeTransitive
      <4>5. Safe(b, i, term[n], Ld, Lg, A)
        BY <1>c, <1>h, <4>1, <4>4, SafeAgrees
      <4> QED BY <1>c, <2>3, <3>1, <4>1, <4>5 DEF i
    <3>2. CASE commit'[n] <= m.commit /\ commit'[n] <= k
      <4>0. PICK i \in Nat : i = commit'[n]
        BY DEF StateOK
      <4>1. i <= m.commit /\ i <= k
        BY <3>2, <4>0
      <4>3. Agree(b, L, i)
        BY <1>5, <4>1, AgreeDown
      <4>4. Safe(b, i, t, Ld, Lg, A)
        BY <1>1, <1>h, <1>i, <4>1, <4>3, SafeAgrees
      <4> QED BY <2>2, <4>0, <4>4
    <3> QED BY <1>k, <3>1, <3>2
  <2>6. ASSUME NEW p \in Server
        PROVE  /\ Safe(log'[p], commit'[p], term'[p], Ld, Lg, A2)
               /\ Safe(applied[p], Len(applied[p]), term'[p], Ld, Lg, A2)
               /\ Agree(applied[p], log'[p], Len(applied[p]))
    <3>1. CASE p = n
      BY <1>b, <1>c, <2>4, <2>5, <3>1
    <3>2. CASE p # n
      <4>1. log'[p] = log[p] /\ commit'[p] = commit[p]
        BY <3>2
      <4> QED BY <1>c, <2>1, <2>3, <4>1
    <3> QED BY <3>1, <3>2
  <2> QED BY <2>6 DEF CommitInv, NodeSafe
<1>17. RaftInv(Ld, Lg, A2)'
  BY <1>7, <1>10, <1>11, <1>13, <1>14, <1>15, <1>16 DEF RaftInv, HistoryLogs
<1> QED BY <1>8, <1>17

-----------------------------------------------------------------------------
(* A node is elected *)

\* A log that is as up to date as one with a choosable entry has the entry too.
LEMMA UpToDateHasChoosable ==
    ASSUME StateOK, NEW Ld, NEW Lg, NEW A, HistoryLogs(Ld, Lg, A), LogInv(Ld, Lg),
           NEW u \in Nat, NEW i \in Nat, Ld[u] # None, i \in 1..Len(Lg[u]), Lg[u][i].term = u,
           \A w \in Nat : u < w /\ Ld[w] # None => Agree(Lg[w], Lg[u], i),
           NEW n \in Server, NEW v \in Server, Agree(log[v], Lg[u], i), UpToDate(n, v)
    PROVE  Agree(log[n], Lg[u], i)
<1>lg. PICK lg \in Logs : lg = log[v]
  BY DEF StateOK
<1>k. PICK k \in Logs : k = log[n]
  BY DEF StateOK
<1>g. Good(lg, Ld, Lg) /\ Good(k, Ld, Lg) /\ Agree(lg, Lg[u], i)
  BY <1>lg, <1>k DEF LogInv
<1>1. /\ Lg[u] \in Logs /\ Len(Lg[u]) \in Nat /\ Len(lg) \in Nat /\ Len(k) \in Nat
      /\ i >= 1 /\ i <= Len(lg) /\ lg[i].term = u
  <2>1. Lg[u] \in Logs
    BY DEF HistoryLogs
  <2>2. Len(Lg[u]) \in Nat /\ Len(lg) \in Nat /\ Len(k) \in Nat
    BY <2>1, LogFacts
  <2>3. i >= 1 /\ i <= Len(lg) /\ lg[i] = Lg[u][i]
    BY <1>g, <2>2 DEF Agree
  <2> QED BY <2>1, <2>2, <2>3
<1>up. \/ TermAt(k, Len(k)) > TermAt(lg, Len(lg))
       \/ TermAt(k, Len(k)) = TermAt(lg, Len(lg)) /\ Len(k) >= Len(lg)
  BY <1>lg, <1>k DEF UpToDate
<1>2. TermAt(lg, Len(lg)) \in Nat /\ u <= TermAt(lg, Len(lg))
  <2>1. i \in 1..Len(lg) /\ Len(lg) \in 1..Len(lg) /\ i <= Len(lg)
    BY <1>1
  <2>2. lg[i].term <= lg[Len(lg)].term
    BY <1>g, <2>1, TermsMonotone
  <2>3. TermAt(lg, Len(lg)) = lg[Len(lg)].term /\ lg[Len(lg)].term \in Nat
    BY <1>1, <2>1, LogFacts DEF TermAt
  <2> QED BY <1>1, <2>2, <2>3
<1>3. Len(k) # 0
  <2> SUFFICES ASSUME Len(k) = 0 PROVE FALSE
    OBVIOUS
  <2>1. TermAt(k, Len(k)) = 0
    BY DEF TermAt
  <2> QED BY <1>1, <1>2, <1>up, <2>1
<1> DEFINE j == Len(k)
           w == k[j].term
<1>4. j \in 1..Len(k) /\ j \in Nat /\ w \in Nat /\ TermAt(k, Len(k)) = w /\ j >= 1
  <2>1. j \in 1..Len(k)
    BY <1>1, <1>3
  <2> QED BY <1>1, <1>3, <2>1, LogFacts DEF TermAt
<1>5. Ld[w] # None /\ Agree(k, Lg[w], j)
  BY <1>4, <1>g DEF Good
<1>j. j = Len(k)
  OBVIOUS
<1> HIDE DEF j, w
<1>7. Lg[w] \in Logs /\ Len(Lg[w]) \in Nat
  BY <1>4, LogFacts DEF HistoryLogs
<1>8. CASE w = u
  <2>1. i <= j
    BY <1>1, <1>2, <1>4, <1>8, <1>j, <1>up
  <2> QED BY <1>1, <1>4, <1>5, <1>8, <1>k, <2>1, AgreeDown
<1>9. CASE w > u
  <2>1. Agree(Lg[w], Lg[u], i)
    BY <1>4, <1>5, <1>9
  <2>2. i <= j
    <3> SUFFICES ASSUME j < i PROVE FALSE
      BY <1>4
    <3>1. k[j] = Lg[w][j] /\ Lg[w][j] = Lg[u][j] /\ k[j].term = w /\ j \in 1..Len(Lg[u])
      BY <1>1, <1>4, <1>5, <1>7, <2>1 DEF Agree, w
    <3>2. Lg[u][j].term <= u
      BY <3>1 DEF LogInv, TermsUpTo
    <3> QED BY <1>4, <1>9, <3>1, <3>2
  <2>3. Agree(k, Lg[u], i)
    <3>1. i <= i
      OBVIOUS
    <3> QED BY <1>1, <1>4, <1>5, <1>7, <2>1, <2>2, <3>1, AgreeTransitive
  <2> QED BY <1>k, <2>3
<1>10. w >= u
  BY <1>1, <1>2, <1>4, <1>up
<1> QED BY <1>4, <1>8, <1>9, <1>10

\* A majority was below the new term, so it is nobody else's, and by its voters the new leader
\* has all that is choosable.
LEMMA RaftElects ==
    ASSUME StateOK, StateOK', MessagesOK, NEW n \in Server, NEW S \in SUBSET Peers(n), Campaign(n, S),
           IsQuorum({n} \cup {v \in S : UpToDate(n, v)}),
           NEW Ld, NEW Lg, NEW A, RaftInv(Ld, Lg, A)
    PROVE  /\ Ld[term[n] + 1] = None
           /\ \E Ld2, Lg2, A2 : Grows(Ld, Lg, A, Ld2, Lg2, A2) /\ RaftInv(Ld2, Lg2, A2)'
<1>x. /\ HistoryLogs(Ld, Lg, A) /\ LeaderInv(Ld, Lg) /\ LogInv(Ld, Lg) /\ AckInv(Ld, Lg, A)
      /\ KeepInv(Ld, Lg, A) /\ CommitInv(Ld, Lg, A) /\ MessageInv(Ld, Lg, A)
  BY DEF RaftInv
<1>t. PICK t \in Nat : t = term[n] + 1
  BY DEF StateOK
<1>lg. PICK lg \in Logs : lg = log[n]
  BY DEF StateOK
<1>Q. PICK Q : Q = {n} \cup {v \in S : UpToDate(n, v)}
  OBVIOUS
<1>0. /\ log' = log /\ applied' = applied /\ commit' = commit /\ msgs' = msgs
      /\ \A v \in S : term[v] < t
      /\ \A k \in Server : term'[k] = IF k \in S \cup {n} THEN t ELSE term[k]
      /\ \A k \in Server \ {n} : leads'[k] => k \notin S /\ leads[k]
      /\ leads'[n]
      /\ elected' = IF t > elected THEN t ELSE elected
  BY <1>t DEF Campaign
<1>c. /\ \A v \in Server : term[v] \in Nat /\ term'[v] \in Nat /\ term[v] <= term'[v] /\ log[v] \in Logs
      /\ term[n] < t /\ term'[n] = t /\ t > 0 /\ elected \in Nat
  <2>1. /\ \A v \in Server : term[v] \in Nat /\ term'[v] \in Nat /\ log[v] \in Logs
        /\ elected \in Nat
    BY DEF StateOK
  <2>2. term[n] < t /\ term'[n] = t /\ t > 0
    BY <1>0, <1>t, <2>1
  <2>3. \A v \in S \cup {n} : term[v] < t
    BY <1>0, <2>2
  <2>4. \A v \in Server : term[v] <= term'[v]
    BY <1>0, <2>1, <2>3
  <2> QED BY <2>1, <2>2, <2>4
<1>1. t \in Nat /\ lg \in Logs /\ Len(lg) \in Nat /\ t = term'[n] /\ lg = log'[n]
  BY <1>0, <1>c, <1>lg, LogFacts
<1>2. (\A i \in 1..Len(lg) : lg[i].term < t) /\ Good(lg, Ld, Lg) /\ Unique(lg)
  <2>1. Good(lg, Ld, Lg) /\ TermsUpTo(lg, term[n])
    BY <1>lg, <1>x DEF LogInv
  <2>2. Unique(lg)
    BY <1>x, <2>1, GoodIsUnique
  <2> QED BY <1>c, <2>1, <2>2, LogFacts DEF TermsUpTo
<1>3. /\ Q \in SUBSET Server /\ IsQuorum(Q)
      /\ \A v \in Q : v \in Server /\ term[v] < t /\ term'[v] = t /\ (v = n \/ UpToDate(n, v))
  <2>1. Q \in SUBSET Server /\ IsQuorum(Q) /\ Q \subseteq S \cup {n}
    BY <1>Q DEF Peers
  <2>2. \A v \in Q : v = n \/ UpToDate(n, v)
    BY <1>Q
  <2> QED BY <1>0, <1>c, <2>1, <2>2
<1>4. Ld[t] = None
  <2> SUFFICES ASSUME Ld[t] # None PROVE FALSE
    OBVIOUS
  <2> DEFINE P == {v \in Server : t <= term[v]}
  <2>1. IsQuorum(P) /\ P \in SUBSET Server
    BY <1>x DEF LeaderInv
  <2>2. PICK v \in Q : v \in P
    <3> HIDE DEF P
    <3> QED BY <1>3, <2>1, QuorumsMeet
  <2> QED BY <1>3, <1>c, <2>2
<1>5. \A v \in Server : A[v][t] = 0
  <2>1. \A v \in Server : A[v][t] \in Nat
    BY <1>1, <1>x DEF HistoryLogs
  <2> QED BY <1>1, <1>4, <1>x, <2>1 DEF AckInv
<1>p. PICK Ld2 : /\ Ld2 \in [Nat -> Server \cup {None}] /\ Ld2[t] = n
                 /\ \A u \in Nat \ {t} : Ld2[u] = Ld[u]
  <2> DEFINE D == [Ld EXCEPT ![t] = n]
  <2>1. D \in [Nat -> Server \cup {None}] /\ D[t] = n /\ \A u \in Nat \ {t} : D[u] = Ld[u]
    BY <1>1, <1>x DEF HistoryLogs
  <2> HIDE DEF D
  <2> QED BY <2>1
<1>q. PICK Lg2 : Lg2 \in [Nat -> Logs] /\ Lg2[t] = lg /\ \A u \in Nat \ {t} : Lg2[u] = Lg[u]
  <2> DEFINE G == [Lg EXCEPT ![t] = lg]
  <2>1. G \in [Nat -> Logs] /\ G[t] = lg /\ \A u \in Nat \ {t} : G[u] = Lg[u]
    BY <1>1, <1>x DEF HistoryLogs
  <2> HIDE DEF G
  <2> QED BY <2>1
<1>k. PICK k \in Nat : k = Len(lg)
  BY <1>1
<1>r0. PICK A2 : Acknowledges(n, t, k, A, A2)
  BY <1>x, AcknowledgeMore DEF HistoryLogs
<1>r. /\ A2 \in [Server -> [Nat -> Nat]] /\ A2[n][t] = k
      /\ \A v \in Server, u \in Nat : u # t \/ v # n => A2[v][u] = A[v][u]
  <2>1. A2[n][t] = k
    BY <1>5, <1>r0 DEF Acknowledges
  <2> QED BY <1>r0, <2>1 DEF Acknowledges
<1>6. /\ Ld2 \in [Nat -> Server \cup {None}] /\ Lg2 \in [Nat -> Logs] /\ A2 \in [Server -> [Nat -> Nat]]
      /\ Ld2[t] = n /\ Lg2[t] = lg /\ A2[n][t] = k
      /\ \A u \in Nat \ {t} : Ld2[u] = Ld[u] /\ Lg2[u] = Lg[u] /\ \A v \in Server : A2[v][u] = A[v][u]
      /\ \A v \in Server \ {n} : A2[v][t] = A[v][t]
  BY <1>p, <1>q, <1>r
<1>7. HistoryLogs(Ld, Lg, A) /\ HistoryLogs(Ld2, Lg2, A2)
  BY <1>6, <1>x DEF HistoryLogs
<1>8. Grows(Ld, Lg, A, Ld2, Lg2, A2)
  <2>1. \A u \in Nat : Ld[u] # None => Ld2[u] = Ld[u] /\ Agree(Lg2[u], Lg[u], Len(Lg[u]))
    <3>1. \A u \in Nat : Agree(Lg[u], Lg[u], Len(Lg[u]))
      <4>1. \A u \in Nat : Lg[u] \in Logs
        BY <1>7 DEF HistoryLogs
      <4>2. \A x \in Logs : Len(x) \in Nat /\ Agree(x, x, Len(x))
        BY LogFacts, AgreeReflexive
      <4> QED BY <4>1, <4>2
    <3> QED BY <1>4, <1>6, <3>1
  <2>2. \A v \in Server, u \in Nat : A[v][u] \in Nat
    BY <1>7 DEF HistoryLogs
  <2>3. ASSUME NEW v \in Server, NEW u \in Nat PROVE A[v][u] <= A2[v][u]
    <3>1. CASE u = t /\ v = n
      <4>1. A[v][u] = 0 /\ A2[v][u] = k
        BY <1>5, <1>6, <3>1
      <4> QED BY <4>1
    <3>2. CASE u # t \/ v # n
      <4>1. A2[v][u] = A[v][u]
        BY <1>6, <3>2
      <4> QED BY <2>2, <4>1
    <3> QED BY <3>1, <3>2
  <2> QED BY <2>1, <2>3 DEF Grows
<1>g. \A x \in Logs : Good(x, Ld, Lg) => Good(x, Ld2, Lg2)
  BY <1>7, <1>8, GoodGrows
<1>n. n # None /\ \A c \in Server : c # None
  BY ConstantAssumption
<1>l. \A l \in Server \ {n} : leads'[l] =>
          leads[l] /\ term'[l] = term[l] /\ term[l] \in Nat \ {t}
  <2> SUFFICES ASSUME NEW l \in Server \ {n}, leads'[l]
               PROVE  leads[l] /\ term'[l] = term[l] /\ term[l] \in Nat \ {t}
    OBVIOUS
  <2>1. leads[l] /\ term'[l] = term[l]
    BY <1>0
  <2>2. Ld[term[l]] # None
    BY <1>n, <1>x, <2>1 DEF LeaderInv
  <2> QED BY <1>4, <1>c, <2>1, <2>2
<1>10. LeaderInv(Ld2, Lg2)'
  <2>1. IsQuorum({v \in Server : t <= term'[v]})
    <3>1. Q \subseteq {v \in Server : t <= term'[v]}
      BY <1>3
    <3> QED BY <1>3, <3>1, QuorumGrows
  <2>2. ASSUME NEW u \in Nat, Ld2[u] # None
        PROVE  /\ u > 0 /\ u <= elected' /\ u <= term'[Ld2[u]]
               /\ IsQuorum({v \in Server : u <= term'[v]})
    <3>1. CASE u = t
      <4>1. u > 0 /\ u <= elected' /\ Ld2[u] = n /\ u <= term'[n]
        BY <1>0, <1>6, <1>c, <3>1
      <4> QED BY <2>1, <3>1, <4>1
    <3>2. CASE u # t
      <4>1. Ld2[u] = Ld[u]
        BY <1>6, <3>2
      <4>2. Ld[u] \in Server
        BY <1>7, <2>2, <4>1 DEF HistoryLogs
      <4>3. /\ u > 0 /\ u <= elected /\ u <= term[Ld[u]]
            /\ IsQuorum({v \in Server : u <= term[v]})
        BY <1>x, <2>2, <4>1 DEF LeaderInv
      <4>4. {v \in Server : u <= term[v]} \subseteq {v \in Server : u <= term'[v]}
        BY <1>c
      <4>5. IsQuorum({v \in Server : u <= term'[v]})
        BY <4>3, <4>4, QuorumGrows
      <4>6. u <= elected' /\ u <= term'[Ld[u]]
        BY <1>0, <1>c, <4>2, <4>3
      <4> QED BY <4>1, <4>3, <4>5, <4>6
    <3> QED BY <3>1, <3>2
  <2>3. ASSUME NEW l \in Server, leads'[l]
        PROVE  Ld2[term'[l]] = l /\ log'[l] = Lg2[term'[l]]
    <3>1. CASE l = n
      BY <1>1, <1>6, <3>1
    <3>2. CASE l # n
      <4>1. leads[l] /\ term'[l] = term[l] /\ term[l] \in Nat \ {t}
        BY <1>l, <2>3, <3>2
      <4>2. Ld[term[l]] = l /\ log[l] = Lg[term[l]]
        BY <1>x, <4>1 DEF LeaderInv
      <4>3. Ld2[term[l]] = Ld[term[l]] /\ Lg2[term[l]] = Lg[term[l]]
        BY <1>6, <4>1
      <4> QED BY <1>0, <4>1, <4>2, <4>3
    <3> QED BY <3>1, <3>2
  <2>4. elected' = 0 \/ Ld2[elected'] # None
    <3>1. CASE elected' = t
      BY <1>6, <1>n, <3>1
    <3>2. CASE elected' # t
      <4>1. elected' = elected
        BY <1>0, <3>2
      <4> QED BY <1>6, <1>c, <1>x, <3>2, <4>1 DEF LeaderInv
    <3> QED BY <3>1, <3>2
  <2> QED BY <2>2, <2>3, <2>4 DEF LeaderInv
<1>11. LogInv(Ld2, Lg2)'
  <2>1. ASSUME NEW p \in Server
        PROVE  Good(log[p], Ld2, Lg2) /\ TermsUpTo(log[p], term'[p])
    <3>1. Good(log[p], Ld, Lg) /\ TermsUpTo(log[p], term[p])
      BY <1>x DEF LogInv
    <3>2. TermsUpTo(log[p], term'[p])
      BY <1>c, <3>1, LogFacts DEF TermsUpTo
    <3> QED BY <1>c, <1>g, <3>1, <3>2
  <2>2. ASSUME NEW u \in Nat, Ld2[u] # None
        PROVE  Good(Lg2[u], Ld2, Lg2) /\ TermsUpTo(Lg2[u], u) /\ Unique(Lg2[u])
    <3>1. CASE u = t
      <4>1. TermsUpTo(lg, t)
        BY <1>1, <1>2, LogFacts DEF TermsUpTo
      <4> QED BY <1>1, <1>2, <1>6, <1>g, <3>1, <4>1
    <3>2. CASE u # t
      <4>1. Good(Lg[u], Ld, Lg) /\ TermsUpTo(Lg[u], u) /\ Unique(Lg[u]) /\ Lg[u] \in Logs
        BY <1>6, <1>7, <1>x, <2>2, <3>2 DEF LogInv, HistoryLogs
      <4> QED BY <1>6, <1>g, <3>2, <4>1
    <3> QED BY <3>1, <3>2
  <2> QED BY <1>0, <2>1, <2>2 DEF LogInv
<1>13. MessageInv(Ld2, Lg2, A2)'
  BY <1>0, <1>7, <1>8, <1>x, MessageTrueGrows DEF MessageInv, MessagesOK
<1>14. AckInv(Ld2, Lg2, A2)'
  <2>1. ASSUME NEW v \in Server, NEW u \in Nat, A2[v][u] > 0
        PROVE  /\ Ld2[u] # None /\ u <= term'[v] /\ A2[v][u] <= Len(Lg2[u])
               /\ u = term'[v] => Agree(log'[v], Lg2[u], A2[v][u])
    <3>1. CASE u = t /\ v = n
      <4>1. Agree(lg, lg, Len(lg))
        <5>1. Len(lg) <= Len(lg)
          BY <1>1
        <5> QED BY <1>1, <5>1, AgreeReflexive
      <4>2. Ld2[u] # None /\ Lg2[u] = lg /\ A2[v][u] = Len(lg) /\ log'[v] = lg
        BY <1>1, <1>6, <1>k, <1>n, <3>1
      <4>3. u <= term'[v] /\ Len(lg) <= Len(lg)
        BY <1>1, <3>1
      <4> QED BY <4>1, <4>2, <4>3
    <3>2. CASE u = t /\ v # n
      <4>1. A2[v][u] = 0
        BY <1>5, <1>6, <3>2
      <4> QED BY <2>1, <4>1
    <3>3. CASE u # t
      <4>1. A2[v][u] = A[v][u] /\ Ld2[u] = Ld[u] /\ Lg2[u] = Lg[u]
        BY <1>6, <3>3
      <4>2. /\ Ld[u] # None /\ u <= term[v] /\ A[v][u] <= Len(Lg[u])
            /\ u = term[v] => Agree(log[v], Lg[u], A[v][u])
        BY <1>x, <2>1, <4>1 DEF AckInv
      <4>3. u <= term'[v] /\ (u = term'[v] => u = term[v])
        BY <1>c, <4>2
      <4> QED BY <1>0, <4>1, <4>2, <4>3
    <3> QED BY <3>1, <3>2, <3>3
  <2>3. ASSUME NEW l \in Server, leads'[l]
        PROVE  A2[l][term'[l]] = Len(log'[l])
    <3>1. CASE l = n
      BY <1>1, <1>6, <1>k, <3>1
    <3>2. CASE l # n
      <4>1. leads[l] /\ term'[l] = term[l] /\ term[l] \in Nat \ {t}
        BY <1>l, <2>3, <3>2
      <4>2. A[l][term[l]] = Len(log[l])
        BY <1>x, <4>1 DEF AckInv
      <4>3. A2[l][term[l]] = A[l][term[l]]
        BY <1>6, <4>1
      <4> QED BY <1>0, <4>1, <4>2, <4>3
    <3> QED BY <3>1, <3>2
  <2> QED BY <2>1, <2>3 DEF AckInv
<1>15. KeepInv(Ld2, Lg2, A2)'
  <2> SUFFICES ASSUME NEW u \in Nat, NEW i \in Nat, Choosable(Ld2, Lg2, A2, u, i)'
               PROVE  /\ \A v \in Server : A2[v][u] >= i => Agree(log'[v], Lg2[u], i)
                      /\ \A w \in Nat : u < w /\ Ld2[w] # None => Agree(Lg2[w], Lg2[u], i)
    BY DEF KeepInv
  <2>1. u # t
    <3> SUFFICES ASSUME u = t PROVE FALSE
      OBVIOUS
    <3>1. i \in 1..Len(lg) /\ lg[i].term = t
      BY <1>6 DEF Choosable
    <3>2. lg[i].term < t
      BY <1>2, <3>1
    <3> QED BY <1>1, <3>1, <3>2
  <2>2. Ld2[u] = Ld[u] /\ Lg2[u] = Lg[u] /\ \A v \in Server : A2[v][u] = A[v][u]
    BY <1>6, <2>1
  <2>0. Ld[u] # None /\ i \in 1..Len(Lg[u]) /\ Lg[u][i].term = u /\ i <= Len(Lg[u])
    <3>1. Ld[u] # None /\ i \in 1..Len(Lg[u]) /\ Lg[u][i].term = u
      BY <2>2 DEF Choosable
    <3> QED BY <3>1
  <2> DEFINE P == {v \in Server : A[v][u] >= i \/ term'[v] <= u}
  <2>3. P \in SUBSET Server /\ IsQuorum(P)
    <3>1. {v \in Server : A2[v][u] >= i \/ term'[v] <= u} = P
      BY <2>2
    <3> QED BY <3>1 DEF Choosable
  <2>c. Choosable(Ld, Lg, A, u, i)
    <3>1. \A v \in Server : A2[v][u] >= i => A[v][u] >= i \/ term[v] <= u
      BY <2>2
    <3> QED BY <1>7, <1>8, <1>c, <2>0, <3>1, ChoosableShrinks
  <2>4. /\ \A v \in Server : A[v][u] >= i => Agree(log[v], Lg[u], i)
        /\ \A w \in Nat : u < w /\ Ld[w] # None => Agree(Lg[w], Lg[u], i)
    BY <1>x, <2>c DEF KeepInv
  <2>5. ASSUME u < t PROVE Agree(lg, Lg[u], i)
    <3>1. PICK v \in P : v \in Q
      <4> HIDE DEF P
      <4> QED BY <1>3, <2>3, QuorumsMeet
    <3>2. v \in Server /\ term'[v] = t /\ (v = n \/ UpToDate(n, v))
      BY <1>3, <3>1
    <3>3. A[v][u] >= i
      BY <1>1, <2>5, <3>1, <3>2
    <3>4. Agree(log[v], Lg[u], i)
      BY <2>4, <3>2, <3>3
    <3>5. CASE v = n
      BY <1>lg, <3>4, <3>5
    <3>6. CASE UpToDate(n, v)
      <4>1. Agree(log[n], Lg[u], i)
        BY <1>7, <1>x, <2>0, <2>4, <3>2, <3>4, <3>6, UpToDateHasChoosable
      <4> QED BY <1>lg, <4>1
    <3> QED BY <3>2, <3>5, <3>6
  <2>6. ASSUME NEW w \in Nat, u < w, Ld2[w] # None
        PROVE  Agree(Lg2[w], Lg2[u], i)
    <3>1. CASE w = t
      BY <1>6, <2>2, <2>5, <2>6, <3>1
    <3>2. CASE w # t
      BY <1>6, <2>2, <2>4, <2>6, <3>2
    <3> QED BY <3>1, <3>2
  <2> QED BY <1>0, <2>2, <2>4, <2>6
<1>16. CommitInv(Ld2, Lg2, A2)'
  <2>1. ASSUME NEW p \in Server
        PROVE  NodeSafe(log[p], applied[p], commit[p], term'[p], Ld2, Lg2, A2)
    <3>1. log[p] \in Logs /\ applied[p] \in Logs /\ commit[p] \in Nat
      BY DEF StateOK
    <3>2. NodeSafe(log[p], applied[p], commit[p], term[p], Ld, Lg, A)
      BY <1>x DEF CommitInv
    <3> QED BY <1>7, <1>8, <1>c, <3>1, <3>2, NodeSafeGrows
  <2> QED BY <1>0, <2>1 DEF CommitInv
<1>17. RaftInv(Ld2, Lg2, A2)'
  BY <1>7, <1>10, <1>11, <1>13, <1>14, <1>15, <1>16 DEF RaftInv, HistoryLogs
<1> QED BY <1>4, <1>8, <1>17, <1>t

-----------------------------------------------------------------------------
(* The invariant of the operation *)

OpFields == {"kind", "request", "leader", "term", "stage", "target", "commit", "attempts", "next", "match",
             "todo", "acks", "probes", "must", "begun"}

ProbeFields == {"prev", "count", "heard", "latest", "handled"}

IsOperation(o) ==
    /\ DOMAIN o = OpFields
    /\ o.leader \in Server /\ o.term \in Nat /\ o.commit \in Nat /\ o.begun \in Nat
    /\ o.next \in [Peers(o.leader) -> Nat \ {0}] /\ o.match \in [Peers(o.leader) -> Nat]
    /\ o.todo \subseteq Peers(o.leader) /\ o.leader \in o.acks /\ o.acks \subseteq Server
    /\ DOMAIN o.probes \subseteq Peers(o.leader)
    /\ \A p \in DOMAIN o.probes :
          DOMAIN o.probes[p] = ProbeFields /\ o.probes[p].prev \in Nat /\ o.probes[p].count \in Nat

OpOK == op # None => IsOperation(op)

\* What the replicator believes of its leader's log, of the commit index and of its peers is
\* true, and the index that a read waits for is an entry of the leader's own term.
OperationTrue(o, Ld, Lg, A) ==
    /\ Ld[o.term] = o.leader
    /\ Safe(Lg[o.term], o.commit, o.term, Ld, Lg, A)
    /\ \A p \in Peers(o.leader) : o.match[p] <= A[p][o.term] /\ o.next[p] <= Len(Lg[o.term]) + 1
    /\ \A p \in DOMAIN o.probes :
          "ok" \in o.probes[p].heard => o.probes[p].prev + o.probes[p].count <= A[p][o.term]
    /\ o.kind = "read" /\ o.stage = "commit" =>
          o.target \in 1..Len(Lg[o.term]) /\ Lg[o.term][o.target].term = o.term

OpTrue(Ld, Lg, A) == op # None => OperationTrue(op, Ld, Lg, A)

\* A read that is being confirmed has a committed entry of its own term, and a CheckQuorum
\* round has a probe for each peer.
StageInv ==
    /\ op # None /\ op.stage = "confirm" /\ Authorized(op) =>
         \E c \in Nat : 1 <= c /\ c <= commit[op.leader] /\ c <= Len(log[op.leader])
                        /\ log[op.leader][c].term = op.term
    /\ op # None /\ op.kind = "check" => DOMAIN op.probes = Peers(op.leader)

\* v had reached the highest term with a leader when the operation began, so whatever it
\* answers since, it answers for that term or a later one.
FreshVoter(v) ==
    /\ op.begun <= term[v]
    /\ v \in op.acks => op.begun <= op.term
    /\ v \in DOMAIN op.probes => op.probes[v].heard = {} \/ op.begun <= op.term
    /\ \A m \in msgs : m.type = "Response" /\ m.src = v /\ m.fresh => op.begun <= m.term

FreshInv == op # None => \E Q \in SUBSET Server : IsQuorum(Q) /\ \A v \in Q : FreshVoter(v)

\* Leaders of term b or an earlier one have committed and applied r.
KnownBy(r, b, Ld, Lg, A) ==
    \E t \in Nat : /\ t <= b /\ Ld[t] # None /\ r \in Took(applied[Ld[t]])
                   /\ \E u, k, j \in Nat : /\ u <= t /\ 1 <= j /\ j <= k
                                           /\ Committed(Ld, Lg, A, u, k) /\ Lg[u][j].command = r

KnownInv(Ld, Lg, A) ==
    /\ acked \subseteq known
    /\ \A r \in known : KnownBy(r, elected, Ld, Lg, A)
    /\ op # None => \A r \in op.must : KnownBy(r, op.begun, Ld, Lg, A)

Explains(Ld, Lg, A) == RaftInv(Ld, Lg, A) /\ OpTrue(Ld, Lg, A) /\ KnownInv(Ld, Lg, A)

IInv ==
    /\ StateOK /\ MessagesOK /\ OpOK
    /\ StageInv /\ FreshInv /\ AnswersAreCurrent
    /\ \E Ld, Lg, A : Explains(Ld, Lg, A)

-----------------------------------------------------------------------------
(* The operation, as the history grows *)

LEMMA OperationTrueGrows ==
    ASSUME NEW Ld, NEW Lg, NEW A, NEW Ld2, NEW Lg2, NEW A2,
           HistoryLogs(Ld, Lg, A), HistoryLogs(Ld2, Lg2, A2), Grows(Ld, Lg, A, Ld2, Lg2, A2),
           NEW o, IsOperation(o), OperationTrue(o, Ld, Lg, A)
    PROVE  OperationTrue(o, Ld2, Lg2, A2)
<1>t. PICK t \in Nat, l \in Server : t = o.term /\ l = o.leader
  BY DEF IsOperation
<1>1. Ld[t] = l /\ Ld2[t] = l /\ Agree(Lg2[t], Lg[t], Len(Lg[t]))
  BY <1>t, ConstantAssumption DEF OperationTrue, Grows
<1>2. Lg[t] \in Logs /\ Lg2[t] \in Logs /\ Len(Lg[t]) \in Nat /\ Len(Lg2[t]) \in Nat /\ Len(Lg[t]) <= Len(Lg2[t])
  BY <1>1, LogFacts DEF HistoryLogs, Agree
<1>3. Safe(Lg2[t], o.commit, t, Ld2, Lg2, A2)
  <2>1. o.commit \in Nat /\ Safe(Lg[t], o.commit, t, Ld, Lg, A)
    BY <1>t DEF IsOperation, OperationTrue
  <2> QED BY <1>1, <1>2, <2>1, SafeExtends
<1>4. \A p \in Server : A[p][t] \in Nat /\ A2[p][t] \in Nat /\ A[p][t] <= A2[p][t]
  <2>1. \A p \in Server : A[p][t] \in Nat /\ A2[p][t] \in Nat
    BY DEF HistoryLogs
  <2>2. \A p \in Server : A[p][t] <= A2[p][t]
    BY DEF Grows
  <2> QED BY <2>1, <2>2
<1>5. ASSUME NEW p \in Peers(l)
      PROVE  o.match[p] <= A2[p][t] /\ o.next[p] <= Len(Lg2[t]) + 1
  <2>1. o.match[p] \in Nat /\ o.next[p] \in Nat /\ p \in Server
    BY <1>t DEF IsOperation, Peers
  <2>2. o.match[p] <= A[p][t] /\ o.next[p] <= Len(Lg[t]) + 1
    BY <1>t DEF OperationTrue
  <2> QED BY <1>2, <1>4, <2>1, <2>2
<1>6. ASSUME NEW p \in DOMAIN o.probes, "ok" \in o.probes[p].heard
      PROVE  o.probes[p].prev + o.probes[p].count <= A2[p][t]
  <2>1. p \in Server /\ o.probes[p].prev \in Nat /\ o.probes[p].count \in Nat
    BY DEF IsOperation, Peers
  <2>2. o.probes[p].prev + o.probes[p].count <= A[p][t]
    BY <1>6, <1>t DEF OperationTrue
  <2> QED BY <1>4, <2>1, <2>2
<1>7. ASSUME o.kind = "read", o.stage = "commit"
      PROVE  o.target \in 1..Len(Lg2[t]) /\ Lg2[t][o.target].term = t
  <2>1. o.target \in 1..Len(Lg[t]) /\ Lg[t][o.target].term = t
    BY <1>7, <1>t DEF OperationTrue
  <2> QED BY <1>1, <1>2, <2>1 DEF Agree
<1> QED BY <1>1, <1>3, <1>5, <1>6, <1>7, <1>t DEF OperationTrue

\* What took effect in an applied history
LEMMA TookFacts ==
    ASSUME NEW a \in Logs, NEW r
    PROVE  r \in Took(a) <=> r # Barrier /\ \E i \in 1..Len(a) : a[i].command = r
<1>1. DOMAIN a = 1..Len(a)
  BY LenProperties DEF Logs
<1> QED BY <1>1 DEF Took, ToSet

LEMMA TookGrows ==
    ASSUME NEW a \in Logs, NEW b \in Logs, Agree(b, a, Len(a)), NEW r \in Took(a)
    PROVE  r \in Took(b)
<1>1. Len(a) \in Nat /\ Len(b) \in Nat
  BY LogFacts
<1>2. r # Barrier /\ \E i \in 1..Len(a) : a[i].command = r
  BY TookFacts
<1>3. \E i \in 1..Len(b) : b[i].command = r
  BY <1>1, <1>2 DEF Agree
<1> QED BY <1>2, <1>3, TookFacts

LEMMA KnownGrows ==
    ASSUME StateOK, StateOK', \A p \in Server : Agree(applied'[p], applied[p], Len(applied[p])),
           NEW Ld, NEW Lg, NEW A, NEW Ld2, NEW Lg2, NEW A2,
           HistoryLogs(Ld, Lg, A), HistoryLogs(Ld2, Lg2, A2), Grows(Ld, Lg, A, Ld2, Lg2, A2),
           NEW r, NEW b \in Nat, NEW b2 \in Nat, b <= b2, KnownBy(r, b, Ld, Lg, A)
    PROVE  KnownBy(r, b2, Ld2, Lg2, A2)'
<1>1. PICK t \in Nat : /\ t <= b /\ Ld[t] # None /\ r \in Took(applied[Ld[t]])
                       /\ \E u, k, j \in Nat : /\ u <= t /\ 1 <= j /\ j <= k
                                               /\ Committed(Ld, Lg, A, u, k) /\ Lg[u][j].command = r
  BY DEF KnownBy
<1>2. PICK u \in Nat, k \in Nat, j \in Nat : u <= t /\ 1 <= j /\ j <= k /\ Committed(Ld, Lg, A, u, k) /\ Lg[u][j].command = r
  BY <1>1
<1>3. PICK l \in Server : l = Ld[t] /\ l = Ld2[t]
  BY <1>1 DEF HistoryLogs, Grows
<1>4. r \in Took(applied'[l])
  <2>1. PICK x \in Logs, y \in Logs : x = applied[l] /\ y = applied'[l]
    BY DEF StateOK
  <2> QED BY <1>1, <1>3, <2>1, TookGrows
<1>5. Committed(Ld2, Lg2, A2, u, k)
  BY <1>2, CommittedGrows
<1>6. Lg2[u][j].command = r
  <2>1. Ld[u] # None /\ k \in 1..Len(Lg[u])
    BY <1>2 DEF Committed
  <2>2. Len(Lg[u]) \in Nat
    BY LogFacts DEF HistoryLogs
  <2>3. Lg2[u][j] = Lg[u][j]
    BY <1>2, <2>1, <2>2 DEF Grows, Agree
  <2> QED BY <1>2, <2>3
<1>7. Ld2[t] # None /\ t <= b2
  BY <1>1, <1>3, ConstantAssumption
<1> QED BY <1>2, <1>3, <1>4, <1>5, <1>6, <1>7 DEF KnownBy

\* Clients learn nothing new.
LEMMA KnownStable ==
    ASSUME StateOK, StateOK', \A p \in Server : Agree(applied'[p], applied[p], Len(applied[p])),
           NEW Ld, NEW Lg, NEW A, NEW Ld2, NEW Lg2, NEW A2,
           HistoryLogs(Ld, Lg, A), HistoryLogs(Ld2, Lg2, A2), Grows(Ld, Lg, A, Ld2, Lg2, A2),
           KnownInv(Ld, Lg, A), elected <= elected', acked' = acked, known' = known,
           op' # None => op # None /\ op'.must = op.must /\ op'.begun = op.begun /\ op.begun \in Nat
    PROVE  KnownInv(Ld2, Lg2, A2)'
<1>1. PICK b \in Nat, b2 \in Nat : b = elected /\ b2 = elected'
  BY DEF StateOK
<1>2. ASSUME NEW r \in known PROVE KnownBy(r, b2, Ld2, Lg2, A2)'
  <2>1. KnownBy(r, b, Ld, Lg, A) /\ b <= b2
    BY <1>1 DEF KnownInv
  <2> QED BY <2>1, KnownGrows
<1>3. ASSUME op' # None, NEW r \in op'.must PROVE KnownBy(r, op.begun, Ld2, Lg2, A2)'
  <2>1. PICK x \in Nat : x = op.begun /\ x = op'.begun
    BY <1>3
  <2>2. r \in op.must /\ op # None
    BY <1>3
  <2>3. KnownBy(r, x, Ld, Lg, A) /\ x <= x
    BY <2>1, <2>2 DEF KnownInv
  <2>4. KnownBy(r, x, Ld2, Lg2, A2)'
    BY <2>3, KnownGrows
  <2> QED BY <2>1, <2>4 DEF KnownBy
<1>4. \A r \in known' : KnownBy(r, elected, Ld2, Lg2, A2)'
  BY <1>1, <1>2 DEF KnownBy
<1> QED BY <1>3, <1>4 DEF KnownInv

LEMMA FreshStable ==
    ASSUME StateOK, StateOK', MessagesOK', FreshInv,
           \A v \in Server : term[v] <= term'[v],
           op' # None => /\ op # None /\ op'.begun = op.begun /\ op'.term = op.term
                         /\ op.begun \in Nat /\ op.term \in Nat
                         /\ \A v \in op'.acks : v \in op.acks \/ (v \in DOMAIN op.probes /\ op.probes[v].heard # {})
                         /\ \A v \in DOMAIN op'.probes :
                               \/ op'.probes[v].heard = {}
                               \/ v \in DOMAIN op.probes /\ op.probes[v].heard # {}
                               \/ \E m \in msgs : /\ m.type = "Response" /\ m.src = v /\ m.fresh
                                                /\ m.term = op.term,
           \A m \in msgs' : m.type = "Response" /\ m.fresh => m \in msgs \/ term[m.src] <= m.term
    PROVE  FreshInv'
<1> SUFFICES ASSUME op' # None
             PROVE  \E Q \in SUBSET Server : IsQuorum(Q) /\ \A v \in Q : FreshVoter(v)'
  BY DEF FreshInv
<1>1. PICK Q \in SUBSET Server : IsQuorum(Q) /\ \A v \in Q : FreshVoter(v)
  BY DEF FreshInv
<1>2. PICK b \in Nat, t \in Nat : b = op.begun /\ b = op'.begun /\ t = op.term /\ t = op'.term
  OBVIOUS
<1>3. ASSUME NEW v \in Q PROVE FreshVoter(v)'
  <2>1. v \in Server /\ term[v] \in Nat /\ term'[v] \in Nat /\ term[v] <= term'[v]
    BY DEF StateOK
  <2>2. /\ b <= term[v]
        /\ v \in op.acks => b <= t
        /\ v \in DOMAIN op.probes => op.probes[v].heard = {} \/ b <= t
        /\ \A m \in msgs : m.type = "Response" /\ m.src = v /\ m.fresh => b <= m.term
    BY <1>1, <1>2 DEF FreshVoter
  <2>3. b <= term'[v]
    BY <2>1, <2>2
  <2>4. v \in op'.acks => b <= t
    BY <2>2
  <2>5. v \in DOMAIN op'.probes => op'.probes[v].heard = {} \/ b <= t
    BY <1>2, <2>2
  <2>6. ASSUME NEW m \in msgs', m.type = "Response", m.src = v, m.fresh PROVE b <= m.term
    <3>1. m.term \in Nat
      BY DEF MessagesOK, IsMessage
    <3> QED BY <2>1, <2>2, <2>6, <3>1
  <2> QED BY <1>2, <2>3, <2>4, <2>5, <2>6 DEF FreshVoter
<1> QED BY <1>1, <1>3

\* A step of which the operation and the clients learn nothing that was not true before
LEMMA StepExplained ==
    ASSUME StateOK, StateOK', \A p \in Server : Agree(applied'[p], applied[p], Len(applied[p])),
           NEW Ld, NEW Lg, NEW A, NEW Ld2, NEW Lg2, NEW A2,
           Explains(Ld, Lg, A), Grows(Ld, Lg, A, Ld2, Lg2, A2), RaftInv(Ld2, Lg2, A2)',
           elected <= elected', acked' = acked, known' = known, OpOK', OpTrue(Ld, Lg, A)',
           op' # None => op # None /\ op'.must = op.must /\ op'.begun = op.begun /\ op.begun \in Nat
    PROVE  Explains(Ld2, Lg2, A2)'
<1>1. HistoryLogs(Ld, Lg, A) /\ HistoryLogs(Ld2, Lg2, A2) /\ KnownInv(Ld, Lg, A)
  BY DEF Explains, RaftInv, HistoryLogs
<1>2. KnownInv(Ld2, Lg2, A2)'
  BY <1>1, KnownStable
<1>3. OpTrue(Ld2, Lg2, A2)'
  <2> SUFFICES ASSUME op' # None PROVE OpTrue(Ld2, Lg2, A2)'
    BY DEF OpTrue
  <2>1. PICK o : o = op'
    OBVIOUS
  <2>2. IsOperation(o) /\ OperationTrue(o, Ld, Lg, A)
    BY <2>1 DEF OpOK, OpTrue
  <2>3. OperationTrue(o, Ld2, Lg2, A2)
    BY <1>1, <2>2, OperationTrueGrows
  <2> QED BY <2>1, <2>3 DEF OpTrue
<1> QED BY <1>2, <1>3 DEF Explains

LEMMA QuietStep ==
    ASSUME StateOK, StateOK', NEW Ld, NEW Lg, NEW A, Explains(Ld, Lg, A),
           log' = log, applied' = applied, elected' = elected, \A v \in Server : term[v] <= term'[v],
           \A v \in Server : leads'[v] => leads[v] /\ term'[v] = term[v],
           \A v \in Server : commit'[v] = commit[v] \/ commit'[v] = 0,
           MessageInv(Ld, Lg, A)', acked' = acked, known' = known, OpOK', OpTrue(Ld, Lg, A)',
           op' # None => op # None /\ op'.must = op.must /\ op'.begun = op.begun /\ op.begun \in Nat
    PROVE  Explains(Ld, Lg, A)'
<1>1. RaftInv(Ld, Lg, A) /\ HistoryLogs(Ld, Lg, A) /\ CommitInv(Ld, Lg, A)
  BY DEF Explains, RaftInv
<1>2. Grows(Ld, Lg, A, Ld, Lg, A)
  BY <1>1, GrowsReflexive
<1>3. CommitInv(Ld, Lg, A)'
  <2>1. ASSUME NEW p \in Server
        PROVE  NodeSafe(log[p], applied[p], commit'[p], term'[p], Ld, Lg, A)
    <3>1. /\ log[p] \in Logs /\ applied[p] \in Logs /\ commit[p] \in Nat
          /\ term[p] \in Nat /\ term'[p] \in Nat /\ term[p] <= term'[p]
      BY DEF StateOK
    <3>2. NodeSafe(log[p], applied[p], commit[p], term[p], Ld, Lg, A)
      BY <1>1 DEF CommitInv
    <3>3. NodeSafe(log[p], applied[p], commit[p], term'[p], Ld, Lg, A)
      BY <1>1, <1>2, <3>1, <3>2, NodeSafeGrows
    <3>4. CASE commit'[p] = commit[p]
      BY <3>3, <3>4
    <3>5. CASE commit'[p] = 0
      BY <3>3, <3>5 DEF NodeSafe, Safe
    <3> QED BY <3>4, <3>5
  <2> QED BY <2>1 DEF CommitInv
<1>4. RaftInv(Ld, Lg, A)'
  BY <1>1, <1>3, RaftQuiet
<1>5. \A p \in Server : Agree(applied'[p], applied[p], Len(applied[p]))
  <2>1. \A p \in Server : applied[p] \in Logs
    BY DEF StateOK
  <2>2. \A x \in Logs : Len(x) \in Nat /\ Agree(x, x, Len(x))
    BY LogFacts, AgreeReflexive
  <2> QED BY <2>1, <2>2
<1>6. elected <= elected'
  BY DEF StateOK
<1> QED BY <1>2, <1>4, <1>5, <1>6, StepExplained

LEMMA StageStable ==
    ASSUME StateOK, StateOK', StageInv,
           op' # None /\ op'.stage = "confirm" /\ leads'[op'.leader] /\ term'[op'.leader] = op'.term =>
               /\ op # None /\ op.stage = "confirm" /\ op.leader \in Server
               /\ leads[op.leader] /\ term[op.leader] = op.term
               /\ op'.leader = op.leader /\ op'.term = op.term
               /\ log'[op.leader] = log[op.leader] /\ commit[op.leader] <= commit'[op.leader],
           op' # None /\ op'.kind = "check" =>
               op # None /\ op.kind = "check" /\ op'.leader = op.leader /\ DOMAIN op'.probes = DOMAIN op.probes
    PROVE  StageInv'
<1>a. op' # None /\ op'.kind = "check" => DOMAIN op'.probes = Peers(op'.leader)
  BY DEF StageInv
<1> SUFFICES ASSUME op' # None, op'.stage = "confirm", leads'[op'.leader], term'[op'.leader] = op'.term
             PROVE  \E c \in Nat : 1 <= c /\ c <= commit'[op'.leader] /\ c <= Len(log'[op'.leader])
                                   /\ log'[op'.leader][c].term = op'.term
  BY <1>a DEF StageInv, Authorized
<1>1. PICK l \in Server : l = op.leader /\ l = op'.leader
  OBVIOUS
<1>2. PICK c \in Nat : 1 <= c /\ c <= commit[l] /\ c <= Len(log[l]) /\ log[l][c].term = op.term
  BY <1>1 DEF StageInv, Authorized
<1>3. c <= commit'[l]
  BY <1>1, <1>2 DEF StateOK
<1> QED BY <1>1, <1>2, <1>3

-----------------------------------------------------------------------------
(* Elections, crashes and lost messages *)

LEMMA CampaignInductive ==
    ASSUME IInv, NEW n \in Server, NEW S \in SUBSET Peers(n), Campaign(n, S)
    PROVE  IInv'
<1>i. StateOK /\ MessagesOK /\ OpOK /\ StageInv /\ FreshInv /\ AnswersAreCurrent
  BY DEF IInv
<1> DEFINE won == IsQuorum({n} \cup {v \in S : UpToDate(n, v)})
<1>t. PICK t \in Nat : t = term[n] + 1
  BY <1>i DEF StateOK
<1>0. /\ log' = log /\ applied' = applied /\ commit' = commit /\ msgs' = msgs /\ op' = op
      /\ acked' = acked /\ known' = known /\ answer' = answer
      /\ \A v \in S : term[v] < t
      /\ term' = [k \in Server |-> IF k \in S \cup {n} THEN t ELSE term[k]]
      /\ leads' = [k \in Server |-> IF k = n THEN won ELSE k \notin S /\ leads[k]]
      /\ elected' = IF won /\ t > elected THEN t ELSE elected
  BY <1>t DEF Campaign
<1>b. won \in BOOLEAN
  BY DEF won, IsQuorum
<1> HIDE DEF won
<1>1. StateOK'
  <2>1. term' \in [Server -> Nat] /\ elected' \in Nat
    BY <1>0, <1>i DEF StateOK
  <2>2. leads' \in [Server -> BOOLEAN]
    <3>1. leads \in [Server -> BOOLEAN]
      BY <1>i DEF StateOK
    <3>2. \A k \in Server : (IF k = n THEN won ELSE k \notin S /\ leads[k]) \in BOOLEAN
      BY <1>b, <3>1
    <3> QED BY <1>0, <3>2
  <2> QED BY <1>0, <1>i, <2>1, <2>2 DEF StateOK
<1>2. /\ \A v \in Server : term[v] <= term'[v]
      /\ \A v \in Server : leads'[v] /\ v # n => leads[v] /\ term'[v] = term[v]
      /\ leads'[n] => won
      /\ elected <= elected'
  <2>1. elected <= elected'
    BY <1>0, <1>i DEF StateOK
  <2>2. ASSUME NEW v \in Server PROVE term[v] <= term'[v]
    <3>1. term[v] \in Nat /\ (v = n => term[v] < t)
      BY <1>i, <1>t DEF StateOK
    <3> QED BY <1>0, <3>1
  <2> QED BY <1>0, <2>1, <2>2
<1>3. MessagesOK' /\ OpOK' /\ AnswersAreCurrent'
  BY <1>0, <1>i DEF MessagesOK, OpOK, AnswersAreCurrent
<1>4. op # None => op.begun \in Nat /\ op.term \in Nat /\ op.leader \in Server
  BY <1>i DEF OpOK, IsOperation
<1>5. FreshInv'
  BY <1>0, <1>1, <1>2, <1>3, <1>4, <1>i, FreshStable
<1>6. PICK Ld, Lg, A : Explains(Ld, Lg, A)
  BY DEF IInv
<1>7. RaftInv(Ld, Lg, A) /\ OpTrue(Ld, Lg, A) /\ HistoryLogs(Ld, Lg, A)
  BY <1>6 DEF Explains, RaftInv
<1>8. OpTrue(Ld, Lg, A)' /\ MessageInv(Ld, Lg, A)'
  BY <1>0, <1>7 DEF OpTrue, RaftInv, MessageInv
<1>9. CASE won
  <2>0. IsQuorum({n} \cup {v \in S : UpToDate(n, v)})
    BY <1>9 DEF won
  <2>1. Ld[term[n] + 1] = None
    BY <1>1, <1>7, <1>i, <2>0, RaftElects
  <2>2. PICK Ld2, Lg2, A2 : Grows(Ld, Lg, A, Ld2, Lg2, A2) /\ RaftInv(Ld2, Lg2, A2)'
    BY <1>1, <1>7, <1>i, <2>0, RaftElects
  <2>3. \A p \in Server : Agree(applied'[p], applied[p], Len(applied[p]))
    <3>1. \A p \in Server : applied[p] \in Logs
      BY <1>i DEF StateOK
    <3>2. \A x \in Logs : Len(x) \in Nat /\ Agree(x, x, Len(x))
      BY LogFacts, AgreeReflexive
    <3> QED BY <1>0, <3>1, <3>2
  <2>4. Explains(Ld2, Lg2, A2)'
    BY <1>0, <1>1, <1>2, <1>3, <1>4, <1>6, <1>8, <1>i, <2>2, <2>3, StepExplained
  <2>5. op # None => Ld[op.term] = op.leader /\ op.leader # None
    BY <1>4, <1>7, ConstantAssumption DEF OpTrue, OperationTrue
  <2>6. op # None /\ leads'[op.leader] /\ term'[op.leader] = op.term => op.leader # n
    BY <1>0, <1>t, <2>1, <2>5
  <2>7. StageInv'
    <3>1. \A v \in Server : commit[v] <= commit[v]
      BY <1>i DEF StateOK
    <3> QED BY <1>0, <1>1, <1>2, <1>4, <1>i, <2>6, <3>1, StageStable
  <2> QED BY <1>1, <1>3, <1>5, <2>4, <2>7 DEF IInv
<1>10. CASE ~won
  <2>1. \A v \in Server : leads'[v] => leads[v] /\ term'[v] = term[v]
    BY <1>2, <1>10
  <2>2. elected' = elected
    BY <1>0, <1>10
  <2>3. Explains(Ld, Lg, A)'
    BY <1>0, <1>1, <1>2, <1>3, <1>4, <1>6, <1>8, <1>i, <2>1, <2>2, QuietStep
  <2>4. StageInv'
    <3>1. \A v \in Server : commit[v] <= commit[v]
      BY <1>i DEF StateOK
    <3> QED BY <1>0, <1>1, <1>4, <1>i, <2>1, <3>1, StageStable
  <2> QED BY <1>1, <1>3, <1>5, <2>3, <2>4 DEF IInv
<1> QED BY <1>9, <1>10

LEMMA CrashInductive ==
    ASSUME IInv, NEW n \in Server, Crash(n)
    PROVE  IInv'
<1>i. StateOK /\ MessagesOK /\ OpOK /\ StageInv /\ FreshInv /\ AnswersAreCurrent
  BY DEF IInv
<1>0. /\ log' = log /\ applied' = applied /\ term' = term /\ msgs' = msgs /\ op' = op
      /\ acked' = acked /\ known' = known /\ answer' = answer /\ elected' = elected
      /\ leads' = [leads EXCEPT ![n] = FALSE] /\ commit' = [commit EXCEPT ![n] = 0]
  BY DEF Crash, history
<1>1. StateOK'
  BY <1>0, <1>i DEF StateOK
<1>2. /\ \A v \in Server : term[v] <= term'[v]
      /\ \A v \in Server : leads'[v] => leads[v] /\ term'[v] = term[v] /\ commit'[v] = commit[v]
      /\ \A v \in Server : commit'[v] = commit[v] \/ commit'[v] = 0
      /\ \A v \in Server : commit[v] <= commit[v]
  BY <1>0, <1>i DEF StateOK
<1>3. MessagesOK' /\ OpOK' /\ AnswersAreCurrent'
  BY <1>0, <1>i DEF MessagesOK, OpOK, AnswersAreCurrent
<1>4. op # None => op.begun \in Nat /\ op.term \in Nat /\ op.leader \in Server
  BY <1>i DEF OpOK, IsOperation
<1>5. FreshInv'
  BY <1>0, <1>1, <1>2, <1>3, <1>4, <1>i, FreshStable
<1>6. PICK Ld, Lg, A : Explains(Ld, Lg, A)
  BY DEF IInv
<1>7. OpTrue(Ld, Lg, A)' /\ MessageInv(Ld, Lg, A)'
  BY <1>0, <1>6 DEF Explains, OpTrue, RaftInv, MessageInv
<1>8. Explains(Ld, Lg, A)'
  BY <1>0, <1>1, <1>2, <1>3, <1>4, <1>6, <1>7, <1>i, QuietStep
<1>9. StageInv'
  BY <1>0, <1>1, <1>2, <1>4, <1>i, StageStable
<1> QED BY <1>1, <1>3, <1>5, <1>8, <1>9 DEF IInv

LEMMA LoseInductive ==
    ASSUME IInv, NEW m \in msgs, Lose(m)
    PROVE  IInv'
<1>i. StateOK /\ MessagesOK /\ OpOK /\ StageInv /\ FreshInv /\ AnswersAreCurrent
  BY DEF IInv
<1>0. /\ log' = log /\ applied' = applied /\ term' = term /\ msgs' \subseteq msgs /\ op' = op
      /\ leads' = leads /\ commit' = commit
      /\ acked' = acked /\ known' = known /\ answer' = answer /\ elected' = elected
  BY DEF Lose, history, nodeVars
<1>1. StateOK'
  BY <1>0, <1>i DEF StateOK
<1>2. /\ \A v \in Server : term[v] <= term'[v]
      /\ \A v \in Server : commit[v] <= commit[v]
  BY <1>0, <1>i DEF StateOK
<1>3. MessagesOK' /\ OpOK' /\ AnswersAreCurrent'
  BY <1>0, <1>i DEF MessagesOK, OpOK, AnswersAreCurrent
<1>4. op # None => op.begun \in Nat /\ op.term \in Nat /\ op.leader \in Server
  BY <1>i DEF OpOK, IsOperation
<1>5. FreshInv'
  BY <1>0, <1>1, <1>2, <1>3, <1>4, <1>i, FreshStable
<1>6. PICK Ld, Lg, A : Explains(Ld, Lg, A)
  BY DEF IInv
<1>7. OpTrue(Ld, Lg, A)' /\ MessageInv(Ld, Lg, A)'
  BY <1>0, <1>6 DEF Explains, OpTrue, RaftInv, MessageInv
<1>8. Explains(Ld, Lg, A)'
  BY <1>0, <1>1, <1>2, <1>3, <1>4, <1>6, <1>7, <1>i, QuietStep
<1>9. StageInv'
  BY <1>0, <1>1, <1>2, <1>4, <1>i, StageStable
<1> QED BY <1>1, <1>3, <1>5, <1>8, <1>9 DEF IInv

-----------------------------------------------------------------------------
(* AppendEntries and its answers *)

\* What OperationTrue asks of an operation
LEMMA OperationTrueFrom ==
    ASSUME NEW Ld, NEW Lg, NEW A, NEW o, NEW o2, OperationTrue(o, Ld, Lg, A),
           o2.leader = o.leader, o2.term = o.term, o2.commit = o.commit, o2.match = o.match, o2.next = o.next,
           o2.kind = o.kind, o2.stage = o.stage, o2.target = o.target,
           \A p \in DOMAIN o2.probes :
               "ok" \in o2.probes[p].heard => o2.probes[p].prev + o2.probes[p].count <= A[p][o.term]
    PROVE  OperationTrue(o2, Ld, Lg, A)
BY DEF OperationTrue

\* Two operations that differ in their probes only, and there in what was heard and handled
SameButAnswers(o2, o) ==
    /\ o2.kind = o.kind /\ o2.leader = o.leader /\ o2.term = o.term /\ o2.stage = o.stage
    /\ o2.target = o.target /\ o2.commit = o.commit /\ o2.next = o.next /\ o2.match = o.match
    /\ o2.todo = o.todo /\ o2.acks = o.acks /\ o2.must = o.must /\ o2.begun = o.begun
    /\ DOMAIN o2.probes = DOMAIN o.probes
    /\ \A q \in DOMAIN o.probes : o2.probes[q].prev = o.probes[q].prev /\ o2.probes[q].count = o.probes[q].count

\* A probe of o is replaced.
LEMMA ProbeReplaced ==
    ASSUME NEW o, IsOperation(o), NEW p \in DOMAIN o.probes, NEW b, DOMAIN b = ProbeFields,
           b.prev = o.probes[p].prev, b.count = o.probes[p].count
    PROVE  LET o2 == [o EXCEPT !.probes[p] = b]
           IN  /\ IsOperation(o2) /\ SameButAnswers(o2, o)
               /\ o2.probes[p] = b /\ \A q \in DOMAIN o.probes \ {p} : o2.probes[q] = o.probes[q]
<1> DEFINE new == [o.probes EXCEPT ![p] = b]
           o2 == [o EXCEPT !.probes = new]
<1>d. DOMAIN o = OpFields
  BY DEF IsOperation
<1>1. /\ DOMAIN new = DOMAIN o.probes /\ new[p] = b
      /\ \A q \in DOMAIN o.probes \ {p} : new[q] = o.probes[q]
  OBVIOUS
<1>2. [o EXCEPT !.probes[p] = b] = o2
  OBVIOUS
<1> HIDE DEF new
<1>3. /\ DOMAIN o2 = OpFields /\ o2.probes = new
      /\ o2.kind = o.kind /\ o2.leader = o.leader /\ o2.term = o.term /\ o2.stage = o.stage
      /\ o2.target = o.target /\ o2.commit = o.commit /\ o2.next = o.next /\ o2.match = o.match
      /\ o2.todo = o.todo /\ o2.acks = o.acks /\ o2.must = o.must /\ o2.begun = o.begun
  BY <1>d DEF OpFields
<1> HIDE DEF o2
<1>4. SameButAnswers(o2, o)
  BY <1>1, <1>3 DEF SameButAnswers
<1>5. \A q \in DOMAIN new : DOMAIN new[q] = ProbeFields /\ new[q].prev \in Nat /\ new[q].count \in Nat
  BY <1>1 DEF IsOperation
<1>6. IsOperation(o2)
  BY <1>1, <1>3, <1>5 DEF IsOperation
<1> QED BY <1>1, <1>2, <1>3, <1>4, <1>6

\* merge_after makes a log.
LEMMA MergeIsLog ==
    ASSUME NEW lg \in Logs, NEW entries \in Logs, NEW prev \in Nat, prev <= Len(lg)
    PROVE  MergeAfter(lg, prev, entries) \in Logs
<1>1. SubSeq(lg, 1, prev) \in Logs
  BY PrefixFacts
<1>2. SubSeq(lg, 1, prev) \o entries \in Logs
  BY <1>1, ConcatProperties DEF Logs
<1> QED BY <1>2 DEF MergeAfter

LEMMA HandleAppendEntriesInductive ==
    ASSUME IInv, NEW n \in Server, NEW m \in msgs, HandleAppendEntries(n, m)
    PROVE  IInv'
<1>i. StateOK /\ MessagesOK /\ OpOK /\ StageInv /\ FreshInv /\ AnswersAreCurrent
  BY DEF IInv
<1> DEFINE current == m.term >= term[n]
           ok == /\ current
                 /\ m.prev <= Len(log[n])
                 /\ TermAt(log[n], m.prev) = m.prevTerm
           match == m.prev + Len(m.entries)
           outcome == IF ok THEN "ok" ELSE "no"
           mine == /\ Probed(n, m.src)
                   /\ m.term = op.term
                   /\ op.probes[n].prev = m.prev /\ op.probes[n].count = Len(m.entries)
           reply == [type |-> "Response", src |-> n, dst |-> m.src, term |-> IF current THEN m.term ELSE term[n],
                      outcome |-> outcome, match |-> IF ok THEN match ELSE 0, fresh |-> Probed(n, m.src)]
<1>0. /\ m.type = "AppendEntries" /\ m.dst = n
      /\ term' = IF current THEN [term EXCEPT ![n] = m.term] ELSE term
      /\ leads' = IF current THEN [leads EXCEPT ![n] = FALSE] ELSE leads
      /\ log' = IF ok THEN [log EXCEPT ![n] = MergeAfter(log[n], m.prev, m.entries)] ELSE log
      /\ commit' = IF ok /\ m.commit > commit[n] /\ match > commit[n]
                     THEN [commit EXCEPT ![n] = IF m.commit < match THEN m.commit ELSE match]
                     ELSE commit
      /\ op' = IF mine THEN [op EXCEPT !.probes[n].handled = @ \cup {outcome}] ELSE op
      /\ \A x \in msgs' : x \in msgs \/ x = reply
      /\ applied' = applied /\ acked' = acked /\ known' = known /\ answer' = answer /\ elected' = elected
  BY DEF HandleAppendEntries, history, Taken
<1>m. /\ m.term \in Nat /\ m.src \in Server /\ m.prev \in Nat /\ m.entries \in Logs /\ m.commit \in Nat
      /\ Len(m.entries) \in Nat /\ match \in Nat
  BY <1>0, <1>i, LogFacts DEF MessagesOK, IsMessage
<1>s. /\ \A v \in Server : term[v] \in Nat /\ log[v] \in Logs /\ applied[v] \in Logs /\ commit[v] \in Nat
  BY <1>i DEF StateOK
<1>ok. ok \in BOOLEAN /\ current \in BOOLEAN
  OBVIOUS
<1>r. PICK r : r = reply
  OBVIOUS
<1>rf. /\ DOMAIN r = ResponseFields /\ r.type = "Response" /\ r.src = n /\ r.dst = m.src
       /\ r.term = (IF current THEN m.term ELSE term[n])
       /\ r.outcome = (IF ok THEN "ok" ELSE "no") /\ r.match = (IF ok THEN match ELSE 0)
  BY <1>r DEF ResponseFields
<1> HIDE DEF ok, current, mine
<1>1. StateOK'
  <2>1. term' \in [Server -> Nat] /\ elected' \in Nat /\ applied' \in [Server -> Logs]
    BY <1>0, <1>m, <1>i DEF StateOK
  <2>2. leads' \in [Server -> BOOLEAN]
    BY <1>0, <1>i DEF StateOK
  <2>3. ok => MergeAfter(log[n], m.prev, m.entries) \in Logs
    BY <1>m, <1>s, MergeIsLog DEF ok
  <2>4. log' \in [Server -> Logs]
    BY <1>0, <1>i, <2>3 DEF StateOK
  <2>5. commit' \in [Server -> Nat]
    <3>1. (IF m.commit < match THEN m.commit ELSE match) \in Nat
      BY <1>m
    <3> HIDE DEF match
    <3> QED BY <1>0, <1>i, <3>1 DEF StateOK
  <2> QED BY <2>1, <2>2, <2>4, <2>5 DEF StateOK
<1>2. IsMessage(r)
  BY <1>rf, <1>m, <1>s DEF IsMessage
<1>3. MessagesOK'
  BY <1>0, <1>2, <1>r, <1>i DEF MessagesOK
<1>4. ASSUME op' # None
      PROVE  /\ op # None /\ IsOperation(op) /\ IsOperation(op') /\ SameButAnswers(op', op)
             /\ \A q \in DOMAIN op.probes : op'.probes[q].heard = op.probes[q].heard
  <2>1. CASE ~mine
    BY <1>0, <1>4, <1>i, <2>1 DEF OpOK, SameButAnswers
  <2>2. CASE mine
    <3>1. op # None /\ IsOperation(op) /\ n \in DOMAIN op.probes
      BY <1>i, <2>2 DEF mine, Probed, OpOK
    <3> DEFINE b == [op.probes[n] EXCEPT !.handled = @ \cup {outcome}]
    <3>2. op' = [op EXCEPT !.probes[n] = b]
      BY <1>0, <2>2
    <3>3. DOMAIN op.probes[n] = ProbeFields
      BY <3>1 DEF IsOperation
    <3>4. /\ DOMAIN b = ProbeFields /\ b.prev = op.probes[n].prev /\ b.count = op.probes[n].count
          /\ b.heard = op.probes[n].heard
      BY <3>3 DEF ProbeFields
    <3> HIDE DEF b
    <3> QED BY <3>1, <3>2, <3>4, ProbeReplaced
  <2> QED BY <2>1, <2>2
<1>5. OpOK' /\ AnswersAreCurrent'
  BY <1>0, <1>4, <1>i DEF OpOK, AnswersAreCurrent
<1>6. op' # None => /\ op # None /\ op'.must = op.must /\ op'.begun = op.begun /\ op'.term = op.term
                    /\ op'.acks = op.acks /\ op'.stage = op.stage /\ op'.leader = op.leader
                    /\ op'.kind = op.kind /\ DOMAIN op'.probes = DOMAIN op.probes
                    /\ op.begun \in Nat /\ op.term \in Nat /\ op.leader \in Server
  BY <1>4 DEF SameButAnswers, IsOperation
<1>7. /\ \A v \in Server : term[v] <= term'[v]
      /\ \A v \in Server : leads'[v] => leads[v] /\ term'[v] = term[v] /\ log'[v] = log[v] /\ commit'[v] = commit[v]
  <2>1. ASSUME NEW v \in Server PROVE term[v] <= term'[v]
    BY <1>0, <1>i, <1>m, <1>s DEF StateOK, current
  <2>2. CASE current
    BY <1>0, <1>i, <2>1, <2>2 DEF StateOK
  <2>3. CASE ~current
    BY <1>0, <2>1, <2>3 DEF ok
  <2> QED BY <2>1, <2>2, <2>3
<1>8. FreshInv'
  <2>1. r.type = "Response" => term[r.src] <= r.term
    BY <1>rf, <1>m, <1>s DEF current
  <2>2. \A x \in msgs' : x.type = "Response" /\ x.fresh => x \in msgs \/ term[x.src] <= x.term
    BY <1>0, <1>r, <2>1
  <2>3. op' # None => \A v \in DOMAIN op'.probes :
            op'.probes[v].heard = {} \/ (v \in DOMAIN op.probes /\ op.probes[v].heard # {})
    BY <1>4 DEF SameButAnswers
  <2> QED BY <1>1, <1>3, <1>6, <1>7, <1>i, <2>2, <2>3, FreshStable
<1>9. StageInv'
  <2>1. \A v \in Server : commit[v] <= commit[v]
    BY <1>s
  <2> QED BY <1>1, <1>6, <1>7, <1>i, <2>1, StageStable
<1>10. PICK Ld, Lg, A : Explains(Ld, Lg, A)
  BY DEF IInv
<1>11. OpTrue(Ld, Lg, A)'
  <2> SUFFICES ASSUME op' # None PROVE OpTrue(Ld, Lg, A)'
    BY DEF OpTrue
  <2>1. PICK o2 : o2 = op'
    OBVIOUS
  <2>2. op # None /\ SameButAnswers(o2, op) /\ \A q \in DOMAIN op.probes : o2.probes[q].heard = op.probes[q].heard
    BY <1>4, <2>1
  <2>3. OperationTrue(op, Ld, Lg, A)
    BY <1>10, <2>2 DEF Explains, OpTrue
  <2>4. \A p \in DOMAIN o2.probes :
            "ok" \in o2.probes[p].heard => o2.probes[p].prev + o2.probes[p].count <= A[p][op.term]
    BY <2>2, <2>3 DEF SameButAnswers, OperationTrue
  <2>5. OperationTrue(o2, Ld, Lg, A)
    BY <2>2, <2>3, <2>4, OperationTrueFrom DEF SameButAnswers
  <2> QED BY <2>1, <2>5 DEF OpTrue
<1>12. CASE ok
  <2>1. m.prev <= Len(log[n]) /\ TermAt(log[n], m.prev) = m.prevTerm /\ current /\ term[n] <= m.term
    BY <1>12, <1>m, <1>s DEF ok, current
  <2>2. /\ term'[n] = m.term /\ ~leads'[n] /\ log'[n] = MergeAfter(log[n], m.prev, m.entries)
        /\ \A p \in Server \ {n} :
              term'[p] = term[p] /\ leads'[p] = leads[p] /\ log'[p] = log[p] /\ commit'[p] = commit[p]
    BY <1>0, <1>12, <1>i, <2>1 DEF StateOK
  <2>3. \/ commit'[n] = commit[n]
        \/ commit'[n] <= m.commit /\ commit'[n] <= m.prev + Len(m.entries)
    BY <1>0, <1>i, <1>m DEF StateOK
  <2>4. r.term = m.term /\ r.match = m.prev + Len(m.entries)
    BY <1>rf, <1>12, <2>1
  <2>5. \A x \in msgs' : x \in msgs \/ x = r
    BY <1>0, <1>r
  <2>6. RaftInv(Ld, Lg, A)
    BY <1>10 DEF Explains
  <2> HIDE DEF reply, match, outcome
  <2>7. PICK A2 : Grows(Ld, Lg, A, Ld, Lg, A2) /\ RaftInv(Ld, Lg, A2)'
    BY <1>0, <1>1, <1>2, <1>i, <1>rf, <2>1, <2>2, <2>3, <2>4, <2>5, <2>6, RaftAccepts
  <2>8. \A p \in Server : Agree(applied'[p], applied[p], Len(applied[p]))
    <3>2. \A x \in Logs : Len(x) \in Nat /\ Agree(x, x, Len(x))
      BY LogFacts, AgreeReflexive
    <3> QED BY <1>0, <1>s, <3>2
  <2>9. elected <= elected'
    BY <1>0, <1>i DEF StateOK
  <2>10. Explains(Ld, Lg, A2)'
    BY <1>0, <1>1, <1>5, <1>6, <1>10, <1>11, <1>i, <2>7, <2>8, <2>9, StepExplained
  <2> QED BY <1>1, <1>3, <1>5, <1>8, <1>9, <2>10 DEF IInv
<1>13. CASE ~ok
  <2>1. r.outcome # "ok"
    BY <1>rf, <1>13
  <2>2. MessageTrue(r, Ld, Lg, A)
    BY <1>rf, <2>1 DEF MessageTrue
  <2>3. MessageInv(Ld, Lg, A)'
    BY <1>0, <1>10, <1>r, <2>2 DEF Explains, RaftInv, MessageInv
  <2>4. log' = log /\ commit' = commit
    BY <1>0, <1>13
  <2> HIDE DEF reply, match, outcome
  <2>5. Explains(Ld, Lg, A)'
    BY <1>0, <1>1, <1>5, <1>6, <1>7, <1>10, <1>11, <1>i, <2>3, <2>4, QuietStep
  <2> QED BY <1>1, <1>3, <1>5, <1>8, <1>9, <2>5 DEF IInv
<1> QED BY <1>12, <1>13

LEMMA HandleResponseInductive ==
    ASSUME IInv, NEW n \in Server, NEW m \in msgs, HandleResponse(n, m)
    PROVE  IInv'
<1>i. StateOK /\ MessagesOK /\ OpOK /\ StageInv /\ FreshInv /\ AnswersAreCurrent
  BY DEF IInv
<1> DEFINE p == m.src
           b == Heard(op.probes[p], m.outcome)
           relevant == /\ Probed(p, n)
                       /\ m.fresh
                       /\ m.term = op.term
                       /\ m.outcome = "ok" => m.match = op.probes[p].prev + op.probes[p].count
<1>0. /\ m.type = "Response" /\ m.dst = n /\ msgs' \subseteq msgs
      /\ \/ term' = [term EXCEPT ![n] = m.term] /\ leads' = [leads EXCEPT ![n] = FALSE] /\ m.term > term[n]
         \/ term' = term /\ leads' = leads
      /\ op' = op \/ (relevant /\ op' = [op EXCEPT !.probes[p] = b])
      /\ log' = log /\ applied' = applied /\ commit' = commit
      /\ acked' = acked /\ known' = known /\ answer' = answer /\ elected' = elected
  BY DEF HandleResponse, history, Taken
<1>m. m.term \in Nat /\ p \in Server
  BY <1>i DEF MessagesOK, IsMessage
<1>s. /\ \A v \in Server : term[v] \in Nat /\ log[v] \in Logs /\ applied[v] \in Logs /\ commit[v] \in Nat
  BY <1>i DEF StateOK
<1>1. StateOK' /\ MessagesOK'
  BY <1>0, <1>m, <1>i DEF StateOK, MessagesOK
<1>2. ASSUME relevant, op' = [op EXCEPT !.probes[p] = b]
      PROVE  /\ op # None /\ IsOperation(op) /\ IsOperation(op') /\ SameButAnswers(op', op)
             /\ p \in DOMAIN op.probes
             /\ op'.probes[p].heard = op.probes[p].heard \cup {m.outcome}
             /\ \A q \in DOMAIN op.probes \ {p} : op'.probes[q].heard = op.probes[q].heard
  <2>1. op # None /\ IsOperation(op) /\ p \in DOMAIN op.probes
    BY <1>i, <1>2 DEF Probed, OpOK
  <2>2. DOMAIN op.probes[p] = ProbeFields
    BY <2>1 DEF IsOperation
  <2>3. /\ DOMAIN b = ProbeFields /\ b.prev = op.probes[p].prev /\ b.count = op.probes[p].count
        /\ b.heard = op.probes[p].heard \cup {m.outcome}
    BY <2>2 DEF ProbeFields, Heard
  <2> HIDE DEF b, p
  <2> QED BY <1>2, <2>1, <2>3, ProbeReplaced
<1> HIDE DEF b, p, relevant
<1>3. ASSUME op' # None
      PROVE  op # None /\ IsOperation(op) /\ IsOperation(op') /\ SameButAnswers(op', op)
  <2>1. CASE op' = op
    BY <1>3, <1>i, <2>1 DEF OpOK, SameButAnswers
  <2>2. CASE op' # op
    BY <1>0, <1>2, <2>2
  <2> QED BY <2>1, <2>2
<1>4. OpOK' /\ AnswersAreCurrent'
  BY <1>0, <1>3, <1>i DEF OpOK, AnswersAreCurrent
<1>5. op' # None => /\ op # None /\ op'.must = op.must /\ op'.begun = op.begun /\ op'.term = op.term
                    /\ op'.acks = op.acks /\ op'.stage = op.stage /\ op'.leader = op.leader
                    /\ op'.kind = op.kind /\ DOMAIN op'.probes = DOMAIN op.probes
                    /\ op.begun \in Nat /\ op.term \in Nat /\ op.leader \in Server
  BY <1>3 DEF SameButAnswers, IsOperation
<1>6. /\ \A v \in Server : term[v] <= term'[v]
      /\ \A v \in Server : leads'[v] => leads[v] /\ term'[v] = term[v]
  BY <1>0, <1>i, <1>m, <1>s DEF StateOK
<1>7. FreshInv'
  <2>1. op' # None => \A v \in DOMAIN op'.probes :
            \/ op'.probes[v].heard = {}
            \/ v \in DOMAIN op.probes /\ op.probes[v].heard # {}
            \/ \E x \in msgs : x.type = "Response" /\ x.src = v /\ x.fresh /\ x.term = op.term
    <3>1. CASE op' = op
      BY <3>1
    <3>2. CASE op' # op
      <4>1. relevant /\ op' = [op EXCEPT !.probes[p] = b]
        BY <1>0, <3>2
      <4>2. m.fresh /\ m.src = p /\ m.term = op.term
        BY <4>1 DEF relevant, p
      <4> QED BY <1>0, <1>2, <4>1, <4>2 DEF SameButAnswers
    <3> QED BY <3>1, <3>2
  <2>2. \A x \in msgs' : x.type = "Response" /\ x.fresh => x \in msgs \/ term[x.src] <= x.term
    BY <1>0
  <2> QED BY <1>1, <1>5, <1>6, <1>i, <2>1, <2>2, FreshStable
<1>8. StageInv'
  <2>1. \A v \in Server : commit[v] <= commit[v]
    BY <1>s
  <2> QED BY <1>0, <1>1, <1>5, <1>6, <1>i, <2>1, StageStable
<1>9. PICK Ld, Lg, A : Explains(Ld, Lg, A)
  BY DEF IInv
<1>10. OpTrue(Ld, Lg, A)'
  <2> SUFFICES ASSUME op' # None PROVE OpTrue(Ld, Lg, A)'
    BY DEF OpTrue
  <2>1. PICK o2 : o2 = op'
    OBVIOUS
  <2>2. op # None /\ SameButAnswers(o2, op) /\ IsOperation(op)
    BY <1>3, <2>1
  <2>3. OperationTrue(op, Ld, Lg, A)
    BY <1>9, <2>2 DEF Explains, OpTrue
  <2>4. ASSUME NEW q \in DOMAIN o2.probes, "ok" \in o2.probes[q].heard
        PROVE  o2.probes[q].prev + o2.probes[q].count <= A[q][op.term]
    <3>1. /\ q \in DOMAIN op.probes
          /\ o2.probes[q].prev = op.probes[q].prev /\ o2.probes[q].count = op.probes[q].count
      BY <2>2 DEF SameButAnswers
    <3>2. CASE "ok" \in op.probes[q].heard
      BY <2>3, <3>1, <3>2 DEF OperationTrue
    <3>3. CASE "ok" \notin op.probes[q].heard
      <4>1. relevant /\ op' = [op EXCEPT !.probes[p] = b]
        BY <1>0, <2>1, <2>4, <3>3
      <4>2. q = p /\ m.outcome = "ok"
        BY <1>2, <2>1, <2>4, <3>1, <3>3, <4>1
      <4>3. m.match = op.probes[p].prev + op.probes[p].count /\ m.term = op.term
        BY <4>1, <4>2 DEF relevant
      <4>4. m.match <= A[p][op.term]
        BY <1>0, <1>9, <4>2, <4>3 DEF Explains, RaftInv, MessageInv, MessageTrue, p
      <4> QED BY <3>1, <4>2, <4>3, <4>4
    <3> QED BY <3>2, <3>3
  <2>5. OperationTrue(o2, Ld, Lg, A)
    BY <2>2, <2>3, <2>4, OperationTrueFrom DEF SameButAnswers
  <2> QED BY <2>1, <2>5 DEF OpTrue
<1>11. MessageInv(Ld, Lg, A)'
  BY <1>0, <1>9 DEF Explains, RaftInv, MessageInv
<1>12. Explains(Ld, Lg, A)'
  BY <1>0, <1>1, <1>4, <1>5, <1>6, <1>9, <1>10, <1>11, <1>i, QuietStep
<1> QED BY <1>1, <1>4, <1>7, <1>8, <1>12 DEF IInv

-----------------------------------------------------------------------------
(* The steps of the replicator *)

\* Two operations that differ in their probes and in whom they try next
SameTask(o2, o) ==
    /\ o2.kind = o.kind /\ o2.leader = o.leader /\ o2.term = o.term /\ o2.stage = o.stage
    /\ o2.target = o.target /\ o2.commit = o.commit /\ o2.match = o.match
    /\ o2.acks = o.acks /\ o2.must = o.must /\ o2.begun = o.begun

LEMMA TaskTrue ==
    ASSUME NEW Ld, NEW Lg, NEW A, HistoryLogs(Ld, Lg, A), NEW o, NEW o2, IsOperation(o), IsOperation(o2),
           OperationTrue(o, Ld, Lg, A), SameTask(o2, o),
           \A p \in Peers(o.leader) : o2.next[p] <= o.next[p],
           \A p \in DOMAIN o2.probes : o2.probes[p].heard = {}
    PROVE  OperationTrue(o2, Ld, Lg, A)
<1>t. PICK t \in Nat, l \in Server : t = o.term /\ l = o.leader /\ t = o2.term /\ l = o2.leader
  BY DEF IsOperation, SameTask
<1>1. Len(Lg[t]) \in Nat
  BY LogFacts DEF HistoryLogs
<1>2. ASSUME NEW p \in Peers(l) PROVE o2.next[p] <= Len(Lg[t]) + 1
  <2>1. o.next[p] \in Nat /\ o2.next[p] \in Nat
    BY <1>t DEF IsOperation
  <2>2. o.next[p] <= Len(Lg[t]) + 1 /\ o2.next[p] <= o.next[p]
    BY <1>t DEF OperationTrue
  <2> QED BY <1>1, <2>1, <2>2
<1>3. \A p \in DOMAIN o2.probes : "ok" \notin o2.probes[p].heard
  OBVIOUS
<1> QED BY <1>t, <1>2, <1>3 DEF OperationTrue, SameTask

LEMMA NextPeerFacts ==
    ASSUME NEW o, IsOperation(o), NEW peer
    PROVE  LET o2 == NextPeer(o, peer)
           IN  IsOperation(o2) /\ SameTask(o2, o) /\ o2.next = o.next /\ DOMAIN o2.probes = {}
<1> DEFINE o2 == NextPeer(o, peer)
<1>d. DOMAIN o = OpFields
  BY DEF IsOperation
<1>1. /\ DOMAIN o2 = OpFields /\ o2.probes = <<>> /\ o2.todo = o.todo \ {peer} /\ o2.next = o.next
      /\ SameTask(o2, o)
  BY <1>d DEF OpFields, NextPeer, SameTask
<1> HIDE DEF o2
<1>2. DOMAIN <<>> = {}
  OBVIOUS
<1>3. IsOperation(o2)
  BY <1>1, <1>2 DEF IsOperation, SameTask
<1> QED BY <1>1, <1>2, <1>3 DEF o2

\* The index of a peer is set back.
LEMMA BackFacts ==
    ASSUME NEW o, IsOperation(o), NEW peer
    PROVE  LET o2 == [o EXCEPT !.next[peer] = IF @ > 1 THEN @ - 1 ELSE 1]
           IN  /\ IsOperation(o2) /\ SameTask(o2, o) /\ o2.probes = o.probes /\ o2.todo = o.todo
               /\ \A p \in Peers(o.leader) : o2.next[p] <= o.next[p]
<1> DEFINE new == [o.next EXCEPT ![peer] = IF @ > 1 THEN @ - 1 ELSE 1]
           o2 == [o EXCEPT !.next = new]
<1>d. DOMAIN o = OpFields /\ o.next \in [Peers(o.leader) -> Nat \ {0}]
  BY DEF IsOperation
<1>1. /\ new \in [Peers(o.leader) -> Nat \ {0}]
      /\ \A p \in Peers(o.leader) : new[p] <= o.next[p]
  <2>1. \A p \in Peers(o.leader) : new[p] \in Nat \ {0} /\ new[p] <= o.next[p]
    BY <1>d
  <2> QED BY <1>d, <2>1
<1>2. [o EXCEPT !.next[peer] = IF @ > 1 THEN @ - 1 ELSE 1] = o2
  OBVIOUS
<1> HIDE DEF new
<1>3. /\ DOMAIN o2 = OpFields /\ o2.next = new /\ o2.todo = o.todo /\ o2.probes = o.probes
      /\ SameTask(o2, o)
  BY <1>d DEF OpFields, SameTask
<1> HIDE DEF o2
<1>4. IsOperation(o2)
  BY <1>1, <1>3 DEF IsOperation, SameTask
<1> QED BY <1>1, <1>2, <1>3, <1>4

\* The operation sends nothing but what is true, begins with new probes, or ends.
LEMMA OperationStep ==
    ASSUME IInv, UNCHANGED <<term, log, applied, commit, acked, known, elected>>,
           leads' \in [Server -> BOOLEAN], \A v \in Server : leads'[v] => leads[v], AnswersAreCurrent',
           \A x \in msgs' :
               \/ x \in Stale(msgs)
               \/ /\ IsMessage(x) /\ x.type = "AppendEntries"
                  /\ \A Ld, Lg, A : Explains(Ld, Lg, A) => MessageTrue(x, Ld, Lg, A),
           op' # None => /\ op # None /\ op.kind # "check" /\ IsOperation(op') /\ SameTask(op', op)
                         /\ \A p \in Peers(op.leader) : op'.next[p] <= op.next[p]
                         /\ \A p \in DOMAIN op'.probes : op'.probes[p].heard = {}
    PROVE  IInv'
<1>i. StateOK /\ MessagesOK /\ OpOK /\ StageInv /\ FreshInv
  BY DEF IInv
<1>s. \A v \in Server : term[v] <= term[v] /\ commit[v] <= commit[v]
  BY <1>i DEF StateOK
<1>1. StateOK'
  BY <1>i DEF StateOK
<1>2. MessagesOK'
  BY <1>i, StaleFacts DEF MessagesOK
<1>3. OpOK'
  BY DEF OpOK
<1>4. op' # None => /\ op # None /\ op'.must = op.must /\ op'.begun = op.begun /\ op'.term = op.term
                    /\ op'.acks = op.acks /\ op'.stage = op.stage /\ op'.leader = op.leader
                    /\ op'.kind # "check"
                    /\ op.begun \in Nat /\ op.term \in Nat /\ op.leader \in Server
  BY <1>i DEF SameTask, OpOK, IsOperation
<1>5. FreshInv'
  <2>1. \A x \in msgs' : ~(x.type = "Response" /\ x.fresh)
    BY <1>i, StaleFacts
  <2> QED BY <1>1, <1>2, <1>4, <1>i, <1>s, <2>1, FreshStable
<1>6. StageInv'
  BY <1>1, <1>4, <1>i, <1>s, StageStable
<1>7. PICK Ld, Lg, A : Explains(Ld, Lg, A)
  BY DEF IInv
<1>8. HistoryLogs(Ld, Lg, A) /\ MessageInv(Ld, Lg, A)
  BY <1>7 DEF Explains, RaftInv
<1>9. MessageInv(Ld, Lg, A)'
  <2>1. ASSUME NEW x \in msgs' PROVE MessageTrue(x, Ld, Lg, A)
    <3>1. CASE x \in Stale(msgs)
      BY <1>8, <1>i, <3>1, StaleFacts
    <3>2. CASE x \notin Stale(msgs)
      BY <1>7, <3>2
    <3> QED BY <3>1, <3>2
  <2> QED BY <2>1 DEF MessageInv
<1>10. OpTrue(Ld, Lg, A)'
  <2> SUFFICES ASSUME op' # None PROVE OpTrue(Ld, Lg, A)'
    BY DEF OpTrue
  <2>1. PICK o2 : o2 = op'
    OBVIOUS
  <2>2. /\ op # None /\ IsOperation(o2) /\ SameTask(o2, op) /\ IsOperation(op)
        /\ \A p \in Peers(op.leader) : o2.next[p] <= op.next[p]
        /\ \A p \in DOMAIN o2.probes : o2.probes[p].heard = {}
    BY <1>i, <2>1 DEF OpOK
  <2>3. OperationTrue(op, Ld, Lg, A)
    BY <1>7, <2>2 DEF Explains, OpTrue
  <2>4. OperationTrue(o2, Ld, Lg, A)
    BY <1>8, <2>2, <2>3, TaskTrue
  <2> QED BY <2>1, <2>4 DEF OpTrue
<1>11. \A v \in Server : leads'[v] => leads[v] /\ term'[v] = term[v]
  OBVIOUS
<1>12. Explains(Ld, Lg, A)'
  BY <1>1, <1>3, <1>4, <1>7, <1>9, <1>10, <1>11, <1>i, <1>s, QuietStep
<1> QED BY <1>1, <1>2, <1>3, <1>5, <1>6, <1>12 DEF IInv

LEMMA AnswerKept ==
    ASSUME IInv, answer' = answer
    PROVE  AnswersAreCurrent'
BY DEF IInv, AnswersAreCurrent

LEMMA LeadsTyped ==
    ASSUME IInv, leads' = leads
    PROVE  leads' \in [Server -> BOOLEAN] /\ \A v \in Server : leads'[v] => leads[v]
BY DEF IInv, StateOK

LEMMA AttemptInductive ==
    ASSUME IInv, Attempt
    PROVE  IInv'
<1>1. PICK peer \in op.todo : Replicate(peer)
  BY DEF Attempt
<1>2. op # None /\ op.kind # "check" /\ Authorized(op) /\ IsOperation(op)
  BY DEF Attempt, IInv, OpOK
<1>l. PICK l \in Server, t \in Nat : l = op.leader /\ t = op.term
  BY <1>2 DEF IsOperation
<1>lg. PICK lg \in Logs : lg = log[l]
  BY DEF IInv, StateOK
<1>prev. PICK prev \in Nat : prev = op.next[peer] - 1 /\ peer \in Peers(l) /\ peer \in Server /\ peer # l
  <2>1. peer \in Peers(l) /\ op.next[peer] \in Nat \ {0}
    BY <1>2, <1>l DEF IsOperation
  <2>2. op.next[peer] - 1 \in Nat
    BY <2>1
  <2> QED BY <2>1, <2>2 DEF Peers
<1> DEFINE entries == SubSeq(lg, prev + 1, Len(lg))
           probe == NewProbe(prev, Len(entries))
           m == AppendEntriesTo(op, peer, prev, entries)
           new == [p \in {peer} |-> probe]
<1>0. /\ op' = [op EXCEPT !.probes = new] /\ msgs' = Stale(msgs) \cup {m}
      /\ UNCHANGED <<term, log, applied, commit, acked, known, elected>> /\ leads' = leads /\ answer' = answer
  BY <1>1, <1>l, <1>lg, <1>prev DEF Replicate, nodeVars, history
<1>3. ASSUME NEW Ld, NEW Lg, NEW A, Explains(Ld, Lg, A)
      PROVE  prev <= Len(lg) /\ lg = Lg[t] /\ Ld[t] = l /\ Safe(lg, op.commit, t, Ld, Lg, A)
  <2>1. OperationTrue(op, Ld, Lg, A) /\ LeaderInv(Ld, Lg) /\ HistoryLogs(Ld, Lg, A)
    BY <1>2, <1>3 DEF Explains, OpTrue, RaftInv
  <2>2. lg = Lg[t] /\ Ld[t] = l
    BY <1>2, <1>l, <1>lg, <2>1 DEF Authorized, LeaderInv
  <2>3. op.next[peer] <= Len(lg) + 1 /\ Safe(lg, op.commit, t, Ld, Lg, A)
    BY <1>l, <1>prev, <2>1, <2>2 DEF OperationTrue
  <2>4. Len(lg) \in Nat /\ op.next[peer] \in Nat
    BY <1>2, <1>l, <1>prev, LogFacts DEF IsOperation
  <2> QED BY <1>prev, <2>2, <2>3, <2>4
<1>4. prev <= Len(lg)
  <2>1. PICK Ld, Lg, A : Explains(Ld, Lg, A)
    BY DEF IInv
  <2> QED BY <1>3, <2>1
<1>5. /\ entries \in Logs /\ Len(entries) \in Nat /\ prev + Len(entries) = Len(lg)
      /\ \A j \in 1..Len(entries) : entries[j] = lg[prev + j]
  <2>1. entries \in Logs /\ prev + Len(entries) = Len(lg) /\ \A j \in 1..Len(entries) : entries[j] = lg[prev + j]
    BY <1>4, SuffixFacts
  <2> HIDE DEF entries
  <2> QED BY <2>1, LogFacts
<1> HIDE DEF entries
<1>6. /\ m.type = "AppendEntries" /\ m.src = l /\ m.dst = peer /\ m.term = t /\ m.prev = prev
      /\ m.prevTerm = TermAt(lg, prev) /\ m.entries = entries /\ m.commit = op.commit
  BY <1>l, <1>lg DEF AppendEntriesTo
<1> HIDE DEF m
<1>7. IsMessage(m)
  <2>1. op.commit \in Nat
    BY <1>2 DEF IsOperation
  <2> QED BY <1>5, <1>6, <1>l, <1>prev, <2>1 DEF IsMessage
<1>8. ASSUME NEW Ld, NEW Lg, NEW A, Explains(Ld, Lg, A)
      PROVE  MessageTrue(m, Ld, Lg, A)
  <2>1. prev <= Len(lg) /\ lg = Lg[t] /\ Ld[t] = l /\ Safe(lg, op.commit, t, Ld, Lg, A)
    BY <1>3, <1>8
  <2>2. m.prev + Len(m.entries) <= Len(Lg[m.term])
    BY <1>5, <1>6, <2>1, LogFacts
  <2>3. AppendTrue(m, Ld, Lg, A)
    BY <1>5, <1>6, <1>prev, <2>1, <2>2 DEF AppendTrue
  <2> QED BY <1>6, <2>3 DEF MessageTrue
<1>9. /\ DOMAIN new = {peer} /\ DOMAIN new[peer] = ProbeFields
      /\ new[peer].prev = prev /\ new[peer].count = Len(entries) /\ new[peer].heard = {}
  BY DEF NewProbe, ProbeFields
<1>10. DOMAIN op = OpFields
  BY <1>2 DEF IsOperation
<1> HIDE DEF new, probe
<1>11. /\ DOMAIN op' = OpFields /\ op'.probes = new /\ op'.todo = op.todo /\ op'.next = op.next
       /\ SameTask(op', op)
  <2> DEFINE o2 == [op EXCEPT !.probes = new]
  <2>1. /\ DOMAIN o2 = OpFields /\ o2.probes = new /\ o2.todo = op.todo /\ o2.next = op.next
        /\ SameTask(o2, op)
    BY <1>10 DEF OpFields, SameTask
  <2> HIDE DEF o2
  <2>2. op' = o2
    BY <1>0 DEF o2
  <2> QED BY <2>1, <2>2
<1>12. IsOperation(op')
  <2>1. PICK o2 : o2 = op'
    OBVIOUS
  <2>2. /\ DOMAIN o2 = OpFields /\ o2.probes = new /\ o2.todo = op.todo /\ o2.next = op.next
        /\ SameTask(o2, op)
    BY <1>11, <2>1
  <2>3. IsOperation(o2)
    BY <1>2, <1>5, <1>9, <1>l, <1>prev, <2>2 DEF IsOperation, SameTask
  <2> QED BY <2>1, <2>3
<1>13. op # None => \A p \in Peers(op.leader) : op.next[p] <= op.next[p]
  BY <1>2 DEF IsOperation
<1>14. AnswersAreCurrent' /\ leads' \in [Server -> BOOLEAN] /\ \A v \in Server : leads'[v] => leads[v]
  BY <1>0, AnswerKept, LeadsTyped
<1>15. \A x \in msgs' :
               \/ x \in Stale(msgs)
               \/ /\ IsMessage(x) /\ x.type = "AppendEntries"
                  /\ \A Ld, Lg, A : Explains(Ld, Lg, A) => MessageTrue(x, Ld, Lg, A)
  BY <1>0, <1>6, <1>7, <1>8
<1>16. op' # None => /\ op # None /\ op.kind # "check" /\ IsOperation(op') /\ SameTask(op', op)
                     /\ \A p \in Peers(op.leader) : op'.next[p] <= op.next[p]
                     /\ \A p \in DOMAIN op'.probes : op'.probes[p].heard = {}
  BY <1>2, <1>9, <1>11, <1>12, <1>13
<1> QED BY <1>0, <1>14, <1>15, <1>16, OperationStep

LEMMA FailInductive ==
    ASSUME IInv, Fail
    PROVE  IInv'
<1>1. /\ UNCHANGED <<term, log, applied, commit, acked, known, elected>> /\ leads' = leads /\ answer' = answer
      /\ op' = None /\ msgs' = Stale(msgs)
  BY DEF Fail, EndOperation, nodeVars, history
<1>2. AnswersAreCurrent' /\ leads' \in [Server -> BOOLEAN] /\ \A v \in Server : leads'[v] => leads[v]
  BY <1>1, AnswerKept, LeadsTyped
<1> QED BY <1>1, <1>2, OperationStep

LEMMA AcceptedTooLateInductive ==
    ASSUME IInv, NEW peer, AcceptedTooLate(peer)
    PROVE  IInv'
<1>1. /\ UNCHANGED <<term, log, applied, commit, acked, known, elected>> /\ leads' = leads /\ answer' = answer
      /\ op' = None /\ msgs' = Stale(msgs)
  BY DEF AcceptedTooLate, EndOperation, nodeVars, history
<1>2. AnswersAreCurrent' /\ leads' \in [Server -> BOOLEAN] /\ \A v \in Server : leads'[v] => leads[v]
  BY <1>1, AnswerKept, LeadsTyped
<1> QED BY <1>1, <1>2, OperationStep

LEMMA MissingInductive ==
    ASSUME IInv, op # None, op.kind # "check", NEW peer, Missing(peer)
    PROVE  IInv'
<1>1. /\ UNCHANGED <<term, log, applied, commit, acked, known, elected>> /\ leads' = leads /\ answer' = answer
      /\ op' = NextPeer(op, peer) /\ msgs' = Stale(msgs)
  BY DEF Missing, nodeVars, history
<1>2. AnswersAreCurrent' /\ leads' \in [Server -> BOOLEAN] /\ \A v \in Server : leads'[v] => leads[v]
  BY <1>1, AnswerKept, LeadsTyped
<1>3. IsOperation(op) /\ \A p \in Peers(op.leader) : op.next[p] <= op.next[p]
  BY DEF IInv, OpOK, IsOperation
<1>4. IsOperation(op') /\ SameTask(op', op) /\ op'.next = op.next /\ DOMAIN op'.probes = {}
  BY <1>1, <1>3, NextPeerFacts
<1> QED BY <1>1, <1>2, <1>3, <1>4, OperationStep

LEMMA RejectedInductive ==
    ASSUME IInv, op # None, op.kind # "check", NEW peer, Rejected(peer)
    PROVE  IInv'
<1> DEFINE back == [op EXCEPT !.next[peer] = IF @ > 1 THEN @ - 1 ELSE 1]
<1>1. /\ UNCHANGED <<term, log, applied, commit, acked, known, elected>> /\ leads' = leads /\ answer' = answer
      /\ msgs' = Stale(msgs)
      /\ op' = [back EXCEPT !.probes = <<>>, !.attempts = @ - 1] \/ op' = NextPeer(back, peer)
  BY DEF Rejected, nodeVars, history
<1>2. AnswersAreCurrent' /\ leads' \in [Server -> BOOLEAN] /\ \A v \in Server : leads'[v] => leads[v]
  BY <1>1, AnswerKept, LeadsTyped
<1>3. IsOperation(op)
  BY DEF IInv, OpOK
<1>4. /\ IsOperation(back) /\ SameTask(back, op) /\ back.todo = op.todo
      /\ \A p \in Peers(op.leader) : back.next[p] <= op.next[p]
  BY <1>3, BackFacts
<1> HIDE DEF back
<1>5. ASSUME NEW o2, o2 = [back EXCEPT !.probes = <<>>, !.attempts = @ - 1] \/ o2 = NextPeer(back, peer)
      PROVE  IsOperation(o2) /\ SameTask(o2, back) /\ o2.next = back.next /\ DOMAIN o2.probes = {}
  <2>1. CASE o2 = NextPeer(back, peer)
    BY <1>4, <2>1, NextPeerFacts
  <2>2. CASE o2 = [back EXCEPT !.probes = <<>>, !.attempts = @ - 1]
    <3>1. DOMAIN back = OpFields
      BY <1>4 DEF IsOperation
    <3>2. /\ DOMAIN o2 = OpFields /\ o2.probes = <<>> /\ o2.todo = back.todo /\ o2.next = back.next
          /\ SameTask(o2, back)
      BY <2>2, <3>1 DEF OpFields, SameTask
    <3>3. DOMAIN <<>> = {}
      OBVIOUS
    <3>4. IsOperation(o2)
      BY <1>4, <3>2, <3>3 DEF IsOperation, SameTask
    <3> QED BY <3>2, <3>3, <3>4
  <2> QED BY <1>5, <2>1, <2>2
<1>6. IsOperation(op') /\ SameTask(op', back) /\ op'.next = back.next /\ DOMAIN op'.probes = {}
  BY <1>1, <1>5
<1>7. SameTask(op', op)
  BY <1>4, <1>6 DEF SameTask
<1> QED BY <1>1, <1>2, <1>4, <1>6, <1>7, OperationStep

\* A majority has answered in the leader's term since the operation began.
LEMMA AnsweredIsCurrent ==
    ASSUME IInv, op # None, NEW Q \in SUBSET Server, IsQuorum(Q),
           \A v \in Q : v \in op.acks \/ (v \in DOMAIN op.probes /\ op.probes[v].heard # {})
    PROVE  op.begun <= op.term
<1>1. PICK P \in SUBSET Server : IsQuorum(P) /\ \A v \in P : FreshVoter(v)
  BY DEF IInv, FreshInv
<1>2. PICK v \in Q : v \in P
  BY <1>1, QuorumsMeet
<1>3. FreshVoter(v)
  BY <1>1, <1>2
<1> QED BY <1>3 DEF FreshVoter

LEMMA FinishCheckInductive ==
    ASSUME IInv, FinishCheck
    PROVE  IInv'
<1> DEFINE n == op.leader
           active == {n} \cup {p \in Peers(n) : MatchingResponse(op.probes[p]) # "none"}
<1>1. /\ UNCHANGED <<term, log, applied, commit, acked, known, elected>>
      /\ op' = None /\ msgs' = Stale(msgs) /\ op # None /\ op.kind = "check"
      /\ leads' = leads \/ leads' = [leads EXCEPT ![n] = FALSE]
      /\ \/ answer' = answer
         \/ /\ IsQuorum(active)
            /\ answer' = [term |-> op.term, begun |-> op.begun, saw |-> {}, must |-> {}]
  BY DEF FinishCheck, EndOperation
<1>2. leads' \in [Server -> BOOLEAN] /\ \A v \in Server : leads'[v] => leads[v]
  BY <1>1 DEF IInv, StateOK
<1>3. AnswersAreCurrent'
  <2>1. CASE answer' = answer
    BY <2>1, AnswerKept
  <2>2. CASE answer' # answer
    <3>1. IsQuorum(active) /\ answer' = [term |-> op.term, begun |-> op.begun, saw |-> {}, must |-> {}]
      BY <1>1, <2>2
    <3>2. IsOperation(op) /\ DOMAIN op.probes = Peers(n)
      BY <1>1 DEF IInv, OpOK, StageInv
    <3>3. active \in SUBSET Server
      BY <3>2 DEF IsOperation, Peers
    <3>4. ASSUME NEW v \in active
          PROVE  v \in op.acks \/ (v \in DOMAIN op.probes /\ op.probes[v].heard # {})
      <4>1. CASE v = n
        BY <3>2, <4>1 DEF IsOperation
      <4>2. CASE v # n
        <5>1. v \in Peers(n) /\ MatchingResponse(op.probes[v]) # "none"
          BY <3>4, <4>2
        <5>2. op.probes[v].heard # {}
          BY <5>1 DEF MatchingResponse
        <5> QED BY <3>2, <5>1, <5>2
      <4> QED BY <4>1, <4>2
    <3> HIDE DEF active
    <3>5. op.begun <= op.term
      BY <1>1, <3>1, <3>3, <3>4, AnsweredIsCurrent
    <3> QED BY <3>1, <3>5 DEF AnswersAreCurrent
  <2> QED BY <2>1, <2>2
<1> QED BY <1>1, <1>2, <1>3, OperationStep

-----------------------------------------------------------------------------
(* The beginning of an operation *)

\* apply_committed at a leader, with an index that is safe
LEMMA ApplyStep ==
    ASSUME StateOK, NEW Ld, NEW Lg, NEW A, RaftInv(Ld, Lg, A), NEW n \in Server, NEW i \in Nat,
           Safe(log[n], i, term[n], Ld, Lg, A),
           applied' = [applied EXCEPT ![n] = ApplyCommitted(n, i)]
    PROVE  /\ applied' \in [Server -> Logs] /\ i <= Len(applied'[n])
           /\ \A p \in Server : NodeSafe(log[p], applied'[p], commit[p], term[p], Ld, Lg, A)
           /\ \A p \in Server : Agree(applied'[p], applied[p], Len(applied[p]))
<1>1. HistoryLogs(Ld, Lg, A) /\ \A p \in Server : NodeSafe(log[p], applied[p], commit[p], term[p], Ld, Lg, A)
  BY DEF RaftInv, CommitInv
<1>t. PICK t \in Nat : t = term[n]
  BY DEF StateOK
<1>now. PICK now : now = ApplyCommitted(n, i)
  OBVIOUS
<1>2. /\ now \in Logs
      /\ Safe(now, Len(now), t, Ld, Lg, A) /\ Agree(now, log[n], Len(now))
      /\ i <= Len(now) /\ Agree(now, applied[n], Len(applied[n]))
  <2>1. NodeSafe(log[n], applied[n], commit[n], t, Ld, Lg, A) /\ Safe(log[n], i, t, Ld, Lg, A)
    BY <1>1, <1>t
  <2> QED BY <1>1, <1>now, <2>1, ApplyFacts
<1>3. applied' = [applied EXCEPT ![n] = now]
  BY <1>now
<1>4. applied'[n] = now /\ \A p \in Server \ {n} : applied'[p] = applied[p]
  BY <1>3 DEF StateOK
<1>5. applied' \in [Server -> Logs]
  BY <1>2, <1>3 DEF StateOK
<1>6. ASSUME NEW p \in Server
      PROVE  NodeSafe(log[p], applied'[p], commit[p], term[p], Ld, Lg, A)
  <2>1. CASE p = n
    BY <1>1, <1>2, <1>4, <1>t, <2>1 DEF NodeSafe
  <2>2. CASE p # n
    BY <1>1, <1>4, <2>2
  <2> QED BY <2>1, <2>2
<1>7. ASSUME NEW p \in Server
      PROVE  Agree(applied'[p], applied[p], Len(applied[p]))
  <2>1. CASE p = n
    BY <1>2, <1>4, <2>1
  <2>2. CASE p # n
    <3>1. applied[p] \in Logs
      BY DEF StateOK
    <3>2. \A x \in Logs : Len(x) \in Nat /\ Agree(x, x, Len(x))
      BY LogFacts, AgreeReflexive
    <3> QED BY <1>4, <2>2, <3>1, <3>2
  <2> QED BY <2>1, <2>2
<1> QED BY <1>2, <1>4, <1>5, <1>6, <1>7

LEMMA NewOperationFacts ==
    ASSUME StateOK, NEW n \in Server, NEW kind, NEW request
    PROVE  LET o == NewOperation(n, kind, request)
           IN  /\ IsOperation(o) /\ o.kind = kind /\ o.leader = n /\ o.term = term[n] /\ o.stage = "commit"
               /\ o.commit = commit[n] /\ o.acks = {n} /\ o.must = known /\ o.begun = elected
               /\ o.todo = Peers(n) /\ DOMAIN o.probes = {}
               /\ \A p \in Peers(n) : o.match[p] = 0 /\ o.next[p] = Len(log[n]) + 1
<1> DEFINE o == NewOperation(n, kind, request)
<1>1. /\ DOMAIN o = OpFields /\ o.kind = kind /\ o.leader = n /\ o.term = term[n] /\ o.stage = "commit"
      /\ o.commit = commit[n] /\ o.acks = {n} /\ o.must = known /\ o.begun = elected
      /\ o.todo = Peers(n) /\ o.probes = <<>>
      /\ o.match = [p \in Peers(n) |-> 0] /\ o.next = [p \in Peers(n) |-> Len(log[n]) + 1]
  BY DEF NewOperation, OpFields
<1> HIDE DEF o
<1>2. Len(log[n]) \in Nat /\ term[n] \in Nat /\ commit[n] \in Nat /\ elected \in Nat
  BY LogFacts DEF StateOK
<1>3. DOMAIN <<>> = {}
  OBVIOUS
<1>4. o.next \in [Peers(n) -> Nat \ {0}] /\ o.match \in [Peers(n) -> Nat]
  BY <1>1, <1>2
<1>5. IsOperation(o)
  BY <1>1, <1>2, <1>3, <1>4 DEF IsOperation
<1> QED BY <1>1, <1>3, <1>5 DEF o

\* A leader's own term, log and commit index
LEMMA LeaderFacts ==
    ASSUME StateOK, NEW Ld, NEW Lg, NEW A, RaftInv(Ld, Lg, A), NEW n \in Server, leads[n]
    PROVE  /\ Ld[term[n]] = n /\ log[n] = Lg[term[n]] /\ term[n] <= elected
           /\ Safe(log[n], commit[n], term[n], Ld, Lg, A)
           /\ IsQuorum({v \in Server : elected <= term[v]})
<1>1. Ld[term[n]] = n /\ log[n] = Lg[term[n]] /\ LeaderInv(Ld, Lg)
  BY DEF RaftInv, LeaderInv
<1>2. term[n] \in Nat /\ elected \in Nat
  BY DEF StateOK
<1>3. term[n] > 0 /\ term[n] <= elected
  BY <1>1, <1>2, ConstantAssumption DEF LeaderInv
<1>4. Ld[elected] # None
  BY <1>1, <1>2, <1>3 DEF LeaderInv
<1>5. IsQuorum({v \in Server : elected <= term[v]})
  BY <1>1, <1>2, <1>4 DEF LeaderInv
<1> QED BY <1>1, <1>3, <1>5 DEF RaftInv, CommitInv, NodeSafe

LEMMA StartStep ==
    ASSUME IInv, StateOK', NEW n \in Server, leads[n], op = None,
           NEW Ld, NEW Lg, NEW A, NEW Ld2, NEW Lg2, NEW A2,
           Explains(Ld, Lg, A), Grows(Ld, Lg, A, Ld2, Lg2, A2), RaftInv(Ld2, Lg2, A2)',
           UNCHANGED <<term, elected, acked, known>>, answer' = None,
           \A p \in Server : Agree(applied'[p], applied[p], Len(applied[p])),
           \A x \in msgs' : x \in Stale(msgs) \/ (IsMessage(x) /\ x.type = "AppendEntries"),
           NEW o, op' = o, IsOperation(o), o.leader = n, o.term = term[n],
           o.acks = {n}, o.must = known, o.begun = elected,
           \A p \in DOMAIN o.probes : o.probes[p].heard = {},
           OperationTrue(o, Ld2, Lg2, A2), StageInv'
    PROVE  IInv'
<1>i. StateOK /\ MessagesOK
  BY DEF IInv
<1>1. /\ MessagesOK' /\ OpOK' /\ AnswersAreCurrent' /\ \A x \in msgs' : ~(x.type = "Response" /\ x.fresh)
  BY <1>i, StaleFacts DEF MessagesOK, OpOK, AnswersAreCurrent
<1>2. RaftInv(Ld, Lg, A) /\ HistoryLogs(Ld, Lg, A) /\ HistoryLogs(Ld2, Lg2, A2) /\ KnownInv(Ld, Lg, A)
  BY DEF Explains, RaftInv, HistoryLogs
<1>3. PICK b \in Nat : b = elected
  BY <1>i DEF StateOK
<1>4. FreshInv'
  <2> DEFINE Q == {v \in Server : b <= term[v]}
  <2>1. Q \in SUBSET Server /\ IsQuorum(Q)
    BY <1>2, <1>3, <1>i, LeaderFacts
  <2>2. ASSUME NEW v \in Q PROVE FreshVoter(v)'
    <3>1. b <= term'[v]
      OBVIOUS
    <3>2. v \in o.acks => b <= o.term
      OBVIOUS
    <3> QED BY <1>1, <1>3, <3>1, <3>2 DEF FreshVoter
  <2> HIDE DEF Q
  <2> QED BY <2>1, <2>2 DEF FreshInv
<1>5. ASSUME NEW r \in known PROVE KnownBy(r, b, Ld2, Lg2, A2)'
  <2>1. KnownBy(r, b, Ld, Lg, A) /\ b <= b
    BY <1>2, <1>3 DEF KnownInv
  <2> QED BY <1>2, <1>i, <2>1, KnownGrows
<1>6. KnownInv(Ld2, Lg2, A2)'
  <2>1. acked' \subseteq known'
    BY <1>2 DEF KnownInv
  <2>2. b = elected' /\ b = op'.begun /\ op'.must = known /\ known' = known
    BY <1>3
  <2>3. ASSUME NEW r \in known PROVE KnownBy(r, elected, Ld2, Lg2, A2)' /\ KnownBy(r, op.begun, Ld2, Lg2, A2)'
    BY <1>5, <2>2 DEF KnownBy
  <2> QED BY <2>1, <2>2, <2>3 DEF KnownInv
<1>7. OpTrue(Ld2, Lg2, A2)'
  BY DEF OpTrue
<1>8. Explains(Ld2, Lg2, A2)'
  BY <1>6, <1>7 DEF Explains
<1> QED BY <1>1, <1>4, <1>8 DEF IInv

LEMMA NewOperationTrue ==
    ASSUME NEW Ld, NEW Lg, NEW A, HistoryLogs(Ld, Lg, A), NEW n \in Server, NEW t \in Nat, NEW lg \in Logs,
           Ld[t] = n, Lg[t] = lg, NEW o, o.leader = n, o.term = t, Safe(lg, o.commit, t, Ld, Lg, A),
           \A p \in Peers(n) : o.match[p] = 0 /\ o.next[p] <= Len(lg) + 1,
           \A p \in DOMAIN o.probes : o.probes[p].heard = {},
           o.kind = "read" /\ o.stage = "commit" => o.target \in 1..Len(lg) /\ lg[o.target].term = t
    PROVE  OperationTrue(o, Ld, Lg, A)
<1>1. \A p \in Peers(n) : A[p][t] \in Nat
  BY DEF HistoryLogs, Peers
<1>2. \A p \in Peers(n) : o.match[p] <= A[p][t] /\ o.next[p] <= Len(Lg[t]) + 1
  BY <1>1
<1>3. \A p \in DOMAIN o.probes : "ok" \notin o.probes[p].heard
  OBVIOUS
<1> QED BY <1>2, <1>3 DEF OperationTrue

\* Messages before the operation are still true, and so are the new ones.
LEMMA StartMessages ==
    ASSUME MessagesOK, NEW Ld, NEW Lg, NEW A, RaftInv(Ld, Lg, A),
           \A x \in msgs' : x \in Stale(msgs) \/ (IsMessage(x) /\ MessageTrue(x, Ld, Lg, A))
    PROVE  MessagesOK' /\ MessageInv(Ld, Lg, A)'
<1>1. MessageInv(Ld, Lg, A)
  BY DEF RaftInv
<1>2. ASSUME NEW x \in Stale(msgs) PROVE IsMessage(x) /\ MessageTrue(x, Ld, Lg, A)
  BY <1>1, StaleFacts
<1> QED BY <1>2 DEF MessagesOK, MessageInv

LEMMA StartCheckInductive ==
    ASSUME IInv, NEW n \in Server, StartCheck(n)
    PROVE  IInv'
<1>i. StateOK /\ MessagesOK
  BY DEF IInv
<1>lg. PICK lg \in Logs : lg = log[n]
  BY <1>i DEF StateOK
<1>t. PICK t \in Nat : t = term[n]
  BY <1>i DEF StateOK
<1>last. PICK last \in Nat : last = Len(lg)
  BY LogFacts
<1> DEFINE new == [p \in Peers(n) |-> NewProbe(last, 0)]
           base == NewOperation(n, "check", None)
           o == [base EXCEPT !.probes = new, !.commit = 0]
<1>0. /\ UNCHANGED <<term, log, applied, leads, commit, acked, known, elected>> /\ answer' = None
      /\ op = None /\ leads[n] /\ op' = o
      /\ \A x \in msgs' : x \in Stale(msgs) \/ \E p \in Peers(n) : x = AppendEntriesTo(o, p, last, <<>>)
  BY <1>lg, <1>last DEF StartCheck, nodeVars
<1>1. /\ IsOperation(base) /\ base.kind = "check" /\ base.leader = n /\ base.term = t /\ base.stage = "commit"
      /\ base.acks = {n} /\ base.must = known /\ base.begun = elected /\ base.todo = Peers(n)
      /\ \A p \in Peers(n) : base.match[p] = 0 /\ base.next[p] = Len(lg) + 1
  BY <1>i, <1>lg, <1>t, NewOperationFacts
<1>2. /\ DOMAIN new = Peers(n)
      /\ \A p \in Peers(n) : DOMAIN new[p] = ProbeFields /\ new[p].prev = last /\ new[p].count = 0 /\ new[p].heard = {}
  BY DEF NewProbe, ProbeFields
<1> HIDE DEF base, new
<1>3. /\ DOMAIN o = OpFields /\ o.probes = new /\ o.commit = 0
      /\ o.kind = "check" /\ o.leader = n /\ o.term = t /\ o.stage = "commit"
      /\ o.acks = {n} /\ o.must = known /\ o.begun = elected /\ o.todo = Peers(n)
      /\ o.match = base.match /\ o.next = base.next
  <2>1. DOMAIN base = OpFields
    BY <1>1 DEF IsOperation
  <2> QED BY <1>1, <2>1 DEF OpFields
<1> HIDE DEF o
<1>4. IsOperation(o)
  BY <1>1, <1>2, <1>3 DEF IsOperation
<1>5. \A p \in DOMAIN o.probes : o.probes[p].heard = {}
  BY <1>2, <1>3
<1>6. PICK Ld, Lg, A : Explains(Ld, Lg, A)
  BY DEF IInv
<1>7. RaftInv(Ld, Lg, A) /\ HistoryLogs(Ld, Lg, A) /\ CommitInv(Ld, Lg, A)
  BY <1>6 DEF Explains, RaftInv
<1>8. Ld[t] = n /\ Lg[t] = lg
  <2>1. leads[n]
    BY <1>0
  <2>2. Ld[term[n]] = n /\ log[n] = Lg[term[n]]
    BY <1>7, <2>1 DEF RaftInv, LeaderInv
  <2> QED BY <1>lg, <1>t, <2>2
<1>9. ASSUME NEW p \in Peers(n), NEW x, x = AppendEntriesTo(o, p, last, <<>>)
      PROVE  IsMessage(x) /\ x.type = "AppendEntries" /\ MessageTrue(x, Ld, Lg, A)
  <2>1. /\ x.type = "AppendEntries" /\ x.src = n /\ x.dst = p /\ x.term = t /\ x.prev = last
        /\ x.prevTerm = TermAt(lg, last) /\ x.entries = <<>> /\ x.commit = 0
    BY <1>3, <1>9, <1>lg DEF AppendEntriesTo
  <2>2. <<>> \in Logs /\ Len(<<>>) = 0
    BY DEF Logs
  <2>3. p \in Server /\ p # n
    BY DEF Peers
  <2>4. IsMessage(x)
    BY <2>1, <2>2, <2>3 DEF IsMessage
  <2>5. Safe(Lg[t], 0, t, Ld, Lg, A)
    BY DEF Safe
  <2>6. AppendTrue(x, Ld, Lg, A)
    BY <1>8, <1>last, <2>1, <2>2, <2>3, <2>5 DEF AppendTrue
  <2> QED BY <2>1, <2>4, <2>6 DEF MessageTrue
<1>10. MessagesOK' /\ MessageInv(Ld, Lg, A)'
  BY <1>0, <1>7, <1>9, <1>i, StartMessages
<1>11. StateOK'
  BY <1>0, <1>i DEF StateOK
<1>12. RaftInv(Ld, Lg, A)'
  <2>1. CommitInv(Ld, Lg, A)'
    BY <1>0, <1>7 DEF CommitInv
  <2>2. \A v \in Server : term[v] <= term'[v] /\ (leads'[v] => leads[v] /\ term'[v] = term[v])
    BY <1>0, <1>i DEF StateOK
  <2> QED BY <1>0, <1>7, <1>10, <1>11, <1>i, <2>1, <2>2, RaftQuiet
<1>13. \A p \in Server : Agree(applied'[p], applied[p], Len(applied[p]))
  <2>1. \A p \in Server : applied[p] \in Logs
    BY <1>i DEF StateOK
  <2>2. \A x \in Logs : Len(x) \in Nat /\ Agree(x, x, Len(x))
    BY LogFacts, AgreeReflexive
  <2> QED BY <1>0, <2>1, <2>2
<1>14. OperationTrue(o, Ld, Lg, A)
  <2>1. Safe(lg, o.commit, t, Ld, Lg, A)
    BY <1>3 DEF Safe
  <2>2. \A p \in Peers(n) : o.match[p] = 0 /\ o.next[p] <= Len(lg) + 1
    BY <1>1, <1>3, <1>last
  <2>3. ~(o.kind = "read" /\ o.stage = "commit")
    BY <1>3
  <2> QED BY <1>3, <1>5, <1>7, <1>8, <2>1, <2>2, <2>3, NewOperationTrue
<1>15. StageInv'
  BY <1>0, <1>2, <1>3 DEF StageInv
<1>16. \A x \in msgs' : x \in Stale(msgs) \/ (IsMessage(x) /\ x.type = "AppendEntries")
  BY <1>0, <1>9
<1>17. Grows(Ld, Lg, A, Ld, Lg, A)
  BY <1>7, GrowsReflexive
<1>18. o.term = term[n]
  BY <1>3, <1>t
<1> QED BY <1>0, <1>3, <1>4, <1>5, <1>6, <1>11, <1>12, <1>13, <1>14, <1>15, <1>16, <1>17, <1>18, StartStep

\* No leader changes, and no log; what is applied stays within what is safe.
LEMMA RaftApplies ==
    ASSUME StateOK, StateOK', NEW Ld, NEW Lg, NEW A, RaftInv(Ld, Lg, A),
           UNCHANGED <<term, log, leads, commit, elected>>, MessageInv(Ld, Lg, A)',
           \A p \in Server : NodeSafe(log[p], applied'[p], commit[p], term[p], Ld, Lg, A)
    PROVE  RaftInv(Ld, Lg, A)'
<1>1. CommitInv(Ld, Lg, A)'
  BY DEF CommitInv
<1>2. \A v \in Server : term[v] <= term'[v]
  BY DEF StateOK
<1>3. \A v \in Server : leads'[v] => leads[v] /\ term'[v] = term[v]
  OBVIOUS
<1> QED BY <1>1, <1>2, <1>3, RaftQuiet

LEMMA StartReadInductive ==
    ASSUME IInv, NEW n \in Server, StartRead(n)
    PROVE  IInv'
<1>i. StateOK /\ MessagesOK
  BY DEF IInv
<1>lg. PICK lg \in Logs : lg = log[n]
  BY <1>i DEF StateOK
<1>t. PICK t \in Nat : t = term[n]
  BY <1>i DEF StateOK
<1>c. PICK c \in Nat : c = commit[n]
  BY <1>i DEF StateOK
<1> DEFINE e == [term |-> t, command |-> Barrier]
           base == NewOperation(n, "read", None)
<1>0. /\ UNCHANGED <<term, applied, leads, commit, acked, known, elected>> /\ answer' = None
      /\ op = None /\ leads[n] /\ msgs' = Stale(msgs)
      /\ \/ /\ c > 0 /\ TermAt(lg, c) = t
            /\ op' = [base EXCEPT !.stage = "confirm"]
            /\ log' = log
         \/ /\ log' = [log EXCEPT ![n] = Append(lg, e)]
            /\ op' = [base EXCEPT !.target = Len(lg) + 1]
  BY <1>lg, <1>t, <1>c DEF StartRead, HasCurrentTermCommit, Extend
<1>1. /\ IsOperation(base) /\ base.kind = "read" /\ base.leader = n /\ base.term = t /\ base.stage = "commit"
      /\ base.acks = {n} /\ base.must = known /\ base.begun = elected /\ base.todo = Peers(n) /\ base.commit = c
      /\ DOMAIN base.probes = {}
      /\ \A p \in Peers(n) : base.match[p] = 0 /\ base.next[p] = Len(lg) + 1
  BY <1>i, <1>lg, <1>t, <1>c, NewOperationFacts
<1> HIDE DEF base
<1>2. DOMAIN base = OpFields
  BY <1>1 DEF IsOperation
<1>3. ASSUME NEW o, \/ o = [base EXCEPT !.stage = "confirm"]
                    \/ o = [base EXCEPT !.target = Len(lg) + 1]
      PROVE  /\ DOMAIN o = OpFields
             /\ o.kind = base.kind /\ o.leader = base.leader /\ o.term = base.term /\ o.probes = base.probes
             /\ o.commit = base.commit /\ o.acks = base.acks /\ o.must = base.must /\ o.begun = base.begun
             /\ o.todo = base.todo /\ o.match = base.match /\ o.next = base.next
             /\ IsOperation(o)
  <2>1. /\ DOMAIN o = OpFields
        /\ o.kind = base.kind /\ o.leader = base.leader /\ o.term = base.term /\ o.probes = base.probes
        /\ o.commit = base.commit /\ o.acks = base.acks /\ o.must = base.must /\ o.begun = base.begun
        /\ o.todo = base.todo /\ o.match = base.match /\ o.next = base.next
    BY <1>2, <1>3 DEF OpFields
  <2> QED BY <1>1, <2>1 DEF IsOperation
<1>o. PICK o : o = op'
  OBVIOUS
<1>4. /\ IsOperation(o) /\ o.kind = "read" /\ o.leader = n /\ o.term = t /\ o.commit = c
      /\ o.acks = {n} /\ o.must = known /\ o.begun = elected
      /\ DOMAIN o.probes = {} /\ \A p \in Peers(n) : o.match[p] = 0 /\ o.next[p] = Len(lg) + 1
  <2>1. \/ o = [base EXCEPT !.stage = "confirm"]
        \/ o = [base EXCEPT !.target = Len(lg) + 1]
    BY <1>0, <1>o
  <2> QED BY <1>1, <1>3, <2>1
<1>5. Len(lg) \in Nat
  BY LogFacts
<1>6. PICK Ld, Lg, A : Explains(Ld, Lg, A)
  BY DEF IInv
<1>7. RaftInv(Ld, Lg, A) /\ HistoryLogs(Ld, Lg, A) /\ CommitInv(Ld, Lg, A)
  BY <1>6 DEF Explains, RaftInv
<1>8. leads[n] /\ op = None /\ op' = o /\ answer' = None
  BY <1>0, <1>o
<1>9. Ld[t] = n /\ Lg[t] = lg /\ Safe(lg, c, t, Ld, Lg, A)
  <2>1. Ld[term[n]] = n /\ log[n] = Lg[term[n]]
    BY <1>7, <1>8 DEF RaftInv, LeaderInv
  <2>2. Safe(log[n], commit[n], term[n], Ld, Lg, A)
    BY <1>7 DEF CommitInv, NodeSafe
  <2> QED BY <1>lg, <1>t, <1>c, <2>1, <2>2
<1>10. MessagesOK' /\ MessageInv(Ld, Lg, A)'
  BY <1>0, <1>7, <1>i, StartMessages
<1>11. \A p \in Server : Agree(applied'[p], applied[p], Len(applied[p]))
  <2>1. \A p \in Server : applied[p] \in Logs
    BY <1>i DEF StateOK
  <2>2. \A x \in Logs : Len(x) \in Nat /\ Agree(x, x, Len(x))
    BY LogFacts, AgreeReflexive
  <2> QED BY <1>0, <2>1, <2>2
<1>12. \A p \in Server : NodeSafe(log[p], applied'[p], commit[p], term[p], Ld, Lg, A)
  BY <1>0, <1>7 DEF CommitInv
<1>13. \A x \in msgs' : x \in Stale(msgs) \/ (IsMessage(x) /\ x.type = "AppendEntries")
  BY <1>0
<1>14. o.term = term[n] /\ \A p \in DOMAIN o.probes : o.probes[p].heard = {}
  BY <1>4, <1>t
<1>15. UNCHANGED <<term, leads, commit, elected, acked, known>>
  BY <1>0
<1>16. CASE log' = log
  <2>1. o.stage = "confirm" /\ c > 0 /\ TermAt(lg, c) = t
    <3>1. lg # Append(lg, e)
      <4>1. e \in LogEntry
        BY DEF LogEntry
      <4>2. Len(Append(lg, e)) = Len(lg) + 1
        BY <4>1, AppendFacts
      <4> QED BY <1>5, <4>2
    <3>2. log # [log EXCEPT ![n] = Append(lg, e)]
      BY <1>i, <1>lg, <3>1 DEF StateOK
    <3>3. c > 0 /\ TermAt(lg, c) = t /\ o = [base EXCEPT !.stage = "confirm"]
      BY <1>0, <1>16, <1>o, <3>2
    <3> QED BY <1>2, <3>3 DEF OpFields
  <2>2. StateOK'
    BY <1>0, <1>16, <1>i DEF StateOK
  <2>3. RaftInv(Ld, Lg, A)'
    BY <1>7, <1>10, <1>12, <1>15, <1>16, <1>i, <2>2, RaftApplies
  <2>4. OperationTrue(o, Ld, Lg, A)
    <3>1. Safe(lg, o.commit, t, Ld, Lg, A) /\ ~(o.kind = "read" /\ o.stage = "commit")
      BY <1>4, <1>9, <2>1
    <3>2. \A p \in Peers(n) : o.match[p] = 0 /\ o.next[p] <= Len(lg) + 1
      BY <1>4, <1>5
    <3> QED BY <1>4, <1>7, <1>9, <3>1, <3>2, NewOperationTrue
  <2>5. StageInv'
    <3>1. 1 <= c /\ c <= Len(lg) /\ lg[c].term = t
      BY <1>5, <1>9, <2>1 DEF Safe, Agree, TermAt
    <3>2. 1 <= c /\ c <= commit'[n] /\ c <= Len(log'[n]) /\ log'[n][c].term = o.term /\ o.leader = n /\ o.kind = "read"
      BY <1>15, <1>16, <1>4, <1>c, <1>lg, <3>1
    <3> QED BY <1>8, <3>2 DEF StageInv
  <2>6. Grows(Ld, Lg, A, Ld, Lg, A)
    BY <1>7, GrowsReflexive
  <2> QED BY <1>4, <1>6, <1>8, <1>11, <1>13, <1>14, <1>15, <2>2, <2>3, <2>4, <2>5, <2>6, StartStep
<1>17. CASE log' # log
  <2>1. o = [base EXCEPT !.target = Len(lg) + 1] /\ log' = [log EXCEPT ![n] = Append(lg, e)]
    BY <1>0, <1>o, <1>17
  <2>2. o.target = Len(lg) + 1 /\ o.stage = "commit"
    BY <1>1, <1>2, <2>1 DEF OpFields
  <2>3. e \in LogEntry /\ e.term = term[n] /\ e.command = Barrier
    BY <1>t DEF LogEntry
  <2>e. PICK x : x = e
    OBVIOUS
  <2> HIDE DEF e
  <2>b. PICK b \in Logs : /\ b = Append(lg, e) /\ Len(b) = Len(lg) + 1 /\ b[Len(lg) + 1] = e
                          /\ Agree(b, lg, Len(lg))
    BY <2>3, AppendFacts
  <2>4. log' \in [Server -> Logs] /\ log'[n] = b
    BY <1>i, <2>1, <2>b DEF StateOK
  <2>5. StateOK'
    BY <1>0, <1>i, <2>4 DEF StateOK
  <2>6. PICK Lg2, A2 : Grows(Ld, Lg, A, Ld, Lg2, A2) /\ RaftInv(Ld, Lg2, A2)'
    <3>1. log' = [log EXCEPT ![n] = Append(log[n], e)]
      BY <1>lg, <2>1
    <3>2. e.command # Barrier => \A i \in 1..Len(log[n]) : log[n][i].command # e.command
      BY <2>3
    <3>3. UNCHANGED <<term, leads, commit, elected>>
      BY <1>15
    <3> QED BY <1>7, <1>8, <1>10, <1>12, <1>i, <2>3, <2>5, <3>1, <3>2, <3>3, RaftExtends
  <2>7. HistoryLogs(Ld, Lg2, A2) /\ Lg2[t] = b
    <3>1. HistoryLogs(Ld, Lg2, A2)
      BY <2>6 DEF RaftInv, HistoryLogs
    <3>2. leads'[n] /\ term'[n] = t
      BY <1>8, <1>15, <1>t
    <3>3. log'[n] = Lg2[t]
      BY <2>6, <3>2 DEF RaftInv, LeaderInv
    <3> QED BY <2>4, <3>1, <3>3
  <2>8. OperationTrue(o, Ld, Lg2, A2)
    <3>1. Safe(b, c, t, Ld, Lg2, A2)
      BY <1>7, <1>9, <2>b, <2>6, <2>7, SafeExtends
    <3>2. \A p \in Peers(n) : o.match[p] = 0 /\ o.next[p] <= Len(b) + 1
      BY <1>4, <1>5, <2>b
    <3>3. o.target \in 1..Len(b) /\ b[o.target].term = t
      BY <1>5, <1>t, <2>2, <2>3, <2>b
    <3> QED BY <1>4, <1>9, <2>7, <3>1, <3>2, <3>3, NewOperationTrue
  <2>9. StageInv'
    BY <1>8, <1>4, <2>2 DEF StageInv
  <2> QED BY <1>4, <1>6, <1>8, <1>11, <1>13, <1>14, <1>15, <2>5, <2>6, <2>8, <2>9, StartStep
<1> QED BY <1>16, <1>17

\* What a leader has applied of safe entries is known by its term.
LEMMA TookIsKnown ==
    ASSUME NEW Ld, NEW Lg, NEW A, HistoryLogs(Ld, Lg, A), NEW n \in Server, NEW t \in Nat, Ld[t] = n,
           NEW b \in Nat, t <= b, NEW now \in Logs, applied'[n] = now, Safe(now, Len(now), t, Ld, Lg, A),
           NEW r \in Took(now)
    PROVE  KnownBy(r, b, Ld, Lg, A)'
<1>1. PICK j \in 1..Len(now) : now[j].command = r
  BY TookFacts
<1>2. Len(now) \in Nat /\ j \in Nat /\ 1 <= j /\ j <= Len(now)
  BY LogFacts
<1>3. PICK u \in Nat, k \in Nat : /\ u <= t /\ Len(now) <= k /\ Committed(Ld, Lg, A, u, k)
                                  /\ Agree(now, Lg[u], Len(now))
  BY <1>2 DEF Safe
<1>4. j <= k /\ Lg[u][j].command = r
  BY <1>1, <1>2, <1>3 DEF Agree
<1>5. n # None
  BY ConstantAssumption
<1> QED BY <1>2, <1>3, <1>4, <1>5 DEF KnownBy

\* An operation ends, or is not begun, and tells its client what the leader has applied.
LEMMA EndStep ==
    ASSUME IInv, StateOK', MessagesOK', AnswersAreCurrent', op' = None, NEW n \in Server, leads[n],
           NEW Ld, NEW Lg, NEW A, Explains(Ld, Lg, A), RaftInv(Ld, Lg, A)', UNCHANGED <<term, elected>>,
           \A p \in Server : Agree(applied'[p], applied[p], Len(applied[p])),
           acked' \subseteq known', known' \subseteq known \cup Took(applied'[n])
    PROVE  IInv'
<1>i. StateOK
  BY DEF IInv
<1>1. OpOK' /\ StageInv' /\ FreshInv' /\ OpTrue(Ld, Lg, A)'
  BY DEF OpOK, StageInv, FreshInv, OpTrue
<1>2. RaftInv(Ld, Lg, A) /\ HistoryLogs(Ld, Lg, A) /\ KnownInv(Ld, Lg, A)
  BY DEF Explains, RaftInv
<1>t. PICK t \in Nat, b \in Nat : t = term[n] /\ b = elected
  BY <1>i DEF StateOK
<1>now. PICK now \in Logs : now = applied'[n]
  BY DEF StateOK
<1>3. Ld[t] = n /\ t <= b
  BY <1>2, <1>i, <1>t, LeaderFacts
<1>4. Safe(now, Len(now), t, Ld, Lg, A)
  BY <1>t, <1>now DEF RaftInv, CommitInv, NodeSafe
<1>5. ASSUME NEW r \in known' PROVE KnownBy(r, b, Ld, Lg, A)'
  <2>1. CASE r \in known
    <3>1. KnownBy(r, b, Ld, Lg, A) /\ b <= b
      BY <1>2, <1>t, <2>1 DEF KnownInv
    <3>2. Grows(Ld, Lg, A, Ld, Lg, A)
      BY <1>2, GrowsReflexive
    <3> QED BY <1>2, <1>i, <3>1, <3>2, KnownGrows
  <2>2. CASE r \notin known
    <3>1. r \in Took(now)
      BY <1>now, <2>2
    <3> QED BY <1>2, <1>3, <1>4, <1>now, <3>1, TookIsKnown
  <2> QED BY <2>1, <2>2
<1>6. KnownInv(Ld, Lg, A)'
  <2>1. \A r \in known' : KnownBy(r, elected, Ld, Lg, A)'
    BY <1>5, <1>t DEF KnownBy
  <2> QED BY <2>1 DEF KnownInv
<1>7. Explains(Ld, Lg, A)'
  BY <1>1, <1>6 DEF Explains
<1> QED BY <1>1, <1>7 DEF IInv

\* _commit_write adds one entry, of the leader's term, or none.
LEMMA LogForWriteFacts ==
    ASSUME NEW n \in Server, log[n] \in Logs, term[n] \in Nat, NEW request \in Request
    PROVE  LET l == LogForWrite(n, request)
           IN  \/ l = log[n]
               \/ \E e \in LogEntry :
                     /\ e.term = term[n] /\ l = Append(log[n], e)
                     /\ e.command # Barrier => \A i \in 1..Len(log[n]) : log[n][i].command # e.command
<1> DEFINE found == RequestLogIndex(log[n], request)
           e == [term |-> term[n], command |-> request]
           x == [term |-> term[n], command |-> Barrier]
           with == IF found = {} THEN Extend(n, request) ELSE log[n]
           recent == {i \in DOMAIN with : with[i].term = term[n] /\ \A j \in found : i >= j}
<1>1. LogForWrite(n, request) = IF recent = {} THEN Append(with, x) ELSE with
  BY DEF LogForWrite
<1>2. e \in LogEntry /\ e.term = term[n] /\ e.command = request
  BY DEF LogEntry
<1>3. x \in LogEntry /\ x.term = term[n] /\ x.command = Barrier
  BY DEF LogEntry
<1>4. Extend(n, request) = Append(log[n], e)
  BY DEF Extend
<1>5. DOMAIN log[n] = 1..Len(log[n]) /\ Len(log[n]) \in Nat
  BY LenProperties DEF Logs
<1>e. PICK e1 \in LogEntry, x1 \in LogEntry : e1 = e /\ x1 = x
  BY <1>2, <1>3
<1> HIDE DEF e, x
<1>6. CASE found = {}
  <2>1. with = Append(log[n], e1)
    BY <1>4, <1>6, <1>e
  <2>2. recent # {}
    <3>1. with[Len(log[n]) + 1] = e1 /\ Len(with) = Len(log[n]) + 1 /\ with \in Logs
      <4>1. PICK b : b = Append(log[n], e1)
        OBVIOUS
      <4>2. b[Len(log[n]) + 1] = e1 /\ Len(b) = Len(log[n]) + 1 /\ b \in Logs
        BY <4>1, AppendFacts
      <4>3. with = b
        BY <2>1, <4>1
      <4> HIDE DEF with
      <4> QED BY <4>2, <4>3
    <3> HIDE DEF with
    <3>2. DOMAIN with = 1..Len(with)
      BY <3>1, LenProperties DEF Logs
    <3>3. Len(log[n]) + 1 \in DOMAIN with
      BY <1>5, <3>1, <3>2
    <3> HIDE DEF found
    <3>4. Len(log[n]) + 1 \in recent
      BY <1>2, <1>6, <1>e, <3>1, <3>3
    <3> QED BY <3>4
  <2>3. \A i \in 1..Len(log[n]) : log[n][i].command # e1.command
    BY <1>2, <1>5, <1>6, <1>e DEF RequestLogIndex
  <2> HIDE DEF with, found, recent
  <2> QED BY <1>1, <1>2, <1>e, <2>1, <2>2, <2>3
<1>7. CASE found # {}
  <2>1. with = log[n]
    BY <1>7
  <2> HIDE DEF with, found, recent
  <2> QED BY <1>1, <1>3, <1>e, <2>1
<1> QED BY <1>6, <1>7

LEMMA StartWriteInductive ==
    ASSUME IInv, NEW n \in Server, NEW request \in Request, StartWrite(n, request)
    PROVE  IInv'
<1>i. StateOK /\ MessagesOK
  BY DEF IInv
<1>lg. PICK lg \in Logs : lg = log[n]
  BY <1>i DEF StateOK
<1>t. PICK t \in Nat : t = term[n]
  BY <1>i DEF StateOK
<1>c. PICK c \in Nat : c = commit[n]
  BY <1>i DEF StateOK
<1> DEFINE now == ApplyCommitted(n, commit[n])
           l == LogForWrite(n, request)
           base == NewOperation(n, "write", request)
           o == [base EXCEPT !.target = TargetForWrite(n, l, request)]
<1>0. /\ UNCHANGED <<term, leads, commit, elected>> /\ answer' = None
      /\ op = None /\ leads[n] /\ msgs' = Stale(msgs)
      /\ applied' = [applied EXCEPT ![n] = now]
      /\ \/ request \in Took(now) /\ Acknowledge(request) /\ UNCHANGED <<log, op>>
         \/ log' = [log EXCEPT ![n] = l] /\ op' = o /\ UNCHANGED <<acked, known>>
  BY DEF StartWrite
<1>1. PICK Ld, Lg, A : Explains(Ld, Lg, A)
  BY DEF IInv
<1>2. RaftInv(Ld, Lg, A) /\ HistoryLogs(Ld, Lg, A) /\ CommitInv(Ld, Lg, A) /\ KnownInv(Ld, Lg, A)
  BY <1>1 DEF Explains, RaftInv
<1>3. leads[n] /\ op = None /\ answer' = None
  BY <1>0
<1>4. Ld[t] = n /\ Lg[t] = lg /\ Safe(lg, c, t, Ld, Lg, A)
  <2>1. Ld[term[n]] = n /\ log[n] = Lg[term[n]]
    BY <1>2, <1>3 DEF RaftInv, LeaderInv
  <2>2. Safe(log[n], commit[n], term[n], Ld, Lg, A)
    BY <1>2 DEF CommitInv, NodeSafe
  <2> QED BY <1>lg, <1>t, <1>c, <2>1, <2>2
<1>5. MessagesOK' /\ MessageInv(Ld, Lg, A)'
  BY <1>0, <1>2, <1>i, StartMessages
<1>6. \A x \in msgs' : x \in Stale(msgs) \/ (IsMessage(x) /\ x.type = "AppendEntries")
  BY <1>0
<1>7. UNCHANGED <<term, leads, commit, elected>>
  BY <1>0
<1>8. /\ applied' \in [Server -> Logs]
      /\ \A p \in Server : NodeSafe(log[p], applied'[p], commit[p], term[p], Ld, Lg, A)
      /\ \A p \in Server : Agree(applied'[p], applied[p], Len(applied[p]))
  <2>1. applied' = [applied EXCEPT ![n] = ApplyCommitted(n, c)]
    BY <1>0, <1>c
  <2>2. Safe(log[n], c, term[n], Ld, Lg, A)
    BY <1>4, <1>lg, <1>t
  <2> QED BY <1>2, <1>i, <2>1, <2>2, ApplyStep
<1>9. applied'[n] = now
  BY <1>0, <1>i DEF StateOK
<1> HIDE DEF now
<1>10. CASE request \in Took(now) /\ Acknowledge(request) /\ UNCHANGED <<log, op>>
  <2>1. StateOK' /\ AnswersAreCurrent'
    BY <1>3, <1>7, <1>8, <1>10, <1>i DEF StateOK, AnswersAreCurrent
  <2>2. RaftInv(Ld, Lg, A)'
    BY <1>2, <1>5, <1>7, <1>8, <1>10, <1>i, <2>1, RaftApplies
  <2>3. acked' \subseteq known' /\ known' \subseteq known \cup Took(applied'[n])
    BY <1>2, <1>9, <1>10 DEF Acknowledge, KnownInv
  <2>4. op' = None /\ UNCHANGED <<term, elected>>
    BY <1>3, <1>7, <1>10
  <2> QED BY <1>1, <1>3, <1>5, <1>8, <2>1, <2>2, <2>3, <2>4, EndStep
<1>11. CASE log' = [log EXCEPT ![n] = l] /\ op' = o /\ UNCHANGED <<acked, known>>
  <2>1. /\ IsOperation(base) /\ base.kind = "write" /\ base.leader = n /\ base.term = t /\ base.stage = "commit"
        /\ base.acks = {n} /\ base.must = known /\ base.begun = elected /\ base.todo = Peers(n) /\ base.commit = c
        /\ DOMAIN base.probes = {}
        /\ \A p \in Peers(n) : base.match[p] = 0 /\ base.next[p] = Len(lg) + 1
    BY <1>i, <1>lg, <1>t, <1>c, NewOperationFacts
  <2> HIDE DEF base, l
  <2>2. /\ DOMAIN o = OpFields
        /\ o.kind = base.kind /\ o.leader = base.leader /\ o.term = base.term /\ o.probes = base.probes
        /\ o.commit = base.commit /\ o.acks = base.acks /\ o.must = base.must /\ o.begun = base.begun
        /\ o.todo = base.todo /\ o.match = base.match /\ o.next = base.next /\ o.stage = base.stage
    <3>1. DOMAIN base = OpFields
      BY <2>1 DEF IsOperation
    <3> QED BY <3>1 DEF OpFields
  <2>o. PICK op2 : op2 = o
    OBVIOUS
  <2>3. op' = op2
    BY <1>11, <2>o
  <2> HIDE DEF o
  <2>4. /\ IsOperation(op2) /\ op2.kind = "write" /\ op2.leader = n /\ op2.term = t /\ op2.commit = c
        /\ op2.acks = {n} /\ op2.must = known /\ op2.begun = elected /\ op2.stage = "commit"
        /\ DOMAIN op2.probes = {} /\ \A p \in Peers(n) : op2.match[p] = 0 /\ op2.next[p] = Len(lg) + 1
    BY <2>1, <2>2, <2>o DEF IsOperation
  <2>5. op2.term = term[n] /\ \A p \in DOMAIN op2.probes : op2.probes[p].heard = {}
    BY <1>t, <2>4
  <2>6. StageInv'
    BY <2>3, <2>4 DEF StageInv
  <2>7. UNCHANGED <<term, elected, acked, known>>
    BY <1>7, <1>11
  <2>8. Len(lg) \in Nat
    BY LogFacts
  <2>9. \/ l = log[n]
        \/ \E e \in LogEntry :
              /\ e.term = term[n] /\ l = Append(log[n], e)
              /\ e.command # Barrier => \A i \in 1..Len(log[n]) : log[n][i].command # e.command
    <3>1. log[n] \in Logs /\ term[n] \in Nat
      BY <1>i DEF StateOK
    <3> QED BY <3>1, LogForWriteFacts DEF l
  <2>10. ~(op2.kind = "read" /\ op2.stage = "commit")
    BY <2>4
  <2>11. CASE l = log[n]
    <3>1. log' = log
      BY <1>11, <1>i, <2>11 DEF StateOK
    <3>2. StateOK'
      BY <1>7, <1>8, <1>i, <3>1 DEF StateOK
    <3>3. RaftInv(Ld, Lg, A)'
      BY <1>2, <1>5, <1>7, <1>8, <1>i, <3>1, <3>2, RaftApplies
    <3>4. OperationTrue(op2, Ld, Lg, A)
      <4>1. Safe(lg, op2.commit, t, Ld, Lg, A)
        BY <1>4, <2>4
      <4>2. \A p \in Peers(n) : op2.match[p] = 0 /\ op2.next[p] <= Len(lg) + 1
        BY <2>4, <2>8
      <4> QED BY <1>2, <1>4, <2>4, <2>5, <2>10, <4>1, <4>2, NewOperationTrue
    <3>5. Grows(Ld, Lg, A, Ld, Lg, A)
      BY <1>2, GrowsReflexive
    <3> QED BY <1>1, <1>3, <1>6, <1>8, <2>3, <2>4, <2>5, <2>6, <2>7, <3>2, <3>3, <3>4, <3>5, StartStep
  <2>12. ASSUME NEW e \in LogEntry, e.term = term[n], l = Append(log[n], e),
                e.command # Barrier => \A i \in 1..Len(log[n]) : log[n][i].command # e.command
         PROVE  IInv'
    <3>b. PICK b \in Logs : /\ b = Append(lg, e) /\ Len(b) = Len(lg) + 1 /\ Agree(b, lg, Len(lg))
      BY AppendFacts
    <3>1. log' = [log EXCEPT ![n] = Append(log[n], e)]
      BY <1>11, <2>12
    <3>2. log' \in [Server -> Logs] /\ log'[n] = b
      BY <1>i, <1>lg, <3>1, <3>b DEF StateOK
    <3>3. StateOK'
      BY <1>7, <1>8, <1>i, <3>2 DEF StateOK
    <3>4. PICK Lg2, A2 : Grows(Ld, Lg, A, Ld, Lg2, A2) /\ RaftInv(Ld, Lg2, A2)'
      BY <1>2, <1>3, <1>5, <1>7, <1>8, <1>i, <2>12, <3>1, <3>3, RaftExtends
    <3>5. HistoryLogs(Ld, Lg2, A2) /\ Lg2[t] = b
      <4>1. HistoryLogs(Ld, Lg2, A2)
        BY <3>4 DEF RaftInv, HistoryLogs
      <4>2. leads'[n] /\ term'[n] = t
        BY <1>3, <1>7, <1>t
      <4>3. log'[n] = Lg2[t]
        BY <3>4, <4>2 DEF RaftInv, LeaderInv
      <4> QED BY <3>2, <4>1, <4>3
    <3>6. OperationTrue(op2, Ld, Lg2, A2)
      <4>1. Safe(b, c, t, Ld, Lg2, A2)
        BY <1>2, <1>4, <3>b, <3>4, <3>5, SafeExtends
      <4>2. \A p \in Peers(n) : op2.match[p] = 0 /\ op2.next[p] <= Len(b) + 1
        BY <2>4, <2>8, <3>b
      <4> QED BY <1>4, <2>4, <2>5, <2>10, <3>5, <4>1, <4>2, NewOperationTrue
    <3> QED BY <1>1, <1>3, <1>6, <1>8, <2>3, <2>4, <2>5, <2>6, <2>7, <3>3, <3>4, <3>6, StartStep
  <2> QED BY <2>9, <2>11, <2>12
<1> QED BY <1>0, <1>10, <1>11

-----------------------------------------------------------------------------
(* A peer's success *)

\* advance_commit_index advances over what is committed only.
LEMMA AdvancedIsSafe ==
    ASSUME StateOK, NEW Ld, NEW Lg, NEW A, RaftInv(Ld, Lg, A), NEW o, IsOperation(o), OperationTrue(o, Ld, Lg, A),
           leads[o.leader], term[o.leader] = o.term,
           NEW matched \in [Peers(o.leader) -> Nat], \A p \in Peers(o.leader) : matched[p] <= A[p][o.term]
    PROVE  /\ AdvancedCommit(o, matched) \in Nat
           /\ Safe(log[o.leader], AdvancedCommit(o, matched), o.term, Ld, Lg, A)
<1>t. PICK t \in Nat, n \in Server, c \in Nat : t = o.term /\ n = o.leader /\ c = o.commit
  BY DEF IsOperation
<1>lg. PICK lg \in Logs : lg = log[n]
  BY DEF StateOK
<1>0. leads[n] /\ term[n] = t
  BY <1>t
<1>1. Ld[t] = n /\ Lg[t] = lg /\ A[n][t] = Len(lg) /\ HistoryLogs(Ld, Lg, A)
  BY <1>0, <1>lg DEF RaftInv, LeaderInv, AckInv
<1>2. Safe(lg, c, t, Ld, Lg, A)
  BY <1>1, <1>t DEF OperationTrue
<1>3. Len(lg) \in Nat /\ n # None
  BY LogFacts, ConstantAssumption
<1> DEFINE held == {i \in c + 1..Len(lg) :
                       /\ TermAt(lg, i) = t
                       /\ IsQuorum({n} \cup {p \in Peers(n) : matched[p] >= i})}
<1>4. AdvancedCommit(o, matched) = IF held = {} THEN c ELSE CHOOSE i \in held : \A j \in held : j <= i
  BY <1>lg, <1>t DEF AdvancedCommit
<1>5. ASSUME NEW i \in held
      PROVE  i \in Nat /\ i <= Len(lg) /\ Safe(lg, i, t, Ld, Lg, A)
  <2>1. i \in Nat /\ 1 <= i /\ i <= Len(lg) /\ TermAt(lg, i) = t
    BY <1>3
  <2>2. IsQuorum({n} \cup {p \in Peers(n) : matched[p] >= i})
    OBVIOUS
  <2> DEFINE P == {n} \cup {p \in Peers(n) : matched[p] >= i}
             Q == {v \in Server : A[v][t] >= i}
  <2>3. P \subseteq Q
    <3>1. n \in Q
      BY <1>1, <2>1
    <3>2. ASSUME NEW p \in Peers(n), matched[p] >= i PROVE p \in Q
      <4>1. p \in Server /\ A[p][t] \in Nat
        BY <1>1 DEF HistoryLogs, Peers
      <4>2. matched[p] \in Nat /\ matched[p] <= A[p][t]
        BY <1>t
      <4> QED BY <2>1, <3>2, <4>1, <4>2
    <3> QED BY <3>1, <3>2
  <2>4. IsQuorum(P) /\ P \in SUBSET Server /\ Q \in SUBSET Server
    BY <2>2 DEF Peers
  <2>5. IsQuorum(Q)
    <3> HIDE DEF P, Q
    <3> QED BY <2>3, <2>4, QuorumGrows
  <2>6. lg[i].term = t
    BY <2>1 DEF TermAt
  <2>7. Committed(Ld, Lg, A, t, i)
    BY <1>1, <1>3, <2>1, <2>5, <2>6 DEF Committed
  <2>8. Agree(lg, Lg[t], i)
    BY <1>1, <2>1, AgreeReflexive
  <2> QED BY <2>1, <2>7, <2>8 DEF Safe
<1>6. CASE held = {}
  <2>1. AdvancedCommit(o, matched) = c
    BY <1>4, <1>6
  <2> QED BY <1>2, <1>lg, <1>t, <2>1
<1>7. CASE held # {}
  <2> DEFINE a == CHOOSE i \in held : \A j \in held : j <= i
  <2>1. AdvancedCommit(o, matched) = a
    BY <1>4, <1>7
  <2>2. held \in SUBSET Nat /\ \A y \in held : y <= Len(lg)
    BY <1>5
  <2> HIDE DEF held
  <2>3. \E x \in held : \A y \in held : y <= x
    BY <1>3, <1>7, <2>2, Greatest
  <2>4. a \in held
    BY <2>3
  <2> HIDE DEF a
  <2> QED BY <1>5, <1>lg, <1>t, <2>1, <2>4
<1> QED BY <1>6, <1>7

\* The answer that replicate goes by was heard.
LEMMA MatchingIsHeard ==
    ASSUME NEW probe, MatchingResponse(probe) = "ok"
    PROVE  "ok" \in probe.heard
<1> DEFINE matching == probe.heard \cap probe.handled
<1>1. matching # {}
  BY DEF MatchingResponse
<1>2. CASE probe.latest \in matching
  BY <1>1, <1>2 DEF MatchingResponse
<1>3. CASE probe.latest \notin matching
  <2>1. MatchingResponse(probe) = CHOOSE outcome \in matching : TRUE
    BY <1>1, <1>3 DEF MatchingResponse
  <2> QED BY <1>1, <2>1
<1> QED BY <1>2, <1>3

\* The operation after a success
Progress(o, peer, matched, commitIndex) ==
    [NextPeer(o, peer) EXCEPT !.match = matched, !.next[peer] = matched[peer] + 1, !.commit = commitIndex]

LEMMA ProgressFacts ==
    ASSUME NEW Ld, NEW Lg, NEW A, RaftInv(Ld, Lg, A), NEW o, IsOperation(o), OperationTrue(o, Ld, Lg, A),
           NEW peer \in Peers(o.leader),
           NEW matched \in [Peers(o.leader) -> Nat], \A p \in Peers(o.leader) : matched[p] <= A[p][o.term],
           NEW c \in Nat, Safe(Lg[o.term], c, o.term, Ld, Lg, A)
    PROVE  LET o2 == Progress(o, peer, matched, c)
           IN  /\ IsOperation(o2) /\ OperationTrue(o2, Ld, Lg, A)
               /\ o2.kind = o.kind /\ o2.leader = o.leader /\ o2.term = o.term /\ o2.stage = o.stage
               /\ o2.target = o.target /\ o2.acks = o.acks /\ o2.must = o.must /\ o2.begun = o.begun
               /\ DOMAIN o2.probes = {}
<1> DEFINE o1 == NextPeer(o, peer)
           next == [o.next EXCEPT ![peer] = matched[peer] + 1]
           o2 == [o1 EXCEPT !.match = matched, !.next = next, !.commit = c]
<1>1. IsOperation(o1) /\ SameTask(o1, o) /\ o1.next = o.next /\ DOMAIN o1.probes = {}
  BY NextPeerFacts
<1>2. Progress(o, peer, matched, c) = o2
  BY <1>1 DEF Progress
<1>t. PICK t \in Nat, n \in Server : t = o.term /\ n = o.leader
  BY DEF IsOperation
<1> HIDE DEF o1
<1>3. /\ next \in [Peers(n) -> Nat \ {0}] /\ next[peer] = matched[peer] + 1
      /\ \A p \in Peers(n) \ {peer} : next[p] = o.next[p]
  <2>1. o.next \in [Peers(n) -> Nat \ {0}] /\ matched[peer] + 1 \in Nat \ {0} /\ peer \in Peers(n)
    BY <1>t DEF IsOperation
  <2> QED BY <2>1
<1> HIDE DEF next
<1>4. /\ DOMAIN o2 = OpFields /\ o2.match = matched /\ o2.next = next /\ o2.commit = c
      /\ o2.kind = o1.kind /\ o2.leader = o1.leader /\ o2.term = o1.term /\ o2.stage = o1.stage
      /\ o2.target = o1.target /\ o2.acks = o1.acks /\ o2.must = o1.must /\ o2.begun = o1.begun
      /\ o2.probes = o1.probes /\ o2.todo = o1.todo
  <2>1. DOMAIN o1 = OpFields
    BY <1>1 DEF IsOperation
  <2> QED BY <2>1 DEF OpFields
<1> HIDE DEF o2
<1>5. /\ o2.kind = o.kind /\ o2.leader = n /\ o2.term = t /\ o2.stage = o.stage
      /\ o2.target = o.target /\ o2.acks = o.acks /\ o2.must = o.must /\ o2.begun = o.begun
      /\ DOMAIN o2.probes = {} /\ o1.leader = n
  BY <1>1, <1>4, <1>t DEF SameTask
<1>6. IsOperation(o2)
  BY <1>1, <1>3, <1>4, <1>5, <1>t DEF IsOperation
<1>7. OperationTrue(o2, Ld, Lg, A)
  <2>1. Ld[t] = n /\ HistoryLogs(Ld, Lg, A) /\ Lg[t] \in Logs /\ Len(Lg[t]) \in Nat
    BY <1>t, LogFacts DEF OperationTrue, RaftInv, HistoryLogs
  <2>2. ASSUME NEW p \in Peers(n)
        PROVE  o2.match[p] <= A[p][t] /\ o2.next[p] <= Len(Lg[t]) + 1
    <3>1. matched[p] \in Nat /\ matched[p] <= A[p][t] /\ p \in Server
      BY <1>t DEF Peers
    <3>2. A[p][t] \in Nat /\ (A[p][t] > 0 => A[p][t] <= Len(Lg[t]))
      BY <2>1, <3>1 DEF RaftInv, HistoryLogs, AckInv
    <3>3. CASE p = peer
      BY <1>3, <1>4, <2>1, <3>1, <3>2, <3>3
    <3>4. CASE p # peer
      <4>1. o.next[p] <= Len(Lg[t]) + 1
        BY <1>t DEF OperationTrue
      <4> QED BY <1>3, <1>4, <3>1, <3>4, <4>1
    <3> QED BY <3>3, <3>4
  <2>3. o.kind = "read" /\ o.stage = "commit" => o.target \in 1..Len(Lg[t]) /\ Lg[t][o.target].term = t
    BY <1>t DEF OperationTrue
  <2>4. Safe(Lg[t], o2.commit, t, Ld, Lg, A)
    BY <1>4, <1>t
  <2> QED BY <1>5, <2>1, <2>2, <2>3, <2>4 DEF OperationTrue
<1> QED BY <1>2, <1>5, <1>6, <1>7, <1>t

\* A confirmed read sees what clients knew when it was called.
LEMMA ReadSees ==
    ASSUME StateOK, NEW Ld, NEW Lg, NEW A, RaftInv(Ld, Lg, A), NEW n \in Server, NEW t \in Nat,
           leads[n], term[n] = t, NEW b \in Nat, b <= t, NEW now \in Logs,
           Agree(now, log[n], Len(now)), Agree(now, applied[n], Len(applied[n])),
           NEW c \in Nat, 1 <= c, c <= Len(log[n]), c <= Len(now), log[n][c].term = t,
           NEW r, KnownBy(r, b, Ld, Lg, A)
    PROVE  r \in Took(now)
<1>x. HistoryLogs(Ld, Lg, A) /\ KeepInv(Ld, Lg, A) /\ LogInv(Ld, Lg)
  BY DEF RaftInv
<1>lg. PICK lg \in Logs : lg = log[n]
  BY DEF StateOK
<1>1. Ld[t] = n /\ Lg[t] = lg /\ Good(lg, Ld, Lg) /\ n # None
  BY <1>lg, ConstantAssumption DEF RaftInv, LeaderInv, LogInv
<1>2. PICK s \in Nat : /\ s <= b /\ Ld[s] # None /\ r \in Took(applied[Ld[s]])
                       /\ \E u, k, j \in Nat : /\ u <= s /\ 1 <= j /\ j <= k
                                               /\ Committed(Ld, Lg, A, u, k) /\ Lg[u][j].command = r
  BY DEF KnownBy
<1>3. PICK u \in Nat, k \in Nat, j \in Nat :
          u <= s /\ 1 <= j /\ j <= k /\ Committed(Ld, Lg, A, u, k) /\ Lg[u][j].command = r
  BY <1>2
<1>4. PICK l \in Server : l = Ld[s]
  BY <1>2, <1>x DEF HistoryLogs
<1>5. CASE s = t
  <2>1. PICK a \in Logs : a = applied[n]
    BY DEF StateOK
  <2> QED BY <1>1, <1>2, <1>5, <2>1, TookGrows
<1>6. CASE s # t
  <2>1. u < t
    BY <1>2, <1>3, <1>6
  <2>2. Choosable(Ld, Lg, A, u, k)
    BY <1>3, <1>x, CommittedIsChoosable
  <2>3. Agree(Lg[t], Lg[u], k)
    BY <1>1, <1>x, <2>1, <2>2 DEF KeepInv
  <2>4. Len(lg) \in Nat /\ Len(now) \in Nat /\ k <= Len(lg) /\ lg[k] = Lg[u][k] /\ lg[j] = Lg[u][j]
    <3>1. Len(lg) \in Nat /\ Len(now) \in Nat
      BY LogFacts
    <3>2. k \in 1..k /\ j \in 1..k
      BY <1>3
    <3> QED BY <1>1, <2>3, <3>1, <3>2 DEF Agree
  <2>5. lg[k].term = u /\ lg[c].term = t
    BY <1>3, <1>lg, <2>4 DEF Committed
  <2>6. k < c
    <3> SUFFICES ASSUME c <= k PROVE FALSE
      OBVIOUS
    <3>1. k \in 1..Len(lg) /\ c \in 1..Len(lg)
      BY <1>3, <1>lg, <2>4
    <3>2. lg[c].term <= lg[k].term
      BY <1>1, <1>x, <3>1, TermsMonotone
    <3> QED BY <2>1, <2>5, <3>2
  <2>7. j \in 1..Len(now) /\ now[j] = lg[j]
    BY <1>3, <1>lg, <2>4, <2>6 DEF Agree
  <2>8. r # Barrier
    <3>1. PICK a \in Logs : a = applied[l]
      BY DEF StateOK
    <3> QED BY <1>2, <1>4, <3>1, TookFacts
  <2> QED BY <1>3, <2>4, <2>7, <2>8, TookFacts
<1> QED BY <1>5, <1>6

LEMMA AcceptedInductive ==
    ASSUME IInv, op # None, op.kind # "check", NEW peer \in DOMAIN op.probes, Accepted(peer)
    PROVE  IInv'
<1>i. StateOK /\ MessagesOK /\ OpOK /\ StageInv /\ FreshInv /\ AnswersAreCurrent
  BY DEF IInv
<1>op. IsOperation(op)
  BY <1>i DEF OpOK
<1>t. PICK n \in Server, t \in Nat, b \in Nat : n = op.leader /\ t = op.term /\ b = op.begun
  BY <1>op DEF IsOperation
<1>lg. PICK lg \in Logs, c \in Nat : lg = log[n] /\ c = commit[n]
  BY <1>i DEF StateOK
<1> DEFINE matched == [op.match EXCEPT ![peer] = Higher(@, op.probes[peer].prev + op.probes[peer].count)]
           adv == AdvancedCommit(op, matched)
           index == Higher(c, adv)
           o == Progress(op, peer, matched, adv)
           now == ApplyCommitted(n, index)
<1>0. /\ MatchingResponse(op.probes[peer]) = "ok" /\ leads[n] /\ term[n] = t
      /\ commit' = [commit EXCEPT ![n] = index] /\ msgs' = Stale(msgs)
      /\ UNCHANGED <<term, log, leads, elected>>
      /\ \/ /\ op.stage = "commit" /\ op' = o
            /\ UNCHANGED <<applied, acked, known, answer>>
         \/ /\ applied' = [applied EXCEPT ![n] = now]
            /\ op.request \in Took(now) /\ Acknowledge(op.request) /\ op' = None /\ UNCHANGED answer
         \/ /\ op.stage = "commit" /\ index >= op.target /\ op.kind = "read"
            /\ applied' = [applied EXCEPT ![n] = now]
            /\ op' = [o EXCEPT !.stage = "confirm", !.todo = Peers(n)]
            /\ UNCHANGED <<acked, known, answer>>
         \/ /\ op.stage = "confirm" /\ op' = [o EXCEPT !.acks = @ \cup {peer}]
            /\ UNCHANGED <<applied, acked, known, answer>>
         \/ /\ op.stage = "confirm" /\ IsQuorum(op.acks \cup {peer})
            /\ applied' = [applied EXCEPT ![n] = now]
            /\ answer' = [term |-> op.term, begun |-> op.begun, saw |-> Took(now), must |-> op.must]
            /\ known' = known \cup Took(now) /\ op' = None /\ UNCHANGED acked
  BY <1>t, <1>lg DEF Accepted, Authorized, Progress, EndOperation, CompleteRead
<1>p. peer \in Peers(n) /\ peer \in Server /\ "ok" \in op.probes[peer].heard
  <2>1. peer \in Peers(n)
    BY <1>op, <1>t DEF IsOperation
  <2>2. "ok" \in op.probes[peer].heard
    BY <1>0, MatchingIsHeard
  <2> QED BY <2>1, <2>2 DEF Peers
<1>1. PICK Ld, Lg, A : Explains(Ld, Lg, A)
  BY DEF IInv
<1>2. /\ RaftInv(Ld, Lg, A) /\ HistoryLogs(Ld, Lg, A) /\ KnownInv(Ld, Lg, A)
      /\ OperationTrue(op, Ld, Lg, A)
  BY <1>1 DEF Explains, RaftInv, OpTrue
<1>3. leads[n] /\ term[n] = t /\ Ld[t] = n /\ Lg[t] = lg /\ Safe(lg, c, t, Ld, Lg, A)
  <2>1. leads[n] /\ term[n] = t
    BY <1>0
  <2>2. Ld[t] = n /\ Lg[t] = lg
    BY <1>2, <1>lg, <2>1 DEF RaftInv, LeaderInv
  <2>3. Safe(lg, c, t, Ld, Lg, A)
    BY <1>2, <1>lg, <2>1 DEF RaftInv, CommitInv, NodeSafe
  <2> QED BY <2>1, <2>2, <2>3
<1>4. matched \in [Peers(n) -> Nat] /\ \A p \in Peers(n) : matched[p] <= A[p][t]
  <2> DEFINE reached == op.probes[peer].prev + op.probes[peer].count
  <2>1. op.match \in [Peers(n) -> Nat] /\ reached \in Nat
    BY <1>op, <1>t DEF IsOperation
  <2>2. reached <= A[peer][t]
    BY <1>2, <1>p, <1>t DEF OperationTrue
  <2>3. \A p \in Peers(n) : op.match[p] <= A[p][t]
    BY <1>2, <1>t DEF OperationTrue
  <2> HIDE DEF reached
  <2>4. Higher(op.match[peer], reached) \in Nat /\ Higher(op.match[peer], reached) <= A[peer][t]
    BY <1>p, <2>1, <2>2, <2>3 DEF Higher
  <2>5. matched = [op.match EXCEPT ![peer] = Higher(op.match[peer], reached)]
    BY DEF reached
  <2> HIDE DEF matched
  <2> QED BY <1>p, <2>1, <2>3, <2>4, <2>5
<1> HIDE DEF matched
<1>5. adv \in Nat /\ Safe(lg, adv, t, Ld, Lg, A)
  BY <1>2, <1>3, <1>4, <1>i, <1>lg, <1>op, <1>t, AdvancedIsSafe
<1> HIDE DEF adv
<1>6. index \in Nat /\ c <= index /\ Safe(lg, index, t, Ld, Lg, A)
  BY <1>3, <1>5 DEF Higher
<1> HIDE DEF index
<1>o. PICK o1 : o1 = o
  OBVIOUS
<1>7. /\ IsOperation(o1) /\ OperationTrue(o1, Ld, Lg, A)
      /\ o1.kind = op.kind /\ o1.leader = n /\ o1.term = t /\ o1.stage = op.stage
      /\ o1.target = op.target /\ o1.acks = op.acks /\ o1.must = op.must /\ o1.begun = b
      /\ DOMAIN o1.probes = {}
  <2>1. peer \in Peers(op.leader) /\ Safe(Lg[op.term], adv, op.term, Ld, Lg, A)
    BY <1>3, <1>5, <1>p, <1>t
  <2>2. /\ matched \in [Peers(op.leader) -> Nat] /\ adv \in Nat
        /\ \A p \in Peers(op.leader) : matched[p] <= A[p][op.term]
    BY <1>4, <1>5, <1>t
  <2>3. LET x == Progress(op, peer, matched, adv)
        IN  /\ IsOperation(x) /\ OperationTrue(x, Ld, Lg, A)
            /\ x.kind = op.kind /\ x.leader = op.leader /\ x.term = op.term /\ x.stage = op.stage
            /\ x.target = op.target /\ x.acks = op.acks /\ x.must = op.must /\ x.begun = op.begun
            /\ DOMAIN x.probes = {}
    <3>1. RaftInv(Ld, Lg, A) /\ OperationTrue(op, Ld, Lg, A)
      BY <1>2
    <3> HIDE DEF o
    <3> QED BY <1>op, <2>1, <2>2, <3>1, ProgressFacts
  <2> QED BY <1>o, <1>t, <2>3
<1> HIDE DEF o
<1>8. MessagesOK' /\ MessageInv(Ld, Lg, A)' /\ \A x \in msgs' : ~(x.type = "Response" /\ x.fresh)
  <2>1. MessagesOK' /\ MessageInv(Ld, Lg, A)'
    BY <1>0, <1>2, <1>i, StartMessages
  <2>2. msgs' = Stale(msgs)
    BY <1>0
  <2>3. \A x \in msgs' : ~(x.type = "Response" /\ x.fresh)
    BY <1>i, <2>2, StaleFacts
  <2> QED BY <2>1, <2>3
<1>9. UNCHANGED <<term, log, leads, elected>> /\ commit' = [commit EXCEPT ![n] = index]
  BY <1>0
<1>10. applied' = applied \/ applied' = [applied EXCEPT ![n] = now]
  BY <1>0
<1>11. /\ applied' \in [Server -> Logs]
       /\ \A p \in Server : NodeSafe(log[p], applied'[p], commit[p], term[p], Ld, Lg, A)
       /\ \A p \in Server : Agree(applied'[p], applied[p], Len(applied[p]))
       /\ applied' = [applied EXCEPT ![n] = now] => applied'[n] = now /\ index <= Len(now)
  <2>1. CASE applied' # [applied EXCEPT ![n] = now]
    <3>0. applied' = applied
      BY <1>10, <2>1
    <3>1. \A p \in Server : applied[p] \in Logs
      BY <1>i DEF StateOK
    <3>2. \A x \in Logs : Len(x) \in Nat /\ Agree(x, x, Len(x))
      BY LogFacts, AgreeReflexive
    <3>3. applied \in [Server -> Logs]
      BY <1>i DEF StateOK
    <3>4. CommitInv(Ld, Lg, A)
      BY <1>2 DEF RaftInv
    <3> QED BY <2>1, <3>0, <3>1, <3>2, <3>3, <3>4 DEF CommitInv
  <2>2. CASE applied' = [applied EXCEPT ![n] = now]
    <3>1. Safe(log[n], index, term[n], Ld, Lg, A)
      BY <1>3, <1>6, <1>lg
    <3>2. /\ applied' \in [Server -> Logs] /\ index <= Len(applied'[n])
          /\ \A p \in Server : NodeSafe(log[p], applied'[p], commit[p], term[p], Ld, Lg, A)
          /\ \A p \in Server : Agree(applied'[p], applied[p], Len(applied[p]))
      BY <1>2, <1>6, <1>i, <2>2, <3>1, ApplyStep
    <3>3. applied'[n] = now
      <4> HIDE DEF now
      <4> QED BY <1>i, <2>2 DEF StateOK
    <3> HIDE DEF now
    <3> QED BY <3>2, <3>3
  <2> QED BY <1>10, <2>1, <2>2
<1> HIDE DEF now
<1>12. StateOK' /\ commit'[n] = index /\ \A p \in Server : commit[p] <= commit'[p]
  <2>1. commit' \in [Server -> Nat] /\ commit'[n] = index /\ \A p \in Server : commit[p] <= commit'[p]
    BY <1>6, <1>9, <1>i, <1>lg DEF StateOK
  <2> QED BY <1>9, <1>11, <1>i, <2>1 DEF StateOK
<1>13. RaftInv(Ld, Lg, A)'
  <2>1. ASSUME NEW p \in Server
        PROVE  NodeSafe(log[p], applied'[p], commit'[p], term[p], Ld, Lg, A)
    <3>1. CASE p = n
      <4>1. Safe(log[n], commit'[n], term[n], Ld, Lg, A)
        BY <1>3, <1>6, <1>12, <1>lg
      <4> QED BY <1>11, <3>1, <4>1 DEF NodeSafe
    <3>2. CASE p # n
      BY <1>9, <1>11, <1>i, <3>2 DEF StateOK
    <3> QED BY <3>1, <3>2
  <2>2. CommitInv(Ld, Lg, A)'
    BY <1>9, <2>1 DEF CommitInv
  <2>3. \A v \in Server : term[v] <= term'[v]
    BY <1>9, <1>i DEF StateOK
  <2>4. \A v \in Server : leads'[v] => leads[v] /\ term'[v] = term[v]
    BY <1>9
  <2>5. log' = log /\ elected' = elected
    BY <1>9
  <2> QED BY <1>2, <1>8, <1>12, <1>i, <2>2, <2>3, <2>4, <2>5, RaftQuiet
<1>14. Grows(Ld, Lg, A, Ld, Lg, A) /\ elected <= elected'
  BY <1>2, <1>9, <1>i, GrowsReflexive DEF StateOK
<1>15. \A v \in Server : term[v] <= term'[v]
  BY <1>9, <1>i DEF StateOK
\* The operation goes on.
<1>16. ASSUME NEW o2, op' = o2, acked' = acked, known' = known, answer' = answer,
              IsOperation(o2), OperationTrue(o2, Ld, Lg, A), o2.kind # "check", o2.leader = n, o2.term = t,
              o2.must = op.must, o2.begun = b, o2.acks \subseteq op.acks \cup {peer}, DOMAIN o2.probes = {},
              StageInv'
       PROVE  IInv'
  <2>1. OpOK' /\ OpTrue(Ld, Lg, A)' /\ AnswersAreCurrent'
    BY <1>16, <1>i DEF OpOK, OpTrue, AnswersAreCurrent
  <2>2. op' # None => op # None /\ op'.must = op.must /\ op'.begun = op.begun /\ op.begun \in Nat
    BY <1>16, <1>t
  <2>3. Explains(Ld, Lg, A)'
    BY <1>1, <1>11, <1>12, <1>13, <1>14, <1>16, <1>i, <2>1, <2>2, StepExplained
  <2>4. FreshInv'
    <3>1. op' # None =>
             /\ op # None /\ op'.begun = op.begun /\ op'.term = op.term
             /\ op.begun \in Nat /\ op.term \in Nat
             /\ \A v \in op'.acks : v \in op.acks \/ (v \in DOMAIN op.probes /\ op.probes[v].heard # {})
             /\ DOMAIN op'.probes = {}
      BY <1>16, <1>p, <1>t
    <3> QED BY <1>8, <1>12, <1>15, <1>i, <3>1, FreshStable
  <2> QED BY <1>8, <1>12, <1>16, <2>1, <2>3, <2>4 DEF IInv
<1>17. CASE op.stage = "commit" /\ op' = o /\ UNCHANGED <<applied, acked, known, answer>>
  <2>1. op' = o1 /\ acked' = acked /\ known' = known /\ answer' = answer
    BY <1>17, <1>o
  <2>2. StageInv'
    BY <1>7, <1>17, <2>1 DEF StageInv
  <2>3. o1.kind # "check" /\ o1.acks \subseteq op.acks \cup {peer}
    BY <1>7
  <2> QED BY <1>7, <1>16, <2>1, <2>2, <2>3
<1>18. CASE /\ applied' = [applied EXCEPT ![n] = now]
            /\ op.request \in Took(now) /\ Acknowledge(op.request) /\ op' = None /\ UNCHANGED answer
  <2>1. applied'[n] = now
    BY <1>18, <1>i DEF StateOK
  <2>2. acked' \subseteq known' /\ known' \subseteq known \cup Took(applied'[n])
    BY <1>2, <1>18, <2>1 DEF Acknowledge, KnownInv
  <2>3. AnswersAreCurrent'
    BY <1>18, <1>i DEF AnswersAreCurrent
  <2>4. op' = None
    BY <1>18
  <2> QED BY <1>1, <1>3, <1>8, <1>9, <1>11, <1>12, <1>13, <2>2, <2>3, <2>4, EndStep
<1>19. CASE /\ op.stage = "commit" /\ index >= op.target /\ op.kind = "read"
            /\ applied' = [applied EXCEPT ![n] = now]
            /\ op' = [o EXCEPT !.stage = "confirm", !.todo = Peers(n)]
            /\ UNCHANGED <<acked, known, answer>>
  <2>o. PICK o2 : o2 = [o1 EXCEPT !.stage = "confirm", !.todo = Peers(n)]
    OBVIOUS
  <2>1. op' = o2 /\ acked' = acked /\ known' = known /\ answer' = answer
    BY <1>19, <1>o, <2>o
  <2>2. /\ DOMAIN o2 = OpFields /\ o2.stage = "confirm" /\ o2.todo = Peers(n)
        /\ o2.kind = o1.kind /\ o2.leader = o1.leader /\ o2.term = o1.term /\ o2.probes = o1.probes
        /\ o2.target = o1.target /\ o2.commit = o1.commit /\ o2.acks = o1.acks /\ o2.must = o1.must
        /\ o2.begun = o1.begun /\ o2.match = o1.match /\ o2.next = o1.next
    <3>1. DOMAIN o1 = OpFields
      BY <1>7 DEF IsOperation
    <3> QED BY <2>o, <3>1 DEF OpFields
  <2>3. IsOperation(o2)
    BY <1>7, <2>2 DEF IsOperation
  <2>4. OperationTrue(o2, Ld, Lg, A)
    BY <1>7, <2>2 DEF OperationTrue
  <2>5. StageInv'
    <3>1. op.target \in 1..Len(lg) /\ lg[op.target].term = t
      BY <1>2, <1>3, <1>19, <1>t DEF OperationTrue
    <3>2. op.target \in Nat /\ 1 <= op.target /\ op.target <= commit'[n] /\ op.target <= Len(log'[n])
          /\ log'[n][op.target].term = t
      <4>1. Len(lg) \in Nat
        BY LogFacts
      <4> QED BY <1>6, <1>9, <1>12, <1>19, <1>lg, <3>1, <4>1
    <3>3. o2.leader = n /\ o2.term = t /\ o2.kind # "check"
      BY <1>7, <2>2
    <3> QED BY <2>1, <3>2, <3>3 DEF StageInv
  <2>6. o2.kind # "check" /\ o2.acks \subseteq op.acks \cup {peer}
    BY <1>7, <2>2
  <2>7. o2.leader = n /\ o2.term = t /\ o2.must = op.must /\ o2.begun = b /\ DOMAIN o2.probes = {}
    BY <1>7, <2>2
  <2> QED BY <1>16, <2>1, <2>3, <2>4, <2>5, <2>6, <2>7
<1>20. CASE /\ op.stage = "confirm" /\ op' = [o EXCEPT !.acks = @ \cup {peer}]
            /\ UNCHANGED <<applied, acked, known, answer>>
  <2>o. PICK o2 : o2 = [o1 EXCEPT !.acks = @ \cup {peer}]
    OBVIOUS
  <2>1. op' = o2 /\ acked' = acked /\ known' = known /\ answer' = answer
    BY <1>20, <1>o, <2>o
  <2>2. /\ DOMAIN o2 = OpFields /\ o2.stage = o1.stage /\ o2.todo = o1.todo
        /\ o2.kind = o1.kind /\ o2.leader = o1.leader /\ o2.term = o1.term /\ o2.probes = o1.probes
        /\ o2.target = o1.target /\ o2.commit = o1.commit /\ o2.acks = o1.acks \cup {peer} /\ o2.must = o1.must
        /\ o2.begun = o1.begun /\ o2.match = o1.match /\ o2.next = o1.next
    <3>1. DOMAIN o1 = OpFields
      BY <1>7 DEF IsOperation
    <3> QED BY <2>o, <3>1 DEF OpFields
  <2>3. IsOperation(o2)
    BY <1>7, <1>p, <2>2 DEF IsOperation
  <2>4. OperationTrue(o2, Ld, Lg, A)
    BY <1>7, <2>2 DEF OperationTrue
  <2>5. StageInv'
    <3>1. o2.leader = n /\ o2.term = t /\ o2.kind # "check"
      BY <1>7, <2>2
    <3>2. log'[n] = log[n] /\ commit[n] <= commit'[n]
      BY <1>9, <1>12
    <3> QED BY <1>3, <1>12, <1>20, <1>i, <1>t, <2>1, <3>1, <3>2, StageStable
  <2>6. o2.kind # "check" /\ o2.acks \subseteq op.acks \cup {peer}
    BY <1>7, <2>2
  <2>7. o2.leader = n /\ o2.term = t /\ o2.must = op.must /\ o2.begun = b /\ DOMAIN o2.probes = {}
    BY <1>7, <2>2
  <2> QED BY <1>16, <2>1, <2>3, <2>4, <2>5, <2>6, <2>7
<1>21. CASE /\ op.stage = "confirm" /\ IsQuorum(op.acks \cup {peer})
            /\ applied' = [applied EXCEPT ![n] = now]
            /\ answer' = [term |-> op.term, begun |-> op.begun, saw |-> Took(now), must |-> op.must]
            /\ known' = known \cup Took(now) /\ op' = None /\ UNCHANGED acked
  <2>1. applied'[n] = now
    BY <1>21, <1>i DEF StateOK
  <2>2. acked' \subseteq known' /\ known' \subseteq known \cup Took(applied'[n])
    BY <1>2, <1>21, <2>1 DEF KnownInv
  <2>3. b <= t
    <3>1. op.acks \cup {peer} \in SUBSET Server
      BY <1>op, <1>p DEF IsOperation
    <3>2. \A v \in op.acks \cup {peer} : v \in op.acks \/ (v \in DOMAIN op.probes /\ op.probes[v].heard # {})
      BY <1>p
    <3>3. op.begun <= op.term
      BY <1>21, <3>1, <3>2, AnsweredIsCurrent
    <3> QED BY <1>t, <3>3
  <2>4. PICK k \in Nat : 1 <= k /\ k <= commit[n] /\ k <= Len(log[n]) /\ log[n][k].term = t
    BY <1>3, <1>21, <1>i, <1>t DEF StageInv, Authorized
  <2>5. k <= Len(now) /\ now \in Logs
    <3>1. now \in Logs
      BY <1>11, <2>1
    <3>2. index <= Len(now)
      BY <1>11, <1>21
    <3> QED BY <1>6, <1>lg, <2>4, <3>1, <3>2, LogFacts
  <2>6. Agree(now, log[n], Len(now)) /\ Agree(now, applied[n], Len(applied[n]))
    BY <1>11, <2>1 DEF NodeSafe
  <2>7. ASSUME NEW r \in op.must PROVE r \in Took(now)
    <3>1. KnownBy(r, b, Ld, Lg, A)
      BY <1>2, <1>t DEF KnownInv
    <3> QED BY <1>2, <1>3, <1>i, <2>3, <2>4, <2>5, <2>6, <3>1, ReadSees
  <2>8. AnswersAreCurrent'
    <3>1. op.must \subseteq Took(now) /\ op.begun <= op.term
      BY <1>t, <2>3, <2>7
    <3> QED BY <1>21, <3>1 DEF AnswersAreCurrent
  <2>9. op' = None
    BY <1>21
  <2> QED BY <1>1, <1>3, <1>8, <1>9, <1>11, <1>12, <1>13, <2>2, <2>8, <2>9, EndStep
<1> QED BY <1>0, <1>17, <1>18, <1>19, <1>20, <1>21

-----------------------------------------------------------------------------
(* The theorems *)

LEMMA InitInductive ==
    ASSUME Init
    PROVE  IInv
<1> DEFINE Ld == [t \in Nat |-> None]
           Lg == [t \in Nat |-> <<>>]
           A == [v \in Server |-> [t \in Nat |-> 0]]
<1>e. <<>> \in Logs /\ Len(<<>>) = 0
  BY DEF Logs
<1>1. /\ \A v \in Server : term[v] = 0 /\ log[v] = <<>> /\ applied[v] = <<>> /\ ~leads[v] /\ commit[v] = 0
      /\ msgs = {} /\ op = None /\ acked = {} /\ known = {} /\ answer = None /\ elected = 0
  BY DEF Init
<1>2. StateOK
  BY <1>e DEF Init, StateOK
<1>3. MessagesOK /\ OpOK /\ StageInv /\ FreshInv /\ AnswersAreCurrent
  BY <1>1 DEF MessagesOK, OpOK, StageInv, FreshInv, AnswersAreCurrent
<1>4. /\ HistoryLogs(Ld, Lg, A)
      /\ \A t \in Nat : Ld[t] = None
      /\ \A v \in Server, t \in Nat : A[v][t] = 0
  BY <1>e DEF HistoryLogs
<1> HIDE DEF Ld, Lg, A
<1>5. LeaderInv(Ld, Lg) /\ AckInv(Ld, Lg, A)
  BY <1>1, <1>4 DEF LeaderInv, AckInv
<1>6. LogInv(Ld, Lg)
  <2>1. \A n \in Server : Good(log[n], Ld, Lg) /\ TermsUpTo(log[n], term[n])
    BY <1>1, <1>e DEF Good, TermsUpTo
  <2> QED BY <1>4, <2>1 DEF LogInv
<1>7. KeepInv(Ld, Lg, A)
  BY <1>4 DEF KeepInv, Choosable
<1>8. CommitInv(Ld, Lg, A)
  <2>1. \A n \in Server : NodeSafe(log[n], applied[n], commit[n], term[n], Ld, Lg, A)
    BY <1>1, <1>e DEF NodeSafe, Safe, Agree
  <2> QED BY <2>1 DEF CommitInv
<1>9. MessageInv(Ld, Lg, A) /\ OpTrue(Ld, Lg, A) /\ KnownInv(Ld, Lg, A)
  BY <1>1 DEF MessageInv, OpTrue, KnownInv
<1>10. Explains(Ld, Lg, A)
  BY <1>4, <1>5, <1>6, <1>7, <1>8, <1>9 DEF Explains, RaftInv
<1> QED BY <1>2, <1>3, <1>10 DEF IInv

LEMMA StutterInductive ==
    ASSUME IInv, UNCHANGED vars
    PROVE  IInv'
<1>i. StateOK /\ MessagesOK /\ OpOK /\ StageInv /\ FreshInv /\ AnswersAreCurrent
  BY DEF IInv
<1>0. UNCHANGED <<term, log, applied, leads, commit, msgs, op, acked, known, answer, elected>>
  BY DEF vars, nodeVars, history
<1>1. StateOK' /\ MessagesOK' /\ OpOK' /\ AnswersAreCurrent'
  BY <1>0, <1>i DEF StateOK, MessagesOK, OpOK, AnswersAreCurrent
<1>2. /\ \A v \in Server : term[v] <= term'[v]
      /\ \A v \in Server : commit[v] <= commit[v]
  BY <1>0, <1>i DEF StateOK
<1>3. op # None => op.begun \in Nat /\ op.term \in Nat /\ op.leader \in Server
  BY <1>i DEF OpOK, IsOperation
<1>4. FreshInv'
  BY <1>0, <1>1, <1>2, <1>3, <1>i, FreshStable
<1>5. PICK Ld, Lg, A : Explains(Ld, Lg, A)
  BY DEF IInv
<1>6. OpTrue(Ld, Lg, A)' /\ MessageInv(Ld, Lg, A)'
  BY <1>0, <1>5 DEF Explains, OpTrue, RaftInv, MessageInv
<1>7. Explains(Ld, Lg, A)'
  BY <1>0, <1>1, <1>2, <1>3, <1>5, <1>6, <1>i, QuietStep
<1>8. StageInv'
  BY <1>0, <1>1, <1>2, <1>3, <1>i, StageStable
<1> QED BY <1>1, <1>4, <1>7, <1>8 DEF IInv

LEMMA NextInductive ==
    ASSUME IInv, [Next]_vars
    PROVE  IInv'
<1>1. ASSUME NEW n \in Server, NEW S \in SUBSET Peers(n), Campaign(n, S) PROVE IInv'
  BY <1>1, CampaignInductive
<1>2. ASSUME NEW n \in Server, Crash(n) PROVE IInv'
  BY <1>2, CrashInductive
<1>3. ASSUME NEW n \in Server, NEW m \in msgs, HandleAppendEntries(n, m) PROVE IInv'
  BY <1>3, HandleAppendEntriesInductive
<1>4. ASSUME NEW n \in Server, NEW m \in msgs, HandleResponse(n, m) PROVE IInv'
  BY <1>4, HandleResponseInductive
<1>5. ASSUME NEW n \in Server, NEW request \in Request, StartWrite(n, request) PROVE IInv'
  BY <1>5, StartWriteInductive
<1>6. ASSUME NEW n \in Server, StartRead(n) PROVE IInv'
  BY <1>6, StartReadInductive
<1>7. ASSUME NEW n \in Server, StartCheck(n) PROVE IInv'
  BY <1>7, StartCheckInductive
<1>8. ASSUME NEW m \in msgs, Lose(m) PROVE IInv'
  BY <1>8, LoseInductive
<1>9. CASE Attempt
  BY <1>9, AttemptInductive
<1>10. CASE FinishAttempt
  <2>1. op # None /\ op.kind # "check"
    BY <1>10 DEF FinishAttempt
  <2>2. PICK peer \in DOMAIN op.probes :
            Missing(peer) \/ Rejected(peer) \/ Accepted(peer) \/ AcceptedTooLate(peer)
    BY <1>10 DEF FinishAttempt
  <2>3. CASE Missing(peer)
    BY <2>1, <2>3, MissingInductive
  <2>4. CASE Rejected(peer)
    BY <2>1, <2>4, RejectedInductive
  <2>5. CASE Accepted(peer)
    BY <2>1, <2>5, AcceptedInductive
  <2>6. CASE AcceptedTooLate(peer)
    BY <2>6, AcceptedTooLateInductive
  <2> QED BY <2>2, <2>3, <2>4, <2>5, <2>6
<1>11. CASE Fail
  BY <1>11, FailInductive
<1>12. CASE FinishCheck
  BY <1>12, FinishCheckInductive
<1>13. CASE UNCHANGED vars
  BY <1>13, StutterInductive
<1> QED BY <1>1, <1>2, <1>3, <1>4, <1>5, <1>6, <1>7, <1>8, <1>9, <1>10, <1>11, <1>12, <1>13 DEF Next

\* The inductive invariant: in every reachable state a history explains the logs, messages and
\* commit indexes of the nodes, the running operation believes nothing that is false
\* (LeaderReplicator), and a majority had reached the newest leader's term when it began.
THEOREM ServiceInvariant == Spec => []IInv
<1>1. Init => IInv
  BY InitInductive
<1>2. IInv /\ [Next]_vars => IInv'
  BY NextInductive
<1> QED BY <1>1, <1>2, PTL DEF Spec

\* A linearizable read (LinearizableKVReader) returns every write that was acknowledged and
\* everything that an earlier read has returned before it was called, and neither a read nor a
\* CheckQuorum round (LeaderQuorumMonitor) succeeds for a leader that was superseded then.
THEOREM AnswersStayCurrent == Spec => []AnswersAreCurrent
<1>1. IInv => AnswersAreCurrent
  BY DEF IInv
<1> QED BY <1>1, ServiceInvariant, PTL

LEMMA InvariantKeepsWrites ==
    ASSUME IInv
    PROVE  AcknowledgedWritesStay
<1> SUFFICES ASSUME NEW r \in acked, NEW n \in Server, leads[n], term[n] = elected
             PROVE  Cardinality({i \in DOMAIN log[n] : log[n][i].command = r}) = 1
  BY DEF AcknowledgedWritesStay
<1>i. StateOK
  BY DEF IInv
<1>1. PICK Ld, Lg, A : Explains(Ld, Lg, A)
  BY DEF IInv
<1>2. /\ HistoryLogs(Ld, Lg, A) /\ KeepInv(Ld, Lg, A) /\ LogInv(Ld, Lg) /\ LeaderInv(Ld, Lg)
      /\ KnownBy(r, elected, Ld, Lg, A)
  BY <1>1 DEF Explains, RaftInv, KnownInv
<1>t. PICK t \in Nat, lg \in Logs : t = term[n] /\ lg = log[n]
  BY <1>i DEF StateOK
<1>3. Ld[t] = n /\ Lg[t] = lg /\ n # None
  BY <1>2, <1>t, ConstantAssumption DEF LeaderInv
<1>4. PICK s \in Nat : /\ s <= t /\ Ld[s] # None /\ r \in Took(applied[Ld[s]])
                       /\ \E u, k, j \in Nat : /\ u <= s /\ 1 <= j /\ j <= k
                                               /\ Committed(Ld, Lg, A, u, k) /\ Lg[u][j].command = r
  BY <1>2, <1>t DEF KnownBy
<1>5. PICK u \in Nat, k \in Nat, j \in Nat :
          u <= s /\ 1 <= j /\ j <= k /\ Committed(Ld, Lg, A, u, k) /\ Lg[u][j].command = r
  BY <1>4
<1>6. r # Barrier
  <2>1. PICK l \in Server : l = Ld[s]
    BY <1>2, <1>4 DEF HistoryLogs
  <2>2. PICK a \in Logs : a = applied[l]
    BY <1>i DEF StateOK
  <2> QED BY <1>4, <2>1, <2>2, TookFacts
<1>7. Len(lg) \in Nat /\ DOMAIN lg = 1..Len(lg)
  BY LenProperties DEF Logs
<1>8. j \in 1..Len(lg) /\ lg[j].command = r
  <2>1. CASE u = t
    BY <1>3, <1>5, <1>7, <2>1 DEF Committed
  <2>2. CASE u # t
    <3>1. u < t
      BY <1>4, <1>5, <2>2
    <3>2. Choosable(Ld, Lg, A, u, k)
      BY <1>2, <1>5, <1>i, CommittedIsChoosable
    <3>3. Agree(lg, Lg[u], k)
      BY <1>2, <1>3, <3>1, <3>2 DEF KeepInv
    <3> QED BY <1>5, <1>7, <3>3 DEF Agree
  <2> QED BY <2>1, <2>2
<1>9. Unique(lg)
  BY <1>2, <1>3 DEF LogInv
<1>10. {i \in DOMAIN log[n] : log[n][i].command = r} = {j}
  <2>1. \A i \in 1..Len(lg) : lg[i].command = r => i = j
    BY <1>6, <1>8, <1>9 DEF Unique
  <2>2. {i \in DOMAIN lg : lg[i].command = r} = {j}
    BY <1>7, <1>8, <2>1
  <2> QED BY <1>t, <2>2
<1> QED BY <1>10, FS_Singleton

\* A write that LeaderKVService has acknowledged, or of which retry_write found that it had
\* taken effect, is in the log of every later leader, and there once only.
THEOREM WritesStay == Spec => []AcknowledgedWritesStay
<1>1. IInv => AcknowledgedWritesStay
  BY InvariantKeepsWrites
<1> QED BY <1>1, ServiceInvariant, PTL
=============================================================================
