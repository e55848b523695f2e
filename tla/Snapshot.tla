------------------------------ MODULE Snapshot ------------------------------
(***************************************************************************)
(* Snapshots and compaction: KVSnapshotStore, SnapshotTransport, the log   *)
(* view with a base, the durable applied history of StateMachineApplier    *)
(* and the KV image that ReplicatedKV rebuilds from both.                  *)
(*                                                                         *)
(* An entry is represented by its term, which at a given index identifies  *)
(* the command (LogMatching of RaftLog).  The image of the key-value store *)
(* with its request table stands for the sequence of entries that were     *)
(* executed.  A leader probes a peer from any index, which covers every    *)
(* next_index it may have.  Elections are one step, and an answer arrives  *)
(* at once or not at all; RaftElection, RaftLog and LeaderService have the *)
(* messages of both.                                                       *)
(***************************************************************************)
EXTENDS Naturals, Sequences, FiniteSets, SequencesExt

CONSTANTS
    Server,
    None,
    CreateAfterCompact, \* create is also called by itself on a compacted log
    Crashes,            \* nodes crash and restart
    MaxTerm, MaxLog     \* bounds

ASSUME ConstantAssumption ==
    /\ IsFiniteSet(Server) /\ None \notin Server
    /\ None \notin [index : Nat, term : Nat, state : Seq(Nat)]    \* no snapshot is None
    /\ CreateAfterCompact \in BOOLEAN /\ Crashes \in BOOLEAN
    /\ MaxTerm \in Nat /\ MaxLog \in Nat

VARIABLES
    term, leads,
    log,        \* persistent: log_base_index, log_base_term and the retained entries
    commit,     \* volatile commit_index
    applied,    \* persistent: state_machine_base_index, _term and the entries after it
    image,      \* the KV image in memory: what was executed
    snap,       \* persistent: kv_snapshot
    match,      \* match_index of a leader's replicator
    msgs

nodeVars == <<term, leads, log, commit, applied, image, snap, match>>
vars == <<nodeVars, msgs>>

-----------------------------------------------------------------------------
(* RaftLogView *)

LastIndex(l) == l.base + Len(l.entries)

EntryAt(l, i) == l.entries[i - l.base]

TermAt(l, i) == IF i = l.base THEN l.baseTerm ELSE EntryAt(l, i)

LastTerm(l) == TermAt(l, LastIndex(l))

SuffixFrom(l, i) == SubSeq(l.entries, i - l.base, Len(l.entries))

PrefixMatchesIndexOnly(l, i, t) == i >= l.base /\ i <= LastIndex(l)    \* faulty: the term is not compared

PrefixMatches(l, i, t) == i >= l.base /\ i <= LastIndex(l) /\ TermAt(l, i) = t

CompactThrough(l, i) == [base |-> i, baseTerm |-> TermAt(l, i), entries |-> SuffixFrom(l, i + 1)]

MergeAfter(l, prev, entries) ==
    LET same == \A i \in 1..Len(entries) : prev + i <= LastIndex(l) /\ EntryAt(l, prev + i) = entries[i]
    IN  IF same THEN l
                ELSE [l EXCEPT !.entries = SubSeq(@, 1, prev - l.base) \o entries]

-----------------------------------------------------------------------------
(* Raft nodes *)

IsQuorum(nodes) == Cardinality(nodes) >= Cardinality(Server) \div 2 + 1

LastApplied(n) == applied[n].base + Len(applied[n].entries)

UpToDate(n, voter) ==
    \/ LastTerm(log[n]) > LastTerm(log[voter])
    \/ LastTerm(log[n]) = LastTerm(log[voter]) /\ LastIndex(log[n]) >= LastIndex(log[voter])

\* n is elected in its next term by the nodes of S; a new leader has a new replicator.
Elect(n, S) ==
    LET t == term[n] + 1
    IN  /\ ~leads[n]
        /\ t <= MaxTerm
        /\ \A v \in S : term[v] < t /\ UpToDate(n, v)
        /\ IsQuorum({n} \cup S)
        /\ term' = [k \in Server |-> IF k \in S \cup {n} THEN t ELSE term[k]]
        /\ leads' = [k \in Server |-> k = n \/ (k \notin S /\ leads[k])]
        /\ match' = [k \in Server |-> IF k = n \/ k \in S THEN [p \in Server |-> 0] ELSE match[k]]
        /\ UNCHANGED <<log, commit, applied, image, snap, msgs>>

\* handle_crash and handle_restart: the commit index is forgotten, all else is durable.
Crash(n) ==
    /\ Crashes
    /\ leads' = [leads EXCEPT ![n] = FALSE]
    /\ commit' = [commit EXCEPT ![n] = 0]
    /\ match' = [match EXCEPT ![n] = [p \in Server |-> 0]]
    /\ UNCHANGED <<term, log, applied, image, snap, msgs>>

AppendCommand(n) ==
    /\ leads[n]
    /\ LastIndex(log[n]) < MaxLog
    /\ log' = [log EXCEPT ![n].entries = Append(@, term[n])]
    /\ UNCHANGED <<term, leads, commit, applied, image, snap, match, msgs>>

\* replicate with next_index above the base, and _replicate_snapshot at or below it
SendAppendEntries(n, k, next) ==
    /\ leads[n] /\ k # n
    /\ next > log[n].base
    /\ msgs' = msgs \cup {[type |-> "AppendEntries", src |-> n, dst |-> k, term |-> term[n],
                           prev |-> next - 1, prevTerm |-> TermAt(log[n], next - 1),
                           entries |-> SuffixFrom(log[n], next), commit |-> commit[n]]}
    /\ UNCHANGED nodeVars

SendInstallSnapshot(n, k) ==
    /\ leads[n] /\ k # n
    /\ snap[n] # None /\ log[n].base > 0
    /\ snap[n].index = log[n].base /\ snap[n].term = log[n].baseTerm
    /\ msgs' = msgs \cup {[type |-> "InstallSnapshot", src |-> n, dst |-> k, term |-> term[n], snapshot |-> snap[n]]}
    /\ UNCHANGED nodeVars

\* A delivery leaves a duplicate in flight or not.
Taken(m) == {msgs \ {m}, msgs}

\* n handles a request of m.term that is not out of date.
Follow(n, m) ==
    /\ m.term >= term[n]
    /\ term' = [term EXCEPT ![n] = m.term]
    /\ leads' = [leads EXCEPT ![n] = FALSE]

\* advance_commit_index: above the base and the commit index, entries of the leader's own term
AdvancedCommitIndex(n, matched) ==
    LET held == {i \in log[n].base + 1..LastIndex(log[n]) :
                    /\ i > commit[n]
                    /\ TermAt(log[n], i) = term[n]
                    /\ IsQuorum({n} \cup {p \in Server : matched[p] >= i})}
    IN  IF held = {} THEN commit[n] ELSE Max(held)

\* The successful answer to m is lost, or completes replicate if the sender still leads its
\* term.  index is the peer's match index, and upto its own commit index.
Acknowledge(m, index, upto) ==
    LET n == m.src
        matched == [match[n] EXCEPT ![m.dst] = IF index > @ THEN index ELSE @]
        follower == [commit EXCEPT ![m.dst] = IF upto > @ THEN upto ELSE @]
    IN  \/ commit' = follower /\ UNCHANGED match
        \/ /\ leads[n] /\ term[n] = m.term
           /\ match' = [match EXCEPT ![n] = matched]
           /\ commit' = [follower EXCEPT ![n] = AdvancedCommitIndex(n, matched)]

\* A request of an old term: the answer deposes its sender, or is lost.
RefuseOldTerm(n, m) ==
    /\ m.dst = n /\ m.term < term[n]
    /\ \/ UNCHANGED <<term, leads>>
       \/ /\ term[m.src] < term[n]
          /\ term' = [term EXCEPT ![m.src] = term[n]]
          /\ leads' = [leads EXCEPT ![m.src] = FALSE]
    /\ msgs' \in Taken(m)
    /\ UNCHANGED <<log, commit, applied, image, snap, match>>

HandleAppendEntries(n, m) ==
    LET ok == PrefixMatches(log[n], m.prev, m.prevTerm)
        index == m.prev + Len(m.entries)
        upto == IF m.commit < index THEN m.commit ELSE index
    IN  /\ m.type = "AppendEntries" /\ m.dst = n
        /\ Follow(n, m)
        /\ \/ /\ ok
              /\ log' = [log EXCEPT ![n] = MergeAfter(@, m.prev, m.entries)]
              /\ Acknowledge(m, index, upto)
           \/ ~ok /\ UNCHANGED <<log, commit, match>>
        /\ msgs' \in Taken(m)
        /\ UNCHANGED <<applied, image, snap>>

Lose(m) == msgs' = msgs \ {m} /\ UNCHANGED nodeVars

-----------------------------------------------------------------------------
(* The applier, the store and the transport *)

ApplyCommitted(n) ==
    LET now == SubSeq(log[n].entries, LastApplied(n) + 1 - log[n].base, commit[n] - log[n].base)
    IN  /\ commit[n] > LastApplied(n)
        /\ applied' = [applied EXCEPT ![n].entries = @ \o now]
        /\ image' = [image EXCEPT ![n] = @ \o now]
        /\ UNCHANGED <<term, leads, log, commit, snap, match, msgs>>

NewSnapshot(n) == [index |-> LastApplied(n), term |-> TermAt(log[n], LastApplied(n)), state |-> image[n]]

Create(n) ==
    /\ CreateAfterCompact \/ log[n].base = 0
    /\ LastApplied(n) > 0
    /\ snap' = [snap EXCEPT ![n] = NewSnapshot(n)]
    /\ UNCHANGED <<term, leads, log, commit, applied, image, match, msgs>>

\* compact: create, then the log and the applied history are cut at the boundary.
Compact(n) ==
    LET s == NewSnapshot(n)
    IN  /\ LastApplied(n) > 0
        /\ snap' = [snap EXCEPT ![n] = s]
        /\ log' = [log EXCEPT ![n] = CompactThrough(@, s.index)]
        /\ applied' = [applied EXCEPT ![n] = [base |-> s.index, term |-> s.term, entries |-> <<>>]]
        /\ UNCHANGED <<term, leads, commit, image, match, msgs>>

\* install raises ValueError in these cases, before it has changed anything.
SuffixConflicts(n, s) == LastIndex(log[n]) > s.index /\ ~PrefixMatches(log[n], s.index, s.term)

InstallIsRefusedNever(n, s) == FALSE    \* faulty: nothing is checked

InstallIsRefused(n, s) ==
    \/ s.index < log[n].base
    \/ SuffixConflicts(n, s)
    \/ LastApplied(n) > s.index

\* What install does to the log, which keeps a suffix beyond the boundary
Installed(n, s) ==
    [base |-> s.index, baseTerm |-> s.term,
     entries |-> IF LastIndex(log[n]) > s.index THEN SuffixFrom(log[n], s.index + 1) ELSE <<>>]

InstallLogOnly(n, s) ==    \* faulty: the applied history keeps its old base
    /\ snap' = [snap EXCEPT ![n] = s]
    /\ log' = [log EXCEPT ![n] = Installed(n, s)]
    /\ image' = [image EXCEPT ![n] = s.state]
    /\ UNCHANGED applied

Install(n, s) ==
    /\ snap' = [snap EXCEPT ![n] = s]
    /\ log' = [log EXCEPT ![n] = Installed(n, s)]
    /\ applied' = [applied EXCEPT ![n] = [base |-> s.index, term |-> s.term, entries |-> <<>>]]
    /\ image' = [image EXCEPT ![n] = s.state]

\* A newer snapshot is kept, and the same one is not installed again.
HasSnapshot(n, s) == snap[n] # None /\ snap[n].index >= s.index

\* _handle_request
HandleInstallSnapshot(n, m) ==
    LET s == m.snapshot
        kept == UNCHANGED <<log, applied, image, snap>>
    IN  /\ m.type = "InstallSnapshot" /\ m.dst = n
        /\ Follow(n, m)
        /\ \/ HasSnapshot(n, s) /\ kept /\ Acknowledge(m, s.index, 0)
           \/ ~HasSnapshot(n, s) /\ InstallIsRefused(n, s) /\ kept /\ UNCHANGED <<commit, match>>
           \/ ~HasSnapshot(n, s) /\ ~InstallIsRefused(n, s) /\ Install(n, s) /\ Acknowledge(m, s.index, s.index)
        /\ msgs' \in Taken(m)

-----------------------------------------------------------------------------
(* What a new applier, KV and store find in the durable state *)

\* _load_durable_state of the applier does not raise
AppliedHistoryIsValid(n) ==
    LET a == applied[n]
        l == log[n]
        termApplied(i) == IF i = a.base THEN a.term ELSE a.entries[i - a.base]
    IN  /\ a.base <= l.base
        /\ LastApplied(n) <= LastIndex(l)
        /\ l.base > 0 /\ l.base <= LastApplied(n) => termApplied(l.base) = l.baseTerm
        /\ \A i \in a.base + 1..LastApplied(n) : i > l.base => a.entries[i - a.base] = EntryAt(l, i)

\* _restore_snapshot_boundary and _validate_against_applied_history do not raise
SnapshotIsValid(n) ==
    LET a == applied[n]
    IN  /\ a.base > 0 => snap[n] # None /\ snap[n].index = a.base /\ snap[n].term = a.term
        /\ a.base = 0 /\ snap[n] # None =>
             /\ snap[n].index <= Len(a.entries)
             /\ a.entries[snap[n].index] = snap[n].term
             /\ snap[n].state = SubSeq(a.entries, 1, snap[n].index)

\* The image that ReplicatedKV builds
Rebuilt(n) == (IF applied[n].base = 0 THEN <<>> ELSE snap[n].state) \o applied[n].entries

-----------------------------------------------------------------------------
Init ==
    /\ term = [n \in Server |-> 0]
    /\ leads = [n \in Server |-> FALSE]
    /\ log = [n \in Server |-> [base |-> 0, baseTerm |-> 0, entries |-> <<>>]]
    /\ commit = [n \in Server |-> 0]
    /\ applied = [n \in Server |-> [base |-> 0, term |-> 0, entries |-> <<>>]]
    /\ image = [n \in Server |-> <<>>]
    /\ snap = [n \in Server |-> None]
    /\ match = [n \in Server |-> [p \in Server |-> 0]]
    /\ msgs = {}

Next ==
    \/ \E n \in Server :
        \/ \E S \in SUBSET (Server \ {n}) : Elect(n, S)
        \/ Crash(n)
        \/ AppendCommand(n)
        \/ \E k \in Server, next \in 1..LastIndex(log[n]) + 1 : SendAppendEntries(n, k, next)
        \/ \E k \in Server : SendInstallSnapshot(n, k)
        \/ ApplyCommitted(n)
        \/ Create(n)
        \/ Compact(n)
        \/ \E m \in msgs : HandleAppendEntries(n, m)
        \/ \E m \in msgs : RefuseOldTerm(n, m)
        \/ \E m \in msgs : HandleInstallSnapshot(n, m)
    \/ \E m \in msgs : Lose(m)

Spec == Init /\ [][Next]_vars

-----------------------------------------------------------------------------
(* Properties *)

\* The type invariant.
TypeOK ==
    /\ term \in [Server -> 0..MaxTerm]
    /\ leads \in [Server -> BOOLEAN]
    /\ \A n \in Server :
        /\ log[n].base \in 0..MaxLog /\ log[n].baseTerm \in 0..MaxTerm
        /\ log[n].entries \in Seq(1..MaxTerm) /\ LastIndex(log[n]) <= MaxLog
        /\ commit[n] \in 0..LastIndex(log[n])
        /\ applied[n].base \in 0..MaxLog /\ applied[n].entries \in Seq(1..MaxTerm)
        /\ image[n] \in Seq(1..MaxTerm)
        /\ snap[n] # None => snap[n].index \in 1..MaxLog
        /\ match[n] \in [Server -> 0..MaxLog]

\* Whenever the applier, the KV and the snapshot store are built anew, no check of theirs
\* raises, and the image they build is the one that was in memory.
DurableStateReconstructs ==
    \A n \in Server : AppliedHistoryIsValid(n) /\ SnapshotIsValid(n) /\ Rebuilt(n) = image[n]

\* What a node has executed is never taken back, however late or often snapshots arrive.
NothingIsRolledBack == [][\A n \in Server : IsPrefix(image[n], image'[n])]_vars

\* The entries below the base of a log are the ones in the image.
WholeLog(n) == SubSeq(image[n], 1, log[n].base) \o log[n].entries

\* What a leader has counted for a peer is there, in its log or below its base, as long as
\* the leader has authority.
MatchIndexIsTrue ==
    \A n, k \in Server :
        leads[n] /\ k # n /\ (\A p \in Server : term[p] <= term[n]) =>
            SubSeq(WholeLog(n), 1, match[n][k]) = SubSeq(WholeLog(k), 1, match[n][k])

\* A snapshot that a leader sends can be installed by every peer that is behind it:
\* recover_peer drives a stale follower to the leader's prefix.
\* No run checks it, for the code does otherwise: README, Disagreements found.
SnapshotsAreInstallable ==
    \A n, k \in Server :
        leads[n] /\ snap[n] # None /\ term[k] <= term[n] /\ LastApplied(k) < log[n].base /\ snap[n].index = log[n].base
            => ~SuffixConflicts(k, snap[n])

\* A leader can tell the term of the entry at its commit index, unless that is 0: so a read
\* finds out whether an entry of the leader's term is committed, and commits one if not.
\* No run checks it, for the code does otherwise: README, Disagreements found.
CommitIndexHasTerm == \A n \in Server : leads[n] /\ commit[n] > 0 => commit[n] >= log[n].base
=============================================================================
