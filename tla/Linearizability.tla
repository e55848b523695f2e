---------------------------- MODULE Linearizability ----------------------------
(***************************************************************************)
(* The checkers that judge an operation history:                           *)
(* SingleKeyKVLinearizabilityChecker and MultiKeyKVLinearizabilityChecker. *)
(*                                                                         *)
(* The memo of failed search states and the search budgets are left out:   *)
(* the first saves time only, the second ends in an exception and no       *)
(* verdict.                                                                *)
(***************************************************************************)
EXTENDS History, FiniteSets, FiniteSetsExt

-----------------------------------------------------------------------------
(* The checkers.  Each returns the set of the one witness it finds, or the empty set. *)

\* completion.sequence < invocation.sequence
Precedes(x, y) == x.resp > 0 /\ x.resp < y.inv

\* _predecessors, among the operations of the search
Predecessors(h, S, i) == {j \in S : Precedes(h[j], h[i])}

\* _apply: the values the key may have after x
ApplyOperation(x, value) ==
    CASE x.op.type = "put" -> {x.op.value}
      [] x.op.type = "delete" -> {Absent}
      [] x.op.type = "get" -> {value} \cap {x.result}

InOrder(S) == SelectSeq([i \in 1..MaxOps |-> i], LAMBDA i : i \in S)

\* search: depth first, the operations in the given order, until those in required are selected
RECURSIVE Search(_, _, _, _, _)
Search(h, operations, required, selected, value) ==
    LET S == {operations[k] : k \in DOMAIN operations}
        Extended(i) == UNION {{<<i>> \o s : s \in Search(h, operations, required, selected \cup {i}, v)} : v \in ApplyOperation(h[i], value)}
        suffix == [k \in {k \in DOMAIN operations : operations[k] \notin selected
                                /\ Predecessors(h, S, operations[k]) \subseteq selected} |-> Extended(operations[k])]
        found == {k \in DOMAIN suffix : suffix[k] # {}}
    IN  IF required \subseteq selected THEN {<<>>}
        ELSE IF found = {} THEN {}
        ELSE suffix[Min(found)]

\* check: completed operations only
Check(h) == Search(h, InOrder(Completed(h)), Completed(h), {}, Absent)

\* check_with_pending_extensions of the operations in S: completed candidates come first
CheckWithoutPending(h, S) ==    \* faulty: pending writes are left out
    Search(h, InOrder(Completed(h) \cap S), Completed(h) \cap S, {}, Absent)

CheckWithPendingExtensions(h, S) ==
    Search(h, InOrder(Completed(h) \cap S) \o InOrder(PendingWrites(h) \cap S), Completed(h) \cap S, {}, Absent)

\* The single-key checker refuses histories with several keys.
Keys(h) == {h[i].op.key : i \in DOMAIN h}
IsSingleKey(h) == Cardinality(Keys(h)) <= 1

\* MultiKeyKVLinearizabilityChecker: every key's projection has a witness
Projection(h, key) == {i \in DOMAIN h : h[i].op.key = key}

CheckEveryKey(h) ==
    \A key \in Keys(h) : CheckWithPendingExtensions(h, Projection(h, key)) # {}

-----------------------------------------------------------------------------
(* Properties *)

\* What linearizable means: some pending writes may be completed, and then all operations have
\* an order that respects real time and in which every read returns what was last written.
ValueAt(h, s, k) ==
    LET writes == {j \in 1..k - 1 : h[s[j]].op.type # "get" /\ h[s[j]].op.key = h[s[k]].op.key}
    IN  IF writes = {} THEN Absent ELSE h[s[Max(writes)]].op.value

LegalOrder(h, s) ==
    /\ \A j, k \in DOMAIN s : j < k => s[j] # s[k] /\ ~(h[s[k]].resp > 0 /\ h[s[k]].resp < h[s[j]].inv)
    /\ \A k \in DOMAIN s : h[s[k]].op.type = "get" => h[s[k]].result = ValueAt(h, s, k)

Ordered(h, S) == \E s \in [1..Cardinality(S) -> S] : LegalOrder(h, s)

Linearizable(h) == \E P \in SUBSET PendingWrites(h) : Ordered(h, Completed(h) \cup P)

\* The completed-only search accepts exactly the histories of a key whose completed operations
\* have a legal order of their own, whatever overlaps.
CheckIsExact == IsSingleKey(history) => (Check(history) # {} <=> Ordered(history, Completed(history)))

\* The search with pending writes accepts exactly the linearizable histories of a key, and the
\* witness it returns is a legal order with every completed operation in it.
ExtensionIsExact ==
    LET found == CheckWithPendingExtensions(history, DOMAIN history)
    IN  IsSingleKey(history) =>
        /\ found # {} <=> Linearizable(history)
        /\ \A s \in found : LegalOrder(history, s) /\ Completed(history) \subseteq {s[k] : k \in DOMAIN s}

\* Locality: judging the keys one by one is the same as judging the whole history, although no
\* order of all the operations is ever looked for.
KeysAreIndependent == CheckEveryKey(history) <=> Linearizable(history)

\* What the campaigns conclude from a checker is true of the history: neither search, and not
\* the division into keys, accepts too much or too little.
CheckersAreExact == CheckIsExact /\ ExtensionIsExact /\ KeysAreIndependent
=============================================================================
