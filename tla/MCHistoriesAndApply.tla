------------------------ MODULE MCHistoriesAndApply -------------------------
(***************************************************************************)
(* Model-checking instance of two parts that share no state: the checkers  *)
(* of operation histories, and the application and client of Multi-Paxos.  *)
(* A behaviour is one of a single part, the other stays as it was built.   *)
(* Histories may stop.                                                     *)
(***************************************************************************)
EXTENDS Linearizability, MultiPaxosApply

CONSTANTS k, m, u

\* Histories over one key and over two
Put(key, value) == [type |-> "put", key |-> key, value |-> value]
Erase(key) == [type |-> "delete", key |-> key, value |-> Absent]
Get(key) == [type |-> "get", key |-> key, value |-> Absent]

OneKey == {Put(k, u), Erase(k), Get(k)}
TwoKeys == {Put(k, u), Get(k), Put(m, u), Get(m)}
KeyOperations == OneKey \cup TwoKeys

VARIABLE part   \* the part that runs

partVars == <<historyVars, vars, part>>

PartInit == HistoryInit /\ Init /\ part \in {"histories", "apply"}

Histories == part = "histories" /\ (HistoryNext \/ UNCHANGED historyVars) /\ UNCHANGED vars
Application == part = "apply" /\ Next /\ UNCHANGED historyVars

PartSpec == PartInit /\ [][(Histories \/ Application) /\ UNCHANGED part]_partVars

HistoriesExplored ==
    LET operations == {history[i].op : i \in DOMAIN history}
        \* any operations on one key
    IN  \/ operations \subseteq OneKey
        \* each operation on two keys once
        \/ operations \subseteq TwoKeys /\ Cardinality(operations) = Len(history)

\* Each disjunct is an instance of its own.
ApplicationExplored ==
    \* two requests, with one recovery message in flight, one timer and one attempt
    \/ Cardinality(msgs) <= 1 /\ \A n \in Server : attempt[n] <= 1 /\ Cardinality(timers[n]) <= 1
    \* no requests, but two attempts and two messages in flight
    \/ DOMAIN journal = {} /\ Cardinality(msgs) <= 2

Explored == HistoriesExplored /\ ApplicationExplored

Symmetry == Permutations(Server) \cup Permutations(Request)
=============================================================================
