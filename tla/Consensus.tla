------------------------------ MODULE Consensus ------------------------------
(***************************************************************************)
(* What one decree promises: at most one value is ever chosen, for good,   *)
(* and a learner learns nothing but the chosen value, once and for all.    *)
(***************************************************************************)
CONSTANTS Server, Value, None

VARIABLES
    chosen,     \* the values that are chosen: none or one
    learned     \* what each node has learned, or None

vars == <<chosen, learned>>

Init ==
    /\ chosen = {}
    /\ learned = [n \in Server |-> None]

Choose ==
    /\ chosen = {}
    /\ \E v \in Value : chosen' = {v}
    /\ UNCHANGED learned

Learn(n) ==
    /\ learned[n] = None
    /\ \E v \in chosen : learned' = [learned EXCEPT ![n] = v]
    /\ UNCHANGED chosen

Next == Choose \/ \E n \in Server : Learn(n)

Spec == Init /\ [][Next]_vars
=============================================================================
