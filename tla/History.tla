------------------------------ MODULE History ------------------------------
(***************************************************************************)
(* Operation histories: OperationHistory.  An operation id is its place in *)
(* the order of invocation.                                                *)
(***************************************************************************)
EXTENDS Integers, Sequences

CONSTANTS
    Client,
    Operation,      \* records [type, key, value] with type put, delete or get
    Absent,         \* the value of an absent key and of what does not answer
    MaxOps          \* bound on the operations of a history

VARIABLES
    history,    \* OperationHistory: invocations with their completions; resp is 0 while pending
    clock       \* _sequence

historyVars == <<history, clock>>

StoredValue == {o.value : o \in Operation} \cup {Absent}

InvokeOperation(c, o) ==
    /\ history' = Append(history, [client |-> c, op |-> o, inv |-> clock + 1, resp |-> 0,
                                   result |-> Absent, abandoned |-> FALSE])
    /\ clock' = clock + 1

Respond(i, result) ==
    /\ history[i].resp = 0 /\ ~history[i].abandoned
    /\ history[i].op.type # "get" => result = Absent
    /\ history' = [history EXCEPT ![i].resp = clock + 1, ![i].result = result]
    /\ clock' = clock + 1

Abandon(i) ==
    /\ history[i].resp = 0 /\ ~history[i].abandoned
    /\ history[i].op.type = "get"
    /\ history' = [history EXCEPT ![i].abandoned = TRUE]
    /\ UNCHANGED clock

Completed(h) == {i \in DOMAIN h : h[i].resp > 0}

PendingWrites(h) == {i \in DOMAIN h : h[i].resp = 0 /\ h[i].op.type # "get"}

-----------------------------------------------------------------------------
HistoryInit == history = <<>> /\ clock = 0

HistoryNext ==
    \/ \E c \in Client, o \in Operation : Len(history) < MaxOps /\ InvokeOperation(c, o)
    \/ \E i \in DOMAIN history : \E result \in StoredValue : Respond(i, result)
    \/ \E i \in DOMAIN history : Abandon(i)

HistorySpec == HistoryInit /\ [][HistoryNext]_historyVars
=============================================================================
