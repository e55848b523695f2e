------------------------------ MODULE KVClient ------------------------------
(***************************************************************************)
(* Client sessions on the replicated key/value state: KVClientSession,     *)
(* KVClientHistory and ReplicatedKV, over the histories of History.        *)
(*                                                                         *)
(* The Raft log is here the sequence of committed requests, and a read     *)
(* barrier lets a node apply all of it (LeaderService is about that).  A   *)
(* request that was submitted may be committed late, or again, since a     *)
(* retry may append it anew.  A client that fails loses its session and    *)
(* recovers it from the shared history and the leader, after a barrier.    *)
(***************************************************************************)
EXTENDS History, FiniteSets, FiniteSetsExt, SequencesExt

CONSTANTS
    Node,
    MaxRequest,     \* request ids are 0..MaxRequest
    MaxCopies       \* bound on the committed copies of a request

ASSUME ClientAssumption == MaxRequest \in Nat /\ MaxCopies \in Nat

VARIABLES
    requestId,  \* _client_request_ids: the id attached to each operation, or -1
    session,    \* the sessions' floor, pending write and pending read (0 if there is none)
    submitted,  \* the requests that may be in some leader's log
    log,        \* the committed requests
    kv          \* ReplicatedKV of each node: applied entries, state and _requests

clientVars == <<history, clock, requestId, session, submitted, log, kv>>

Writes == {o \in Operation : o.type # "get"}
Reads == Operation \ Writes

RequestOf(i) == [client |-> history[i].client, id |-> requestId[i], op |-> history[i].op]

\* The ids of a client in the deduplication state, below which there is only -1
Ids(requests, c) == {-1} \cup {q.id : q \in {q \in requests : q.client = c}}

-----------------------------------------------------------------------------
(* ReplicatedKV *)

ExecuteOperation(state, o) == [state EXCEPT ![o.key] = o.value]

\* _apply_command: duplicates and requests below the client's latest one are not executed.
ApplyCommandAgain(r, q) ==    \* faulty: duplicates are executed
    [applied |-> r.applied + 1, state |-> ExecuteOperation(r.state, q.op), requests |-> r.requests \cup {q}]

ApplyCommand(r, q) ==
    IF q \in r.requests \/ q.id < Max(Ids(r.requests, q.client))
      THEN [r EXCEPT !.applied = @ + 1]
      ELSE [applied |-> r.applied + 1, state |-> ExecuteOperation(r.state, q.op), requests |-> r.requests \cup {q}]

\* _validate_request_conflicts: an identity with two operations stops the replica.
HasConflict(requests) == \E q, p \in requests : q.client = p.client /\ q.id = p.id /\ q.op # p.op

Pending(n, i) == SubSeq(log, kv[n].applied + 1, i)

CanApply(n, i) == ~HasConflict(kv[n].requests \cup ToSet(Pending(n, i)))

\* The replica n after each pending command in turn
Applied(n, i) ==
    LET after[j \in kv[n].applied..i] ==
            IF j = kv[n].applied THEN kv[n] ELSE ApplyCommand(after[j - 1], log[j])
    IN  after[i]

\* apply_committed with the commit index i
ApplyCommitted(n, i) ==
    /\ CanApply(n, i)
    /\ kv' = [kv EXCEPT ![n] = Applied(n, i)]

ApplyStep(n) ==
    /\ \E i \in kv[n].applied + 1..Len(log) : ApplyCommitted(n, i)
    /\ UNCHANGED <<history, clock, requestId, session, submitted, log>>

Commit(q) ==
    /\ Cardinality({i \in DOMAIN log : log[i] = q}) < MaxCopies
    /\ log' = Append(log, q)
    /\ UNCHANGED <<history, clock, requestId, session, submitted, kv>>

-----------------------------------------------------------------------------
(* Sessions and the client history *)

\* _ensure_can_start_write and _ensure_can_start_read
MayWriteAnyTime(c, id) == id > session[c].floor    \* faulty: whatever is pending

MayWrite(c, id) == session[c].write = 0 /\ session[c].read = 0 /\ id > session[c].floor

MayRead(c) == session[c].write = 0 /\ session[c].read = 0

\* _ensure_client_request_identity_available
IsAvailable(c, id) == ~\E i \in DOMAIN history : history[i].client = c /\ requestId[i] = id

\* attach_client_request_id and retire_client_request_id
AttachRequestId(id) == requestId' = Append(requestId, id)

RetireRequestId(i) == requestId' = [requestId EXCEPT ![i] = -1]

\* The history's part of a write: its invocation, and its answer once the node n has applied it
RecordWrite(c, id, o) ==
    /\ IsAvailable(c, id)
    /\ InvokeOperation(c, o)
    /\ AttachRequestId(id)

RecordAnswer(i, n) ==
    /\ requestId[i] >= 0
    /\ RequestOf(i) \in kv[n].requests
    /\ Respond(i, Absent)
    /\ RetireRequestId(i)

\* invoke_write, and write_via_service when the service fails or is slow to answer
InvokeWrite(c, id, o) ==
    /\ Len(history) < MaxOps
    /\ MayWrite(c, id)
    /\ RecordWrite(c, id, o)
    /\ session' = [session EXCEPT ![c].write = Len(history) + 1]
    /\ submitted' = submitted \cup {[client |-> c, id |-> id, op |-> o]}
    /\ UNCHANGED <<log, kv>>

\* complete_write and _advance_completed_write
CompleteWrite(i, n) ==
    LET c == history[i].client
    IN  /\ RecordAnswer(i, n)
        /\ session' = IF session[c].write = i THEN [session EXCEPT ![c].floor = requestId[i], ![c].write = 0]
                                              ELSE session
        /\ UNCHANGED <<submitted, log, kv>>

\* linearizable_read up to its barrier; the read stays pending until a barrier succeeds.
InvokeRead(c, o) ==
    /\ Len(history) < MaxOps
    /\ MayRead(c)
    /\ InvokeOperation(c, o)
    /\ requestId' = Append(requestId, -1)
    /\ session' = [session EXCEPT ![c].read = Len(history) + 1]
    /\ UNCHANGED <<submitted, log, kv>>

\* _complete_linearizable_read, of the first attempt or of a retry: the barrier and the answer
CompleteRead(c, n) ==
    LET i == session[c].read
    IN  /\ i # 0
        /\ ApplyCommitted(n, Len(log))
        /\ Respond(i, kv'[n].state[history[i].op.key])
        /\ session' = [session EXCEPT ![c].read = 0]
        /\ UNCHANGED <<requestId, submitted, log>>

AbandonRead(c) ==
    /\ session[c].read # 0
    /\ Abandon(session[c].read)
    /\ session' = [session EXCEPT ![c].read = 0]
    /\ UNCHANGED <<requestId, submitted, log, kv>>

\* What _restore_pending_operation has to do with
Unresolved(c) == {i \in DOMAIN history : history[i].client = c /\ history[i].resp = 0 /\ ~history[i].abandoned}

\* recover from the deduplication state, without the checks that may raise
RecoveredForgetful(c, requests) ==    \* faulty: what is pending is forgotten
    [floor |-> Max(Ids(requests, c)), write |-> 0, read |-> 0]

Recovered(c, requests) ==
    [floor |-> Max(Ids(requests, c)),
     write |-> Max({0} \cup {i \in Unresolved(c) : history[i].op.type # "get"}),
     read |-> Max({0} \cup {i \in Unresolved(c) : history[i].op.type = "get"})]

\* The checks: one pending operation at most, and its id not below the floor, nor at the floor
\* with another operation
CanRecover(c, requests) ==
    /\ Cardinality(Unresolved(c)) <= 1
    /\ \A i \in Unresolved(c) : requestId[i] >= 0 =>
        \/ requestId[i] > Max(Ids(requests, c))
        \/ requestId[i] = Max(Ids(requests, c)) /\ RequestOf(i) \in requests

\* recover_linearizable and recover_generation_fenced: after a barrier on the leader
RecoverLinearizable(c, n) ==
    /\ ApplyCommitted(n, Len(log))
    /\ CanRecover(c, kv'[n].requests)
    /\ session' = [session EXCEPT ![c] = Recovered(c, kv'[n].requests)]
    /\ UNCHANGED <<history, clock, requestId, submitted, log>>

-----------------------------------------------------------------------------
Empty == [applied |-> 0, state |-> [key \in {o.key : o \in Operation} |-> Absent], requests |-> {}]

ClientInit ==
    /\ HistoryInit
    /\ requestId = <<>>
    /\ session = [c \in Client |-> [floor |-> -1, write |-> 0, read |-> 0]]
    /\ submitted = {}
    /\ log = <<>>
    /\ kv = [n \in Node |-> Empty]

ClientNext ==
    \/ \E n \in Node : ApplyStep(n)
    \/ \E q \in submitted : Commit(q)
    \/ \E c \in Client, id \in 0..MaxRequest, o \in Writes : InvokeWrite(c, id, o)
    \/ \E i \in DOMAIN history, n \in Node : CompleteWrite(i, n)
    \/ \E c \in Client, o \in Reads : InvokeRead(c, o)
    \/ \E c \in Client, n \in Node : CompleteRead(c, n)
    \/ \E c \in Client : AbandonRead(c)
    \/ \E c \in Client, n \in Node : RecoverLinearizable(c, n)

ClientSpec == ClientInit /\ [][ClientNext]_clientVars

-----------------------------------------------------------------------------
(* Properties *)

\* An applied request is a known one: the fence against old ids never drops a request for good,
\* and the leader service, which asserts that it has been applied, is right.
NoCommittedRequestIsDropped ==
    \A n \in Node : \A i \in 1..kv[n].applied : log[i] \in kv[n].requests

\* A session that is lost now can be recovered on whichever node leads, with the operation that
\* was pending, and a floor that is the old one or the pending write's own id.
RecoveryRestoresTheSession ==
    \A c \in Client, n \in Node :
        LET s == session[c]
            requests == Applied(n, Len(log)).requests
            new == Recovered(c, requests)
        IN  /\ CanApply(n, Len(log)) /\ CanRecover(c, requests)
            /\ new.write = s.write /\ new.read = s.read
            /\ new.floor = s.floor \/ (s.write # 0 /\ new.floor = requestId[s.write])
=============================================================================
