-------------------------- MODULE MultiPaxosApply --------------------------
(***************************************************************************)
(* What happens to decisions of Multi-Paxos once they are made: learning,  *)
(* bounded recovery of missing decisions (multipaxos.py), application in   *)
(* slot order (multipaxos_state_machine.py) and the client's view of its   *)
(* requests (multipaxos_client.py).  Each slot is one abstract decree, as  *)
(* module MultiPaxos shows: a leader decides a slot once, for good.        *)
(*                                                                         *)
(* Data.  A command is a client's request or a no-op.  The key-value state *)
(* after some slots is the sequence of requests that took effect, and the  *)
(* result of a request is the state it was applied to.                     *)
(*                                                                         *)
(* Timers carry a recovery generation that is only compared for equality,  *)
(* so a queued timer is marked stale when the generation moves on.         *)
(***************************************************************************)
EXTENDS Naturals, Sequences, FiniteSets, SequencesExt

CONSTANTS
    Server,
    Request,    \* MultiPaxosRequests of the clients
    NoOp, None,
    MaxSlot,    \* bound: slots of the log
    Window,     \* RECOVERY_WINDOW
    Attempts    \* RECOVERY_ATTEMPTS

ASSUME ConstantAssumption ==
    /\ IsFiniteSet(Server) /\ NoOp \notin Request /\ None \notin Request \cup {NoOp}
    /\ MaxSlot \in Nat \ {0} /\ Window \in Nat \ {0} /\ Attempts \in Nat \ {0}

Slot == 1..MaxSlot
Command == Request \cup {NoOp}

VARIABLES
    chosen,                 \* _chosen of the cluster
    learned, applied,       \* persistent_state of each node
    machine,                \* volatile_state: the replayed state, or None before it is loaded
    recovery, attempt,      \* _recovery (its start slot, 0: none) and _recovery_attempt
    timers,                 \* _DecisionRecoveryRetry events that are queued, per node
    msgs,                   \* recovery requests and responses in flight
    journal,                \* registered requests, each with those acknowledged before it
    acks                    \* published responses: request and result

nodeState == <<learned, applied, machine>>
episode == <<recovery, attempt, timers>>
client == <<journal, acks>>
vars == <<chosen, nodeState, episode, msgs, client>>

-----------------------------------------------------------------------------
(* The state machine *)

ApplyDecisionAgain(state, command) ==    \* faulty: a request that is decided again takes effect again
    IF command = NoOp THEN state ELSE Append(state, command)

\* _apply_decision: a request that has taken effect does not take effect again.
ApplyDecision(state, command) ==
    IF command = NoOp \/ Contains(state, command) THEN state ELSE Append(state, command)

\* The state after each command in turn
Execute(state, commands) ==
    LET after[i \in 0..Len(commands)] ==
            IF i = 0 THEN state ELSE ApplyDecision(after[i - 1], commands[i])
    IN  after[Len(commands)]

\* _replay
Replay(commands) == Execute(<<>>, commands)

\* _machine: the cached state, or the one rebuilt from the durable applied prefix
LoadedEmpty(n) == IF machine[n] = None THEN <<>> ELSE machine[n]    \* faulty: nothing is replayed

Loaded(n) == IF machine[n] = None THEN Replay(applied[n]) ELSE machine[n]

\* The result on record for a request, written each time the request takes effect
Result(state, request) ==
    LET i == CHOOSE k \in DOMAIN state :
                /\ state[k] = request
                /\ \A j \in DOMAIN state : state[j] = request => j <= k
    IN  SubSeq(state, 1, i - 1)

-----------------------------------------------------------------------------
(* Decisions *)

\* A leader sees a quorum for a request or for the no-op that fills a hole, and learns it.
Decide(n, slot, command) ==
    /\ chosen[slot] = None
    /\ command \in DOMAIN journal \cup {NoOp}
    /\ chosen' = [chosen EXCEPT ![slot] = command]
    /\ learned' = [learned EXCEPT ![n][slot] = command]
    /\ UNCHANGED <<applied, machine, episode, msgs, client>>

\* A LeaderDecision that arrives: _receive_decision
Learn(n, slot) ==
    /\ chosen[slot] # None
    /\ learned[n][slot] = None
    /\ learned' = [learned EXCEPT ![n][slot] = chosen[slot]]
    /\ UNCHANGED <<chosen, applied, machine, episode, msgs, client>>

-----------------------------------------------------------------------------
(* Recovery *)

RequestTo(n, peer, start) == [type |-> "Request", src |-> n, dst |-> peer, start |-> start]

Requests(n, start) == {RequestTo(n, peer, start) : peer \in Server \ {n}}

Timer(a) == [stale |-> FALSE, attempt |-> a]

\* The timers of node n after its generation has moved on
Retired(n) == {[stale |-> TRUE, attempt |-> t.attempt] : t \in timers[n]}

\* recover_decisions, then the first attempt: one episode per missing slot at a time.
RecoverDecisions(n, start) ==
    IF recovery[n] = start
      THEN UNCHANGED <<episode, msgs>>
      ELSE /\ recovery' = [recovery EXCEPT ![n] = start]
           /\ attempt' = [attempt EXCEPT ![n] = 1]
           /\ timers' = [timers EXCEPT ![n] = Retired(n) \cup {Timer(1)}]
           /\ msgs' = msgs \cup Requests(n, start)

StopEpisode(n) == recovery' = [recovery EXCEPT ![n] = 0]

\* A timer of the current generation and attempt: _retry_recovery.  Others do nothing.
IsCurrent(n, t) == ~t.stale /\ t.attempt = attempt[n]

RetryRecovery(n, t) ==
    /\ t \in timers[n]
    /\ \/ /\ IsCurrent(n, t)
          /\ recovery[n] # 0
          /\ learned[n][recovery[n]] = None
          /\ attempt[n] < Attempts
          /\ attempt' = [attempt EXCEPT ![n] = @ + 1]
          /\ timers' = [timers EXCEPT ![n] = (@ \ {t}) \cup {Timer(attempt[n] + 1)}]
          /\ msgs' = msgs \cup Requests(n, recovery[n])
          /\ UNCHANGED recovery
       \/ /\ IsCurrent(n, t)
          /\ recovery[n] # 0
          /\ learned[n][recovery[n]] # None \/ attempt[n] = Attempts
          /\ StopEpisode(n)
          /\ timers' = [timers EXCEPT ![n] = @ \ {t}]
          /\ UNCHANGED <<attempt, msgs>>
       \/ /\ ~IsCurrent(n, t) \/ recovery[n] = 0
          /\ timers' = [timers EXCEPT ![n] = @ \ {t}]
          /\ UNCHANGED <<recovery, attempt, msgs>>
    /\ UNCHANGED <<chosen, nodeState, client>>

\* A delivery leaves a duplicate in flight or not.
Taken(m) == {msgs \ {m}, msgs}

\* _receive_recovery_request: the node's own records of the window
ReceiveRecoveryRequest(n, m) ==
    LET known == {s \in Slot : m.start <= s /\ s < m.start + Window /\ learned[n][s] # None}
        response == [type |-> "Response", src |-> n, dst |-> m.src,
                     decisions |-> [s \in known |-> learned[n][s]]]
    IN  /\ m \in msgs /\ m.type = "Request" /\ m.dst = n
        /\ \E rest \in Taken(m) : msgs' = rest \cup {response}
        /\ UNCHANGED <<chosen, nodeState, episode, client>>

\* _receive_recovery_response, however late: no episode has to be active.
ReceiveRecoveryResponse(n, m) ==
    /\ m \in msgs /\ m.type = "Response" /\ m.dst = n
    /\ learned' = [learned EXCEPT ![n] =
                      [s \in Slot |-> IF learned[n][s] = None /\ s \in DOMAIN m.decisions
                                        THEN m.decisions[s] ELSE learned[n][s]]]
    /\ \E rest \in Taken(m) : msgs' = rest
    /\ UNCHANGED <<chosen, applied, machine, episode, client>>

Lose(m) == msgs' = msgs \ {m} /\ UNCHANGED <<chosen, nodeState, episode, client>>

-----------------------------------------------------------------------------
(* Application *)

\* The learned commands that follow the applied prefix without a hole
ReadyWithHoles(n) ==    \* faulty: application does not stop at the first unlearned slot
    LET next == SelectSeq([s \in Slot |-> s], LAMBDA s : s > Len(applied[n]) /\ learned[n][s] # None)
    IN  [i \in DOMAIN next |-> learned[n][next[i]]]

Ready(n) ==
    LET first == Len(applied[n]) + 1
        holes == {s \in first..MaxSlot + 1 : s = MaxSlot + 1 \/ learned[n][s] = None}
        last == (CHOOSE h \in holes : \A g \in holes : h <= g) - 1
    IN  SubSeq(learned[n], first, last)

\* apply_ready: load, apply what is ready, then probe the first unlearned slot.
ApplyReady(n) ==
    LET done == applied[n] \o Ready(n)
    IN  /\ machine' = [machine EXCEPT ![n] = Execute(Loaded(n), Ready(n))]
        /\ applied' = [applied EXCEPT ![n] = done]
        /\ IF Len(done) < MaxSlot THEN RecoverDecisions(n, Len(done) + 1)
                                  ELSE UNCHANGED <<episode, msgs>>

Apply(n) == ApplyReady(n) /\ UNCHANGED <<chosen, learned, client>>

\* handle_crash and handle_restart; volatile_state is lost.
Crash(n) ==
    /\ machine' = [machine EXCEPT ![n] = None]
    /\ recovery' = [recovery EXCEPT ![n] = 0]
    /\ attempt' = [attempt EXCEPT ![n] = 0]
    /\ timers' = [timers EXCEPT ![n] = Retired(n)]
    /\ UNCHANGED <<chosen, learned, applied, msgs, client>>

-----------------------------------------------------------------------------
(* The client *)

\* submit registers the request in the client's journal before it is proposed.
Submit(r) ==
    /\ r \notin DOMAIN journal
    /\ journal' = [q \in DOMAIN journal \cup {r} |->
                      IF q = r THEN {a.request : a \in acks} ELSE journal[q]]
    /\ UNCHANGED <<chosen, nodeState, episode, msgs, acks>>

\* poll on an authorized node, with or without applying first, publishes the response of a
\* request that has been applied; later polls compare theirs with the published one.
Poll(n, r, apply) ==
    /\ r \in DOMAIN journal
    /\ IF apply
         THEN ApplyReady(n)
         ELSE machine' = [machine EXCEPT ![n] = Loaded(n)] /\ UNCHANGED <<applied, episode, msgs>>
    /\ acks' = IF Contains(machine'[n], r)
                 THEN acks \cup {[request |-> r, result |-> Result(machine'[n], r)]}
                 ELSE acks
    /\ UNCHANGED <<chosen, learned, journal>>

-----------------------------------------------------------------------------
Init ==
    /\ chosen = [s \in Slot |-> None]
    /\ learned = [n \in Server |-> [s \in Slot |-> None]]
    /\ applied = [n \in Server |-> <<>>]
    /\ machine = [n \in Server |-> None]
    /\ recovery = [n \in Server |-> 0]
    /\ attempt = [n \in Server |-> 0]
    /\ timers = [n \in Server |-> {}]
    /\ msgs = {}
    /\ journal = <<>>
    /\ acks = {}

NodeStep(n) ==
    \/ \E slot \in Slot, command \in Command : Decide(n, slot, command)
    \/ \E slot \in Slot : Learn(n, slot)
    \/ Apply(n)
    \/ \E t \in timers[n] : RetryRecovery(n, t)
    \/ \E m \in msgs : ReceiveRecoveryRequest(n, m)
    \/ \E m \in msgs : ReceiveRecoveryResponse(n, m)
    \/ \E r \in Request, apply \in BOOLEAN : Poll(n, r, apply)

Next ==
    \/ \E n \in Server : NodeStep(n) \/ Crash(n)
    \/ \E m \in msgs : Lose(m)
    \/ \E r \in Request : Submit(r)

Spec == Init /\ [][Next]_vars

-----------------------------------------------------------------------------
(* Properties *)

\* The type invariant.
TypeOK ==
    /\ chosen \in [Slot -> Command \cup {None}]
    /\ learned \in [Server -> [Slot -> Command \cup {None}]]
    /\ \A n \in Server : applied[n] \in Seq(Command) /\ machine[n] \in Seq(Request) \cup {None}
    /\ recovery \in [Server -> 0..MaxSlot]
    /\ attempt \in [Server -> 0..Attempts]
    /\ \A n \in Server : timers[n] \subseteq [stale : BOOLEAN, attempt : 1..Attempts]
    /\ \A a \in acks : a.request \in Request /\ a.result \in Seq(Request)

\* On every node the durable applied prefix is the decided one, slot by slot, and the
\* state in memory is what that prefix replays to, also after crashes between two
\* application passes: assert_safety of MultiPaxosStateMachine never raises.
MachinesFollowTheLog ==
    \A n \in Server :
        /\ \A s \in 1..Len(applied[n]) : applied[n][s] = chosen[s] /\ learned[n][s] = chosen[s]
        /\ machine[n] # None => machine[n] = Replay(applied[n])

\* A request that was submitted after the acknowledgement of another one takes effect
\* after it: completed operations are ordered as the client saw them.
RealTimeOrder ==
    \A a \in acks : \A earlier \in journal[a.request] : Contains(a.result, earlier)

\* A request has one answer: whichever node is polled, and however often the request was
\* decided again or a node crashed and replayed in between, poll of multipaxos_client.py
\* finds the result it has published ("reconstructed client result changed" is not raised).
AnswersAreFinal == \A a, b \in acks : a.request = b.request => a.result = b.result
=============================================================================
