------------------------------ MODULE Simulator ------------------------------
(***************************************************************************)
(* The deterministic simulator under every protocol of the laboratory: a   *)
(* queue of deliveries ordered by logical time and sequence number, a      *)
(* fault plan of explicit rules, blocked and slowed links, crashes, and    *)
(* the two loops that deliver, run and run_until_time.                     *)
(*                                                                         *)
(* What a handler does with a message is left open.  It may send, crash,   *)
(* restart or change links, as the scenario may between two loops, so      *)
(* these operations are possible inside a loop too.  Handlers start no     *)
(* loop, and timers are messages of a node to itself.                      *)
(***************************************************************************)
EXTENDS Integers, FiniteSets, Sequences, FiniteSetsExt, Functions

CONSTANTS
    Nodes,          \* the registered handlers
    Plans,          \* the fault plans: sequences of rules
    Sends,          \* the links the handlers and the scenario send on
    Delays,         \* the delays a sender may ask for
    LinkDelays,     \* the delays set_link_delay may set
    MaxSends,       \* bound: messages sent
    MaxTime,        \* bound: deadlines
    MaxFaults       \* bound: crashes, restarts and changes of links

AnyNode == "any"        \* a rule's src or dst None; its ordinal None is 0
Unset == -1         \* a bound or a sequence number that is None

Rules ==
    [action : {"deliver", "drop", "delay", "duplicate"}, src : Nodes \cup {AnyNode}, dst : Nodes \cup {AnyNode},
     ordinal : Nat, extra_delay : Nat]

ASSUME SimulatorAssumption ==
    /\ Plans \subseteq Seq(Rules) /\ Sends \subseteq Nodes \X Nodes
    /\ Delays \subseteq Nat /\ LinkDelays \subseteq Nat \ {0}

VARIABLES
    plan,           \* fault_plan
    time,           \* time
    sequence,       \* _sequence
    queue,          \* _queue, a set of [time, sequence, message]
    alive,          \* _alive
    ordinals,       \* _send_ordinals
    blocked,        \* _blocked_links
    linkDelay,      \* _link_delays, 0 for a link that has none
    loop,           \* the loop that is running: its kind, deadline and events left
    trace,          \* the records of deliveries, discards, drops and closed windows
    faults          \* bounds MaxFaults

net == <<alive, blocked, linkDelay>>
simulatorVars == <<plan, time, sequence, queue, alive, ordinals, blocked, linkDelay, loop, trace, faults>>

Links == Nodes \X Nodes
Idle == [kind |-> "idle", deadline |-> Unset, left |-> Unset]

SimulatorInit ==
    /\ plan \in Plans
    /\ time = 0 /\ sequence = 0 /\ queue = {}
    /\ alive = Nodes
    /\ ordinals = [l \in Links |-> 0]
    /\ blocked = {} /\ linkDelay = [l \in Links |-> 0]
    /\ loop = Idle /\ trace = <<>> /\ faults = 0

-----------------------------------------------------------------------------
(* send *)

Matches(rule, message) ==
    /\ rule.src \in {AnyNode, message.link[1]}
    /\ rule.dst \in {AnyNode, message.link[2]}
    /\ rule.ordinal \in {0, message.ordinal}

Deliver == [action |-> "deliver", src |-> AnyNode, dst |-> AnyNode, ordinal |-> 0, extra_delay |-> 0]

\* The first rule that matches decides.
ActionFor(message) ==
    LET matching == {i \in DOMAIN plan : Matches(plan[i], message)}
    IN  IF matching = {} THEN Deliver ELSE plan[Min(matching)]

ScheduledAtDelay(message, n, delay) ==    \* faulty: the delay is taken for the time
    [time |-> delay, sequence |-> sequence + n, message |-> message]

Scheduled(message, n, delay) == [time |-> time + delay, sequence |-> sequence + n, message |-> message]

\* What send adds to the queue: nothing, one delivery or two.
Copies(message, rule, delay) ==
    LET effective == delay + linkDelay[message.link]
                      + (IF rule.action = "delay" THEN rule.extra_delay ELSE 0)
    IN  CASE rule.action = "drop" -> {}
          [] rule.action = "duplicate" ->
               {Scheduled(message, 1, effective), Scheduled(message, 2, effective + rule.extra_delay)}
          [] OTHER -> {Scheduled(message, 1, effective)}

Record(kind, message, at, n) == Append(trace, [kind |-> kind, message |-> message, time |-> at, sequence |-> n])

Sent == SumFunction(ordinals)

Send(l, delay) ==
    /\ Sent < MaxSends
    /\ ordinals' = [ordinals EXCEPT ![l] = @ + 1]
    /\ LET message == [link |-> l, ordinal |-> ordinals[l] + 1]
           copies == IF l \in blocked THEN {} ELSE Copies(message, ActionFor(message), delay)
       IN  /\ queue' = queue \cup copies
           /\ sequence' = sequence + Cardinality(copies)
           /\ trace' = IF copies = {} THEN Record("drop", message, time, Unset) ELSE trace
    /\ UNCHANGED <<plan, time, net, loop, faults>>

-----------------------------------------------------------------------------
(* crash, restart, links and partitions *)

Fault == faults < MaxFaults /\ faults' = faults + 1 /\ UNCHANGED <<plan, time, sequence, queue, ordinals, loop, trace>>

CrashNode(n) == Fault /\ alive' = alive \ {n} /\ UNCHANGED <<blocked, linkDelay>>

RestartNode(n) == Fault /\ alive' = alive \cup {n} /\ UNCHANGED <<blocked, linkDelay>>

Between(left, right) == (left \X right) \cup (right \X left)

Groups == {g \in (SUBSET Nodes \ {{}}) \X (SUBSET Nodes \ {{}}) : g[1] \cap g[2] = {}}

Partition(g) == Fault /\ blocked' = blocked \cup Between(g[1], g[2]) /\ UNCHANGED <<alive, linkDelay>>

HealPartition(g) == Fault /\ blocked' = blocked \ Between(g[1], g[2]) /\ UNCHANGED <<alive, linkDelay>>

\* _validate_link: the timers' links cannot be blocked or slowed.
Directed == {l \in Links : l[1] # l[2]}

BlockLink(l) == Fault /\ blocked' = blocked \cup {l} /\ UNCHANGED <<alive, linkDelay>>

HealLink(l) == Fault /\ blocked' = blocked \ {l} /\ UNCHANGED <<alive, linkDelay>>

SetLinkDelay(l, extra) == Fault /\ linkDelay' = [linkDelay EXCEPT ![l] = extra] /\ UNCHANGED <<alive, blocked>>

ClearLinkDelay(l) == Fault /\ linkDelay' = [linkDelay EXCEPT ![l] = 0] /\ UNCHANGED <<alive, blocked>>

-----------------------------------------------------------------------------
(* run and run_until_time *)

Before(a, b) == a.time < b.time \/ (a.time = b.time /\ a.sequence < b.sequence)

\* heappop
Earliest == CHOOSE e \in queue : \A d \in queue \ {e} : Before(e, d)

RunBegin(max) ==
    /\ loop = Idle
    /\ loop' = [kind |-> "run", deadline |-> Unset, left |-> max]
    /\ UNCHANGED <<plan, time, sequence, queue, net, ordinals, trace, faults>>

RunUntilTimeBegin(deadline) ==
    /\ loop = Idle /\ deadline >= time
    /\ loop' = [kind |-> "until", deadline |-> deadline, left |-> Unset]
    /\ UNCHANGED <<plan, time, sequence, queue, net, ordinals, trace, faults>>

\* The condition of the two while loops
Continues ==
    /\ queue # {}
    /\ loop.kind = "run" => loop.left # 0
    /\ loop.kind = "until" => Earliest.time <= loop.deadline

\* One pass of a loop: an event for a node that is down is discarded, and counts.
Event ==
    /\ loop # Idle /\ Continues
    /\ LET e == Earliest IN
        /\ queue' = queue \ {e}
        /\ time' = e.time
        /\ trace' = Record(IF e.message.link[2] \in alive THEN "deliver" ELSE "discard",
                           e.message, e.time, e.sequence)
    /\ loop' = IF loop.left > 0 THEN [loop EXCEPT !.left = @ - 1] ELSE loop
    /\ UNCHANGED <<plan, sequence, net, ordinals, faults>>

RunEnd ==
    /\ loop.kind = "run" /\ ~Continues
    /\ loop' = Idle
    /\ UNCHANGED <<plan, time, sequence, queue, net, ordinals, trace, faults>>

RunUntilTimeEnd ==
    /\ loop.kind = "until" /\ ~Continues
    /\ time' = loop.deadline
    /\ loop' = Idle
    /\ UNCHANGED <<plan, sequence, queue, net, ordinals, trace, faults>>

SimulatorNext ==
    \/ \E l \in Sends, d \in Delays : Send(l, d)
    \/ \E n \in Nodes : CrashNode(n) \/ RestartNode(n)
    \/ \E g \in Groups : Partition(g) \/ HealPartition(g)
    \/ \E l \in Directed : BlockLink(l) \/ HealLink(l) \/ ClearLinkDelay(l)
    \/ \E l \in Directed, extra \in LinkDelays : SetLinkDelay(l, extra)
    \/ \E max \in {Unset, 1} : RunBegin(max)
    \/ \E deadline \in 0..MaxTime : RunUntilTimeBegin(deadline)
    \/ Event \/ RunEnd \/ RunUntilTimeEnd

SimulatorSpec == SimulatorInit /\ [][SimulatorNext]_simulatorVars

-----------------------------------------------------------------------------
(* Properties *)

Messages == {[link |-> l, ordinal |-> o] : l \in Links, o \in 1..MaxSends}
Processed == {r \in {trace[i] : i \in DOMAIN trace} : r.kind # "drop"}

\* "Equal-time events are ordered by a monotonically increasing sequence number": over the whole history, whatever
\* handlers send with no delay, and wherever loops stop and windows close in between, events run in the order of time
\* and then of sequence, and nothing that is still queued is overdue or belongs before an event that has run.
EventsRunInOrder ==
    /\ \A i, j \in DOMAIN trace :
          i < j /\ trace[i] \in Processed /\ trace[j] \in Processed => Before(trace[i], trace[j])
    /\ \A e \in queue : e.time >= time /\ \A r \in Processed : Before(r, e)
=============================================================================
