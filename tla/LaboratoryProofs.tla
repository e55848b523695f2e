--------------------------- MODULE LaboratoryProofs ---------------------------
(***************************************************************************)
(* Five parts of the laboratory, which share no state.                     *)
(*                                                                         *)
(* The simulator processes events in the order of time and then sequence,  *)
(* for any nodes, any fault plans and any number of messages and faults.   *)
(* Everything rests on three facts that every operation keeps: the numbers *)
(* of queued deliveries are distinct and no greater than the counter, no   *)
(* processed event is later than the clock, and neither the clock nor the  *)
(* deadline of an open window ever passes what is still queued.            *)
(*                                                                         *)
(* The minimizers return a failing scenario that needs each of its         *)
(* entries, for any schedules and any failure predicate.  That a pass over *)
(* one schedule says something of the result rests on the sizes that a     *)
(* round compares: schedules never grow, so equal sizes at the end mean    *)
(* that nothing was deleted since the round began.                         *)
(*                                                                         *)
(* The Multi-Paxos application keeps each node on the decided log and      *)
(* answers clients in the order they can observe, for any nodes, requests, *)
(* slots and recovery parameters.  Execution folds commands over a state,  *)
(* so its lemmas go by induction over their number: what holds of the      *)
(* least number of which it does not hold is a contradiction (UpTo).       *)
(*                                                                         *)
(* Client sessions lose no committed request and recover what they had     *)
(* pending, for any clients, nodes, operations and ids.  A session has one *)
(* write pending, so all earlier requests of its client are in the log     *)
(* before that one is.                                                     *)
(*                                                                         *)
(* Raft elections are safe and leave no authority behind, for any finite   *)
(* cluster and any bound on terms.  Every grant that a candidate counts is *)
(* a durable vote of the term, and two majorities share a voter.           *)
(***************************************************************************)
EXTENDS Simulator, Minimizer, MultiPaxosApply, KVClient, RaftElection, WellFoundedInduction, SequenceTheorems, FiniteSetTheorems, TLAPS

Packets == [link : Links, ordinal : Nat]
Deliveries == [time : Nat, sequence : Nat, message : Packets]
Entries == [kind : {"deliver", "discard", "drop"}, message : Packets, time : Nat, sequence : Int]

TypeInv ==
    /\ plan \in Seq(Rules) /\ time \in Nat /\ sequence \in Nat
    /\ queue \in SUBSET Deliveries
    /\ alive \in SUBSET Nodes /\ blocked \in SUBSET Links
    /\ ordinals \in [Links -> Nat] /\ linkDelay \in [Links -> Nat]
    /\ loop \in [kind : {"idle", "run", "until"}, deadline : Int, left : Int]
    /\ trace \in Seq(Entries)

\* Deliveries carry distinct numbers, all of them issued by the counter.
NumberInv ==
    /\ \A e \in queue : e.sequence <= sequence
    /\ \A d, e \in queue : d.sequence = e.sequence => d = e

\* The clock lies after what has run and within the window of the loop.
ClockInv ==
    /\ \A r \in Processed : r.time <= time /\ r.sequence <= sequence
    /\ loop.kind = "until" => time <= loop.deadline

IInv == TypeInv /\ NumberInv /\ ClockInv /\ EventsRunInOrder

-----------------------------------------------------------------------------
(* The least element of a set of numbers, and the head of the queue *)

LessThan == {p \in Nat \X Nat : p[1] < p[2]}

LEMMA LessThanWellFounded == IsWellFoundedOn(LessThan, Nat)
<1>1. LessThan = OpToRel(<, Nat)
  BY DEF LessThan, OpToRel
<1> QED BY <1>1, NatLessThanWellFounded

\* A set of natural numbers that is not empty has a least element.
LEMMA Least ==
    ASSUME NEW T \in SUBSET Nat, T # {}
    PROVE  \E x \in T : \A y \in T : x <= y
<1>1. PICK x \in T : \A y \in T : ~ (<<y, x>> \in LessThan)
  BY LessThanWellFounded, WFMin
<1>2. \A y \in T : x <= y
  <2> TAKE y \in T
  <2>1. x \in Nat /\ y \in Nat
    OBVIOUS
  <2>2. ~ (y < x)
    <3> SUFFICES ASSUME y < x PROVE FALSE
      OBVIOUS
    <3>1. <<y, x>> \in LessThan
      BY <2>1 DEF LessThan
    <3> QED BY <3>1, <1>1
  <2> QED BY <2>1, <2>2
<1> QED BY <1>2

\* What holds of 0 and passes from each number below k to the next holds up to k: S is the
\* set of the numbers of which it holds.
LEMMA UpTo ==
    ASSUME NEW k \in Nat, NEW S, 0 \in S, \A i \in 1..k : i - 1 \in S => i \in S
    PROVE  \A i \in 0..k : i \in S
<1> SUFFICES ASSUME NEW j \in 0..k, j \notin S PROVE FALSE
  OBVIOUS
<1> DEFINE T == {i \in 0..k : i \notin S}
<1>1. T \in SUBSET Nat /\ T # {}
  OBVIOUS
<1>2. PICK x \in T : \A y \in T : x <= y
  <2> HIDE DEF T
  <2> QED BY <1>1, Least
<1>3. x \in 0..k /\ x \notin S /\ x # 0
  OBVIOUS
<1>4. x \in 1..k /\ x - 1 \in 0..k /\ ~(x <= x - 1)
  BY <1>3
<1>5. x - 1 \in S
  BY <1>2, <1>4
<1> QED BY <1>3, <1>4, <1>5

\* heappop has something to return: the first delivery by time and number.
LEMMA EarliestIsFirst ==
    ASSUME TypeInv, NumberInv, queue # {}
    PROVE  /\ Earliest \in queue
           /\ \A d \in queue \ {Earliest} : Before(Earliest, d)
<1>1. \A e \in queue : e.time \in Nat /\ e.sequence \in Nat
  BY DEF TypeInv, Deliveries
<1> DEFINE Times == {e.time : e \in queue}
<1>2. PICK t \in Times : \A y \in Times : t <= y
  <2>1. Times \in SUBSET Nat /\ Times # {}
    BY <1>1
  <2> HIDE DEF Times
  <2> QED BY <2>1, Least
<1> DEFINE Numbers == {e.sequence : e \in {d \in queue : d.time = t}}
<1>3. PICK n \in Numbers : \A y \in Numbers : n <= y
  <2>1. Numbers \in SUBSET Nat /\ Numbers # {}
    BY <1>1
  <2> HIDE DEF Numbers
  <2> QED BY <2>1, Least
<1>4. PICK e \in queue : e.time = t /\ e.sequence = n
  OBVIOUS
<1>5. ASSUME NEW d \in queue, d # e PROVE Before(e, d)
  <2>1. t <= d.time
    BY <1>2
  <2>2. d.sequence # n
    BY <1>4, <1>5 DEF NumberInv
  <2>3. d.time = t => n <= d.sequence
    BY <1>3
  <2> QED BY <1>1, <1>4, <2>1, <2>2, <2>3 DEF Before
<1>6. \A d \in queue \ {e} : Before(e, d)
  BY <1>5
<1> QED BY <1>4, <1>6 DEF Earliest

-----------------------------------------------------------------------------
(* send *)

\* The first rule that matches, or none: extra_delay is a natural number either way.
LEMMA ActionIsRule ==
    ASSUME TypeInv, NEW message
    PROVE  ActionFor(message).extra_delay \in Nat
<1> DEFINE matching == {i \in DOMAIN plan : Matches(plan[i], message)}
<1>1. CASE matching = {}
  BY <1>1 DEF ActionFor, Deliver
<1>2. CASE matching # {}
  <2>1. matching \in SUBSET Nat
    BY DEF TypeInv
  <2>2. Min(matching) \in matching
    <3> HIDE DEF matching
    <3>1. \E x \in matching : \A y \in matching : x <= y
      BY <1>2, <2>1, Least
    <3> QED BY <3>1 DEF Min
  <2>3. plan[Min(matching)] \in Rules
    BY <2>2 DEF TypeInv
  <2>4. ActionFor(message) = plan[Min(matching)]
    BY <1>2 DEF ActionFor
  <2> QED BY <2>3, <2>4 DEF Rules
<1> QED BY <1>1, <1>2

\* What a send may add: deliveries that are not overdue, with the next numbers, as many as the counter advances.
Fresh(copies) ==
    /\ copies \in SUBSET Deliveries
    /\ Cardinality(copies) \in Nat
    /\ \A e \in copies : e.time >= time /\ e.sequence > sequence /\ e.sequence <= sequence + Cardinality(copies)
    /\ \A d, e \in copies : d.sequence = e.sequence => d = e

LEMMA NoneIsFresh == Fresh({})
BY FS_EmptySet DEF Fresh

LEMMA OneIsFresh ==
    ASSUME time \in Nat, sequence \in Nat, NEW message \in Packets, NEW d \in Nat
    PROVE  Fresh({Scheduled(message, 1, d)})
<1>1. Cardinality({Scheduled(message, 1, d)}) = 1
  BY FS_Singleton
<1> QED BY <1>1 DEF Fresh, Scheduled, Deliveries

LEMMA TwoAreFresh ==
    ASSUME time \in Nat, sequence \in Nat, NEW message \in Packets, NEW c \in Nat, NEW d \in Nat
    PROVE  Fresh({Scheduled(message, 1, c), Scheduled(message, 2, d)})
<1> DEFINE one == Scheduled(message, 1, c)
           two == Scheduled(message, 2, d)
<1>1. one \in Deliveries /\ one.sequence = sequence + 1 /\ one.time >= time
  BY DEF Scheduled, Deliveries
<1>2. two \in Deliveries /\ two.sequence = sequence + 2 /\ two.time >= time
  BY DEF Scheduled, Deliveries
<1> HIDE DEF one, two
<1>3. Cardinality({one, two}) = 2
  <2>1. one # two
    BY <1>1, <1>2
  <2>2. IsFiniteSet({one}) /\ Cardinality({one}) = 1
    BY FS_Singleton
  <2>3. Cardinality({one} \cup {two}) = 1 + 1
    BY <2>1, <2>2, FS_AddElement
  <2>4. {one} \cup {two} = {one, two}
    OBVIOUS
  <2> QED BY <2>3, <2>4
<1>4. Fresh({one, two})
  BY <1>1, <1>2, <1>3 DEF Fresh
<1> QED BY <1>4 DEF one, two

LEMMA CopiesAreFresh ==
    ASSUME TypeInv, NEW message \in Packets, NEW delay \in Nat
    PROVE  Fresh(Copies(message, ActionFor(message), delay))
<1> DEFINE rule == ActionFor(message)
           effective == delay + linkDelay[message.link] + (IF rule.action = "delay" THEN rule.extra_delay ELSE 0)
<1>1. rule.extra_delay \in Nat
  BY ActionIsRule
<1>2. linkDelay[message.link] \in Nat
  BY DEF TypeInv, Packets
<1> HIDE DEF rule
<1>3. effective \in Nat /\ effective + rule.extra_delay \in Nat
  BY <1>1, <1>2
<1>4. Copies(message, rule, delay) =
          CASE rule.action = "drop" -> {}
            [] rule.action = "duplicate" ->
                 {Scheduled(message, 1, effective), Scheduled(message, 2, effective + rule.extra_delay)}
            [] OTHER -> {Scheduled(message, 1, effective)}
  BY DEF Copies
<1> HIDE DEF effective
<1>5. time \in Nat /\ sequence \in Nat
  BY DEF TypeInv
<1>6. CASE rule.action = "drop"
  BY <1>4, <1>6, NoneIsFresh DEF rule
<1>7. CASE rule.action = "duplicate"
  BY <1>3, <1>4, <1>5, <1>7, TwoAreFresh DEF rule
<1>8. CASE rule.action # "drop" /\ rule.action # "duplicate"
  BY <1>3, <1>4, <1>5, <1>8, OneIsFresh DEF rule
<1> QED BY <1>6, <1>7, <1>8

-----------------------------------------------------------------------------
(* The trace *)

\* The records of events in a trace
Events(t) == {r \in {t[i] : i \in DOMAIN t} : r.kind # "drop"}

Ordered(t) ==
    \A i, j \in DOMAIN t : i < j /\ t[i] \in Events(t) /\ t[j] \in Events(t) => Before(t[i], t[j])

\* A record that is written becomes the last of the trace.
LEMMA Recorded ==
    ASSUME NEW t \in Seq(Entries), NEW r \in Entries
    PROVE  /\ Append(t, r) \in Seq(Entries)
           /\ r.kind = "drop" => Events(Append(t, r)) = Events(t)
           /\ r.kind # "drop" => Events(Append(t, r)) = Events(t) \cup {r}
           /\ Ordered(t) /\ (r.kind # "drop" => \A q \in Events(t) : Before(q, r)) => Ordered(Append(t, r))
<1> DEFINE u == Append(t, r)
<1>1. /\ u \in Seq(Entries) /\ Len(u) = Len(t) + 1 /\ Len(t) \in Nat
      /\ \A i \in 1..Len(t) : u[i] = t[i]
      /\ u[Len(t) + 1] = r
  OBVIOUS
<1>2. DOMAIN t = 1..Len(t) /\ DOMAIN u = 1..(Len(t) + 1)
  BY <1>1
<1> HIDE DEF u
<1>3. {u[i] : i \in DOMAIN u} = {t[i] : i \in DOMAIN t} \cup {r}
  BY <1>1, <1>2
<1>4. r.kind = "drop" => Events(u) = Events(t)
  BY <1>3 DEF Events
<1>5. r.kind # "drop" => Events(u) = Events(t) \cup {r}
  BY <1>3 DEF Events
<1>6. ASSUME Ordered(t), r.kind # "drop" => \A q \in Events(t) : Before(q, r)
      PROVE  Ordered(u)
  <2> SUFFICES ASSUME NEW i \in DOMAIN u, NEW j \in DOMAIN u, i < j, u[i] \in Events(u), u[j] \in Events(u)
               PROVE  Before(u[i], u[j])
    BY DEF Ordered
  <2>1. i \in DOMAIN t /\ u[i] = t[i] /\ t[i] \in Events(t)
    BY <1>1, <1>2 DEF Events
  <2>2. CASE j \in DOMAIN t
    <3>1. u[j] = t[j] /\ t[j] \in Events(t)
      BY <1>1, <1>2, <2>2 DEF Events
    <3> QED BY <1>6, <2>1, <2>2, <3>1 DEF Ordered
  <2>3. CASE j = Len(t) + 1
    <3>1. u[j] = r /\ r.kind # "drop"
      BY <1>1, <2>3 DEF Events
    <3> QED BY <1>6, <2>1, <3>1
  <2> QED BY <1>1, <1>2, <2>2, <2>3
<1> QED BY <1>1, <1>4, <1>5, <1>6 DEF u

LEMMA ProcessedAreEvents ==
    /\ Processed = Events(trace)
    /\ EventsRunInOrder <=> Ordered(trace) /\ \A e \in queue : e.time >= time /\ \A r \in Processed : Before(r, e)
BY DEF Processed, Events, EventsRunInOrder, Ordered

LEMMA EventsAreEntries ==
    ASSUME TypeInv
    PROVE  /\ \A r \in Processed : r \in Entries /\ r.time \in Nat /\ r.sequence \in Int
           /\ \A e \in queue : e \in Deliveries /\ e.time \in Nat /\ e.sequence \in Nat /\ e.message \in Packets
<1>1. ASSUME NEW r \in Processed PROVE r \in Entries
  BY DEF TypeInv, Processed
<1>2. ASSUME NEW e \in queue PROVE e \in Deliveries
  BY DEF TypeInv
<1> QED BY <1>1, <1>2 DEF Entries, Deliveries

-----------------------------------------------------------------------------
(* The invariant *)

LEMMA Initially == SimulatorInit => IInv
<1> SUFFICES ASSUME SimulatorInit PROVE IInv
  OBVIOUS
<1>1. TypeInv
  BY SimulatorAssumption DEF SimulatorInit, TypeInv, Idle, Unset, Links
<1>2. Processed = {}
  BY DEF SimulatorInit, Processed
<1>3. NumberInv
  BY DEF SimulatorInit, NumberInv
<1>4. ClockInv
  BY <1>2 DEF SimulatorInit, ClockInv, Idle
<1>5. EventsRunInOrder
  BY DEF SimulatorInit, EventsRunInOrder
<1> QED BY <1>1, <1>3, <1>4, <1>5 DEF IInv

LEMMA SendStep ==
    ASSUME IInv, NEW l \in Sends, NEW delay \in Delays, Send(l, delay)
    PROVE  IInv'
<1> DEFINE message == [link |-> l, ordinal |-> ordinals[l] + 1]
           copies == IF l \in blocked THEN {} ELSE Copies(message, ActionFor(message), delay)
<1>1. /\ ordinals' = [ordinals EXCEPT ![l] = @ + 1]
      /\ queue' = queue \cup copies
      /\ sequence' = sequence + Cardinality(copies)
      /\ trace' = IF copies = {} THEN Record("drop", message, time, Unset) ELSE trace
      /\ plan' = plan /\ time' = time /\ alive' = alive /\ blocked' = blocked
      /\ linkDelay' = linkDelay /\ loop' = loop
  BY DEF Send, net
<1>2. TypeInv /\ NumberInv /\ ClockInv /\ EventsRunInOrder
  BY DEF IInv
<1>3. l \in Links /\ message \in Packets /\ delay \in Nat
  BY <1>2, SimulatorAssumption DEF TypeInv, Packets, Links
<1> HIDE DEF message
<1>4. Fresh(copies)
  BY <1>2, <1>3, CopiesAreFresh, NoneIsFresh
<1> HIDE DEF copies
<1>5. time \in Nat /\ sequence \in Nat /\ sequence' \in Nat /\ sequence <= sequence'
  BY <1>1, <1>2, <1>4 DEF TypeInv, Fresh
<1>6. trace' \in Seq(Entries) /\ Processed' = Processed /\ Ordered(trace)'
  <2>1. trace \in Seq(Entries) /\ Ordered(trace) /\ Processed = Events(trace)
    BY <1>2, ProcessedAreEvents DEF TypeInv
  <2>2. CASE trace' = trace
    BY <2>1, <2>2 DEF Processed, Ordered, Events, Before
  <2>3. CASE trace' = Record("drop", message, time, Unset)
    <3> DEFINE r == [kind |-> "drop", message |-> message, time |-> time, sequence |-> Unset]
    <3>1. r \in Entries /\ r.kind = "drop"
      BY <1>3, <1>5 DEF Entries, Unset
    <3>2. trace' = Append(trace, r)
      BY <2>3 DEF Record
    <3> HIDE DEF r
    <3>3. trace' \in Seq(Entries) /\ Events(trace') = Events(trace) /\ Ordered(trace')
      BY <2>1, <3>1, <3>2, Recorded
    <3>4. Processed' = Events(trace') /\ Ordered(trace)' = Ordered(trace')
      BY DEF Processed, Events, Ordered, Before
    <3> QED BY <2>1, <3>3, <3>4
  <2> QED BY <1>1, <2>2, <2>3
<1>7. /\ \A r \in Processed : r.time \in Nat /\ r.sequence \in Int
      /\ \A e \in queue : e.time \in Nat /\ e.sequence \in Nat
      /\ \A e \in copies : e.time \in Nat /\ e.sequence \in Nat
  BY <1>2, <1>4, EventsAreEntries DEF Fresh, Deliveries
<1>8. TypeInv'
  <2>1. queue' \in SUBSET Deliveries
    BY <1>1, <1>2, <1>4 DEF TypeInv, Fresh
  <2>2. ordinals' \in [Links -> Nat]
    BY <1>1, <1>2, <1>3 DEF TypeInv
  <2> QED BY <1>1, <1>2, <1>5, <1>6, <2>1, <2>2 DEF TypeInv
<1>9. NumberInv'
  <2>1. ASSUME NEW e \in queue' PROVE e.sequence <= sequence'
    BY <1>1, <1>2, <1>4, <1>5, <1>7 DEF NumberInv, Fresh
  <2>2. ASSUME NEW d \in queue', NEW e \in queue', d.sequence = e.sequence PROVE d = e
    <3>1. CASE d \in queue /\ e \in queue
      BY <1>2, <2>2, <3>1 DEF NumberInv
    <3>2. CASE d \in copies /\ e \in copies
      BY <1>4, <2>2, <3>2 DEF Fresh
    <3>3. ASSUME NEW f \in queue, NEW g \in copies PROVE f.sequence # g.sequence
      <4>1. f.sequence <= sequence /\ g.sequence > sequence
        BY <1>2, <1>4 DEF NumberInv, Fresh
      <4> QED BY <1>5, <1>7, <4>1
    <3> QED BY <1>1, <2>2, <3>1, <3>2, <3>3
  <2> QED BY <2>1, <2>2 DEF NumberInv
<1>10. ClockInv'
  <2>1. ASSUME NEW r \in Processed PROVE r.time <= time /\ r.sequence <= sequence'
    BY <1>2, <1>5, <1>7 DEF ClockInv
  <2> QED BY <1>1, <1>2, <1>6, <2>1 DEF ClockInv
<1>11. ASSUME NEW e \in queue' PROVE e.time >= time /\ \A r \in Processed : Before(r, e)
  <2>1. CASE e \in queue
    BY <1>2, <2>1 DEF EventsRunInOrder
  <2>2. CASE e \in copies
    <3>1. e.time >= time /\ e.sequence > sequence
      BY <1>4, <2>2 DEF Fresh
    <3>2. ASSUME NEW r \in Processed PROVE Before(r, e)
      <4>1. r.time <= time /\ r.sequence <= sequence
        BY <1>2 DEF ClockInv
      <4> QED BY <1>5, <1>7, <2>2, <3>1, <4>1 DEF Before
    <3> QED BY <3>1, <3>2
  <2> QED BY <1>1, <2>1, <2>2
<1>12. EventsRunInOrder'
  <2>1. EventsRunInOrder' <=> /\ Ordered(trace)'
                              /\ \A e \in queue' : e.time >= time' /\ \A r \in Processed' : Before(r, e)
    BY DEF Processed, Events, EventsRunInOrder, Ordered, Before
  <2> QED BY <1>1, <1>6, <1>11, <2>1
<1> QED BY <1>8, <1>9, <1>10, <1>12 DEF IInv

\* A step that leaves the queue, the clock, the counter and the trace alone
LEMMA QuietStep ==
    ASSUME IInv, TypeInv',
           queue' = queue, time' = time, sequence' = sequence, trace' = trace,
           loop'.kind = "until" => time <= loop'.deadline
    PROVE  IInv'
<1>1. Processed' = Processed
  BY DEF Processed
<1>2. NumberInv'
  BY DEF IInv, NumberInv
<1>3. ClockInv'
  BY <1>1 DEF IInv, ClockInv
<1>4. EventsRunInOrder'
  BY <1>1 DEF IInv, EventsRunInOrder, Before
<1> QED BY <1>2, <1>3, <1>4 DEF IInv

LEMMA FaultStep ==
    ASSUME IInv, Fault, alive' \in SUBSET Nodes, blocked' \in SUBSET Links, linkDelay' \in [Links -> Nat]
    PROVE  IInv'
<1>1. /\ queue' = queue /\ time' = time /\ sequence' = sequence /\ trace' = trace /\ loop' = loop
      /\ plan' = plan /\ ordinals' = ordinals
  BY DEF Fault
<1>2. TypeInv'
  BY <1>1 DEF IInv, TypeInv
<1>3. loop'.kind = "until" => time <= loop'.deadline
  BY <1>1 DEF IInv, ClockInv
<1> QED BY <1>1, <1>2, <1>3, QuietStep

LEMMA LoopStep ==
    ASSUME IInv,
           loop' \in [kind : {"idle", "run", "until"}, deadline : Int, left : Int],
           loop'.kind = "until" => time <= loop'.deadline,
           UNCHANGED <<plan, time, sequence, queue, net, ordinals, trace, faults>>
    PROVE  IInv'
<1>1. TypeInv'
  BY DEF IInv, TypeInv, net
<1> QED BY <1>1, QuietStep

LEMMA EventStep ==
    ASSUME IInv, Event
    PROVE  IInv'
<1> DEFINE e == Earliest
           kind == IF e.message.link[2] \in alive THEN "deliver" ELSE "discard"
           r == [kind |-> kind, message |-> e.message, time |-> e.time, sequence |-> e.sequence]
<1>1. TypeInv /\ NumberInv /\ ClockInv /\ EventsRunInOrder
  BY DEF IInv
<1>2. /\ queue # {} /\ queue' = queue \ {e} /\ time' = e.time
      /\ loop.kind = "until" => e.time <= loop.deadline
      /\ trace' = Append(trace, r)
      /\ loop' = IF loop.left > 0 THEN [loop EXCEPT !.left = @ - 1] ELSE loop
      /\ plan' = plan /\ sequence' = sequence /\ alive' = alive /\ blocked' = blocked /\ linkDelay' = linkDelay
      /\ ordinals' = ordinals
  BY DEF Event, Continues, Record, net
<1>3. e \in queue /\ \A d \in queue \ {e} : Before(e, d)
  BY <1>1, <1>2, EarliestIsFirst
<1> HIDE DEF e
<1>4. e \in Deliveries /\ e.time \in Nat /\ e.sequence \in Nat /\ e.message \in Packets
  BY <1>1, <1>3, EventsAreEntries
<1>5. r \in Entries /\ r.kind # "drop" /\ r.time = e.time /\ r.sequence = e.sequence
  BY <1>4 DEF Entries
<1> HIDE DEF r
<1>6. time <= e.time /\ time \in Nat /\ sequence \in Nat
  BY <1>1, <1>3 DEF EventsRunInOrder, TypeInv
<1>7. \A q \in Processed : Before(q, r)
  BY <1>1, <1>3, <1>5 DEF EventsRunInOrder, Before
<1>8. trace' \in Seq(Entries) /\ Processed' = Processed \cup {r} /\ Ordered(trace)'
  <2>1. trace \in Seq(Entries) /\ Ordered(trace) /\ Processed = Events(trace)
    BY <1>1, ProcessedAreEvents DEF TypeInv
  <2>2. trace' \in Seq(Entries) /\ Events(trace') = Events(trace) \cup {r} /\ Ordered(trace')
    BY <1>2, <1>5, <1>7, <2>1, Recorded
  <2>3. Processed' = Events(trace') /\ Ordered(trace)' = Ordered(trace')
    BY DEF Processed, Events, Ordered, Before
  <2> QED BY <2>1, <2>2, <2>3
<1>9. /\ loop' \in [kind : {"idle", "run", "until"}, deadline : Int, left : Int]
      /\ loop'.kind = loop.kind /\ loop'.deadline = loop.deadline
  <2>1. loop \in [kind : {"idle", "run", "until"}, deadline : Int, left : Int] /\ loop.left \in Int
    BY <1>1 DEF TypeInv
  <2>2. CASE loop.left > 0
    <3>1. loop' = [loop EXCEPT !.left = loop.left - 1] /\ loop.left - 1 \in Int
      BY <1>2, <2>1, <2>2
    <3> QED BY <2>1, <3>1
  <2>3. CASE ~ (loop.left > 0)
    BY <1>2, <2>1, <2>3
  <2> QED BY <2>2, <2>3
<1>10. TypeInv'
  <2>1. queue' \in SUBSET Deliveries
    BY <1>1, <1>2 DEF TypeInv
  <2> QED BY <1>1, <1>2, <1>4, <1>8, <1>9, <2>1 DEF TypeInv
<1>11. NumberInv'
  BY <1>1, <1>2 DEF NumberInv
<1>12. ClockInv'
  <2>1. ASSUME NEW q \in Processed' PROVE q.time <= e.time /\ q.sequence <= sequence
    <3>1. CASE q = r
      <4>1. e.sequence <= sequence
        BY <1>1, <1>3 DEF NumberInv
      <4> QED BY <1>4, <1>5, <3>1, <4>1
    <3>2. CASE q \in Processed
      <4>1. q.time \in Nat /\ q.time <= time /\ q.sequence <= sequence
        BY <1>1, <3>2, EventsAreEntries DEF ClockInv
      <4> QED BY <1>4, <1>6, <4>1
    <3> QED BY <1>8, <3>1, <3>2
  <2>2. loop'.kind = "until" => e.time <= loop'.deadline
    BY <1>2, <1>9
  <2> QED BY <1>2, <2>1, <2>2 DEF ClockInv
<1>13. ASSUME NEW d \in queue' PROVE d.time >= e.time /\ \A q \in Processed' : Before(q, d)
  <2>1. d \in queue /\ Before(e, d) /\ d.time \in Nat
    BY <1>1, <1>2, <1>3, EventsAreEntries
  <2>2. d.time >= e.time
    BY <1>4, <2>1 DEF Before
  <2>3. ASSUME NEW q \in Processed' PROVE Before(q, d)
    <3>1. CASE q = r
      BY <1>5, <2>1, <3>1 DEF Before
    <3>2. CASE q \in Processed
      BY <1>1, <2>1, <3>2 DEF EventsRunInOrder
    <3> QED BY <1>8, <3>1, <3>2
  <2> QED BY <2>2, <2>3
<1>14. EventsRunInOrder'
  <2>1. EventsRunInOrder' <=> /\ Ordered(trace)'
                              /\ \A d \in queue' : d.time >= time' /\ \A q \in Processed' : Before(q, d)
    BY DEF Processed, Events, EventsRunInOrder, Ordered, Before
  <2> QED BY <1>2, <1>8, <1>13, <2>1
<1> QED BY <1>10, <1>11, <1>12, <1>14 DEF IInv

\* The window closes at its deadline, and nothing that remains is due before it.
LEMMA WindowStep ==
    ASSUME IInv, RunUntilTimeEnd
    PROVE  IInv'
<1>1. TypeInv /\ NumberInv /\ ClockInv /\ EventsRunInOrder
  BY DEF IInv
<1>2. /\ time' = loop.deadline /\ loop' = Idle /\ loop.kind = "until"
      /\ queue' = queue /\ sequence' = sequence /\ trace' = trace /\ plan' = plan /\ ordinals' = ordinals
      /\ alive' = alive /\ blocked' = blocked /\ linkDelay' = linkDelay
      /\ queue = {} \/ ~ (Earliest.time <= loop.deadline)
  BY DEF RunUntilTimeEnd, Continues, net
<1>3. time \in Nat /\ loop.deadline \in Nat /\ time <= loop.deadline
  BY <1>1, <1>2 DEF TypeInv, ClockInv
<1>4. Processed' = Processed
  BY <1>2 DEF Processed
<1>5. \A e \in queue : e.time >= loop.deadline
  <2> SUFFICES ASSUME NEW e \in queue PROVE e.time >= loop.deadline
    OBVIOUS
  <2>1. Earliest \in queue /\ (e # Earliest => Before(Earliest, e))
    BY <1>1, EarliestIsFirst
  <2> DEFINE first == Earliest
  <2>2. first.time \in Nat /\ e.time \in Nat
    BY <1>1, <2>1, EventsAreEntries
  <2>3. ~ (first.time <= loop.deadline)
    BY <1>2
  <2>4. first \in queue /\ (e # first => Before(first, e))
    BY <2>1
  <2> HIDE DEF first
  <2>5. first.time <= e.time
    BY <2>2, <2>4 DEF Before
  <2> QED BY <1>3, <2>2, <2>3, <2>5
<1>6. TypeInv'
  BY <1>1, <1>2, <1>3 DEF TypeInv, Idle, Unset
<1>7. NumberInv'
  BY <1>1, <1>2 DEF NumberInv
<1>8. ClockInv'
  <2>1. \A r \in Processed : r.time <= loop.deadline /\ r.sequence <= sequence
    <3> SUFFICES ASSUME NEW r \in Processed PROVE r.time <= loop.deadline /\ r.sequence <= sequence
      OBVIOUS
    <3>1. r.time \in Nat /\ r.time <= time /\ r.sequence <= sequence
      BY <1>1, EventsAreEntries DEF ClockInv
    <3> QED BY <1>3, <3>1
  <2>2. loop'.kind # "until"
    BY <1>2 DEF Idle
  <2> QED BY <1>2, <1>4, <2>1, <2>2 DEF ClockInv
<1>9. EventsRunInOrder'
  <2>1. /\ Ordered(trace)
        /\ EventsRunInOrder' <=> /\ Ordered(trace)'
                                 /\ \A e \in queue' : e.time >= time' /\ \A r \in Processed' : Before(r, e)
    BY <1>1 DEF Processed, Events, EventsRunInOrder, Ordered, Before
  <2>2. Ordered(trace)'
    BY <1>2, <2>1 DEF Ordered, Events, Before
  <2>3. \A e \in queue : \A r \in Processed : Before(r, e)
    BY <1>1 DEF EventsRunInOrder
  <2> QED BY <1>2, <1>4, <1>5, <2>1, <2>2, <2>3
<1> QED BY <1>6, <1>7, <1>8, <1>9 DEF IInv

LEMMA Step == IInv /\ [SimulatorNext]_simulatorVars => IInv'
<1> SUFFICES ASSUME IInv, [SimulatorNext]_simulatorVars PROVE IInv'
  OBVIOUS
<1>1. TypeInv /\ ClockInv
  BY DEF IInv
<1>2. CASE \E l \in Sends, d \in Delays : Send(l, d)
  BY <1>2, SendStep
<1>3. ASSUME NEW n \in Nodes, CrashNode(n) \/ RestartNode(n) PROVE IInv'
  BY <1>1, <1>3, FaultStep DEF CrashNode, RestartNode, TypeInv
<1>4. ASSUME NEW g \in Groups, Partition(g) \/ HealPartition(g) PROVE IInv'
  <2>1. Between(g[1], g[2]) \in SUBSET Links
    BY DEF Groups, Between, Links
  <2> QED BY <1>1, <1>4, <2>1, FaultStep DEF Partition, HealPartition, TypeInv
<1>5. ASSUME NEW l \in Directed, BlockLink(l) \/ HealLink(l) \/ ClearLinkDelay(l) PROVE IInv'
  BY <1>1, <1>5, FaultStep DEF BlockLink, HealLink, ClearLinkDelay, Directed, TypeInv
<1>6. ASSUME NEW l \in Directed, NEW extra \in LinkDelays, SetLinkDelay(l, extra) PROVE IInv'
  BY <1>1, <1>6, FaultStep, SimulatorAssumption DEF SetLinkDelay, Directed, TypeInv
<1>7. ASSUME NEW max \in {Unset, 1}, RunBegin(max) PROVE IInv'
  BY <1>7, LoopStep DEF RunBegin, Unset
<1>8. ASSUME NEW deadline \in 0..MaxTime, RunUntilTimeBegin(deadline) PROVE IInv'
  <2>1. deadline \in Int /\ time \in Nat /\ deadline >= time
    BY <1>1, <1>8 DEF RunUntilTimeBegin, TypeInv
  <2> QED BY <1>8, <2>1, LoopStep DEF RunUntilTimeBegin, Unset
<1>9. CASE Event
  BY <1>9, EventStep
<1>10. CASE RunEnd
  BY <1>10, LoopStep DEF RunEnd, Idle, Unset
<1>11. CASE RunUntilTimeEnd
  BY <1>11, WindowStep
<1>12. CASE UNCHANGED simulatorVars
  BY <1>1, <1>12, LoopStep DEF simulatorVars, net, TypeInv, ClockInv
<1> QED BY <1>2, <1>3, <1>4, <1>5, <1>6, <1>7, <1>8, <1>9, <1>10, <1>11, <1>12 DEF SimulatorNext

-----------------------------------------------------------------------------
(* Theorems *)

\* Queue, clock and trace stay consistent: what is queued is numbered apart and never overdue, and an open window ends
\* no earlier than the clock.
THEOREM Consistent == SimulatorSpec => []IInv
BY Initially, Step, PTL DEF SimulatorSpec

\* Events run in the order of time and sequence over the whole history, whatever handlers send and wherever the two
\* loops stop, and nothing still queued belongs before an event that has run: the promise of the heap in Simulator.
THEOREM OrderedEvents == SimulatorSpec => []EventsRunInOrder
<1>1. IInv => EventsRunInOrder
  BY DEF IInv
<1> QED BY <1>1, Consistent, PTL

-----------------------------------------------------------------------------
(* The minimizers *)

Indexes == 1..Workload
Cards == [Indexes -> Nat] \cup {<<>>}

\* No entry of schedule d can be left out of what remains.
Minimal(d) == \A e \in left[d] : Remaining \ {e} \notin failing

ReductionInv ==
    /\ left \in [Indexes -> SUBSET Nat] /\ \A d \in Indexes : left[d] \subseteq Schedule[d]
    /\ pass \in -1..Workload /\ tried \in Nat
    /\ combinedSizes \in Cards /\ jointSizes \in Cards

\* What the scan of this pass has tried since its last deletion cannot be left out.
ScanInv == pass > 0 => \A e \in left[pass] : e <= tried => Remaining \ {e} \notin failing

\* In a round that has deleted nothing so far, the schedules it is done with are minimal.
CombinedInv ==
    pass \in 1..Workload - 1 =>
        /\ combinedSizes # <<>> /\ jointSizes # <<>>
        /\ \A d \in Indexes : Cardinality(left[d]) <= combinedSizes[d]
        /\ (\A d \in Indexes : Cardinality(left[d]) = combinedSizes[d])
              => \A d \in 1..pass - 1 : Minimal(d)

\* The same of the joint minimizer, whose last pass is over the workload.
JointInv ==
    pass > 0 /\ jointSizes # <<>> =>
        /\ \A d \in Indexes : Cardinality(left[d]) <= jointSizes[d]
        /\ pass = Workload /\ Cardinality(left[Workload]) = jointSizes[Workload]
              => \A d \in 1..Workload - 1 : Minimal(d)

MinimizerInv == ReductionInv /\ Remaining \in failing /\ ScanInv /\ CombinedInv /\ JointInv /\ OneMinimal

\* The schedules are finite sets of positive numbers.
LEMMA ScheduleFacts ==
    /\ Workload \in Nat /\ Workload > 1 /\ Workload \in Indexes
    /\ Schedule \in [Indexes -> SUBSET (Nat \ {0})]
    /\ \A d \in Indexes : IsFiniteSet(Schedule[d]) /\ Cardinality(Schedule[d]) \in Nat
    /\ \A c, d \in Indexes : c # d => Schedule[c] \cap Schedule[d] = {}
<1>1. Workload \in Nat /\ Workload > 1
  BY ScheduleAssumption DEF Workload
<1>2. Schedule \in [Indexes -> SUBSET (Nat \ {0})]
  BY ScheduleAssumption DEF Indexes, Workload
<1>3. \A d \in Indexes : IsFiniteSet(Schedule[d]) /\ Cardinality(Schedule[d]) \in Nat
  BY ScheduleAssumption, FS_CardinalityType DEF Indexes
<1> QED BY <1>1, <1>2, <1>3, ScheduleAssumption DEF Indexes

LEMMA CardsAreNumbers ==
    ASSUME NEW sizes \in Cards, sizes # <<>>
    PROVE  \A d \in Indexes : sizes[d] \in Nat
<1>1. sizes \in [Indexes -> Nat]
  BY DEF Cards
<1> QED BY <1>1

\* What is left of a schedule has a size, and loses one with an entry.
LEMMA LeftIsFinite ==
    ASSUME ReductionInv, NEW d \in Indexes
    PROVE  /\ Cardinality(left[d]) \in Nat
           /\ \A e \in left[d] : Cardinality(left[d] \ {e}) = Cardinality(left[d]) - 1
<1>1. IsFiniteSet(left[d])
  BY ScheduleFacts, FS_Subset DEF ReductionInv
<1> QED BY <1>1, FS_CardinalityType, FS_RemoveElement

LEMMA LeftStaysFinite ==
    ASSUME NEW d \in Indexes, ReductionInv'
    PROVE  Cardinality(left'[d]) \in Nat
<1>1. IsFiniteSet(left'[d])
  BY ScheduleFacts, FS_Subset DEF ReductionInv
<1> QED BY <1>1, FS_CardinalityType

\* Deleting an entry of one schedule takes nothing from the others.
LEMMA DeletionEffect ==
    ASSUME ReductionInv, NEW d \in Indexes, NEW e \in left[d],
           left' = [left EXCEPT ![d] = @ \ {e}]
    PROVE  /\ left'[d] = left[d] \ {e} /\ \A c \in Indexes \ {d} : left'[c] = left[c]
           /\ Remaining' = Remaining \ {e}
<1>1. left'[d] = left[d] \ {e} /\ \A c \in Indexes \ {d} : left'[c] = left[c]
  BY DEF ReductionInv
<1>2. \A c \in Indexes \ {d} : e \notin left[c]
  BY ScheduleFacts DEF ReductionInv
<1>3. \A x : x \in Remaining' <=> x \in Remaining /\ x # e
  BY <1>1, <1>2 DEF Remaining, Indexes
<1> QED BY <1>1, <1>3

LEMMA DeleteStep ==
    ASSUME MinimizerInv, NEW e \in All, Delete(e)
    PROVE  MinimizerInv'
<1> DEFINE d == pass
<1>1. /\ d \in Indexes /\ e \in left[d] /\ left' = [left EXCEPT ![d] = @ \ {e}]
      /\ tried' = 0 /\ pass' = pass /\ failing' = failing
      /\ combinedSizes' = combinedSizes /\ jointSizes' = jointSizes
  BY ScheduleFacts DEF MinimizerInv, ReductionInv, Delete, IsCandidate, Untried, Indexes
<1>2. /\ left'[d] = left[d] \ {e} /\ \A c \in Indexes \ {d} : left'[c] = left[c]
      /\ Remaining' = Remaining \ {e}
  BY <1>1, DeletionEffect DEF MinimizerInv
<1>3. /\ \A c \in Indexes : Cardinality(left[c]) \in Nat
      /\ Cardinality(left'[d]) = Cardinality(left[d]) - 1
  BY <1>1, <1>2, LeftIsFinite DEF MinimizerInv
<1>4. /\ \A c \in Indexes : Cardinality(left'[c]) <= Cardinality(left[c])
      /\ \A c \in Indexes : Cardinality(left'[c]) \in Nat
      /\ Cardinality(left'[d]) < Cardinality(left[d])
  <2>1. Cardinality(left'[d]) \in Nat
    <3>1. ReductionInv'
      BY <1>1, <1>2 DEF MinimizerInv, ReductionInv
    <3> QED BY <1>1, <3>1, LeftStaysFinite
  <2>2. Cardinality(left'[d]) < Cardinality(left[d])
    BY <1>1, <1>3
  <2>3. ASSUME NEW c \in Indexes
        PROVE  Cardinality(left'[c]) <= Cardinality(left[c]) /\ Cardinality(left'[c]) \in Nat
    <3>1. CASE c = d
      BY <1>3, <2>1, <2>2, <3>1
    <3>2. CASE c # d
      <4>1. left'[c] = left[c]
        BY <1>2, <3>2
      <4> QED BY <1>3, <4>1
    <3> QED BY <3>1, <3>2
  <2> QED BY <2>2, <2>3
<1>5. ReductionInv'
  BY <1>1, <1>2 DEF MinimizerInv, ReductionInv
<1>6. (Remaining \in failing)'
  BY <1>1, <1>2 DEF Delete
<1>7. ScanInv'
  <2>1. \A x \in left'[d] : x \in Nat \ {0}
    BY <1>1, <1>2, ScheduleFacts DEF MinimizerInv, ReductionInv
  <2> QED BY <1>1, <2>1 DEF ScanInv
<1>8. CombinedInv'
  <2> SUFFICES ASSUME d \in 1..Workload - 1
               PROVE  /\ combinedSizes # <<>> /\ jointSizes # <<>>
                      /\ \A c \in Indexes : Cardinality(left'[c]) <= combinedSizes[c]
                      /\ Cardinality(left'[d]) # combinedSizes[d]
    BY <1>1 DEF CombinedInv
  <2>1. /\ combinedSizes # <<>> /\ jointSizes # <<>>
        /\ \A c \in Indexes : Cardinality(left[c]) <= combinedSizes[c]
    BY DEF MinimizerInv, CombinedInv
  <2>2. \A c \in Indexes : combinedSizes[c] \in Nat
    BY <2>1, CardsAreNumbers DEF MinimizerInv, ReductionInv
  <2>3. \A c \in Indexes : Cardinality(left'[c]) <= combinedSizes[c]
    BY <1>3, <1>4, <2>1, <2>2
  <2>4. Cardinality(left'[d]) # combinedSizes[d]
    BY <1>1, <1>3, <1>4, <2>1, <2>2
  <2> QED BY <2>1, <2>3, <2>4
<1>9. JointInv'
  <2> SUFFICES ASSUME jointSizes # <<>>
               PROVE  /\ \A c \in Indexes : Cardinality(left'[c]) <= jointSizes[c]
                      /\ d = Workload => Cardinality(left'[Workload]) # jointSizes[Workload]
    BY <1>1 DEF JointInv
  <2>1. \A c \in Indexes : Cardinality(left[c]) <= jointSizes[c]
    BY <1>1 DEF MinimizerInv, JointInv, Indexes
  <2>2. \A c \in Indexes : jointSizes[c] \in Nat
    BY CardsAreNumbers DEF MinimizerInv, ReductionInv
  <2>3. \A c \in Indexes : Cardinality(left'[c]) <= jointSizes[c]
    BY <1>3, <1>4, <2>1, <2>2
  <2>4. Cardinality(left'[d]) # jointSizes[d]
    BY <1>1, <1>3, <1>4, <2>1, <2>2
  <2> QED BY <2>3, <2>4
<1>10. OneMinimal'
  BY <1>1 DEF OneMinimal, Indexes
<1> QED BY <1>5, <1>6, <1>7, <1>8, <1>9, <1>10 DEF MinimizerInv

LEMMA KeepStep ==
    ASSUME MinimizerInv, NEW e \in All, Keep(e)
    PROVE  MinimizerInv'
<1>1. /\ pass > 0 /\ e \in left[pass] /\ tried' = e /\ UNCHANGED <<failing, left, pass, combinedSizes, jointSizes>>
      /\ Remaining \ {e} \notin failing
      /\ \A f \in left[pass] : f > tried => e <= f
  BY DEF Keep, IsCandidate, Untried
<1>2. pass \in Indexes /\ left[pass] \in SUBSET Nat /\ Remaining' = Remaining
  BY <1>1, ScheduleFacts DEF MinimizerInv, ReductionInv, Indexes, Remaining
<1>3. ReductionInv'
  BY <1>1, <1>2 DEF MinimizerInv, ReductionInv
<1>4. ScanInv'
  <2> SUFFICES ASSUME NEW f \in left[pass], f <= e
               PROVE  Remaining \ {f} \notin failing
    BY <1>1, <1>2 DEF ScanInv
  <2>1. CASE f <= tried
    BY <1>1, <2>1 DEF MinimizerInv, ScanInv
  <2>2. CASE ~ (f <= tried)
    <3>1. f = e
      BY <1>1, <1>2, <2>2 DEF MinimizerInv, ReductionInv
    <3> QED BY <1>1, <3>1
  <2> QED BY <2>1, <2>2
<1>5. CombinedInv' /\ JointInv'
  BY <1>1, <1>2 DEF MinimizerInv, CombinedInv, JointInv, Minimal
<1>6. OneMinimal'
  BY <1>1 DEF OneMinimal
<1> QED BY <1>1, <1>2, <1>3, <1>4, <1>5, <1>6 DEF MinimizerInv

LEMMA RaiseStep ==
    ASSUME MinimizerInv, NEW e \in All, Raise(e)
    PROVE  MinimizerInv'
<1>1. pass' = -1 /\ UNCHANGED <<failing, left, tried, combinedSizes, jointSizes>> /\ Remaining' = Remaining
  BY DEF Raise, Remaining
<1>2. ReductionInv'
  BY <1>1, ScheduleFacts DEF MinimizerInv, ReductionInv
<1>3. ScanInv' /\ JointInv' /\ OneMinimal' /\ CombinedInv'
  BY <1>1, ScheduleFacts DEF ScanInv, JointInv, CombinedInv, OneMinimal
<1> QED BY <1>1, <1>2, <1>3 DEF MinimizerInv

\* A pass that is over has tried every entry.
LEMMA ScheduleIsMinimal ==
    ASSUME MinimizerInv, PassIsOver
    PROVE  pass \in Indexes /\ Minimal(pass)
<1>1. pass \in Indexes
  BY ScheduleFacts DEF MinimizerInv, ReductionInv, PassIsOver, Indexes
<1>2. tried \in Nat /\ left[pass] \in SUBSET Nat
  BY <1>1 DEF MinimizerInv, ReductionInv
<1>3. \A e \in left[pass] : e <= tried
  BY <1>2 DEF PassIsOver, Untried
<1> QED BY <1>1, <1>3 DEF MinimizerInv, ScanInv, PassIsOver, Minimal

\* A pass begins: nothing is tried yet, and what is left has not changed.
LEMMA BeginStep ==
    ASSUME MinimizerInv, NEW d \in Indexes, BeginPass(d), UNCHANGED <<failing, left>>,
           combinedSizes' \in Cards, jointSizes' \in Cards
    PROVE  /\ (ReductionInv /\ Remaining \in failing /\ ScanInv /\ OneMinimal)'
           /\ Remaining' = Remaining /\ pass' = d
           /\ \A c \in Indexes : Minimal(c)' <=> Minimal(c)
<1>1. pass' = d /\ tried' = 0 /\ Remaining' = Remaining
  BY DEF BeginPass, Remaining
<1>2. ReductionInv'
  BY <1>1, ScheduleFacts DEF MinimizerInv, ReductionInv, Indexes
<1>3. ScanInv'
  <2>1. \A e \in left[d] : e \in Nat \ {0}
    BY ScheduleFacts DEF MinimizerInv, ReductionInv
  <2> QED BY <1>1, <2>1 DEF ScanInv
<1>4. OneMinimal'
  BY <1>1 DEF OneMinimal, Indexes
<1>5. \A c \in Indexes : Minimal(c)' <=> Minimal(c)
  BY <1>1 DEF Minimal
<1> QED BY <1>1, <1>2, <1>3, <1>4, <1>5 DEF MinimizerInv

LEMMA SizesAreCards ==
    ASSUME MinimizerInv
    PROVE  Sizes \in Cards /\ Sizes # <<>>
<1>1. \A d \in Indexes : Cardinality(left[d]) \in Nat
  BY LeftIsFinite DEF MinimizerInv
<1>2. Sizes \in [Indexes -> Nat]
  BY <1>1 DEF Sizes, Indexes
<1>3. DOMAIN Sizes # {}
  BY ScheduleFacts DEF Sizes, Indexes
<1>4. DOMAIN <<>> = {}
  OBVIOUS
<1> QED BY <1>2, <1>3, <1>4 DEF Cards, Sizes, Indexes

LEMMA NextScheduleStep ==
    ASSUME MinimizerInv, NextSchedule
    PROVE  MinimizerInv'
<1>1. /\ PassIsOver /\ pass < Workload - 1 /\ BeginPass(pass + 1)
      /\ UNCHANGED <<failing, left, combinedSizes, jointSizes>>
  BY DEF NextSchedule
<1>2. pass \in Indexes /\ Minimal(pass)
  BY <1>1, ScheduleIsMinimal
<1>3. pass + 1 \in Indexes /\ pass + 1 \in 1..Workload - 1 /\ pass \in 1..Workload - 1
  BY <1>1, <1>2, ScheduleFacts DEF Indexes
<1>4. /\ (ReductionInv /\ Remaining \in failing /\ ScanInv /\ OneMinimal)'
      /\ pass' = pass + 1
      /\ \A c \in Indexes : Minimal(c)' <=> Minimal(c)
  BY <1>1, <1>3, BeginStep DEF MinimizerInv, ReductionInv
<1>5. CombinedInv'
  <2>1. /\ combinedSizes # <<>> /\ jointSizes # <<>>
        /\ \A d \in Indexes : Cardinality(left[d]) <= combinedSizes[d]
        /\ (\A d \in Indexes : Cardinality(left[d]) = combinedSizes[d])
              => \A d \in 1..pass - 1 : Minimal(d)
    BY <1>3 DEF MinimizerInv, CombinedInv
  <2>2. \A d \in 1..(pass + 1) - 1 : d \in Indexes /\ (d = pass \/ d \in 1..pass - 1)
    BY <1>3, ScheduleFacts DEF Indexes
  <2>3. (\A d \in Indexes : Cardinality(left[d]) = combinedSizes[d])
              => \A d \in 1..(pass + 1) - 1 : Minimal(d)'
    BY <1>2, <1>4, <2>1, <2>2
  <2> QED BY <1>1, <1>4, <2>1, <2>3 DEF CombinedInv
<1>6. JointInv'
  <2>1. pass + 1 # Workload /\ pass > 0
    BY <1>3, ScheduleFacts
  <2>2. jointSizes # <<>> => \A d \in Indexes : Cardinality(left[d]) <= jointSizes[d]
    BY <2>1 DEF MinimizerInv, JointInv
  <2> QED BY <1>1, <1>4, <2>1, <2>2 DEF JointInv
<1> QED BY <1>4, <1>5, <1>6 DEF MinimizerInv

\* A round begins: its sizes are those of what is left.
LEMMA RoundBegins ==
    ASSUME MinimizerInv, BeginPass(1), UNCHANGED <<failing, left>>, combinedSizes' = Sizes,
           jointSizes' \in Cards, jointSizes' # <<>>,
           \A d \in Indexes : Cardinality(left[d]) <= jointSizes'[d]
    PROVE  MinimizerInv'
<1>1. 1 \in Indexes /\ Workload # 1
  BY ScheduleFacts DEF Indexes
<1>2. Sizes \in Cards /\ Sizes # <<>>
  BY SizesAreCards
<1>3. (ReductionInv /\ Remaining \in failing /\ ScanInv /\ OneMinimal)' /\ pass' = 1
  BY <1>1, <1>2, BeginStep
<1>4. CombinedInv'
  <2>1. \A d \in Indexes : Sizes[d] = Cardinality(left[d]) /\ Cardinality(left[d]) \in Nat
    BY LeftIsFinite DEF MinimizerInv, Sizes, Indexes
  <2>2. \A d \in Indexes : Cardinality(left'[d]) <= combinedSizes'[d]
    BY <2>1
  <2>3. \A d \in 1..1 - 1 : FALSE
    OBVIOUS
  <2> QED BY <1>2, <1>3, <2>2, <2>3 DEF CombinedInv
<1>5. JointInv'
  BY <1>1, <1>3 DEF JointInv
<1> QED BY <1>3, <1>4, <1>5 DEF MinimizerInv

LEMMA NextCombinedRoundStep ==
    ASSUME MinimizerInv, NextCombinedRound
    PROVE  MinimizerInv'
<1>1. /\ pass > 0 /\ pass = Workload - 1 /\ BeginPass(1)
      /\ combinedSizes' = Sizes /\ UNCHANGED <<failing, left, jointSizes>>
  BY DEF NextCombinedRound, PassIsOver
<1>2. pass \in 1..Workload - 1
  BY <1>1, ScheduleFacts
<1>3. jointSizes \in Cards /\ jointSizes # <<>> /\ \A d \in Indexes : Cardinality(left[d]) <= jointSizes[d]
  BY <1>1, <1>2 DEF MinimizerInv, ReductionInv, CombinedInv, JointInv
<1> QED BY <1>1, <1>3, RoundBegins

LEMMA NextJointRoundStep ==
    ASSUME MinimizerInv, NextJointRound
    PROVE  MinimizerInv'
<1>1. /\ BeginPass(1) /\ combinedSizes' = Sizes /\ jointSizes' = Sizes /\ UNCHANGED <<failing, left>>
  BY DEF NextJointRound
<1>2. Sizes \in Cards /\ Sizes # <<>>
  BY SizesAreCards
<1>3. \A d \in Indexes : Cardinality(left[d]) <= Sizes[d]
  BY LeftIsFinite DEF MinimizerInv, Sizes, Indexes
<1> QED BY <1>1, <1>2, <1>3, RoundBegins

\* The combined minimizer returns after a round that has deleted nothing.
LEMMA ReduceWorkloadStep ==
    ASSUME MinimizerInv, ReduceWorkload
    PROVE  MinimizerInv'
<1>1. /\ PassIsOver /\ pass = Workload - 1 /\ Sizes = combinedSizes /\ BeginPass(Workload)
      /\ UNCHANGED <<failing, left, combinedSizes, jointSizes>>
  BY DEF ReduceWorkload
<1>2. pass \in Indexes /\ Minimal(pass)
  BY <1>1, ScheduleIsMinimal
<1>3. pass \in 1..Workload - 1 /\ Workload \in Indexes
  BY <1>1, <1>2, ScheduleFacts DEF Indexes
<1>4. /\ (ReductionInv /\ Remaining \in failing /\ ScanInv /\ OneMinimal)'
      /\ pass' = Workload
      /\ \A c \in Indexes : Minimal(c)' <=> Minimal(c)
  BY <1>1, <1>3, BeginStep DEF MinimizerInv, ReductionInv
<1>5. \A d \in 1..Workload - 1 : d \in Indexes /\ Minimal(d)
  <2>1. \A d \in Indexes : Cardinality(left[d]) = combinedSizes[d]
    BY <1>1 DEF Sizes, Indexes
  <2>2. \A d \in 1..pass - 1 : Minimal(d)
    BY <1>3, <2>1 DEF MinimizerInv, CombinedInv
  <2>3. \A d \in 1..Workload - 1 : d \in Indexes /\ (d = pass \/ d \in 1..pass - 1)
    BY <1>1, <1>3, ScheduleFacts DEF Indexes
  <2> QED BY <1>2, <2>2, <2>3
<1>6. CombinedInv'
  BY <1>4, <1>3, ScheduleFacts DEF CombinedInv
<1>7. JointInv'
  <2>1. jointSizes # <<>> => \A d \in Indexes : Cardinality(left[d]) <= jointSizes[d]
    BY <1>3 DEF MinimizerInv, JointInv
  <2>2. \A d \in 1..Workload - 1 : Minimal(d)'
    BY <1>4, <1>5
  <2> QED BY <1>1, <1>4, <2>1, <2>2 DEF JointInv
<1> QED BY <1>4, <1>6, <1>7 DEF MinimizerInv

\* The sizes of the round are those of its end: its passes over the other schedules still count.
LEMMA ReturnStep ==
    ASSUME MinimizerInv, Return
    PROVE  MinimizerInv'
<1>1. /\ PassIsOver /\ pass = Workload /\ pass' = 0 /\ jointSizes \in {<<>>, Sizes}
      /\ UNCHANGED <<failing, left, tried, combinedSizes, jointSizes>>
  BY DEF Return
<1>2. pass \in Indexes /\ Minimal(pass)
  BY <1>1, ScheduleIsMinimal
<1>3. jointSizes # <<>> => \A d \in 1..Workload - 1 : Minimal(d)
  <2> SUFFICES ASSUME jointSizes # <<>> PROVE \A d \in 1..Workload - 1 : Minimal(d)
    OBVIOUS
  <2>1. Cardinality(left[Workload]) = jointSizes[Workload]
    BY <1>1, ScheduleFacts DEF Sizes, Indexes
  <2> QED BY <1>1, <2>1, ScheduleFacts DEF MinimizerInv, JointInv
<1>4. jointSizes # <<>> => \A e \in Remaining : Remaining \ {e} \notin failing
  <2>1. \A d \in Indexes : d = Workload \/ d \in 1..Workload - 1
    BY ScheduleFacts DEF Indexes
  <2>2. jointSizes # <<>> => \A d \in Indexes : Minimal(d)
    BY <1>1, <1>2, <1>3, <2>1
  <2> QED BY <2>2 DEF Remaining, Minimal, Indexes
<1>5. \A e \in left[Workload] : Remaining \ {e} \notin failing
  BY <1>1, <1>2 DEF Minimal
<1>6. Remaining' = Remaining /\ Reduced' = Reduced
  BY <1>1 DEF Remaining, Reduced
<1>7. OneMinimal'
  BY <1>1, <1>4, <1>5, <1>6 DEF OneMinimal, Reduced, MinimizerInv
<1>8. ReductionInv'
  BY <1>1, ScheduleFacts DEF MinimizerInv, ReductionInv
<1>9. ScanInv' /\ CombinedInv' /\ JointInv'
  BY <1>1, ScheduleFacts DEF ScanInv, CombinedInv, JointInv
<1> QED BY <1>1, <1>6, <1>7, <1>8, <1>9 DEF MinimizerInv

LEMMA MinimizerInitially == MinimizerInit => MinimizerInv
<1> SUFFICES ASSUME MinimizerInit PROVE MinimizerInv
  OBVIOUS
<1>1. /\ left = Schedule /\ tried = 0 /\ All \in failing
      /\ \/ pass = 1 /\ combinedSizes = Sizes /\ jointSizes = Sizes
         \/ pass = Workload /\ combinedSizes = <<>> /\ jointSizes = <<>>
  BY DEF MinimizerInit
<1>2. Remaining = All
  BY <1>1 DEF Remaining, All
<1>3. \A d \in Indexes : Cardinality(left[d]) \in Nat /\ Sizes[d] = Cardinality(left[d])
  BY <1>1, ScheduleFacts DEF Sizes, Indexes
<1>4. Sizes \in Cards /\ <<>> \in Cards
  BY <1>3 DEF Cards, Sizes, Indexes
<1>5. Sizes # <<>>
  <2>1. DOMAIN Sizes # {}
    BY ScheduleFacts DEF Sizes, Indexes
  <2> QED BY <2>1
<1>6. ReductionInv
  BY <1>1, <1>4, ScheduleFacts DEF ReductionInv
<1>7. ScanInv
  <2>1. \A d \in Indexes : \A e \in left[d] : e \in Nat \ {0}
    BY <1>1, ScheduleFacts
  <2>2. pass \in Indexes
    BY <1>1, ScheduleFacts DEF Indexes
  <2> QED BY <1>1, <2>1, <2>2 DEF ScanInv
<1>8. CombinedInv
  <2> SUFFICES ASSUME pass \in 1..Workload - 1 PROVE CombinedInv
    BY DEF CombinedInv
  <2>1. pass = 1 /\ combinedSizes = Sizes /\ jointSizes = Sizes
    BY <1>1, ScheduleFacts
  <2> QED BY <1>3, <1>5, <2>1 DEF CombinedInv
<1>9. JointInv
  <2> SUFFICES ASSUME jointSizes # <<>> PROVE JointInv
    BY DEF JointInv
  <2>1. pass = 1 /\ jointSizes = Sizes /\ Workload # 1
    BY <1>1, ScheduleFacts
  <2> QED BY <1>3, <2>1 DEF JointInv
<1>10. OneMinimal
  BY <1>1, ScheduleFacts DEF OneMinimal
<1> QED BY <1>1, <1>2, <1>6, <1>7, <1>8, <1>9, <1>10 DEF MinimizerInv

LEMMA MinimizerInvStep == MinimizerInv /\ [MinimizerNext]_minimizerVars => MinimizerInv'
<1> SUFFICES ASSUME MinimizerInv, [MinimizerNext]_minimizerVars PROVE MinimizerInv'
  OBVIOUS
<1>1. CASE \E e \in All : Delete(e) \/ Keep(e) \/ Raise(e)
  BY <1>1, DeleteStep, KeepStep, RaiseStep
<1>2. CASE NextSchedule \/ NextCombinedRound \/ ReduceWorkload \/ NextJointRound \/ Return
  BY <1>2, NextScheduleStep, NextCombinedRoundStep, ReduceWorkloadStep, NextJointRoundStep, ReturnStep
<1>3. CASE UNCHANGED minimizerVars
  <2>1. UNCHANGED <<failing, left, pass, tried, combinedSizes, jointSizes>> /\ Remaining' = Remaining /\ Reduced' = Reduced
    BY <1>3 DEF minimizerVars, Remaining, Reduced
  <2>2. ReductionInv' /\ ScanInv' /\ OneMinimal'
    BY <2>1 DEF MinimizerInv, ReductionInv, ScanInv, OneMinimal
  <2>3. CombinedInv' /\ JointInv'
    BY <2>1 DEF MinimizerInv, CombinedInv, JointInv, Minimal
  <2> QED BY <2>1, <2>2, <2>3 DEF MinimizerInv
<1> QED BY <1>1, <1>2, <1>3 DEF MinimizerNext

\* What a minimizer of any schedules returns, for any failure predicate, still fails and needs
\* each of its entries.
THEOREM Reductions == MinimizerSpec => []OneMinimal
<1>1. MinimizerInv => OneMinimal
  BY DEF MinimizerInv
<1> QED BY <1>1, MinimizerInitially, MinimizerInvStep, PTL DEF MinimizerSpec

-----------------------------------------------------------------------------
(* The Multi-Paxos application: execution *)

\* f is what some commands do to a state, one after the other.
IsRun(f, state, commands) ==
    /\ f[0] = state
    /\ \A i \in 1..Len(commands) : f[i] = ApplyDecision(f[i - 1], commands[i])

RunTo(g, state, commands, k) ==
    g = [i \in 0..k |-> IF i = 0 THEN state ELSE ApplyDecision(g[i - 1], commands[i])]

LEMMA RunExists ==
    ASSUME NEW state, NEW commands, NEW k \in Nat
    PROVE  \E g : RunTo(g, state, commands, k)
<1> DEFINE S == {i \in Nat : \E g : RunTo(g, state, commands, i)}
<1>1. 0 \in S
  <2>1. RunTo([i \in 0..0 |-> state], state, commands, 0)
    BY DEF RunTo
  <2> QED BY <2>1
<1>2. ASSUME NEW i \in 1..k, i - 1 \in S PROVE i \in S
  <2>1. PICK g : RunTo(g, state, commands, i - 1)
    BY <1>2
  <2> DEFINE h == [j \in 0..i |-> IF j = 0 THEN state ELSE ApplyDecision(g[j - 1], commands[j])]
  <2>2. \A j \in 0..(i - 1) : g[j] = h[j]
    BY <2>1 DEF RunTo
  <2>3. \A j \in 1..i : g[j - 1] = h[j - 1]
    <3>1. \A j \in 1..i : j - 1 \in 0..(i - 1)
      OBVIOUS
    <3> HIDE DEF h
    <3> QED BY <2>2, <3>1
  <2>4. h = [j \in 0..i |-> IF j = 0 THEN state ELSE ApplyDecision(h[j - 1], commands[j])]
    <3>1. \A j \in 0..i : j = 0 \/ j \in 1..i
      OBVIOUS
    <3>2. \A j \in 0..i : (IF j = 0 THEN state ELSE ApplyDecision(g[j - 1], commands[j]))
                             = (IF j = 0 THEN state ELSE ApplyDecision(h[j - 1], commands[j]))
      <4> HIDE DEF h
      <4> QED BY <2>3, <3>1
    <3> DEFINE h2 == [j \in 0..i |-> IF j = 0 THEN state ELSE ApplyDecision(h[j - 1], commands[j])]
    <3>3. \A j \in 0..i : h[j] = h2[j]
      BY <3>2
    <3>4. h = [j \in 0..i |-> h[j]] /\ h2 = [j \in 0..i |-> h2[j]]
      OBVIOUS
    <3> HIDE DEF h, h2
    <3>5. h = h2
      BY <3>3, <3>4
    <3> QED BY <3>5 DEF h2
  <2>5. RunTo(h, state, commands, i)
    <3> HIDE DEF h
    <3> QED BY <2>4 DEF RunTo
  <2> QED BY <2>5
<1>3. \A i \in 0..k : i \in S
  <2> HIDE DEF S
  <2> QED BY <1>1, <1>2, UpTo
<1>4. k \in 0..k
  OBVIOUS
<1> QED BY <1>3, <1>4

LEMMA ExecuteRuns ==
    ASSUME NEW state, NEW commands, Len(commands) \in Nat
    PROVE  \E f : IsRun(f, state, commands) /\ Execute(state, commands) = f[Len(commands)]
<1> DEFINE k == Len(commands)
           f == CHOOSE g : RunTo(g, state, commands, k)
<1>1. Execute(state, commands) = f[k]
  BY DEF Execute, RunTo
<1>2. RunTo(f, state, commands, k)
  <2>1. \E g : RunTo(g, state, commands, k)
    BY RunExists
  <2> QED BY <2>1, Zenon
<1>3. f = [i \in 0..k |-> IF i = 0 THEN state ELSE ApplyDecision(f[i - 1], commands[i])]
  <2> HIDE DEF f
  <2> QED BY <1>2 DEF RunTo
<1>4. IsRun(f, state, commands)
  <2> HIDE DEF f
  <2>1. f[0] = state
    BY <1>3
  <2>2. \A i \in 1..k : f[i] = ApplyDecision(f[i - 1], commands[i])
    BY <1>3
  <2> QED BY <2>1, <2>2 DEF IsRun
<1> QED BY <1>1, <1>4

\* Runs that begin alike go on alike.
LEMMA RunsAgree ==
    ASSUME NEW f, NEW g, NEW a, NEW b, NEW x, NEW y, NEW k \in Nat,
           IsRun(f, x, a), IsRun(g, y, b), x = y, k <= Len(a), k <= Len(b),
           Len(a) \in Nat, Len(b) \in Nat, \A i \in 1..k : a[i] = b[i]
    PROVE  \A i \in 0..k : f[i] = g[i]
<1> DEFINE S == {i \in Nat : f[i] = g[i]}
<1>1. 0 \in S
  BY DEF IsRun
<1>2. ASSUME NEW i \in 1..k, i - 1 \in S PROVE i \in S
  <2>1. i \in 1..Len(a) /\ i \in 1..Len(b) /\ i \in Nat
    OBVIOUS
  <2>2. f[i] = ApplyDecision(f[i - 1], a[i]) /\ g[i] = ApplyDecision(g[i - 1], b[i])
    BY <2>1 DEF IsRun
  <2>3. f[i - 1] = g[i - 1] /\ a[i] = b[i]
    BY <1>2
  <2> QED BY <2>1, <2>2, <2>3
<1> HIDE DEF S
<1>3. \A i \in 0..k : i \in S
  BY <1>1, <1>2, UpTo
<1> QED BY <1>3 DEF S

\* Executing some commands after others is executing all of them.
LEMMA ExecuteMore ==
    ASSUME NEW a \in Seq(Command), NEW b \in Seq(Command), NEW x
    PROVE  Execute(Execute(x, a), b) = Execute(x, a \o b)
<1> DEFINE m == Len(a)
           n == Len(b)
           c == a \o b
<1>1. m \in Nat /\ n \in Nat /\ c \in Seq(Command) /\ Len(c) = m + n
  BY ConcatProperties, LenProperties
<1>2. (\A i \in 1..m : c[i] = a[i]) /\ (\A i \in 1..n : c[m + i] = b[i])
  <2>1. \A i \in 1..m + n : c[i] = IF i <= m THEN a[i] ELSE b[i - m]
    BY ConcatProperties
  <2> HIDE DEF m, n, c
  <2>2. \A i \in 1..m : i \in 1..m + n /\ i <= m
    BY <1>1
  <2>3. \A i \in 1..n : m + i \in 1..m + n /\ ~(m + i <= m) /\ (m + i) - m = i
    BY <1>1
  <2> QED BY <2>1, <2>2, <2>3
<1> HIDE DEF m, n, c
<1>3. PICK f : IsRun(f, x, a) /\ Execute(x, a) = f[m]
  BY <1>1, ExecuteRuns DEF m
<1>4. PICK g : IsRun(g, Execute(x, a), b) /\ Execute(Execute(x, a), b) = g[n]
  BY <1>1, ExecuteRuns DEF n
<1>5. PICK h : IsRun(h, x, c) /\ Execute(x, c) = h[m + n]
  BY <1>1, ExecuteRuns
<1>6. f[m] = h[m]
  <2>1. m <= Len(a) /\ m <= Len(c) /\ m \in 0..m /\ Len(a) \in Nat /\ Len(c) \in Nat
    BY <1>1 DEF m
  <2> QED BY <1>1, <1>2, <1>3, <1>5, <2>1, RunsAgree
<1> DEFINE S == {i \in Nat : g[i] = h[m + i]}
<1>7. 0 \in S
  BY <1>1, <1>3, <1>4, <1>6 DEF IsRun
<1>8. ASSUME NEW i \in 1..n, i - 1 \in S PROVE i \in S
  <2>1. i \in Nat /\ m + i \in 1..m + n /\ (m + i) - 1 = m + (i - 1) /\ i \in 1..Len(b) /\ m + i \in 1..Len(c)
    BY <1>1 DEF n
  <2>2. g[i] = ApplyDecision(g[i - 1], b[i]) /\ h[m + i] = ApplyDecision(h[m + (i - 1)], c[m + i])
    BY <1>4, <1>5, <2>1 DEF IsRun
  <2>3. g[i - 1] = h[m + (i - 1)] /\ c[m + i] = b[i]
    BY <1>2, <1>8
  <2> QED BY <2>1, <2>2, <2>3
<1>9. n \in S
  <2> HIDE DEF S
  <2>1. \A i \in 0..n : i \in S
    BY <1>1, <1>7, <1>8, UpTo
  <2> QED BY <1>1, <2>1
<1> QED BY <1>4, <1>5, <1>9 DEF c

\* The state a begins with the state b.
StartsWith(a, b) == Len(b) <= Len(a) /\ \A i \in 1..Len(b) : a[i] = b[i]

LEMMA ContainsIn ==
    ASSUME NEW s, NEW x
    PROVE  Contains(s, x) <=> \E i \in 1..Len(s) : s[i] = x
BY DEF Contains

\* One decision: a request is added at the end if it is new, and nothing else changes.
LEMMA DecisionFacts ==
    ASSUME NEW state \in Seq(Request), NEW command \in Command
    PROVE  LET after == ApplyDecision(state, command)
           IN  /\ after \in Seq(Request) /\ StartsWith(after, state)
               /\ \A r \in Request : Contains(after, r) <=> Contains(state, r) \/ command = r
<1> DEFINE after == ApplyDecision(state, command)
<1>1. Len(state) \in Nat
  BY LenProperties
<1>2. CASE command = NoOp \/ Contains(state, command)
  <2>1. after = state
    BY <1>2 DEF ApplyDecision
  <2>2. \A r \in Request : command = r => Contains(state, r)
    BY <1>2, ConstantAssumption
  <2> QED BY <1>1, <2>1, <2>2 DEF StartsWith
<1>3. CASE ~(command = NoOp \/ Contains(state, command))
  <2>1. after = Append(state, command) /\ command \in Request
    BY <1>3 DEF ApplyDecision, Command
  <2>2. /\ after \in Seq(Request) /\ Len(after) = Len(state) + 1 /\ after[Len(state) + 1] = command
        /\ \A i \in 1..Len(state) : after[i] = state[i]
    BY <2>1, AppendProperties
  <2> HIDE DEF after
  <2>3. StartsWith(after, state)
    BY <1>1, <2>2 DEF StartsWith
  <2>4. \A i \in 1..Len(after) : i \in 1..Len(state) \/ i = Len(state) + 1
    BY <1>1, <2>2
  <2>5. ASSUME NEW r \in Request
        PROVE  Contains(after, r) <=> Contains(state, r) \/ command = r
    <3>1. Contains(after, r) => Contains(state, r) \/ command = r
      BY <2>2, <2>4 DEF Contains
    <3>2. (\A i \in 1..Len(state) : i \in 1..Len(after)) /\ Len(state) + 1 \in 1..Len(after)
      BY <1>1, <2>2
    <3>3. Contains(state, r) \/ command = r => Contains(after, r)
      BY <2>2, <3>2 DEF Contains
    <3> QED BY <3>1, <3>3
  <2> QED BY <2>2, <2>3, <2>5 DEF after
<1> QED BY <1>2, <1>3

LEMMA StartsWithTransitive ==
    ASSUME NEW a \in Seq(Request), NEW b \in Seq(Request), NEW c \in Seq(Request),
           StartsWith(a, b), StartsWith(b, c)
    PROVE  StartsWith(a, c)
<1>1. Len(a) \in Nat /\ Len(b) \in Nat /\ Len(c) \in Nat
  BY LenProperties
<1> QED BY <1>1 DEF StartsWith

\* Many decisions: the state before is the beginning of the state after, which has exactly the
\* requests that were there or were among the commands.
LEMMA ExecuteFacts ==
    ASSUME NEW state \in Seq(Request), NEW commands \in Seq(Command)
    PROVE  LET after == Execute(state, commands)
           IN  /\ after \in Seq(Request) /\ StartsWith(after, state)
               /\ \A r \in Request : Contains(after, r) <=> Contains(state, r) \/ Contains(commands, r)
<1> DEFINE k == Len(commands)
<1>1. k \in Nat /\ \A i \in 1..k : commands[i] \in Command
  BY LenProperties, ElementOfSeq
<1>2. PICK f : IsRun(f, state, commands) /\ Execute(state, commands) = f[k]
  BY <1>1, ExecuteRuns
<1> DEFINE Among(i, r) == \E j \in 1..i : commands[j] = r
           Facts(i) == /\ f[i] \in Seq(Request) /\ StartsWith(f[i], state)
                       /\ \A r \in Request : Contains(f[i], r) <=> Contains(state, r) \/ Among(i, r)
           S == {i \in Nat : Facts(i)}
<1>3. 0 \in S
  <2>1. f[0] = state
    BY <1>2 DEF IsRun
  <2>2. StartsWith(state, state)
    BY LenProperties DEF StartsWith
  <2>3. \A r : ~Among(0, r)
    OBVIOUS
  <2> HIDE DEF Among
  <2> QED BY <2>1, <2>2, <2>3
<1>4. ASSUME NEW i \in 1..k, i - 1 \in S PROVE i \in S
  <2>1. Facts(i - 1) /\ i \in Nat /\ commands[i] \in Command
    BY <1>1, <1>4
  <2>2. f[i] = ApplyDecision(f[i - 1], commands[i])
    BY <1>2 DEF IsRun
  <2>3. /\ f[i] \in Seq(Request) /\ StartsWith(f[i], f[i - 1])
        /\ \A r \in Request : Contains(f[i], r) <=> Contains(f[i - 1], r) \/ commands[i] = r
    <3>1. PICK before \in Seq(Request), command \in Command : before = f[i - 1] /\ command = commands[i]
      <4> HIDE DEF Among
      <4> QED BY <2>1
    <3>2. LET after == ApplyDecision(before, command)
          IN  /\ after \in Seq(Request) /\ StartsWith(after, before)
              /\ \A r \in Request : Contains(after, r) <=> Contains(before, r) \/ command = r
      BY DecisionFacts
    <3> HIDE DEF Among
    <3> QED BY <2>2, <3>1, <3>2
  <2>4. StartsWith(f[i], state)
    <3> HIDE DEF Among
    <3> QED BY <2>1, <2>3, StartsWithTransitive
  <2>5. \A r : Among(i, r) <=> Among(i - 1, r) \/ commands[i] = r
    <3>1. \A j \in 1..i : j \in 1..(i - 1) \/ j = i
      BY <2>1
    <3>2. \A j \in 1..(i - 1) : j \in 1..i
      BY <2>1
    <3>3. i \in 1..i
      BY <2>1
    <3> QED BY <3>1, <3>2, <3>3
  <2> HIDE DEF Among
  <2>6. \A r \in Request : Contains(f[i], r) <=> Contains(state, r) \/ Among(i, r)
    BY <2>1, <2>3, <2>5
  <2> QED BY <2>1, <2>3, <2>4, <2>6
<1>5. k \in S
  <2> HIDE DEF S, k
  <2>1. \A i \in 0..k : i \in S
    BY <1>1, <1>3, <1>4, UpTo
  <2> QED BY <1>1, <2>1
<1>6. \A r : Among(k, r) <=> Contains(commands, r)
  BY ContainsIn
<1> HIDE DEF Among
<1> QED BY <1>2, <1>5, <1>6

LEMMA ReplayFacts ==
    ASSUME NEW commands \in Seq(Command)
    PROVE  /\ Replay(commands) \in Seq(Request)
           /\ \A r \in Request : Contains(Replay(commands), r) <=> Contains(commands, r)
<1>1. <<>> \in Seq(Request) /\ \A r : ~Contains(<<>>, r)
  BY EmptySeq DEF Contains
<1> QED BY <1>1, ExecuteFacts DEF Replay

\* Each of the requests jr was decided with no r up to there.
DecidedBefore(ch, jr, r) == \A e \in jr : \E s \in Nat \ {0} : ch[s] = e /\ \A i \in 1..s : ch[i] # r

\* What is decided before r has taken effect when r does.
LEMMA ResultIsOrdered ==
    ASSUME NEW ch, NEW commands \in Seq(Command), NEW jr \in SUBSET Request, NEW r \in Request,
           \A i \in 1..Len(commands) : commands[i] = ch[i],
           DecidedBefore(ch, jr, r), Contains(Replay(commands), r)
    PROVE  /\ Contains(commands, r)
           /\ \A e \in jr : Contains(Result(Replay(commands), r), e)
<1> DEFINE state == Replay(commands)
<1>1. Contains(commands, r) /\ state \in Seq(Request) /\ Len(state) \in Nat /\ Len(commands) \in Nat
  BY ReplayFacts, LenProperties
<1>2. PICK k \in Nat : /\ k \in 1..Len(commands) /\ commands[k] = r
                       /\ \A i \in 1..Len(commands) : commands[i] = r => k <= i
  <2> DEFINE T == {i \in 1..Len(commands) : commands[i] = r}
  <2>1. T \in SUBSET Nat /\ T # {}
    BY <1>1, ContainsIn
  <2>2. PICK x \in T : \A y \in T : x <= y
    <3> HIDE DEF T
    <3> QED BY <2>1, Least
  <2> QED BY <2>2
<1> DEFINE pre == SubSeq(commands, 1, k - 1)
           post == SubSeq(commands, k, Len(commands))
<1>3. /\ pre \in Seq(Command) /\ Len(pre) = k - 1
      /\ \A i \in 1..(k - 1) : pre[i] = commands[i]
  <2>1. \A i \in 1..(k - 1) : commands[i] \in Command
    BY <1>1, <1>2, ElementOfSeq
  <2>2. /\ pre \in Seq(Command) /\ Len(pre) = IF 1 <= k - 1 THEN (k - 1) - 1 + 1 ELSE 0
        /\ \A i \in 1..(k - 1) - 1 + 1 : pre[i] = commands[(1 + i) - 1]
    BY <2>1, SubSeqProperties
  <2> HIDE DEF pre
  <2>3. Len(pre) = k - 1
    BY <1>2, <2>2
  <2>4. \A i \in 1..(k - 1) : i \in 1..(k - 1) - 1 + 1 /\ (1 + i) - 1 = i
    BY <1>2
  <2> QED BY <2>2, <2>3, <2>4
<1>4. /\ post \in Seq(Command) /\ Len(post) = Len(commands) - (k - 1)
      /\ \A i \in 1..Len(commands) - (k - 1) : post[i] = commands[(k - 1) + i]
  <2>1. \A i \in k..Len(commands) : commands[i] \in Command
    <3>1. \A i \in k..Len(commands) : i \in 1..Len(commands)
      BY <1>1, <1>2
    <3> QED BY <3>1, ElementOfSeq
  <2>2. /\ post \in Seq(Command) /\ Len(post) = IF k <= Len(commands) THEN Len(commands) - k + 1 ELSE 0
        /\ \A i \in 1..Len(commands) - k + 1 : post[i] = commands[(k + i) - 1]
    BY <1>1, <2>1, SubSeqProperties
  <2> HIDE DEF post
  <2>3. Len(post) = Len(commands) - (k - 1)
    BY <1>1, <1>2, <2>2
  <2>4. \A i \in 1..Len(commands) - (k - 1) : i \in 1..Len(commands) - k + 1 /\ (k + i) - 1 = (k - 1) + i
    BY <1>1, <1>2
  <2> QED BY <2>2, <2>3, <2>4
<1> HIDE DEF pre, post
<1>5. commands = pre \o post
  <2> DEFINE c == pre \o post
  <2>1. /\ c \in Seq(Command) /\ Len(c) = Len(pre) + Len(post)
        /\ \A i \in 1..Len(pre) + Len(post) : c[i] = IF i <= Len(pre) THEN pre[i] ELSE post[i - Len(pre)]
    <3>1. pre \in Seq(Command) /\ post \in Seq(Command)
      BY <1>3, <1>4
    <3> QED BY <3>1, ConcatProperties
  <2> HIDE DEF c
  <2>2. Len(c) = Len(commands)
    BY <1>1, <1>2, <1>3, <1>4, <2>1
  <2>3. ASSUME NEW i \in 1..Len(commands) PROVE commands[i] = c[i]
    <3>1. i \in 1..Len(pre) + Len(post) /\ i \in Nat
      BY <1>1, <2>1, <2>2
    <3>2. CASE i <= k - 1
      <4>1. i \in 1..(k - 1) /\ i <= Len(pre)
        BY <1>3, <3>2
      <4> QED BY <1>3, <2>1, <3>1, <4>1
    <3>3. CASE ~(i <= k - 1)
      <4>1. PICK j \in Nat : j = i - (k - 1) /\ i = (k - 1) + j /\ j \in 1..Len(commands) - (k - 1) /\ ~(i <= Len(pre))
        <5>1. i - (k - 1) \in Nat /\ i = (k - 1) + (i - (k - 1)) /\ (i - (k - 1)) \in 1..Len(commands) - (k - 1) /\ ~(i <= Len(pre))
          BY <1>1, <1>2, <1>3, <3>1, <3>3
        <5> QED BY <5>1
      <4>2. c[i] = post[i - Len(pre)] /\ i - Len(pre) = j
        BY <1>3, <2>1, <3>1, <4>1
      <4> QED BY <1>4, <4>1, <4>2
    <3> QED BY <3>2, <3>3
  <2> QED BY <2>1, <2>2, <2>3, SeqEqual DEF c
<1> DEFINE P == Replay(pre)
<1>6. /\ P \in Seq(Request) /\ Len(P) \in Nat /\ ~Contains(P, r)
      /\ \A e \in Request : Contains(pre, e) => Contains(P, e)
  <2>1. ~Contains(pre, r)
    <3>1. \A i \in 1..(k - 1) : i \in 1..Len(commands) /\ ~(k <= i)
      BY <1>1, <1>2
    <3> QED BY <1>2, <1>3, <3>1, ContainsIn
  <2> QED BY <1>3, <2>1, ReplayFacts, LenProperties
<1>7. StartsWith(state, P)
  <2>1. state = Execute(P, post)
    BY <1>3, <1>4, <1>5, ExecuteMore DEF Replay
  <2> HIDE DEF state, P
  <2> QED BY <1>4, <1>6, <2>1, ExecuteFacts
<1> DEFINE p == CHOOSE j \in DOMAIN state :
                    /\ state[j] = r
                    /\ \A i \in DOMAIN state : state[i] = r => i <= j
<1> HIDE DEF P
<1>8. p \in 1..Len(state) /\ state[p] = r
  <2>1. DOMAIN state = 1..Len(state)
    BY <1>1, LenProperties
  <2>2. \E j \in 1..Len(state) : state[j] = r
    BY ContainsIn
  <2> HIDE DEF state
  \* The last occurrence is the one with the least distance from the end.
  <2> DEFINE D == {d \in 0..Len(state) : \E j \in 1..Len(state) : state[j] = r /\ d = Len(state) - j}
  <2>3. D \in SUBSET Nat /\ D # {}
    <3>1. PICK j \in 1..Len(state) : state[j] = r
      BY <2>2
    <3>2. Len(state) - j \in D
      BY <1>1, <3>1
    <3>3. D # {}
      <4> HIDE DEF D
      <4> QED BY <3>2
    <3>4. D \in SUBSET Nat
      <4>1. \A d \in 0..Len(state) : d \in Nat
        BY <1>1
      <4> QED BY <4>1
    <3> QED BY <3>3, <3>4
  <2>4. PICK d \in D : \A e \in D : d <= e
    <3> HIDE DEF D
    <3> QED BY <2>3, Least
  <2>5. PICK j \in 1..Len(state) : state[j] = r /\ d = Len(state) - j
    BY <2>4
  <2>6. ASSUME NEW i \in 1..Len(state), state[i] = r PROVE i <= j
    <3>1. Len(state) - i \in D
      BY <1>1, <2>6
    <3>2. Len(state) - j <= Len(state) - i
      BY <2>4, <2>5, <3>1
    <3> QED BY <1>1, <3>2
  <2>7. \E m \in DOMAIN state : state[m] = r /\ \A i \in DOMAIN state : state[i] = r => i <= m
    BY <2>1, <2>5, <2>6
  <2> QED BY <2>1, <2>7
<1>9. Result(state, r) = SubSeq(state, 1, p - 1)
  BY DEF Result
<1> HIDE DEF state, p
<1>10. p \in Nat /\ Len(P) <= p - 1
  <2>1. p \in Nat
    BY <1>8
  <2>2. ASSUME p <= Len(P) PROVE FALSE
    <3>1. p \in 1..Len(P)
      BY <1>8, <2>1, <2>2
    <3>2. P[p] = r
      BY <1>7, <1>8, <3>1 DEF StartsWith
    <3> QED BY <1>6, <3>1, <3>2, ContainsIn
  <2> QED BY <1>6, <2>1, <2>2
<1>11. LET result == Result(state, r)
       IN  Len(result) = p - 1 /\ \A i \in 1..(p - 1) : result[i] = state[i]
  <2>1. \A i \in 1..(p - 1) : state[i] \in Request
    <3>1. \A i \in 1..(p - 1) : i \in 1..Len(state)
      BY <1>1, <1>8, <1>10
    <3> QED BY <1>1, <3>1, ElementOfSeq
  <2> DEFINE result == SubSeq(state, 1, p - 1)
  <2>2. /\ Len(result) = IF 1 <= p - 1 THEN (p - 1) - 1 + 1 ELSE 0
        /\ \A i \in 1..(p - 1) - 1 + 1 : result[i] = state[(1 + i) - 1]
    BY <1>10, <2>1, SubSeqProperties
  <2> HIDE DEF result
  <2>3. Len(result) = p - 1
    BY <1>8, <1>10, <2>2
  <2>4. \A i \in 1..(p - 1) : i \in 1..(p - 1) - 1 + 1 /\ (1 + i) - 1 = i
    BY <1>10
  <2>5. \A i \in 1..(p - 1) : result[i] = state[i]
    BY <2>2, <2>4
  <2> QED BY <1>9, <2>3, <2>5 DEF result
<1>12. ASSUME NEW e \in jr PROVE Contains(Result(state, r), e)
  <2>1. PICK s \in Nat \ {0} : ch[s] = e /\ \A i \in 1..s : ch[i] # r
    BY DEF DecidedBefore
  <2>2. s \in 1..(k - 1)
    <3>1. ASSUME k <= s PROVE FALSE
      <4>1. k \in 1..s
        BY <1>2, <3>1
      <4> QED BY <1>2, <2>1, <4>1
    <3> QED BY <1>2, <3>1
  <2>3. pre[s] = e
    <3>1. s \in 1..Len(commands)
      BY <1>1, <1>2, <2>2
    <3> QED BY <1>3, <2>1, <2>2, <3>1
  <2>4. Contains(P, e)
    BY <1>3, <1>6, <2>2, <2>3, ContainsIn
  <2>5. PICK j \in 1..Len(P) : P[j] = e
    BY <2>4, ContainsIn
  <2>6. j \in 1..(p - 1) /\ state[j] = e
    BY <1>6, <1>7, <1>10, <2>5 DEF StartsWith
  <2> HIDE DEF pre
  <2>7. Result(state, r)[j] = e /\ j \in 1..Len(Result(state, r))
    BY <1>11, <2>6
  <2> QED BY <2>7, ContainsIn
<1> QED BY <1>1, <1>12 DEF state

-----------------------------------------------------------------------------
(* The inductive invariant *)

ApplyTypes ==
    /\ chosen \in [Slot -> Command \cup {None}]
    /\ learned \in [Server -> [Slot -> Command \cup {None}]]
    /\ applied \in [Server -> Seq(Command)]
    /\ machine \in [Server -> Seq(Request) \cup {None}]
    /\ DOMAIN journal \subseteq Request

\* What is learned, applied or on its way to another node is what was chosen.
DecisionsAreChosen ==
    /\ \A n \in Server, s \in Slot : learned[n][s] # None => learned[n][s] = chosen[s]
    /\ \A m \in msgs : m.type = "Response" =>
          \A s \in DOMAIN m.decisions : s \in Slot /\ chosen[s] # None /\ m.decisions[s] = chosen[s]
    /\ \A n \in Server : \A i \in 1..Len(applied[n]) :
          i \in Slot /\ chosen[i] # None /\ applied[n][i] = chosen[i] /\ learned[n][i] = chosen[i]

MachinesAreReplays == \A n \in Server : machine[n] # None => machine[n] = Replay(applied[n])

NodesInv == ApplyTypes /\ DecisionsAreChosen /\ MachinesAreReplays

Decided(s) == \A i \in 1..s : chosen[i] # None

\* What was acknowledged is in the decided prefix, and what was acknowledged before a request
\* was submitted is decided before it.
JournalInv ==
    /\ \A s \in Slot : chosen[s] \in DOMAIN journal \cup {NoOp, None}
    /\ \A a \in acks : a.request \in DOMAIN journal /\ \E s \in Slot : chosen[s] = a.request /\ Decided(s)
    /\ \A r \in DOMAIN journal : \A e \in journal[r] :
          e \in Request /\ \E s \in Slot : chosen[s] = e /\ Decided(s) /\ \A i \in 1..s : chosen[i] # r

ApplyInv == NodesInv /\ JournalInv /\ RealTimeOrder

LEMMA SlotFacts ==
    /\ MaxSlot \in Nat /\ Slot \subseteq Nat \ {0}
    /\ \A s \in Slot : \A i \in 1..s : i \in Slot
BY ConstantAssumption DEF Slot

LEMMA ApplyInitially == Init => ApplyInv
<1> SUFFICES ASSUME Init PROVE ApplyInv
  OBVIOUS
<1>1. DOMAIN journal = {}
  BY DEF Init
<1>2. <<>> \in Seq(Command) /\ Len(<<>>) = 0
  BY EmptySeq
<1>3. ApplyTypes
  BY <1>1, <1>2 DEF Init, ApplyTypes
<1>4. \A n \in Server : Len(applied[n]) = 0
  BY <1>2 DEF Init
<1>5. DecisionsAreChosen
  BY <1>4 DEF Init, DecisionsAreChosen
<1>6. MachinesAreReplays
  BY DEF Init, MachinesAreReplays
<1>7. JournalInv /\ RealTimeOrder
  BY <1>1 DEF Init, JournalInv, RealTimeOrder
<1> QED BY <1>3, <1>5, <1>6, <1>7 DEF ApplyInv, NodesInv

-----------------------------------------------------------------------------
(* The steps *)

\* A decision fills a slot that was empty: nothing that was decided changes.
LEMMA DecideStep ==
    ASSUME ApplyInv, NEW n \in Server, NEW slot \in Slot, NEW command \in Command, Decide(n, slot, command)
    PROVE  ApplyInv'
<1>0. \A s \in Slot : s \in 1..s
  BY SlotFacts
<1>1. ApplyTypes /\ DecisionsAreChosen /\ MachinesAreReplays /\ JournalInv /\ RealTimeOrder
  BY DEF ApplyInv, NodesInv
<1>2. /\ chosen[slot] = None /\ command \in DOMAIN journal \cup {NoOp} /\ command # None
      /\ chosen' = [chosen EXCEPT ![slot] = command]
      /\ learned' = [learned EXCEPT ![n][slot] = command]
      /\ UNCHANGED <<applied, machine, msgs, journal, acks>>
  BY ConstantAssumption DEF Decide, client, Command
<1>3. ApplyTypes'
  BY <1>1, <1>2 DEF ApplyTypes
<1>4. chosen'[slot] = command /\ \A s \in Slot : chosen[s] # None => s # slot /\ chosen'[s] = chosen[s]
  BY <1>1, <1>2 DEF ApplyTypes
<1>5. \A p \in Server, s \in Slot : \/ p = n /\ s = slot /\ learned'[p][s] = command
                                    \/ learned'[p][s] = learned[p][s]
  BY <1>1, <1>2 DEF ApplyTypes
<1>6. DecisionsAreChosen'
  <2>1. \A p \in Server, s \in Slot : learned'[p][s] # None => learned'[p][s] = chosen'[s]
    <3> SUFFICES ASSUME NEW p \in Server, NEW s \in Slot, learned'[p][s] # None
                 PROVE  learned'[p][s] = chosen'[s]
      OBVIOUS
    <3>1. CASE s = slot /\ learned'[p][s] = command
      BY <1>4, <3>1
    <3>2. CASE learned'[p][s] = learned[p][s]
      <4>1. learned[p][s] = chosen[s] /\ chosen[s] # None
        BY <1>1, <3>2 DEF DecisionsAreChosen
      <4> QED BY <1>4, <3>2, <4>1
    <3> QED BY <1>5, <3>1, <3>2
  <2>2. \A m \in msgs' : m.type = "Response" =>
          \A s \in DOMAIN m.decisions : s \in Slot /\ chosen'[s] # None /\ m.decisions[s] = chosen'[s]
    BY <1>1, <1>2, <1>4 DEF DecisionsAreChosen
  <2>3. ASSUME NEW p \in Server, NEW i \in 1..Len(applied'[p])
        PROVE  i \in Slot /\ chosen'[i] # None /\ applied'[p][i] = chosen'[i] /\ learned'[p][i] = chosen'[i]
    <3>1. i \in Slot /\ chosen[i] # None /\ applied'[p][i] = chosen[i] /\ learned[p][i] = chosen[i]
      BY <1>1, <1>2 DEF DecisionsAreChosen
    <3> QED BY <1>4, <1>5, <3>1
  <2> QED BY <2>1, <2>2, <2>3 DEF DecisionsAreChosen
<1>7. MachinesAreReplays'
  BY <1>1, <1>2 DEF MachinesAreReplays
<1>8. \A s \in Slot : Decided(s) => /\ Decided(s)' /\ \A i \in 1..s : chosen'[i] = chosen[i]
  BY <1>4, SlotFacts DEF Decided
<1>9. JournalInv'
  <2>1. \A s \in Slot : chosen'[s] \in DOMAIN journal' \cup {NoOp, None}
    BY <1>1, <1>2 DEF JournalInv, ApplyTypes
  <2>2. ASSUME NEW a \in acks' PROVE a.request \in DOMAIN journal' /\ \E s \in Slot : chosen'[s] = a.request /\ Decided(s)'
    <3>1. PICK s \in Slot : chosen[s] = a.request /\ Decided(s)
      BY <1>1, <1>2 DEF JournalInv
    <3>2. s \in 1..s
      BY <1>0
    <3> QED BY <1>1, <1>2, <1>8, <3>1, <3>2 DEF JournalInv
  <2>3. ASSUME NEW r \in DOMAIN journal', NEW e \in journal'[r]
        PROVE  e \in Request /\ \E s \in Slot : chosen'[s] = e /\ Decided(s)' /\ \A i \in 1..s : chosen'[i] # r
    <3>1. PICK s \in Slot : e \in Request /\ chosen[s] = e /\ Decided(s) /\ \A i \in 1..s : chosen[i] # r
      BY <1>1, <1>2 DEF JournalInv
    <3>2. s \in 1..s
      BY <1>0
    <3>3. Decided(s)' /\ \A i \in 1..s : chosen'[i] = chosen[i]
      BY <1>8, <3>1
    <3>4. chosen'[s] = e /\ \A i \in 1..s : chosen'[i] # r
      BY <3>1, <3>2, <3>3
    <3> QED BY <3>1, <3>3, <3>4
  <2> QED BY <2>1, <2>2, <2>3 DEF JournalInv
<1>10. RealTimeOrder'
  BY <1>1, <1>2 DEF RealTimeOrder
<1> QED BY <1>3, <1>6, <1>7, <1>9, <1>10 DEF ApplyInv, NodesInv

\* Nothing else changes a decision; the journal's invariant is about the decisions only.
LEMMA JournalStays ==
    ASSUME ApplyInv, UNCHANGED <<chosen, journal, acks>>
    PROVE  JournalInv' /\ RealTimeOrder'
BY DEF ApplyInv, JournalInv, RealTimeOrder, Decided

\* What a node learns is what was chosen.
LEMMA LearnMore ==
    ASSUME ApplyInv, UNCHANGED <<chosen, applied, machine, journal, acks>>,
           learned' \in [Server -> [Slot -> Command \cup {None}]],
           \A p \in Server, s \in Slot : \/ learned'[p][s] = learned[p][s]
                                         \/ learned[p][s] = None /\ learned'[p][s] = chosen[s],
           \A m \in msgs' : m \in msgs \/ (m.type = "Response" =>
               \A s \in DOMAIN m.decisions : s \in Slot /\ chosen[s] # None /\ m.decisions[s] = chosen[s])
    PROVE  ApplyInv'
<1>1. ApplyTypes /\ DecisionsAreChosen /\ MachinesAreReplays
  BY DEF ApplyInv, NodesInv
<1>2. ApplyTypes'
  BY <1>1 DEF ApplyTypes
<1>3. \A p \in Server, s \in Slot : learned'[p][s] # None => learned'[p][s] = chosen'[s]
  BY <1>1 DEF DecisionsAreChosen
<1>4. \A m \in msgs' : m.type = "Response" =>
          \A s \in DOMAIN m.decisions : s \in Slot /\ chosen'[s] # None /\ m.decisions[s] = chosen'[s]
  BY <1>1 DEF DecisionsAreChosen
<1>5. ASSUME NEW p \in Server, NEW i \in 1..Len(applied'[p])
      PROVE  i \in Slot /\ chosen'[i] # None /\ applied'[p][i] = chosen'[i] /\ learned'[p][i] = chosen'[i]
  <2>1. i \in Slot /\ chosen[i] # None /\ applied[p][i] = chosen[i] /\ learned[p][i] = chosen[i]
    BY <1>1 DEF DecisionsAreChosen
  <2> QED BY <2>1
<1>6. DecisionsAreChosen'
  BY <1>3, <1>4, <1>5 DEF DecisionsAreChosen
<1>7. MachinesAreReplays'
  BY <1>1 DEF MachinesAreReplays
<1> QED BY <1>2, <1>6, <1>7, JournalStays DEF ApplyInv, NodesInv

LEMMA LearnStep ==
    ASSUME ApplyInv, NEW n \in Server, NEW slot \in Slot, Learn(n, slot)
    PROVE  ApplyInv'
<1>1. ApplyTypes
  BY DEF ApplyInv, NodesInv
<1>2. /\ learned[n][slot] = None /\ learned' = [learned EXCEPT ![n][slot] = chosen[slot]]
      /\ UNCHANGED <<chosen, applied, machine, journal, acks, msgs>>
  BY DEF Learn, client
<1>3. learned' \in [Server -> [Slot -> Command \cup {None}]]
  BY <1>1, <1>2 DEF ApplyTypes
<1>4. \A p \in Server, s \in Slot : \/ learned'[p][s] = learned[p][s]
                                    \/ learned[p][s] = None /\ learned'[p][s] = chosen[s]
  BY <1>1, <1>2 DEF ApplyTypes
<1> QED BY <1>2, <1>3, <1>4, LearnMore

\* Whatever is sent besides requests for recovery, and whatever becomes of episodes and timers
LEMMA RequestsAreNoResponses ==
    ASSUME NEW n, NEW start, NEW m \in Requests(n, start)
    PROVE  m.type = "Request"
BY DEF Requests, RequestTo

LEMMA RetryRecoveryStep ==
    ASSUME ApplyInv, NEW n \in Server, NEW t \in timers[n], RetryRecovery(n, t)
    PROVE  ApplyInv'
<1>1. ApplyTypes
  BY DEF ApplyInv, NodesInv
<1>2. /\ UNCHANGED <<chosen, learned, applied, machine, journal, acks>>
      /\ msgs' = msgs \/ msgs' = msgs \cup Requests(n, recovery[n])
  BY DEF RetryRecovery, nodeState, client
<1>3. \A m \in msgs' : m \in msgs \/ m.type = "Request"
  BY <1>2, RequestsAreNoResponses
<1>4. learned' \in [Server -> [Slot -> Command \cup {None}]]
  BY <1>1, <1>2 DEF ApplyTypes
<1> QED BY <1>2, <1>3, <1>4, LearnMore

LEMMA ReceiveRecoveryRequestStep ==
    ASSUME ApplyInv, NEW n \in Server, NEW m \in msgs, ReceiveRecoveryRequest(n, m)
    PROVE  ApplyInv'
<1>1. ApplyTypes /\ DecisionsAreChosen
  BY DEF ApplyInv, NodesInv
<1> DEFINE known == {s \in Slot : m.start <= s /\ s < m.start + Window /\ learned[n][s] # None}
           response == [type |-> "Response", src |-> n, dst |-> m.src,
                        decisions |-> [s \in known |-> learned[n][s]]]
<1>2. /\ UNCHANGED <<chosen, learned, applied, machine, journal, acks>>
      /\ \E rest \in Taken(m) : msgs' = rest \cup {response}
  BY DEF ReceiveRecoveryRequest, nodeState, client
<1>3. \A x \in msgs' : x \in msgs \/ x = response
  <2> HIDE DEF response
  <2> QED BY <1>2 DEF Taken
<1>4. \A s \in DOMAIN response.decisions : s \in Slot /\ chosen[s] # None /\ response.decisions[s] = chosen[s]
  <2>1. DOMAIN response.decisions = known /\ \A s \in known : response.decisions[s] = learned[n][s]
    OBVIOUS
  <2>2. \A s \in known : s \in Slot /\ learned[n][s] # None
    OBVIOUS
  <2> HIDE DEF response, known
  <2> QED BY <1>1, <2>1, <2>2 DEF DecisionsAreChosen
<1>5. learned' \in [Server -> [Slot -> Command \cup {None}]]
  BY <1>1, <1>2 DEF ApplyTypes
<1> HIDE DEF response
<1>6. \A x \in msgs' : x \in msgs \/ (x.type = "Response" =>
          \A s \in DOMAIN x.decisions : s \in Slot /\ chosen[s] # None /\ x.decisions[s] = chosen[s])
  BY <1>3, <1>4
<1> QED BY <1>2, <1>5, <1>6, LearnMore

LEMMA ReceiveRecoveryResponseStep ==
    ASSUME ApplyInv, NEW n \in Server, NEW m \in msgs, ReceiveRecoveryResponse(n, m)
    PROVE  ApplyInv'
<1>1. ApplyTypes /\ DecisionsAreChosen
  BY DEF ApplyInv, NodesInv
<1> DEFINE new == [s \in Slot |-> IF learned[n][s] = None /\ s \in DOMAIN m.decisions
                                    THEN m.decisions[s] ELSE learned[n][s]]
<1>2. /\ m.type = "Response" /\ learned' = [learned EXCEPT ![n] = new]
      /\ \E rest \in Taken(m) : msgs' = rest
      /\ UNCHANGED <<chosen, applied, machine, journal, acks>>
  BY DEF ReceiveRecoveryResponse, client
<1>3. \A s \in Slot : new[s] = learned[n][s] \/ (learned[n][s] = None /\ new[s] = chosen[s])
  BY <1>1, <1>2 DEF DecisionsAreChosen
<1>4. \A s \in Slot : new[s] \in Command \cup {None}
  BY <1>1, <1>3 DEF ApplyTypes
<1>5. new \in [Slot -> Command \cup {None}]
  BY <1>4
<1> HIDE DEF new
<1>6. learned' \in [Server -> [Slot -> Command \cup {None}]]
  BY <1>1, <1>2, <1>5 DEF ApplyTypes
<1>7. \A p \in Server, s \in Slot : \/ learned'[p][s] = learned[p][s]
                                    \/ learned[p][s] = None /\ learned'[p][s] = chosen[s]
  BY <1>1, <1>2, <1>3 DEF ApplyTypes
<1>8. \A x \in msgs' : x \in msgs
  BY <1>2 DEF Taken
<1> QED BY <1>2, <1>6, <1>7, <1>8, LearnMore

LEMMA LoseStep ==
    ASSUME ApplyInv, NEW m \in msgs, Lose(m)
    PROVE  ApplyInv'
<1>1. ApplyTypes
  BY DEF ApplyInv, NodesInv
<1>2. UNCHANGED <<chosen, learned, applied, machine, journal, acks>> /\ \A x \in msgs' : x \in msgs
  BY DEF Lose, nodeState, client
<1>3. learned' \in [Server -> [Slot -> Command \cup {None}]]
  BY <1>1, <1>2 DEF ApplyTypes
<1> QED BY <1>2, <1>3, LearnMore

\* A restarted node has no machine in memory until it is loaded again.
LEMMA CrashStep ==
    ASSUME ApplyInv, NEW n \in Server, Crash(n)
    PROVE  ApplyInv'
<1>1. ApplyTypes /\ DecisionsAreChosen /\ MachinesAreReplays
  BY DEF ApplyInv, NodesInv
<1>2. machine' = [machine EXCEPT ![n] = None] /\ UNCHANGED <<chosen, learned, applied, msgs, journal, acks>>
  BY DEF Crash, client
<1>3. ApplyTypes' /\ MachinesAreReplays'
  BY <1>1, <1>2 DEF ApplyTypes, MachinesAreReplays
<1>4. DecisionsAreChosen'
  BY <1>1, <1>2 DEF DecisionsAreChosen
<1> QED BY <1>2, <1>3, <1>4, JournalStays DEF ApplyInv, NodesInv

\* A new request has been decided nowhere, and all acknowledged ones have.
LEMMA SubmitStep ==
    ASSUME ApplyInv, NEW r \in Request, Submit(r)
    PROVE  ApplyInv'
<1>1. ApplyTypes /\ DecisionsAreChosen /\ MachinesAreReplays /\ JournalInv /\ RealTimeOrder
  BY DEF ApplyInv, NodesInv
<1>2. /\ r \notin DOMAIN journal
      /\ journal' = [q \in DOMAIN journal \cup {r} |->
                        IF q = r THEN {a.request : a \in acks} ELSE journal[q]]
      /\ UNCHANGED <<chosen, learned, applied, machine, msgs, acks>>
  BY DEF Submit, nodeState
<1>3. /\ DOMAIN journal' = DOMAIN journal \cup {r} /\ journal'[r] = {a.request : a \in acks}
      /\ \A q \in DOMAIN journal : journal'[q] = journal[q]
  BY <1>2
<1>4. ApplyTypes' /\ MachinesAreReplays'
  BY <1>1, <1>2, <1>3 DEF ApplyTypes, MachinesAreReplays
<1>5. DecisionsAreChosen'
  BY <1>1, <1>2 DEF DecisionsAreChosen
<1>6. \A s \in Slot : chosen[s] # r
  BY <1>1, <1>2, ConstantAssumption DEF JournalInv
<1>7. JournalInv'
  <2>1. /\ \A s \in Slot : chosen'[s] \in DOMAIN journal' \cup {NoOp, None}
        /\ \A a \in acks' : a.request \in DOMAIN journal' /\ \E s \in Slot : chosen'[s] = a.request /\ Decided(s)'
    BY <1>1, <1>2, <1>3 DEF JournalInv, Decided
  <2>2. ASSUME NEW q \in DOMAIN journal', NEW e \in journal'[q]
        PROVE  e \in Request /\ \E s \in Slot : chosen'[s] = e /\ Decided(s)' /\ \A i \in 1..s : chosen'[i] # q
    <3>1. CASE q = r
      <4>1. PICK a \in acks : e = a.request
        BY <1>3, <3>1
      <4>2. PICK s \in Slot : chosen[s] = e /\ Decided(s) /\ e \in DOMAIN journal
        BY <1>1, <4>1 DEF JournalInv
      <4>3. \A i \in 1..s : chosen[i] # r
        BY <1>6, SlotFacts
      <4> QED BY <1>1, <1>2, <3>1, <4>2, <4>3 DEF ApplyTypes, Decided
    <3>2. CASE q # r
      <4>1. q \in DOMAIN journal /\ e \in journal[q]
        BY <1>3, <3>2
      <4> QED BY <1>1, <1>2, <4>1 DEF JournalInv, Decided
    <3> QED BY <3>1, <3>2
  <2> QED BY <2>1, <2>2 DEF JournalInv
<1>8. RealTimeOrder'
  <2>1. \A a \in acks : a.request \in DOMAIN journal
    BY <1>1 DEF JournalInv
  <2> QED BY <1>1, <1>2, <1>3, <2>1 DEF RealTimeOrder
<1> QED BY <1>4, <1>5, <1>7, <1>8 DEF ApplyInv, NodesInv

LEMMA LoadedFacts ==
    ASSUME ApplyTypes, MachinesAreReplays, NEW n \in Server
    PROVE  Loaded(n) = Replay(applied[n]) /\ Loaded(n) \in Seq(Request) /\ applied[n] \in Seq(Command)
<1>1. applied[n] \in Seq(Command)
  BY DEF ApplyTypes
<1>2. Loaded(n) = Replay(applied[n])
  BY DEF Loaded, MachinesAreReplays
<1> QED BY <1>1, <1>2, ReplayFacts

\* The applied prefix with the learned commands that follow it: slot by slot what was learned
LEMMA ReadyFacts ==
    ASSUME ApplyTypes, DecisionsAreChosen, NEW n \in Server
    PROVE  LET done == applied[n] \o Ready(n)
           IN  /\ Ready(n) \in Seq(Command) /\ done \in Seq(Command)
               /\ \A i \in 1..Len(done) : i \in Slot /\ learned[n][i] # None /\ done[i] = learned[n][i]
<1>1. PICK k \in Nat, before \in Seq(Command) : before = applied[n] /\ k = Len(before)
  <2>1. applied[n] \in Seq(Command)
    BY DEF ApplyTypes
  <2> QED BY <2>1, LenProperties
<1>2. /\ \A i \in 1..k : i \in Slot /\ learned[n][i] # None /\ before[i] = learned[n][i]
      /\ learned[n] \in [Slot -> Command \cup {None}]
  <2>1. ASSUME NEW i \in 1..k PROVE i \in Slot /\ learned[n][i] # None /\ before[i] = learned[n][i]
    <3>1. i \in 1..Len(applied[n])
      BY <1>1
    <3>2. i \in Slot /\ chosen[i] # None /\ applied[n][i] = chosen[i] /\ learned[n][i] = chosen[i]
      BY <3>1 DEF DecisionsAreChosen
    <3> QED BY <1>1, <3>2
  <2>2. learned[n] \in [Slot -> Command \cup {None}]
    BY DEF ApplyTypes
  <2> QED BY <2>1, <2>2
<1>3. k <= MaxSlot /\ MaxSlot \in Nat
  <2>1. MaxSlot \in Nat
    BY ConstantAssumption
  <2>2. CASE k = 0
    BY <2>1, <2>2
  <2>3. CASE k # 0
    <3>1. k \in 1..k
      BY <1>1, <2>3
    <3>2. k \in 1..MaxSlot
      BY <1>2, <3>1 DEF Slot
    <3> QED BY <2>1, <3>2
  <2> QED BY <2>2, <2>3
<1> DEFINE holes == {s \in k + 1..MaxSlot + 1 : s = MaxSlot + 1 \/ learned[n][s] = None}
           h == CHOOSE h \in holes : \A g \in holes : h <= g
<1>4. h \in holes /\ \A g \in holes : h <= g
  <2>1. holes \in SUBSET Nat /\ MaxSlot + 1 \in holes
    BY <1>1, <1>3
  <2> HIDE DEF holes
  <2>2. \E x \in holes : \A g \in holes : x <= g
    BY <2>1, Least
  <2> QED BY <2>2
<1>5. Ready(n) = SubSeq(learned[n], k + 1, h - 1)
  BY <1>1 DEF Ready
<1>6. /\ h \in Nat /\ k + 1 <= h /\ h <= MaxSlot + 1
      /\ \A s \in k + 1..(h - 1) : s \in Slot /\ learned[n][s] # None
  <2>1. h \in Nat /\ k + 1 <= h /\ h <= MaxSlot + 1
    BY <1>3, <1>4
  <2>2. ASSUME NEW s \in k + 1..(h - 1) PROVE s \in Slot /\ learned[n][s] # None
    <3>1. s \in Nat /\ s \in Slot /\ s \in k + 1..MaxSlot + 1 /\ ~(h <= s)
      <4> HIDE DEF h
      <4> QED BY <1>1, <1>3, <2>1 DEF Slot
    <3>2. s \notin holes
      <4> HIDE DEF h, holes
      <4> QED BY <1>4, <3>1
    <3> QED BY <3>1, <3>2
  <2> QED BY <2>1, <2>2
<1> HIDE DEF h, holes
<1>7. /\ Ready(n) \in Seq(Command) /\ Len(Ready(n)) = (h - 1) - k
      /\ \A i \in 1..(h - 1) - k : Ready(n)[i] = learned[n][k + i]
  <2>1. \A s \in k + 1..(h - 1) : learned[n][s] \in Command
    BY <1>2, <1>6
  <2>2. PICK first \in Int, last \in Int : first = k + 1 /\ last = h - 1
    BY <1>1, <1>6
  <2>3. \A s \in first..last : learned[n][s] \in Command
    BY <2>1, <2>2
  <2>4. LET s == SubSeq(learned[n], first, last)
        IN  /\ s \in Seq(Command) /\ Len(s) = IF first <= last THEN last - first + 1 ELSE 0
            /\ \A i \in 1..last - first + 1 : s[i] = learned[n][first + i - 1]
    BY <2>3, SubSeqProperties
  <2>5. PICK s : /\ s = SubSeq(learned[n], first, last) /\ s \in Seq(Command)
                 /\ Len(s) = IF first <= last THEN last - first + 1 ELSE 0
                 /\ \A i \in 1..last - first + 1 : s[i] = learned[n][first + i - 1]
    BY <2>4
  <2>6. Len(s) = (h - 1) - k
    <3>1. h \in Nat /\ k + 1 <= h /\ k \in Nat
      BY <1>1, <1>6
    <3>2. Len(s) = IF k + 1 <= h - 1 THEN (h - 1) - (k + 1) + 1 ELSE 0
      BY <2>2, <2>5
    <3>3. CASE k + 1 <= h - 1
      <4>1. Len(s) = (h - 1) - (k + 1) + 1
        BY <3>2, <3>3
      <4> QED BY <3>1, <4>1
    <3>4. CASE ~(k + 1 <= h - 1)
      <4>1. Len(s) = 0
        BY <3>2, <3>4
      <4> QED BY <3>1, <3>4, <4>1
    <3> QED BY <3>3, <3>4
  <2>7. \A i \in 1..(h - 1) - k : i \in 1..last - first + 1 /\ first + i - 1 = k + i
    BY <1>1, <1>6, <2>2
  <2>8. \A i \in 1..(h - 1) - k : s[i] = learned[n][k + i]
    BY <2>5, <2>7
  <2>9. s = Ready(n)
    BY <1>5, <2>2, <2>5
  <2> QED BY <2>5, <2>6, <2>8, <2>9
<1>8. PICK ready \in Seq(Command) : /\ ready = Ready(n) /\ Len(ready) = (h - 1) - k
                                    /\ \A i \in 1..(h - 1) - k : ready[i] = learned[n][k + i]
  BY <1>7
<1> DEFINE done == before \o ready
<1>9. /\ done \in Seq(Command) /\ Len(done) = Len(before) + Len(ready)
      /\ \A i \in 1..Len(before) + Len(ready) : done[i] = IF i <= Len(before) THEN before[i] ELSE ready[i - Len(before)]
  BY ConcatProperties
<1> HIDE DEF done
<1>10. Len(done) = h - 1
  BY <1>1, <1>6, <1>8, <1>9
<1>11. ASSUME NEW i \in 1..Len(done)
       PROVE  i \in Slot /\ learned[n][i] # None /\ done[i] = learned[n][i]
  <2>1. i \in 1..Len(before) + Len(ready) /\ i \in Nat /\ i >= 1 /\ i <= h - 1
    BY <1>6, <1>9, <1>10
  <2>2. CASE i <= k
    <3>1. i \in 1..k /\ i <= Len(before)
      BY <1>1, <2>1, <2>2
    <3> QED BY <1>2, <1>9, <2>1, <3>1
  <2>3. CASE ~(i <= k)
    <3>1. i - k \in Nat /\ i = k + (i - k) /\ (i - k) \in 1..(h - 1) - k /\ i \in k + 1..(h - 1) /\ ~(i <= Len(before))
      <4>1. h \in Nat /\ k \in Nat /\ i \in Nat /\ k + 1 <= i /\ i <= h - 1
        BY <1>1, <1>6, <2>1, <2>3
      <4>2. i - k \in Nat /\ i = k + (i - k) /\ (i - k) \in 1..(h - 1) - k
        BY <4>1
      <4> QED BY <1>1, <2>3, <4>1, <4>2
    <3>2. PICK j \in Nat : j = i - k /\ i = k + j /\ j \in 1..(h - 1) - k /\ i \in k + 1..(h - 1) /\ ~(i <= Len(before))
      BY <3>1
    <3>3. done[i] = ready[j]
      BY <1>1, <1>9, <2>1, <3>2
    <3> QED BY <1>6, <1>8, <3>2, <3>3
  <2> QED BY <2>2, <2>3
<1> QED BY <1>1, <1>8, <1>9, <1>11 DEF done

\* A node that has applied more, or has only loaded its machine
LEMMA NodeApplies ==
    ASSUME ApplyInv, NEW n \in Server, NEW done \in Seq(Command), UNCHANGED <<chosen, learned, journal>>,
           \A i \in 1..Len(done) : i \in Slot /\ learned[n][i] # None /\ done[i] = learned[n][i],
           applied' = [applied EXCEPT ![n] = done],
           machine' = [machine EXCEPT ![n] = Replay(done)],
           \A m \in msgs' : m \in msgs \/ m.type = "Request"
    PROVE  NodesInv' /\ machine'[n] = Replay(applied'[n])
<1>1. ApplyTypes /\ DecisionsAreChosen /\ MachinesAreReplays
  BY DEF ApplyInv, NodesInv
<1>2. applied'[n] = done /\ machine'[n] = Replay(done) /\ Replay(done) \in Seq(Request)
  BY <1>1, ReplayFacts DEF ApplyTypes
<1>3. \A p \in Server : p # n => applied'[p] = applied[p] /\ machine'[p] = machine[p]
  BY <1>1 DEF ApplyTypes
<1>4. ApplyTypes'
  BY <1>1, <1>2 DEF ApplyTypes
<1>5. DecisionsAreChosen'
  <2>1. \A p \in Server, s \in Slot : learned'[p][s] # None => learned'[p][s] = chosen'[s]
    BY <1>1 DEF DecisionsAreChosen
  <2>2. \A m \in msgs' : m.type = "Response" =>
          \A s \in DOMAIN m.decisions : s \in Slot /\ chosen'[s] # None /\ m.decisions[s] = chosen'[s]
    BY <1>1 DEF DecisionsAreChosen
  <2>3. ASSUME NEW p \in Server, NEW i \in 1..Len(applied'[p])
        PROVE  i \in Slot /\ chosen'[i] # None /\ applied'[p][i] = chosen'[i] /\ learned'[p][i] = chosen'[i]
    <3>1. CASE p = n
      <4>1. i \in Slot /\ learned[n][i] # None /\ applied'[p][i] = learned[n][i]
        BY <1>2, <3>1
      <4>2. learned[n][i] = chosen[i]
        BY <1>1, <4>1 DEF DecisionsAreChosen
      <4> QED BY <3>1, <4>1, <4>2
    <3>2. CASE p # n
      <4>1. i \in 1..Len(applied[p]) /\ applied'[p] = applied[p]
        BY <1>3, <3>2
      <4>2. i \in Slot /\ chosen[i] # None /\ applied[p][i] = chosen[i] /\ learned[p][i] = chosen[i]
        BY <1>1, <4>1 DEF DecisionsAreChosen
      <4> QED BY <4>1, <4>2
    <3> QED BY <3>1, <3>2
  <2> QED BY <2>1, <2>2, <2>3 DEF DecisionsAreChosen
<1>6. MachinesAreReplays'
  BY <1>1, <1>2, <1>3 DEF MachinesAreReplays
<1> QED BY <1>2, <1>4, <1>5, <1>6 DEF NodesInv

LEMMA ApplyReadyStep ==
    ASSUME ApplyInv, NEW n \in Server, ApplyReady(n), UNCHANGED <<chosen, learned, journal>>
    PROVE  NodesInv' /\ machine'[n] = Replay(applied'[n])
<1>1. ApplyTypes /\ DecisionsAreChosen /\ MachinesAreReplays
  BY DEF ApplyInv, NodesInv
<1> DEFINE done == applied[n] \o Ready(n)
<1>2. /\ machine' = [machine EXCEPT ![n] = Execute(Loaded(n), Ready(n))]
      /\ applied' = [applied EXCEPT ![n] = done]
      /\ msgs' = msgs \/ msgs' = msgs \cup Requests(n, Len(done) + 1)
  BY DEF ApplyReady, RecoverDecisions
<1>3. /\ Ready(n) \in Seq(Command) /\ done \in Seq(Command)
      /\ \A i \in 1..Len(done) : i \in Slot /\ learned[n][i] # None /\ done[i] = learned[n][i]
  BY <1>1, ReadyFacts
<1>4. Execute(Loaded(n), Ready(n)) = Replay(done)
  <2>1. Loaded(n) = Execute(<<>>, applied[n]) /\ applied[n] \in Seq(Command)
    BY <1>1, LoadedFacts DEF Replay
  <2>2. Execute(Execute(<<>>, applied[n]), Ready(n)) = Execute(<<>>, done)
    BY <1>3, <2>1, ExecuteMore
  <2> QED BY <2>1, <2>2 DEF Replay
<1> HIDE DEF done
<1>5. \A m \in msgs' : m \in msgs \/ m.type = "Request"
  BY <1>2, RequestsAreNoResponses
<1> QED BY <1>2, <1>3, <1>4, <1>5, NodeApplies

LEMMA LoadStep ==
    ASSUME ApplyInv, NEW n \in Server, machine' = [machine EXCEPT ![n] = Loaded(n)],
           UNCHANGED <<applied, chosen, learned, journal, msgs>>
    PROVE  NodesInv' /\ machine'[n] = Replay(applied'[n])
<1>1. ApplyTypes /\ DecisionsAreChosen /\ MachinesAreReplays
  BY DEF ApplyInv, NodesInv
<1>2. Loaded(n) = Replay(applied[n]) /\ applied[n] \in Seq(Command)
  BY <1>1, LoadedFacts
<1>3. \A i \in 1..Len(applied[n]) : i \in Slot /\ learned[n][i] # None /\ applied[n][i] = learned[n][i]
  BY <1>1 DEF DecisionsAreChosen
<1>4. applied' = [applied EXCEPT ![n] = applied[n]]
  BY <1>1 DEF ApplyTypes
<1> QED BY <1>2, <1>3, <1>4, NodeApplies

LEMMA ApplyReadyDecisionsStep ==
    ASSUME ApplyInv, NEW n \in Server, Apply(n)
    PROVE  ApplyInv'
<1>1. UNCHANGED <<chosen, learned, journal, acks>>
  BY DEF Apply, client
<1>2. NodesInv'
  BY <1>1, ApplyReadyStep DEF Apply
<1> QED BY <1>1, <1>2, JournalStays DEF ApplyInv

\* An answer is published only for what this node's applied prefix has.
LEMMA PollStep ==
    ASSUME ApplyInv, NEW n \in Server, NEW r \in Request, NEW apply \in BOOLEAN, Poll(n, r, apply)
    PROVE  ApplyInv'
<1>1. JournalInv /\ RealTimeOrder
  BY DEF ApplyInv
<1>2. r \in DOMAIN journal /\ UNCHANGED <<chosen, learned, journal>>
  BY DEF Poll
<1>3. NodesInv' /\ machine'[n] = Replay(applied'[n])
  <2>1. CASE apply
    BY <1>2, <2>1, ApplyReadyStep DEF Poll
  <2>2. CASE ~apply
    BY <1>2, <2>2, LoadStep DEF Poll, episode
  <2> QED BY <2>1, <2>2
<1>4. CASE ~Contains(machine'[n], r)
  <2>1. acks' = acks
    BY <1>4 DEF Poll
  <2> QED BY <1>2, <1>3, <2>1, JournalStays DEF ApplyInv
<1>5. CASE Contains(machine'[n], r)
  <2>1. acks' = acks \cup {[request |-> r, result |-> Result(machine'[n], r)]}
    BY <1>5 DEF Poll
  <2>2. PICK commands \in Seq(Command) : /\ commands = applied'[n] /\ machine'[n] = Replay(commands)
                                         /\ \A i \in 1..Len(commands) : i \in Slot /\ chosen[i] # None /\ commands[i] = chosen[i]
    BY <1>2, <1>3 DEF NodesInv, ApplyTypes, DecisionsAreChosen
  <2>3. PICK jr \in SUBSET Request : jr = journal[r]
    BY <1>1, <1>2 DEF JournalInv
  <2>4. DecidedBefore(chosen, jr, r)
    BY <1>1, <1>2, <2>3, SlotFacts DEF JournalInv, DecidedBefore
  <2>5. Contains(commands, r) /\ \A e \in jr : Contains(Result(machine'[n], r), e)
    <3>1. Contains(Replay(commands), r)
      BY <1>5, <2>2
    <3>2. \A i \in 1..Len(commands) : commands[i] = chosen[i]
      BY <2>2
    <3>3. Contains(commands, r) /\ \A e \in jr : Contains(Result(Replay(commands), r), e)
      BY <2>4, <3>1, <3>2, ResultIsOrdered
    <3> QED BY <2>2, <3>3
  <2>6. \E s \in Slot : chosen[s] = r /\ Decided(s)
    <3>1. PICK s \in 1..Len(commands) : commands[s] = r
      BY <2>5, ContainsIn
    <3>2. Len(commands) \in Nat
      BY LenProperties
    <3>3. \A i \in 1..s : i \in 1..Len(commands)
      BY <3>2
    <3>4. s \in Slot /\ chosen[s] = r
      BY <2>2, <3>1
    <3>5. Decided(s)
      BY <2>2, <3>3 DEF Decided
    <3> QED BY <3>4, <3>5
  <2>7. JournalInv'
    <3>1. \A s : Decided(s)' <=> Decided(s)
      BY <1>2 DEF Decided
    <3>2. \A s \in Slot : chosen'[s] \in DOMAIN journal' \cup {NoOp, None}
      BY <1>1, <1>2 DEF JournalInv
    <3>3. \A a \in acks' : a.request \in DOMAIN journal' /\ \E s \in Slot : chosen'[s] = a.request /\ Decided(s)'
      BY <1>1, <1>2, <2>1, <2>6, <3>1 DEF JournalInv
    <3>4. \A q \in DOMAIN journal' : \A e \in journal'[q] :
              e \in Request /\ \E s \in Slot : chosen'[s] = e /\ Decided(s)' /\ \A i \in 1..s : chosen'[i] # q
      BY <1>1, <1>2, <3>1 DEF JournalInv
    <3> QED BY <3>2, <3>3, <3>4 DEF JournalInv
  <2>8. RealTimeOrder'
    BY <1>1, <1>2, <2>1, <2>3, <2>5 DEF RealTimeOrder
  <2> QED BY <1>3, <2>7, <2>8 DEF ApplyInv
<1> QED BY <1>4, <1>5

LEMMA ApplyInvStep == ApplyInv /\ [Next]_vars => ApplyInv'
<1> SUFFICES ASSUME ApplyInv, [Next]_vars PROVE ApplyInv'
  OBVIOUS
<1>1. ASSUME NEW n \in Server, NEW slot \in Slot, NEW command \in Command, Decide(n, slot, command) PROVE ApplyInv'
  BY <1>1, DecideStep
<1>2. ASSUME NEW n \in Server, NEW slot \in Slot, Learn(n, slot) PROVE ApplyInv'
  BY <1>2, LearnStep
<1>3. ASSUME NEW n \in Server, Apply(n) PROVE ApplyInv'
  BY <1>3, ApplyReadyDecisionsStep
<1>4. ASSUME NEW n \in Server, NEW t \in timers[n], RetryRecovery(n, t) PROVE ApplyInv'
  BY <1>4, RetryRecoveryStep
<1>5. ASSUME NEW n \in Server, NEW m \in msgs, ReceiveRecoveryRequest(n, m) PROVE ApplyInv'
  BY <1>5, ReceiveRecoveryRequestStep
<1>6. ASSUME NEW n \in Server, NEW m \in msgs, ReceiveRecoveryResponse(n, m) PROVE ApplyInv'
  BY <1>6, ReceiveRecoveryResponseStep
<1>7. ASSUME NEW n \in Server, NEW r \in Request, NEW apply \in BOOLEAN, Poll(n, r, apply) PROVE ApplyInv'
  BY <1>7, PollStep
<1>8. ASSUME NEW n \in Server, Crash(n) PROVE ApplyInv'
  BY <1>8, CrashStep
<1>9. ASSUME NEW m \in msgs, Lose(m) PROVE ApplyInv'
  BY <1>9, LoseStep
<1>10. ASSUME NEW r \in Request, Submit(r) PROVE ApplyInv'
  BY <1>10, SubmitStep
<1>11. CASE UNCHANGED vars
  <2>1. UNCHANGED <<chosen, learned, applied, machine, msgs, journal, acks>>
    BY <1>11 DEF vars, nodeState, client
  <2> QED BY <2>1 DEF ApplyInv, NodesInv, ApplyTypes, DecisionsAreChosen, MachinesAreReplays, JournalInv,
                      Decided, RealTimeOrder
<1> QED BY <1>1, <1>2, <1>3, <1>4, <1>5, <1>6, <1>7, <1>8, <1>9, <1>10, <1>11 DEF Next, NodeStep

LEMMA ApplyInvariant == Spec => []ApplyInv
BY ApplyInitially, ApplyInvStep, PTL DEF Spec

\* On every node the durable applied prefix is the decided one, and the state in memory is what
\* that prefix replays to, whatever is lost, repeated or late, also after crashes between two
\* passes of apply_ready.
THEOREM MachinesFollow == Spec => []MachinesFollowTheLog
<1>1. ApplyInv => MachinesFollowTheLog
  BY DEF ApplyInv, NodesInv, DecisionsAreChosen, MachinesAreReplays, MachinesFollowTheLog
<1> QED BY <1>1, ApplyInvariant, PTL

\* submit and poll keep the order that clients can observe: a request that was submitted after
\* the acknowledgement of another one takes effect after it.
THEOREM CompletedOperationsAreOrdered == Spec => []RealTimeOrder
<1>1. ApplyInv => RealTimeOrder
  BY DEF ApplyInv
<1> QED BY <1>1, ApplyInvariant, PTL


-----------------------------------------------------------------------------
(* Client sessions: the invariant *)

ClientRequests == [client : Client, id : 0..MaxRequest, op : Writes]
StoredKeys == {o.key : o \in Operation}
Invocations == [client : Client, op : Operation, inv : Nat, resp : Nat, result : StoredValue, abandoned : BOOLEAN]
Replicas == [applied : Nat, state : [StoredKeys -> StoredValue], requests : SUBSET ClientRequests]
Sessions == [floor : -1..MaxRequest, write : Nat, read : Nat]

ClientTypeInv ==
    /\ history \in Seq(Invocations) /\ clock \in Nat
    /\ requestId \in Seq(-1..MaxRequest) /\ Len(requestId) = Len(history)
    /\ session \in [Client -> Sessions]
    /\ submitted \in SUBSET ClientRequests
    /\ log \in Seq(ClientRequests)
    /\ kv \in [Node -> Replicas]

\* Request q is among the first i of the log.
LoggedBy(q, i) == \E j \in 1..i : log[j] = q

Logged(q) == LoggedBy(q, Len(log))

\* A client's ids are of one request each, and the log has every request that is followed by
\* another of its client: before any later one.
RequestInv ==
    /\ \A i \in 1..Len(log) : log[i] \in submitted
    /\ \A p, q \in submitted : p.client = q.client /\ p.id = q.id => p = q
    /\ \A p, q \in submitted : p.client = q.client /\ q.id < p.id => Logged(q)
    /\ \A i \in 1..Len(log), q \in submitted :
          q.client = log[i].client /\ q.id < log[i].id => LoggedBy(q, i - 1)

\* Replica r has applied exactly the first i requests of the log.
IsAppliedTo(r, i) ==
    /\ r \in Replicas /\ r.applied = i
    /\ \A q : q \in r.requests <=> LoggedBy(q, i)

ReplicaInv == \A n \in Node : kv[n].applied <= Len(log) /\ IsAppliedTo(kv[n], kv[n].applied)

IsUnresolved(c, i) == history[i].client = c /\ history[i].resp = 0 /\ ~history[i].abandoned

\* q is not the request of the pending write of c.
IsNotPending(c, q) == session[c].write = 0 \/ q # RequestOf(session[c].write)

\* The floor of a session is the id of its latest answered request, and all of its requests but
\* that of the pending write are in the log, at the floor or below.
SessionInv(c) ==
    LET s == session[c]
    IN  /\ s.write = 0 \/ s.read = 0
        /\ \A i \in 1..Len(history) : IsUnresolved(c, i) <=> i = s.write \/ i = s.read
        /\ s.write # 0 =>
              /\ s.write \in 1..Len(history)
              /\ history[s.write].op.type # "get"
              /\ RequestOf(s.write) \in submitted
              /\ requestId[s.write] >= s.floor
        /\ s.read # 0 =>
              /\ s.read \in 1..Len(history)
              /\ history[s.read].op.type = "get"
              /\ requestId[s.read] = -1
        /\ s.floor = -1 \/ \E q \in submitted : Logged(q) /\ q.client = c /\ q.id = s.floor
        /\ \A q \in submitted : q.client = c /\ IsNotPending(c, q) => q.id <= s.floor /\ Logged(q)

ClientInv == ClientTypeInv /\ RequestInv /\ ReplicaInv /\ \A c \in Client : SessionInv(c)

-----------------------------------------------------------------------------
(* Client sessions: replicas *)

LEMMA ClientRequestFacts ==
    ASSUME NEW q \in ClientRequests
    PROVE  /\ q.client \in Client /\ q.op \in Writes /\ q.op \in Operation
           /\ q.id \in Int /\ 0 <= q.id /\ q.id <= MaxRequest
           /\ q = [client |-> q.client, id |-> q.id, op |-> q.op]
<1>1. q.client \in Client /\ q.id \in 0..MaxRequest /\ q.op \in Writes
      /\ q = [client |-> q.client, id |-> q.id, op |-> q.op]
  BY DEF ClientRequests
<1>2. q.op \in Operation
  BY <1>1 DEF Writes
<1> QED BY <1>1, <1>2, ClientAssumption

\* A set of ids has a greatest one.
LEMMA GreatestId ==
    ASSUME NEW S \in SUBSET (-1..MaxRequest), S # {}
    PROVE  Max(S) \in S /\ \A y \in S : y <= Max(S)
<1>1. MaxRequest \in Nat
  BY ClientAssumption
<1> DEFINE T == {k \in 0..(MaxRequest + 1) : MaxRequest - k \in S}
<1>2. T \in SUBSET Nat
  BY <1>1
<1>3. \A y \in S : y \in Int /\ MaxRequest - y \in T
  <2> TAKE y \in S
  <2>1. y \in -1..MaxRequest
    OBVIOUS
  <2>2. y \in Int /\ -1 <= y /\ y <= MaxRequest
    BY <1>1, <2>1
  <2>3. MaxRequest - y \in 0..(MaxRequest + 1) /\ MaxRequest - (MaxRequest - y) = y
    BY <1>1, <2>2
  <2> QED BY <2>2, <2>3
<1>4. PICK x \in T : \A y \in T : x <= y
  <2>1. T # {}
    BY <1>3
  <2> HIDE DEF T
  <2> QED BY <1>2, <2>1, Least
<1>5. MaxRequest - x \in S /\ x \in Nat
  BY <1>2, <1>4
<1>6. \A y \in S : MaxRequest - x >= y
  <2> TAKE y \in S
  <2>1. x <= MaxRequest - y /\ y \in Int
    BY <1>3, <1>4
  <2> QED BY <1>1, <1>5, <2>1
<1>7. \E m \in S : \A y \in S : m >= y
  BY <1>5, <1>6
<1>8. Max(S) \in S /\ \A y \in S : Max(S) >= y
  BY <1>7 DEF Max
<1>9. \A y \in S : y \in Int
  BY <1>3
<1> QED BY <1>8, <1>9

\* The ids of a client among some requests
LEMMA GreatestOfClient ==
    ASSUME NEW R \in SUBSET ClientRequests, NEW c
    PROVE  /\ Max(Ids(R, c)) \in -1..MaxRequest
           /\ Max(Ids(R, c)) = -1 \/ \E q \in R : q.client = c /\ q.id = Max(Ids(R, c))
           /\ \A q \in R : q.client = c => q.id <= Max(Ids(R, c))
<1>1. \A q \in R : q \in ClientRequests /\ q.id \in -1..MaxRequest
  <2> TAKE q \in R
  <2>1. q \in ClientRequests
    OBVIOUS
  <2> QED BY <2>1, ClientRequestFacts, ClientAssumption
<1>2. Ids(R, c) \in SUBSET (-1..MaxRequest)
  BY <1>1, ClientAssumption DEF Ids
<1>3. -1 \in Ids(R, c)
  BY DEF Ids
<1>4. Max(Ids(R, c)) \in Ids(R, c) /\ \A y \in Ids(R, c) : y <= Max(Ids(R, c))
  BY <1>2, <1>3, GreatestId
<1> DEFINE m == Max(Ids(R, c))
<1> HIDE DEF m
<1>5. m \in Ids(R, c) /\ \A y \in Ids(R, c) : y <= m
  BY <1>4 DEF m
<1>6. m = -1 \/ \E q \in R : q.client = c /\ q.id = m
  BY <1>5 DEF Ids
<1>7. \A q \in R : q.client = c => q.id <= m
  BY <1>5 DEF Ids
<1> QED BY <1>2, <1>5, <1>6, <1>7 DEF m

LEMMA LoggedMore ==
    ASSUME NEW q, NEW i \in Nat
    PROVE  LoggedBy(q, i + 1) <=> LoggedBy(q, i) \/ log[i + 1] = q
<1>1. \A j \in 1..(i + 1) : j \in 1..i \/ j = i + 1
  OBVIOUS
<1>2. (\A j \in 1..i : j \in 1..(i + 1)) /\ i + 1 \in 1..(i + 1)
  OBVIOUS
<1> QED BY <1>1, <1>2 DEF LoggedBy

\* An update of a state
LEMMA ExecutedState ==
    ASSUME NEW state \in [StoredKeys -> StoredValue], NEW o \in Operation
    PROVE  ExecuteOperation(state, o) \in [StoredKeys -> StoredValue]
<1>1. o.key \in StoredKeys /\ o.value \in StoredValue
  BY DEF StoredKeys, StoredValue
<1> QED BY <1>1 DEF ExecuteOperation

\* One more request of the log.  It is known already if it is not executed: a later request of its
\* client would not be in the log before it.
LEMMA AppliedNext ==
    ASSUME ClientTypeInv, RequestInv, NEW r, NEW i \in Nat, i < Len(log), IsAppliedTo(r, i)
    PROVE  IsAppliedTo(ApplyCommand(r, log[i + 1]), i + 1)
<1> DEFINE q == log[i + 1]
<1>1. i + 1 \in 1..Len(log) /\ Len(log) \in Nat
  <2>1. Len(log) \in Nat
    BY LenProperties DEF ClientTypeInv
  <2> QED BY <2>1
<1>2. q \in ClientRequests /\ q \in submitted
  <2>1. q \in submitted
    BY <1>1 DEF RequestInv
  <2> QED BY <2>1 DEF ClientTypeInv
<1>3. r \in Replicas /\ r.applied = i /\ \A p : p \in r.requests <=> LoggedBy(p, i)
  BY DEF IsAppliedTo
<1>4. r.applied \in Nat /\ r.state \in [StoredKeys -> StoredValue] /\ r.requests \in SUBSET ClientRequests
      /\ r = [applied |-> r.applied, state |-> r.state, requests |-> r.requests]
  BY <1>3 DEF Replicas
<1>5. \A p : LoggedBy(p, i + 1) <=> LoggedBy(p, i) \/ q = p
  BY LoggedMore
<1> HIDE DEF q
<1>6. CASE q \in r.requests \/ q.id < Max(Ids(r.requests, q.client))
  <2>1. q \in r.requests
    <3> SUFFICES ASSUME q.id < Max(Ids(r.requests, q.client)) PROVE q \in r.requests
      BY <1>6
    <3> DEFINE m == Max(Ids(r.requests, q.client))
    <3>1. m = -1 \/ \E p \in r.requests : p.client = q.client /\ p.id = m
      BY <1>4, GreatestOfClient
    <3>2. q.id \in Int /\ 0 <= q.id /\ q.id < m
      BY <1>2, ClientRequestFacts
    <3> HIDE DEF m
    <3>3. PICK p \in r.requests : p.client = q.client /\ p.id = m
      BY <3>1, <3>2
    <3>4. PICK j \in 1..i : log[j] = p
      BY <1>3 DEF LoggedBy
    <3>5. j \in 1..Len(log) /\ j \in Nat /\ j - 1 \in Nat /\ j - 1 < i
      BY <1>1
    <3>6. q.client = log[j].client /\ q.id < log[j].id
      BY <3>2, <3>3, <3>4
    <3>7. LoggedBy(q, j - 1)
      BY <1>2, <3>5, <3>6 DEF RequestInv
    <3>8. LoggedBy(q, i)
      <4>1. \A l \in 1..(j - 1) : l \in 1..i
        BY <3>5
      <4> QED BY <3>7, <4>1 DEF LoggedBy
    <3> QED BY <1>3, <3>8
  <2>2. ApplyCommand(r, q) = [r EXCEPT !.applied = @ + 1]
    BY <1>6 DEF ApplyCommand
  <2>3. [r EXCEPT !.applied = @ + 1] = [applied |-> i + 1, state |-> r.state, requests |-> r.requests]
    BY <1>3, <1>4
  <2> DEFINE s == [applied |-> i + 1, state |-> r.state, requests |-> r.requests]
  <2>4. s \in Replicas /\ s.applied = i + 1 /\ s.requests = r.requests
    BY <1>4 DEF Replicas
  <2>5. ApplyCommand(r, q) = s
    BY <2>2, <2>3
  <2> HIDE DEF s
  <2>6. \A p : p \in s.requests <=> LoggedBy(p, i + 1)
    BY <1>3, <1>5, <2>1, <2>4
  <2>7. IsAppliedTo(s, i + 1)
    BY <2>4, <2>6 DEF IsAppliedTo
  <2> QED BY <2>5, <2>7 DEF q
<1>7. CASE ~(q \in r.requests \/ q.id < Max(Ids(r.requests, q.client)))
  <2> DEFINE state == ExecuteOperation(r.state, q.op)
             s == [applied |-> i + 1, state |-> state, requests |-> r.requests \cup {q}]
  <2>1. ApplyCommand(r, q) = s
    BY <1>3, <1>7 DEF ApplyCommand
  <2>2. state \in [StoredKeys -> StoredValue]
    <3>1. q.op \in Operation
      BY <1>2, ClientRequestFacts
    <3> QED BY <1>4, <3>1, ExecutedState
  <2> HIDE DEF state
  <2>3. s \in Replicas /\ s.applied = i + 1 /\ s.requests = r.requests \cup {q}
    <3>1. r.requests \cup {q} \in SUBSET ClientRequests /\ i + 1 \in Nat
      BY <1>2, <1>4
    <3> QED BY <2>2, <3>1 DEF Replicas
  <2> HIDE DEF s
  <2>4. \A p : p \in s.requests <=> LoggedBy(p, i + 1)
    BY <1>3, <1>5, <2>3
  <2>5. IsAppliedTo(s, i + 1)
    BY <2>3, <2>4 DEF IsAppliedTo
  <2> QED BY <2>1, <2>5 DEF q
<1> QED BY <1>6, <1>7

\* The replica n from a commit index to the next
AfterTo(g, n, i) ==
    g = [j \in kv[n].applied..i |-> IF j = kv[n].applied THEN kv[n] ELSE ApplyCommand(g[j - 1], log[j])]

LEMMA AfterExists ==
    ASSUME NEW n, kv[n].applied \in Nat, NEW k \in Nat
    PROVE  \E g : AfterTo(g, n, kv[n].applied + k)
<1> DEFINE a == kv[n].applied
           S == {i \in Nat : \E g : AfterTo(g, n, a + i)}
<1>1. 0 \in S
  <2>1. AfterTo([j \in a..(a + 0) |-> kv[n]], n, a + 0)
    <3>1. a + 0 = a
      OBVIOUS
    <3> QED BY <3>1 DEF AfterTo
  <2> QED BY <2>1
<1>2. ASSUME NEW i \in 1..k, i - 1 \in S PROVE i \in S
  <2> DEFINE d == a + i
  <2>0. d \in Nat /\ a + (i - 1) = d - 1 /\ a <= d - 1 /\ i \in Nat
    OBVIOUS
  <2> HIDE DEF d
  <2>1. PICK g : AfterTo(g, n, d - 1)
    BY <1>2, <2>0
  <2> DEFINE h == [j \in a..d |-> IF j = a THEN kv[n] ELSE ApplyCommand(g[j - 1], log[j])]
  <2>2. \A j \in a..(d - 1) : g[j] = h[j]
    <3>1. \A j \in a..(d - 1) : j \in a..d
      BY <2>0
    <3>2. \A j \in a..(d - 1) : g[j] = IF j = a THEN kv[n] ELSE ApplyCommand(g[j - 1], log[j])
      BY <2>1 DEF AfterTo
    <3> QED BY <3>1, <3>2
  <2>3. \A j \in a..d : j # a => g[j - 1] = h[j - 1]
    <3>1. \A j \in a..d : j # a => j - 1 \in a..(d - 1)
      BY <2>0
    <3> HIDE DEF h
    <3> QED BY <2>2, <3>1
  <2>4. h = [j \in a..d |-> IF j = a THEN kv[n] ELSE ApplyCommand(h[j - 1], log[j])]
    <3>1. \A j \in a..d : (IF j = a THEN kv[n] ELSE ApplyCommand(g[j - 1], log[j]))
                            = (IF j = a THEN kv[n] ELSE ApplyCommand(h[j - 1], log[j]))
      <4> HIDE DEF h
      <4> QED BY <2>3
    <3> DEFINE h2 == [j \in a..d |-> IF j = a THEN kv[n] ELSE ApplyCommand(h[j - 1], log[j])]
    <3>2. \A j \in a..d : h[j] = h2[j]
      BY <3>1
    <3>3. h = [j \in a..d |-> h[j]] /\ h2 = [j \in a..d |-> h2[j]]
      OBVIOUS
    <3> HIDE DEF h, h2
    <3>4. h = h2
      BY <3>2, <3>3
    <3> QED BY <3>4 DEF h2
  <2>5. AfterTo(h, n, d)
    <3> HIDE DEF h
    <3> QED BY <2>4 DEF AfterTo
  <2> QED BY <2>0, <2>5 DEF d
<1>3. \A i \in 0..k : i \in S
  <2> HIDE DEF S
  <2> QED BY <1>1, <1>2, UpTo
<1>4. k \in 0..k
  OBVIOUS
<1> QED BY <1>3, <1>4

\* apply_committed reaches the commit index, and no request is left out.
LEMMA AppliedFacts ==
    ASSUME ClientInv, NEW n \in Node, NEW i \in kv[n].applied..Len(log)
    PROVE  IsAppliedTo(Applied(n, i), i)
<1> DEFINE a == kv[n].applied
           g == CHOOSE f : AfterTo(f, n, i)
<1>1. a \in Nat /\ i \in Nat /\ a <= i /\ i <= Len(log) /\ Len(log) \in Nat /\ IsAppliedTo(kv[n], a)
  <2>1. kv[n] \in Replicas
    BY DEF ClientInv, ClientTypeInv
  <2>2. a \in Nat
    BY <2>1 DEF Replicas
  <2>3. Len(log) \in Nat
    BY LenProperties DEF ClientInv, ClientTypeInv
  <2>4. IsAppliedTo(kv[n], a)
    BY DEF ClientInv, ReplicaInv
  <2> QED BY <2>2, <2>3, <2>4
<1>2. Applied(n, i) = g[i]
  BY DEF Applied, AfterTo
<1>3. AfterTo(g, n, i)
  <2>1. i - a \in Nat /\ a + (i - a) = i
    BY <1>1
  <2>2. \E f : AfterTo(f, n, a + (i - a))
    BY <1>1, <2>1, AfterExists
  <2> QED BY <2>1, <2>2
<1> HIDE DEF g
<1>4. g[a] = kv[n] /\ \A j \in (a + 1)..i : g[j] = ApplyCommand(g[j - 1], log[j])
  <2> HIDE DEF a
  <2>1. g = [j \in a..i |-> IF j = a THEN kv[n] ELSE ApplyCommand(g[j - 1], log[j])]
    BY <1>3 DEF AfterTo, a
  <2>2. a \in a..i /\ \A j \in (a + 1)..i : j \in a..i /\ j # a
    BY <1>1
  <2> QED BY <2>1, <2>2
<1> DEFINE S == {j \in Nat : IsAppliedTo(g[a + j], a + j)}
<1> HIDE DEF a
<1>5. 0 \in S
  <2>1. a + 0 = a
    BY <1>1
  <2> QED BY <1>1, <1>4, <2>1
<1>6. ASSUME NEW j \in 1..(i - a), j - 1 \in S PROVE j \in S
  <2> DEFINE d == a + (j - 1)
  <2>1. d \in Nat /\ a + j = d + 1 /\ d + 1 \in (a + 1)..i /\ (d + 1) - 1 = d /\ d < Len(log) /\ j \in Nat
    BY <1>1
  <2>2. IsAppliedTo(g[d], d)
    BY <1>6
  <2> HIDE DEF d
  <2>3. g[d + 1] = ApplyCommand(g[d], log[d + 1])
    BY <1>4, <2>1
  <2>4. IsAppliedTo(ApplyCommand(g[d], log[d + 1]), d + 1)
    BY <2>1, <2>2, AppliedNext DEF ClientInv
  <2> QED BY <2>1, <2>3, <2>4
<1>7. i - a \in S
  <2> HIDE DEF S
  <2>1. i - a \in Nat /\ i - a \in 0..(i - a)
    BY <1>1
  <2>2. \A j \in 0..(i - a) : j \in S
    BY <1>5, <1>6, <2>1, UpTo
  <2> QED BY <2>1, <2>2
<1>8. IsAppliedTo(g[a + (i - a)], a + (i - a)) /\ a + (i - a) = i
  BY <1>1, <1>7
<1> QED BY <1>2, <1>8

\* No two operations have one identity.
LEMMA NoConflicts ==
    ASSUME ClientInv, NEW n \in Node, NEW i \in kv[n].applied..Len(log)
    PROVE  CanApply(n, i)
<1> DEFINE a == kv[n].applied
           R == kv[n].requests \cup ToSet(Pending(n, i))
<1>1. a \in Nat /\ i \in Nat /\ a <= i /\ i <= Len(log) /\ Len(log) \in Nat /\ IsAppliedTo(kv[n], a)
      /\ log \in Seq(ClientRequests)
  <2>1. kv[n] \in Replicas
    BY DEF ClientInv, ClientTypeInv
  <2>2. a \in Nat
    BY <2>1 DEF Replicas
  <2>3. Len(log) \in Nat /\ log \in Seq(ClientRequests)
    BY LenProperties DEF ClientInv, ClientTypeInv
  <2>4. IsAppliedTo(kv[n], a)
    BY DEF ClientInv, ReplicaInv
  <2> QED BY <2>2, <2>3, <2>4
<1>2. \A q \in R : q \in submitted
  <2>1. \A j \in 1..Len(log) : log[j] \in submitted
    BY DEF ClientInv, RequestInv
  <2>2. ASSUME NEW q \in kv[n].requests PROVE q \in submitted
    <3>1. LoggedBy(q, a)
      BY <1>1 DEF IsAppliedTo
    <3>2. PICK j \in 1..a : log[j] = q
      BY <3>1 DEF LoggedBy
    <3>3. j \in 1..Len(log)
      BY <1>1
    <3> QED BY <2>1, <3>2, <3>3
  <2>3. ASSUME NEW q \in ToSet(Pending(n, i)) PROVE q \in submitted
    <3> DEFINE s == SubSeq(log, a + 1, i)
    <3>1. PICK j \in DOMAIN s : s[j] = q
      BY <2>3 DEF ToSet, Pending
    <3>2. s \in Seq(submitted)
      <4>1. a + 1 \in Int /\ i \in Int /\ \A k \in (a + 1)..i : k \in 1..Len(log)
        BY <1>1
      <4>2. \A k \in (a + 1)..i : log[k] \in submitted
        BY <2>1, <4>1
      <4> QED BY <4>1, <4>2, SubSeqProperties
    <3> HIDE DEF s
    <3>3. j \in 1..Len(s)
      BY <3>1, <3>2, LenProperties
    <3> QED BY <3>1, <3>2, <3>3, ElementOfSeq
  <2> QED BY <2>2, <2>3
<1> HIDE DEF R
<1>3. ~HasConflict(R)
  <2> SUFFICES ASSUME NEW p \in R, NEW q \in R, q.client = p.client, q.id = p.id, q.op # p.op PROVE FALSE
    BY DEF HasConflict
  <2>1. p = q
    BY <1>2 DEF ClientInv, RequestInv
  <2> QED BY <2>1
<1> QED BY <1>3 DEF CanApply, R

-----------------------------------------------------------------------------
(* Client sessions: recovery *)

\* The requests of a replica that has applied the whole log
LEMMA BarrierFacts ==
    ASSUME ClientInv, NEW n \in Node
    PROVE  /\ CanApply(n, Len(log))
           /\ IsAppliedTo(Applied(n, Len(log)), Len(log))
           /\ Applied(n, Len(log)).requests \in SUBSET ClientRequests
           /\ \A q : q \in Applied(n, Len(log)).requests <=> Logged(q)
<1>1. Len(log) \in kv[n].applied..Len(log)
  <2>1. Len(log) \in Nat
    BY LenProperties DEF ClientInv, ClientTypeInv
  <2>2. kv[n].applied \in Nat /\ kv[n].applied <= Len(log)
    BY DEF ClientInv, ReplicaInv, ClientTypeInv, Replicas
  <2> QED BY <2>1, <2>2
<1>2. IsAppliedTo(Applied(n, Len(log)), Len(log))
  BY <1>1, AppliedFacts
<1>3. Applied(n, Len(log)).requests \in SUBSET ClientRequests
  BY <1>2 DEF IsAppliedTo, Replicas
<1>4. \A q : q \in Applied(n, Len(log)).requests <=> Logged(q)
  BY <1>2 DEF IsAppliedTo, Logged
<1> QED BY <1>1, <1>2, <1>3, <1>4, NoConflicts

LEMMA SessionFacts ==
    ASSUME ClientInv, NEW c \in Client
    PROVE  /\ session[c] = [floor |-> session[c].floor, write |-> session[c].write, read |-> session[c].read]
           /\ session[c].floor \in -1..MaxRequest /\ session[c].floor \in Int
           /\ session[c].write \in Nat /\ session[c].read \in Nat
           /\ Unresolved(c) = {session[c].write, session[c].read} \ {0}
<1>1. session[c] \in Sessions
  BY DEF ClientInv, ClientTypeInv
<1>2. /\ session[c] = [floor |-> session[c].floor, write |-> session[c].write, read |-> session[c].read]
      /\ session[c].floor \in -1..MaxRequest /\ session[c].write \in Nat /\ session[c].read \in Nat
  BY <1>1 DEF Sessions
<1>3. session[c].floor \in Int
  BY <1>2, ClientAssumption
<1>4. DOMAIN history = 1..Len(history) /\ Len(history) \in Nat
  BY LenProperties DEF ClientInv, ClientTypeInv
<1>5. SessionInv(c)
  BY DEF ClientInv
<1> DEFINE w == session[c].write
           r == session[c].read
<1>6. /\ \A i \in 1..Len(history) : IsUnresolved(c, i) <=> i = w \/ i = r
      /\ w # 0 => w \in 1..Len(history)
      /\ r # 0 => r \in 1..Len(history)
  BY <1>5 DEF SessionInv
<1>7. Unresolved(c) = {i \in 1..Len(history) : IsUnresolved(c, i)}
  BY <1>4 DEF Unresolved, IsUnresolved
<1>8. 0 \notin 1..Len(history)
  BY <1>4
<1> HIDE DEF w, r
<1>9. {i \in 1..Len(history) : IsUnresolved(c, i)} = {w, r} \ {0}
  BY <1>6, <1>8
<1> QED BY <1>2, <1>3, <1>7, <1>9 DEF w, r

\* The greatest of 0 and at most one other
LEMMA GreatestOfFew == Max({0}) = 0 /\ \A i \in Nat : Max({0} \cup {i}) = i
<1>1. Max({0}) = 0
  <2>1. 0 >= 0
    OBVIOUS
  <2> QED BY <2>1 DEF Max
<1>2. ASSUME NEW i \in Nat PROVE Max({0} \cup {i}) = i
  <2>1. \A y \in {0} \cup {i} : i >= y
    OBVIOUS
  <2>2. \A x \in {0} \cup {i} : (\A y \in {0} \cup {i} : x >= y) => x = i
    OBVIOUS
  <2>3. i \in {0} \cup {i}
    OBVIOUS
  <2> QED BY <2>1, <2>2, <2>3 DEF Max
<1> QED BY <1>1, <1>2

\* What recovery finds pending
LEMMA RecoveredPending ==
    ASSUME ClientInv, NEW c \in Client, NEW R
    PROVE  /\ Recovered(c, R).write = session[c].write
           /\ Recovered(c, R).read = session[c].read
           /\ Recovered(c, R).floor = Max(Ids(R, c))
           /\ Recovered(c, R) = [floor |-> Max(Ids(R, c)), write |-> session[c].write, read |-> session[c].read]
<1> DEFINE w == session[c].write
           r == session[c].read
           W == {i \in Unresolved(c) : history[i].op.type # "get"}
           G == {i \in Unresolved(c) : history[i].op.type = "get"}
<1>1. w \in Nat /\ r \in Nat /\ Unresolved(c) = {w, r} \ {0}
  BY SessionFacts
<1>2. /\ w = 0 \/ r = 0
      /\ w # 0 => history[w].op.type # "get"
      /\ r # 0 => history[r].op.type = "get"
  BY DEF ClientInv, SessionInv
<1>3. Recovered(c, R) = [floor |-> Max(Ids(R, c)), write |-> Max({0} \cup W), read |-> Max({0} \cup G)]
  BY DEF Recovered
<1> HIDE DEF w, r
<1>4. {0} \cup W = {0} \cup {w}
  BY <1>1, <1>2
<1>5. {0} \cup G = {0} \cup {r}
  BY <1>1, <1>2
<1>6. Max({0} \cup W) = w
  BY <1>1, <1>4, GreatestOfFew
<1>7. Max({0} \cup G) = r
  BY <1>1, <1>5, GreatestOfFew
<1>8. Recovered(c, R) = [floor |-> Max(Ids(R, c)), write |-> w, read |-> r]
  BY <1>3, <1>6, <1>7
<1> HIDE DEF W, G
<1> QED BY <1>8 DEF w, r

\* What a leader knows after a barrier is where the session stands: the greatest id of the log is the
\* floor or that of the pending write.
LEMMA FloorFacts ==
    ASSUME ClientInv, NEW c \in Client, NEW R \in SUBSET ClientRequests, \A q : q \in R <=> Logged(q)
    PROVE  LET m == Max(Ids(R, c))
               s == session[c]
           IN  /\ m \in -1..MaxRequest
               /\ m = s.floor \/ (s.write # 0 /\ m = requestId[s.write])
               /\ s.write # 0 => \/ requestId[s.write] > m
                                 \/ requestId[s.write] = m /\ RequestOf(s.write) \in R
               /\ m = -1 \/ \E q \in submitted : Logged(q) /\ q.client = c /\ q.id = m
               /\ \A q \in submitted : q.client = c /\ Logged(q) => q.id <= m
<1> DEFINE m == Max(Ids(R, c))
           f == session[c].floor
           w == session[c].write
<1>1. /\ m \in -1..MaxRequest
      /\ m = -1 \/ \E q \in R : q.client = c /\ q.id = m
      /\ \A q \in R : q.client = c => q.id <= m
  BY GreatestOfClient
<1>2. f \in Int /\ w \in Nat /\ f \in -1..MaxRequest /\ m \in Int
  <2>1. m \in Int
    <3> HIDE DEF m
    <3> QED BY <1>1, ClientAssumption
  <2> QED BY <2>1, SessionFacts
<1>3. /\ w # 0 => w \in 1..Len(history) /\ RequestOf(w) \in submitted /\ requestId[w] >= f
      /\ f = -1 \/ \E q \in submitted : Logged(q) /\ q.client = c /\ q.id = f
      /\ \A q \in submitted : q.client = c /\ (w = 0 \/ q # RequestOf(w)) => q.id <= f /\ Logged(q)
      /\ w # 0 => IsUnresolved(c, w)
  BY DEF ClientInv, SessionInv, IsNotPending
<1> HIDE DEF m, f, w
<1>4. w # 0 => RequestOf(w).client = c /\ RequestOf(w).id = requestId[w]
  BY <1>3 DEF RequestOf, IsUnresolved
<1>5. \A q \in R : q \in submitted
  <2> TAKE q \in R
  <2>1. Logged(q)
    OBVIOUS
  <2>2. PICK j \in 1..Len(log) : log[j] = q
    BY <2>1 DEF Logged, LoggedBy
  <2> QED BY <2>2 DEF ClientInv, RequestInv
<1>6. \A q \in submitted : q \in ClientRequests /\ q.id \in Int /\ 0 <= q.id
  <2> TAKE q \in submitted
  <2>1. q \in ClientRequests
    BY DEF ClientInv, ClientTypeInv
  <2> QED BY <2>1, ClientRequestFacts
<1>7. f <= m
  <2>1. CASE f = -1
    BY <1>1, <1>2, <2>1, ClientAssumption
  <2>2. CASE f # -1
    <3>1. PICK q \in submitted : Logged(q) /\ q.client = c /\ q.id = f
      BY <1>3, <2>2
    <3> QED BY <1>1, <3>1
  <2> QED BY <2>1, <2>2
<1>8. \A q \in submitted : q.client = c /\ Logged(q) => q.id <= m
  BY <1>1
<1>9. m = -1 \/ \E q \in submitted : Logged(q) /\ q.client = c /\ q.id = m
  BY <1>1, <1>5
<1>10. CASE w # 0 /\ RequestOf(w) \in R
  <2>1. requestId[w] \in Int /\ requestId[w] <= m
    BY <1>1, <1>3, <1>4, <1>6, <1>10
  <2>2. requestId[w] = m
    <3>1. m # -1
      BY <1>2, <1>3, <1>4, <1>6, <1>10, <2>1
    <3>2. PICK q \in R : q.client = c /\ q.id = m
      BY <1>1, <3>1
    <3>3. CASE q = RequestOf(w)
      BY <1>4, <1>10, <3>2, <3>3
    <3>4. CASE q # RequestOf(w)
      <4>1. m <= f
        BY <1>3, <1>5, <3>2, <3>4
      <4> QED BY <1>2, <1>3, <1>10, <2>1, <4>1
    <3> QED BY <3>3, <3>4
  <2> QED BY <1>1, <1>8, <1>9, <1>10, <2>2 DEF m, f, w
<1>11. CASE w = 0 \/ RequestOf(w) \notin R
  <2>1. m = f
    <3>1. CASE m = -1
      BY <1>2, <1>7, <3>1
    <3>2. CASE m # -1
      <4>1. PICK q \in R : q.client = c /\ q.id = m
        BY <1>1, <3>2
      <4>2. m <= f
        BY <1>3, <1>5, <1>11, <4>1
      <4> QED BY <1>2, <1>7, <4>2
    <3> QED BY <3>1, <3>2
  <2>2. w # 0 => requestId[w] > m
    <3> SUFFICES ASSUME w # 0 PROVE requestId[w] > m
      OBVIOUS
    <3>1. requestId[w] \in Int /\ requestId[w] >= f /\ 0 <= requestId[w]
      BY <1>3, <1>4, <1>6
    <3>2. requestId[w] # f
      <4> SUFFICES ASSUME requestId[w] = f PROVE FALSE
        OBVIOUS
      <4>1. PICK q \in submitted : Logged(q) /\ q.client = c /\ q.id = f
        BY <1>3, <3>1
      <4>2. q = RequestOf(w)
        BY <1>3, <1>4, <4>1 DEF ClientInv, RequestInv
      <4> QED BY <1>11, <4>1, <4>2
    <3> QED BY <1>2, <2>1, <3>1, <3>2
  <2> QED BY <1>1, <1>8, <1>9, <2>1, <2>2 DEF m, f, w
<1> QED BY <1>10, <1>11

LEMMA SessionIsRecovered == ClientInv => RecoveryRestoresTheSession
<1> SUFFICES ASSUME ClientInv, NEW c \in Client, NEW n \in Node
             PROVE  LET s == session[c]
                        requests == Applied(n, Len(log)).requests
                        new == Recovered(c, requests)
                    IN  /\ CanApply(n, Len(log)) /\ CanRecover(c, requests)
                        /\ new.write = s.write /\ new.read = s.read
                        /\ new.floor = s.floor \/ (s.write # 0 /\ new.floor = requestId[s.write])
  BY DEF RecoveryRestoresTheSession
<1> DEFINE R == Applied(n, Len(log)).requests
           s == session[c]
           m == Max(Ids(R, c))
<1>1. CanApply(n, Len(log)) /\ R \in SUBSET ClientRequests /\ \A q : q \in R <=> Logged(q)
  BY BarrierFacts
<1> HIDE DEF R
<1>2. /\ m = s.floor \/ (s.write # 0 /\ m = requestId[s.write])
      /\ s.write # 0 => \/ requestId[s.write] > m
                        \/ requestId[s.write] = m /\ RequestOf(s.write) \in R
  BY <1>1, FloorFacts
<1>3. Recovered(c, R).write = s.write /\ Recovered(c, R).read = s.read /\ Recovered(c, R).floor = m
  BY RecoveredPending
<1>4. CanRecover(c, R)
  <2>1. s.write \in Nat /\ s.read \in Nat /\ Unresolved(c) = {s.write, s.read} \ {0}
    BY SessionFacts
  <2>2. (s.write = 0 \/ s.read = 0) /\ (s.read # 0 => requestId[s.read] = -1)
    BY DEF ClientInv, SessionInv
  <2> HIDE DEF s, m
  <2>3. Cardinality(Unresolved(c)) <= 1
    <3>1. Unresolved(c) = {} \/ \E x : Unresolved(c) = {x}
      BY <2>1, <2>2
    <3>2. CASE Unresolved(c) = {}
      BY <3>2, FS_EmptySet
    <3>3. CASE \E x : Unresolved(c) = {x}
      <4>1. PICK x : Unresolved(c) = {x}
        BY <3>3
      <4>2. Cardinality({x}) = 1
        BY FS_Singleton
      <4> QED BY <4>1, <4>2
    <3> QED BY <3>1, <3>2, <3>3
  <2>4. ASSUME NEW i \in Unresolved(c), requestId[i] >= 0
        PROVE  requestId[i] > m \/ (requestId[i] = m /\ RequestOf(i) \in R)
    <3>1. i = s.write /\ s.write # 0
      <4>1. CASE i = s.read
        <5>1. requestId[i] = -1
          BY <2>1, <2>2, <4>1
        <5> QED BY <2>4, <5>1
      <4>2. CASE i # s.read
        BY <2>1, <4>2
      <4> QED BY <4>1, <4>2
    <3> QED BY <1>2, <3>1
  <2> QED BY <2>3, <2>4 DEF CanRecover, m
<1> QED BY <1>1, <1>2, <1>3, <1>4 DEF R

\* The fence drops nothing that is committed.
LEMMA NothingIsDropped == ClientInv => NoCommittedRequestIsDropped
<1> SUFFICES ASSUME ClientInv, NEW n \in Node, NEW i \in 1..kv[n].applied
             PROVE  log[i] \in kv[n].requests
  BY DEF NoCommittedRequestIsDropped
<1>1. LoggedBy(log[i], kv[n].applied)
  BY DEF LoggedBy
<1> QED BY <1>1 DEF ClientInv, ReplicaInv, IsAppliedTo

-----------------------------------------------------------------------------
(* Client sessions: the inductive invariant *)

LEMMA ClientInitially == ClientInit => ClientInv
<1> SUFFICES ASSUME ClientInit PROVE ClientInv
  OBVIOUS
<1>1. /\ history = <<>> /\ clock = 0 /\ requestId = <<>> /\ submitted = {} /\ log = <<>>
      /\ session = [c \in Client |-> [floor |-> -1, write |-> 0, read |-> 0]]
      /\ kv = [n \in Node |-> Empty]
  BY DEF ClientInit, HistoryInit
<1>2. /\ \A S : <<>> \in Seq(S)
      /\ Len(<<>>) = 0
  BY EmptySeq
<1>3. Empty \in Replicas /\ Empty.applied = 0 /\ Empty.requests = {}
  <2>1. Absent \in StoredValue
    BY DEF StoredValue
  <2> QED BY <2>1 DEF Empty, Replicas, StoredKeys
<1>4. ClientTypeInv
  <2>1. [floor |-> -1, write |-> 0, read |-> 0] \in Sessions
    BY ClientAssumption DEF Sessions
  <2>2. session \in [Client -> Sessions] /\ kv \in [Node -> Replicas]
    BY <1>1, <1>3, <2>1
  <2> QED BY <1>1, <1>2, <2>2 DEF ClientTypeInv
<1>5. RequestInv
  BY <1>1, <1>2 DEF RequestInv
<1>6. ReplicaInv
  <2> SUFFICES ASSUME NEW n \in Node PROVE kv[n].applied <= Len(log) /\ IsAppliedTo(kv[n], kv[n].applied)
    BY DEF ReplicaInv
  <2>1. kv[n] = Empty
    BY <1>1
  <2>2. \A q : ~LoggedBy(q, 0)
    BY DEF LoggedBy
  <2>3. IsAppliedTo(Empty, 0)
    BY <1>3, <2>2 DEF IsAppliedTo
  <2>4. kv[n].applied = 0 /\ Len(log) = 0
    BY <1>1, <1>2, <1>3, <2>1
  <2> QED BY <2>1, <2>3, <2>4
<1>7. ASSUME NEW c \in Client PROVE SessionInv(c)
  <2>1. session[c].floor = -1 /\ session[c].write = 0 /\ session[c].read = 0
    BY <1>1
  <2>2. \A i : i \notin 1..Len(history)
    BY <1>1, <1>2
  <2> QED BY <1>1, <2>1, <2>2 DEF SessionInv
<1> QED BY <1>4, <1>5, <1>6, <1>7 DEF ClientInv

\* The bounds of the sequences
LEMMA ClientBounds ==
    ASSUME ClientTypeInv
    PROVE  /\ Len(history) \in Nat /\ DOMAIN history = 1..Len(history)
           /\ Len(log) \in Nat /\ DOMAIN log = 1..Len(log)
           /\ DOMAIN requestId = 1..Len(history)
           /\ \A i \in 1..Len(history) : history[i] \in Invocations /\ requestId[i] \in -1..MaxRequest
           /\ \A i \in 1..Len(history) : requestId[i] \in Int
<1>1. /\ history \in Seq(Invocations) /\ requestId \in Seq(-1..MaxRequest) /\ Len(requestId) = Len(history)
      /\ log \in Seq(ClientRequests)
  BY DEF ClientTypeInv
<1>2. Len(history) \in Nat /\ DOMAIN history = 1..Len(history)
  BY <1>1, LenProperties
<1>3. Len(log) \in Nat /\ DOMAIN log = 1..Len(log)
  BY <1>1, LenProperties
<1>4. DOMAIN requestId = 1..Len(history)
  BY <1>1, LenProperties
<1>5. \A i \in 1..Len(history) : history[i] \in Invocations
  BY <1>1, ElementOfSeq
<1>6. \A i \in 1..Len(history) : requestId[i] \in -1..MaxRequest
  BY <1>1, ElementOfSeq
<1>7. \A x \in -1..MaxRequest : x \in Int
  BY ClientAssumption
<1> QED BY <1>2, <1>3, <1>4, <1>5, <1>6, <1>7

\* A session stays right when nothing happens to it and to what it has pending.
LEMMA OtherSession ==
    ASSUME ClientInv, NEW d \in Client, session'[d] = session[d],
           Len(history') \in Nat, Len(history') >= Len(history),
           \A i \in 1..Len(history) :
              /\ IsUnresolved(d, i)' <=> IsUnresolved(d, i)
              /\ IsUnresolved(d, i) => history'[i].op = history[i].op /\ requestId'[i] = requestId[i],
           \A i \in 1..Len(history') : IsUnresolved(d, i)' => i \in 1..Len(history),
           submitted \subseteq submitted', \A q \in submitted' : q.client = d => q \in submitted,
           \A q : Logged(q) => Logged(q)'
    PROVE  SessionInv(d)'
<1>0. PICK f, w, r : f = session[d].floor /\ w = session[d].write /\ r = session[d].read
  OBVIOUS
<1>1. Len(history) \in Nat
  BY ClientBounds DEF ClientInv
<1>2. \A i \in 1..Len(history) : i \in 1..Len(history')
  BY <1>1
<1>3. SessionInv(d)
  BY DEF ClientInv
<1>4. /\ w = 0 \/ r = 0
      /\ \A i \in 1..Len(history) : IsUnresolved(d, i) <=> i = w \/ i = r
  BY <1>0, <1>3 DEF SessionInv
<1>5. w # 0 => /\ w \in 1..Len(history)
               /\ history[w].op.type # "get"
               /\ RequestOf(w) \in submitted
               /\ requestId[w] >= f
  BY <1>0, <1>3 DEF SessionInv
<1>6. r # 0 => /\ r \in 1..Len(history)
               /\ history[r].op.type = "get"
               /\ requestId[r] = -1
  BY <1>0, <1>3 DEF SessionInv
<1>7. f = -1 \/ \E q \in submitted : Logged(q) /\ q.client = d /\ q.id = f
  BY <1>0, <1>3 DEF SessionInv
<1>8. \A q \in submitted : q.client = d /\ (w = 0 \/ q # RequestOf(w)) => q.id <= f /\ Logged(q)
  BY <1>0, <1>3 DEF SessionInv, IsNotPending
<1>9. session'[d].floor = f /\ session'[d].write = w /\ session'[d].read = r
  BY <1>0
<1>10. w # 0 => IsUnresolved(d, w) /\ IsUnresolved(d, w)'
  BY <1>4, <1>5
<1>11. r # 0 => IsUnresolved(d, r) /\ IsUnresolved(d, r)'
  BY <1>4, <1>6
<1>12. w # 0 => /\ w \in 1..Len(history')
                /\ history'[w].op.type # "get"
                /\ RequestOf(w)' = RequestOf(w)
                /\ requestId'[w] >= f
  <2> SUFFICES ASSUME w # 0 PROVE w \in 1..Len(history') /\ history'[w].op.type # "get"
                                  /\ RequestOf(w)' = RequestOf(w) /\ requestId'[w] >= f
    OBVIOUS
  <2>1. history'[w].op = history[w].op /\ requestId'[w] = requestId[w]
    BY <1>5, <1>10
  <2>2. history'[w].client = d /\ history[w].client = d
    BY <1>10 DEF IsUnresolved
  <2>3. RequestOf(w)' = RequestOf(w)
    BY <2>1, <2>2 DEF RequestOf
  <2> QED BY <1>2, <1>5, <2>1, <2>3
<1>13. r # 0 => /\ r \in 1..Len(history')
                /\ history'[r].op.type = "get"
                /\ requestId'[r] = -1
  BY <1>2, <1>6, <1>11
<1>14. \A i \in 1..Len(history') : IsUnresolved(d, i)' <=> i = w \/ i = r
  <2> TAKE i \in 1..Len(history')
  <2>1. ASSUME IsUnresolved(d, i)' PROVE i = w \/ i = r
    <3>1. i \in 1..Len(history)
      BY <2>1
    <3> QED BY <1>4, <2>1, <3>1
  <2>2. ASSUME i = w PROVE IsUnresolved(d, i)'
    <3>1. w # 0
      BY <2>2
    <3> QED BY <1>10, <2>2, <3>1
  <2>3. ASSUME i = r PROVE IsUnresolved(d, i)'
    <3>1. r # 0
      BY <2>3
    <3> QED BY <1>11, <2>3, <3>1
  <2> QED BY <2>1, <2>2, <2>3
<1>15. f = -1 \/ \E q \in submitted' : Logged(q)' /\ q.client = d /\ q.id = f
  BY <1>7
<1>16. \A q \in submitted' : q.client = d /\ (w = 0 \/ q # RequestOf(w)') => q.id <= f /\ Logged(q)'
  <2> TAKE q \in submitted'
  <2> SUFFICES ASSUME q.client = d, w = 0 \/ q # RequestOf(w)' PROVE q.id <= f /\ Logged(q)'
    OBVIOUS
  <2>1. q \in submitted
    OBVIOUS
  <2>2. w = 0 \/ q # RequestOf(w)
    BY <1>12
  <2> QED BY <1>8, <2>1, <2>2
<1>17. w # 0 => RequestOf(w)' \in submitted'
  BY <1>5, <1>12
<1> QED BY <1>4, <1>9, <1>12, <1>13, <1>14, <1>15, <1>16, <1>17 DEF SessionInv, IsNotPending

\* A step of a replica
LEMMA ReplicasAdvance ==
    ASSUME ClientInv, NEW n \in Node, NEW i \in kv[n].applied..Len(log), ApplyCommitted(n, i), log' = log
    PROVE  kv' \in [Node -> Replicas] /\ ReplicaInv' /\ kv'[n] = Applied(n, i)
<1>0. PICK r, k : r = Applied(n, i) /\ k = i
  OBVIOUS
<1>1. IsAppliedTo(r, k)
  BY <1>0, AppliedFacts
<1>2. kv' = [kv EXCEPT ![n] = r] /\ kv \in [Node -> Replicas]
  BY <1>0 DEF ApplyCommitted, ClientInv, ClientTypeInv
<1>3. r \in Replicas /\ r.applied = k
  BY <1>1 DEF IsAppliedTo
<1>4. kv' \in [Node -> Replicas] /\ kv'[n] = r /\ \A m \in Node : m # n => kv'[m] = kv[m]
  BY <1>2, <1>3
<1>5. k <= Len(log) /\ \A x, j : IsAppliedTo(x, j)' <=> IsAppliedTo(x, j)
  <2>1. kv[n].applied \in Nat
    BY DEF ClientInv, ClientTypeInv, Replicas
  <2>2. Len(log) \in Nat
    BY ClientBounds DEF ClientInv
  <2>3. \A q, j : LoggedBy(q, j)' <=> LoggedBy(q, j)
    BY DEF LoggedBy
  <2>4. \A x, j : IsAppliedTo(x, j)' <=> IsAppliedTo(x, j)
    BY <2>3 DEF IsAppliedTo
  <2> QED BY <1>0, <2>1, <2>2, <2>4
<1>6. ASSUME NEW m \in Node
      PROVE  kv'[m].applied <= Len(log') /\ IsAppliedTo(kv[m], kv[m].applied)'
  <2>1. CASE m = n
    <3>1. kv'[m] = r /\ kv'[m].applied = k
      BY <1>3, <1>4, <2>1
    <3>2. IsAppliedTo(r, k)'
      BY <1>1, <1>5
    <3> QED BY <1>5, <3>1, <3>2
  <2>2. CASE m # n
    <3>1. kv'[m] = kv[m]
      BY <1>4, <2>2
    <3>2. kv[m].applied <= Len(log) /\ IsAppliedTo(kv[m], kv[m].applied)
      BY DEF ClientInv, ReplicaInv
    <3>3. IsAppliedTo(kv[m], kv[m].applied)'
      <4>1. PICK x, j : x = kv[m] /\ j = kv[m].applied
        OBVIOUS
      <4>2. IsAppliedTo(x, j)'
        BY <1>5, <3>2, <4>1
      <4> QED BY <3>1, <4>1, <4>2
    <3> QED BY <3>1, <3>2, <3>3
  <2> QED BY <2>1, <2>2
<1> QED BY <1>0, <1>4, <1>6 DEF ReplicaInv

\* The parts that depend on the requests and the log alone
LEMMA RequestsStay ==
    ASSUME ClientInv, submitted' = submitted, log' = log
    PROVE  /\ RequestInv' /\ submitted' \in SUBSET ClientRequests /\ log' \in Seq(ClientRequests)
           /\ \A q : Logged(q)' <=> Logged(q)
<1>1. \A q, i : LoggedBy(q, i)' <=> LoggedBy(q, i)
  BY DEF LoggedBy
<1>2. \A q : Logged(q)' <=> Logged(q)
  BY <1>1 DEF Logged
<1>3. RequestInv
  BY DEF ClientInv
<1>4. \A i \in 1..Len(log') : log'[i] \in submitted'
  BY <1>3 DEF RequestInv
<1>5. \A p, q \in submitted' : p.client = q.client /\ p.id = q.id => p = q
  BY <1>3 DEF RequestInv
<1>6. \A p, q \in submitted' : p.client = q.client /\ q.id < p.id => Logged(q)'
  BY <1>2, <1>3 DEF RequestInv
<1>7. \A i \in 1..Len(log'), q \in submitted' : q.client = log'[i].client /\ q.id < log'[i].id => LoggedBy(q, i - 1)'
  BY <1>1, <1>3 DEF RequestInv
<1>8. RequestInv'
  BY <1>4, <1>5, <1>6, <1>7 DEF RequestInv
<1> QED BY <1>2, <1>8 DEF ClientInv, ClientTypeInv

LEMMA ReplicasStay ==
    ASSUME ClientInv, kv' = kv, Len(log') \in Nat, Len(log') >= Len(log), \A i \in 1..Len(log) : log'[i] = log[i]
    PROVE  ReplicaInv'
<1> SUFFICES ASSUME NEW n \in Node
             PROVE  kv'[n].applied <= Len(log') /\ IsAppliedTo(kv[n], kv[n].applied)'
  BY DEF ReplicaInv
<1>0. PICK r, a : r = kv[n] /\ a = kv[n].applied
  OBVIOUS
<1>1. a \in Nat /\ a <= Len(log) /\ IsAppliedTo(r, a) /\ Len(log) \in Nat
  <2>1. kv[n] \in Replicas
    BY DEF ClientInv, ClientTypeInv
  <2>2. a \in Nat
    BY <1>0, <2>1 DEF Replicas
  <2>3. a <= Len(log) /\ IsAppliedTo(r, a)
    BY <1>0 DEF ClientInv, ReplicaInv
  <2> QED BY <2>2, <2>3, ClientBounds DEF ClientInv
<1>2. kv'[n] = r /\ kv'[n].applied = a
  BY <1>0
<1>3. \A j \in 1..a : j \in 1..Len(log)
  BY <1>1
<1>5. \A q : (q \in r.requests <=> LoggedBy(q, a)) /\ r \in Replicas /\ r.applied = a
  BY <1>1 DEF IsAppliedTo
<1>6. \A q : q \in r.requests <=> LoggedBy(q, a)'
  <2> TAKE q
  <2>1. LoggedBy(q, a)' <=> \E j \in 1..a : log'[j] = q
    BY DEF LoggedBy
  <2>2. (\E j \in 1..a : log'[j] = q) <=> LoggedBy(q, a)
    BY <1>3 DEF LoggedBy
  <2> QED BY <1>5, <2>1, <2>2
<1>7. IsAppliedTo(r, a)'
  BY <1>5, <1>6 DEF IsAppliedTo
<1>8. kv'[n].applied <= Len(log')
  BY <1>1, <1>2
<1> QED BY <1>2, <1>7, <1>8

LEMMA ApplyStepKeeps ==
    ASSUME ClientInv, NEW n \in Node, ApplyStep(n)
    PROVE  ClientInv'
<1>1. PICK i \in (kv[n].applied + 1)..Len(log) : ApplyCommitted(n, i)
  BY DEF ApplyStep
<1>2. UNCHANGED <<history, clock, requestId, session, submitted, log>>
  BY DEF ApplyStep
<1>3. i \in kv[n].applied..Len(log)
  <2>1. kv[n].applied \in Nat
    BY DEF ClientInv, ClientTypeInv, Replicas
  <2> QED BY <2>1
<1>4. kv' \in [Node -> Replicas] /\ ReplicaInv'
  BY <1>1, <1>2, <1>3, ReplicasAdvance
<1>5. RequestInv' /\ \A q : Logged(q)' <=> Logged(q)
  BY <1>2, RequestsStay
<1>6. ClientTypeInv'
  BY <1>2, <1>4 DEF ClientInv, ClientTypeInv
<1>7. ASSUME NEW c \in Client PROVE SessionInv(c)'
  <2>1. SessionInv(c)
    BY DEF ClientInv
  <2> QED BY <1>2, <1>5, <2>1 DEF SessionInv, IsUnresolved, IsNotPending, RequestOf
<1> QED BY <1>4, <1>5, <1>6, <1>7 DEF ClientInv

LEMMA CommitStep ==
    ASSUME ClientInv, NEW q \in submitted, Commit(q)
    PROVE  ClientInv'
<1>1. log' = Append(log, q) /\ UNCHANGED <<history, clock, requestId, session, submitted, kv>>
  BY DEF Commit
<1>2. q \in ClientRequests /\ log \in Seq(ClientRequests)
  BY DEF ClientInv, ClientTypeInv
<1>0. PICK k : k = Len(log)
  OBVIOUS
<1>3. /\ k \in Nat /\ Len(log') = k + 1 /\ log' \in Seq(ClientRequests)
      /\ log'[k + 1] = q /\ \A j \in 1..k : log'[j] = log[j]
  <2>1. log' \in Seq(ClientRequests) /\ Len(log') = Len(log) + 1
        /\ log'[Len(log) + 1] = q /\ \A j \in 1..Len(log) : log'[j] = log[j]
    BY <1>1, <1>2, AppendProperties
  <2>2. Len(log) \in Nat
    BY <1>2, LenProperties
  <2> QED BY <1>0, <2>1, <2>2
<1>4. \A p : \A i \in 0..k : LoggedBy(p, i)' <=> LoggedBy(p, i)
  <2>1. \A i \in 0..k : \A j \in 1..i : j \in 1..k
    BY <1>3
  <2> QED BY <1>3, <2>1 DEF LoggedBy
<1>5. \A p : Logged(p) => Logged(p)'
  <2>1. \A j \in 1..k : j \in 1..(k + 1)
    BY <1>3
  <2> QED BY <1>0, <1>3, <2>1 DEF Logged, LoggedBy
<1>6. RequestInv'
  <2>0. RequestInv
    BY DEF ClientInv
  <2>1. \A i \in 1..Len(log') : i \in 1..k \/ i = k + 1
    BY <1>3
  <2>2. \A i \in 1..Len(log') : log'[i] \in submitted'
    BY <1>0, <1>1, <1>3, <2>0, <2>1 DEF RequestInv
  <2>3. \A p, r \in submitted' : p.client = r.client /\ p.id = r.id => p = r
    BY <1>1, <2>0 DEF RequestInv
  <2>4. \A p, r \in submitted' : p.client = r.client /\ r.id < p.id => Logged(r)'
    BY <1>1, <1>5, <2>0 DEF RequestInv
  <2>5. ASSUME NEW i \in 1..Len(log'), NEW r \in submitted', r.client = log'[i].client, r.id < log'[i].id
        PROVE  LoggedBy(r, i - 1)'
    <3>1. CASE i \in 1..k
      <4>1. i - 1 \in 0..k /\ log'[i] = log[i]
        BY <1>3, <3>1
      <4>2. LoggedBy(r, i - 1)
        BY <1>0, <1>1, <2>0, <2>5, <3>1, <4>1 DEF RequestInv
      <4> QED BY <1>4, <4>1, <4>2
    <3>2. CASE i = k + 1
      <4>1. Logged(r)
        BY <1>1, <1>3, <2>0, <2>5, <3>2 DEF RequestInv
      <4>2. LoggedBy(r, k)
        BY <1>0, <4>1 DEF Logged
      <4>3. i - 1 = k /\ k \in 0..k
        BY <1>3, <3>2
      <4> QED BY <1>4, <4>2, <4>3
    <3> QED BY <2>1, <3>1, <3>2
  <2> QED BY <2>2, <2>3, <2>4, <2>5 DEF RequestInv
<1>7. ReplicaInv'
  <2>1. Len(log') \in Nat /\ Len(log') >= Len(log) /\ \A j \in 1..Len(log) : log'[j] = log[j]
    BY <1>0, <1>3
  <2> QED BY <1>1, <2>1, ReplicasStay
<1>8. ClientTypeInv'
  BY <1>1, <1>3 DEF ClientInv, ClientTypeInv
<1>9. ASSUME NEW c \in Client PROVE SessionInv(c)'
  <2>1. \A i : IsUnresolved(c, i)' <=> IsUnresolved(c, i)
    BY <1>1 DEF IsUnresolved
  <2>2. Len(history') \in Nat /\ Len(history') >= Len(history) /\ history' = history
    BY <1>1, ClientBounds DEF ClientInv
  <2> QED BY <1>1, <1>5, <2>1, <2>2, OtherSession
<1> QED BY <1>6, <1>7, <1>8, <1>9 DEF ClientInv

-----------------------------------------------------------------------------
(* Client sessions: histories *)

\* A new operation
LEMMA InvokedFacts ==
    ASSUME ClientTypeInv, NEW c \in Client, NEW o \in Operation, InvokeOperation(c, o),
           NEW k, k = Len(history)
    PROVE  /\ history' \in Seq(Invocations) /\ clock' \in Nat
           /\ k \in Nat /\ Len(history') = k + 1
           /\ \A i \in 1..k : history'[i] = history[i]
           /\ history'[k + 1].client = c /\ history'[k + 1].op = o
           /\ history'[k + 1].resp = 0 /\ ~history'[k + 1].abandoned
<1> DEFINE x == [client |-> c, op |-> o, inv |-> clock + 1, resp |-> 0, result |-> Absent, abandoned |-> FALSE]
<1>1. history' = Append(history, x) /\ clock' = clock + 1 /\ clock \in Nat /\ history \in Seq(Invocations)
  BY DEF InvokeOperation, ClientTypeInv
<1>2. x \in Invocations
  <2>1. Absent \in StoredValue
    BY DEF StoredValue
  <2>2. clock + 1 \in Nat /\ 0 \in Nat
    BY <1>1
  <2> QED BY <2>1, <2>2 DEF Invocations
<1>3. x.client = c /\ x.op = o /\ x.resp = 0 /\ ~x.abandoned
  OBVIOUS
<1> HIDE DEF x
<1>4. /\ history' \in Seq(Invocations) /\ Len(history') = Len(history) + 1
      /\ history'[Len(history) + 1] = x /\ \A i \in 1..Len(history) : history'[i] = history[i]
  BY <1>1, <1>2, AppendProperties
<1>5. k \in Nat /\ clock' \in Nat
  BY <1>1, LenProperties
<1> QED BY <1>3, <1>4, <1>5

\* An id for the new operation
LEMMA AttachedFacts ==
    ASSUME ClientTypeInv, NEW id \in -1..MaxRequest, requestId' = Append(requestId, id),
           NEW k, k = Len(history)
    PROVE  /\ requestId' \in Seq(-1..MaxRequest) /\ Len(requestId') = k + 1
           /\ requestId'[k + 1] = id /\ \A i \in 1..k : requestId'[i] = requestId[i]
<1>1. requestId \in Seq(-1..MaxRequest) /\ Len(requestId) = k
  BY DEF ClientTypeInv
<1>2. /\ requestId' \in Seq(-1..MaxRequest) /\ Len(requestId') = Len(requestId) + 1
      /\ requestId'[Len(requestId) + 1] = id
      /\ \A i \in 1..Len(requestId) : requestId'[i] = requestId[i]
  <2> DEFINE S == -1..MaxRequest
  <2>1. id \in S /\ requestId \in Seq(S)
    BY <1>1
  <2> HIDE DEF S
  <2>2. /\ requestId' \in Seq(S) /\ Len(requestId') = Len(requestId) + 1
        /\ requestId'[Len(requestId) + 1] = id
        /\ \A i \in 1..Len(requestId) : requestId'[i] = requestId[i]
    BY <2>1, AppendProperties
  <2> QED BY <2>2 DEF S
<1> QED BY <1>1, <1>2

\* A change of one operation
LEMMA ChangedFacts ==
    ASSUME ClientTypeInv, NEW i \in 1..Len(history), NEW x \in Invocations,
           history' = [history EXCEPT ![i] = x]
    PROVE  /\ history' \in Seq(Invocations) /\ Len(history') = Len(history) /\ history'[i] = x
           /\ \A j \in 1..Len(history) : j # i => history'[j] = history[j]
<1>1. history \in Seq(Invocations)
  BY DEF ClientTypeInv
<1>2. DOMAIN history = 1..Len(history) /\ Len(history) \in Nat
  BY ClientBounds
<1>3. history' \in Seq(Invocations) /\ Len(history') = Len(history)
  BY <1>1, ExceptSeq
<1>4. history'[i] = x /\ \A j \in 1..Len(history) : j # i => history'[j] = history[j]
  BY <1>2
<1> QED BY <1>3, <1>4

LEMMA RespondedFacts ==
    ASSUME ClientTypeInv, NEW i \in 1..Len(history), NEW v \in StoredValue, Respond(i, v)
    PROVE  /\ history' \in Seq(Invocations) /\ Len(history') = Len(history) /\ clock' \in Nat
           /\ \A j \in 1..Len(history) : j # i => history'[j] = history[j]
           /\ history'[i].client = history[i].client /\ history'[i].op = history[i].op
           /\ history'[i].resp # 0
<1> DEFINE h == history[i]
           x == [client |-> h.client, op |-> h.op, inv |-> h.inv, resp |-> clock + 1, result |-> v, abandoned |-> h.abandoned]
<1>1. h \in Invocations /\ clock \in Nat
  BY ClientBounds DEF ClientTypeInv
<1>2. /\ h = [client |-> h.client, op |-> h.op, inv |-> h.inv, resp |-> h.resp, result |-> h.result, abandoned |-> h.abandoned]
      /\ x \in Invocations
  <2>1. clock + 1 \in Nat
    BY <1>1
  <2> QED BY <1>1, <2>1 DEF Invocations
<1>3. history' = [history EXCEPT ![i].resp = clock + 1, ![i].result = v] /\ clock' = clock + 1
  BY DEF Respond
<1>4. DOMAIN history = 1..Len(history)
  BY ClientBounds
<1> HIDE DEF h
<1>5. [[h EXCEPT !.resp = clock + 1] EXCEPT !.result = v] = x
  <2> DEFINE y == [client |-> h.client, op |-> h.op, inv |-> h.inv, resp |-> clock + 1, result |-> h.result,
                   abandoned |-> h.abandoned]
  <2>1. [h EXCEPT !.resp = clock + 1] = y
    BY <1>2
  <2>2. [y EXCEPT !.result = v] = x
    OBVIOUS
  <2> QED BY <2>1, <2>2
<1>6. history' = [history EXCEPT ![i] = [[h EXCEPT !.resp = clock + 1] EXCEPT !.result = v]]
  BY <1>3, <1>4 DEF h
<1>7. x.client = h.client /\ x.op = h.op /\ x.resp = clock + 1 /\ clock + 1 # 0
  BY <1>1
<1> HIDE DEF x
<1>8. history' = [history EXCEPT ![i] = x]
  BY <1>5, <1>6
<1>9. /\ history' \in Seq(Invocations) /\ Len(history') = Len(history) /\ history'[i] = x
      /\ \A j \in 1..Len(history) : j # i => history'[j] = history[j]
  BY <1>2, <1>8, ChangedFacts
<1>10. clock' \in Nat
  BY <1>1, <1>3
<1> QED BY <1>7, <1>9, <1>10 DEF h

\* The other sessions
LEMMA OthersAfterInvoke ==
    ASSUME ClientInv, NEW c, NEW k, k = Len(history), Len(history') = k + 1, history'[k + 1].client = c,
           \A i \in 1..k : history'[i] = history[i] /\ requestId'[i] = requestId[i],
           submitted \subseteq submitted', \A q \in submitted' : q \in submitted \/ q.client = c,
           log' = log, NEW d \in Client, d # c, session'[d] = session[d]
    PROVE  SessionInv(d)'
<1>1. k \in Nat
  BY ClientBounds DEF ClientInv
<1>2. Len(history') \in Nat /\ Len(history') >= Len(history)
  BY <1>1
<1>3. \A i \in 1..Len(history) : /\ IsUnresolved(d, i)' <=> IsUnresolved(d, i)
                                 /\ IsUnresolved(d, i) => history'[i].op = history[i].op /\ requestId'[i] = requestId[i]
  BY DEF IsUnresolved
<1>4. \A i \in 1..Len(history') : IsUnresolved(d, i)' => i \in 1..Len(history)
  <2> TAKE i \in 1..Len(history')
  <2> SUFFICES ASSUME IsUnresolved(d, i)' PROVE i \in 1..Len(history)
    OBVIOUS
  <2>1. i # k + 1
    BY DEF IsUnresolved
  <2> QED BY <1>1, <2>1
<1>5. \A q : Logged(q) => Logged(q)'
  BY DEF Logged, LoggedBy
<1>6. \A q \in submitted' : q.client = d => q \in submitted
  OBVIOUS
<1> QED BY <1>2, <1>3, <1>4, <1>5, <1>6, OtherSession

LEMMA OthersAfterChange ==
    ASSUME ClientInv, NEW i \in 1..Len(history), NEW c, history[i].client = c, history'[i].client = c,
           Len(history') = Len(history),
           \A j \in 1..Len(history) : j # i => history'[j] = history[j] /\ requestId'[j] = requestId[j],
           submitted' = submitted, log' = log, NEW d \in Client, d # c, session'[d] = session[d]
    PROVE  SessionInv(d)'
<1>1. Len(history) \in Nat
  BY ClientBounds DEF ClientInv
<1>2. ASSUME NEW j \in 1..Len(history)
      PROVE  /\ IsUnresolved(d, j)' <=> IsUnresolved(d, j)
             /\ IsUnresolved(d, j) => history'[j].op = history[j].op /\ requestId'[j] = requestId[j]
  <2>1. CASE j = i
    BY <2>1 DEF IsUnresolved
  <2>2. CASE j # i
    BY <2>2 DEF IsUnresolved
  <2> QED BY <2>1, <2>2
<1>3. \A q : Logged(q) => Logged(q)'
  BY DEF Logged, LoggedBy
<1> QED BY <1>1, <1>2, <1>3, OtherSession

-----------------------------------------------------------------------------
(* Client sessions: operations *)

\* A session with nothing pending
LEMMA IdleSession ==
    ASSUME ClientInv, NEW c \in Client, session[c].write = 0, session[c].read = 0
    PROVE  /\ \A i \in 1..Len(history) : ~IsUnresolved(c, i)
           /\ session[c].floor = -1 \/ \E q \in submitted : Logged(q) /\ q.client = c /\ q.id = session[c].floor
           /\ \A q \in submitted : q.client = c => q.id <= session[c].floor /\ Logged(q)
<1>1. SessionInv(c)
  BY DEF ClientInv
<1>2. \A i \in 1..Len(history) : i # 0
  BY ClientBounds DEF ClientInv
<1>3. \A i \in 1..Len(history) : ~IsUnresolved(c, i)
  BY <1>1, <1>2 DEF SessionInv
<1> QED BY <1>1, <1>3 DEF SessionInv, IsNotPending

\* A new request has an id above all others of its client.
LEMMA NewRequest ==
    ASSUME ClientInv, NEW c \in Client, NEW id \in 0..MaxRequest, NEW o \in Writes,
           \A q \in submitted : q.client = c => q.id < id /\ Logged(q),
           submitted' = submitted \cup {[client |-> c, id |-> id, op |-> o]}, log' = log
    PROVE  RequestInv' /\ submitted' \in SUBSET ClientRequests
<1> DEFINE x == [client |-> c, id |-> id, op |-> o]
<1>1. x \in ClientRequests /\ x.client = c /\ x.id = id
  BY DEF ClientRequests
<1>2. submitted' = submitted \cup {x}
  OBVIOUS
<1> HIDE DEF x
<1>3. RequestInv
  BY DEF ClientInv
<1>4. \A q, i : LoggedBy(q, i)' <=> LoggedBy(q, i)
  BY DEF LoggedBy
<1>5. \A q : Logged(q)' <=> Logged(q)
  BY <1>4 DEF Logged
<1>6. \A q \in submitted : q.client = c => q.id < id /\ q.id \in Int /\ Logged(q)
  <2> TAKE q \in submitted
  <2>1. q \in ClientRequests
    BY DEF ClientInv, ClientTypeInv
  <2> QED BY <2>1, ClientRequestFacts
<1>7. id \in Int
  OBVIOUS
<1>8. \A i \in 1..Len(log') : log'[i] \in submitted'
  BY <1>2, <1>3 DEF RequestInv
<1>9. ASSUME NEW p \in submitted', NEW q \in submitted', p.client = q.client, p.id = q.id
      PROVE  p = q
  <2>1. CASE p \in submitted /\ q \in submitted
    BY <1>3, <1>9, <2>1 DEF RequestInv
  <2>2. CASE p = x /\ q \in submitted
    BY <1>1, <1>6, <1>7, <1>9, <2>2
  <2>3. CASE q = x /\ p \in submitted
    BY <1>1, <1>6, <1>7, <1>9, <2>3
  <2> QED BY <1>2, <2>1, <2>2, <2>3
<1>10. ASSUME NEW p \in submitted', NEW q \in submitted', p.client = q.client, q.id < p.id
       PROVE  Logged(q)'
  <2>1. CASE p \in submitted /\ q \in submitted
    BY <1>3, <1>5, <1>10, <2>1 DEF RequestInv
  <2>2. CASE p = x /\ q \in submitted
    BY <1>1, <1>5, <1>6, <1>10, <2>2
  <2>3. CASE q = x /\ p \in submitted
    BY <1>1, <1>6, <1>7, <1>10, <2>3
  <2>4. CASE p = x /\ q = x
    BY <1>1, <1>7, <1>10, <2>4
  <2> QED BY <1>2, <2>1, <2>2, <2>3, <2>4
<1>11. ASSUME NEW i \in 1..Len(log'), NEW q \in submitted', q.client = log'[i].client, q.id < log'[i].id
       PROVE  LoggedBy(q, i - 1)'
  <2>1. log[i] \in submitted /\ log'[i] = log[i]
    BY <1>3 DEF RequestInv
  <2>2. CASE q \in submitted
    BY <1>3, <1>4, <1>11, <2>1, <2>2 DEF RequestInv
  <2>3. CASE q = x
    BY <1>1, <1>6, <1>7, <1>11, <2>1, <2>3
  <2> QED BY <1>2, <2>2, <2>3
<1>12. RequestInv'
  BY <1>8, <1>9, <1>10, <1>11 DEF RequestInv
<1>13. submitted' \in SUBSET ClientRequests
  BY <1>1, <1>2 DEF ClientInv, ClientTypeInv
<1> QED BY <1>12, <1>13

LEMMA InvokeWriteStep ==
    ASSUME ClientInv, NEW c \in Client, NEW id \in 0..MaxRequest, NEW o \in Writes, InvokeWrite(c, id, o)
    PROVE  ClientInv'
<1> DEFINE x == [client |-> c, id |-> id, op |-> o]
<1>0. PICK k, f : k = Len(history) /\ f = session[c].floor
  OBVIOUS
<1>1. /\ session[c].write = 0 /\ session[c].read = 0 /\ id > f
      /\ InvokeOperation(c, o) /\ requestId' = Append(requestId, id)
      /\ session' = [session EXCEPT ![c].write = k + 1]
      /\ submitted' = submitted \cup {x}
      /\ UNCHANGED <<log, kv>>
  BY <1>0 DEF InvokeWrite, MayWrite, RecordWrite, AttachRequestId
<1>2. ClientTypeInv /\ f \in Int /\ id \in Int /\ id \in -1..MaxRequest /\ o \in Operation /\ o.type # "get"
  <2>1. ClientTypeInv
    BY DEF ClientInv
  <2>2. f \in Int
    BY <1>0, SessionFacts
  <2>3. o \in Operation /\ o.type # "get"
    BY DEF Writes
  <2>4. id \in Int /\ id \in -1..MaxRequest
    BY ClientAssumption
  <2> QED BY <2>1, <2>2, <2>3, <2>4
<1>3. /\ \A i \in 1..Len(history) : ~IsUnresolved(c, i)
      /\ f = -1 \/ \E q \in submitted : Logged(q) /\ q.client = c /\ q.id = f
      /\ \A q \in submitted : q.client = c => q.id <= f /\ Logged(q)
  BY <1>0, <1>1, IdleSession
<1>4. /\ history' \in Seq(Invocations) /\ clock' \in Nat
      /\ k \in Nat /\ Len(history') = k + 1
      /\ \A i \in 1..k : history'[i] = history[i]
      /\ history'[k + 1].client = c /\ history'[k + 1].op = o
      /\ history'[k + 1].resp = 0 /\ ~history'[k + 1].abandoned
  BY <1>0, <1>1, <1>2, InvokedFacts
<1>5. /\ requestId' \in Seq(-1..MaxRequest) /\ Len(requestId') = k + 1
      /\ requestId'[k + 1] = id /\ \A i \in 1..k : requestId'[i] = requestId[i]
  BY <1>0, <1>1, <1>2, AttachedFacts
<1>6. \A q \in submitted : q.client = c => q.id < id /\ Logged(q)
  <2> TAKE q \in submitted
  <2>1. q \in ClientRequests
    BY <1>2 DEF ClientTypeInv
  <2>2. q.id \in Int
    BY <2>1, ClientRequestFacts
  <2> QED BY <1>1, <1>2, <1>3, <2>2
<1>7. RequestInv' /\ submitted' \in SUBSET ClientRequests
  BY <1>1, <1>6, NewRequest
<1>8. ReplicaInv'
  BY <1>1, ReplicasStay, ClientBounds DEF ClientInv
<1>9. /\ session' \in [Client -> Sessions]
      /\ session'[c].floor = f /\ session'[c].write = k + 1 /\ session'[c].read = 0
      /\ \A d \in Client : d # c => session'[d] = session[d]
  <2>1. session \in [Client -> Sessions] /\ k + 1 \in Nat
    BY <1>2, <1>4 DEF ClientTypeInv
  <2> QED BY <1>0, <1>1, <2>1 DEF Sessions
<1>10. ClientTypeInv'
  BY <1>1, <1>2, <1>4, <1>5, <1>7, <1>9 DEF ClientTypeInv
<1>11. SessionInv(c)'
  <2>1. RequestOf(k + 1)' = x
    BY <1>4, <1>5 DEF RequestOf
  <2> HIDE DEF x
  <2>2. \A i \in 1..Len(history') : IsUnresolved(c, i)' <=> i = k + 1 \/ i = 0
    <3> TAKE i \in 1..Len(history')
    <3>1. CASE i \in 1..k
      <4>1. ~IsUnresolved(c, i)'
        BY <1>0, <1>3, <1>4, <3>1 DEF IsUnresolved
      <4>2. i # k + 1 /\ i # 0
        BY <1>4, <3>1
      <4> QED BY <4>1, <4>2
    <3>2. CASE i = k + 1
      BY <1>4, <3>2 DEF IsUnresolved
    <3>3. i \in 1..k \/ i = k + 1
      BY <1>4
    <3> QED BY <3>1, <3>2, <3>3
  <2>3. k + 1 \in 1..Len(history') /\ k + 1 # 0
    BY <1>4
  <2>4. requestId'[k + 1] >= f
    BY <1>1, <1>2, <1>5
  <2>5. \A q : Logged(q)' <=> Logged(q)
    BY <1>1 DEF Logged, LoggedBy
  <2>6. f = -1 \/ \E q \in submitted' : Logged(q)' /\ q.client = c /\ q.id = f
    BY <1>1, <1>3, <2>5
  <2>7. \A q \in submitted' : q.client = c /\ q # x => q.id <= f /\ Logged(q)'
    BY <1>1, <1>3, <2>5
  <2>8. RequestOf(k + 1)' \in submitted' /\ history'[k + 1].op.type # "get"
    BY <1>1, <1>2, <1>4, <2>1
  <2>9. \A q : IsNotPending(c, q)' => q # x
    BY <1>9, <2>1, <2>3 DEF IsNotPending
  <2> QED BY <1>9, <2>2, <2>3, <2>4, <2>6, <2>7, <2>8, <2>9 DEF SessionInv
<1>12. ASSUME NEW d \in Client, d # c PROVE SessionInv(d)'
  <2>1. submitted \subseteq submitted' /\ \A q \in submitted' : q \in submitted \/ q.client = c
    BY <1>1
  <2>2. \A i \in 1..k : history'[i] = history[i] /\ requestId'[i] = requestId[i]
    BY <1>4, <1>5
  <2>3. k = Len(history) /\ Len(history') = k + 1 /\ history'[k + 1].client = c /\ log' = log /\ session'[d] = session[d]
    BY <1>0, <1>1, <1>4, <1>9, <1>12
  <2> QED BY <1>12, <2>1, <2>2, <2>3, OthersAfterInvoke
<1> QED BY <1>7, <1>8, <1>10, <1>11, <1>12 DEF ClientInv

LEMMA InvokeReadStep ==
    ASSUME ClientInv, NEW c \in Client, NEW o \in Reads, InvokeRead(c, o)
    PROVE  ClientInv'
<1>0. PICK k, f : k = Len(history) /\ f = session[c].floor
  OBVIOUS
<1>1. /\ session[c].write = 0 /\ session[c].read = 0
      /\ InvokeOperation(c, o) /\ requestId' = Append(requestId, -1)
      /\ session' = [session EXCEPT ![c].read = k + 1]
      /\ UNCHANGED <<submitted, log, kv>>
  BY <1>0 DEF InvokeRead, MayRead
<1>2. ClientTypeInv /\ -1 \in -1..MaxRequest /\ o \in Operation /\ o.type = "get"
  <2>1. ClientTypeInv
    BY DEF ClientInv
  <2>2. o \in Operation /\ o.type = "get"
    BY DEF Reads, Writes
  <2>3. -1 \in -1..MaxRequest
    BY ClientAssumption
  <2> QED BY <2>1, <2>2, <2>3
<1>3. /\ \A i \in 1..Len(history) : ~IsUnresolved(c, i)
      /\ f = -1 \/ \E q \in submitted : Logged(q) /\ q.client = c /\ q.id = f
      /\ \A q \in submitted : q.client = c => q.id <= f /\ Logged(q)
  BY <1>0, <1>1, IdleSession
<1>4. /\ history' \in Seq(Invocations) /\ clock' \in Nat
      /\ k \in Nat /\ Len(history') = k + 1
      /\ \A i \in 1..k : history'[i] = history[i]
      /\ history'[k + 1].client = c /\ history'[k + 1].op = o
      /\ history'[k + 1].resp = 0 /\ ~history'[k + 1].abandoned
  BY <1>0, <1>1, <1>2, InvokedFacts
<1>5. /\ requestId' \in Seq(-1..MaxRequest) /\ Len(requestId') = k + 1
      /\ requestId'[k + 1] = -1 /\ \A i \in 1..k : requestId'[i] = requestId[i]
  BY <1>0, <1>1, <1>2, AttachedFacts
<1>6. RequestInv' /\ submitted' \in SUBSET ClientRequests /\ \A q : Logged(q)' <=> Logged(q)
  BY <1>1, RequestsStay
<1>7. ReplicaInv'
  BY <1>1, ReplicasStay, ClientBounds DEF ClientInv
<1>8. /\ session' \in [Client -> Sessions]
      /\ session'[c].floor = f /\ session'[c].write = 0 /\ session'[c].read = k + 1
      /\ \A d \in Client : d # c => session'[d] = session[d]
  <2>1. session \in [Client -> Sessions] /\ k + 1 \in Nat
    BY <1>2, <1>4 DEF ClientTypeInv
  <2> QED BY <1>0, <1>1, <2>1 DEF Sessions
<1>9. ClientTypeInv'
  BY <1>1, <1>2, <1>4, <1>5, <1>6, <1>8 DEF ClientTypeInv
<1>10. SessionInv(c)'
  <2>1. \A i \in 1..Len(history') : IsUnresolved(c, i)' <=> i = 0 \/ i = k + 1
    <3> TAKE i \in 1..Len(history')
    <3>1. CASE i \in 1..k
      <4>1. ~IsUnresolved(c, i)'
        BY <1>0, <1>3, <1>4, <3>1 DEF IsUnresolved
      <4>2. i # k + 1 /\ i # 0
        BY <1>4, <3>1
      <4> QED BY <4>1, <4>2
    <3>2. CASE i = k + 1
      BY <1>4, <3>2 DEF IsUnresolved
    <3>3. i \in 1..k \/ i = k + 1
      BY <1>4
    <3> QED BY <3>1, <3>2, <3>3
  <2>2. k + 1 \in 1..Len(history') /\ history'[k + 1].op.type = "get"
    BY <1>2, <1>4
  <2>3. f = -1 \/ \E q \in submitted' : Logged(q)' /\ q.client = c /\ q.id = f
    BY <1>1, <1>3, <1>6
  <2>4. \A q \in submitted' : q.client = c => q.id <= f /\ Logged(q)'
    BY <1>1, <1>3, <1>6
  <2> QED BY <1>5, <1>8, <2>1, <2>2, <2>3, <2>4 DEF SessionInv
<1>11. ASSUME NEW d \in Client, d # c PROVE SessionInv(d)'
  <2>1. submitted \subseteq submitted' /\ \A q \in submitted' : q \in submitted \/ q.client = c
    BY <1>1
  <2>2. \A i \in 1..k : history'[i] = history[i] /\ requestId'[i] = requestId[i]
    BY <1>4, <1>5
  <2>3. k = Len(history) /\ Len(history') = k + 1 /\ history'[k + 1].client = c /\ log' = log /\ session'[d] = session[d]
    BY <1>0, <1>1, <1>4, <1>8, <1>11
  <2> QED BY <1>11, <2>1, <2>2, <2>3, OthersAfterInvoke
<1> QED BY <1>6, <1>7, <1>9, <1>10, <1>11 DEF ClientInv

\* A pending operation that ends
LEMMA OperationEnds ==
    ASSUME ClientInv, NEW c \in Client, NEW i \in 1..Len(history), history[i].client = c,
           Unresolved(c) = {i}, Len(history') = Len(history), history'[i].client = c,
           history'[i].resp # 0 \/ history'[i].abandoned,
           \A j \in 1..Len(history) : j # i => history'[j] = history[j]
    PROVE  \A j \in 1..Len(history') : ~IsUnresolved(c, j)'
<1> TAKE j \in 1..Len(history')
<1>1. CASE j = i
  BY <1>1 DEF IsUnresolved
<1>2. CASE j # i
  <2>1. history'[j] = history[j] /\ j \in DOMAIN history
    BY <1>2, ClientBounds DEF ClientInv
  <2>2. ~IsUnresolved(c, j)
    BY <1>2, <2>1 DEF Unresolved, IsUnresolved
  <2> QED BY <2>1, <2>2 DEF IsUnresolved
<1> QED BY <1>1, <1>2

LEMMA CompleteWriteStep ==
    ASSUME ClientInv, NEW i \in DOMAIN history, NEW n \in Node, CompleteWrite(i, n)
    PROVE  ClientInv'
<1>0. PICK c, q, f : c = history[i].client /\ q = RequestOf(i) /\ f = session[c].floor
  OBVIOUS
<1>1. /\ requestId[i] >= 0 /\ q \in kv[n].requests /\ Respond(i, Absent)
      /\ requestId' = [requestId EXCEPT ![i] = -1]
      /\ session' = IF session[c].write = i THEN [session EXCEPT ![c].floor = requestId[i], ![c].write = 0] ELSE session
      /\ UNCHANGED <<submitted, log, kv>>
  BY <1>0 DEF CompleteWrite, RecordAnswer, RetireRequestId
<1>2. /\ ClientTypeInv /\ i \in 1..Len(history) /\ Len(history) \in Nat /\ i # 0
      /\ requestId[i] \in -1..MaxRequest /\ requestId[i] \in Int /\ DOMAIN requestId = 1..Len(history)
  <2>1. ClientTypeInv
    BY DEF ClientInv
  <2> QED BY <2>1, ClientBounds
<1>3. c \in Client
  <2>1. history[i] \in Invocations
    BY <1>2, ClientBounds
  <2> QED BY <1>0, <2>1 DEF Invocations
<1>4. q.client = c /\ q.id = requestId[i]
  BY <1>0 DEF RequestOf
<1>5. Logged(q)
  <2>1. kv[n].applied <= Len(log) /\ kv[n].applied \in Nat /\ Len(log) \in Nat
    BY <1>2, ClientBounds DEF ClientInv, ReplicaInv, ClientTypeInv, Replicas
  <2>2. LoggedBy(q, kv[n].applied)
    BY <1>1 DEF ClientInv, ReplicaInv, IsAppliedTo
  <2>3. \A j \in 1..kv[n].applied : j \in 1..Len(log)
    BY <2>1
  <2> QED BY <2>2, <2>3 DEF Logged, LoggedBy
<1>6. /\ session[c].write = 0 \/ session[c].read = 0
      /\ IsUnresolved(c, i) <=> i = session[c].write \/ i = session[c].read
      /\ session[c].read # 0 => requestId[session[c].read] = -1
      /\ session[c].write # 0 => /\ RequestOf(session[c].write) \in submitted
                                 /\ requestId[session[c].write] >= f
      /\ \A p \in submitted : p.client = c /\ IsNotPending(c, p) => p.id <= f /\ Logged(p)
  BY <1>0, <1>2, <1>3 DEF ClientInv, SessionInv
<1>7. session[c].write = i /\ session[c].read = 0
  <2>1. IsUnresolved(c, i)
    BY <1>0, <1>1 DEF Respond, IsUnresolved
  <2>2. i # session[c].read
    <3> SUFFICES ASSUME i = session[c].read PROVE FALSE
      OBVIOUS
    <3>1. requestId[i] = -1
      BY <1>2, <1>6
    <3> QED BY <1>1, <3>1
  <2> QED BY <1>2, <1>6, <2>1, <2>2
<1>8. q \in submitted /\ requestId[i] >= f /\ f \in Int
  BY <1>0, <1>2, <1>3, <1>6, <1>7, SessionFacts
<1>9. /\ history' \in Seq(Invocations) /\ Len(history') = Len(history) /\ clock' \in Nat
      /\ \A j \in 1..Len(history) : j # i => history'[j] = history[j]
      /\ history'[i].client = c /\ history'[i].resp # 0
  <2>1. Absent \in StoredValue
    BY DEF StoredValue
  <2> QED BY <1>0, <1>1, <1>2, <2>1, RespondedFacts
<1>10. /\ requestId' \in Seq(-1..MaxRequest) /\ Len(requestId') = Len(history')
       /\ \A j \in 1..Len(history) : j # i => requestId'[j] = requestId[j]
  <2>1. requestId \in Seq(-1..MaxRequest) /\ Len(requestId) = Len(history)
    BY <1>2 DEF ClientTypeInv
  <2>2. -1 \in -1..MaxRequest /\ i \in 1..Len(requestId)
    BY <1>2, <2>1, ClientAssumption
  <2> DEFINE S == -1..MaxRequest
             e == -1
  <2>3. requestId \in Seq(S) /\ e \in S
    BY <2>1, <2>2
  <2>4. requestId' = [requestId EXCEPT ![i] = e]
    BY <1>1
  <2> HIDE DEF S, e
  <2>5. requestId' \in Seq(S) /\ Len(requestId') = Len(requestId)
    BY <2>2, <2>3, <2>4, ExceptSeq
  <2>6. \A j \in 1..Len(history) : j # i => requestId'[j] = requestId[j]
    BY <1>2, <2>4
  <2> QED BY <1>9, <2>1, <2>5, <2>6 DEF S
<1>11. RequestInv' /\ \A p : Logged(p)' <=> Logged(p)
  BY <1>1, RequestsStay
<1>12. ReplicaInv'
  BY <1>1, ReplicasStay, ClientBounds DEF ClientInv
<1>13. /\ session' \in [Client -> Sessions]
       /\ session'[c].floor = requestId[i] /\ session'[c].write = 0 /\ session'[c].read = 0
       /\ \A d \in Client : d # c => session'[d] = session[d]
  <2>1. session \in [Client -> Sessions] /\ 0 \in Nat
    BY <1>2 DEF ClientTypeInv
  <2>2. session' = [session EXCEPT ![c].floor = requestId[i], ![c].write = 0]
    BY <1>1, <1>7
  <2> QED BY <1>2, <1>3, <1>7, <2>1, <2>2 DEF Sessions
<1>14. ClientTypeInv'
  BY <1>1, <1>2, <1>9, <1>10, <1>13 DEF ClientTypeInv
<1>15. SessionInv(c)'
  <2>1. Unresolved(c) = {i}
    BY <1>2, <1>3, <1>7, SessionFacts
  <2>2. \A j \in 1..Len(history') : ~IsUnresolved(c, j)' /\ j # 0
    <3>1. \A j \in 1..Len(history') : ~IsUnresolved(c, j)'
      BY <1>0, <1>2, <1>3, <1>9, <2>1, OperationEnds
    <3> QED BY <1>2, <1>9, <3>1
  <2>3. \E p \in submitted' : Logged(p)' /\ p.client = c /\ p.id = requestId[i]
    BY <1>1, <1>4, <1>5, <1>8, <1>11
  <2>4. ASSUME NEW p \in submitted', p.client = c
        PROVE  p.id <= requestId[i] /\ Logged(p)'
    <3>1. CASE p = q
      BY <1>2, <1>4, <1>5, <1>11, <3>1
    <3>2. CASE p # q
      <4>1. p \in submitted /\ IsNotPending(c, p)
        BY <1>0, <1>1, <1>7, <3>2 DEF IsNotPending
      <4>2. p.id <= f /\ Logged(p)
        BY <1>6, <2>4, <4>1
      <4>3. p.id \in Int
        <5>1. p \in ClientRequests
          BY <1>2, <4>1 DEF ClientTypeInv
        <5> QED BY <5>1, ClientRequestFacts
      <4> QED BY <1>2, <1>8, <1>11, <4>2, <4>3
    <3> QED BY <3>1, <3>2
  <2> QED BY <1>13, <2>2, <2>3, <2>4 DEF SessionInv
<1>16. ASSUME NEW d \in Client, d # c PROVE SessionInv(d)'
  <2>1. /\ history[i].client = c /\ history'[i].client = c /\ Len(history') = Len(history)
        /\ submitted' = submitted /\ log' = log /\ session'[d] = session[d]
    BY <1>0, <1>1, <1>9, <1>13, <1>16
  <2>2. \A j \in 1..Len(history) : j # i => history'[j] = history[j] /\ requestId'[j] = requestId[j]
    BY <1>9, <1>10
  <2> QED BY <1>2, <1>16, <2>1, <2>2, OthersAfterChange
<1> QED BY <1>11, <1>12, <1>14, <1>15, <1>16 DEF ClientInv

\* The end of a pending read
LEMMA ReadEnds ==
    ASSUME ClientInv, NEW c \in Client, NEW i \in 1..Len(history), session[c].read = i,
           history' \in Seq(Invocations), clock' \in Nat, Len(history') = Len(history), history'[i].client = c,
           history'[i].resp # 0 \/ history'[i].abandoned,
           \A j \in 1..Len(history) : j # i => history'[j] = history[j],
           session' = [session EXCEPT ![c].read = 0], UNCHANGED <<requestId, submitted, log>>,
           kv' \in [Node -> Replicas], ReplicaInv'
    PROVE  ClientInv'
<1>0. PICK f : f = session[c].floor
  OBVIOUS
<1>1. ClientTypeInv /\ Len(history) \in Nat /\ i # 0
  BY ClientBounds DEF ClientInv
<1>2. /\ session[c].write = 0
      /\ IsUnresolved(c, i)
      /\ f = -1 \/ \E q \in submitted : Logged(q) /\ q.client = c /\ q.id = f
      /\ \A q \in submitted : q.client = c => q.id <= f /\ Logged(q)
  BY <1>0, <1>1 DEF ClientInv, SessionInv, IsNotPending
<1>3. history[i].client = c
  BY <1>2 DEF IsUnresolved
<1>4. RequestInv' /\ \A q : Logged(q)' <=> Logged(q)
  BY RequestsStay
<1>5. /\ session' \in [Client -> Sessions]
      /\ session'[c].floor = f /\ session'[c].write = 0 /\ session'[c].read = 0
      /\ \A d \in Client : d # c => session'[d] = session[d]
  <2>1. session \in [Client -> Sessions] /\ 0 \in Nat
    BY <1>1 DEF ClientTypeInv
  <2> QED BY <1>0, <1>2, <2>1 DEF Sessions
<1>6. ClientTypeInv'
  BY <1>1, <1>5 DEF ClientTypeInv
<1>7. SessionInv(c)'
  <2>1. Unresolved(c) = {i}
    BY <1>1, <1>2, SessionFacts
  <2>2. \A j \in 1..Len(history') : ~IsUnresolved(c, j)' /\ j # 0
    <3>1. \A j \in 1..Len(history') : ~IsUnresolved(c, j)'
      BY <1>3, <2>1, OperationEnds
    <3> QED BY <1>1, <3>1
  <2>3. f = -1 \/ \E q \in submitted' : Logged(q)' /\ q.client = c /\ q.id = f
    BY <1>2, <1>4
  <2>4. \A q \in submitted' : q.client = c => q.id <= f /\ Logged(q)'
    BY <1>2, <1>4
  <2> QED BY <1>5, <2>2, <2>3, <2>4 DEF SessionInv
<1>8. ASSUME NEW d \in Client, d # c PROVE SessionInv(d)'
  <2>1. submitted' = submitted /\ log' = log /\ session'[d] = session[d]
    BY <1>5, <1>8
  <2>2. \A j \in 1..Len(history) : j # i => history'[j] = history[j] /\ requestId'[j] = requestId[j]
    OBVIOUS
  <2> QED BY <1>3, <1>8, <2>1, <2>2, OthersAfterChange
<1> QED BY <1>4, <1>6, <1>7, <1>8 DEF ClientInv

\* A session whose read is pending
LEMMA PendingRead ==
    ASSUME ClientInv, NEW c \in Client, session[c].read # 0
    PROVE  /\ session[c].read \in 1..Len(history)
           /\ history[session[c].read].client = c /\ history[session[c].read] \in Invocations
<1>1. session[c].read \in 1..Len(history) /\ IsUnresolved(c, session[c].read)
  BY DEF ClientInv, SessionInv
<1> QED BY <1>1, ClientBounds DEF ClientInv, IsUnresolved

LEMMA CompleteReadStep ==
    ASSUME ClientInv, NEW c \in Client, NEW n \in Node, CompleteRead(c, n)
    PROVE  ClientInv'
<1>0. PICK i, k, key : i = session[c].read /\ k = Len(log) /\ key = history[i].op.key
  OBVIOUS
<1>1. /\ i # 0 /\ ApplyCommitted(n, k)
      /\ Respond(i, kv'[n].state[key])
      /\ session' = [session EXCEPT ![c].read = 0]
      /\ UNCHANGED <<requestId, submitted, log>>
  BY <1>0 DEF CompleteRead
<1>2. i \in 1..Len(history) /\ history[i].client = c /\ history[i] \in Invocations
  BY <1>0, <1>1, PendingRead
<1>3. k \in kv[n].applied..Len(log)
  <2>1. kv[n].applied \in Nat /\ kv[n].applied <= Len(log) /\ Len(log) \in Nat
    BY ClientBounds DEF ClientInv, ReplicaInv, ClientTypeInv, Replicas
  <2> QED BY <1>0, <2>1
<1>4. kv' \in [Node -> Replicas] /\ ReplicaInv'
  BY <1>1, <1>3, ReplicasAdvance
<1>5. kv'[n].state[key] \in StoredValue
  <2>1. kv'[n].state \in [StoredKeys -> StoredValue]
    BY <1>4 DEF Replicas
  <2>2. key \in StoredKeys
    BY <1>0, <1>2 DEF Invocations, StoredKeys
  <2> QED BY <2>1, <2>2
<1>6. /\ history' \in Seq(Invocations) /\ Len(history') = Len(history) /\ clock' \in Nat
      /\ \A j \in 1..Len(history) : j # i => history'[j] = history[j]
      /\ history'[i].client = c /\ history'[i].resp # 0
  <2>1. PICK v \in StoredValue : v = kv'[n].state[key]
    BY <1>5
  <2>2. Respond(i, v)
    BY <1>1, <2>1
  <2> QED BY <1>2, <2>2, RespondedFacts DEF ClientInv
<1> QED BY <1>0, <1>1, <1>2, <1>4, <1>6, ReadEnds

LEMMA AbandonReadStep ==
    ASSUME ClientInv, NEW c \in Client, AbandonRead(c)
    PROVE  ClientInv'
<1>0. PICK i : i = session[c].read
  OBVIOUS
<1>1. /\ i # 0 /\ history' = [history EXCEPT ![i].abandoned = TRUE] /\ clock' = clock
      /\ session' = [session EXCEPT ![c].read = 0]
      /\ UNCHANGED <<requestId, submitted, log, kv>>
  BY <1>0 DEF AbandonRead, Abandon
<1>2. i \in 1..Len(history) /\ history[i].client = c /\ history[i] \in Invocations
  BY <1>0, <1>1, PendingRead
<1>3. ClientTypeInv /\ DOMAIN history = 1..Len(history)
  BY ClientBounds DEF ClientInv
<1>4. PICK x \in Invocations : x = [history[i] EXCEPT !.abandoned = TRUE] /\ x.client = c /\ x.abandoned
  <2> DEFINE x == [history[i] EXCEPT !.abandoned = TRUE]
  <2>1. x \in Invocations /\ x.client = c /\ x.abandoned
    BY <1>2 DEF Invocations
  <2> QED BY <2>1
<1>5. history' = [history EXCEPT ![i] = x]
  BY <1>1, <1>2, <1>3, <1>4
<1>6. /\ history' \in Seq(Invocations) /\ Len(history') = Len(history) /\ history'[i] = x
      /\ \A j \in 1..Len(history) : j # i => history'[j] = history[j]
  BY <1>2, <1>3, <1>5, ChangedFacts
<1>7. ReplicaInv' /\ kv' \in [Node -> Replicas] /\ clock' \in Nat
  <2>1. ReplicaInv'
    BY <1>1, ReplicasStay, ClientBounds DEF ClientInv
  <2> QED BY <1>1, <1>3, <2>1 DEF ClientTypeInv
<1>8. history'[i].client = c /\ (history'[i].resp # 0 \/ history'[i].abandoned)
  BY <1>4, <1>6
<1>9. session[c].read = i /\ UNCHANGED <<requestId, submitted, log>>
  BY <1>0, <1>1
<1> QED BY <1>1, <1>2, <1>6, <1>7, <1>8, <1>9, ReadEnds

LEMMA RecoverStep ==
    ASSUME ClientInv, NEW c \in Client, NEW n \in Node, RecoverLinearizable(c, n)
    PROVE  ClientInv'
<1>0. PICK k, R : k = Len(log) /\ R = Applied(n, Len(log)).requests
  OBVIOUS
<1>1. /\ ApplyCommitted(n, k)
      /\ session' = [session EXCEPT ![c] = Recovered(c, kv'[n].requests)]
      /\ UNCHANGED <<history, clock, requestId, submitted, log>>
  BY <1>0 DEF RecoverLinearizable
<1>2. k \in kv[n].applied..Len(log)
  <2>1. kv[n].applied \in Nat /\ kv[n].applied <= Len(log) /\ Len(log) \in Nat
    BY ClientBounds DEF ClientInv, ReplicaInv, ClientTypeInv, Replicas
  <2> QED BY <1>0, <2>1
<1>3. kv' \in [Node -> Replicas] /\ ReplicaInv' /\ kv'[n].requests = R
  BY <1>0, <1>1, <1>2, ReplicasAdvance
<1>4. R \in SUBSET ClientRequests /\ \A q : q \in R <=> Logged(q)
  BY <1>0, BarrierFacts
<1>5. PICK m, w, r : m = Max(Ids(R, c)) /\ w = session[c].write /\ r = session[c].read
  OBVIOUS
<1>6. /\ m \in -1..MaxRequest
      /\ w # 0 => requestId[w] >= m
      /\ m = -1 \/ \E q \in submitted : Logged(q) /\ q.client = c /\ q.id = m
      /\ \A q \in submitted : q.client = c /\ Logged(q) => q.id <= m
  <2>1. /\ m \in -1..MaxRequest
        /\ w # 0 => requestId[w] > m \/ requestId[w] = m
        /\ m = -1 \/ \E q \in submitted : Logged(q) /\ q.client = c /\ q.id = m
        /\ \A q \in submitted : q.client = c /\ Logged(q) => q.id <= m
    BY <1>4, <1>5, FloorFacts
  <2>2. m \in Int
    BY <2>1, ClientAssumption
  <2>3. w # 0 => requestId[w] \in Int
    <3>1. w # 0 => w \in 1..Len(history)
      BY <1>5 DEF ClientInv, SessionInv
    <3> QED BY <3>1, ClientBounds DEF ClientInv
  <2> QED BY <2>1, <2>2, <2>3
<1>7. Recovered(c, R) = [floor |-> m, write |-> w, read |-> r]
  BY <1>5, RecoveredPending
<1>8. /\ session' \in [Client -> Sessions]
      /\ session'[c].floor = m /\ session'[c].write = w /\ session'[c].read = r
      /\ \A d \in Client : d # c => session'[d] = session[d]
  <2>1. session \in [Client -> Sessions]
    BY DEF ClientInv, ClientTypeInv
  <2>2. w \in Nat /\ r \in Nat
    BY <1>5, SessionFacts
  <2>3. [floor |-> m, write |-> w, read |-> r] \in Sessions
    BY <1>6, <2>2 DEF Sessions
  <2>4. session' = [session EXCEPT ![c] = [floor |-> m, write |-> w, read |-> r]]
    BY <1>1, <1>3, <1>7
  <2> QED BY <2>1, <2>3, <2>4
<1>9. RequestInv' /\ \A q : Logged(q)' <=> Logged(q)
  BY <1>1, RequestsStay
<1>10. ClientTypeInv'
  BY <1>1, <1>3, <1>8 DEF ClientInv, ClientTypeInv
<1>11. \A d, i : (IsUnresolved(d, i)' <=> IsUnresolved(d, i)) /\ RequestOf(i)' = RequestOf(i)
  BY <1>1 DEF IsUnresolved, RequestOf
<1>12. SessionInv(c)'
  <2>1. /\ w = 0 \/ r = 0
        /\ \A i \in 1..Len(history) : IsUnresolved(c, i) <=> i = w \/ i = r
        /\ w # 0 => /\ w \in 1..Len(history)
                    /\ history[w].op.type # "get"
                    /\ RequestOf(w) \in submitted
        /\ r # 0 => /\ r \in 1..Len(history)
                    /\ history[r].op.type = "get"
                    /\ requestId[r] = -1
        /\ \A q \in submitted : q.client = c /\ (w = 0 \/ q # RequestOf(w)) => Logged(q)
    BY <1>5 DEF ClientInv, SessionInv, IsNotPending
  <2>2. \A q \in submitted' : q.client = c /\ (w = 0 \/ q # RequestOf(w)) => q.id <= m /\ Logged(q)'
    BY <1>1, <1>6, <1>9, <2>1
  <2>3. m = -1 \/ \E q \in submitted' : Logged(q)' /\ q.client = c /\ q.id = m
    BY <1>1, <1>6, <1>9
  <2>4. \A q : IsNotPending(c, q)' => w = 0 \/ q # RequestOf(w)
    BY <1>8, <1>11 DEF IsNotPending
  <2>5. \A i \in 1..Len(history') : IsUnresolved(c, i)' <=> i = w \/ i = r
    BY <1>1, <1>11, <2>1
  <2>6. w # 0 => /\ w \in 1..Len(history') /\ history'[w].op.type # "get"
                 /\ RequestOf(w)' \in submitted' /\ requestId'[w] >= m
    BY <1>1, <1>6, <1>11, <2>1
  <2>7. r # 0 => /\ r \in 1..Len(history') /\ history'[r].op.type = "get" /\ requestId'[r] = -1
    BY <1>1, <2>1
  <2> QED BY <1>8, <2>1, <2>2, <2>3, <2>4, <2>5, <2>6, <2>7 DEF SessionInv
<1>13. ASSUME NEW d \in Client, d # c PROVE SessionInv(d)'
  <2>1. Len(history') \in Nat /\ Len(history') >= Len(history) /\ history' = history
    BY <1>1, ClientBounds DEF ClientInv
  <2> QED BY <1>1, <1>8, <1>9, <1>11, <1>13, <2>1, OtherSession
<1> QED BY <1>3, <1>9, <1>10, <1>12, <1>13 DEF ClientInv

LEMMA ClientInvStep == ClientInv /\ [ClientNext]_clientVars => ClientInv'
<1> SUFFICES ASSUME ClientInv, [ClientNext]_clientVars PROVE ClientInv'
  OBVIOUS
<1>1. ASSUME NEW n \in Node, ApplyStep(n) PROVE ClientInv'
  BY <1>1, ApplyStepKeeps
<1>2. ASSUME NEW q \in submitted, Commit(q) PROVE ClientInv'
  BY <1>2, CommitStep
<1>3. ASSUME NEW c \in Client, NEW id \in 0..MaxRequest, NEW o \in Writes, InvokeWrite(c, id, o) PROVE ClientInv'
  BY <1>3, InvokeWriteStep
<1>4. ASSUME NEW i \in DOMAIN history, NEW n \in Node, CompleteWrite(i, n) PROVE ClientInv'
  BY <1>4, CompleteWriteStep
<1>5. ASSUME NEW c \in Client, NEW o \in Reads, InvokeRead(c, o) PROVE ClientInv'
  BY <1>5, InvokeReadStep
<1>6. ASSUME NEW c \in Client, NEW n \in Node, CompleteRead(c, n) PROVE ClientInv'
  BY <1>6, CompleteReadStep
<1>7. ASSUME NEW c \in Client, AbandonRead(c) PROVE ClientInv'
  BY <1>7, AbandonReadStep
<1>8. ASSUME NEW c \in Client, NEW n \in Node, RecoverLinearizable(c, n) PROVE ClientInv'
  BY <1>8, RecoverStep
<1>9. ASSUME UNCHANGED clientVars PROVE ClientInv'
  <2>1. UNCHANGED <<history, clock, requestId, session, submitted, log, kv>>
    BY <1>9 DEF clientVars
  <2>2. RequestInv' /\ \A q : Logged(q)' <=> Logged(q)
    BY <2>1, RequestsStay
  <2>3. ReplicaInv'
    BY <2>1, ReplicasStay, ClientBounds DEF ClientInv
  <2>4. ClientTypeInv'
    BY <2>1 DEF ClientInv, ClientTypeInv
  <2>5. ASSUME NEW c \in Client PROVE SessionInv(c)'
    <3>1. SessionInv(c)
      BY DEF ClientInv
    <3> QED BY <2>1, <2>2, <3>1 DEF SessionInv, IsUnresolved, IsNotPending, RequestOf
  <2> QED BY <2>2, <2>3, <2>4, <2>5 DEF ClientInv
<1> QED BY <1>1, <1>2, <1>3, <1>4, <1>5, <1>6, <1>7, <1>8, <1>9 DEF ClientNext

LEMMA ClientInvariant == ClientSpec => []ClientInv
<1> QED BY ClientInitially, ClientInvStep, PTL DEF ClientSpec

\* A committed request that a node has applied is known to it: the fence against old ids drops no
\* request for good, whatever clients, nodes and ids there are and however late or often requests
\* are committed.
THEOREM CommittedRequestsAreKnown == ClientSpec => []NoCommittedRequestIsDropped
<1> QED BY ClientInvariant, NothingIsDropped, PTL

\* recover_linearizable finds any session as it was lost, on any node: the operation that was pending,
\* and a floor that is the old one or the id of the pending write.
THEOREM LostSessionsAreRecovered == ClientSpec => []RecoveryRestoresTheSession
<1> QED BY ClientInvariant, SessionIsRecovered, PTL

-----------------------------------------------------------------------------
(* Raft elections: type correctness *)

LEMMA PeerRequestTypes ==
    ASSUME NEW n \in NodeId, NEW t \in Nat, NEW type \in MsgTypes
    PROVE  PeerRequest(type, t, n) \in RaftMessages
BY DEF RaftMessages, PeerRequest

LEMMA AnsweredTypes ==
    ASSUME NEW n \in NodeId, NEW t \in Nat, NEW p \in Nat, NEW to \in NodeId,
           NEW granted \in BOOLEAN, NEW type \in MsgTypes, messages \subseteq RaftMessages
    PROVE  Answered(Response(type, t, n, to, p, granted)) \subseteq RaftMessages
BY DEF RaftMessages, Response, Answered

LEMMA ElectionTypeOKStep == ElectionTypeOK /\ [ElectionNext]_electionVars => ElectionTypeOK'
<1> SUFFICES ASSUME DurableOK, ElectingOK, SimulatorOK, AuthorityOK, [ElectionNext]_electionVars PROVE ElectionTypeOK'
  BY DEF ElectionTypeOK
<1> USE DEF durable, electing, authority
<1> /\ "PreVote" \in MsgTypes /\ "PreVoteResponse" \in MsgTypes
    /\ "RequestVote" \in MsgTypes /\ "RequestVoteResponse" \in MsgTypes
    /\ "AppendEntries" \in MsgTypes /\ "AppendEntriesResponse" \in MsgTypes
  BY DEF MsgTypes
<1>e. ASSUME NEW n \in NodeId, ElectionStep(n) PROVE ElectionTypeOK'
  <2>1. DurableOK'
    BY <1>e DEF ElectionStep, DurableOK, PersistTermAndVote
  <2>2. ElectingOK'
    BY <1>e DEF ElectionStep, ElectingOK, BecomeFollower, ClearPreVote, BecomeLeader
  <2>3. SimulatorOK'
    <3> PeerRequest("RequestVote", currentTerm[n] + 1, n) \in RaftMessages
      BY PeerRequestTypes DEF DurableOK
    <3> QED BY <1>e DEF ElectionStep, SimulatorOK, ResetElectionTimeout, BecomeLeader
  <2>4. AuthorityOK'
    BY <1>e DEF ElectionStep, AuthorityOK, NotifyLeaderRetired, RetireRuntime, BecomeLeader, NotifyLeaderAcquired, StartRuntime, DurableOK
  <2> QED BY <2>1, <2>2, <2>3, <2>4 DEF ElectionTypeOK
<1>a. ASSUME NEW n \in NodeId, NEW t \in Nat, AdvanceTerm(n, t) PROVE ElectionTypeOK'
  <2>1. DurableOK'
    BY <1>a DEF AdvanceTerm, DurableOK, PersistTermAndVote
  <2>2. ElectingOK'
    BY <1>a DEF AdvanceTerm, ElectingOK, BecomeFollower, ClearPreVote
  <2>3. SimulatorOK'
    BY <1>a DEF AdvanceTerm, SimulatorOK, ResetElectionTimeout
  <2>4. AuthorityOK'
    BY <1>a DEF AdvanceTerm, AuthorityOK, NotifyLeaderRetired, RetireRuntime, DurableOK
  <2> QED BY <2>1, <2>2, <2>3, <2>4 DEF ElectionTypeOK
<1>1. ASSUME NEW n \in NodeId, StartElection(n) PROVE ElectionTypeOK'
  BY <1>1, <1>e DEF StartElection
<1>2. ASSUME NEW n \in NodeId, HandleElectionTimeout(n) PROVE ElectionTypeOK'
  <2>0. CASE HasMajority({n})
    BY <1>2, <1>e, <2>0 DEF HandleElectionTimeout
  <2>f. CASE ~HasMajority({n})
    <3>1. DurableOK'
      BY <1>2, <2>f DEF HandleElectionTimeout, DurableOK, PersistTermAndVote
    <3>2. ElectingOK'
      BY <1>2, <2>f DEF HandleElectionTimeout, ElectingOK, BecomeFollower, ClearPreVote, DurableOK
    <3>3. SimulatorOK'
      <4> PeerRequest("PreVote", currentTerm[n] + 1, n) \in RaftMessages
        BY PeerRequestTypes DEF DurableOK
      <4> QED BY <1>2, <2>f DEF HandleElectionTimeout, SimulatorOK, ResetElectionTimeout
    <3>4. AuthorityOK'
      BY <1>2, <2>f DEF HandleElectionTimeout, AuthorityOK, NotifyLeaderRetired, RetireRuntime
    <3> QED BY <3>1, <3>2, <3>3, <3>4 DEF ElectionTypeOK
  <2> QED BY <2>0, <2>f
<1>3. ASSUME NEW n \in NodeId, SendAppendEntries(n) PROVE ElectionTypeOK'
  <2>1. DurableOK'
    BY <1>3 DEF SendAppendEntries, DurableOK, PersistTermAndVote
  <2>2. ElectingOK'
    BY <1>3 DEF SendAppendEntries, ElectingOK, BecomeFollower, ClearPreVote
  <2>3. SimulatorOK'
    BY <1>3, PeerRequestTypes DEF SendAppendEntries, SimulatorOK, ResetElectionTimeout, DurableOK
  <2>4. AuthorityOK'
    BY <1>3 DEF SendAppendEntries, AuthorityOK, NotifyLeaderRetired, RetireRuntime, DurableOK
  <2> QED BY <2>1, <2>2, <2>3, <2>4 DEF ElectionTypeOK
<1>4. ASSUME NEW n \in NodeId, StepDown(n) PROVE ElectionTypeOK'
  <2>1. DurableOK'
    BY <1>4 DEF StepDown, DurableOK, PersistTermAndVote
  <2>2. ElectingOK'
    BY <1>4 DEF StepDown, ElectingOK, BecomeFollower, ClearPreVote
  <2>3. SimulatorOK'
    BY <1>4 DEF StepDown, SimulatorOK, ResetElectionTimeout
  <2>4. AuthorityOK'
    BY <1>4 DEF StepDown, AuthorityOK, NotifyLeaderRetired, RetireRuntime, DurableOK
  <2> QED BY <2>1, <2>2, <2>3, <2>4 DEF ElectionTypeOK
<1>5. ASSUME NEW n \in NodeId, HandleCrash(n) PROVE ElectionTypeOK'
  <2>1. DurableOK'
    BY <1>5 DEF HandleCrash, DurableOK, PersistTermAndVote
  <2>2. ElectingOK'
    BY <1>5 DEF HandleCrash, ElectingOK, BecomeFollower, ClearPreVote
  <2>3. SimulatorOK'
    BY <1>5 DEF HandleCrash, SimulatorOK, ResetElectionTimeout
  <2>4. AuthorityOK'
    BY <1>5 DEF HandleCrash, AuthorityOK, NotifyLeaderRetired, RetireRuntime, DurableOK
  <2> QED BY <2>1, <2>2, <2>3, <2>4 DEF ElectionTypeOK
<1>6. ASSUME NEW n \in NodeId, Restart(n) PROVE ElectionTypeOK'
  <2>1. DurableOK'
    BY <1>6 DEF Restart, DurableOK, PersistTermAndVote
  <2>2. ElectingOK'
    BY <1>6 DEF Restart, ElectingOK, BecomeFollower, ClearPreVote
  <2>3. SimulatorOK'
    BY <1>6 DEF Restart, SimulatorOK, ResetElectionTimeout
  <2>4. AuthorityOK'
    BY <1>6 DEF Restart, AuthorityOK, NotifyLeaderRetired, RetireRuntime, DurableOK
  <2> QED BY <2>1, <2>2, <2>3, <2>4 DEF ElectionTypeOK
<1>7. ASSUME NEW n \in NodeId, NEW m \in messages, HandleMessage(n, m) PROVE ElectionTypeOK'
  <2> m \in RaftMessages /\ m.term \in Nat /\ m.src \in NodeId
    BY DEF RaftMessages, SimulatorOK
  <2>1. CASE \E upToDate \in BOOLEAN : HandlePreVote(n, m, upToDate)
    <3>1. DurableOK'
      BY <2>1 DEF HandlePreVote, DurableOK, PersistTermAndVote
    <3>2. ElectingOK'
      BY <2>1 DEF HandlePreVote, ElectingOK, BecomeFollower, ClearPreVote
    <3>3. SimulatorOK'
      BY <2>1, AnsweredTypes DEF HandlePreVote, SimulatorOK, ResetElectionTimeout, DurableOK
    <3>4. AuthorityOK'
      BY <2>1 DEF HandlePreVote, AuthorityOK, NotifyLeaderRetired, RetireRuntime, DurableOK
    <3> QED BY <3>1, <3>2, <3>3, <3>4 DEF ElectionTypeOK
  <2>2. CASE HandlePreVoteResponse(n, m)
    <3>1. CASE AdvanceTerm(n, m.term) \/ ElectionStep(n)
      BY <1>a, <1>e, <3>1
    <3>2. CASE /\ preVotesReceived' = [preVotesReceived EXCEPT ![n] = @ \cup {m.src}]
               /\ UNCHANGED <<durable, role, votesReceived, preVoteTerm, up, armed,
                              authority, messages>>
      BY <3>2 DEF ElectionTypeOK, DurableOK, ElectingOK, SimulatorOK, AuthorityOK
    <3> QED BY <2>2, <3>1, <3>2 DEF HandlePreVoteResponse, ElectingOK
  <2>3. CASE \E upToDate \in BOOLEAN : HandleRequestVote(n, m, upToDate)
    <3>1. DurableOK'
      BY <2>3 DEF HandleRequestVote, DurableOK, PersistTermAndVote
    <3>2. ElectingOK'
      BY <2>3 DEF HandleRequestVote, ElectingOK, BecomeFollower, ClearPreVote
    <3>3. SimulatorOK'
      BY <2>3, AnsweredTypes DEF HandleRequestVote, SimulatorOK, ResetElectionTimeout, DurableOK
    <3>4. AuthorityOK'
      BY <2>3 DEF HandleRequestVote, AuthorityOK, NotifyLeaderRetired, RetireRuntime, DurableOK
    <3> QED BY <3>1, <3>2, <3>3, <3>4 DEF ElectionTypeOK
  <2>4. CASE HandleRequestVoteResponse(n, m)
    <3>1. DurableOK'
      BY <2>4 DEF HandleRequestVoteResponse, AdvanceTerm, DurableOK, PersistTermAndVote
    <3>2. ElectingOK'
      BY <2>4 DEF HandleRequestVoteResponse, AdvanceTerm, ElectingOK, BecomeFollower, ClearPreVote, BecomeLeader
    <3>3. SimulatorOK'
      BY <2>4 DEF HandleRequestVoteResponse, AdvanceTerm, SimulatorOK, ResetElectionTimeout, BecomeLeader
    <3>4. AuthorityOK'
      BY <2>4 DEF HandleRequestVoteResponse, AdvanceTerm, AuthorityOK, NotifyLeaderRetired, RetireRuntime, BecomeLeader, NotifyLeaderAcquired, StartRuntime, DurableOK
    <3> QED BY <3>1, <3>2, <3>3, <3>4 DEF ElectionTypeOK
  <2>5. CASE HandleAppendEntries(n, m)
    <3>1. DurableOK'
      BY <2>5 DEF HandleAppendEntries, DurableOK, PersistTermAndVote
    <3>2. ElectingOK'
      BY <2>5 DEF HandleAppendEntries, ElectingOK, BecomeFollower, ClearPreVote
    <3>3. SimulatorOK'
      <4> Answered(Response("AppendEntriesResponse", currentTerm'[n], n, m.src, 0, FALSE)) \subseteq RaftMessages
        BY <3>1, AnsweredTypes DEF SimulatorOK, DurableOK
      <4> QED BY <2>5 DEF HandleAppendEntries, SimulatorOK, ResetElectionTimeout
    <3>4. AuthorityOK'
      BY <2>5 DEF HandleAppendEntries, AuthorityOK, NotifyLeaderRetired, RetireRuntime, DurableOK
    <3> QED BY <3>1, <3>2, <3>3, <3>4 DEF ElectionTypeOK
  <2>6. CASE HandleAppendEntriesResponse(n, m)
    BY <2>6, <1>a DEF HandleAppendEntriesResponse
  <2> QED BY <1>7, <2>1, <2>2, <2>3, <2>4, <2>5, <2>6 DEF HandleMessage
<1>8. CASE UNCHANGED electionVars
  BY <1>8 DEF electionVars, ElectionTypeOK, DurableOK, ElectingOK, SimulatorOK, AuthorityOK
<1> QED BY <1>1, <1>2, <1>3, <1>4, <1>5, <1>6, <1>7, <1>8 DEF ElectionNext

\* Every reachable state is well typed, in a cluster of any size.
THEOREM ElectionTypeCorrect == ElectionSpec => []ElectionTypeOK
<1>1. ElectionInit => ElectionTypeOK
  BY DEF ElectionInit, ElectionTypeOK, DurableOK, ElectingOK, SimulatorOK, AuthorityOK, Follower
<1> QED BY <1>1, ElectionTypeOKStep, PTL DEF ElectionSpec

-----------------------------------------------------------------------------
(* Election safety.  The invariant follows a vote from the voter's disk, through *)
(* the response that reports it, to the candidate that counts it.                *)

\* A recorded vote is at most the voter's term, and it is the durable vote of that term.
VotesAreDurable ==
    \A n \in NodeId, t \in Nat, c \in NodeId :
        <<n, t, c>> \in voteTrace =>
            currentTerm[n] >= t /\ (currentTerm[n] = t => votedFor[n] = c)

\* No node ever votes for two candidates in one term.
NoDoubleVote ==
    \A n \in NodeId, t \in Nat, c, d \in NodeId :
        <<n, t, c>> \in voteTrace /\ <<n, t, d>> \in voteTrace => c = d

\* A granting response, however old, reports a vote that was recorded.
GrantsAreVotes ==
    \A m \in messages : m.type = "RequestVoteResponse" /\ m.granted
                       => <<m.src, m.term, m.dst>> \in voteTrace

\* The votes that a candidate has counted are votes for it in its own term.
CandidateVotes ==
    \A n \in NodeId : role[n] = Candidate
                         => \A v \in votesReceived[n] : <<v, currentTerm[n], n>> \in voteTrace

\* Whoever became leader of a term had the votes of a majority in it.
LeadersHaveQuorum ==
    \A t \in Nat, n \in NodeId : <<t, n>> \in leadersByTerm =>
        \E Q \in SUBSET NodeId : HasMajority(Q) /\ \A v \in Q : <<v, t, n>> \in voteTrace

VoteInv ==
    VotesAreDurable /\ NoDoubleVote /\ GrantsAreVotes /\ CandidateVotes /\ LeadersHaveQuorum

LEMMA MajoritiesMeet ==
    ASSUME NEW P \in SUBSET NodeId, NEW Q \in SUBSET NodeId, HasMajority(P), HasMajority(Q)
    PROVE  P \cap Q # {}
<1> IsFiniteSet(NodeId)
  BY NodeIdAssumption
<1>1. /\ IsFiniteSet(P) /\ IsFiniteSet(Q)
      /\ Cardinality(P) \in Nat /\ Cardinality(Q) \in Nat /\ Cardinality(NodeId) \in Nat
  BY FS_Subset, FS_CardinalityType
<1>2. Cardinality(P) + Cardinality(Q) > Cardinality(NodeId)
  BY <1>1 DEF HasMajority
<1> QED BY <1>1, <1>2, FS_MajoritiesIntersect

LEMMA QuorumsAgree == ElectionTypeOK /\ VoteInv => ElectionSafety
<1> SUFFICES ASSUME ElectionTypeOK, VoteInv, NEW t \in Nat, NEW a \in NodeId, NEW b \in NodeId,
                    <<t, a>> \in leadersByTerm, <<t, b>> \in leadersByTerm
             PROVE  a = b
  BY DEF ElectionSafety, ElectionTypeOK, AuthorityOK
<1>1. PICK P \in SUBSET NodeId : HasMajority(P) /\ \A v \in P : <<v, t, a>> \in voteTrace
  BY DEF VoteInv, LeadersHaveQuorum
<1>2. PICK Q \in SUBSET NodeId : HasMajority(Q) /\ \A v \in Q : <<v, t, b>> \in voteTrace
  BY DEF VoteInv, LeadersHaveQuorum
<1>3. PICK v \in NodeId : v \in P /\ v \in Q
  BY <1>1, <1>2, MajoritiesMeet
<1> QED BY <1>1, <1>2, <1>3 DEF VoteInv, NoDoubleVote

\* A write of term and vote that moves the term up, or fills an empty vote, or
\* repeats the vote, keeps what was recorded.
LEMMA PersistKeepsVotes ==
    ASSUME DurableOK, VotesAreDurable, NoDoubleVote,
           NEW n \in NodeId, NEW t \in Nat, NEW v \in NodeId \cup {Nobody},
           PersistTermAndVote(n, t, v),
           \/ t > currentTerm[n]
           \/ t = currentTerm[n] /\ votedFor[n] \in {Nobody, v}
    PROVE  /\ VotesAreDurable' /\ NoDoubleVote'
           /\ voteTrace \subseteq voteTrace'
           /\ v # Nobody => <<n, t, v>> \in voteTrace'
<1> USE DEF PersistTermAndVote, DurableOK
<1>1. voteTrace \subseteq voteTrace' /\ (v # Nobody => <<n, t, v>> \in voteTrace')
  OBVIOUS
<1>2. \A c \in NodeId : <<n, t, c>> \in voteTrace => c = v
  BY NobodyAssumption DEF VotesAreDurable
<1>3. VotesAreDurable'
  <2> SUFFICES ASSUME NEW x \in NodeId, NEW u \in Nat, NEW c \in NodeId,
                      <<x, u, c>> \in voteTrace'
               PROVE  currentTerm'[x] >= u /\ (currentTerm'[x] = u => votedFor'[x] = c)
    BY DEF VotesAreDurable
  <2>1. CASE <<x, u, c>> \in voteTrace
    BY <1>2, <2>1 DEF VotesAreDurable
  <2>2. CASE <<x, u, c>> = <<n, t, v>>
    BY <2>2
  <2> QED BY <2>1, <2>2
<1>4. NoDoubleVote'
  BY <1>2 DEF NoDoubleVote
<1> QED BY <1>1, <1>3, <1>4

\* A step that writes no vote and no leader, grants nothing and adds nothing to a
\* candidate's count.
LEMMA SilentStep ==
    ASSUME VoteInv, UNCHANGED <<currentTerm, votedFor, voteTrace, leadersByTerm>>,
           \A m \in messages' : m \in messages \/ ~(m.type = "RequestVoteResponse" /\ m.granted),
           \A n \in NodeId : role'[n] = Candidate
               => role[n] = Candidate /\ votesReceived'[n] \subseteq votesReceived[n]
    PROVE  VoteInv'
<1> USE DEF VoteInv
<1>1. VotesAreDurable' /\ NoDoubleVote'
  BY DEF VotesAreDurable, NoDoubleVote
<1>2. GrantsAreVotes'
  BY DEF GrantsAreVotes
<1>3. CandidateVotes'
  BY DEF CandidateVotes
<1>4. LeadersHaveQuorum'
  BY DEF LeadersHaveQuorum
<1> QED BY <1>1, <1>2, <1>3, <1>4

\* What such a write may do to the rest, when n votes for v in term t: report it, ...
GrantsOf(n, t, v) ==
    \A m \in messages' : m \in messages \/ (m.type = "RequestVoteResponse" /\ m.granted
                                     => m.src = n /\ m.term = t /\ m.dst = v /\ v # Nobody)

\* ... keep the candidates of unchanged terms or make n one with its own vote, ...
CandidatesOf(n, t, v) ==
    \A x \in NodeId : role'[x] = Candidate =>
        \/ /\ x # n \/ t = currentTerm[n]
           /\ role[x] = Candidate
           /\ votesReceived'[x] \subseteq votesReceived[x]
        \/ x = n /\ v = n /\ votesReceived'[x] = {n}

\* ... and record n as the leader when its own vote is a majority.
LeadersOf(n, t, v) ==
    \A u \in Nat, x \in NodeId : <<u, x>> \in leadersByTerm' =>
        \/ <<u, x>> \in leadersByTerm
        \/ u = t /\ x = n /\ v = n /\ HasMajority({n})

\* A step that writes the term and vote of one node as PersistKeepsVotes allows.
LEMMA VotingStep ==
    ASSUME ElectionTypeOK, VoteInv,
           NEW n \in NodeId, NEW t \in Nat, NEW v \in NodeId \cup {Nobody},
           PersistTermAndVote(n, t, v),
           \/ t > currentTerm[n]
           \/ t = currentTerm[n] /\ votedFor[n] \in {Nobody, v},
           GrantsOf(n, t, v), CandidatesOf(n, t, v), LeadersOf(n, t, v)
    PROVE  VoteInv'
<1> USE DEF VoteInv
<1>1. /\ VotesAreDurable' /\ NoDoubleVote'
      /\ voteTrace \subseteq voteTrace'
      /\ v # Nobody => <<n, t, v>> \in voteTrace'
  BY PersistKeepsVotes DEF ElectionTypeOK
<1>2. GrantsAreVotes'
  BY <1>1 DEF GrantsAreVotes, GrantsOf
<1>3. CandidateVotes'
  <2> SUFFICES ASSUME NEW x \in NodeId, role'[x] = Candidate, NEW w \in votesReceived'[x]
               PROVE  <<w, currentTerm'[x], x>> \in voteTrace'
    BY DEF CandidateVotes
  <2>1. CASE x = n /\ v = n /\ votesReceived'[x] = {n}
    BY <1>1, <2>1, NobodyAssumption DEF PersistTermAndVote, ElectionTypeOK, DurableOK
  <2>2. CASE /\ x # n \/ t = currentTerm[n]
             /\ role[x] = Candidate /\ votesReceived'[x] \subseteq votesReceived[x]
    BY <1>1, <2>2 DEF PersistTermAndVote, ElectionTypeOK, DurableOK, CandidateVotes
  <2> QED BY <2>1, <2>2 DEF CandidatesOf
<1>4. LeadersHaveQuorum'
  <2> SUFFICES ASSUME NEW u \in Nat, NEW x \in NodeId, <<u, x>> \in leadersByTerm'
               PROVE  \E Q \in SUBSET NodeId :
                          HasMajority(Q) /\ \A w \in Q : <<w, u, x>> \in voteTrace'
    BY DEF LeadersHaveQuorum, HasMajority
  <2>1. CASE <<u, x>> \in leadersByTerm
    BY <1>1, <2>1 DEF LeadersHaveQuorum
  <2>2. CASE u = t /\ x = n /\ v = n /\ HasMajority({n})
    <3> WITNESS {n} \in SUBSET NodeId
    <3> QED BY <1>1, <2>2, NobodyAssumption
  <2> QED BY <2>1, <2>2 DEF LeadersOf
<1> QED BY <1>1, <1>2, <1>3, <1>4

LEMMA VoteInvStep == ElectionTypeOK /\ VoteInv /\ [ElectionNext]_electionVars => VoteInv'
<1> SUFFICES ASSUME ElectionTypeOK, VoteInv, [ElectionNext]_electionVars PROVE VoteInv'
  OBVIOUS
<1> USE DEF durable, electing, authority
<1>e. ASSUME NEW n \in NodeId, ElectionStep(n) PROVE VoteInv'
  <2>1. currentTerm[n] + 1 \in Nat /\ currentTerm[n] + 1 > currentTerm[n]
    BY DEF ElectionTypeOK, DurableOK
  <2>2. GrantsOf(n, currentTerm[n] + 1, n)
    BY <1>e DEF ElectionStep, PeerRequest, GrantsOf
  <2>3. CandidatesOf(n, currentTerm[n] + 1, n)
    BY <1>e DEF ElectionStep, BecomeLeader, CandidatesOf, ElectionTypeOK, ElectingOK
  <2>4. LeadersOf(n, currentTerm[n] + 1, n)
    BY <1>e DEF ElectionStep, BecomeLeader, LeadersOf
  <2>5. PersistTermAndVote(n, currentTerm[n] + 1, n)
    BY <1>e DEF ElectionStep
  <2> QED BY <2>1, <2>2, <2>3, <2>4, <2>5, VotingStep
<1>a. ASSUME NEW n \in NodeId, NEW t \in Nat, t > currentTerm[n], AdvanceTerm(n, t)
      PROVE  VoteInv'
  <2>1. CandidatesOf(n, t, Nobody)
    BY <1>a DEF AdvanceTerm, BecomeFollower, Follower, Candidate, CandidatesOf, ElectionTypeOK, ElectingOK
  <2>2. GrantsOf(n, t, Nobody) /\ LeadersOf(n, t, Nobody) /\ PersistTermAndVote(n, t, Nobody)
    BY <1>a DEF AdvanceTerm, GrantsOf, LeadersOf
  <2> QED BY <1>a, <2>1, <2>2, VotingStep
<1>1. ASSUME NEW n \in NodeId, StartElection(n) PROVE VoteInv'
  BY <1>1, <1>e DEF StartElection
<1>2. ASSUME NEW n \in NodeId, HandleElectionTimeout(n) PROVE VoteInv'
  <2>1. CASE HasMajority({n})
    BY <1>2, <2>1, <1>e DEF HandleElectionTimeout
  <2>2. CASE ~HasMajority({n})
    <3> \A m \in messages' : m \in messages \/ m.type # "RequestVoteResponse"
      BY <1>2, <2>2 DEF HandleElectionTimeout, PeerRequest
    <3> QED BY <1>2, <2>2, SilentStep DEF HandleElectionTimeout
  <2> QED BY <2>1, <2>2
<1>3. ASSUME NEW n \in NodeId, SendAppendEntries(n) PROVE VoteInv'
  <2>1. \A m \in messages' : m \in messages \/ m.type # "RequestVoteResponse"
    BY <1>3 DEF SendAppendEntries, PeerRequest
  <2>2. \A x \in NodeId : role'[x] = Candidate
            => role[x] = Candidate /\ votesReceived'[x] = votesReceived[x]
    BY <1>3 DEF SendAppendEntries
  <2> QED BY <1>3, <2>1, <2>2, SilentStep DEF SendAppendEntries
<1>4. ASSUME NEW n \in NodeId, StepDown(n) PROVE VoteInv'
  <2>1. \A m \in messages' : m \in messages \/ m.type # "RequestVoteResponse"
    BY <1>4 DEF StepDown, PeerRequest
  <2>2. \A x \in NodeId : role'[x] = Candidate
            => role[x] = Candidate /\ votesReceived'[x] = votesReceived[x]
    BY <1>4 DEF StepDown, BecomeFollower, Follower, Candidate, ElectionTypeOK, ElectingOK
  <2> QED BY <1>4, <2>1, <2>2, SilentStep DEF StepDown
<1>5. ASSUME NEW n \in NodeId, HandleCrash(n) PROVE VoteInv'
  <2>1. \A m \in messages' : m \in messages \/ m.type # "RequestVoteResponse"
    BY <1>5 DEF HandleCrash, PeerRequest
  <2>2. \A x \in NodeId : role'[x] = Candidate
            => role[x] = Candidate /\ votesReceived'[x] = votesReceived[x]
    BY <1>5 DEF HandleCrash, BecomeFollower, Follower, Candidate, ElectionTypeOK, ElectingOK
  <2> QED BY <1>5, <2>1, <2>2, SilentStep DEF HandleCrash
<1>6. ASSUME NEW n \in NodeId, Restart(n) PROVE VoteInv'
  <2>1. \A m \in messages' : m \in messages \/ m.type # "RequestVoteResponse"
    BY <1>6 DEF Restart, PeerRequest
  <2>2. \A x \in NodeId : role'[x] = Candidate
            => role[x] = Candidate /\ votesReceived'[x] = votesReceived[x]
    BY <1>6 DEF Restart, BecomeFollower, Follower, Candidate, ElectionTypeOK, ElectingOK
  <2> QED BY <1>6, <2>1, <2>2, SilentStep DEF Restart
<1>7. ASSUME NEW n \in NodeId, NEW m \in messages, HandleMessage(n, m) PROVE VoteInv'
  <2> m \in RaftMessages /\ m.term \in Nat /\ m.src \in NodeId
    BY DEF RaftMessages, ElectionTypeOK, SimulatorOK
  <2> currentTerm[n] \in Nat
    BY DEF ElectionTypeOK, DurableOK
  <2>1. CASE \E upToDate \in BOOLEAN : HandlePreVote(n, m, upToDate)
    <3> \A k \in messages' : k \in messages \/ k.type # "RequestVoteResponse"
      BY <2>1 DEF HandlePreVote, Response, Answered
    <3> QED BY <2>1, SilentStep DEF HandlePreVote
  <2>2. CASE HandlePreVoteResponse(n, m)
    <3>1. CASE m.term > currentTerm[n] /\ AdvanceTerm(n, m.term)
      BY <1>a, <3>1
    <3>2. CASE ElectionStep(n)
      BY <1>e, <3>2
    <3>3. CASE UNCHANGED <<durable, role, votesReceived, authority, messages>>
      BY <3>3, SilentStep
    <3> QED BY <2>2, <3>1, <3>2, <3>3 DEF HandlePreVoteResponse
  <2>3. CASE \E upToDate \in BOOLEAN : HandleRequestVote(n, m, upToDate)
    <3>1. PICK upToDate \in BOOLEAN : HandleRequestVote(n, m, upToDate)
      BY <2>3
    <3> DEFINE newer == m.term > currentTerm[n]
               term == IF newer THEN m.term ELSE currentTerm[n]
               vote == IF newer THEN Nobody ELSE votedFor[n]
               grant == m.term = term /\ upToDate /\ vote \in {Nobody, m.src}
               v == IF grant THEN m.src ELSE vote
    <3>2. /\ PersistTermAndVote(n, term, v)
          /\ messages' = Answered(Response("RequestVoteResponse", term, n, m.src, 0, grant))
          /\ UNCHANGED leadersByTerm
      BY <3>1 DEF HandleRequestVote
    <3>3. /\ term \in Nat /\ v \in NodeId \cup {Nobody}
          /\ \/ term > currentTerm[n]
             \/ term = currentTerm[n] /\ votedFor[n] \in {Nobody, v}
      BY DEF ElectionTypeOK, DurableOK
    <3>4. CandidatesOf(n, term, v)
      BY <3>1 DEF HandleRequestVote, BecomeFollower, Follower, Candidate, CandidatesOf, ElectionTypeOK, ElectingOK
    <3>5. GrantsOf(n, term, v)
      <4>1. grant => v = m.src
        OBVIOUS
      <4> HIDE DEF grant, term, v
      <4> QED BY <3>2, <4>1, NobodyAssumption DEF Answered, Response, GrantsOf
    <3>6. LeadersOf(n, term, v)
      BY <3>2 DEF LeadersOf
    <3> HIDE DEF term, v
    <3> QED BY <3>2, <3>3, <3>4, <3>5, <3>6, VotingStep
  <2>4. CASE HandleRequestVoteResponse(n, m)
    <3>1. CASE m.term > currentTerm[n] /\ AdvanceTerm(n, m.term)
      BY <1>a, <3>1
    <3>2. CASE ~(m.term > currentTerm[n])
      <4> DEFINE votes == votesReceived[n] \cup {m.src}
      <4>1. /\ m.type = "RequestVoteResponse" /\ m.dst = n /\ m.granted
            /\ m.term = currentTerm[n] /\ role[n] = Candidate
            /\ votesReceived' = [votesReceived EXCEPT ![n] = votes]
            /\ UNCHANGED <<durable, messages>>
        <5>1. /\ m.type = "RequestVoteResponse" /\ m.dst \in {n, Nobody} /\ m.granted
              /\ m.term = currentTerm[n] /\ role[n] = Candidate
              /\ votesReceived' = [votesReceived EXCEPT ![n] = votes]
              /\ UNCHANGED <<durable, messages>>
          BY <2>4, <3>2 DEF HandleRequestVoteResponse, Receives
        <5>2. m.dst \in NodeId
          BY <5>1 DEF VoteInv, GrantsAreVotes, ElectionTypeOK, DurableOK
        <5> QED BY <5>1, <5>2, NobodyAssumption
      <4>2. votes \in SUBSET NodeId /\ \A w \in votes : <<w, currentTerm[n], n>> \in voteTrace
        BY <4>1 DEF VoteInv, GrantsAreVotes, CandidateVotes, ElectionTypeOK, ElectingOK
      <4>3. \A u \in Nat, x \in NodeId : <<u, x>> \in leadersByTerm' =>
                \/ <<u, x>> \in leadersByTerm
                \/ u = currentTerm[n] /\ x = n /\ HasMajority(votes)
        BY <2>4, <3>2 DEF HandleRequestVoteResponse, BecomeLeader
      <4>4. \A x \in NodeId : role'[x] = Candidate => role[x] = Candidate
        BY <2>4, <3>2 DEF HandleRequestVoteResponse, BecomeLeader, Leader, Candidate, ElectionTypeOK, ElectingOK
      <4>5. VotesAreDurable' /\ NoDoubleVote' /\ GrantsAreVotes'
        BY <4>1 DEF VoteInv, VotesAreDurable, NoDoubleVote, GrantsAreVotes
      <4>6. CandidateVotes'
        BY <4>1, <4>2, <4>4 DEF VoteInv, CandidateVotes, ElectionTypeOK, ElectingOK
      <4>7. LeadersHaveQuorum'
        BY <4>1, <4>2, <4>3 DEF VoteInv, LeadersHaveQuorum
      <4> QED BY <4>5, <4>6, <4>7 DEF VoteInv
    <3> QED BY <2>4, <3>1, <3>2 DEF HandleRequestVoteResponse
  <2>5. CASE HandleAppendEntries(n, m)
    <3>1. \A k \in messages' : k \in messages \/ k.type # "RequestVoteResponse"
      BY <2>5 DEF HandleAppendEntries, Response, Answered
    <3>2. CASE m.term > currentTerm[n]
      <4> PersistTermAndVote(n, m.term, Nobody)
        BY <2>5, <3>2 DEF HandleAppendEntries
      <4> CandidatesOf(n, m.term, Nobody)
        BY <2>5, <3>2 DEF HandleAppendEntries, BecomeFollower, Follower, Candidate, CandidatesOf,
                          ElectionTypeOK, ElectingOK
      <4> GrantsOf(n, m.term, Nobody) /\ LeadersOf(n, m.term, Nobody)
        BY <2>5, <3>1 DEF HandleAppendEntries, GrantsOf, LeadersOf
      <4> QED BY <3>2, VotingStep
    <3>3. CASE ~(m.term > currentTerm[n])
      <4> \A x \in NodeId : role'[x] = Candidate
              => role[x] = Candidate /\ votesReceived'[x] = votesReceived[x]
        BY <2>5 DEF HandleAppendEntries, BecomeFollower, Follower, Candidate, ElectionTypeOK, ElectingOK
      <4> QED BY <2>5, <3>1, <3>3, SilentStep DEF HandleAppendEntries
    <3> QED BY <3>2, <3>3
  <2>6. CASE HandleAppendEntriesResponse(n, m)
    BY <2>6, <1>a DEF HandleAppendEntriesResponse
  <2> QED BY <1>7, <2>1, <2>2, <2>3, <2>4, <2>5, <2>6 DEF HandleMessage
<1>8. CASE UNCHANGED electionVars
  BY <1>8, SilentStep DEF electionVars
<1> QED BY <1>1, <1>2, <1>3, <1>4, <1>5, <1>6, <1>7, <1>8 DEF ElectionNext

\* At most one node wins each term, for any cluster size and any number of terms: the
\* check in RaftCluster.record_leader never fires.
THEOREM ElectionIsSafe == ElectionSpec => []ElectionSafety
<1>1. ElectionInit => VoteInv
  BY DEF ElectionInit, VoteInv, VotesAreDurable, NoDoubleVote, GrantsAreVotes, CandidateVotes,
         LeadersHaveQuorum, Follower, Candidate
<1> QED BY <1>1, VoteInvStep, QuorumsAgree, ElectionTypeCorrect, PTL DEF ElectionSpec

-----------------------------------------------------------------------------
(* Leader generations and timers *)

\* Candidates and leaders are up, have started an election and voted for themselves in it:
\* this is why a leader never grants a vote of its own term, which _handle_request_vote
\* would do without retiring its generation.
ElectedAreAlive ==
    \A n \in NodeId : role[n] # Follower => up[n] /\ currentTerm[n] > 0 /\ votedFor[n] = n

AuthorityInv == GenerationTracksLeadership /\ TimerArmedUnlessLeading /\ ElectedAreAlive

\* What AuthorityInv says of one node.
AuthorityAt(n) ==
    /\ runtime[n] = activeGen[n]
    /\ IF role[n] = Leader
         THEN up[n] /\ activeTerm[n] = currentTerm[n] /\ activeGen[n] > 0
         ELSE activeTerm[n] = 0 /\ activeGen[n] = 0
    /\ up[n] => (armed[n] <=> role[n] # Leader)
    /\ role[n] # Follower => up[n] /\ currentTerm[n] > 0 /\ votedFor[n] = n

LEMMA AuthorityPointwise == AuthorityInv <=> \A n \in NodeId : AuthorityAt(n)
BY DEF AuthorityInv, GenerationTracksLeadership, TimerArmedUnlessLeading, ElectedAreAlive,
       AuthorityAt

\* A step of n leaves the authority of every other node alone.
Others(n) ==
    \A x \in NodeId \ {n} :
        /\ currentTerm'[x] = currentTerm[x] /\ votedFor'[x] = votedFor[x]
        /\ role'[x] = role[x]
        /\ up'[x] = up[x] /\ armed'[x] = armed[x]
        /\ activeTerm'[x] = activeTerm[x] /\ activeGen'[x] = activeGen[x]
        /\ runtime'[x] = runtime[x]

LEMMA AuthorityOfOthers ==
    ASSUME AuthorityInv, NEW n \in NodeId, Others(n), AuthorityAt(n)'
    PROVE  AuthorityInv'
<1>1. \A x \in NodeId : AuthorityAt(x)
  BY AuthorityPointwise
<1>2. \A x \in NodeId : AuthorityAt(x)'
  BY <1>1 DEF AuthorityAt, Others
<1> QED BY <1>2 DEF AuthorityInv, GenerationTracksLeadership, TimerArmedUnlessLeading,
                    ElectedAreAlive, AuthorityAt

\* Giving up leadership: the generation of the old term goes, nothing else does.
LEMMA Retirement ==
    ASSUME ElectionTypeOK, NEW n \in NodeId, AuthorityAt(n),
           IF role[n] = Leader THEN NotifyLeaderRetired(n, currentTerm[n])
                               ELSE UNCHANGED <<activeTerm, activeGen, runtime>>
    PROVE  /\ activeTerm'[n] = 0 /\ activeGen'[n] = 0 /\ runtime'[n] = 0
           /\ \A x \in NodeId \ {n} : /\ activeTerm'[x] = activeTerm[x]
                                     /\ activeGen'[x] = activeGen[x]
                                     /\ runtime'[x] = runtime[x]
<1> USE DEF ElectionTypeOK, DurableOK, AuthorityOK, AuthorityAt
<1>1. CASE role[n] = Leader
  BY <1>1 DEF NotifyLeaderRetired, RetireRuntime, Leader, Follower
<1>2. CASE role[n] # Leader
  BY <1>2
<1> QED BY <1>1, <1>2

\* Winning an election from a state without authority.
LEMMA Acquisition ==
    ASSUME ElectionTypeOK, NEW n \in NodeId, NEW t \in Nat, t > 0, AuthorityAt(n), role[n] # Leader,
           NotifyLeaderAcquired(n, t)
    PROVE  /\ activeTerm'[n] = t /\ activeGen'[n] > 0 /\ runtime'[n] = activeGen'[n]
           /\ \A x \in NodeId \ {n} : /\ activeTerm'[x] = activeTerm[x]
                                     /\ activeGen'[x] = activeGen[x]
                                     /\ runtime'[x] = runtime[x]
BY DEF ElectionTypeOK, AuthorityOK, AuthorityAt, NotifyLeaderAcquired, StartRuntime

LEMMA AuthorityInvStep == ElectionTypeOK /\ AuthorityInv /\ [ElectionNext]_electionVars => AuthorityInv'
<1> SUFFICES ASSUME ElectionTypeOK, AuthorityInv, [ElectionNext]_electionVars PROVE AuthorityInv'
  OBVIOUS
<1> \A n \in NodeId : AuthorityAt(n)
  BY AuthorityPointwise
<1> USE DEF durable, electing, authority, Follower, Candidate, Leader
<1>e. ASSUME NEW n \in NodeId, role[n] # Leader, up[n], ElectionStep(n) PROVE AuthorityInv'
  <2>0. currentTerm[n] + 1 \in Nat /\ currentTerm[n] + 1 > 0
    BY DEF ElectionTypeOK, DurableOK
  <2>1. CASE HasMajority({n})
    <3>1. NotifyLeaderAcquired(n, currentTerm[n] + 1)
      BY <1>e, <2>1 DEF ElectionStep, BecomeLeader
    <3>2. /\ activeTerm'[n] = currentTerm[n] + 1 /\ activeGen'[n] > 0
          /\ runtime'[n] = activeGen'[n]
          /\ \A x \in NodeId \ {n} : /\ activeTerm'[x] = activeTerm[x]
                                    /\ activeGen'[x] = activeGen[x]
                                    /\ runtime'[x] = runtime[x]
      BY <1>e, <2>0, <3>1, Acquisition
    <3>3. AuthorityAt(n)' /\ Others(n)
      BY <1>e, <2>0, <2>1, <3>2 DEF ElectionStep, BecomeLeader, PersistTermAndVote, AuthorityAt,
                                    Others, ElectionTypeOK, DurableOK, ElectingOK, SimulatorOK
    <3> QED BY <3>3, AuthorityOfOthers
  <2>2. CASE ~HasMajority({n})
    <3>1. AuthorityAt(n)' /\ Others(n)
      BY <1>e, <2>0, <2>2 DEF ElectionStep, PersistTermAndVote, ResetElectionTimeout, AuthorityAt,
                              Others, ElectionTypeOK, DurableOK, ElectingOK, SimulatorOK
    <3> QED BY <3>1, AuthorityOfOthers
  <2> QED BY <2>1, <2>2
<1>f. ASSUME NEW n \in NodeId,
             IF role[n] = Leader THEN NotifyLeaderRetired(n, currentTerm[n])
                                 ELSE UNCHANGED <<activeTerm, activeGen, runtime>>,
             role' = [role EXCEPT ![n] = Follower],
             up'[n] => armed'[n],
             \A x \in NodeId \ {n} : /\ currentTerm'[x] = currentTerm[x]
                                    /\ votedFor'[x] = votedFor[x]
                                    /\ up'[x] = up[x]
                                    /\ armed'[x] = armed[x]
      PROVE  AuthorityInv'
  <2>1. /\ activeTerm'[n] = 0 /\ activeGen'[n] = 0 /\ runtime'[n] = 0
        /\ \A x \in NodeId \ {n} : /\ activeTerm'[x] = activeTerm[x]
                                  /\ activeGen'[x] = activeGen[x]
                                  /\ runtime'[x] = runtime[x]
    BY <1>f, Retirement
  <2>2. AuthorityAt(n)' /\ Others(n)
    BY <1>f, <2>1 DEF AuthorityAt, Others, ElectionTypeOK, ElectingOK
  <2> QED BY <2>2, AuthorityOfOthers
<1>u. ASSUME UNCHANGED <<currentTerm, votedFor, role, up, armed, activeTerm, activeGen, runtime>>
      PROVE  AuthorityInv'
  BY <1>u DEF AuthorityInv, GenerationTracksLeadership, TimerArmedUnlessLeading, ElectedAreAlive
<1>a. ASSUME NEW n \in NodeId, NEW t \in Nat, up[n], AdvanceTerm(n, t) PROVE AuthorityInv'
  <2>1. up'[n] => armed'[n]
    BY <1>a DEF AdvanceTerm, ResetElectionTimeout, AuthorityAt, ElectionTypeOK, SimulatorOK
  <2>2. \A x \in NodeId \ {n} : /\ currentTerm'[x] = currentTerm[x]
                              /\ votedFor'[x] = votedFor[x]
                              /\ up'[x] = up[x]
                              /\ armed'[x] = armed[x]
    BY <1>a DEF AdvanceTerm, PersistTermAndVote, ResetElectionTimeout, ElectionTypeOK, DurableOK,
                SimulatorOK
  <2> QED BY <1>a, <1>f, <2>1, <2>2 DEF AdvanceTerm, BecomeFollower
<1>1. ASSUME NEW n \in NodeId, StartElection(n) PROVE AuthorityInv'
  BY <1>1, <1>e DEF StartElection
<1>2. ASSUME NEW n \in NodeId, HandleElectionTimeout(n) PROVE AuthorityInv'
  <2>1. CASE HasMajority({n})
    BY <1>2, <2>1, <1>e DEF HandleElectionTimeout
  <2>2. CASE ~HasMajority({n})
    <3> armed' = armed
      BY <1>2, <2>2 DEF HandleElectionTimeout, ResetElectionTimeout, ElectionTypeOK, SimulatorOK
    <3> QED BY <1>2, <2>2, <1>u DEF HandleElectionTimeout
  <2> QED BY <2>1, <2>2
<1>3. ASSUME NEW n \in NodeId, SendAppendEntries(n) PROVE AuthorityInv'
  BY <1>3, <1>u DEF SendAppendEntries
<1>4. ASSUME NEW n \in NodeId, StepDown(n) PROVE AuthorityInv'
  BY <1>4, <1>f DEF StepDown, BecomeFollower, ResetElectionTimeout, ElectionTypeOK, SimulatorOK
<1>5. ASSUME NEW n \in NodeId, HandleCrash(n) PROVE AuthorityInv'
  BY <1>5, <1>f DEF HandleCrash, BecomeFollower, ElectionTypeOK, SimulatorOK
<1>6. ASSUME NEW n \in NodeId, Restart(n) PROVE AuthorityInv'
  <2> IF role[n] = Leader THEN NotifyLeaderRetired(n, currentTerm[n])
                          ELSE UNCHANGED <<activeTerm, activeGen, runtime>>
    BY <1>6 DEF Restart, NotifyLeaderRetired, AuthorityAt
  <2> QED BY <1>6, <1>f DEF Restart, BecomeFollower, ResetElectionTimeout, ElectionTypeOK, SimulatorOK
<1>7. ASSUME NEW n \in NodeId, NEW m \in messages, HandleMessage(n, m) PROVE AuthorityInv'
  <2> m \in RaftMessages /\ m.term \in Nat /\ m.src \in NodeId /\ currentTerm[n] \in Nat
    BY DEF RaftMessages, ElectionTypeOK, SimulatorOK, DurableOK
  <2>1. CASE \E upToDate \in BOOLEAN : HandlePreVote(n, m, upToDate)
    BY <2>1, <1>u DEF HandlePreVote
  <2>2. CASE HandlePreVoteResponse(n, m)
    <3>1. CASE AdvanceTerm(n, m.term)
      BY <1>a, <2>2, <3>1 DEF HandlePreVoteResponse, Receives
    <3>2. CASE role[n] # Leader /\ ElectionStep(n)
      BY <1>e, <2>2, <3>2 DEF HandlePreVoteResponse, Receives
    <3>3. CASE UNCHANGED <<durable, role, up, armed, authority>>
      BY <1>u, <3>3
    <3> QED BY <2>2, <3>1, <3>2, <3>3 DEF HandlePreVoteResponse
  <2>3. CASE \E upToDate \in BOOLEAN : HandleRequestVote(n, m, upToDate)
    <3>1. PICK upToDate \in BOOLEAN : HandleRequestVote(n, m, upToDate)
      BY <2>3
    <3>2. \A x \in NodeId \ {n} : /\ currentTerm'[x] = currentTerm[x]
                                /\ votedFor'[x] = votedFor[x]
                                /\ up'[x] = up[x] /\ armed'[x] = armed[x]
      BY <3>1 DEF HandleRequestVote, PersistTermAndVote, ResetElectionTimeout, ElectionTypeOK, DurableOK,
                  SimulatorOK
    <3>3. CASE m.term > currentTerm[n]
      <4>1. role' = [role EXCEPT ![n] = Follower]
        BY <3>1, <3>3 DEF HandleRequestVote, BecomeFollower
      <4>2. IF role[n] = Leader THEN NotifyLeaderRetired(n, currentTerm[n])
                                ELSE UNCHANGED <<activeTerm, activeGen, runtime>>
        BY <3>1, <3>3 DEF HandleRequestVote
      <4>3. up'[n] => armed'[n]
        BY <3>1, <3>3 DEF HandleRequestVote, Receives, ResetElectionTimeout, AuthorityAt, ElectionTypeOK,
                          SimulatorOK
      <4> QED BY <1>f, <3>2, <4>1, <4>2, <4>3
    <3>4. CASE ~(m.term > currentTerm[n])
      <4>1. /\ UNCHANGED <<activeTerm, activeGen, runtime, up>>
            /\ currentTerm'[n] = currentTerm[n]
        BY <3>1, <3>4 DEF HandleRequestVote, PersistTermAndVote, ElectionTypeOK, DurableOK
      <4>2. \A x \in NodeId \ {n} : role'[x] = role[x]
        BY <3>1, <3>4 DEF HandleRequestVote, ElectionTypeOK, ElectingOK
      <4>3. CASE role[n] # Follower
        <5> votedFor[n] \notin {Nobody, m.src} /\ m.src # n
          BY <3>1, <4>3, NobodyAssumption DEF HandleRequestVote, Receives, AuthorityAt
        <5> /\ role'[n] = role[n] /\ armed'[n] = armed[n] /\ votedFor'[n] = votedFor[n]
          BY <3>1, <3>4 DEF HandleRequestVote, PersistTermAndVote, ElectionTypeOK, DurableOK, ElectingOK
        <5> AuthorityAt(n)' /\ Others(n)
          BY <3>2, <4>1, <4>2 DEF AuthorityAt, Others
        <5> QED BY AuthorityOfOthers
      <4>4. CASE role[n] = Follower
        <5> role'[n] = Follower /\ (armed[n] => armed'[n])
          BY <3>1, <3>4, <4>4 DEF HandleRequestVote, ResetElectionTimeout, ElectionTypeOK, ElectingOK,
                                  SimulatorOK
        <5> AuthorityAt(n)' /\ Others(n)
          BY <3>2, <4>1, <4>2, <4>4 DEF AuthorityAt, Others
        <5> QED BY AuthorityOfOthers
      <4> QED BY <4>3, <4>4
    <3> QED BY <3>3, <3>4
  <2>4. CASE HandleRequestVoteResponse(n, m)
    <3>1. CASE AdvanceTerm(n, m.term)
      BY <1>a, <2>4, <3>1 DEF HandleRequestVoteResponse, Receives
    <3>2. CASE role[n] = Candidate /\ BecomeLeader(n, m.term) /\ UNCHANGED <<durable, up>>
               /\ m.term = currentTerm[n]
      <4>1. /\ activeTerm'[n] = m.term /\ activeGen'[n] > 0 /\ runtime'[n] = activeGen'[n]
            /\ \A x \in NodeId \ {n} : /\ activeTerm'[x] = activeTerm[x]
                                      /\ activeGen'[x] = activeGen[x]
                                      /\ runtime'[x] = runtime[x]
        BY <3>2, Acquisition DEF BecomeLeader, AuthorityAt
      <4>2. AuthorityAt(n)' /\ Others(n)
        BY <3>2, <4>1 DEF BecomeLeader, AuthorityAt, Others, ElectionTypeOK, ElectingOK, SimulatorOK
      <4> QED BY <4>2, AuthorityOfOthers
    <3>3. CASE UNCHANGED <<durable, role, up, armed, authority>>
      BY <1>u, <3>3
    <3> QED BY <2>4, <3>1, <3>2, <3>3 DEF HandleRequestVoteResponse
  <2>5. CASE HandleAppendEntries(n, m)
    <3>1. CASE m.term < currentTerm[n]
      BY <1>u, <2>5, <3>1 DEF HandleAppendEntries
    <3>2. CASE ~(m.term < currentTerm[n])
      BY <1>f, <2>5, <3>2 DEF HandleAppendEntries, PersistTermAndVote, BecomeFollower,
                              ResetElectionTimeout, ElectionTypeOK, DurableOK, SimulatorOK
    <3> QED BY <3>1, <3>2
  <2>6. CASE HandleAppendEntriesResponse(n, m)
    BY <2>6, <1>a DEF HandleAppendEntriesResponse, Receives
  <2> QED BY <1>7, <2>1, <2>2, <2>3, <2>4, <2>5, <2>6 DEF HandleMessage
<1>8. CASE UNCHANGED electionVars
  BY <1>8, <1>u DEF electionVars
<1> QED BY <1>1, <1>2, <1>3, <1>4, <1>5, <1>6, <1>7, <1>8 DEF ElectionNext

LEMMA AuthorityHolds == ElectionSpec => []AuthorityInv
<1>1. ElectionInit => AuthorityInv
  BY DEF ElectionInit, AuthorityInv, GenerationTracksLeadership, TimerArmedUnlessLeading, ElectedAreAlive,
         Follower, Leader
<1> QED BY <1>1, AuthorityInvStep, ElectionTypeCorrect, PTL DEF ElectionSpec

\* A node has an active leader generation and a running runtime exactly while it leads,
\* for any cluster: no handler leaves a retired leader's runtime behind.
THEOREM GenerationFollowsRole == ElectionSpec => []GenerationTracksLeadership
BY AuthorityHolds, PTL DEF AuthorityInv

\* Every live node that does not lead has a timer it will act on, for any cluster.
THEOREM TimerStaysArmed == ElectionSpec => []TimerArmedUnlessLeading
BY AuthorityHolds, PTL DEF AuthorityInv

\* Durable terms never fall and a durable vote of a term never changes, for any cluster.
THEOREM VotesAreFinal == ElectionSpec => VoteIsFinal
<1> DEFINE Final == \A n \in NodeId :
                        /\ currentTerm'[n] >= currentTerm[n]
                        /\ currentTerm'[n] = currentTerm[n] /\ votedFor[n] # Nobody
                               => votedFor'[n] = votedFor[n]
<1>1. ElectionTypeOK /\ [ElectionNext]_electionVars => [Final]_electionVars
  <2> SUFFICES ASSUME ElectionTypeOK, ElectionNext PROVE Final
    OBVIOUS
  <2> USE DEF durable, electing, ElectionTypeOK, DurableOK
  <2>u. ASSUME UNCHANGED durable PROVE Final
    BY <2>u
  <2>p. ASSUME NEW n \in NodeId, NEW t \in Nat, NEW v \in NodeId \cup {Nobody},
               PersistTermAndVote(n, t, v),
               \/ t > currentTerm[n]
               \/ t = currentTerm[n] /\ votedFor[n] \in {Nobody, v}
        PROVE  Final
    BY <2>p DEF PersistTermAndVote
  <2>e. ASSUME NEW n \in NodeId, ElectionStep(n) PROVE Final
    BY <2>e, <2>p DEF ElectionStep
  <2>a. ASSUME NEW n \in NodeId, NEW t \in Nat, t > currentTerm[n], AdvanceTerm(n, t)
        PROVE  Final
    BY <2>a, <2>p DEF AdvanceTerm
  <2> HIDE DEF Final
  <2>1. ASSUME NEW n \in NodeId, StartElection(n) PROVE Final
    BY <2>1, <2>e DEF StartElection
  <2>2. ASSUME NEW n \in NodeId, HandleElectionTimeout(n) PROVE Final
    BY <2>2, <2>e, <2>u DEF HandleElectionTimeout
  <2>3. ASSUME NEW n \in NodeId,
               SendAppendEntries(n) \/ StepDown(n) \/ HandleCrash(n) \/ Restart(n)
        PROVE  Final
    BY <2>3, <2>u DEF SendAppendEntries, StepDown, HandleCrash, Restart
  <2>4. ASSUME NEW n \in NodeId, NEW m \in messages, HandleMessage(n, m) PROVE Final
    <3> m.term \in Nat /\ m.src \in NodeId /\ currentTerm[n] \in Nat
      BY DEF SimulatorOK, RaftMessages
    <3>1. CASE \E upToDate \in BOOLEAN : HandlePreVote(n, m, upToDate)
      BY <3>1, <2>u DEF HandlePreVote
    <3>2. CASE HandlePreVoteResponse(n, m)
      BY <3>2, <2>u, <2>e, <2>a DEF HandlePreVoteResponse
    <3>3. CASE \E upToDate \in BOOLEAN : HandleRequestVote(n, m, upToDate)
      <4>1. PICK upToDate \in BOOLEAN : HandleRequestVote(n, m, upToDate)
        BY <3>3
      <4> DEFINE newer == m.term > currentTerm[n]
                 term == IF newer THEN m.term ELSE currentTerm[n]
                 vote == IF newer THEN Nobody ELSE votedFor[n]
                 v == IF m.term = term /\ upToDate /\ vote \in {Nobody, m.src} THEN m.src ELSE vote
      <4>2. PersistTermAndVote(n, term, v)
        BY <4>1 DEF HandleRequestVote
      <4>3. /\ term \in Nat /\ v \in NodeId \cup {Nobody}
            /\ \/ term > currentTerm[n]
               \/ term = currentTerm[n] /\ votedFor[n] \in {Nobody, v}
        OBVIOUS
      <4> HIDE DEF term, v
      <4> QED BY <4>2, <4>3, <2>p
    <3>4. CASE HandleRequestVoteResponse(n, m)
      BY <3>4, <2>u, <2>a DEF HandleRequestVoteResponse
    <3>5. CASE HandleAppendEntries(n, m)
      BY <3>5, <2>u, <2>p DEF HandleAppendEntries
    <3>6. CASE HandleAppendEntriesResponse(n, m)
      BY <3>6, <2>a DEF HandleAppendEntriesResponse
    <3> QED BY <2>4, <3>1, <3>2, <3>3, <3>4, <3>5, <3>6 DEF HandleMessage
  <2> QED BY <2>1, <2>2, <2>3, <2>4 DEF ElectionNext
<1> QED BY <1>1, ElectionTypeCorrect, PTL DEF ElectionSpec, VoteIsFinal
=============================================================================
