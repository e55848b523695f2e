------------------------- MODULE MCSessionsAndTools -------------------------
(***************************************************************************)
(* Model-checking instance of three parts that share no state: client      *)
(* sessions, whose histories the checkers of Linearizability judge, the    *)
(* simulator and the minimizers.  A behaviour is one of a single part, the *)
(* others stay as they were built.                                         *)
(***************************************************************************)
EXTENDS KVClient, Linearizability, Minimizer, Simulator

CONSTANTS k, u

Put(value) == [type |-> "put", key |-> k, value |-> value]
Erase == [type |-> "delete", key |-> k, value |-> Absent]
Get == [type |-> "get", key |-> k, value |-> Absent]

WritesAndReads == {Put(u), Erase, Get}

\* Message faults, lifecycle actions or link faults, and a workload
Schedules == <<{1}, {2}, {3, 4}>>
Boundaries == [e \in {2} |-> 1]

\* Plans with every action, and with a rule hidden by an earlier one
Rule(action, src, dst, ordinal, extra) ==
    [action |-> action, src |-> src, dst |-> dst, ordinal |-> ordinal, extra_delay |-> extra]

FirstPlan == <<Rule("duplicate", "a", AnyNode, 0, 0), Rule("drop", "a", "b", 1, 0)>>
SecondPlan == <<Rule("delay", "a", "b", 1, 2), Rule("drop", AnyNode, "b", 2, 0), Rule("duplicate", AnyNode, AnyNode, 0, 1)>>
FaultPlans == {FirstPlan, SecondPlan}

SendLinks == {<<"a", "b">>, <<"b", "b">>}   \* a message and a timer of its receiver

VARIABLE part       \* the part that runs

partVars == <<clientVars, minimizerVars, simulatorVars, part>>

PartInit ==
    /\ ClientInit /\ MinimizerInit /\ SimulatorInit
    /\ part \in {"sessions", "minimizer", "simulator"}
    /\ part # "minimizer" => failing = {All} /\ pass = 1
    /\ part # "simulator" => plan = FirstPlan

Sessions == part = "sessions" /\ ClientNext /\ UNCHANGED <<minimizerVars, simulatorVars>>
Minimize == part = "minimizer" /\ MinimizerNext /\ UNCHANGED <<clientVars, simulatorVars>>
Simulate == part = "simulator" /\ SimulatorNext /\ UNCHANGED <<clientVars, minimizerVars>>

PartSpec == PartInit /\ [][(Sessions \/ Minimize \/ Simulate) /\ UNCHANGED part]_partVars

\* Each disjunct is an instance of its own.
SessionsExplored ==
    \* two clients that write once each and keep their reads
    \/ /\ Len(history) <= 4 /\ Len(log) <= 3
       /\ \A q \in submitted : q.id = 0
       /\ \A i \in DOMAIN history : ~history[i].abandoned
    \* one client with several requests, and reads that are abandoned
    \/ Len(history) <= 3 /\ \A i, j \in DOMAIN history : history[i].client = history[j].client

\* Three messages, two faults and a message between them, or what lies in between
SimulatorExplored == Sent + faults <= 3

Explored == SessionsExplored /\ SimulatorExplored

Symmetry == Permutations(Client) \cup Permutations(Node)

\* What the clients see is linearizable by the project's own checker, with retries, duplicates,
\* pending writes, abandoned reads and sessions that are lost and recovered.
ClientsSeeLinearizability == CheckEveryKey(history)
=============================================================================
