------------------------------ MODULE Minimizer ------------------------------
(***************************************************************************)
(* Delta debugging of a failing scenario: the deletion loop                *)
(* minimize_indexed_sequence, the rounds of the combined minimizer over    *)
(* the fault schedules, and the rounds of the joint minimizer over these   *)
(* and the workload.                                                       *)
(*                                                                         *)
(* The schedules are numbered, the workload last.  An entry is its number  *)
(* in the original schedules, which grows along each of them, so what is   *)
(* left of a schedule is a set.  Replaying a scenario is a predicate on    *)
(* all the entries that are left.  It is any predicate that holds of the   *)
(* whole: without one fault a failure may vanish, and without another too  *)
(* it may come back.                                                       *)
(***************************************************************************)
EXTENDS Integers, FiniteSets, Sequences, FiniteSetsExt

CONSTANTS
    Schedule,       \* the schedules, each a set of entries
    Boundary        \* before_action_index of the fault entries: how many workload actions come before

Workload == Len(Schedule)

ASSUME ScheduleAssumption ==
    /\ Schedule \in Seq(SUBSET (Nat \ {0})) /\ Workload > 1
    /\ \A d \in 1..Workload : IsFiniteSet(Schedule[d])
    /\ \A c, d \in 1..Workload : c # d => Schedule[c] \cap Schedule[d] = {}
    /\ \A e \in DOMAIN Boundary : Boundary[e] \in 0..Cardinality(Schedule[Workload])

VARIABLES
    failing,        \* the sets of entries with which the scenario still fails
    left,           \* the entries that are left of each schedule
    pass,           \* the schedule that is being reduced; 0 after the return, -1 after an exception
    tried,          \* the last entry that the scan has tried, or 0
    combinedSizes,  \* before, of the combined minimizer
    jointSizes      \* before, of the joint minimizer; <<>> when the workload minimizer is called alone

minimizerVars == <<failing, left, pass, tried, combinedSizes, jointSizes>>

All == UNION {Schedule[d] : d \in 1..Workload}

\* Nothing fails without a client action: an empty history is linearizable.
Runnable == {S \in SUBSET All : S \cap Schedule[Workload] # {}}

Remaining == UNION {left[d] : d \in 1..Workload}

Sizes == [d \in 1..Workload |-> Cardinality(left[d])]

-----------------------------------------------------------------------------
(* minimize_indexed_sequence *)

Untried == {e \in left[pass] : e > tried}

\* The entry that the scan tries next
IsCandidate(e) == pass > 0 /\ e \in Untried /\ \A f \in Untried : e <= f

\* The runner accepts a workload only if no fault is scheduled past its end.
IsInRange(e) ==
    pass = Workload => \A f \in Remaining \cap DOMAIN Boundary : Boundary[f] <= Cardinality(left[pass] \ {e})

\* The scenario fails without the entry: it goes, and the scan begins again.
Delete(e) ==
    /\ IsCandidate(e) /\ IsInRange(e)
    /\ Remaining \ {e} \in failing
    /\ left' = [left EXCEPT ![pass] = @ \ {e}]
    /\ tried' = 0
    /\ UNCHANGED <<failing, pass, combinedSizes, jointSizes>>

Keep(e) ==
    /\ IsCandidate(e) /\ IsInRange(e)
    /\ Remaining \ {e} \notin failing
    /\ tried' = e
    /\ UNCHANGED <<failing, left, pass, combinedSizes, jointSizes>>

\* The candidate's ValueError is not caught.
Raise(e) ==
    /\ IsCandidate(e) /\ ~IsInRange(e)
    /\ pass' = -1
    /\ UNCHANGED <<failing, left, tried, combinedSizes, jointSizes>>

-----------------------------------------------------------------------------
(* The rounds *)

PassIsOver == pass > 0 /\ Untried = {}

BeginPass(d) == pass' = d /\ tried' = 0

NextSchedule ==
    /\ PassIsOver /\ pass < Workload - 1
    /\ BeginPass(pass + 1)
    /\ UNCHANGED <<failing, left, combinedSizes, jointSizes>>

\* The combined minimizer: another round while the last one has changed something
NextCombinedRound ==
    /\ PassIsOver /\ pass = Workload - 1
    /\ Sizes # combinedSizes
    /\ BeginPass(1)
    /\ combinedSizes' = Sizes
    /\ UNCHANGED <<failing, left, jointSizes>>

\* The combined minimizer returns, and the workload is next.
ReduceWorkload ==
    /\ PassIsOver /\ pass = Workload - 1
    /\ Sizes = combinedSizes
    /\ BeginPass(Workload)
    /\ UNCHANGED <<failing, left, combinedSizes, jointSizes>>

\* The joint minimizer: another round, in which the combined minimizer begins anew
NextJointRound ==
    /\ PassIsOver /\ pass = Workload
    /\ jointSizes \notin {<<>>, Sizes}
    /\ BeginPass(1)
    /\ combinedSizes' = Sizes /\ jointSizes' = Sizes
    /\ UNCHANGED <<failing, left>>

ReturnAfterFirst ==    \* faulty: one round is enough
    /\ PassIsOver /\ pass = Workload
    /\ pass' = 0
    /\ UNCHANGED <<failing, left, tried, combinedSizes, jointSizes>>

Return ==
    /\ PassIsOver /\ pass = Workload
    /\ jointSizes \in {<<>>, Sizes}
    /\ pass' = 0
    /\ UNCHANGED <<failing, left, tried, combinedSizes, jointSizes>>

-----------------------------------------------------------------------------
MinimizerInit ==
    /\ failing \in {F \in SUBSET Runnable : All \in F}
    /\ left = Schedule
    /\ \/ pass = 1 /\ combinedSizes = Sizes /\ jointSizes = Sizes
       \/ pass = Workload /\ combinedSizes = <<>> /\ jointSizes = <<>>
    /\ tried = 0

MinimizerNext ==
    \/ \E e \in All : Delete(e) \/ Keep(e) \/ Raise(e)
    \/ NextSchedule \/ NextCombinedRound \/ ReduceWorkload \/ NextJointRound \/ Return

MinimizerSpec == MinimizerInit /\ [][MinimizerNext]_minimizerVars

-----------------------------------------------------------------------------
(* Properties *)

\* What may be left out: only the workload when its minimizer was called alone
Reduced == IF jointSizes = <<>> THEN left[Workload] ELSE Remaining

\* What is returned still fails, and no single entry of any of the schedules can be left out:
\* reducing one schedule does not leave another with an entry that has become superfluous.
OneMinimal == pass = 0 => Remaining \in failing /\ \A e \in Reduced : Remaining \ {e} \notin failing
=============================================================================
