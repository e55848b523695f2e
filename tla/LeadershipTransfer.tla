------------------------- MODULE LeadershipTransfer -------------------------
(***************************************************************************)
(* Leadership transfer on top of a reconfigurable cluster: the driver      *)
(* LeadershipTransfer.transfer, the transport with its active attempts,    *)
(* and retry_timeout_now.                                                  *)
(*                                                                         *)
(* A TimeoutNow stays in flight for ever: it may be late, repeated or      *)
(* never delivered.  transfer runs the simulator between its own steps,    *)
(* and any event of the cluster may happen there; the budgets of these     *)
(* runs may be used up at any moment.  One transfer runs at a time, since  *)
(* the call returns before the next is made.                               *)
(***************************************************************************)
EXTENDS Membership

CONSTANTS
    MaxTimeoutNow,      \* max_timeout_now_attempts
    MaxAttempt          \* bound on the attempt ids

\* A call of transfer; attempt is 0 before dispatch.
Call == [src : Server, dst : Server, term : Nat, attempt : Nat, tries : Nat]

ASSUME TransferAssumption ==
    /\ MaxTimeoutNow \in Nat \ {0} /\ MaxAttempt \in Nat
    /\ None \notin Call

VARIABLES
    transfer,       \* the call of transfer that is running, or None
    active,         \* _active_attempts with _attempt_configurations
    nextAttempt,    \* _next_attempt_id
    timeouts,       \* TimeoutNow messages
    epoch,          \* the identity of the voting configuration: one per installed configuration
    triggered,      \* history: the elections that a TimeoutNow started, and during which attempt
    retired         \* history: the sources, with their terms, of completed transfers

transferVars == <<transfer, active, nextAttempt, timeouts, triggered, retired>>
allVars == <<vars, transferVars, epoch>>

-----------------------------------------------------------------------------
\* transfer accepts only a voter that stays one once a joint configuration is finalized.
MayLead(n) == IsVoter(n) /\ (IsJoint(config) => n \in config.new)

HasTerm(n, t) == node[n].role = Leader /\ node[n].term = t

\* the checks on the transferee after catch-up, at delivery and before a retry
CaughtUp(src, dst) ==
    /\ LastIndex(node[dst]) = LastIndex(node[src])
    /\ TermAt(node[dst], LastIndex(node[dst])) = TermAt(node[src], LastIndex(node[src]))
    /\ node[dst].commit >= node[src].commit

\* _retained_log_overlap_matches
LogsMatch(src, dst) ==
    LET first == Max({node[src].base, node[dst].base})
    IN  /\ TermAt(node[src], first) = TermAt(node[dst], first)
        /\ SubSeq(node[src].log, first + 1, LastIndex(node[src])) = SubSeq(node[dst].log, first + 1, LastIndex(node[src]))

\* _transfer_elected
TransferElected(x) ==
    LET s == node[x.src]
        d == node[x.dst]
    IN  /\ d.role = Leader /\ d.term > x.term
        /\ \/ ~s.alive
           \/ s.role = Follower
           \/ s.role = Candidate /\ s.term >= d.term

IsActive(id, src, dst, t) == \E x \in active : x.id = id /\ x.src = src /\ x.dst = dst /\ x.term = t

\* cancel_timeout_now and complete_timeout_now
Drop(id) == active' = {x \in active : x.id # id}

TimeoutNow(x) == [src |-> x.src, dst |-> x.dst, term |-> x.term, id |-> x.attempt]

-----------------------------------------------------------------------------
(* The driver *)

Begin(src, dst) ==
    /\ transfer = None
    /\ nextAttempt < MaxAttempt
    /\ Leads(src) /\ dst # src
    /\ MayLead(dst) /\ node[dst].alive
    /\ transfer' = [src |-> src, dst |-> dst, term |-> node[src].term, attempt |-> 0, tries |-> 0]
    /\ UNCHANGED <<vars, active, nextAttempt, timeouts, epoch, triggered, retired>>

\* The peer could not be caught up, or something of what follows raised: the call ends.
FailCatchUp ==
    /\ transfer # None /\ transfer.attempt = 0
    /\ transfer' = None
    /\ UNCHANGED <<vars, active, nextAttempt, timeouts, epoch, triggered, retired>>

\* recover_peer has caught the transferee up; send_timeout_now
Dispatch ==
    /\ transfer # None /\ transfer.attempt = 0
    /\ node[transfer.dst].alive /\ node[transfer.src].alive
    /\ HasTerm(transfer.src, transfer.term)
    /\ CaughtUp(transfer.src, transfer.dst)
    /\ ~\E x \in active : x.src = transfer.src /\ x.term = transfer.term
    /\ LET x == [transfer EXCEPT !.attempt = nextAttempt + 1, !.tries = 1]
       IN  /\ transfer' = x
           /\ active' = active \cup {[id |-> x.attempt, src |-> x.src, dst |-> x.dst, term |-> x.term, epoch |-> epoch]}
           /\ timeouts' = timeouts \cup {TimeoutNow(x)}
    /\ nextAttempt' = nextAttempt + 1
    /\ UNCHANGED <<vars, epoch, triggered, retired>>

Waits == transfer # None /\ transfer.attempt > 0

\* The transferee was caught up again and retry_timeout_now has no objection.
Retry ==
    /\ Waits /\ ~TransferElected(transfer) /\ transfer.tries < MaxTimeoutNow
    /\ node[transfer.dst].alive /\ node[transfer.src].alive
    /\ HasTerm(transfer.src, transfer.term)
    /\ [id |-> transfer.attempt, src |-> transfer.src, dst |-> transfer.dst, term |-> transfer.term, epoch |-> epoch] \in active
    /\ CaughtUp(transfer.src, transfer.dst) /\ LogsMatch(transfer.src, transfer.dst)
    /\ transfer' = [transfer EXCEPT !.tries = @ + 1]
    /\ timeouts' = timeouts \cup {TimeoutNow(transfer)}
    /\ UNCHANGED <<vars, active, nextAttempt, epoch, triggered, retired>>

\* Catch-up before a retry failed, the retry was rejected, or no attempt is left.  The election
\* is not looked at once catch-up has begun: a transferee that wins meanwhile is a failure too.
MayGiveUp == Waits /\ (TransferElected(transfer) => transfer.tries < MaxTimeoutNow)

GiveUpKeeps ==    \* faulty: the attempt is not cancelled
    /\ MayGiveUp
    /\ transfer' = None
    /\ UNCHANGED <<vars, active, nextAttempt, timeouts, epoch, triggered, retired>>

GiveUp ==
    /\ MayGiveUp
    /\ Drop(transfer.attempt)
    /\ transfer' = None
    /\ UNCHANGED <<vars, nextAttempt, timeouts, epoch, triggered, retired>>

Complete ==
    /\ Waits /\ TransferElected(transfer)
    /\ Drop(transfer.attempt)
    /\ retired' = retired \cup {<<transfer.src, transfer.term>>}
    /\ transfer' = None
    /\ UNCHANGED <<vars, nextAttempt, timeouts, epoch, triggered>>

-----------------------------------------------------------------------------
(* _handle_timeout_now.  The handler runs at its own endpoint, also when the transferee is down. *)

\* The reasons that come before the one that is retryable
IsStale(m) ==
    \/ ~IsActive(m.id, m.src, m.dst, m.term)
    \/ ~node[m.dst].alive \/ ~node[m.src].alive
    \/ m.term # node[m.dst].term
    \/ <<m.term, m.src>> \notin leaders
    \/ ~HasTerm(m.src, m.term)

IsRejected(m) ==
    \/ ~LogsMatch(m.src, m.dst)
    \/ ~MayLead(m.dst)
    \/ ~\E x \in active : x.id = m.id /\ x.epoch = epoch

DeliverTimeoutNow(m) ==
    /\ ~IsStale(m) /\ CaughtUp(m.src, m.dst) /\ ~IsRejected(m)
    /\ Elect(m.dst)
    /\ triggered' = triggered \cup {[id |-> m.id, term |-> node[m.dst].term + 1,
                                     during |-> IF transfer = None THEN 0 ELSE transfer.attempt]}
    /\ UNCHANGED <<bootstrap, transfer, active, nextAttempt, timeouts, epoch, retired>>

\* The attempt ends; only a transferee that is not caught up leaves it active, and changes nothing.
RejectTimeoutNow(m) ==
    /\ IsStale(m) \/ (CaughtUp(m.src, m.dst) /\ IsRejected(m))
    /\ IsActive(m.id, m.src, m.dst, m.term)
    /\ Drop(m.id)
    /\ UNCHANGED <<vars, transfer, nextAttempt, timeouts, epoch, triggered, retired>>

-----------------------------------------------------------------------------
TransferInit ==
    /\ Init
    /\ transfer = None
    /\ active = {}
    /\ nextAttempt = 0
    /\ timeouts = {}
    /\ epoch = 0
    /\ triggered = {}
    /\ retired = {}

\* A step of the cluster
ClusterStep ==
    /\ Next
    /\ epoch' = IF config' = config THEN epoch ELSE epoch + 1
    /\ UNCHANGED transferVars

TransferNext ==
    \/ ClusterStep
    \/ \E src, dst \in Server : Begin(src, dst)
    \/ FailCatchUp
    \/ Dispatch
    \/ Retry
    \/ GiveUp
    \/ Complete
    \/ \E m \in timeouts : DeliverTimeoutNow(m)
    \/ \E m \in timeouts : RejectTimeoutNow(m)

TransferSpec == TransferInit /\ [][TransferNext]_allVars

-----------------------------------------------------------------------------
(* Properties *)

\* A TimeoutNow starts an election only while the transfer that sent it is still waiting for
\* it, and one election only, however often it is repeated, late or retried: an attempt that
\* was given up or is complete cannot depose anyone later.
ElectionsBelongToTheirTransfer ==
    /\ \A x \in triggered : x.during = x.id
    /\ \A x, y \in triggered : x.id = y.id => x = y

\* Once transfer has returned, the old leader never leads in that term again.
RetiredSourcesStayRetired == \A x \in retired : ~(Leads(x[1]) /\ node[x[1]].term = x[2])

\* A transfer acts while it lasts and never after, and its end is final.
TransfersAreFenced == ElectionsBelongToTheirTransfer /\ RetiredSourcesStayRetired
=============================================================================
