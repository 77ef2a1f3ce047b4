--------------------------- MODULE BillingDunning ---------------------------
(***************************************************************************)
(* The nightly billing job                                                 *)
(* (src/apps/api/src/modules/billing/billing-dunning.scheduler.ts), run    *)
(* against everything Billing and BillingAdministration do at the same     *)
(* time.  It reads a batch and then writes to it one row at a time; with   *)
(* one organization a batch is that organization or nothing.               *)
(*                                                                         *)
(* The job settles payments and stops orders by calling the billing        *)
(* service: those calls run in a worker of its own, Job.                   *)
(***************************************************************************)
EXTENDS BillingAdministration

CONSTANTS
    Job,                  \* the worker of the nightly job
    ReconciliationGrace,  \* BILLING_RECONCILIATION_GRACE_DAYS
    WindowStaleDays,      \* BILLING_ROLLOUT_WINDOW_STALE_DAYS
    TransitionWindow      \* BILLING_TRANSITION_WINDOW_DAYS

ASSUME JobAssumption ==
    /\ Job \in Workers
    /\ ReconciliationGrace \in Nat /\ WindowStaleDays \in Nat
    /\ TransitionWindow \in Nat \ {0}

VARIABLE job  \* where the pass is, the date it started on, and its batches

dunningVars == <<vars, job>>

JobIdle == [phase |-> "idle", now |-> 0, order |-> NoOrder, todo |-> {}]

\* No pass is under way: the last one ended, or was killed.
NoPass == job.phase \in {"idle", "killed"}

DunningInit == Init /\ job = JobIdle

GoTo(phase) == job' = [job EXCEPT !.phase = phase]

-----------------------------------------------------------------------------
(* The batches and the conditional writes repeat the same predicates. *)

\* A mistake: complimentary organizations are dunned like any other.
AnyRow(row) == TRUE

Billable(row) == ~row.exempt

RestrictionDue(row, at) ==
    \/ row.status = "PENDING" /\ row.restrictAfter # NoDate /\ row.restrictAfter <= at
    \/ row.status = "PAST_DUE" /\ row.grace # NoDate /\ row.grace <= at

CancellationDue(row, at) ==
    /\ row.cancelRequested
    /\ row.status # "CANCELED"
    /\ row.grace # NoDate /\ row.grace <= at

Unconfirmed(row, at) ==
    /\ Billable(row)
    /\ row.status = "ACTIVE"
    /\ ~row.cancelRequested
    /\ row.period # NoDate /\ row.period + ReconciliationGrace <= at

\* updateMany: the row is written if it still satisfies the condition.
WriteRowIf(condition, row) ==
    /\ sub' = IF condition THEN row ELSE sub
    /\ overtaken' = IF condition THEN Readers(Job) ELSE overtaken
    /\ UNCHANGED <<now, checkouts, requests, log, orgActive, op, liqPayVars>>

-----------------------------------------------------------------------------

\* A mistake: windows that ran out while nothing was enforced are not handed back.
StartJobReconciling(enforcing) ==
    /\ NoPass /\ op[Job] = Idle
    /\ job' = [JobIdle EXCEPT !.phase = IF enforcing THEN "reconciling" ELSE "listing",
                              !.now = now]
    /\ UNCHANGED vars

\* With enforcement off only the retries of the unsubscribe queue run.
StartJob(enforcing) ==
    /\ NoPass /\ op[Job] = Idle
    /\ job' = [JobIdle EXCEPT !.phase = IF enforcing THEN "reopening" ELSE "listing",
                              !.now = now]
    /\ UNCHANGED vars

ReopenStaleWindow ==
    /\ job.phase = "reopening"
    /\ WriteRowIf(/\ Billable(sub) /\ orgActive
                  /\ sub.status = "PENDING" /\ sub.restrictAfter # NoDate
                  /\ sub.restrictAfter + WindowStaleDays <= job.now,
                  [sub EXCEPT !.restrictAfter = job.now + TransitionWindow])
    /\ GoTo("reconciling")

ListUnconfirmedRenewals ==
    /\ job.phase = "reconciling"
    /\ job' = IF Unconfirmed(sub, job.now) /\ orgActive
              THEN [job EXCEPT !.phase = IF sub.order # NoOrder THEN "querying" ELSE "marking",
                               !.order = sub.order]
              ELSE [job EXCEPT !.phase = "due"]
    /\ UNCHANGED vars

\* reconcileOrderWithProvider: a paid answer takes the path of a callback.
QueryPaid ==
    /\ job.phase = "querying"
    /\ \E e \in NewestReports(job.order) :
         /\ e.status \in PaidStatuses
         /\ Run(Job, Received(e, job.now, 1))
    /\ GoTo("settling")
    /\ UNCHANGED <<now, rowVars, overtaken, liqPayVars>>

\* A mistake: a renewal LiqPay says nothing about is left as it is.
QueryUndecidedPatiently ==
    /\ job.phase = "querying"
    /\ GoTo("due")
    /\ UNCHANGED vars

\* Not paid, or LiqPay could not be asked.
QueryUndecided ==
    /\ job.phase = "querying"
    /\ GoTo("marking")
    /\ UNCHANGED vars

Settled ==
    /\ job.phase = "settling"
    /\ op[Job] = Idle
    /\ GoTo("marking")
    /\ UNCHANGED vars

\* A mistake: the renewal is not looked at again before it is written off.
MarkPastDue ==
    /\ job.phase = "marking"
    /\ WriteRowIf(TRUE, [sub EXCEPT !.status = "PAST_DUE", !.grace = job.now + GracePeriod])
    /\ GoTo("due")

MarkPastDueIfStillUnconfirmed ==
    /\ job.phase = "marking"
    /\ WriteRowIf(Unconfirmed(sub, job.now),
                  [sub EXCEPT !.status = "PAST_DUE", !.grace = job.now + GracePeriod])
    /\ GoTo("due")

\* A mistake: cancellations that ran out are not looked for.
ListRestrictionDueOnly ==
    /\ job.phase = "due"
    /\ GoTo(IF /\ Billable(sub) /\ orgActive
               /\ ~sub.cancelRequested /\ RestrictionDue(sub, job.now)
            THEN "finishing" ELSE "listing")
    /\ UNCHANGED vars

ListRestrictionDue ==
    /\ job.phase = "due"
    /\ GoTo(IF /\ Billable(sub) /\ orgActive
               /\ RestrictionDue(sub, job.now) \/ CancellationDue(sub, job.now)
            THEN "finishing" ELSE "listing")
    /\ UNCHANGED vars

\* A mistake: the status is not one the schema has.
FinishCancellationAsEnded ==
    LET due == Billable(sub) /\ CancellationDue(sub, job.now)
    IN  /\ job.phase = "finishing"
        /\ WriteRowIf(due, [sub EXCEPT !.status = "ENDED"])
        /\ GoTo(IF due THEN "listing" ELSE "restricting")

\* restrictIfStillDue is two conditional writes: the cancellation that is over ...
FinishCancellationIfDue ==
    LET due == Billable(sub) /\ CancellationDue(sub, job.now)
    IN  /\ job.phase = "finishing"
        /\ WriteRowIf(due, [sub EXCEPT !.status = "CANCELED"])
        /\ GoTo(IF due THEN "listing" ELSE "restricting")

\* A mistake: whoever was listed is restricted.
RestrictListed ==
    /\ job.phase = "restricting"
    /\ WriteRowIf(TRUE, [sub EXCEPT !.status = "RESTRICTED", !.grace = NoDate])
    /\ GoTo("listing")

\* ... and, if there was none, the subscription that ran out of paid access.
RestrictIfDue ==
    /\ job.phase = "restricting"
    /\ WriteRowIf(/\ Billable(sub) /\ ~sub.cancelRequested
                  /\ RestrictionDue(sub, job.now),
                  [sub EXCEPT !.status = "RESTRICTED", !.grace = NoDate])
    /\ GoTo("listing")

ListOpenUnsubscribeRequests ==
    /\ job.phase = "listing"
    /\ job' = [job EXCEPT !.phase = "stopping",
                          !.todo = {o \in Orders : requests[o] = "open"}]
    /\ UNCHANGED vars

RetryUnsubscribe(o) ==
    /\ job.phase = "stopping" /\ op[Job] = Idle
    /\ o \in job.todo
    /\ job' = [job EXCEPT !.todo = @ \ {o}]
    /\ Run(Job, Stopping(o))
    /\ UNCHANGED <<now, rowVars, overtaken, liqPayVars>>

FinishJob ==
    /\ job.phase = "stopping" /\ op[Job] = Idle
    /\ job.todo = {}
    /\ job' = JobIdle
    /\ UNCHANGED vars

\* The process dies in the middle of the pass.
AbortJob ==
    /\ ~NoPass
    /\ job' = [JobIdle EXCEPT !.phase = "killed"]
    /\ Run(Job, Idle)
    /\ RowUnread(Job)
    /\ UNCHANGED <<now, rowVars, liqPayVars>>

-----------------------------------------------------------------------------
JobStep ==
    \/ ReopenStaleWindow
    \/ ListUnconfirmedRenewals \/ QueryPaid \/ QueryUndecided \/ Settled
    \/ MarkPastDueIfStillUnconfirmed
    \/ ListRestrictionDue \/ FinishCancellationIfDue \/ RestrictIfDue
    \/ ListOpenUnsubscribeRequests \/ (\E o \in Orders : RetryUnsubscribe(o)) \/ FinishJob

\* The calls the job makes to the billing service.  One that fails is logged and left:
\* Abort(Job) ends the call, not the pass.
JobCall == Continue(Job) /\ UNCHANGED job

RequestStep ==
    /\ \E w \in Workers \ {Job} :
         Arrive(w) \/ AdminArrive(w) \/ CommitStatusChange(w) \/ Continue(w)
    /\ UNCHANGED job

DayPasses ==
    /\ Tick
    /\ NoPass \/ job.now = now
    /\ UNCHANGED job

DunningNext ==
    \/ \E enforcing \in BOOLEAN : StartJob(enforcing)
    \/ JobStep \/ JobCall \/ AbortJob
    \/ RequestStep
    \/ ProviderStep /\ UNCHANGED job
    \/ DayPasses

DunningSpec == DunningInit /\ [][DunningNext]_dunningVars

(* The job runs every night and, as far as deadlines are concerned, with     *)
(* enforcement on; a started pass goes on; LiqPay does not refuse an order   *)
(* forever, nor the database to note that it was stopped; and from some      *)
(* night on the process is not killed in the middle of the pass.             *)
JobFairness ==
    /\ SF_dunningVars(StartJob(TRUE))
    /\ WF_dunningVars(JobStep)
    /\ WF_dunningVars(JobCall)
    /\ SF_dunningVars(StopAccepted(Job) /\ UNCHANGED job)
    /\ SF_dunningVars(ResolveUnsubscribeRequest(Job) /\ UNCHANGED job)
    /\ <>[](job.phase # "killed")

FairDunningSpec == DunningSpec /\ JobFairness

-----------------------------------------------------------------------------
JobPhases ==
    {"idle", "killed", "reopening", "reconciling", "querying", "settling", "marking", "due",
     "finishing", "restricting", "listing", "stopping"}

\* The types of Billing, and of the pass in progress.
DunningTypeOK ==
    /\ TypeOK
    /\ job \in [phase : JobPhases, now : Nat, order : Orders \cup {NoOrder},
                todo : SUBSET Orders]

\* Full access ends by the passing of a deadline, by the end of a complimentary grant or
\* by a cancellation with no time left; a failed charge, a reversal or the nightly job
\* never takes it away the day it happens.  A status change may: it closes the
\* organization, and writes what it computed on the row as it read it (changeStatus).
AccessEndsOnlyAtItsDeadline ==
    [][FullAccess(sub, now) /\ ~FullAccess(sub', now') =>
         \/ now' # now
         \/ sub.exempt /\ ~sub'.exempt
         \/ ~sub.cancelRequested /\ sub'.cancelRequested
         \/ \E w \in Workers : CommitStatusChange(w)]_dunningVars

\* A paid period that is not over is put into arrears only by a charge LiqPay reported
\* as failed, never by the job's own reading of it (markPastDueIfStillUnconfirmed), or
\* put back into them by a status change that read the row before it was paid.
ArrearsNeedAReason ==
    [][sub.status = "ACTIVE" /\ sub'.status = "PAST_DUE" =>
         \/ \E l \in log' \ log : l.status \in FailedStatuses
         \/ sub.period + ReconciliationGrace <= now
         \/ \E w \in Workers : CommitStatusChange(w) /\ op[w].seen.status = "PAST_DUE"]_dunningVars

\* No job walks a complimentary organization into RESTRICTED, PAST_DUE or CANCELED,
\* also when it was granted after the job listed it (restrictIfStillDue).
JobLeavesExemptAlone ==
    [][sub.exempt /\ sub'.exempt /\ job' # job => sub' = sub]_dunningVars

\* An organization is not restricted over a rollout window that ran out while nothing
\* enforced it: such a window is handed back first (reopenStaleTransitionWindows).
StaleWindowIsNotSpent ==
    [][sub.status = "PENDING" /\ sub'.status = "RESTRICTED" =>
         sub.restrictAfter + WindowStaleDays > job.now]_dunningVars

-----------------------------------------------------------------------------
(* Liveness. *)

\* Every order queued to be stopped is stopped in the end: no lost answer, refusal
\* or crash leaves a card being charged (retryPendingUnsubscribes).
QueuedOrderIsStopped ==
    \A o \in Orders : requests[o] = "open" ~> requests[o] # "open" /\ recurring[o] # "charging"

\* A renewal that was never reported does not grant access forever
\* (reconcileUnconfirmedRenewals).
SilenceIsNoticed ==
    Unconfirmed(sub, now) /\ orgActive ~> ~Unconfirmed(sub, now) \/ ~orgActive

\* An organization past its deadline is restricted, or its cancellation finished,
\* unless it pays or becomes complimentary first (restrictExpired).
OverdueIsClosed ==
    LET overdue == /\ Billable(sub) /\ orgActive
                   /\ \/ CancellationDue(sub, now)
                      \/ ~sub.cancelRequested /\ RestrictionDue(sub, now)
    IN  overdue ~> ~overdue
=============================================================================
