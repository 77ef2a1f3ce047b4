--------------------------- MODULE DunningProofs ---------------------------
(***************************************************************************)
(* Proofs about BillingDunning: what the nightly job, platform admins and  *)
(* requests may do to a subscription between them, for any number of       *)
(* requests, orders, callbacks and days.                                   *)
(***************************************************************************)
EXTENDS BillingDunning, BillingProofs

JobTyped ==
    job \in [phase : JobPhases, now : Nat, order : Orders \cup {NoOrder}, todo : SUBSET Orders]

\* The pass has seen at most one midnight.
PassIsOfToday == ~NoPass => job.now <= now /\ now <= job.now + 1

\* The job calls the billing service only where it waits for the answer.
JobRests == job.phase \notin {"settling", "stopping"} => op[Job] = Idle

\* The inductive invariant of the theorems below.
DunningInv == ReadingInv /\ JobTyped /\ RequestsAreOfToday /\ PassIsOfToday /\ JobRests

-----------------------------------------------------------------------------
(* The steps of the system. *)

\* A request starts, or one is dropped; the tables stay as they are.
Moves ==
    \E w \in Workers, next \in Requests :
      /\ Run(w, next)
      /\ next.phase \notin Reading
      /\ next.phase \in Callbacks => ~NoPass /\ next.now = job.now
      /\ RowUnread(w) \/ overtaken' = overtaken
      /\ UNCHANGED <<now, rowVars, liqPayVars>>

AdminWrites(w) ==
    \/ GrantBillingExemption(w)
    \/ "REVOKE" \in AdminOperations /\ RevokeBillingExemption(w)
    \/ CommitStatusChange(w)
    \/ "RESTORE" \in AdminOperations /\ RestoreOrganization(w)

JobWrites ==
    \/ ReopenStaleWindow \/ MarkPastDueIfStillUnconfirmed
    \/ FinishCancellationIfDue \/ RestrictIfDue

\* Every step is one of Billing, one that only moves a request, or a write of an admin
\* or of the job.
LEMMA DunningSteps ==
    ASSUME DunningInv, [DunningNext]_dunningVars
    PROVE  [Next]_vars \/ Moves \/ (\E w \in Workers : AdminWrites(w)) \/ JobWrites
<1>1. /\ TypeOK /\ JobTyped /\ Job \in Workers
      /\ sent \subseteq Events /\ sub \in SubscriptionRows /\ now \in Nat
  BY JobAssumption DEF DunningInv, ReadingInv, TypeOK
<1>2. CASE JobStep
  <2>1. CASE QueryPaid
    <3>1. PICK e \in NewestReports(job.order) : Run(Job, Received(e, job.now, 1))
      BY <2>1 DEF QueryPaid
    <3>2. e \in Events /\ job.now \in Nat
      BY <1>1, <3>1 DEF NewestReports, JobTyped
    <3>3. /\ Received(e, job.now, 1) \in Requests
          /\ Received(e, job.now, 1).phase = "received"
          /\ Received(e, job.now, 1).now = job.now
      BY <3>2 DEF Received, ReceivedRequests, Requests
    <3> QED
      BY <1>1, <2>1, <3>1, <3>3 DEF QueryPaid, Moves, Reading, NoPass
  <2>2. ASSUME NEW o \in Orders, RetryUnsubscribe(o)
        PROVE  Moves
    <3>1. Stopping(o) \in Requests /\ Stopping(o).phase = "stopping"
      BY PlainRequests DEF Stopping
    <3> QED
      BY <1>1, <2>2, <3>1 DEF RetryUnsubscribe, Moves, Reading, Callbacks
  <2>3. CASE JobWrites
    BY <2>3
  <2>4. CASE ListUnconfirmedRenewals \/ QueryUndecided \/ Settled \/ ListRestrictionDue
             \/ ListOpenUnsubscribeRequests \/ FinishJob
    BY <2>4 DEF ListUnconfirmedRenewals, QueryUndecided, Settled, ListRestrictionDue,
       ListOpenUnsubscribeRequests, FinishJob
  <2> QED
    BY <1>2, <2>1, <2>2, <2>3, <2>4 DEF JobStep, JobWrites
<1>3. CASE RequestStep
  <2>1. PICK w \in Workers :
          Arrive(w) \/ AdminArrive(w) \/ CommitStatusChange(w) \/ Continue(w)
    BY <1>3 DEF RequestStep
  <2>2. CASE ReadForStatusChange(w)
    <3> DEFINE next == [phase |-> "changing", now |-> now, seen |-> sub]
    <3>1. next \in Requests /\ next.phase = "changing" /\ Run(w, next)
      BY <1>1, <2>2 DEF ReadForStatusChange, Requests, ChangeRequests
    <3> HIDE DEF next
    <3> QED
      BY <2>2, <3>1 DEF ReadForStatusChange, Moves, Reading, Callbacks
  <2> QED
    BY <2>1, <2>2 DEF AdminArrive, AdminWrites, Next
<1>4. CASE AbortJob
  <2>1. Idle \in Requests /\ Idle.phase = "idle"
    BY PlainRequests DEF Idle
  <2> QED
    BY <1>1, <1>4, <2>1 DEF AbortJob, Moves, Reading, Callbacks
<1>5. CASE (\E enforcing \in BOOLEAN : StartJob(enforcing)) \/ JobCall \/ ProviderStep
           \/ DayPasses \/ UNCHANGED dunningVars
  BY <1>1, <1>5 DEF StartJob, JobCall, DayPasses, Next, dunningVars
<1> QED
  BY <1>2, <1>3, <1>4, <1>5 DEF DunningNext

-----------------------------------------------------------------------------
(* What the writes of an admin and of the job do to the row. *)

\* An order to stop is an order.
LEMMA LiveOrderType ==
    ASSUME NEW row \in SubscriptionRows
    PROVE  LiveOrderToStop(row) \in SUBSET Orders
  BY DEF LiveOrderToStop, CanRequestCancellation, SubscriptionRows

\* A row whose cancellation had not been requested, cancelled: only a row with access left
\* keeps its status.
LEMMA CancellationStatus ==
    ASSUME NEW row \in SubscriptionRows, NEW at \in Nat, ~row.cancelRequested
    PROVE  CancellationTransition(row, at).status \in {"ACTIVE", "PAST_DUE", "CANCELED"} \cap
             {row.status, "CANCELED"}
<1>1. CASE GraceAtCancellation(row) > at
  <2>1. row.status \in {"ACTIVE", "PAST_DUE"}
    BY <1>1 DEF GraceAtCancellation, NoDate
  <2> QED
    BY <1>1, <2>1 DEF CancellationTransition, Transition
<1>2. CASE ~(GraceAtCancellation(row) > at)
  BY <1>2 DEF CancellationTransition, Transition
<1> QED
  BY <1>1, <1>2

\* A status change leaves the row alone, or writes over it the cancellation of the row it
\* read, one whose cancellation had not been requested then.
LEMMA StatusChangeCommitted ==
    ASSUME TypeOK, NEW w \in Workers, CommitStatusChange(w)
    PROVE  \/ sub' = sub /\ overtaken' = overtaken
           \/ LET t == CancellationTransition(op[w].seen, op[w].now)
              IN  /\ RowWritten(w)
                  /\ op[w].seen \in SubscriptionRows /\ op[w].now \in Nat
                  /\ ~op[w].seen.cancelRequested
                  /\ t \in Transitions
                  /\ sub' \in SubscriptionRows
                  /\ sub'.status = t.status /\ sub'.cancelRequested
                  /\ sub'.exempt = sub.exempt /\ sub'.order = sub.order
                  /\ sub'.restrictAfter = sub.restrictAfter
<1> DEFINE t == CancellationTransition(op[w].seen, op[w].now)
<1>1. op[w].seen \in SubscriptionRows /\ op[w].now \in Nat /\ sub \in SubscriptionRows
  BY PhaseType DEF TypeOK, CommitStatusChange, ChangeRequests
<1>2. CASE LiveOrderToStop(op[w].seen) = {}
  BY <1>2 DEF CommitStatusChange
<1>3. CASE LiveOrderToStop(op[w].seen) # {}
  <2>1. sub' = Merge(sub, t) /\ RowWritten(w)
    BY <1>3 DEF CommitStatusChange
  <2>2. ~op[w].seen.cancelRequested
    BY <1>3 DEF LiveOrderToStop, CanRequestCancellation
  <2>3. t \in Transitions /\ t.cancelRequested
    BY <1>1, CancellationType
  <2> HIDE DEF t
  <2>4. /\ sub' \in SubscriptionRows
        /\ sub'.status = t.status /\ sub'.cancelRequested
        /\ sub'.exempt = sub.exempt /\ sub'.order = sub.order
        /\ sub'.restrictAfter = sub.restrictAfter
    BY <1>1, <2>1, <2>3, MergeType
  <2> QED
    BY <1>1, <2>1, <2>2, <2>3, <2>4 DEF t
<1> QED
  BY <1>2, <1>3

\* What a complimentary grant, or its end, writes.
LEMMA ExemptionWritten ==
    ASSUME TypeOK, NEW w \in Workers,
           GrantBillingExemption(w) \/ RevokeBillingExemption(w)
    PROVE  /\ sub' \in SubscriptionRows
           /\ sub'.status = sub.status /\ sub'.grace = sub.grace
           /\ sub'.period = sub.period /\ sub'.order = sub.order
           /\ sub'.cancelRequested = sub.cancelRequested
           /\ sub'.restrictAfter = sub.restrictAfter
           /\ GrantBillingExemption(w) => sub'.exempt
           /\ RevokeBillingExemption(w) => ~sub'.exempt
           /\ RowWritten(w)
<1>1. sub \in SubscriptionRows
  BY DEF TypeOK
<1>2. CASE GrantBillingExemption(w)
  <2>1. sub' = [sub EXCEPT !.exempt = TRUE] /\ RowWritten(w)
    BY <1>2 DEF GrantBillingExemption
  <2>2. ~RevokeBillingExemption(w)
    <3>1. sub'.exempt
      BY <1>1, <2>1 DEF SubscriptionRows
    <3> QED
      BY <1>1, <3>1 DEF RevokeBillingExemption, SubscriptionRows
  <2> QED
    BY <1>1, <2>1, <2>2 DEF SubscriptionRows
<1>3. CASE RevokeBillingExemption(w)
  <2>1. sub' = [sub EXCEPT !.exempt = FALSE] /\ RowWritten(w)
    BY <1>3 DEF RevokeBillingExemption
  <2>2. ~GrantBillingExemption(w)
    <3>1. ~sub'.exempt
      BY <1>1, <2>1 DEF SubscriptionRows
    <3> QED
      BY <1>1, <3>1 DEF GrantBillingExemption, SubscriptionRows
  <2> QED
    BY <1>1, <2>1, <2>2 DEF SubscriptionRows
<1> QED
  BY <1>2, <1>3

\* A conditional write of the job: it writes a row that is not complimentary, or nothing.
LEMMA JobWritten ==
    ASSUME DunningInv, JobWrites
    PROVE  /\ job.now \in Nat /\ sub' \in SubscriptionRows
           /\ UNCHANGED <<now, checkouts, requests, log, orgActive, op, liqPayVars>>
           /\ \/ sub' = sub /\ overtaken' = overtaken
              \/ /\ RowWritten(Job) /\ ~sub.exempt
                 /\ sub'.exempt = sub.exempt /\ sub'.order = sub.order
                 /\ sub'.period = sub.period
                 /\ sub'.cancelRequested = sub.cancelRequested
                 /\ \/ /\ job.phase = "reopening"
                       /\ sub.status = "PENDING" /\ sub'.status = "PENDING"
                       /\ sub.restrictAfter + WindowStaleDays <= job.now
                       /\ sub'.restrictAfter = job.now + TransitionWindow
                       /\ sub'.grace = sub.grace
                    \/ /\ job.phase = "marking" /\ Unconfirmed(sub, job.now)
                       /\ sub'.status = "PAST_DUE" /\ sub'.grace = job.now + GracePeriod
                       /\ sub'.restrictAfter = sub.restrictAfter
                    \/ /\ job.phase = "finishing" /\ CancellationDue(sub, job.now)
                       /\ sub'.status = "CANCELED" /\ sub'.grace = sub.grace
                       /\ sub'.restrictAfter = sub.restrictAfter
                    \/ /\ job.phase = "restricting" /\ RestrictionDue(sub, job.now)
                       /\ ~sub.cancelRequested
                       /\ sub'.status = "RESTRICTED"
                       /\ sub'.restrictAfter = sub.restrictAfter
<1>1. job.now \in Nat /\ sub \in SubscriptionRows /\ job.now + GracePeriod \in Nat
      /\ job.now + TransitionWindow \in Nat
  BY PeriodAssumption, JobAssumption DEF DunningInv, JobTyped, ReadingInv, TypeOK
<1>2. UNCHANGED <<now, checkouts, requests, log, orgActive, op, liqPayVars>>
  BY DEF JobWrites, ReopenStaleWindow, MarkPastDueIfStillUnconfirmed,
     FinishCancellationIfDue, RestrictIfDue, WriteRowIf
<1> DEFINE marked == [sub EXCEPT !.status = "PAST_DUE", !.grace = job.now + GracePeriod]
           opened == [sub EXCEPT !.restrictAfter = job.now + TransitionWindow]
           ended  == [sub EXCEPT !.status = "CANCELED"]
           closed == [sub EXCEPT !.status = "RESTRICTED", !.grace = NoDate]
           same(row) == /\ row \in SubscriptionRows
                        /\ row.exempt = sub.exempt /\ row.order = sub.order
                        /\ row.period = sub.period
                        /\ row.cancelRequested = sub.cancelRequested
<1>3. same(opened) /\ opened.status = sub.status /\ opened.grace = sub.grace
      /\ opened.restrictAfter = job.now + TransitionWindow
  BY <1>1 DEF SubscriptionRows
<1>4. same(marked) /\ marked.status = "PAST_DUE" /\ marked.grace = job.now + GracePeriod
      /\ marked.restrictAfter = sub.restrictAfter
  BY <1>1 DEF SubscriptionRows, SubscriptionStatuses
<1>5. same(ended) /\ ended.status = "CANCELED" /\ ended.grace = sub.grace
      /\ ended.restrictAfter = sub.restrictAfter
  BY <1>1 DEF SubscriptionRows, SubscriptionStatuses
<1>6. same(closed) /\ closed.status = "RESTRICTED" /\ closed.restrictAfter = sub.restrictAfter
  BY <1>1 DEF SubscriptionRows, SubscriptionStatuses, NoDate
<1> HIDE DEF marked, opened, ended, closed
<1>7. CASE sub' = sub /\ overtaken' = overtaken
  BY <1>1, <1>2, <1>7
<1>8. CASE ~(sub' = sub /\ overtaken' = overtaken)
  <2>1. \/ /\ ReopenStaleWindow /\ sub' = opened
           /\ Billable(sub) /\ sub.status = "PENDING"
           /\ sub.restrictAfter + WindowStaleDays <= job.now
        \/ /\ MarkPastDueIfStillUnconfirmed /\ sub' = marked
           /\ Unconfirmed(sub, job.now)
        \/ /\ FinishCancellationIfDue /\ sub' = ended
           /\ Billable(sub) /\ CancellationDue(sub, job.now)
        \/ /\ RestrictIfDue /\ sub' = closed
           /\ Billable(sub) /\ ~sub.cancelRequested /\ RestrictionDue(sub, job.now)
    BY <1>8 DEF JobWrites, ReopenStaleWindow, MarkPastDueIfStillUnconfirmed,
       FinishCancellationIfDue, RestrictIfDue, WriteRowIf, opened, marked, ended, closed
  <2>2. RowWritten(Job)
    BY <1>8, <2>1 DEF ReopenStaleWindow, MarkPastDueIfStillUnconfirmed,
       FinishCancellationIfDue, RestrictIfDue, WriteRowIf, RowWritten
  <2>3. CASE ReopenStaleWindow /\ sub' = opened /\ Billable(sub) /\ sub.status = "PENDING"
             /\ sub.restrictAfter + WindowStaleDays <= job.now
    BY <1>1, <1>2, <1>3, <2>2, <2>3 DEF ReopenStaleWindow, Billable
  <2>4. CASE MarkPastDueIfStillUnconfirmed /\ sub' = marked /\ Unconfirmed(sub, job.now)
    BY <1>1, <1>2, <1>4, <2>2, <2>4 DEF MarkPastDueIfStillUnconfirmed, Unconfirmed, Billable
  <2>5. CASE FinishCancellationIfDue /\ sub' = ended
             /\ Billable(sub) /\ CancellationDue(sub, job.now)
    BY <1>1, <1>2, <1>5, <2>2, <2>5 DEF FinishCancellationIfDue, Billable
  <2>6. CASE RestrictIfDue /\ sub' = closed
             /\ Billable(sub) /\ ~sub.cancelRequested /\ RestrictionDue(sub, job.now)
    BY <1>1, <1>2, <1>6, <2>2, <2>6 DEF RestrictIfDue, Billable
  <2> QED
    BY <2>1, <2>3, <2>4, <2>5, <2>6
<1> QED
  BY <1>7, <1>8

-----------------------------------------------------------------------------
(* The inductive invariant. *)

\* The writes of an admin keep the types of the tables.
LEMMA AdminTypes ==
    ASSUME TypeOK, NEW w \in Workers, AdminWrites(w)
    PROVE  TypeOK'
<1>1. /\ sub \in SubscriptionRows /\ requests \in [Orders -> RequestStates]
      /\ checkouts \in [Orders -> CheckoutStatuses] /\ op \in [Workers -> Requests]
      /\ overtaken \subseteq Workers /\ Readers(w) \subseteq Workers
  BY DEF TypeOK, Readers
<1>2. \A orders \in SUBSET Orders :
        /\ StoppingAnyOf(orders) \in Requests
        /\ QueueUnsubscribe(requests, orders) \in [Orders -> RequestStates]
        /\ AbandonProposed(checkouts) \in [Orders -> CheckoutStatuses]
  BY <1>1, PlainRequests, TableTypes
<1>3. CASE GrantBillingExemption(w) \/ RevokeBillingExemption(w)
  <2>1. sub' \in SubscriptionRows /\ overtaken' \subseteq Workers
    BY <1>1, <1>3, ExemptionWritten DEF RowWritten
  <2>2. LiveOrderToStop(sub) \in SUBSET Orders
    BY <1>1, LiveOrderType
  <2> QED
    BY <1>2, <1>3, <2>1, <2>2, RunType
    DEF GrantBillingExemption, RevokeBillingExemption, TypeOK, liqPayVars
<1>4. CASE CommitStatusChange(w)
  <2>1. sub' \in SubscriptionRows /\ overtaken' \subseteq Workers
    BY <1>1, <1>4, StatusChangeCommitted DEF RowWritten
  <2>2. op[w].seen \in SubscriptionRows
    BY <1>4, PhaseType DEF TypeOK, CommitStatusChange, ChangeRequests
  <2>3. LiveOrderToStop(op[w].seen) \in SUBSET Orders
    BY <2>2, LiveOrderType
  <2> QED
    BY <1>2, <1>4, <2>1, <2>3, RunType DEF CommitStatusChange, TypeOK, liqPayVars
<1>5. CASE RestoreOrganization(w)
  BY <1>5 DEF RestoreOrganization, TypeOK, liqPayVars
<1> QED
  BY <1>3, <1>4, <1>5 DEF AdminWrites

\* Every step keeps the types of the tables, the requests and LiqPay.
LEMMA TablesStep == DunningInv /\ [DunningNext]_dunningVars => TypeOK'
<1> SUFFICES ASSUME DunningInv, [DunningNext]_dunningVars
             PROVE  TypeOK'
  OBVIOUS
<1>1. TypeOK
  BY DEF DunningInv, ReadingInv
<1>2. CASE Moves
  <2>1. PICK w \in Workers, next \in Requests :
          /\ Run(w, next)
          /\ RowUnread(w) \/ overtaken' = overtaken
          /\ UNCHANGED <<now, rowVars, liqPayVars>>
    BY <1>2 DEF Moves
  <2>2. op' \in [Workers -> Requests]
    BY <1>1, <2>1, RunType
  <2> QED
    BY <1>1, <2>1, <2>2 DEF RowUnread, TypeOK, rowVars, liqPayVars
<1>3. CASE JobWrites
  <2>1. overtaken' \subseteq Workers
    BY <1>1, <1>3, JobWritten DEF RowWritten, Readers, TypeOK
  <2> QED
    BY <1>1, <1>3, <2>1, JobWritten DEF TypeOK, liqPayVars
<1> QED
  BY <1>1, <1>2, <1>3, DunningSteps, NextTypes, AdminTypes

\* A reading not overtaken stays equal to the row, whoever writes it.
LEMMA ReadingStep == DunningInv /\ [DunningNext]_dunningVars => Fresh'
<1> SUFFICES ASSUME DunningInv, [DunningNext]_dunningVars
             PROVE  Fresh'
  OBVIOUS
<1>1. TypeOK /\ Fresh /\ op \in [Workers -> Requests] /\ Job \in Workers
  BY JobAssumption DEF DunningInv, ReadingInv, TypeOK
<1>2. /\ Idle.phase \notin Reading
      /\ \A orders : StoppingAnyOf(orders).phase \notin Reading
  BY DEF Idle, Stopping, StoppingAnyOf, Reading
<1>3. CASE Moves
  BY <1>1, <1>3, ReadingReleased DEF Moves, rowVars
<1>4. ASSUME NEW w \in Workers, AdminWrites(w)
      PROVE  Fresh'
  <2>1. CASE GrantBillingExemption(w)
    <3>1. Run(w, StoppingAnyOf(LiveOrderToStop(sub))) /\ RowWritten(w)
      BY <2>1 DEF GrantBillingExemption
    <3> QED
      BY <1>1, <1>2, <3>1, ReadingReleased
  <2>2. CASE RevokeBillingExemption(w)
    <3>1. Run(w, Idle) /\ RowWritten(w)
      BY <1>1, <2>2 DEF RevokeBillingExemption, Run
    <3> QED
      BY <1>1, <1>2, <3>1, ReadingReleased
  <2>3. CASE CommitStatusChange(w)
    <3>1. Run(w, StoppingAnyOf(LiveOrderToStop(op[w].seen)))
      BY <2>3 DEF CommitStatusChange
    <3>2. (sub' = sub /\ overtaken' = overtaken) \/ RowWritten(w)
      BY <1>1, <2>3, StatusChangeCommitted
    <3> QED
      BY <1>1, <1>2, <3>1, <3>2, ReadingReleased
  <2>4. CASE RestoreOrganization(w)
    BY <1>1, <2>4 DEF RestoreOrganization, Fresh
  <2> QED
    BY <1>4, <2>1, <2>2, <2>3, <2>4 DEF AdminWrites
<1>5. CASE JobWrites
  <2>1. op[Job] = Idle
    BY <1>5 DEF DunningInv, JobRests, JobWrites, ReopenStaleWindow,
       MarkPastDueIfStillUnconfirmed, FinishCancellationIfDue, RestrictIfDue
  <2>2. Run(Job, Idle)
    BY <1>1, <1>5, <2>1, JobWritten DEF Run
  <2>3. (sub' = sub /\ overtaken' = overtaken) \/ RowWritten(Job)
    BY <1>5, JobWritten
  <2> QED
    BY <1>1, <1>2, <2>2, <2>3, ReadingReleased
<1> QED
  BY <1>1, <1>3, <1>4, <1>5, DunningSteps, FreshStep

\* The clock only moves with the day, and then every request and the pass are of today.
LEMMA ClockStep ==
    ASSUME DunningInv, [DunningNext]_dunningVars
    PROVE  \/ now' = now
           \/ /\ now' = now + 1 /\ op' = op /\ job' = job
              /\ sub' = sub /\ log' = log
              /\ NoPass \/ job.now = now
              /\ \A w \in Workers :
                   op[w].phase \in Callbacks \cup {"canceling"} => op[w].now = now
<1>1. TypeOK
  BY DEF DunningInv, ReadingInv
<1>2. CASE DayPasses
  BY <1>1, <1>2, RequestsKeepTime DEF DayPasses, Tick, rowVars
<1>3. ASSUME NEW w \in Workers, Arrive(w) \/ Continue(w)
      PROVE  now' = now
  BY <1>3, RequestKeepsItsTime
<1>4. CASE ~DayPasses
  <2>1. CASE JobStep
    BY <2>1 DEF JobStep, ReopenStaleWindow, ListUnconfirmedRenewals, QueryPaid,
       QueryUndecided, Settled, MarkPastDueIfStillUnconfirmed, ListRestrictionDue,
       FinishCancellationIfDue, RestrictIfDue, ListOpenUnsubscribeRequests,
       RetryUnsubscribe, FinishJob, WriteRowIf, vars
  <2>2. CASE RequestStep
    BY <1>3, <2>2 DEF RequestStep, AdminArrive, GrantBillingExemption,
       RevokeBillingExemption, ReadForStatusChange, RestoreOrganization, CommitStatusChange
  <2>3. CASE JobCall
    BY <1>3, <2>3, JobAssumption DEF JobCall
  <2>4. CASE (\E enforcing \in BOOLEAN : StartJob(enforcing)) \/ AbortJob \/ ProviderStep
             \/ UNCHANGED dunningVars
    BY <2>4 DEF StartJob, AbortJob, ProviderStep, dunningVars, vars
  <2> QED
    BY <1>4, <2>1, <2>2, <2>3, <2>4 DEF DunningNext
<1> QED
  BY <1>2, <1>4

\* A request that is running sees at most one midnight.
LEMMA RequestsTodayStep == DunningInv /\ [DunningNext]_dunningVars => RequestsAreOfToday'
<1> SUFFICES ASSUME DunningInv, [DunningNext]_dunningVars
             PROVE  RequestsAreOfToday'
  OBVIOUS
<1>1. /\ TypeOK /\ RequestsAreOfToday /\ PassIsOfToday /\ JobTyped
      /\ now \in Nat /\ op \in [Workers -> Requests] /\ Job \in Workers
  BY JobAssumption DEF DunningInv, ReadingInv, TypeOK
<1>2. CASE now' = now
  <2>1. ASSUME NEW w \in Workers, NEW next, Run(w, next),
               next.phase \in Callbacks \cup {"canceling"} =>
                 \/ next.now = now
                 \/ op[w].phase \in Callbacks /\ next.now = op[w].now
                 \/ ~NoPass /\ next.now = job.now
        PROVE  RequestsAreOfToday'
    <3> SUFFICES ASSUME NEW v \in Workers, op'[v].phase \in Callbacks \cup {"canceling"}
                 PROVE  op'[v].now <= now /\ now <= op'[v].now + 1
      BY <1>2 DEF RequestsAreOfToday
    <3>1. CASE v # w
      BY <1>1, <2>1, <3>1 DEF Run, RequestsAreOfToday
    <3>2. CASE v = w
      <4>1. op'[v] = next
        BY <1>1, <2>1, <3>2 DEF Run
      <4>2. CASE next.now = now
        BY <1>1, <4>1, <4>2
      <4>3. CASE op[w].phase \in Callbacks /\ next.now = op[w].now
        BY <1>1, <4>1, <4>3 DEF RequestsAreOfToday
      <4>4. CASE ~NoPass /\ next.now = job.now
        BY <1>1, <4>1, <4>4 DEF PassIsOfToday
      <4> QED
        BY <2>1, <4>1, <4>2, <4>3, <4>4
    <3> QED
      BY <3>1, <3>2
  <2>2. CASE op' = op
    BY <1>1, <1>2, <2>2 DEF RequestsAreOfToday
  <2>3. ASSUME NEW w \in Workers, Arrive(w) \/ Continue(w)
        PROVE  RequestsAreOfToday'
    BY <2>1, <2>3, RequestKeepsItsTime
  <2>4. CASE [Next]_vars
    BY <2>2, <2>3, <2>4 DEF Next, ProviderStep, Tick, vars
  <2>5. CASE Moves
    <3>1. PICK w \in Workers, next \in Requests :
            /\ Run(w, next) /\ next.phase \notin Reading
            /\ next.phase \in Callbacks => ~NoPass /\ next.now = job.now
      BY <2>5 DEF Moves
    <3> QED
      BY <2>1, <3>1 DEF Reading
  <2>6. ASSUME NEW w \in Workers, AdminWrites(w)
        PROVE  RequestsAreOfToday'
    <3>1. \A orders : StoppingAnyOf(orders).phase \notin Callbacks \cup {"canceling"}
      BY DEF StoppingAnyOf, Stopping, Idle, Callbacks
    <3>2. op' = op \/ \E orders : Run(w, StoppingAnyOf(orders))
      BY <2>6 DEF AdminWrites, GrantBillingExemption, RevokeBillingExemption,
         CommitStatusChange, RestoreOrganization
    <3> QED
      BY <2>1, <2>2, <3>1, <3>2
  <2>7. CASE JobWrites
    BY <2>2, <2>7, JobWritten
  <2> QED
    BY <2>4, <2>5, <2>6, <2>7, DunningSteps
<1>3. CASE ~(now' = now)
  <2>1. /\ now' = now + 1 /\ op' = op
        /\ \A w \in Workers :
             op[w].phase \in Callbacks \cup {"canceling"} => op[w].now = now
    BY <1>3, ClockStep
  <2> QED
    BY <1>1, <2>1 DEF RequestsAreOfToday
<1> QED
  BY <1>2, <1>3

\* The pass is of the phases of the code, and of today: only its start takes the date.
LEMMA PassStep == DunningInv /\ [DunningNext]_dunningVars => JobTyped' /\ PassIsOfToday'
<1> SUFFICES ASSUME DunningInv, [DunningNext]_dunningVars
             PROVE  JobTyped' /\ PassIsOfToday'
  OBVIOUS
<1>1. /\ JobTyped /\ PassIsOfToday /\ now \in Nat /\ job.now \in Nat
      /\ sub.order \in Orders \cup {NoOrder}
  BY DEF DunningInv, ReadingInv, TypeOK, JobTyped, SubscriptionRows
<1>2. CASE now' = now
  <2>1. CASE job' = job
    BY <1>1, <1>2, <2>1 DEF JobTyped, PassIsOfToday, NoPass
  <2>2. ASSUME NEW enforcing \in BOOLEAN, StartJob(enforcing)
        PROVE  JobTyped' /\ PassIsOfToday'
    <3>1. PICK phase \in JobPhases :
            job' = [phase |-> phase, now |-> now, order |-> NoOrder, todo |-> {}]
      BY <2>2 DEF StartJob, JobIdle, JobPhases
    <3>2. JobTyped' /\ job'.now = now
      BY <1>1, <3>1 DEF JobTyped
    <3> QED
      BY <1>1, <1>2, <3>2 DEF PassIsOfToday
  <2>3. CASE job' = JobIdle \/ job' = [JobIdle EXCEPT !.phase = "killed"]
    <3>1. JobTyped'
      BY <2>3 DEF JobTyped, JobIdle, JobPhases
    <3>2. NoPass'
      BY <2>3 DEF NoPass, JobIdle
    <3> QED
      BY <3>1, <3>2 DEF PassIsOfToday
  <2>4. CASE JobStep /\ ~FinishJob
    <3>1. ~NoPass
      BY <2>4 DEF NoPass, JobStep, ReopenStaleWindow, ListUnconfirmedRenewals, QueryPaid,
         QueryUndecided, Settled, MarkPastDueIfStillUnconfirmed, ListRestrictionDue,
         FinishCancellationIfDue, RestrictIfDue, ListOpenUnsubscribeRequests,
         RetryUnsubscribe
    <3>2. JobTyped' /\ job'.now = job.now
      <4>1. CASE ReopenStaleWindow \/ QueryPaid \/ QueryUndecided \/ Settled
                 \/ MarkPastDueIfStillUnconfirmed \/ ListRestrictionDue
                 \/ FinishCancellationIfDue \/ RestrictIfDue
        <5>1. PICK phase \in JobPhases : job' = [job EXCEPT !.phase = phase]
          BY <4>1 DEF ReopenStaleWindow, QueryPaid, QueryUndecided, Settled,
             MarkPastDueIfStillUnconfirmed, ListRestrictionDue, FinishCancellationIfDue,
             RestrictIfDue, GoTo, JobPhases
        <5> QED
          BY <1>1, <5>1 DEF JobTyped
      <4>2. CASE ListUnconfirmedRenewals
        <5>1. \E phase \in JobPhases :
                \/ job' = [job EXCEPT !.phase = phase, !.order = sub.order]
                \/ job' = [job EXCEPT !.phase = phase]
          BY <4>2 DEF ListUnconfirmedRenewals, JobPhases
        <5> QED
          BY <1>1, <5>1 DEF JobTyped
      <4>3. CASE ListOpenUnsubscribeRequests
        <5>1. PICK phase \in JobPhases, todo \in SUBSET Orders :
                job' = [job EXCEPT !.phase = phase, !.todo = todo]
          BY <4>3 DEF ListOpenUnsubscribeRequests, JobPhases
        <5> QED
          BY <1>1, <5>1 DEF JobTyped
      <4>4. ASSUME NEW o \in Orders, RetryUnsubscribe(o)
            PROVE  JobTyped' /\ job'.now = job.now
        <5>1. PICK todo \in SUBSET Orders : job' = [job EXCEPT !.todo = todo]
          BY <1>1, <4>4 DEF RetryUnsubscribe, JobTyped
        <5> QED
          BY <1>1, <5>1 DEF JobTyped
      <4> QED
        BY <2>4, <4>1, <4>2, <4>3, <4>4 DEF JobStep
    <3> QED
      BY <1>1, <1>2, <3>1, <3>2 DEF PassIsOfToday
  <2> QED
    BY <2>1, <2>2, <2>3, <2>4
    DEF DunningNext, JobStep, FinishJob, JobCall, AbortJob, RequestStep, DayPasses, dunningVars
<1>3. CASE ~(now' = now)
  <2>1. now' = now + 1 /\ job' = job /\ (NoPass \/ job.now = now)
    BY <1>3, ClockStep
  <2> QED
    BY <1>1, <2>1 DEF JobTyped, PassIsOfToday, NoPass
<1> QED
  BY <1>2, <1>3

\* What goes on with a request has a request to go on with.
LEMMA ContinueRuns ==
    ASSUME NEW w \in Workers, Continue(w)
    PROVE  op[w] # Idle
  BY DEF Continue, ReuseCheckout, CreateCheckoutOrder, FindCheckoutOrder, FindSubscription,
     UnknownOrder, FindPaymentHistory, AnswerDuplicate, ReapplyStale, CommitCallback,
     CommitCancellation, CancellationConflict, StopAccepted, StopUnconfirmed,
     ResolveUnsubscribeRequest, Abort, Idle

\* A step of a request leaves the job's own call alone.
LEMMA RequestsAreApart ==
    ASSUME TypeOK, NEW w \in Workers \ {Job},
           Arrive(w) \/ AdminArrive(w) \/ CommitStatusChange(w) \/ Continue(w)
    PROVE  op'[Job] = op[Job]
<1>1. op' = op \/ \E next : Run(w, next)
  <2>1. CASE Arrive(w) \/ Continue(w)
    BY <2>1, RequestKeepsItsTime
  <2>2. CASE AdminArrive(w) \/ CommitStatusChange(w)
    BY <2>2 DEF AdminArrive, GrantBillingExemption, RevokeBillingExemption,
       ReadForStatusChange, RestoreOrganization, CommitStatusChange
  <2> QED
    BY <2>1, <2>2
<1> QED
  BY <1>1, JobAssumption DEF Run, TypeOK

\* The job calls the billing service only where it waits for the answer.
LEMMA RestStep == DunningInv /\ [DunningNext]_dunningVars => JobRests'
<1> SUFFICES ASSUME DunningInv, [DunningNext]_dunningVars
             PROVE  JobRests'
  OBVIOUS
<1>1. /\ TypeOK /\ JobTyped /\ JobRests /\ Job \in Workers
      /\ op \in [Workers -> Requests]
  BY JobAssumption DEF DunningInv, ReadingInv, TypeOK
<1>2. CASE op'[Job] = op[Job] /\ job' = job
  BY <1>1, <1>2 DEF JobRests
<1>3. ASSUME NEW enforcing \in BOOLEAN, StartJob(enforcing)
      PROVE  JobRests'
  BY <1>3 DEF StartJob, JobRests, vars
<1>4. CASE JobStep
  <2>1. CASE ListUnconfirmedRenewals \/ QueryUndecided \/ ListRestrictionDue
             \/ ReopenStaleWindow \/ MarkPastDueIfStillUnconfirmed
             \/ FinishCancellationIfDue \/ RestrictIfDue \/ Settled \/ FinishJob
    <3>1. op' = op
      BY <2>1 DEF ListUnconfirmedRenewals, QueryUndecided, ListRestrictionDue,
         ReopenStaleWindow, MarkPastDueIfStillUnconfirmed, FinishCancellationIfDue,
         RestrictIfDue, Settled, FinishJob, WriteRowIf, vars
    <3>2. op[Job] = Idle
      BY <1>1, <2>1 DEF ListUnconfirmedRenewals, QueryUndecided, ListRestrictionDue,
         ReopenStaleWindow, MarkPastDueIfStillUnconfirmed, FinishCancellationIfDue,
         RestrictIfDue, Settled, FinishJob, JobRests
    <3> QED
      BY <3>1, <3>2 DEF JobRests
  <2>2. CASE QueryPaid
    <3>1. job'.phase = "settling"
      BY <1>1, <2>2 DEF QueryPaid, GoTo, JobTyped
    <3> QED
      BY <3>1 DEF JobRests
  <2>3. CASE ListOpenUnsubscribeRequests
    <3>1. job'.phase = "stopping"
      BY <1>1, <2>3 DEF ListOpenUnsubscribeRequests, JobTyped
    <3> QED
      BY <3>1 DEF JobRests
  <2>4. ASSUME NEW o \in Orders, RetryUnsubscribe(o)
        PROVE  JobRests'
    <3>1. job'.phase = "stopping"
      BY <1>1, <2>4 DEF RetryUnsubscribe, JobTyped
    <3> QED
      BY <3>1 DEF JobRests
  <2> QED
    BY <1>4, <2>1, <2>2, <2>3, <2>4 DEF JobStep
<1>5. CASE JobCall
  <2>1. op[Job] # Idle /\ job' = job
    BY <1>1, <1>5, ContinueRuns DEF JobCall
  <2> QED
    BY <1>1, <2>1 DEF JobRests
<1>6. CASE AbortJob
  BY <1>1, <1>6 DEF AbortJob, Run, JobRests
<1>7. CASE RequestStep
  BY <1>1, <1>2, <1>7, RequestsAreApart DEF RequestStep
<1>8. CASE (ProviderStep /\ UNCHANGED job) \/ DayPasses \/ UNCHANGED dunningVars
  BY <1>2, <1>8 DEF ProviderStep, DayPasses, Tick, dunningVars, vars
<1> QED
  BY <1>3, <1>4, <1>5, <1>6, <1>7, <1>8 DEF DunningNext

\* In every state a request whose updatedAt check would succeed holds the row as it is,
\* whoever else writes it, and no request or pass is more than a midnight old.
THEOREM DunningCorrect == DunningSpec => []DunningInv
<1>1. DunningInit => DunningInv
  <2> SUFFICES ASSUME DunningInit
               PROVE  DunningInv
    OBVIOUS
  <2>1. TypeOK /\ op = [w \in Workers |-> Idle]
    BY InitTypes DEF DunningInit, Init
  <2>2. Fresh /\ RequestsAreOfToday /\ JobRests
    BY <2>1, JobAssumption DEF Fresh, RequestsAreOfToday, JobRests, Idle, Reading, Callbacks
  <2>3. JobTyped /\ PassIsOfToday
    BY DEF DunningInit, JobIdle, JobTyped, JobPhases, PassIsOfToday, NoPass
  <2> QED
    BY <2>1, <2>2, <2>3 DEF DunningInv, ReadingInv
<1>2. DunningInv /\ [DunningNext]_dunningVars => DunningInv'
  BY TablesStep, ReadingStep, RequestsTodayStep, PassStep, RestStep DEF DunningInv, ReadingInv
<1> QED
  BY <1>1, <1>2, PTL DEF DunningSpec

\* Every reachable state, with the job and the admins at work, is well typed.
THEOREM DunningTypes == DunningSpec => []DunningTypeOK
<1>1. DunningInv => DunningTypeOK
  BY DEF DunningInv, ReadingInv, JobTyped, DunningTypeOK
<1> QED
  BY <1>1, DunningCorrect, PTL

-----------------------------------------------------------------------------
(* What a step may never do. *)

\* The job's own steps, and its calls, write the row only in JobWrites.
LEMMA JobStepWrites ==
    ASSUME [DunningNext]_dunningVars, job' # job
    PROVE  sub' = sub \/ JobWrites
  BY DEF DunningNext, StartJob, JobStep, JobWrites, ListUnconfirmedRenewals, QueryPaid,
     QueryUndecided, Settled, ListRestrictionDue, ListOpenUnsubscribeRequests,
     RetryUnsubscribe, FinishJob, JobCall, AbortJob, RequestStep, DayPasses, dunningVars,
     vars, rowVars

\* No pass of the job touches a complimentary organization, whenever it was granted.
THEOREM ExemptLeftAlone == DunningSpec => JobLeavesExemptAlone
<1>1. DunningInv /\ [DunningNext]_dunningVars =>
        [sub.exempt /\ sub'.exempt /\ job' # job => sub' = sub]_dunningVars
  BY JobStepWrites, JobWritten
<1> QED
  BY <1>1, DunningCorrect, PTL DEF DunningSpec, JobLeavesExemptAlone

\* A step of Billing that is no commit, and one that only moves a request, leave the row
\* alone.
LEMMA RowAlone ==
    ASSUME TypeOK, [Next]_vars \/ Moves,
           ~\E w \in Workers : CommitCallback(w) \/ CommitCancellation(w)
    PROVE  sub' = sub
  BY RowUntouched DEF Moves, rowVars

\* A callback that puts a paid subscription into arrears is a failed charge, recorded with
\* the same commit.
LEMMA ArrearsOfCommit ==
    ASSUME ReadingInv, NEW w \in Workers, CommitCallback(w),
           sub.status = "ACTIVE", sub'.status = "PAST_DUE"
    PROVE  \E l \in log' \ log : l.status \in FailedStatuses
<1> DEFINE c == op[w]
<1>1. sub \in SubscriptionRows
  BY DEF ReadingInv, TypeOK
<1>2. PICK t \in Decision(c) : TRUE
  BY CommitLeavesRow
<1>3. /\ c \in JudgedRequests /\ c.now \in Nat /\ IsNew(c) \in BOOLEAN
      /\ t \in TransitionForCallbackStatus(sub, c.event.status, c.now, IsNew(c))
      /\ sub'.status = t.status
  BY <1>2, CommitDecided DEF JudgedRequests, IsNew
<1>4. Outcome(c) = "failed"
  <2>1. t.status # PaidTransition(sub, c.now, IsNew(c)).status
    BY <1>1, <1>3, PaidType
  <2>2. t \notin ChargebackTransition(sub, c.now)
    BY <1>3 DEF ChargebackTransition, Transition
  <2>3. t # CancellationTransition(sub, c.now)
    BY <1>3 DEF CancellationTransition, Transition
  <2> QED
    BY <1>3, <2>1, <2>2, <2>3 DEF TransitionForCallbackStatus, When, Outcome
<1>5. c.event.status \in FailedStatuses
  BY <1>4 DEF Outcome, ClassifyCallbackStatus
<1>6. LogEntry(c) \in log' /\ LogEntry(c) \notin log
  BY DEF CommitCallback, Duplicate, LogEntry
<1>7. LogEntry(c).status = c.event.status
  BY DEF LogEntry
<1> QED
  BY <1>5, <1>6, <1>7

\* A paid period that is not over is put into arrears only by a failed charge, or by a
\* status change that read them before they were paid.
THEOREM ArrearsExplained == DunningSpec => ArrearsNeedAReason
<1>1. DunningInv /\ [DunningNext]_dunningVars =>
        [sub.status = "ACTIVE" /\ sub'.status = "PAST_DUE" =>
           \/ \E l \in log' \ log : l.status \in FailedStatuses
           \/ sub.period + ReconciliationGrace <= now
           \/ \E w \in Workers :
                CommitStatusChange(w) /\ op[w].seen.status = "PAST_DUE"]_dunningVars
  <2> DEFINE Explained ==
               \/ \E l \in log' \ log : l.status \in FailedStatuses
               \/ sub.period + ReconciliationGrace <= now
               \/ \E w \in Workers : CommitStatusChange(w) /\ op[w].seen.status = "PAST_DUE"
  <2> SUFFICES ASSUME DunningInv, [DunningNext]_dunningVars,
                      sub.status = "ACTIVE", sub'.status = "PAST_DUE"
               PROVE  Explained
    OBVIOUS
  <2>1. /\ ReadingInv /\ TypeOK /\ PassIsOfToday /\ sub \in SubscriptionRows
        /\ now \in Nat
    BY DEF DunningInv, ReadingInv, TypeOK
  <2>2. ASSUME NEW w \in Workers, CommitCallback(w)
        PROVE  Explained
    BY <2>1, <2>2, ArrearsOfCommit
  <2>3. ASSUME NEW w \in Workers, CommitCancellation(w)
        PROVE  FALSE
    <3>1. sub'.status = CancellationTransition(sub, op[w].now).status
      BY <2>1, <2>3, CancellationCommitted
    <3> QED
      BY <3>1 DEF CancellationTransition, Transition
  <2>4. CASE [Next]_vars \/ Moves
    BY <2>1, <2>2, <2>3, <2>4, RowAlone
  <2>5. ASSUME NEW w \in Workers, AdminWrites(w)
        PROVE  Explained
    <3>1. ~GrantBillingExemption(w) /\ ~RevokeBillingExemption(w)
      BY <2>1, ExemptionWritten
    <3>2. ~RestoreOrganization(w)
      BY DEF RestoreOrganization
    <3>3. CommitStatusChange(w)
      BY <2>5, <3>1, <3>2 DEF AdminWrites
    <3>4. op[w].seen.status = "PAST_DUE"
      BY <2>1, <3>3, StatusChangeCommitted, CancellationStatus
    <3> QED
      BY <3>3, <3>4
  <2>6. CASE JobWrites
    <3>1. /\ job.now \in Nat /\ job.phase = "marking" /\ Unconfirmed(sub, job.now)
      BY <2>6, JobWritten DEF RestrictionDue
    <3>2. job.now <= now
      BY <2>1, <3>1 DEF PassIsOfToday, NoPass
    <3>3. sub.period + ReconciliationGrace <= now
      BY <2>1, <3>1, <3>2, JobAssumption DEF Unconfirmed, SubscriptionRows
    <3> QED
      BY <3>3
  <2> QED
    BY <2>4, <2>5, <2>6, DunningSteps
<1> QED
  BY <1>1, DunningCorrect, PTL DEF DunningSpec, ArrearsNeedAReason

\* What a callback decides about a row that is not complimentary and has full access: it
\* keeps the access for the day, unless it is the cancellation itself.  A grace period of
\* one day would be over when a callback that crosses midnight starts it.
LEMMA CommitKeepsAccess ==
    ASSUME GracePeriod > 1, DunningInv, NEW w \in Workers, CommitCallback(w),
           FullAccess(sub, now), ~FullAccess(sub', now)
    PROVE  ~sub.cancelRequested /\ sub'.cancelRequested
<1> DEFINE c == op[w]
<1>1. ReadingInv /\ TypeOK /\ sub \in SubscriptionRows /\ now \in Nat /\ GracePeriod \in Nat
      /\ Month \in Nat \ {0}
  BY PeriodAssumption DEF DunningInv, ReadingInv, TypeOK
<1>2. PICK t \in Decision(c) : TRUE
  BY CommitLeavesRow
<1>3. /\ c \in JudgedRequests /\ c.seen = sub /\ c.now \in Nat /\ IsNew(c) \in BOOLEAN
      /\ t \in TransitionForCallbackStatus(sub, c.event.status, c.now, IsNew(c))
      /\ t \in Transitions
      /\ sub'.status = t.status /\ sub'.grace = t.grace
      /\ sub'.cancelRequested = t.cancelRequested
      /\ sub'.exempt = sub.exempt /\ sub'.restrictAfter = sub.restrictAfter
  BY <1>1, <1>2, CommitDecided DEF JudgedRequests, IsNew
<1>4. now <= c.now + 1 /\ now < c.now + GracePeriod
  <2>1. now <= c.now + 1
    BY DEF DunningInv, RequestsAreOfToday, CommitCallback, Callbacks
  <2> QED
    BY <1>1, <1>3, <2>1
<1>5. ~sub.exempt /\ ~sub'.exempt
  BY <1>3 DEF FullAccess, ResolveEntitlements
<1>6. /\ sub'.cancelRequested => ~(now < sub'.grace)
      /\ ~sub'.cancelRequested =>
           sub'.status # "ACTIVE" /\ (sub'.status = "PAST_DUE" => ~(now < sub'.grace))
  BY <1>5 DEF FullAccess, ResolveEntitlements, RulesByStatus, AccessUntil, IsBeforeDeadline
<1>7. /\ sub.cancelRequested => now < sub.grace
      /\ ~sub.cancelRequested /\ sub.status = "PAST_DUE" => now < sub.grace
  BY <1>5 DEF FullAccess, ResolveEntitlements, RulesByStatus, AccessUntil, IsBeforeDeadline
<1>8. t # PaidTransition(sub, c.now, IsNew(c))
  <2> SUFFICES ASSUME t = PaidTransition(sub, c.now, IsNew(c))
               PROVE  FALSE
    OBVIOUS
  <2> DEFINE period == PeriodAfterPayment(sub, c.now)
  <2>1. period \in Nat /\ now < period + GracePeriod
    BY <1>1, <1>3, <1>4 DEF PeriodAfterPayment, SubscriptionRows
  <2>2. \/ t = Transition("ACTIVE", period + GracePeriod, period, TRUE)
        \/ t = Transition("ACTIVE", NoDate, period, FALSE)
    BY DEF PaidTransition
  <2> HIDE DEF period
  <2>3. t.status = "ACTIVE" /\ (t.cancelRequested => t.grace = period + GracePeriod)
    BY <2>2 DEF Transition
  <2> QED
    BY <1>3, <1>6, <2>1, <2>3
<1>9. t \notin ChargebackTransition(sub, c.now) \/ ~sub.cancelRequested
  <2> SUFFICES ASSUME t \in ChargebackTransition(sub, c.now), sub.cancelRequested
               PROVE  FALSE
    OBVIOUS
  <2>1. t = Transition(sub.status, c.now + GracePeriod, sub.period, sub.cancelRequested)
    BY DEF ChargebackTransition
  <2>2. t.cancelRequested /\ t.grace = c.now + GracePeriod
    BY <2>1 DEF Transition
  <2> QED
    BY <1>3, <1>4, <1>6, <2>2
<1>10. ~(t = FailedTransition(sub, c.now) /\ ~sub.cancelRequested)
  <2> SUFFICES ASSUME t = FailedTransition(sub, c.now), ~sub.cancelRequested
               PROVE  FALSE
    OBVIOUS
  <2>1. /\ t.status = "PAST_DUE" /\ ~t.cancelRequested
        /\ t.grace = c.now + GracePeriod \/ (sub.status = "PAST_DUE" /\ t.grace = sub.grace)
    BY DEF FailedTransition, Transition
  <2> QED
    BY <1>3, <1>4, <1>6, <1>7, <2>1
<1>11. t = CancellationTransition(sub, c.now) /\ ~sub.cancelRequested
  BY <1>3, <1>8, <1>9, <1>10 DEF TransitionForCallbackStatus, When
<1>12. t.cancelRequested
  BY <1>1, <1>3, <1>11, CancellationType
<1> QED
  BY <1>3, <1>11, <1>12

\* A write of the job takes no access away: what it restricts or ends has run out, and what
\* it puts into arrears has days of grace.
LEMMA JobKeepsAccess ==
    ASSUME GracePeriod > 1, DunningInv, JobWrites, FullAccess(sub, now)
    PROVE  FullAccess(sub', now)
<1>1. /\ TypeOK /\ PassIsOfToday /\ sub \in SubscriptionRows /\ sub' \in SubscriptionRows
      /\ now \in Nat /\ job.now \in Nat
      /\ GracePeriod \in Nat /\ TransitionWindow \in Nat \ {0} /\ WindowStaleDays \in Nat
  BY PeriodAssumption, JobAssumption, JobWritten DEF DunningInv, ReadingInv, TypeOK
<1>2. CASE sub' = sub
  BY <1>2
<1>3. CASE sub' # sub
  <2>1. /\ ~sub.exempt /\ ~sub'.exempt /\ sub'.cancelRequested = sub.cancelRequested
        /\ \/ /\ job.phase = "reopening"
              /\ sub.status = "PENDING" /\ sub.restrictAfter + WindowStaleDays <= job.now
              /\ sub'.status = "PENDING" /\ sub'.grace = sub.grace
           \/ /\ job.phase = "marking" /\ Unconfirmed(sub, job.now)
              /\ sub'.status = "PAST_DUE" /\ sub'.grace = job.now + GracePeriod
           \/ /\ job.phase = "finishing" /\ CancellationDue(sub, job.now)
           \/ /\ job.phase = "restricting" /\ RestrictionDue(sub, job.now)
              /\ ~sub.cancelRequested
    BY <1>3, JobWritten
  <2>2. job.now <= now /\ now <= job.now + 1 /\ now < job.now + GracePeriod
    <3>1. ~NoPass
      BY <2>1 DEF NoPass
    <3>2. job.now <= now /\ now <= job.now + 1
      BY <1>1, <3>1 DEF PassIsOfToday
    <3> QED
      BY <1>1, <3>2
  <2>3. /\ sub.cancelRequested => now < sub.grace
        /\ ~sub.cancelRequested /\ sub.status = "PENDING" => now < sub.restrictAfter
        /\ ~sub.cancelRequested /\ sub.status = "PAST_DUE" => now < sub.grace
    BY <2>1 DEF FullAccess, ResolveEntitlements, RulesByStatus, AccessUntil, IsBeforeDeadline
  <2>4. ~CancellationDue(sub, job.now)
    BY <1>1, <2>2, <2>3 DEF CancellationDue, SubscriptionRows
  <2>5. ~(RestrictionDue(sub, job.now) /\ ~sub.cancelRequested)
    BY <1>1, <2>2, <2>3 DEF RestrictionDue, SubscriptionRows
  <2>6. CASE job.phase = "reopening"
    <3>1. sub.restrictAfter + WindowStaleDays <= job.now /\ sub.status = "PENDING"
          /\ sub'.grace = sub.grace
      BY <2>1, <2>6
    <3>2. sub.cancelRequested
      <4>1. sub.restrictAfter \in Nat
        BY <1>1 DEF SubscriptionRows
      <4>2. ~(now < sub.restrictAfter)
        BY <1>1, <2>2, <3>1, <4>1
      <4> QED
        BY <2>3, <3>1, <4>2
    <3> QED
      BY <2>1, <2>3, <3>1, <3>2 DEF FullAccess, ResolveEntitlements, AccessUntil, IsBeforeDeadline
  <2>7. CASE job.phase = "marking"
    <3>1. /\ sub'.status = "PAST_DUE" /\ sub'.grace = job.now + GracePeriod
          /\ ~sub'.cancelRequested
      BY <2>1, <2>7 DEF Unconfirmed
    <3>2. now < sub'.grace
      BY <2>2, <3>1
    <3> QED
      BY <2>1, <3>1, <3>2
      DEF FullAccess, ResolveEntitlements, RulesByStatus, AccessUntil, IsBeforeDeadline
  <2> QED
    BY <2>1, <2>4, <2>5, <2>6, <2>7
<1> QED
  BY <1>2, <1>3

\* Full access ends by the passing of a day, by the end of a complimentary grant, by a
\* cancellation or by a status change: no failed charge, reversal or job takes it away the
\* day it happens.  The code's grace period is 7 days (entitlements.ts:57).
THEOREM AccessEndsOnTime ==
    ASSUME GracePeriod > 1
    PROVE  DunningSpec => AccessEndsOnlyAtItsDeadline
<1>1. DunningInv /\ [DunningNext]_dunningVars =>
        [FullAccess(sub, now) /\ ~FullAccess(sub', now') =>
           \/ now' # now
           \/ sub.exempt /\ ~sub'.exempt
           \/ ~sub.cancelRequested /\ sub'.cancelRequested
           \/ \E w \in Workers : CommitStatusChange(w)]_dunningVars
  <2> SUFFICES ASSUME DunningInv, [DunningNext]_dunningVars,
                      FullAccess(sub, now), ~FullAccess(sub', now), now' = now
               PROVE  \/ sub.exempt /\ ~sub'.exempt
                      \/ ~sub.cancelRequested /\ sub'.cancelRequested
                      \/ \E w \in Workers : CommitStatusChange(w)
    OBVIOUS
  <2>1. ReadingInv /\ TypeOK /\ sub' # sub
    BY DEF DunningInv, ReadingInv
  <2>2. ASSUME NEW w \in Workers, CommitCallback(w)
        PROVE  ~sub.cancelRequested /\ sub'.cancelRequested
    BY <2>2, CommitKeepsAccess
  <2>3. ASSUME NEW w \in Workers, CommitCancellation(w)
        PROVE  ~sub.cancelRequested /\ sub'.cancelRequested
    <3> DEFINE t == CancellationTransition(sub, op[w].now)
    <3>1. /\ op[w].now \in Nat /\ sub'.cancelRequested /\ sub'.status = t.status
          /\ sub'.grace = t.grace /\ sub'.exempt = sub.exempt
      BY <2>1, <2>3, CancellationCommitted
    <3>2. CASE sub.cancelRequested
      <4>1. t.grace = sub.grace
        BY <3>2 DEF CancellationTransition, Transition
      <4> QED
        BY <3>1, <3>2, <4>1 DEF FullAccess, ResolveEntitlements
    <3> QED
      BY <3>1, <3>2
  <2>4. CASE [Next]_vars \/ Moves
    BY <2>1, <2>2, <2>3, <2>4, RowAlone
  <2>5. ASSUME NEW w \in Workers, AdminWrites(w)
        PROVE  \/ sub.exempt /\ ~sub'.exempt
               \/ \E v \in Workers : CommitStatusChange(v)
    <3>1. CASE GrantBillingExemption(w)
      <4>1. sub'.exempt
        BY <2>1, <3>1, ExemptionWritten
      <4> QED
        BY <4>1 DEF FullAccess, ResolveEntitlements
    <3>2. CASE RevokeBillingExemption(w)
      <4>1. /\ ~sub'.exempt /\ sub'.status = sub.status /\ sub'.grace = sub.grace
            /\ sub'.cancelRequested = sub.cancelRequested
            /\ sub'.restrictAfter = sub.restrictAfter
        BY <2>1, <3>2, ExemptionWritten
      <4>2. sub.exempt
        BY <4>1 DEF FullAccess, ResolveEntitlements, RulesByStatus
      <4> QED
        BY <4>1, <4>2
    <3>3. CASE RestoreOrganization(w)
      BY <2>1, <3>3 DEF RestoreOrganization
    <3> QED
      BY <2>5, <3>1, <3>2, <3>3 DEF AdminWrites
  <2>6. CASE JobWrites
    BY <2>6, JobKeepsAccess
  <2> QED
    BY <2>4, <2>5, <2>6, DunningSteps
<1> QED
  BY <1>1, DunningCorrect, PTL DEF DunningSpec, AccessEndsOnlyAtItsDeadline

-----------------------------------------------------------------------------
(* A rollout window that ran out while nothing was enforced. *)

\* A subscription still in its rollout window has not used it up, as far as the pass knows.
WindowStands ==
    sub.status = "PENDING" /\ sub.restrictAfter # NoDate =>
      sub.restrictAfter + WindowStaleDays > job.now

\* Once the pass has handed the stale windows back, only a complimentary or a closed
\* organization still has one, and none that the pass goes on with.
WindowInv ==
    /\ job.phase \in {"reconciling", "querying", "settling", "marking", "due"} =>
         sub.exempt \/ ~orgActive \/ WindowStands
    /\ job.phase \in {"finishing", "restricting"} => sub.exempt \/ WindowStands

\* A step of Billing puts no subscription into a rollout window and restricts none.
LEMMA WindowUntouched ==
    ASSUME ReadingInv, [Next]_vars \/ Moves
    PROVE  /\ sub'.exempt = sub.exempt /\ sub'.restrictAfter = sub.restrictAfter
           /\ orgActive' = orgActive
           /\ sub'.status \in {"PENDING", "RESTRICTED"} => sub'.status = sub.status
<1>1. TypeOK /\ sub \in SubscriptionRows
  BY DEF ReadingInv, TypeOK
<1>2. orgActive' = orgActive
  BY DEF Moves, Next, vars, rowVars, ProviderStep, Tick, Arrive, Continue, StartCheckout,
     RequestCancellation, DeliverCallback, ReuseCheckout, CreateCheckoutOrder,
     FindCheckoutOrder, FindSubscription, UnknownOrder, FindPaymentHistory,
     AnswerDuplicate, ReapplyStale, CommitCallback, CommitCancellation,
     CancellationConflict, StopAccepted, StopUnconfirmed, ResolveUnsubscribeRequest, Abort
<1>3. ASSUME NEW w \in Workers, CommitCallback(w), NEW t \in Decision(op[w])
      PROVE  /\ sub'.exempt = sub.exempt /\ sub'.restrictAfter = sub.restrictAfter
             /\ sub'.status \in {"PENDING", "RESTRICTED"} => sub'.status = sub.status
  <2> DEFINE c == op[w]
  <2>1. /\ c.now \in Nat /\ IsNew(c) \in BOOLEAN
        /\ t \in TransitionForCallbackStatus(sub, c.event.status, c.now, IsNew(c))
        /\ sub'.status = t.status /\ sub'.exempt = sub.exempt
        /\ sub'.restrictAfter = sub.restrictAfter
    BY <1>3, CommitDecided DEF JudgedRequests, IsNew
  <2>2. \/ t = PaidTransition(sub, c.now, IsNew(c))
        \/ t \in ChargebackTransition(sub, c.now)
        \/ t = CancellationTransition(sub, c.now)
        \/ t = FailedTransition(sub, c.now)
    BY <2>1 DEF TransitionForCallbackStatus, When
  <2>3. t.status \in {"ACTIVE", "PAST_DUE", "CANCELED", sub.status}
    BY <2>2 DEF PaidTransition, ChargebackTransition, CancellationTransition,
       FailedTransition, Transition
  <2> QED
    BY <2>1, <2>3
<1>4. ASSUME NEW w \in Workers, CommitCancellation(w)
      PROVE  /\ sub'.exempt = sub.exempt /\ sub'.restrictAfter = sub.restrictAfter
             /\ sub'.status \in {"PENDING", "RESTRICTED"} => sub'.status = sub.status
  <2>1. /\ sub'.status = CancellationTransition(sub, op[w].now).status
        /\ sub'.exempt = sub.exempt /\ sub'.restrictAfter = sub.restrictAfter
    BY <1>4, CancellationCommitted
  <2> QED
    BY <2>1 DEF CancellationTransition, Transition
<1>5. CASE sub' = sub
  BY <1>2, <1>5
<1> QED
  BY <1>1, <1>2, <1>3, <1>4, <1>5, RowAlone, CommitLeavesRow

\* An admin restricts nobody, puts nobody into a rollout window, and, unless a grant is
\* taken back or an organization reopened, makes none billable.
LEMMA WindowOfAdmin ==
    ASSUME TypeOK, NEW w \in Workers, AdminWrites(w)
    PROVE  /\ sub'.restrictAfter = sub.restrictAfter
           /\ sub'.status \in {"PENDING", "RESTRICTED"} => sub'.status = sub.status
           /\ ~RevokeBillingExemption(w) /\ sub.exempt => sub'.exempt
           /\ ~RestoreOrganization(w) /\ ~orgActive => ~orgActive'
<1>1. CASE GrantBillingExemption(w) \/ RevokeBillingExemption(w)
  BY <1>1, ExemptionWritten DEF GrantBillingExemption, RevokeBillingExemption
<1>2. CASE CommitStatusChange(w)
  <2>1. ~orgActive'
    BY <1>2 DEF CommitStatusChange
  <2>2. sub' = sub \/ sub'.status \in {"ACTIVE", "PAST_DUE", "CANCELED"}
    BY <1>2, StatusChangeCommitted, CancellationStatus
  <2> QED
    BY <1>2, <2>1, <2>2, StatusChangeCommitted
<1>3. CASE RestoreOrganization(w)
  BY <1>3 DEF RestoreOrganization
<1> QED
  BY <1>1, <1>2, <1>3 DEF AdminWrites

\* What the job changes of itself: the date only where a pass starts, and the phase only
\* along the pass.
LEMMA PassMoves ==
    ASSUME DunningInv, [DunningNext]_dunningVars
    PROVE  \/ job' = job
           \/ job'.phase \in {"idle", "killed", "reopening", "listing", "stopping"}
           \/ /\ job'.now = job.now
              /\ \/ job.phase = "reopening" /\ ReopenStaleWindow /\ job'.phase = "reconciling"
                 \/ /\ job.phase \in {"reconciling", "querying", "settling", "marking"}
                    /\ job'.phase \in {"querying", "settling", "marking", "due"}
                    /\ (sub' = sub /\ orgActive' = orgActive) \/ MarkPastDueIfStillUnconfirmed
                 \/ /\ job.phase = "due" /\ job'.phase = "finishing"
                    /\ ~sub.exempt /\ orgActive /\ sub' = sub
                 \/ /\ job.phase = "finishing" /\ job'.phase = "restricting" /\ sub' = sub
<1>1. JobTyped
  BY DEF DunningInv
<1>2. CASE JobStep
  <2>1. CASE ReopenStaleWindow
    BY <1>1, <2>1 DEF ReopenStaleWindow, GoTo, JobTyped
  <2>2. CASE ListUnconfirmedRenewals
    <3>1. /\ job.phase = "reconciling" /\ sub' = sub /\ orgActive' = orgActive
          /\ job'.now = job.now /\ job'.phase \in {"querying", "marking", "due"}
      BY <1>1, <2>2 DEF ListUnconfirmedRenewals, JobTyped, vars, rowVars
    <3> QED
      BY <3>1
  <2>3. CASE QueryPaid \/ QueryUndecided \/ Settled
    <3>1. /\ job.phase \in {"querying", "settling"} /\ sub' = sub /\ orgActive' = orgActive
          /\ job'.now = job.now /\ job'.phase \in {"settling", "marking"}
      BY <1>1, <2>3 DEF QueryPaid, QueryUndecided, Settled, GoTo, JobTyped, vars, rowVars
    <3> QED
      BY <3>1
  <2>4. CASE MarkPastDueIfStillUnconfirmed
    BY <1>1, <2>4 DEF MarkPastDueIfStillUnconfirmed, GoTo, JobTyped
  <2>5. CASE ListRestrictionDue
    BY <1>1, <2>5 DEF ListRestrictionDue, GoTo, JobTyped, Billable, vars, rowVars
  <2>6. CASE FinishCancellationIfDue
    <3>1. /\ job.phase = "finishing" /\ job'.now = job.now
          /\ job'.phase = "listing" \/ (job'.phase = "restricting" /\ sub' = sub)
      BY <1>1, <2>6 DEF FinishCancellationIfDue, WriteRowIf, GoTo, JobTyped
    <3> QED
      BY <3>1
  <2>7. CASE RestrictIfDue \/ ListOpenUnsubscribeRequests \/ FinishJob
    <3>1. CASE RestrictIfDue
      BY <1>1, <3>1 DEF RestrictIfDue, GoTo, JobTyped
    <3>2. CASE ListOpenUnsubscribeRequests
      BY <1>1, <3>2 DEF ListOpenUnsubscribeRequests, JobTyped
    <3>3. CASE FinishJob
      BY <3>3 DEF FinishJob, JobIdle
    <3> QED
      BY <2>7, <3>1, <3>2, <3>3
  <2>8. ASSUME NEW o \in Orders, RetryUnsubscribe(o)
        PROVE  job'.phase = "stopping"
    BY <1>1, <2>8 DEF RetryUnsubscribe, JobTyped
  <2> QED
    BY <1>2, <2>1, <2>2, <2>3, <2>4, <2>5, <2>6, <2>7, <2>8 DEF JobStep
<1>3. ASSUME NEW enforcing \in BOOLEAN, StartJob(enforcing)
      PROVE  job'.phase \in {"reopening", "listing"}
  BY <1>3 DEF StartJob, JobIdle
<1>4. CASE AbortJob
  BY <1>4 DEF AbortJob, JobIdle
<1> QED
  BY <1>2, <1>3, <1>4 DEF DunningNext, JobCall, RequestStep, DayPasses, dunningVars

\* Nothing brings a stale window back once the pass has handed them back, as long as no
\* complimentary grant is taken back and no organization is reopened.
LEMMA WindowStep ==
    ASSUME AdminOperations \cap {"REVOKE", "RESTORE"} = {},
           DunningInv, WindowInv, [DunningNext]_dunningVars
    PROVE  WindowInv'
<1>1. /\ ReadingInv /\ TypeOK /\ sub \in SubscriptionRows /\ sub' \in SubscriptionRows
      /\ orgActive \in BOOLEAN /\ orgActive' \in BOOLEAN /\ job.now \in Nat
      /\ WindowStaleDays \in Nat /\ TransitionWindow \in Nat \ {0}
  BY JobAssumption, TablesStep DEF DunningInv, ReadingInv, TypeOK, JobTyped
<1> DEFINE Stands(row, at) == row.status = "PENDING" /\ row.restrictAfter # NoDate =>
                                row.restrictAfter + WindowStaleDays > at
<1>2. /\ sub'.exempt = sub.exempt \/ sub'.exempt
      /\ orgActive' => orgActive
      /\ \/ sub'.status = "PENDING" => sub.status = "PENDING"
                                       /\ sub'.restrictAfter = sub.restrictAfter
         \/ ReopenStaleWindow
  <2>1. CASE [Next]_vars \/ Moves
    BY <1>1, <2>1, WindowUntouched
  <2>2. ASSUME NEW w \in Workers, AdminWrites(w)
        PROVE  /\ sub'.exempt = sub.exempt \/ sub'.exempt
               /\ orgActive' => orgActive
               /\ sub'.status = "PENDING" => sub.status = "PENDING"
                                             /\ sub'.restrictAfter = sub.restrictAfter
    <3>1. sub'.restrictAfter = sub.restrictAfter
          /\ (sub'.status = "PENDING" => sub.status = "PENDING")
      BY <1>1, <2>2, WindowOfAdmin
    <3>2. CASE GrantBillingExemption(w) \/ CommitStatusChange(w)
      <4>1. sub'.exempt = sub.exempt \/ sub'.exempt
        BY <1>1, <3>2, ExemptionWritten, StatusChangeCommitted
      <4>2. orgActive' => orgActive
        BY <3>2 DEF GrantBillingExemption, CommitStatusChange
      <4> QED
        BY <3>1, <4>1, <4>2
    <3>3. GrantBillingExemption(w) \/ CommitStatusChange(w)
      BY <2>2 DEF AdminWrites
    <3> QED
      BY <3>2, <3>3
  <2>3. CASE JobWrites
    <3>1. sub'.exempt = sub.exempt /\ orgActive' = orgActive
      BY <2>3, JobWritten
    <3>2. CASE ~ReopenStaleWindow
      <4>1. job.phase # "reopening"
        BY <2>3, <3>2 DEF JobWrites, MarkPastDueIfStillUnconfirmed, FinishCancellationIfDue,
           RestrictIfDue
      <4> QED
        BY <2>3, <3>1, <4>1, JobWritten
    <3> QED
      BY <3>1, <3>2
  <2> QED
    BY <2>1, <2>2, <2>3, DunningSteps
<1>3. ASSUME ~ReopenStaleWindow, WindowStands, job'.now = job.now
      PROVE  WindowStands'
  BY <1>1, <1>2, <1>3 DEF WindowStands
<1>4. CASE job' = job
  <2>1. CASE ReopenStaleWindow
    BY <1>4, <2>1 DEF ReopenStaleWindow, WindowInv
  <2>2. CASE ~ReopenStaleWindow
    BY <1>1, <1>2, <1>3, <1>4, <2>2 DEF WindowInv
  <2> QED
    BY <2>1, <2>2
<1>5. CASE job'.phase \in {"idle", "killed", "reopening", "listing", "stopping"}
  BY <1>5 DEF WindowInv
<1>6. CASE /\ job'.now = job.now /\ job.phase = "reopening" /\ ReopenStaleWindow
           /\ job'.phase = "reconciling"
  <2> DEFINE opened == [sub EXCEPT !.restrictAfter = job.now + TransitionWindow]
             stale  == /\ Billable(sub) /\ orgActive
                       /\ sub.status = "PENDING" /\ sub.restrictAfter # NoDate
                       /\ sub.restrictAfter + WindowStaleDays <= job.now
  <2>1. sub' = (IF stale THEN opened ELSE sub) /\ orgActive' = orgActive
    BY <1>6 DEF ReopenStaleWindow, WriteRowIf
  <2>2. sub'.exempt \/ ~orgActive' \/ WindowStands'
    <3>1. CASE stale
      <4>1. sub'.restrictAfter = job.now + TransitionWindow
        BY <1>1, <2>1, <3>1 DEF SubscriptionRows
      <4>2. sub'.restrictAfter + WindowStaleDays > job.now
        BY <1>1, <4>1
      <4> QED
        BY <1>6, <4>2 DEF WindowStands
    <3>2. CASE ~stale
      <4>1. sub' = sub
        BY <2>1, <3>2
      <4>2. CASE sub.exempt \/ ~orgActive
        BY <2>1, <4>1, <4>2
      <4>3. CASE ~sub.exempt /\ orgActive
        <5>1. sub.restrictAfter \in Nat
          BY <1>1 DEF SubscriptionRows
        <5>2. ~(/\ sub.status = "PENDING" /\ sub.restrictAfter # NoDate
                /\ sub.restrictAfter + WindowStaleDays <= job.now)
          BY <3>2, <4>3 DEF Billable
        <5> QED
          BY <1>1, <1>6, <4>1, <5>1, <5>2 DEF WindowStands
      <4> QED
        BY <4>2, <4>3
    <3> QED
      BY <3>1, <3>2
  <2> QED
    BY <1>6, <2>2 DEF WindowInv
<1>7. CASE /\ job'.now = job.now
           /\ job.phase \in {"reconciling", "querying", "settling", "marking"}
           /\ job'.phase \in {"querying", "settling", "marking", "due"}
  <2>1. ~ReopenStaleWindow
    BY <1>7 DEF ReopenStaleWindow
  <2>2. sub.exempt \/ ~orgActive \/ WindowStands
    BY <1>7 DEF WindowInv
  <2>3. sub'.exempt \/ ~orgActive' \/ WindowStands'
    BY <1>2, <1>3, <1>7, <2>1, <2>2
  <2> QED
    BY <1>7, <2>3 DEF WindowInv
<1>8. CASE /\ job'.now = job.now /\ sub' = sub
           /\ \/ /\ job.phase = "due" /\ job'.phase = "finishing" /\ ~sub.exempt /\ orgActive
              \/ job.phase = "finishing" /\ job'.phase = "restricting"
  <2>1. sub.exempt \/ WindowStands
    BY <1>8 DEF WindowInv
  <2>2. sub'.exempt \/ WindowStands'
    BY <1>8, <2>1 DEF WindowStands
  <2> QED
    BY <1>8, <2>2 DEF WindowInv
<1> QED
  BY <1>4, <1>5, <1>6, <1>7, <1>8, PassMoves

\* An organization is not restricted over a rollout window that ran out while nothing
\* enforced it.  Restored between the two steps of one pass, an organization closed when
\* the windows were handed back would be, and so would one that was complimentary then:
\* the theorem is about a system whose admins do neither.
THEOREM StaleWindowUnspent ==
    ASSUME AdminOperations \cap {"REVOKE", "RESTORE"} = {}
    PROVE  DunningSpec => StaleWindowIsNotSpent
<1>1. DunningInit => WindowInv
  BY DEF DunningInit, JobIdle, WindowInv
<1>2. DunningInv /\ WindowInv /\ [DunningNext]_dunningVars => WindowInv'
  BY WindowStep
<1>3. DunningInv /\ WindowInv /\ [DunningNext]_dunningVars =>
        [sub.status = "PENDING" /\ sub'.status = "RESTRICTED" =>
           sub.restrictAfter + WindowStaleDays > job.now]_dunningVars
  <2> SUFFICES ASSUME DunningInv, WindowInv, [DunningNext]_dunningVars,
                      sub.status = "PENDING", sub'.status = "RESTRICTED"
               PROVE  sub.restrictAfter + WindowStaleDays > job.now
    OBVIOUS
  <2>1. ReadingInv /\ TypeOK
    BY DEF DunningInv, ReadingInv
  <2>2. ~([Next]_vars \/ Moves) /\ ~\E w \in Workers : AdminWrites(w)
    BY <2>1, WindowUntouched, WindowOfAdmin
  <2>3. JobWrites
    BY <2>2, DunningSteps
  <2>4. job.phase = "restricting" /\ RestrictionDue(sub, job.now) /\ ~sub.exempt
    BY <2>3, JobWritten
  <2> QED
    BY <2>4 DEF WindowInv, WindowStands, RestrictionDue
<1> QED
  BY <1>1, <1>2, <1>3, DunningCorrect, PTL DEF DunningSpec, StaleWindowIsNotSpent

-----------------------------------------------------------------------------
(* What is proved of requests alone holds with the job and the admins at work. *)

\* Only the commit of a callback writes the log, so a payment still buys one month.
THEOREM CreditedOnceWithJob == DunningSpec => []PaymentIsCreditedOnce
<1>1. DunningInit => PaymentIsCreditedOnce
  BY DEF DunningInit, Init, PaymentIsCreditedOnce
<1>2. DunningInv /\ PaymentIsCreditedOnce /\ [DunningNext]_dunningVars => PaymentIsCreditedOnce'
  <2> SUFFICES ASSUME DunningInv, PaymentIsCreditedOnce, [DunningNext]_dunningVars
               PROVE  PaymentIsCreditedOnce'
    OBVIOUS
  <2>1. CASE [Next]_vars
    BY <2>1, CreditedOnceStep
  <2>2. CASE ~[Next]_vars
    <3>1. log' = log
      BY <2>2, DunningSteps, JobWritten DEF Moves, AdminWrites, GrantBillingExemption,
         RevokeBillingExemption, CommitStatusChange, RestoreOrganization, rowVars
    <3> QED
      BY <3>1 DEF PaymentIsCreditedOnce
  <2> QED
    BY <2>1, <2>2
<1> QED
  BY <1>1, <1>2, DunningCorrect, PTL DEF DunningSpec

\* An order that was live once is never forgotten, whoever closes the organization, grants
\* it access or ends its cancellation.
THEOREM SupersededQueuedWithJob == DunningSpec => []SupersededOrderIsQueued
<1>1. DunningInit => SupersededOrderIsQueued
  BY DEF DunningInit, Init, SupersededOrderIsQueued
<1>2. DunningInv /\ SupersededOrderIsQueued /\ [DunningNext]_dunningVars =>
        SupersededOrderIsQueued'
  <2> SUFFICES ASSUME DunningInv, SupersededOrderIsQueued, [DunningNext]_dunningVars
               PROVE  SupersededOrderIsQueued'
    OBVIOUS
  <2>1. ReadingInv /\ TypeOK /\ sub \in SubscriptionRows
    BY DEF DunningInv, ReadingInv, TypeOK
  <2>2. CASE [Next]_vars
    BY <2>1, <2>2, SupersededStep
  <2>3. CASE Moves \/ JobWrites
    <3>1. sub'.order = sub.order /\ checkouts' = checkouts /\ requests' = requests
      BY <2>3, JobWritten DEF Moves, rowVars
    <3> QED
      BY <3>1 DEF SupersededOrderIsQueued
  <2>4. ASSUME NEW w \in Workers, AdminWrites(w)
        PROVE  SupersededOrderIsQueued'
    <3>1. sub'.order = sub.order
      BY <2>1, <2>4, ExemptionWritten, StatusChangeCommitted DEF AdminWrites, RestoreOrganization
    <3>2. ASSUME NEW o \in Orders
          PROVE  /\ checkouts'[o] = "PAID" => checkouts[o] = "PAID"
                 /\ requests[o] # "none" => requests'[o] # "none"
      BY <2>1, <2>4 DEF AdminWrites, GrantBillingExemption, RevokeBillingExemption,
         CommitStatusChange, RestoreOrganization, QueueUnsubscribe, AbandonProposed, TypeOK
    <3> QED
      BY <3>1, <3>2 DEF SupersededOrderIsQueued
  <2> QED
    BY <2>2, <2>3, <2>4, DunningSteps
<1> QED
  BY <1>1, <1>2, DunningCorrect, PTL DEF DunningSpec

\* Only a checkout the organization paid for ends a cancellation: no admin and no job does.
THEOREM OnlyCheckoutRenewsWithJob == DunningSpec => OnlyNewCheckoutRenews
<1>1. DunningInv /\ [DunningNext]_dunningVars =>
        [sub.cancelRequested /\ ~sub'.cancelRequested =>
           /\ sub'.order # sub.order
           /\ checkouts[sub'.order] = "PROPOSED" /\ checkouts'[sub'.order] = "PAID"]_vars
  <2> SUFFICES ASSUME DunningInv, [DunningNext]_dunningVars,
                      sub.cancelRequested, ~sub'.cancelRequested
               PROVE  /\ sub'.order # sub.order
                      /\ checkouts[sub'.order] = "PROPOSED" /\ checkouts'[sub'.order] = "PAID"
    OBVIOUS
  <2>1. ReadingInv /\ TypeOK
    BY DEF DunningInv, ReadingInv
  <2>2. ~Moves /\ ~JobWrites
    BY JobWritten DEF Moves, rowVars
  <2>3. ~\E w \in Workers : AdminWrites(w)
    BY <2>1, ExemptionWritten, StatusChangeCommitted DEF AdminWrites, RestoreOrganization
  <2> QED
    BY <2>1, <2>2, <2>3, DunningSteps, RenewalStep
<1> QED
  BY <1>1, DunningCorrect, PTL DEF DunningSpec, OnlyNewCheckoutRenews
=============================================================================
