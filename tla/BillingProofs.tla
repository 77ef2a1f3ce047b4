--------------------------- MODULE BillingProofs ---------------------------
(***************************************************************************)
(* Proofs about Billing, for any number of workers, orders, callbacks and  *)
(* days.                                                                   *)
(***************************************************************************)
EXTENDS Billing, FiniteSetTheorems, TLAPS

Transitions ==
    [status : SubscriptionStatuses, grace : Nat, period : Nat, cancelRequested : BOOLEAN]

-----------------------------------------------------------------------------
(* What the decisions return. *)

\* A cancellation is a transition, and it is recorded as requested.
LEMMA CancellationType ==
    ASSUME NEW row \in SubscriptionRows, NEW at \in Nat
    PROVE  /\ CancellationTransition(row, at) \in Transitions
           /\ CancellationTransition(row, at).cancelRequested
           /\ CancellationTransition(row, at).period = row.period
<1>1. GraceAtCancellation(row) \in Nat
  BY PeriodAssumption DEF GraceAtCancellation, SubscriptionRows, NoDate
<1> QED
  BY <1>1, PeriodAssumption
  DEF CancellationTransition, Transition, Transitions, SubscriptionRows,
      SubscriptionStatuses, NoDate

\* A paid callback activates the subscription for at least one more month, and a
\* new checkout ends a cancellation.
LEMMA PaidType ==
    ASSUME NEW row \in SubscriptionRows, NEW at \in Nat, NEW isNew \in BOOLEAN
    PROVE  LET t == PaidTransition(row, at, isNew)
           IN  /\ t \in Transitions
               /\ t.status = "ACTIVE"
               /\ t.period >= row.period + Month
               /\ isNew => ~t.cancelRequested
               /\ ~isNew /\ row.cancelRequested => t.cancelRequested
<1>1. /\ PeriodAfterPayment(row, at) \in Nat
      /\ PeriodAfterPayment(row, at) >= row.period + Month
  BY PeriodAssumption DEF PeriodAfterPayment, SubscriptionRows
<1> QED
  BY <1>1, PeriodAssumption
  DEF PaidTransition, Transition, Transitions, SubscriptionRows, SubscriptionStatuses, NoDate

\* A chargeback is a failure.
LEMMA ReversedFailed == ClassifyCallbackStatus("reversed") = "failed"
  BY ZenonT(30) DEF ClassifyCallbackStatus, PaidStatuses, FailedStatuses, CanceledStatuses

\* What any callback decides, if it decides anything.
LEMMA DecisionType ==
    ASSUME NEW row \in SubscriptionRows, NEW at \in Nat, NEW status,
           NEW isNew \in BOOLEAN,
           NEW t \in TransitionForCallbackStatus(row, status, at, isNew)
    PROVE  /\ t \in Transitions
           /\ ClassifyCallbackStatus(status) = "paid" =>
                t = PaidTransition(row, at, isNew)
           /\ ClassifyCallbackStatus(status) # "paid" =>
                ~isNew /\ t.period = row.period
           /\ ~isNew /\ row.cancelRequested => t.cancelRequested
<1> DEFINE outcome == ClassifyCallbackStatus(status)
<1>1. \/ outcome = "paid" /\ t = PaidTransition(row, at, isNew)
      \/ /\ status = "reversed" /\ ~isNew
         /\ t \in ChargebackTransition(row, at)
      \/ /\ outcome = "canceled" /\ ~isNew
         /\ t = CancellationTransition(row, at)
      \/ /\ outcome = "failed" /\ ~isNew /\ ~row.cancelRequested
         /\ t = FailedTransition(row, at)
  BY DEF TransitionForCallbackStatus, When
<1>2. CASE outcome = "paid" /\ t = PaidTransition(row, at, isNew)
  BY <1>2, PaidType
<1>3. CASE status = "reversed" /\ ~isNew /\ t \in ChargebackTransition(row, at)
  <2>1. t = Transition(row.status, at + GracePeriod, row.period, row.cancelRequested)
    BY <1>3 DEF ChargebackTransition
  <2>2. outcome = "failed"
    BY <1>3, ReversedFailed
  <2> QED
    BY <1>3, <2>1, <2>2, PeriodAssumption DEF Transition, Transitions, SubscriptionRows
<1>4. CASE outcome = "canceled" /\ ~isNew /\ t = CancellationTransition(row, at)
  BY <1>4, CancellationType
<1>5. CASE outcome = "failed" /\ ~isNew /\ ~row.cancelRequested
           /\ t = FailedTransition(row, at)
  BY <1>5, PeriodAssumption DEF FailedTransition, Transition, Transitions,
     SubscriptionRows, SubscriptionStatuses, NoDate
<1> QED
  BY <1>1, <1>2, <1>3, <1>4, <1>5

-----------------------------------------------------------------------------
(* Type correctness. *)

\* The phase of a request says which fields it has.
LEMMA PhaseType ==
    ASSUME NEW c \in Requests
    PROVE  /\ c.phase = "received" => c \in ReceivedRequests
           /\ c.phase = "located" => c \in LocatedRequests
           /\ c.phase = "matched" => c \in MatchedRequests
           /\ c.phase = "judged" => c \in JudgedRequests
           /\ c.phase = "canceling" => c \in CancelRequests
           /\ c.phase = "changing" => c \in ChangeRequests
           /\ c.phase \in {"stopping", "stopped"} => c \in StopRequests
  BY DEF Requests, ReceivedRequests, LocatedRequests, MatchedRequests, JudgedRequests,
         CancelRequests, ChangeRequests, StopRequests

\* A judged callback decides a transition of the row it saw.
LEMMA JudgedDecision ==
    ASSUME NEW c \in JudgedRequests, NEW t \in Decision(c)
    PROVE  /\ ~Blocked(c) /\ ~OutOfOrder(c) /\ Role(c) # "retired-checkout"
           /\ t \in TransitionForCallbackStatus(c.seen, c.event.status, c.now, IsNew(c))
           /\ t \in Transitions
           /\ Decision(c) = {t}
<1>1. /\ ~Blocked(c) /\ ~OutOfOrder(c) /\ Role(c) # "retired-checkout"
      /\ Decision(c) = TransitionForCallbackStatus(c.seen, c.event.status, c.now, IsNew(c))
  BY DEF Decision
<1>2. /\ c.seen \in SubscriptionRows /\ c.now \in Nat /\ c.event.status \in ReportStatuses
      /\ IsNew(c) \in BOOLEAN
  BY DEF JudgedRequests, Events, IsNew
<1>3. t \in Transitions
  BY <1>1, <1>2, DecisionType
<1>4. \A u \in Decision(c) : u = t
  BY <1>1, ReversedFailed DEF TransitionForCallbackStatus, ChargebackTransition, When
<1> QED
  BY <1>1, <1>3, <1>4

-----------------------------------------------------------------------------
(* The steps that only move a request along, and LiqPay's. *)

\* A new report is an event of the callback type.
LEMMA ReportType ==
    ASSUME NEW o \in Orders, NEW p \in Nat, NEW s \in ReportStatuses,
           NEW m \in BOOLEAN, clock \in Nat
    PROVE  Report(o, p, s, m) \in Events
  BY DEF Report, Events

\* The callbacks of a charge, under whatever statuses LiqPay reports it.
LEMMA ChargeTypes ==
    ASSUME NEW o \in Orders, NEW match \in Sums, clock \in Nat
    PROVE  {Report(o, clock + 1, s, match) : s \in PaidReports} \subseteq Events
<1>1. match \in BOOLEAN /\ PaidReports \subseteq ReportStatuses
  BY ReportAssumption
<1>2. ASSUME NEW s \in PaidReports
      PROVE  Report(o, clock + 1, s, match) \in Events
  <2>1. clock + 1 \in Nat /\ s \in ReportStatuses
    BY <1>1
  <2> QED
    BY <1>1, <2>1, ReportType
<1> QED
  BY <1>2

\* LiqPay's own steps keep the types of its state.
LEMMA ProviderTypes ==
    ASSUME TypeOK, NEW o \in Orders,
           PayCheckout(o) \/ Decline(o) \/ ChargeAgain(o) \/ TakeBack(o) \/ Unsubscribe(o)
    PROVE  /\ recurring' \in [Orders -> RecurringStates]
           /\ sent' \subseteq Events
           /\ clock' \in Nat
<1>1. /\ recurring \in [Orders -> RecurringStates]
      /\ sent \subseteq Events
      /\ clock \in Nat /\ clock + 1 \in Nat
  BY DEF TypeOK
<1>2. ASSUME NEW reports \in SUBSET Events, Happens(reports)
      PROVE  sent' \subseteq Events /\ clock' \in Nat
  BY <1>1, <1>2 DEF Happens
<1>3. CASE PayCheckout(o)
  <2>1. PICK match \in Sums : Happens({Report(o, clock + 1, s, match) : s \in PaidReports})
    BY <1>3 DEF PayCheckout
  <2>2. sent' \subseteq Events /\ clock' \in Nat
    BY <1>1, <1>2, <2>1, ChargeTypes
  <2> QED
    BY <1>1, <1>3, <2>2 DEF PayCheckout, RecurringStates
<1>4. CASE ChargeAgain(o)
  <2>1. PICK match \in Sums : Happens({Report(o, clock + 1, s, match) : s \in PaidReports})
    BY <1>4 DEF ChargeAgain
  <2>2. sent' \subseteq Events /\ clock' \in Nat
    BY <1>1, <1>2, <2>1, ChargeTypes
  <2> QED
    BY <1>1, <1>4, <2>2 DEF ChargeAgain
<1>5. CASE Decline(o)
  <2>1. Report(o, clock + 1, "failure", TRUE) \in Events
    BY <1>1, ReportType DEF ReportStatuses
  <2> QED
    BY <1>1, <1>2, <1>5, <2>1 DEF Decline
<1>6. CASE TakeBack(o)
  <2>1. PICK e \in sent : Happens({Report(o, e.payment, "reversed", TRUE)})
    BY <1>6 DEF TakeBack
  <2>2. e.payment \in Nat
    BY <1>1, <2>1 DEF Events
  <2>3. Report(o, e.payment, "reversed", TRUE) \in Events
    BY <1>1, <2>2, ReportType DEF ReportStatuses
  <2> QED
    BY <1>1, <1>2, <1>6, <2>1, <2>3 DEF TakeBack
<1>7. CASE Unsubscribe(o)
  <2>1. Report(o, NoPayment, "unsubscribed", TRUE) \in Events
    BY <1>1, ReportType DEF ReportStatuses, NoPayment
  <2> QED
    BY <1>1, <1>2, <1>7, <2>1 DEF Unsubscribe, RecurringStates
<1> QED
  BY <1>3, <1>4, <1>5, <1>6, <1>7

\* The types of everything after a worker's request took a step from c to next
\* that changed nothing else of the database.
LEMMA RunType ==
    ASSUME TypeOK, NEW w \in Workers, NEW next \in Requests, Run(w, next)
    PROVE  op' \in [Workers -> Requests]
  BY DEF TypeOK, Run

\* The phases of a request that has no data.
LEMMA PlainRequests ==
    /\ Idle \in Requests
    /\ [phase |-> "offering"] \in Requests
    /\ \A o \in Orders : Stopping(o) \in Requests /\ Stopped(o) \in Requests
    /\ \A orders \in SUBSET Orders : StoppingAnyOf(orders) \in Requests
<1>1. /\ Idle \in Requests
      /\ [phase |-> "offering"] \in Requests
      /\ \A o \in Orders : Stopping(o) \in Requests /\ Stopped(o) \in Requests
  BY DEF Idle, Stopping, Stopped, Requests, StopRequests
<1>2. ASSUME NEW orders \in SUBSET Orders
      PROVE  StoppingAnyOf(orders) \in Requests
  BY <1>1 DEF StoppingAnyOf
<1> QED
  BY <1>1, <1>2

\* A callback finds the checkout, then the subscription, then the payment's history.
LEMMA ReadingTypes ==
    ASSUME TypeOK, NEW w \in Workers,
           FindCheckoutOrder(w) \/ FindSubscription(w) \/ FindPaymentHistory(w)
    PROVE  op' \in [Workers -> Requests]
<1>1. op[w] \in Requests
  BY DEF TypeOK
<1>2. CASE FindCheckoutOrder(w)
  <2>1. op[w] \in ReceivedRequests
    BY <1>1, <1>2, PhaseType DEF FindCheckoutOrder
  <2>2. [phase |-> "located", event |-> op[w].event, now |-> op[w].now,
         attempt |-> op[w].attempt, checkout |-> checkouts[op[w].event.order]]
          \in LocatedRequests
    BY <2>1 DEF ReceivedRequests, LocatedRequests, TypeOK, Events
  <2> QED
    BY <1>2, <2>2, RunType DEF FindCheckoutOrder, Requests
<1>3. CASE FindSubscription(w)
  <2>1. op[w] \in LocatedRequests
    BY <1>1, <1>3, PhaseType DEF FindSubscription
  <2>2. [phase |-> "matched", event |-> op[w].event, now |-> op[w].now,
         attempt |-> op[w].attempt, seen |-> sub, checkout |-> op[w].checkout]
          \in MatchedRequests
    BY <2>1 DEF LocatedRequests, MatchedRequests, TypeOK
  <2> QED
    BY <1>3, <2>2, RunType DEF FindSubscription, Requests
<1>4. CASE FindPaymentHistory(w)
  <2>1. op[w] \in MatchedRequests
    BY <1>1, <1>4, PhaseType DEF FindPaymentHistory
  <2>2. PICK next \in JudgedRequests : Run(w, next)
    BY <1>4, <2>1 DEF FindPaymentHistory, MatchedRequests, JudgedRequests
  <2> QED
    BY <2>2, RunType DEF Requests
<1> QED
  BY <1>2, <1>3, <1>4

\* A transition written over a row leaves a row.
LEMMA MergeType ==
    ASSUME NEW row \in SubscriptionRows, NEW t \in Transitions
    PROVE  /\ Merge(row, t) \in SubscriptionRows
           /\ Merge(row, t).order = row.order
           /\ Merge(row, t).exempt = row.exempt
           /\ Merge(row, t).restrictAfter = row.restrictAfter
           /\ Merge(row, t).status = t.status
           /\ Merge(row, t).grace = t.grace
           /\ Merge(row, t).period = t.period
           /\ Merge(row, t).cancelRequested = t.cancelRequested
  BY DEF Merge, SubscriptionRows, Transitions

\* What a judged callback makes of the row: nothing without a decision, and with
\* one the decided fields and, if it takes over, the order.
LEMMA UpdatedRowType ==
    ASSUME NEW c \in JudgedRequests, sub \in SubscriptionRows
    PROVE  /\ UpdatedRow(c) \in SubscriptionRows
           /\ Decision(c) = {} => UpdatedRow(c) = sub
           /\ \A t \in Decision(c) :
                /\ UpdatedRow(c).status = t.status
                /\ UpdatedRow(c).grace = t.grace
                /\ UpdatedRow(c).period = t.period
                /\ UpdatedRow(c).cancelRequested = t.cancelRequested
                /\ UpdatedRow(c).exempt = sub.exempt
                /\ UpdatedRow(c).restrictAfter = sub.restrictAfter
                /\ UpdatedRow(c).order = IF TakesOver(c) THEN c.event.order ELSE sub.order
<1>1. CASE Decision(c) = {}
  BY <1>1 DEF UpdatedRow
<1>2. ASSUME NEW t \in Decision(c)
      PROVE  /\ UpdatedRow(c) \in SubscriptionRows
             /\ UpdatedRow(c).status = t.status
             /\ UpdatedRow(c).grace = t.grace
             /\ UpdatedRow(c).period = t.period
             /\ UpdatedRow(c).cancelRequested = t.cancelRequested
             /\ UpdatedRow(c).exempt = sub.exempt
             /\ UpdatedRow(c).restrictAfter = sub.restrictAfter
             /\ UpdatedRow(c).order = IF TakesOver(c) THEN c.event.order ELSE sub.order
  <2>1. t \in Transitions /\ Decision(c) = {t}
    BY JudgedDecision
  <2>2. UpdatedRow(c) = [Merge(sub, t) EXCEPT !.order = IF TakesOver(c) THEN c.event.order ELSE @]
    BY <2>1 DEF UpdatedRow
  <2>3. c.event.order \in Orders
    BY DEF JudgedRequests, Events
  <2> QED
    BY <2>1, <2>2, <2>3, MergeType DEF SubscriptionRows
<1> QED
  BY <1>1, <1>2

\* The entry a judged callback leaves in the log.
LEMMA LogEntryType ==
    ASSUME NEW c \in JudgedRequests
    PROVE  LogEntry(c) \in LogEntries
<1>1. EventAt(c.event) \in Nat
  BY DEF EventAt, JudgedRequests, Events
<1>2. Credited(c) \in BOOLEAN
  BY DEF Credited
<1> QED
  BY <1>1, <1>2 DEF LogEntry, LogEntries, JudgedRequests, Events, Issues

\* The order a judged callback stops is its own or the live one it saw.
LEMMA OrderToStopType ==
    ASSUME NEW c \in JudgedRequests
    PROVE  OrderToStop(c) \in SUBSET Orders
  BY DEF OrderToStop, JudgedRequests, Events, SubscriptionRows

\* The writes to the queue and to the checkouts.
LEMMA TableTypes ==
    ASSUME NEW queue \in [Orders -> RequestStates], NEW orders \in SUBSET Orders,
           NEW rows \in [Orders -> CheckoutStatuses]
    PROVE  /\ QueueUnsubscribe(queue, orders) \in [Orders -> RequestStates]
           /\ ResolveUnsubscribe(queue, orders) \in [Orders -> RequestStates]
           /\ AbandonProposed(rows) \in [Orders -> CheckoutStatuses]
  BY DEF QueueUnsubscribe, ResolveUnsubscribe, AbandonProposed, RequestStates,
         CheckoutStatuses

-----------------------------------------------------------------------------
(* The type invariant. *)

\* The tables of a new or a legacy subscription have their types.
LEMMA InitTypes == Init => TypeOK
<1> SUFFICES ASSUME Init
             PROVE  TypeOK
  OBVIOUS
<1>1. sub \in SubscriptionRows
  <2>1. NewSubscription \in SubscriptionRows
    BY InitAssumption DEF NewSubscription, SubscriptionRows, SubscriptionStatuses, NoDate
  <2>2. ASSUME NEW o \in Orders
        PROVE  LegacySubscription(o) \in SubscriptionRows
    <3>1. 1 + Month \in Nat /\ "ACTIVE" \in SubscriptionStatuses
      BY PeriodAssumption DEF SubscriptionStatuses
    <3> DEFINE period == 1 + Month
    <3>2. period \in Nat
      BY <3>1
    <3> HIDE DEF period
    <3> QED
      BY <2>1, <3>1, <3>2 DEF LegacySubscription, SubscriptionRows, period
  <2> QED
    BY <2>1, <2>2, InitAssumption DEF Init
<1>2. op \in [Workers -> Requests]
  BY PlainRequests DEF Init
<1>3. /\ recurring \in [Orders -> RecurringStates]
      /\ sent \subseteq Events
      /\ clock \in Nat
  BY DEF Init, LiqPayInit, RecurringStates
<1> QED
  BY <1>1, <1>2, <1>3 DEF Init, TypeOK, CheckoutStatuses, RequestStates

\* A callback's commit.
LEMMA CommitCallbackTypes ==
    ASSUME TypeOK, NEW w \in Workers, CommitCallback(w)
    PROVE  TypeOK'
<1> DEFINE c == op[w]
<1>1. c \in JudgedRequests
  BY PhaseType DEF TypeOK, CommitCallback
<1>2. sub' \in SubscriptionRows
  BY <1>1, UpdatedRowType DEF TypeOK, CommitCallback
<1>3. log' \subseteq LogEntries
  BY <1>1, LogEntryType DEF TypeOK, CommitCallback
<1>4. c.event.order \in Orders
  BY <1>1 DEF JudgedRequests, Events
<1>5. requests' \in [Orders -> RequestStates]
  BY <1>1, <1>4, OrderToStopType DEF TypeOK, CommitCallback, QueueUnsubscribe,
     ResolveUnsubscribe, RequestStates
<1>6. checkouts' \in [Orders -> CheckoutStatuses]
  BY <1>4 DEF TypeOK, CommitCallback, AbandonProposed, CheckoutStatuses
<1>7. op' \in [Workers -> Requests]
  <2>1. StoppingAnyOf(OrderToStop(c)) \in Requests
    BY <1>1, OrderToStopType, PlainRequests
  <2> QED
    BY <2>1, RunType DEF CommitCallback
<1>8. overtaken' \subseteq Workers
  BY DEF TypeOK, CommitCallback, RowWritten, RowUnread, Readers
<1> QED
  BY <1>2, <1>3, <1>5, <1>6, <1>7, <1>8 DEF TypeOK, CommitCallback, liqPayVars

\* The commit of an owner's cancellation.
LEMMA CommitCancellationTypes ==
    ASSUME TypeOK, NEW w \in Workers, CommitCancellation(w)
    PROVE  TypeOK'
<1> DEFINE c == op[w]
<1>1. c.now \in Nat /\ c.seen \in SubscriptionRows /\ c.seen.order \in Orders
  <2>1. c \in CancelRequests
    BY PhaseType DEF TypeOK, CommitCancellation
  <2> QED
    BY <2>1 DEF CancelRequests
<1>3. sub' \in SubscriptionRows
  BY <1>1, CancellationType, MergeType DEF TypeOK, CommitCancellation
<1>4. /\ requests' \in [Orders -> RequestStates]
      /\ checkouts' \in [Orders -> CheckoutStatuses]
  BY <1>1, TableTypes DEF TypeOK, CommitCancellation
<1>5. op' \in [Workers -> Requests]
  BY <1>1, PlainRequests, RunType DEF CommitCancellation
<1>6. overtaken' \subseteq Workers
  BY DEF TypeOK, CommitCancellation, RowWritten, Readers
<1> QED
  BY <1>3, <1>4, <1>5, <1>6 DEF TypeOK, CommitCancellation, liqPayVars

\* Every other step of a request.
LEMMA RequestTypes ==
    ASSUME TypeOK, NEW w \in Workers,
           (Arrive(w) \/ Continue(w)), ~CommitCallback(w), ~CommitCancellation(w)
    PROVE  TypeOK'
<1> DEFINE c == op[w]
<1>1. c \in Requests
  BY DEF TypeOK
<1>2. \A next \in Requests : Run(w, next) => op' \in [Workers -> Requests]
  BY RunType
<1>3. CASE StartCheckout(w)
  BY <1>2, <1>3, PlainRequests DEF StartCheckout, TypeOK, rowVars, liqPayVars
<1>4. CASE RequestCancellation(w)
  <2>1. [phase |-> "canceling", now |-> now, seen |-> sub] \in CancelRequests
    BY <1>4 DEF RequestCancellation, CanRequestCancellation, CancelRequests, TypeOK,
       SubscriptionRows
  <2> QED
    BY <1>2, <1>4, <2>1 DEF RequestCancellation, TypeOK, rowVars, liqPayVars, Requests
<1>5. CASE \E event \in sent : DeliverCallback(w, event)
  <2>1. PICK event \in Events : DeliverCallback(w, event)
    BY <1>5 DEF TypeOK
  <2>2. Received(event, now, 1) \in ReceivedRequests
    BY <2>1 DEF Received, ReceivedRequests, TypeOK
  <2> QED
    BY <1>2, <2>1, <2>2 DEF DeliverCallback, TypeOK, rowVars, liqPayVars, Requests
<1>6. CASE ReuseCheckout(w) \/ UnknownOrder(w)
  BY <1>2, <1>6, PlainRequests DEF ReuseCheckout, UnknownOrder, TypeOK, rowVars, liqPayVars
<1>7. CASE CreateCheckoutOrder(w)
  BY <1>2, <1>7, PlainRequests DEF CreateCheckoutOrder, TypeOK, liqPayVars, CheckoutStatuses
<1>8. CASE FindCheckoutOrder(w) \/ FindSubscription(w) \/ FindPaymentHistory(w)
  BY <1>8, ReadingTypes
  DEF FindCheckoutOrder, FindSubscription, FindPaymentHistory, TypeOK, rowVars, liqPayVars
<1>9. CASE AnswerDuplicate(w) \/ CancellationConflict(w)
  BY <1>2, <1>9, PlainRequests
  DEF AnswerDuplicate, CancellationConflict, RowUnread, TypeOK, rowVars, liqPayVars
<1>10. CASE ReapplyStale(w)
  <2>1. c \in JudgedRequests
    BY <1>1, <1>10, PhaseType DEF ReapplyStale
  <2>2. Received(c.event, c.now, c.attempt + 1) \in Requests
    BY <2>1 DEF Received, JudgedRequests, ReceivedRequests, Requests
  <2> QED
    BY <1>2, <1>10, <2>2, PlainRequests DEF ReapplyStale, RowUnread, TypeOK, rowVars, liqPayVars
<1>11. CASE StopAccepted(w) \/ StopUnconfirmed(w)
  <2>1. op[w].phase = "stopping" /\ op[w].order \in Orders
    BY <1>1, <1>11, PhaseType DEF StopAccepted, StopUnconfirmed, StopRequests
  <2>2. /\ recurring' \in [Orders -> RecurringStates]
        /\ sent' \subseteq Events
        /\ clock' \in Nat
    BY <1>11, <2>1, ProviderTypes DEF StopAccepted, StopUnconfirmed, TypeOK, liqPayVars
  <2> QED
    BY <1>2, <1>11, <2>1, <2>2, PlainRequests DEF StopAccepted, StopUnconfirmed, TypeOK, rowVars
<1>12. CASE ResolveUnsubscribeRequest(w)
  <2>1. op[w].order \in Orders
    BY <1>1, <1>12, PhaseType DEF ResolveUnsubscribeRequest, StopRequests
  <2> QED
    BY <1>2, <1>12, <2>1, PlainRequests, TableTypes
    DEF ResolveUnsubscribeRequest, TypeOK, liqPayVars
<1>13. CASE Abort(w)
  BY <1>2, <1>13, PlainRequests DEF Abort, RowUnread, TypeOK, rowVars, liqPayVars
<1> QED
  BY <1>3, <1>4, <1>5, <1>6, <1>7, <1>8, <1>9, <1>10, <1>11, <1>12, <1>13
  DEF Arrive, Continue

\* Every step, of whatever request, of LiqPay or of the clock, keeps the types.
LEMMA NextTypes == TypeOK /\ [Next]_vars => TypeOK'
<1> SUFFICES ASSUME TypeOK, [Next]_vars
             PROVE  TypeOK'
  OBVIOUS
<1>1. ASSUME NEW w \in Workers, Arrive(w) \/ Continue(w)
      PROVE  TypeOK'
  BY <1>1, CommitCallbackTypes, CommitCancellationTypes, RequestTypes
<1>2. CASE ProviderStep
  BY <1>2, ProviderTypes DEF ProviderStep, TypeOK, rowVars
<1>3. CASE Tick
  BY <1>3 DEF Tick, TypeOK, rowVars, liqPayVars
<1>4. CASE UNCHANGED vars
  BY <1>4 DEF TypeOK, vars, rowVars, liqPayVars
<1> QED
  BY <1>1, <1>2, <1>3, <1>4 DEF Next

\* Every reachable state of the database, the requests and LiqPay is well typed.
THEOREM TypeCorrect == Spec => []TypeOK
  BY InitTypes, NextTypes, PTL DEF Spec

-----------------------------------------------------------------------------
(* A payment is credited once. *)

\* Only the commit of a callback writes the log.
LEMMA LogUntouched ==
    ASSUME [Next]_vars, ~\E w \in Workers : CommitCallback(w)
    PROVE  log' = log
  BY DEF Next, vars, rowVars, ProviderStep, Tick, Arrive, Continue, StartCheckout,
     RequestCancellation, DeliverCallback, ReuseCheckout, CreateCheckoutOrder,
     FindCheckoutOrder, FindSubscription, UnknownOrder, FindPaymentHistory,
     AnswerDuplicate, ReapplyStale, CommitCancellation, CancellationConflict,
     StopAccepted, StopUnconfirmed, ResolveUnsubscribeRequest, Abort

\* A commit adds one entry to the log, and a credited one only if the payment has
\* none yet (the credit index); nothing else writes the log.
LEMMA CreditedOnceStep == PaymentIsCreditedOnce /\ [Next]_vars => PaymentIsCreditedOnce'
<1> SUFFICES ASSUME PaymentIsCreditedOnce, [Next]_vars
             PROVE  PaymentIsCreditedOnce'
  OBVIOUS
<1>1. CASE \E w \in Workers : CommitCallback(w)
  <2>1. PICK w \in Workers : CommitCallback(w)
    BY <1>1
  <2> DEFINE c == op[w]
             entry == LogEntry(c)
  <2>2. /\ entry.order = c.event.order
        /\ entry.payment = c.event.payment
        /\ entry.credited = Credited(c)
    BY DEF LogEntry
  <2>3. log' = log \cup {entry} /\ ~Duplicate(c)
    BY <2>1 DEF CommitCallback
  <2>4. entry.credited =>
          \A l \in log : l.credited => l.order # entry.order \/ l.payment # entry.payment
    BY <2>2, <2>3 DEF Duplicate
  <2> HIDE DEF entry
  <2> QED
    BY <2>3, <2>4 DEF PaymentIsCreditedOnce
<1>2. CASE ~\E w \in Workers : CommitCallback(w)
  <2>1. log' = log
    BY <1>2, LogUntouched
  <2> QED
    BY <2>1 DEF PaymentIsCreditedOnce
<1> QED
  BY <1>1, <1>2

\* Whatever statuses LiqPay reports a payment under, and however often it delivers
\* them to however many concurrent requests, the payment is credited at most once.
THEOREM CreditedOnce == Spec => []PaymentIsCreditedOnce
<1>1. Init => PaymentIsCreditedOnce
  BY DEF Init, PaymentIsCreditedOnce
<1> QED
  BY <1>1, CreditedOnceStep, PTL DEF Spec

-----------------------------------------------------------------------------
(* What a worker read and no write has outdated is the row as it is. *)

Reading == {"matched", "judged", "canceling"}

Fresh ==
    \A w \in Workers :
      op[w].phase \in Reading /\ w \notin overtaken => op[w].seen = sub

\* After a step of w that lets go of its reading and leaves the row alone, or that
\* writes the row, the readings not outdated are of the row as it is.
LEMMA ReadingReleased ==
    ASSUME TypeOK, Fresh, NEW w \in Workers, NEW next,
           Run(w, next), next.phase \notin Reading,
           \/ sub' = sub /\ (RowUnread(w) \/ overtaken' = overtaken)
           \/ RowWritten(w)
    PROVE  Fresh'
<1> SUFFICES ASSUME NEW v \in Workers, op'[v].phase \in Reading, v \notin overtaken'
             PROVE  op'[v].seen = sub'
  BY DEF Fresh
<1>1. v # w /\ op'[v] = op[v]
  BY DEF Run, TypeOK
<1>2. v \in Readers(w)
  BY <1>1 DEF Readers, Reading
<1>3. sub' = sub /\ v \notin overtaken
  BY <1>1, <1>2 DEF RowWritten, RowUnread
<1> QED
  BY <1>1, <1>3 DEF Fresh

\* After a step of w that reads the row, or goes on with what it read.
LEMMA ReadingTaken ==
    ASSUME TypeOK, Fresh, NEW w \in Workers, NEW next, Run(w, next),
           next.seen = sub \/ (op[w].phase \in Reading /\ next.seen = op[w].seen),
           sub' = sub, overtaken' = overtaken
    PROVE  Fresh'
<1> SUFFICES ASSUME NEW v \in Workers, op'[v].phase \in Reading, v \notin overtaken'
             PROVE  op'[v].seen = sub'
  BY DEF Fresh
<1>1. CASE v = w
  <2>1. op'[v] = next
    BY <1>1 DEF Run, TypeOK
  <2> QED
    BY <1>1, <2>1 DEF Fresh
<1>2. CASE v # w
  <2>1. op'[v] = op[v]
    BY <1>2 DEF Run, TypeOK
  <2> QED
    BY <2>1 DEF Fresh
<1> QED
  BY <1>1, <1>2

\* The commit of a callback that decided nothing leaves the row alone.
LEMMA CommitLeavesRow ==
    ASSUME NEW w, CommitCallback(w), Decision(op[w]) = {}
    PROVE  sub' = sub
  BY DEF CommitCallback, UpdatedRow

\* A reading not overtaken stays equal to the row: whoever writes the row marks every
\* other reading of it as overtaken, and releases its own.
LEMMA FreshStep == TypeOK /\ Fresh /\ [Next]_vars => Fresh'
<1> SUFFICES ASSUME TypeOK, Fresh, [Next]_vars
             PROVE  Fresh'
  OBVIOUS
<1>1. ASSUME NEW w \in Workers, Arrive(w) \/ Continue(w)
      PROVE  Fresh'
  <2>1. CASE RequestCancellation(w) \/ FindSubscription(w) \/ FindPaymentHistory(w)
    <3>1. PICK next : /\ Run(w, next)
                      /\ next.seen = sub \/ (op[w].phase \in Reading /\ next.seen = op[w].seen)
      BY <2>1 DEF RequestCancellation, FindSubscription, FindPaymentHistory, Reading
    <3>2. sub' = sub /\ overtaken' = overtaken
      BY <2>1 DEF RequestCancellation, FindSubscription, FindPaymentHistory, rowVars
    <3> QED
      BY <3>1, <3>2, ReadingTaken
  <2>2. CASE ~(RequestCancellation(w) \/ FindSubscription(w) \/ FindPaymentHistory(w))
    <3>1. /\ Idle.phase \notin Reading
          /\ [phase |-> "offering"].phase \notin Reading
          /\ \A e, at, n : Received(e, at, n).phase \notin Reading
          /\ \A o : Stopping(o).phase \notin Reading /\ Stopped(o).phase \notin Reading
          /\ \A orders : StoppingAnyOf(orders).phase \notin Reading
      BY DEF Idle, Received, Stopping, Stopped, StoppingAnyOf, Reading
    <3>2. PICK next : Run(w, next) /\ next.phase \notin Reading
      BY <1>1, <2>2, <3>1 DEF Arrive, Continue, StartCheckout, DeliverCallback,
         ReuseCheckout, CreateCheckoutOrder, FindCheckoutOrder, UnknownOrder,
         AnswerDuplicate, ReapplyStale, CommitCallback, CommitCancellation,
         CancellationConflict, StopAccepted, StopUnconfirmed, ResolveUnsubscribeRequest,
         Abort, Reading
    <3>3. \/ sub' = sub /\ (RowUnread(w) \/ overtaken' = overtaken)
          \/ RowWritten(w)
      <4>1. CASE CommitCallback(w)
        BY <4>1, CommitLeavesRow DEF CommitCallback
      <4> QED
        BY <1>1, <2>2, <4>1 DEF Arrive, Continue, StartCheckout, DeliverCallback,
           ReuseCheckout, CreateCheckoutOrder, FindCheckoutOrder, UnknownOrder,
           AnswerDuplicate, ReapplyStale, CommitCancellation, CancellationConflict,
           StopAccepted, StopUnconfirmed, ResolveUnsubscribeRequest, Abort, rowVars
    <3> QED
      BY <3>2, <3>3, ReadingReleased
  <2> QED
    BY <2>1, <2>2
<1>2. CASE ProviderStep \/ Tick \/ UNCHANGED vars
  BY <1>2 DEF ProviderStep, Tick, vars, rowVars, Fresh
<1> QED
  BY <1>1, <1>2 DEF Next

\* The inductive invariant of the theorems below.
ReadingInv == TypeOK /\ Fresh

\* In every state the tables have their types, and a request whose updatedAt check
\* would succeed holds the row as it is.
THEOREM ReadingCorrect == Spec => []ReadingInv
<1>1. Init => ReadingInv
  BY InitTypes DEF Init, Fresh, ReadingInv, Idle, Reading
<1>2. ReadingInv /\ [Next]_vars => ReadingInv'
  BY NextTypes, FreshStep DEF ReadingInv
<1> QED
  BY <1>1, <1>2, PTL DEF Spec

\* A callback that is committed with a decision decided on the row as it is.
LEMMA CommitDecided ==
    ASSUME ReadingInv, NEW w \in Workers, CommitCallback(w),
           NEW t \in Decision(op[w])
    PROVE  LET c == op[w]
           IN  /\ c \in JudgedRequests
               /\ c.seen = sub
               /\ t \in TransitionForCallbackStatus(sub, c.event.status, c.now, IsNew(c))
               /\ t \in Transitions
               /\ sub' \in SubscriptionRows
               /\ sub'.status = t.status
               /\ sub'.grace = t.grace
               /\ sub'.period = t.period
               /\ sub'.cancelRequested = t.cancelRequested
               /\ sub'.exempt = sub.exempt
               /\ sub'.restrictAfter = sub.restrictAfter
               /\ sub'.order = IF TakesOver(c) THEN c.event.order ELSE sub.order
<1> DEFINE c == op[w]
<1>1. c \in JudgedRequests
  BY PhaseType DEF ReadingInv, TypeOK, CommitCallback
<1>2. c.seen = sub
  BY DEF ReadingInv, Fresh, CommitCallback, Stale, Reading
<1>3. sub \in SubscriptionRows /\ sub' = UpdatedRow(c)
  BY DEF ReadingInv, TypeOK, CommitCallback
<1> QED
  BY <1>1, <1>2, <1>3, JudgedDecision, UpdatedRowType

\* An owner's cancellation is committed on the row as it is, and keeps its order and
\* its paid period.
LEMMA CancellationCommitted ==
    ASSUME ReadingInv, NEW w \in Workers, CommitCancellation(w)
    PROVE  LET t == CancellationTransition(sub, op[w].now)
           IN  /\ op[w].now \in Nat /\ t \in Transitions
               /\ sub'.order = sub.order
               /\ sub'.status = t.status
               /\ sub'.grace = t.grace
               /\ sub'.period = sub.period
               /\ sub'.cancelRequested
               /\ sub'.exempt = sub.exempt
               /\ sub'.restrictAfter = sub.restrictAfter
<1> DEFINE t == CancellationTransition(sub, op[w].now)
<1>1. /\ op[w].seen \in SubscriptionRows /\ op[w].now \in Nat
      /\ sub \in SubscriptionRows
  BY PhaseType DEF ReadingInv, TypeOK, CommitCancellation, CancelRequests
<1>2. op[w].seen = sub
  BY DEF ReadingInv, Fresh, CommitCancellation, Reading
<1>3. t \in Transitions /\ t.cancelRequested /\ t.period = sub.period
  BY <1>1, CancellationType
<1>4. sub' = Merge(sub, t)
  BY <1>2 DEF CommitCancellation
<1> HIDE DEF t
<1>5. /\ sub'.order = sub.order
      /\ sub'.status = t.status
      /\ sub'.grace = t.grace
      /\ sub'.period = sub.period
      /\ sub'.cancelRequested
      /\ sub'.exempt = sub.exempt
      /\ sub'.restrictAfter = sub.restrictAfter
  BY <1>1, <1>3, <1>4, MergeType
<1> QED
  BY <1>1, <1>3, <1>5 DEF t

\* A new checkout decides only when it is paid, and takes over when it does.
LEMMA NewCheckoutDecides ==
    ASSUME NEW c \in JudgedRequests, IsNew(c), NEW t \in Decision(c)
    PROVE  /\ Outcome(c) = "paid"
           /\ t.status = "ACTIVE" /\ ~t.cancelRequested
           /\ PaysCheckout(c) /\ TakesOver(c)
           /\ c.checkout = "PROPOSED" /\ c.seen.order # c.event.order
<1>1. /\ c.seen \in SubscriptionRows /\ c.now \in Nat
      /\ IsNew(c) \in BOOLEAN
      /\ t \in TransitionForCallbackStatus(c.seen, c.event.status, c.now, IsNew(c))
  BY JudgedDecision DEF JudgedRequests, IsNew
<1>2. Outcome(c) = "paid" /\ t = PaidTransition(c.seen, c.now, IsNew(c))
  BY <1>1, DecisionType DEF Outcome
<1>3. t.status = "ACTIVE" /\ ~t.cancelRequested
  BY <1>1, <1>2, PaidType
<1>4. c.checkout = "PROPOSED" /\ c.seen.order # c.event.order
  <2>1. c.checkout \in CheckoutStatuses
    BY DEF JudgedRequests
  <2> QED
    BY <2>1 DEF IsNew, Role, CallbackRole, CheckoutStatuses
<1> QED
  BY <1>2, <1>3, <1>4 DEF PaysCheckout, Activated, TakesOver

\* Every other step leaves the row alone, pays no checkout and forgets no request.
LEMMA RowUntouched ==
    ASSUME TypeOK, [Next]_vars,
           ~\E w \in Workers : CommitCallback(w) \/ CommitCancellation(w)
    PROVE  /\ sub' = sub
           /\ \A o \in Orders : checkouts'[o] = "PAID" => checkouts[o] = "PAID"
           /\ \A o \in Orders : requests[o] # "none" => requests'[o] # "none"
<1>1. sub' = sub
  BY DEF Next, vars, rowVars, ProviderStep, Tick, Arrive, Continue, StartCheckout,
     RequestCancellation, DeliverCallback, ReuseCheckout, CreateCheckoutOrder,
     FindCheckoutOrder, FindSubscription, UnknownOrder, FindPaymentHistory,
     AnswerDuplicate, ReapplyStale, CancellationConflict, StopAccepted,
     StopUnconfirmed, ResolveUnsubscribeRequest, Abort
<1>2. CASE \E w \in Workers : CreateCheckoutOrder(w)
  BY <1>1, <1>2 DEF CreateCheckoutOrder, TypeOK
<1>3. CASE \E w \in Workers : ResolveUnsubscribeRequest(w)
  BY <1>1, <1>3 DEF ResolveUnsubscribeRequest, ResolveUnsubscribe, TypeOK
<1>4. CASE ~\E w \in Workers : CreateCheckoutOrder(w) \/ ResolveUnsubscribeRequest(w)
  <2>1. checkouts' = checkouts /\ requests' = requests
    BY <1>4 DEF Next, vars, rowVars, ProviderStep, Tick, Arrive, Continue, StartCheckout,
       RequestCancellation, DeliverCallback, ReuseCheckout,
       FindCheckoutOrder, FindSubscription, UnknownOrder, FindPaymentHistory,
       AnswerDuplicate, ReapplyStale, CancellationConflict, StopAccepted,
       StopUnconfirmed, Abort
  <2> QED
    BY <1>1, <2>1
<1> QED
  BY <1>2, <1>3, <1>4

-----------------------------------------------------------------------------
(* Superseded orders, renewals and credits. *)

\* The swap of the live order queues the one it replaces in the same transaction, and
\* no request is ever removed from the queue.
LEMMA SupersededStep ==
    ReadingInv /\ SupersededOrderIsQueued /\ [Next]_vars => SupersededOrderIsQueued'
<1> SUFFICES ASSUME ReadingInv, SupersededOrderIsQueued, [Next]_vars
             PROVE  SupersededOrderIsQueued'
  OBVIOUS
<1>1. ASSUME NEW w \in Workers, CommitCallback(w)
      PROVE  SupersededOrderIsQueued'
  <2> DEFINE c == op[w]
  <2> SUFFICES ASSUME NEW o \in Orders, checkouts'[o] = "PAID", o # sub'.order
               PROVE  requests'[o] # "none"
    BY DEF SupersededOrderIsQueued
  <2>1. c \in JudgedRequests /\ c.event.order \in Orders
    BY <1>1, PhaseType DEF ReadingInv, TypeOK, CommitCallback, JudgedRequests, Events
  <2>2. requests[o] # "none" => requests'[o] # "none"
    BY <1>1, <2>1 DEF CommitCallback, QueueUnsubscribe, ResolveUnsubscribe, ReadingInv, TypeOK
  <2>3. checkouts[o] = "PAID" \/ (PaysCheckout(c) /\ o = c.event.order)
    BY <1>1, <2>1 DEF CommitCallback, AbandonProposed, ReadingInv, TypeOK
  <2>4. CASE PaysCheckout(c)
    <3>1. IsNew(c) /\ \E t \in Decision(c) : t.status = "ACTIVE"
      BY <2>4 DEF PaysCheckout, Activated
    <3>2. PICK t \in Decision(c) : TRUE
      BY <3>1
    <3>3. TakesOver(c) /\ Outcome(c) = "paid" /\ c.seen.order # c.event.order
      BY <2>1, <3>1, <3>2, NewCheckoutDecides
    <3>4. c.seen = sub /\ sub'.order = c.event.order
      BY <1>1, <3>2, <3>3, CommitDecided
    <3>5. CASE o = sub.order
      <4>1. ~Blocked(c) /\ Role(c) # "retired-checkout"
        BY <2>1, <3>2, JudgedDecision
      <4>2. OrderToStop(c) = {c.seen.order} \ {NoOrder, c.event.order}
        BY <2>4, <3>1, <3>3, <4>1 DEF OrderToStop, PaysCheckout
      <4>3. o \in OrderToStop(c)
        BY <3>4, <3>5, <4>2, OrderAssumption
      <4> QED
        BY <1>1, <4>3 DEF CommitCallback, QueueUnsubscribe
    <3>6. CASE o # sub.order
      BY <2>2, <2>3, <3>4, <3>6 DEF SupersededOrderIsQueued
    <3> QED
      BY <3>5, <3>6
  <2>5. CASE ~PaysCheckout(c)
    <3>1. sub'.order = sub.order
      <4>1. CASE Decision(c) = {}
        BY <1>1, <4>1, CommitLeavesRow
      <4>2. CASE Decision(c) # {}
        <5>1. PICK t \in Decision(c) : TRUE
          BY <4>2
        <5>2. ~TakesOver(c)
          BY <2>5 DEF PaysCheckout, TakesOver, Activated
        <5> QED
          BY <1>1, <5>1, <5>2, CommitDecided
      <4> QED
        BY <4>1, <4>2
    <3> QED
      BY <2>2, <2>3, <2>5, <3>1 DEF SupersededOrderIsQueued
  <2> QED
    BY <2>4, <2>5
<1>2. ASSUME NEW w \in Workers, CommitCancellation(w)
      PROVE  SupersededOrderIsQueued'
  <2>1. sub'.order = sub.order
    BY <1>2, CancellationCommitted
  <2>2. \A o \in Orders : /\ checkouts'[o] = "PAID" => checkouts[o] = "PAID"
                          /\ requests[o] # "none" => requests'[o] # "none"
    BY <1>2 DEF CommitCancellation, AbandonProposed, QueueUnsubscribe, ReadingInv, TypeOK
  <2> QED
    BY <2>1, <2>2 DEF SupersededOrderIsQueued
<1>3. CASE ~\E w \in Workers : CommitCallback(w) \/ CommitCancellation(w)
  BY <1>3, RowUntouched DEF SupersededOrderIsQueued, ReadingInv
<1> QED
  BY <1>1, <1>2, <1>3

\* However callbacks, cancellations and checkouts cross, an order that was live and
\* was replaced has had a request to stop it queued.
THEOREM SupersededQueued == Spec => []SupersededOrderIsQueued
<1>1. Init => SupersededOrderIsQueued
  BY DEF Init, SupersededOrderIsQueued
<1> QED
  BY <1>1, SupersededStep, ReadingCorrect, PTL DEF Spec

\* A step that ends a cancellation is the commit of a paid new checkout.
LEMMA RenewalStep ==
    ASSUME ReadingInv, [Next]_vars, sub.cancelRequested, ~sub'.cancelRequested
    PROVE  /\ sub'.order # sub.order
           /\ checkouts[sub'.order] = "PROPOSED"
           /\ checkouts'[sub'.order] = "PAID"
<1>1. ASSUME NEW w \in Workers, CommitCallback(w)
      PROVE  /\ sub'.order # sub.order
             /\ checkouts[sub'.order] = "PROPOSED"
             /\ checkouts'[sub'.order] = "PAID"
  <2> DEFINE c == op[w]
  <2>1. PICK t \in Decision(c) : TRUE
    BY <1>1, CommitLeavesRow
  <2>2. /\ c \in JudgedRequests /\ c.seen = sub
        /\ t \in TransitionForCallbackStatus(sub, c.event.status, c.now, IsNew(c))
        /\ sub'.cancelRequested = t.cancelRequested
        /\ sub'.order = IF TakesOver(c) THEN c.event.order ELSE sub.order
    BY <1>1, <2>1, CommitDecided
  <2>3. IsNew(c)
    <3>1. sub \in SubscriptionRows /\ c.now \in Nat /\ IsNew(c) \in BOOLEAN
      BY <2>2 DEF ReadingInv, TypeOK, JudgedRequests, IsNew
    <3> QED
      BY <2>2, <3>1, DecisionType
  <2>4. TakesOver(c) /\ PaysCheckout(c) /\ c.seen.order # c.event.order
    BY <2>1, <2>2, <2>3, NewCheckoutDecides
  <2>5. checkouts[c.event.order] = "PROPOSED"
    BY <1>1, <2>4 DEF CommitCallback, Stale, ClosesCheckout
  <2>6. checkouts'[c.event.order] = "PAID"
    BY <1>1, <2>2, <2>4 DEF CommitCallback, AbandonProposed, ReadingInv, TypeOK,
       JudgedRequests, Events
  <2> QED
    BY <2>2, <2>4, <2>5, <2>6
<1>2. ASSUME NEW w \in Workers, CommitCancellation(w)
      PROVE  FALSE
  BY <1>2, CancellationCommitted
<1> QED
  BY <1>1, <1>2, RowUntouched DEF ReadingInv

\* Nothing but a checkout the organization paid for ends a cancellation.
THEOREM OnlyCheckoutRenews == Spec => OnlyNewCheckoutRenews
<1>1. ReadingInv /\ [Next]_vars =>
        [sub.cancelRequested /\ ~sub'.cancelRequested =>
           /\ sub'.order # sub.order
           /\ checkouts[sub'.order] = "PROPOSED" /\ checkouts'[sub'.order] = "PAID"]_vars
  BY RenewalStep
<1> QED
  BY <1>1, ReadingCorrect, PTL DEF Spec, OnlyNewCheckoutRenews

\* What a committed callback credits is its own entry, or nothing.
LEMMA CreditsOfCommit ==
    ASSUME NEW w \in Workers, CommitCallback(w)
    PROVE  CreditedNow = IF Credited(op[w]) THEN {LogEntry(op[w])} ELSE {}
<1> DEFINE c == op[w]
           entry == LogEntry(c)
<1>1. /\ entry.order = c.event.order
      /\ entry.payment = c.event.payment
      /\ entry.status = c.event.status
      /\ entry.credited = Credited(c)
  BY DEF LogEntry
<1>2. log' = log \cup {entry} /\ entry \notin log
  BY <1>1 DEF CommitCallback, Duplicate
<1> HIDE DEF entry
<1>3. CreditedNow = IF entry.credited THEN {entry} ELSE {}
  BY <1>2 DEF CreditedNow, CreditedIn
<1> QED
  BY <1>1, <1>3 DEF entry

\* A step credits at most one payment, and then adds at least a month to the paid
\* period as it is; a step that credits none leaves the period alone.
LEMMA CreditStep ==
    ASSUME ReadingInv, [Next]_vars
    PROVE  IF CreditedNow = {}
           THEN sub'.period = sub.period
           ELSE Cardinality(CreditedNow) = 1 /\ sub'.period >= sub.period + Month
<1> DEFINE Good == IF CreditedNow = {}
                   THEN sub'.period = sub.period
                   ELSE Cardinality(CreditedNow) = 1 /\ sub'.period >= sub.period + Month
<1>1. ASSUME NEW w \in Workers, CommitCallback(w)
      PROVE  Good
  <2> DEFINE c == op[w]
  <2>1. CreditedNow = IF Credited(c) THEN {LogEntry(c)} ELSE {}
    BY <1>1, CreditsOfCommit
  <2>2. CASE Decision(c) = {}
    BY <1>1, <2>1, <2>2, CommitLeavesRow DEF Credited
  <2>3. CASE Decision(c) # {}
    <3>1. PICK t \in Decision(c) : TRUE
      BY <2>3
    <3>2. /\ c \in JudgedRequests
          /\ t \in TransitionForCallbackStatus(sub, c.event.status, c.now, IsNew(c))
          /\ sub'.period = t.period
      BY <1>1, <3>1, CommitDecided
    <3>3. sub \in SubscriptionRows /\ c.now \in Nat /\ IsNew(c) \in BOOLEAN
      BY <3>2 DEF ReadingInv, TypeOK, JudgedRequests, IsNew
    <3>4. CASE Outcome(c) = "paid"
      <4>1. t.period >= sub.period + Month
        <5>1. t = PaidTransition(sub, c.now, IsNew(c))
          BY <3>2, <3>3, <3>4, DecisionType DEF Outcome
        <5> QED
          BY <3>3, <5>1, PaidType
      <4>2. Cardinality({LogEntry(c)}) = 1
        BY FS_Singleton
      <4> QED
        BY <2>1, <2>3, <3>2, <3>4, <4>1, <4>2 DEF Credited
    <3>5. CASE Outcome(c) # "paid"
      <4>1. t.period = sub.period
        BY <3>2, <3>3, <3>5, DecisionType DEF Outcome
      <4> QED
        BY <2>1, <3>2, <3>5, <4>1 DEF Credited
    <3> QED
      BY <3>4, <3>5
  <2> QED
    BY <2>2, <2>3
<1>2. CASE ~\E w \in Workers : CommitCallback(w)
  <2>1. CreditedNow = {}
    BY <1>2, LogUntouched DEF CreditedNow
  <2>2. ASSUME NEW w \in Workers, CommitCancellation(w)
        PROVE  sub'.period = sub.period
    BY <2>2, CancellationCommitted
  <2> QED
    BY <1>2, <2>1, <2>2, RowUntouched DEF ReadingInv
<1> QED
  BY <1>1, <1>2

\* No charge recorded as paid is lost, and none is paid for twice.
THEOREM CreditsAddMonths == Spec => EveryCreditAddsAMonth
<1>1. ReadingInv /\ [Next]_vars =>
        [IF CreditedNow = {}
         THEN sub'.period = sub.period
         ELSE Cardinality(CreditedNow) = 1 /\ sub'.period >= sub.period + Month]_vars
  BY CreditStep
<1> QED
  BY <1>1, ReadingCorrect, PTL DEF Spec, EveryCreditAddsAMonth
-----------------------------------------------------------------------------
(* Every order LiqPay charges is the live order or queued to be stopped.     *)

Callbacks == {"received", "located", "matched", "judged"}

\* The orders that are the live order, or once were: a checkout that was paid, or a
\* legacy order, which has no checkout and charges from the start.
WasLive(o) ==
    \/ checkouts[o] = "PAID"
    \/ checkouts[o] = "NONE" /\ recurring[o] # "idle"

LiveOrderWasLive == sub.order # NoOrder => WasLive(sub.order)

\* What is on record about an order happened at LiqPay.
ChargesHappened ==
    /\ \A e \in sent : /\ e.status \in PaidStatuses => recurring[e.order] # "idle"
                       /\ e.status = "unsubscribed" => recurring[e.order] = "stopped"
    /\ \A l \in log : l.status \in PaidStatuses => recurring[l.order] # "idle"
    /\ \A o \in Orders : checkouts[o] = "PAID" => recurring[o] # "idle"

\* What the requests hold is what LiqPay sent and what the tables once said.
RequestsAreTrue ==
    \A w \in Workers :
      /\ op[w].phase \in Callbacks => op[w].event \in sent
      /\ op[w].phase \in {"matched", "judged"} /\ op[w].checkout = "NONE" =>
           op[w].seen.order = op[w].event.order
      /\ op[w].phase \in Reading /\ op[w].seen.order # NoOrder => WasLive(op[w].seen.order)
      /\ op[w].phase = "stopping" => recurring[op[w].order] # "idle"
      /\ op[w].phase = "stopped" => recurring[op[w].order] = "stopped"

Tracked(o) == requests[o] = "open" \/ (sub.order = o /\ CanRequestCancellation(sub))

ChargingIsTracked ==
    \A o \in Orders :
      recurring[o] = "charging" /\ (WasLive(o) \/ ChargeRecorded(o)) => Tracked(o)

\* The inductive invariant: an order that was live once and still charges is tracked,
\* whether or not a charge of it was recorded.
TrackInv ==
    ReadingInv /\ LiveOrderWasLive /\ ChargesHappened /\ RequestsAreTrue /\ ChargingIsTracked

\* The order of a callback, of a log entry and of a request are orders.
LEMMA OrdersOfRequests ==
    ASSUME TypeOK, NEW w \in Workers
    PROVE  /\ op[w].phase \in Callbacks => op[w].event \in Events /\ op[w].event.order \in Orders
           /\ op[w].phase \in Reading => op[w].seen \in SubscriptionRows
           /\ op[w].phase \in {"stopping", "stopped"} => op[w].order \in Orders
<1>1. op[w] \in Requests
  BY DEF TypeOK
<1> QED
  BY <1>1, PhaseType DEF Callbacks, Reading, ReceivedRequests, LocatedRequests,
     MatchedRequests, JudgedRequests, CancelRequests, StopRequests, Events

\* LiqPay's own steps: what was charged stays charged or is stopped, what is stopped
\* stays stopped, and no report is taken back.
LEMMA ProviderMoves ==
    ASSUME TypeOK, NEW o \in Orders,
           PayCheckout(o) \/ Decline(o) \/ ChargeAgain(o) \/ TakeBack(o) \/ Unsubscribe(o)
    PROVE  /\ sent \subseteq sent'
           /\ \A p \in Orders :
                /\ recurring[p] # "idle" => recurring'[p] # "idle"
                /\ recurring[p] = "stopped" => recurring'[p] = "stopped"
                /\ recurring'[p] # recurring[p] =>
                     p = o /\ (PayCheckout(o) \/ recurring'[p] = "stopped")
  BY DEF TypeOK, PayCheckout, Decline, ChargeAgain, TakeBack, Unsubscribe, Happens

\* Only LiqPay itself, and the requests to stop an order, change anything there.
LEMMA ProviderUntouched ==
    ASSUME [Next]_vars, ~ProviderStep,
           ~\E w \in Workers : StopAccepted(w) \/ StopUnconfirmed(w)
    PROVE  UNCHANGED liqPayVars
  BY DEF Next, vars, Tick, Arrive, Continue, StartCheckout,
         RequestCancellation, DeliverCallback, ReuseCheckout, CreateCheckoutOrder,
         FindCheckoutOrder, FindSubscription, UnknownOrder, FindPaymentHistory,
         AnswerDuplicate, ReapplyStale, CommitCallback, CommitCancellation,
         CancellationConflict, ResolveUnsubscribeRequest, Abort

\* What may become of LiqPay's charges in a step of the system: a request only ever
\* stops an order, and LiqPay starts to charge one only when its checkout is paid.
LEMMA RecurringMoves ==
    ASSUME TypeOK, [Next]_vars
    PROVE  /\ sent \subseteq sent'
           /\ \A p \in Orders :
                /\ recurring[p] # "idle" => recurring'[p] # "idle"
                /\ recurring[p] = "stopped" => recurring'[p] = "stopped"
                /\ recurring'[p] = "charging" /\ recurring[p] # "charging" =>
                     /\ recurring[p] = "idle" /\ checkouts[p] # "NONE"
                     /\ UNCHANGED rowVars
<1>1. CASE ProviderStep
  <2>1. PICK o \in Orders :
          \/ checkouts[o] # "NONE" /\ PayCheckout(o)
          \/ Decline(o) \/ ChargeAgain(o) \/ TakeBack(o) \/ Unsubscribe(o)
    BY <1>1 DEF ProviderStep
  <2>2. PayCheckout(o) => recurring[o] = "idle"
    BY DEF PayCheckout
  <2>3. PayCheckout(o) \/ Decline(o) \/ ChargeAgain(o) \/ TakeBack(o) \/ Unsubscribe(o)
    BY <2>1
  <2>4. recurring'[o] = "charging" /\ recurring[o] # "charging" => checkouts[o] # "NONE"
    BY <2>1 DEF Decline, ChargeAgain, TakeBack, Unsubscribe, TypeOK
  <2> QED
    BY <1>1, <2>2, <2>3, <2>4, ProviderMoves DEF ProviderStep
<1>2. CASE \E w \in Workers : StopAccepted(w) \/ StopUnconfirmed(w)
  <2>1. PICK w \in Workers : StopAccepted(w) \/ StopUnconfirmed(w)
    BY <1>2
  <2>2. op[w].order \in Orders
    BY <2>1, OrdersOfRequests DEF StopAccepted, StopUnconfirmed
  <2>3. Unsubscribe(op[w].order) \/ UNCHANGED liqPayVars
    BY <2>1 DEF StopAccepted, StopUnconfirmed
  <2>4. CASE Unsubscribe(op[w].order)
    <3>1. ~PayCheckout(op[w].order)
      BY <2>4 DEF Unsubscribe, PayCheckout
    <3> QED
      BY <2>2, <2>4, <3>1, ProviderMoves
  <2>5. CASE UNCHANGED liqPayVars
    BY <2>5 DEF liqPayVars
  <2> QED
    BY <2>3, <2>4, <2>5
<1>3. CASE /\ ~ProviderStep
           /\ ~\E w \in Workers : StopAccepted(w) \/ StopUnconfirmed(w)
  <2>1. UNCHANGED liqPayVars
    BY <1>3, ProviderUntouched
  <2> QED
    BY <2>1 DEF liqPayVars
<1> QED
  BY <1>1, <1>2, <1>3

\* A callback's commit closes only a checkout that is still proposed, and pays only
\* the one it is about.
LEMMA CheckoutsOfCommit ==
    ASSUME TypeOK, NEW w \in Workers, CommitCallback(w), NEW o \in Orders
    PROVE  /\ checkouts[o] \in {"NONE", "PAID"} => checkouts'[o] = checkouts[o]
           /\ checkouts[o] \notin {"NONE", "PAID"} => checkouts'[o] # "NONE"
           /\ checkouts'[o] = "PAID" /\ checkouts[o] # "PAID" =>
                o = op[w].event.order /\ PaysCheckout(op[w])
<1> DEFINE c == op[w]
<1>1. c.event.order \in Orders
  BY OrdersOfRequests DEF CommitCallback, Callbacks
<1>2. ClosesCheckout(c) => checkouts[c.event.order] = "PROPOSED"
  BY DEF CommitCallback, Stale
<1> QED
  BY <1>1, <1>2 DEF CommitCallback, ClosesCheckout, AbandonProposed, TypeOK, CheckoutStatuses

\* Only the commits and the offer of a checkout write the checkouts.
LEMMA CheckoutsUntouched ==
    ASSUME [Next]_vars,
           ~\E w \in Workers :
              CommitCallback(w) \/ CommitCancellation(w) \/ CreateCheckoutOrder(w)
    PROVE  checkouts' = checkouts
  BY DEF Next, vars, rowVars, ProviderStep, Tick, Arrive, Continue, StartCheckout,
         RequestCancellation, DeliverCallback, ReuseCheckout,
         FindCheckoutOrder, FindSubscription, UnknownOrder, FindPaymentHistory,
         AnswerDuplicate, ReapplyStale, CancellationConflict, StopAccepted,
         StopUnconfirmed, ResolveUnsubscribeRequest, Abort

\* Only the commits and a confirmed stop write the queue.
LEMMA QueueUntouched ==
    ASSUME [Next]_vars,
           ~\E w \in Workers :
              CommitCallback(w) \/ CommitCancellation(w) \/ ResolveUnsubscribeRequest(w)
    PROVE  requests' = requests
  BY DEF Next, vars, rowVars, ProviderStep, Tick, Arrive, Continue, StartCheckout,
         RequestCancellation, DeliverCallback, ReuseCheckout, CreateCheckoutOrder,
         FindCheckoutOrder, FindSubscription, UnknownOrder, FindPaymentHistory,
         AnswerDuplicate, ReapplyStale, CancellationConflict, StopAccepted,
         StopUnconfirmed, Abort

\* An order never loses its past: once live, it was live from then on.
LEMMA WasLiveStays ==
    ASSUME TypeOK, [Next]_vars, NEW o \in Orders, WasLive(o)
    PROVE  WasLive(o)'
<1>1. recurring[o] # "idle" => recurring'[o] # "idle"
  BY RecurringMoves
<1>2. checkouts'[o] = checkouts[o]
  <2>1. CASE \E w \in Workers : CommitCallback(w)
    BY <2>1, CheckoutsOfCommit DEF WasLive
  <2>2. CASE \E w \in Workers : CommitCancellation(w)
    BY <2>2 DEF CommitCancellation, AbandonProposed, TypeOK, WasLive
  <2>3. CASE \E w \in Workers : CreateCheckoutOrder(w)
    BY <2>3 DEF CreateCheckoutOrder, TypeOK, WasLive
  <2>4. CASE ~\E w \in Workers :
               CommitCallback(w) \/ CommitCancellation(w) \/ CreateCheckoutOrder(w)
    BY <2>4, CheckoutsUntouched
  <2> QED
    BY <2>1, <2>2, <2>3, <2>4
<1> QED
  BY <1>1, <1>2 DEF WasLive

\* A new report of LiqPay's is of something that has just happened there.
LEMMA NewReports ==
    ASSUME TypeOK, [Next]_vars, NEW e \in sent', e \notin sent
    PROVE  /\ e.status \in PaidStatuses => recurring'[e.order] # "idle"
           /\ e.status = "unsubscribed" => recurring'[e.order] = "stopped"
<1>1. PICK o \in Orders :
        PayCheckout(o) \/ Decline(o) \/ ChargeAgain(o) \/ TakeBack(o) \/ Unsubscribe(o)
  <2>1. CASE ProviderStep
    BY <2>1 DEF ProviderStep
  <2>2. CASE \E w \in Workers : StopAccepted(w) \/ StopUnconfirmed(w)
    <3>1. PICK w \in Workers : StopAccepted(w) \/ StopUnconfirmed(w)
      BY <2>2
    <3>2. op[w].order \in Orders
      BY <3>1, OrdersOfRequests DEF StopAccepted, StopUnconfirmed
    <3>3. Unsubscribe(op[w].order)
      BY <3>1 DEF StopAccepted, StopUnconfirmed, liqPayVars
    <3> QED
      BY <3>2, <3>3
  <2>3. CASE /\ ~ProviderStep
             /\ ~\E w \in Workers : StopAccepted(w) \/ StopUnconfirmed(w)
    <3>1. UNCHANGED liqPayVars
      BY <2>3, ProviderUntouched
    <3> QED
      BY <3>1 DEF liqPayVars
  <2> QED
    BY <2>1, <2>2, <2>3
<1>2. CASE PayCheckout(o) \/ ChargeAgain(o)
  <2>1. PICK match \in Sums, s \in PaidReports : e = Report(o, clock + 1, s, match)
    BY <1>2 DEF PayCheckout, ChargeAgain, Happens
  <2>2. e.order = o /\ e.status # "unsubscribed"
    BY <2>1, ReportAssumption DEF Report
  <2>3. recurring'[o] # "idle"
    BY <1>2 DEF PayCheckout, ChargeAgain, TypeOK
  <2> QED
    BY <2>2, <2>3
<1>3. CASE Decline(o)
  <2>1. e.status = "failure"
    BY <1>3 DEF Decline, Happens, Report
  <2> QED
    BY <2>1 DEF PaidStatuses
<1>4. CASE TakeBack(o)
  <2>1. e.status = "reversed"
    BY <1>4 DEF TakeBack, Happens, Report
  <2> QED
    BY <2>1 DEF PaidStatuses
<1>5. CASE Unsubscribe(o)
  <2>1. e.status = "unsubscribed" /\ e.order = o
    BY <1>5 DEF Unsubscribe, Happens, Report
  <2> QED
    BY <1>5, <2>1 DEF PaidStatuses, Unsubscribe, TypeOK
<1> QED
  BY <1>1, <1>2, <1>3, <1>4, <1>5

\* The order a commit queues was charged once: its own, of a paid callback, or the live
\* one it saw.
LEMMA StoppedWasCharged ==
    ASSUME TrackInv, NEW w \in Workers, op[w].phase = "judged", NEW o \in OrderToStop(op[w])
    PROVE  o \in Orders /\ recurring[o] # "idle"
<1> DEFINE c == op[w]
<1>1. c \in JudgedRequests /\ c.event \in sent
  BY PhaseType DEF TrackInv, ReadingInv, TypeOK, RequestsAreTrue, Callbacks
<1>2. o \in Orders
  BY <1>1, OrderToStopType
<1>3. \/ o = c.event.order /\ Outcome(c) = "paid"
      \/ o = c.seen.order /\ o # NoOrder
  BY DEF OrderToStop
<1>4. CASE o = c.event.order /\ Outcome(c) = "paid"
  <2>1. c.event.status \in PaidStatuses
    BY <1>4 DEF Outcome, ClassifyCallbackStatus, PaidStatuses, CanceledStatuses, FailedStatuses
  <2> QED
    BY <1>1, <1>2, <1>4, <2>1 DEF TrackInv, ChargesHappened
<1>5. CASE o = c.seen.order /\ o # NoOrder
  BY <1>2, <1>5 DEF TrackInv, RequestsAreTrue, Reading, WasLive, ChargesHappened
<1> QED
  BY <1>3, <1>4, <1>5

\* What happened at LiqPay stays so, and the log and the paid checkouts of a commit are
\* those of a callback that is true.
LEMMA ChargesHappenedStep == TrackInv /\ [Next]_vars => ChargesHappened'
<1> SUFFICES ASSUME TrackInv, [Next]_vars
             PROVE  ChargesHappened'
  OBVIOUS
<1>1. TypeOK /\ ChargesHappened
  BY DEF TrackInv, ReadingInv
<1>2. /\ \A p \in Orders : recurring[p] # "idle" => recurring'[p] # "idle"
      /\ \A p \in Orders : recurring[p] = "stopped" => recurring'[p] = "stopped"
  BY <1>1, RecurringMoves
<1>3. /\ \A e \in sent : e.order \in Orders
      /\ \A l \in log : l.order \in Orders
  BY <1>1 DEF TypeOK, Events, LogEntries
<1>4. ASSUME NEW e \in sent'
      PROVE  /\ e.status \in PaidStatuses => recurring'[e.order] # "idle"
             /\ e.status = "unsubscribed" => recurring'[e.order] = "stopped"
  <2>1. CASE e \in sent
    BY <1>1, <1>2, <1>3, <2>1 DEF ChargesHappened
  <2>2. CASE e \notin sent
    BY <1>1, <2>2, NewReports
  <2> QED
    BY <2>1, <2>2
<1>5. /\ \A l \in log' : l.status \in PaidStatuses => recurring'[l.order] # "idle"
      /\ \A o \in Orders : checkouts'[o] = "PAID" => recurring'[o] # "idle"
  <2>1. CASE \E w \in Workers : CommitCallback(w)
    <3>1. PICK w \in Workers : CommitCallback(w)
      BY <2>1
    <3> DEFINE c == op[w]
    <3>2. /\ c \in JudgedRequests /\ c.event \in sent /\ c.event.order \in Orders
          /\ c.phase = "judged"
      BY <1>1, <3>1, PhaseType DEF TypeOK, CommitCallback, TrackInv, RequestsAreTrue,
         Callbacks, JudgedRequests, Events
    <3>3. ASSUME NEW l \in log', l.status \in PaidStatuses
          PROVE  recurring'[l.order] # "idle"
      <4>1. l \in log \/ (l.order = c.event.order /\ l.status = c.event.status)
        BY <3>1, <3>3 DEF CommitCallback, LogEntry
      <4> QED
        BY <1>1, <1>2, <1>3, <3>2, <3>3, <4>1 DEF ChargesHappened
    <3>4. ASSUME NEW o \in Orders, checkouts'[o] = "PAID"
          PROVE  recurring'[o] # "idle"
      <4>1. checkouts[o] = "PAID" \/ (o = c.event.order /\ PaysCheckout(c))
        BY <1>1, <3>1, <3>4, CheckoutsOfCommit
      <4>2. PaysCheckout(c) => Outcome(c) = "paid"
        BY <3>2, NewCheckoutDecides DEF PaysCheckout, Activated
      <4>3. Outcome(c) = "paid" => c.event.status \in PaidStatuses
        BY DEF Outcome, ClassifyCallbackStatus, PaidStatuses, CanceledStatuses, FailedStatuses
      <4> QED
        BY <1>1, <1>2, <3>2, <4>1, <4>2, <4>3 DEF ChargesHappened
    <3> QED
      BY <3>3, <3>4
  <2>2. CASE ~\E w \in Workers : CommitCallback(w)
    <3>1. log' = log
      BY <2>2, LogUntouched
    <3>2. \A o \in Orders : checkouts'[o] = "PAID" => checkouts[o] = "PAID"
      <4>1. CASE \E w \in Workers : CommitCancellation(w)
        BY <1>1, <4>1 DEF CommitCancellation, AbandonProposed, TypeOK
      <4> QED
        BY <1>1, <2>2, <4>1, RowUntouched
    <3> QED
      BY <1>1, <1>2, <1>3, <3>1, <3>2 DEF ChargesHappened
  <2> QED
    BY <2>1, <2>2
<1> QED
  BY <1>4, <1>5 DEF ChargesHappened

\* After a step of w, when what it goes on with is true and nothing true became false.
LEMMA TrueRequestRuns ==
    ASSUME TrackInv, [Next]_vars, NEW w \in Workers, NEW next, Run(w, next),
           next.phase \in Callbacks => next.event \in sent',
           next.phase \in {"matched", "judged"} /\ next.checkout = "NONE" =>
             next.seen.order = next.event.order,
           next.phase \in Reading /\ next.seen.order # NoOrder =>
             next.seen.order \in Orders /\ WasLive(next.seen.order),
           next.phase \in {"stopping", "stopped"} =>
             next.order \in Orders /\ recurring'[next.order] # "idle",
           next.phase = "stopped" => recurring'[next.order] = "stopped"
    PROVE  RequestsAreTrue'
<1>1. TypeOK /\ RequestsAreTrue
  BY DEF TrackInv, ReadingInv
<1>2. /\ sent \subseteq sent'
      /\ \A p \in Orders : recurring[p] # "idle" => recurring'[p] # "idle"
      /\ \A p \in Orders : recurring[p] = "stopped" => recurring'[p] = "stopped"
      /\ \A p \in Orders : WasLive(p) => WasLive(p)'
  BY <1>1, RecurringMoves, WasLiveStays
<1> SUFFICES
      ASSUME NEW v \in Workers
      PROVE  /\ op'[v].phase \in Callbacks => op'[v].event \in sent'
             /\ op'[v].phase \in {"matched", "judged"} /\ op'[v].checkout = "NONE" =>
                  op'[v].seen.order = op'[v].event.order
             /\ op'[v].phase \in Reading /\ op'[v].seen.order # NoOrder =>
                  WasLive(op[v].seen.order)'
             /\ op'[v].phase = "stopping" => recurring'[op'[v].order] # "idle"
             /\ op'[v].phase = "stopped" => recurring'[op'[v].order] = "stopped"
  BY DEF RequestsAreTrue
<1>3. CASE v = w
  <2>1. op'[v] = next
    BY <1>1, <1>3 DEF Run, TypeOK
  <2>2. next.phase \in Reading /\ next.seen.order # NoOrder => WasLive(next.seen.order)'
    BY <1>2
  <2> QED
    BY <2>1, <2>2 DEF WasLive
<1>4. CASE v # w
  <2>1. op'[v] = op[v]
    BY <1>1, <1>4 DEF Run, TypeOK
  <2>2. op[v].phase \in Reading /\ op[v].seen.order # NoOrder => op[v].seen.order \in Orders
    BY <1>1, OrdersOfRequests DEF SubscriptionRows
  <2>3. op[v].phase \in {"stopping", "stopped"} => op[v].order \in Orders
    BY <1>1, OrdersOfRequests
  <2>4. PICK o : o = op[v].seen.order
    OBVIOUS
  <2>5. op[v].phase \in Reading /\ o # NoOrder => WasLive(o)'
    BY <1>1, <1>2, <2>2, <2>4 DEF RequestsAreTrue
  <2> QED
    BY <1>1, <1>2, <2>1, <2>3, <2>4, <2>5 DEF RequestsAreTrue, WasLive
<1> QED
  BY <1>3, <1>4

\* Whatever a request reads, holds or goes on to do next, it is true of LiqPay.
LEMMA RequestsTrueStep == TrackInv /\ [Next]_vars => RequestsAreTrue'
<1> SUFFICES ASSUME TrackInv, [Next]_vars
             PROVE  RequestsAreTrue'
  OBVIOUS
<1>1. TypeOK /\ RequestsAreTrue /\ ReadingInv
  BY DEF TrackInv, ReadingInv
<1>2. /\ sent \subseteq sent'
      /\ \A p \in Orders : recurring[p] # "idle" => recurring'[p] # "idle"
      /\ \A p \in Orders : recurring[p] = "stopped" => recurring'[p] = "stopped"
      /\ \A p \in Orders : WasLive(p) => WasLive(p)'
  BY <1>1, RecurringMoves, WasLiveStays
<1>3. ASSUME NEW w \in Workers, Arrive(w) \/ Continue(w)
      PROVE  RequestsAreTrue'
  <2> DEFINE c == op[w]
  <2>0. /\ c.phase \in Callbacks => c.event \in sent
        /\ c.phase \in Reading /\ c.seen.order # NoOrder =>
             WasLive(c.seen.order) /\ c.seen.order \in Orders
        /\ c.phase \in {"matched", "judged"} /\ c.checkout = "NONE" =>
             c.seen.order = c.event.order
        /\ c.phase \in {"stopping", "stopped"} => c.order \in Orders
    BY <1>1, OrdersOfRequests DEF RequestsAreTrue, SubscriptionRows
  <2>1. ASSUME NEW next, Run(w, next), next.phase \in {"idle", "offering"}
        PROVE  RequestsAreTrue'
    BY <2>1, TrueRequestRuns DEF Callbacks, Reading
  <2>2. CASE \/ StartCheckout(w) \/ ReuseCheckout(w) \/ CreateCheckoutOrder(w)
             \/ UnknownOrder(w) \/ AnswerDuplicate(w) \/ CancellationConflict(w)
             \/ StopUnconfirmed(w) \/ ResolveUnsubscribeRequest(w) \/ Abort(w)
    <3>1. PICK next : Run(w, next) /\ next.phase \in {"idle", "offering"}
      BY <2>2 DEF StartCheckout, ReuseCheckout, CreateCheckoutOrder, UnknownOrder,
         AnswerDuplicate, CancellationConflict, StopUnconfirmed,
         ResolveUnsubscribeRequest, Abort, Idle
    <3> QED
      BY <2>1, <3>1
  <2>3. CASE \/ \E event \in sent : DeliverCallback(w, event)
             \/ FindCheckoutOrder(w) \/ ReapplyStale(w)
    <3>1. PICK next :
            /\ Run(w, next)
            /\ next.phase \in {"received", "located", "idle"}
            /\ next.phase # "idle" => next.event \in sent
      <4>1. CASE \E event \in sent : DeliverCallback(w, event)
        BY <4>1 DEF DeliverCallback, Received
      <4>2. CASE FindCheckoutOrder(w)
        BY <2>0, <4>2 DEF FindCheckoutOrder, Callbacks
      <4>3. CASE ReapplyStale(w)
        <5>1. c.event \in sent
          BY <2>0, <4>3 DEF ReapplyStale, Callbacks
        <5>2. \/ Run(w, Received(c.event, c.now, c.attempt + 1))
              \/ Run(w, Idle)
          BY <4>3 DEF ReapplyStale
        <5> QED
          BY <5>1, <5>2 DEF Received, Idle
      <4> QED
        BY <2>3, <4>1, <4>2, <4>3
    <3> QED
      BY <1>2, <3>1, TrueRequestRuns DEF Callbacks, Reading
  <2>4. CASE RequestCancellation(w)
    <3>1. PICK next : /\ Run(w, next) /\ next.phase = "canceling"
                      /\ next.seen.order = sub.order
      BY <2>4 DEF RequestCancellation
    <3>2. next.seen.order # NoOrder => next.seen.order \in Orders /\ WasLive(next.seen.order)
      BY <1>1, <3>1 DEF TrackInv, LiveOrderWasLive, TypeOK, SubscriptionRows
    <3> QED
      BY <3>1, <3>2, TrueRequestRuns DEF Callbacks, Reading
  <2>5. CASE FindSubscription(w)
    <3>1. PICK next : /\ Run(w, next) /\ next.phase = "matched"
                      /\ next.seen.order = sub.order /\ next.event = c.event
                      /\ next.checkout = c.checkout
      BY <2>5 DEF FindSubscription
    <3>2. next.seen.order # NoOrder => next.seen.order \in Orders /\ WasLive(next.seen.order)
      BY <1>1, <3>1 DEF TrackInv, LiveOrderWasLive, TypeOK, SubscriptionRows
    <3>3. next.event \in sent' /\ (next.checkout = "NONE" => next.seen.order = next.event.order)
      BY <1>2, <2>0, <2>5, <3>1 DEF FindSubscription, Callbacks
    <3> QED
      BY <3>1, <3>2, <3>3, TrueRequestRuns DEF Callbacks, Reading
  <2>6. CASE FindPaymentHistory(w)
    <3>1. PICK next : /\ Run(w, next) /\ next.phase = "judged"
                      /\ next.seen = c.seen /\ next.event = c.event
                      /\ next.checkout = c.checkout
      BY <2>6 DEF FindPaymentHistory
    <3>2. next.seen.order # NoOrder => next.seen.order \in Orders /\ WasLive(next.seen.order)
      BY <2>0, <2>6, <3>1 DEF FindPaymentHistory, Reading
    <3>3. next.event \in sent' /\ (next.checkout = "NONE" => next.seen.order = next.event.order)
      BY <1>2, <2>0, <2>6, <3>1 DEF FindPaymentHistory, Callbacks
    <3> QED
      BY <3>1, <3>2, <3>3, TrueRequestRuns DEF Callbacks, Reading
  <2>7. CASE CommitCallback(w)
    <3>1. PICK next :
            /\ Run(w, next)
            /\ \/ next.phase = "idle"
               \/ next.phase = "stopping" /\ next.order \in OrderToStop(c)
      BY <2>7 DEF CommitCallback, StoppingAnyOf, Stopping, Idle
    <3>2. next.phase = "stopping" => next.order \in Orders /\ recurring'[next.order] # "idle"
      BY <1>2, <2>7, <3>1, StoppedWasCharged DEF CommitCallback
    <3> QED
      BY <3>1, <3>2, TrueRequestRuns DEF Callbacks, Reading
  <2>8. CASE CommitCancellation(w)
    <3>1. PICK next : /\ Run(w, next) /\ next.phase = "stopping"
                      /\ next.order = c.seen.order
      BY <2>8 DEF CommitCancellation, Stopping
    <3>2. c.seen.order \in Orders /\ c.seen.order # NoOrder
      BY <1>1, <2>8, PhaseType, OrderAssumption DEF CommitCancellation, TypeOK, CancelRequests
    <3>3. WasLive(c.seen.order)
      BY <2>0, <2>8, <3>2 DEF CommitCancellation, Reading
    <3>4. recurring[c.seen.order] # "idle"
      BY <3>2, <3>3 DEF TrackInv, ChargesHappened, WasLive
    <3> QED
      BY <1>2, <3>1, <3>2, <3>4, TrueRequestRuns DEF Callbacks, Reading
  <2>9. CASE StopAccepted(w)
    <3>1. PICK next : /\ Run(w, next) /\ next.phase = "stopped"
                      /\ next.order = c.order
      BY <2>9 DEF StopAccepted, Stopped
    <3>2. recurring'[c.order] = "stopped"
      <4>1. c.order \in Orders /\ recurring[c.order] # "idle"
        BY <1>1, <2>0, <2>9 DEF StopAccepted, RequestsAreTrue
      <4> QED
        BY <1>1, <2>9, <4>1 DEF StopAccepted, Unsubscribe, liqPayVars, TypeOK, RecurringStates
    <3> QED
      BY <2>0, <2>9, <3>1, <3>2, TrueRequestRuns DEF StopAccepted, Callbacks, Reading
  <2> QED
    BY <1>3, <2>2, <2>3, <2>4, <2>5, <2>6, <2>7, <2>8, <2>9 DEF Arrive, Continue
<1>4. CASE ProviderStep \/ Tick \/ UNCHANGED vars
  <2>1. op' = op
    BY <1>4 DEF ProviderStep, Tick, vars
  <2> SUFFICES
        ASSUME NEW v \in Workers
        PROVE  /\ op[v].phase \in Callbacks => op[v].event \in sent'
               /\ op[v].phase \in {"matched", "judged"} /\ op[v].checkout = "NONE" =>
                    op[v].seen.order = op[v].event.order
               /\ op[v].phase \in Reading /\ op[v].seen.order # NoOrder =>
                    WasLive(op[v].seen.order)'
               /\ op[v].phase = "stopping" => recurring'[op[v].order] # "idle"
               /\ op[v].phase = "stopped" => recurring'[op[v].order] = "stopped"
    BY <2>1 DEF RequestsAreTrue
  <2>2. /\ op[v].phase \in Reading /\ op[v].seen.order # NoOrder => op[v].seen.order \in Orders
        /\ op[v].phase \in {"stopping", "stopped"} => op[v].order \in Orders
    BY <1>1, OrdersOfRequests DEF SubscriptionRows
  <2>3. PICK o : o = op[v].seen.order
    OBVIOUS
  <2>4. op[v].phase \in Reading /\ o # NoOrder => WasLive(o)'
    BY <1>1, <1>2, <2>2, <2>3 DEF RequestsAreTrue
  <2> QED
    BY <1>1, <1>2, <2>1, <2>2, <2>3, <2>4 DEF RequestsAreTrue, WasLive
<1> QED
  BY <1>3, <1>4 DEF Next

\* A commit leaves the live order as it was, or hands it to the checkout it pays.
LEMMA LiveOrderOfCommit ==
    ASSUME ReadingInv, NEW w \in Workers, CommitCallback(w)
    PROVE  \/ sub'.order = sub.order /\ ~PaysCheckout(op[w])
           \/ /\ PaysCheckout(op[w]) /\ op[w].seen = sub
              /\ sub'.order = op[w].event.order /\ sub'.order \in Orders
              /\ checkouts'[sub'.order] = "PAID"
              /\ sub'.status = "ACTIVE" /\ ~sub'.cancelRequested
<1> DEFINE c == op[w]
<1>1. c \in JudgedRequests /\ c.event.order \in Orders
  BY PhaseType DEF ReadingInv, TypeOK, CommitCallback, JudgedRequests, Events
<1>2. CASE Decision(c) = {}
  BY <1>2, CommitLeavesRow DEF PaysCheckout, Activated
<1>3. CASE Decision(c) # {} /\ IsNew(c)
  <2>1. PICK t \in Decision(c) : TRUE
    BY <1>3
  <2>2. t.status = "ACTIVE" /\ ~t.cancelRequested /\ PaysCheckout(c) /\ TakesOver(c)
    BY <1>1, <1>3, <2>1, NewCheckoutDecides
  <2>3. /\ c.seen = sub /\ sub'.order = c.event.order
        /\ sub'.status = t.status /\ sub'.cancelRequested = t.cancelRequested
    BY <2>1, <2>2, CommitDecided
  <2>4. checkouts'[c.event.order] = "PAID"
    BY <1>1, <2>2 DEF CommitCallback, AbandonProposed, ReadingInv, TypeOK
  <2> QED
    BY <1>1, <2>2, <2>3, <2>4
<1>4. CASE Decision(c) # {} /\ ~IsNew(c)
  <2>1. PICK t \in Decision(c) : TRUE
    BY <1>4
  <2>2. ~TakesOver(c) /\ ~PaysCheckout(c)
    BY <1>4 DEF TakesOver, PaysCheckout
  <2> QED
    BY <2>1, <2>2, CommitDecided
<1> QED
  BY <1>2, <1>3, <1>4

\* The live order of the row was live once.
LEMMA LiveOrderStep == TrackInv /\ [Next]_vars => LiveOrderWasLive'
<1> SUFFICES ASSUME TrackInv, [Next]_vars
             PROVE  LiveOrderWasLive'
  OBVIOUS
<1>1. ReadingInv /\ TypeOK /\ LiveOrderWasLive
  BY DEF TrackInv, ReadingInv
<1>2. ASSUME sub'.order = sub.order
      PROVE  LiveOrderWasLive'
  <2>1. PICK o : o = sub.order
    OBVIOUS
  <2>2. o # NoOrder => o \in Orders /\ WasLive(o)
    BY <1>1, <2>1 DEF LiveOrderWasLive, TypeOK, SubscriptionRows
  <2>3. o # NoOrder => WasLive(o)'
    BY <1>1, <2>2, WasLiveStays
  <2> QED
    BY <1>2, <2>1, <2>3 DEF LiveOrderWasLive, WasLive
<1>3. ASSUME NEW w \in Workers, CommitCallback(w)
      PROVE  LiveOrderWasLive'
  <2>1. sub'.order = sub.order \/ checkouts'[sub'.order] = "PAID"
    BY <1>1, <1>3, LiveOrderOfCommit
  <2> QED
    BY <1>2, <2>1 DEF LiveOrderWasLive, WasLive
<1>4. ASSUME NEW w \in Workers, CommitCancellation(w)
      PROVE  LiveOrderWasLive'
  BY <1>1, <1>2, <1>4, CancellationCommitted
<1>5. CASE ~\E w \in Workers : CommitCallback(w) \/ CommitCancellation(w)
  BY <1>1, <1>2, <1>5, RowUntouched
<1> QED
  BY <1>3, <1>4, <1>5

\* The three roles an order can have, and when it renews.
LEMMA RoleOfOrder ==
    ASSUME NEW c \in JudgedRequests
    PROVE  \/ Role(c) = "retired-checkout"
           \/ IsNew(c)
           \/ Role(c) = "renewal" /\ (c.checkout = "NONE" \/ c.seen.order = c.event.order)
<1>1. c.checkout \in CheckoutStatuses
  BY DEF JudgedRequests
<1> QED
  BY <1>1 DEF Role, IsNew, CallbackRole, CheckoutStatuses

\* A paid callback that is neither held back nor out of order decides something.
LEMMA PaidDecides ==
    ASSUME NEW c \in JudgedRequests, Outcome(c) = "paid", ~Blocked(c), ~OutOfOrder(c)
    PROVE  PaidTransition(c.seen, c.now, IsNew(c)) \in Decision(c)
<1>1. Role(c) # "retired-checkout"
  BY DEF Blocked
<1> QED
  BY <1>1 DEF Decision, TransitionForCallbackStatus, When, Outcome

\* A decision about a live order leaves a subscription that can be cancelled one that
\* can be, unless LiqPay reported that the order was stopped.
LEMMA RenewalKeepsTracking ==
    ASSUME TrackInv, NEW w \in Workers, CommitCallback(w), NEW t \in Decision(op[w]),
           ~IsNew(op[w]), CanRequestCancellation(sub), recurring[sub.order] # "stopped"
    PROVE  CanRequestCancellation(sub') /\ sub'.order = sub.order
<1> DEFINE c == op[w]
<1>1. ReadingInv /\ TypeOK
  BY DEF TrackInv, ReadingInv
<1>2. /\ c \in JudgedRequests /\ c.seen = sub
      /\ t \in TransitionForCallbackStatus(sub, c.event.status, c.now, IsNew(c))
      /\ sub'.status = t.status
      /\ sub'.cancelRequested = t.cancelRequested
      /\ sub'.order = IF TakesOver(c) THEN c.event.order ELSE sub.order
  BY <1>1, CommitDecided
<1>3. sub'.order = sub.order
  BY <1>2 DEF TakesOver
<1>4. ~sub.cancelRequested /\ sub.status # "CANCELED" /\ sub.order # NoOrder
  BY DEF CanRequestCancellation
<1>5. Outcome(c) # "canceled"
  <2> SUFFICES ASSUME Outcome(c) = "canceled"
               PROVE  FALSE
    OBVIOUS
  <2>1. c.event.status = "unsubscribed"
    BY DEF Outcome, ClassifyCallbackStatus, CanceledStatuses, PaidStatuses, FailedStatuses
  <2>2. c.event \in sent /\ (c.checkout = "NONE" => c.seen.order = c.event.order)
    BY DEF CommitCallback, TrackInv, RequestsAreTrue, Callbacks
  <2>3. Role(c) # "retired-checkout"
    BY <1>2, JudgedDecision
  <2>4. c.seen.order = c.event.order
    BY <1>2, <2>2, <2>3, RoleOfOrder
  <2>5. recurring[c.event.order] = "stopped"
    BY <2>1, <2>2 DEF TrackInv, ChargesHappened
  <2> QED
    BY <1>2, <2>4, <2>5
<1>6. t.status # "CANCELED" /\ ~t.cancelRequested
  <2>1. \/ t = PaidTransition(sub, c.now, IsNew(c))
        \/ t \in ChargebackTransition(sub, c.now) /\ sub.cancelRequested
        \/ t = FailedTransition(sub, c.now)
    BY <1>2, <1>5 DEF TransitionForCallbackStatus, When, Outcome
  <2> QED
    BY <1>4, <2>1 DEF PaidTransition, FailedTransition, Transition
<1> QED
  BY <1>2, <1>3, <1>4, <1>6 DEF CanRequestCancellation

\* What a commit does to the queue: it queues the order to stop, and closes only
\* requests whose order LiqPay has stopped.
LEMMA QueueOfCommit ==
    ASSUME TrackInv, NEW w \in Workers, CommitCallback(w), NEW o \in Orders,
           recurring[o] = "charging"
    PROVE  requests[o] = "open" \/ o \in OrderToStop(op[w]) => requests'[o] = "open"
<1> DEFINE c == op[w]
           unsubscribed == IF c.event.status = "unsubscribed" THEN {c.event.order} ELSE {}
<1>1. c.event \in sent
  BY DEF CommitCallback, TrackInv, RequestsAreTrue, Callbacks
<1>2. o \notin unsubscribed
  BY <1>1 DEF TrackInv, ChargesHappened
<1>3. requests' = QueueUnsubscribe(ResolveUnsubscribe(requests, unsubscribed), OrderToStop(c))
  BY DEF CommitCallback
<1> QED
  BY <1>2, <1>3 DEF QueueUnsubscribe, ResolveUnsubscribe

\* A charge a commit records is of the callback's order, and is judged on its merits.
LEMMA ChargeOfCommit ==
    ASSUME TypeOK, NEW w \in Workers, CommitCallback(w), NEW o \in Orders, ChargeRecorded(o)'
    PROVE  \/ ChargeRecorded(o)
           \/ /\ o = op[w].event.order /\ Outcome(op[w]) = "paid"
              /\ Blocked(op[w]) \/ ~OutOfOrder(op[w])
<1> DEFINE c == op[w]
<1>1. PICK l \in log' : /\ l.order = o /\ l.status \in PaidStatuses
                        /\ l.issue # "out-of-order"
  BY DEF ChargeRecorded
<1>2. CASE l \in log
  BY <1>1, <1>2 DEF ChargeRecorded
<1>3. CASE l = LogEntry(c)
  <2>1. /\ l.order = c.event.order /\ l.status = c.event.status
        /\ Blocked(c) \/ ~OutOfOrder(c)
    BY <1>1, <1>3 DEF LogEntry
  <2>2. ClassifyCallbackStatus(c.event.status) = "paid"
    BY <1>1, <2>1 DEF ClassifyCallbackStatus, PaidStatuses, CanceledStatuses, FailedStatuses
  <2> QED
    BY <1>1, <2>1, <2>2 DEF Outcome
<1> QED
  BY <1>1, <1>2, <1>3 DEF CommitCallback

\* The order a commit makes live, or leaves live, is tracked, and so is the one it
\* replaces or does not honour.
LEMMA CommitTracked ==
    ASSUME TrackInv, NEW w \in Workers, CommitCallback(w), NEW o \in Orders,
           recurring'[o] = "charging", WasLive(o)' \/ ChargeRecorded(o)'
    PROVE  Tracked(o)'
<1> DEFINE c == op[w]
<1>1. ReadingInv /\ TypeOK /\ ChargingIsTracked
  BY DEF TrackInv, ReadingInv
<1>2. /\ c \in JudgedRequests /\ c.phase = "judged" /\ c.phase \in Reading
      /\ c.checkout = "NONE" => c.seen.order = c.event.order
      /\ c.seen.order # NoOrder => WasLive(c.seen.order)
  BY <1>1, PhaseType DEF CommitCallback, TypeOK, TrackInv, RequestsAreTrue, Reading
<1>3. recurring[o] = "charging"
  BY DEF CommitCallback, liqPayVars
<1>4. requests[o] = "open" \/ o \in OrderToStop(c) => Tracked(o)'
  BY <1>3, QueueOfCommit DEF Tracked
<1>5. WasLive(o) \/ ChargeRecorded(o) =>
        requests[o] = "open" \/ (sub.order = o /\ CanRequestCancellation(sub))
  BY <1>1, <1>3 DEF ChargingIsTracked, Tracked
<1>6. WasLive(o)' => WasLive(o) \/ (PaysCheckout(c) /\ o = c.event.order)
  BY <1>1, CheckoutsOfCommit DEF WasLive, CommitCallback, liqPayVars
<1>7. o # NoOrder
  BY OrderAssumption
<1>8. CASE PaysCheckout(c)
  <2>1. /\ c.seen = sub /\ sub'.order = c.event.order
        /\ sub'.status = "ACTIVE" /\ ~sub'.cancelRequested
    BY <1>1, <1>8, LiveOrderOfCommit
  <2>2. IsNew(c) /\ Activated(c) /\ Outcome(c) = "paid"
    BY <1>2, <1>8, NewCheckoutDecides DEF PaysCheckout, Activated
  <2>3. ~Blocked(c) /\ Role(c) # "retired-checkout"
    BY <1>2, <2>2, JudgedDecision DEF Activated
  <2>4. CASE o = c.event.order
    BY <1>7, <2>1, <2>4 DEF Tracked, CanRequestCancellation
  <2>5. CASE o # c.event.order
    <3>1. OrderToStop(c) = {c.seen.order} \ {NoOrder, c.event.order}
      BY <2>2, <2>3 DEF OrderToStop
    <3>2. WasLive(o) \/ ChargeRecorded(o)
      BY <1>1, <1>6, <2>5, ChargeOfCommit
    <3> QED
      BY <1>4, <1>5, <1>7, <2>1, <2>5, <3>1, <3>2
  <2> QED
    BY <2>4, <2>5
<1>9. CASE ~PaysCheckout(c) /\ (WasLive(o) \/ ChargeRecorded(o))
  <2>1. CASE requests[o] = "open"
    BY <1>4, <2>1
  <2>2. CASE sub.order = o /\ CanRequestCancellation(sub)
    <3>1. CASE Decision(c) = {}
      <4>1. sub' = sub
        BY <3>1, CommitLeavesRow
      <4> QED
        BY <2>2, <4>1 DEF Tracked
    <3>2. CASE Decision(c) # {}
      <4>1. PICK t \in Decision(c) : TRUE
        BY <3>2
      <4>2. ~IsNew(c)
        BY <1>2, <1>9, <4>1, NewCheckoutDecides
      <4>3. CanRequestCancellation(sub') /\ sub'.order = sub.order
        BY <1>3, <2>2, <4>1, <4>2, RenewalKeepsTracking
      <4> QED
        BY <2>2, <4>3 DEF Tracked
    <3> QED
      BY <3>1, <3>2
  <2> QED
    BY <1>5, <1>9, <2>1, <2>2
<1>10. CASE ~PaysCheckout(c) /\ ~WasLive(o) /\ ~ChargeRecorded(o)
  <2>1. /\ o = c.event.order /\ Outcome(c) = "paid"
        /\ Blocked(c) \/ ~OutOfOrder(c)
    BY <1>1, <1>6, <1>10, ChargeOfCommit
  <2>2. ~(Role(c) = "renewal")
    BY <1>2, <1>7, <1>10, <2>1, RoleOfOrder DEF IsNew
  <2>3. IsNew(c) => Blocked(c)
    <3>1. IsNew(c) /\ ~Blocked(c) => Decision(c) # {}
      BY <1>2, <2>1, PaidDecides
    <3> QED
      BY <1>2, <1>10, <3>1, NewCheckoutDecides
  <2>4. o \in OrderToStop(c)
    BY <1>2, <2>1, <2>2, <2>3, RoleOfOrder DEF OrderToStop
  <2> QED
    BY <1>4, <2>4
<1> QED
  BY <1>8, <1>9, <1>10

\* An owner's cancellation queues the live order, and every other step leaves the live
\* order and the queue alone or closes a request LiqPay has confirmed.
LEMMA TrackedStep == TrackInv /\ [Next]_vars => ChargingIsTracked'
<1> SUFFICES ASSUME TrackInv, [Next]_vars, NEW o \in Orders,
                    recurring'[o] = "charging", WasLive(o)' \/ ChargeRecorded(o)'
             PROVE  Tracked(o)'
  BY DEF ChargingIsTracked, Tracked, WasLive, ChargeRecorded
<1>1. ReadingInv /\ TypeOK /\ ChargesHappened /\ ChargingIsTracked
  BY DEF TrackInv, ReadingInv
<1>2. CASE \E w \in Workers : CommitCallback(w)
  BY <1>2, CommitTracked
<1>3. CASE ~\E w \in Workers : CommitCallback(w)
  <2>1. ChargeRecorded(o)' => ChargeRecorded(o)
    BY <1>3, LogUntouched DEF ChargeRecorded
  <2>2. checkouts'[o] = "PAID" => checkouts[o] = "PAID"
    <3>1. CASE \E w \in Workers : CommitCancellation(w)
      BY <1>1, <3>1 DEF CommitCancellation, AbandonProposed, TypeOK
    <3> QED
      BY <1>1, <1>3, <3>1, RowUntouched
  <2>3. recurring[o] = "charging"
    <3> SUFFICES ASSUME recurring[o] # "charging"
                 PROVE  FALSE
      OBVIOUS
    <3>1. recurring[o] = "idle" /\ checkouts[o] # "NONE" /\ checkouts' = checkouts
      BY <1>1, RecurringMoves DEF rowVars
    <3>2. ChargeRecorded(o)
      BY <1>1, <2>1, <2>2, <3>1 DEF WasLive, ChargesHappened
    <3> QED
      BY <1>1, <3>1, <3>2 DEF ChargeRecorded, ChargesHappened
  <2>4. WasLive(o)' => WasLive(o)
    <3>1. checkouts'[o] = "NONE" => checkouts[o] = "NONE"
      <4>1. CASE \E w \in Workers : CommitCancellation(w)
        BY <1>1, <4>1 DEF CommitCancellation, AbandonProposed, TypeOK
      <4>2. CASE \E w \in Workers : CreateCheckoutOrder(w)
        BY <1>1, <4>2 DEF CreateCheckoutOrder, TypeOK
      <4>3. CASE ~\E w \in Workers : CommitCancellation(w) \/ CreateCheckoutOrder(w)
        BY <1>3, <4>3, CheckoutsUntouched
      <4> QED
        BY <4>1, <4>2, <4>3
    <3> QED
      BY <2>2, <2>3, <3>1 DEF WasLive
  <2>5. Tracked(o)
    BY <1>1, <2>1, <2>3, <2>4 DEF ChargingIsTracked
  <2>6. CASE \E w \in Workers : CommitCancellation(w)
    <3>1. PICK w \in Workers : CommitCancellation(w)
      BY <2>6
    <3>2. op[w].seen = sub
      BY <1>1, <3>1 DEF ReadingInv, Fresh, CommitCancellation, Reading
    <3> QED
      BY <2>5, <3>1, <3>2 DEF Tracked, CommitCancellation, QueueUnsubscribe
  <2>7. CASE \E w \in Workers : ResolveUnsubscribeRequest(w)
    <3>1. PICK w \in Workers : ResolveUnsubscribeRequest(w)
      BY <2>7
    <3>2. o # op[w].order
      BY <2>3, <3>1 DEF TrackInv, RequestsAreTrue, ResolveUnsubscribeRequest
    <3> QED
      BY <2>5, <3>1, <3>2 DEF Tracked, ResolveUnsubscribeRequest, ResolveUnsubscribe
  <2>8. CASE ~\E w \in Workers : CommitCancellation(w) \/ ResolveUnsubscribeRequest(w)
    <3>1. sub' = sub
      BY <1>1, <1>3, <2>8, RowUntouched
    <3>2. requests' = requests
      BY <1>3, <2>8, QueueUntouched
    <3> QED
      BY <2>5, <3>1, <3>2 DEF Tracked
  <2> QED
    BY <2>6, <2>7, <2>8
<1> QED
  BY <1>2, <1>3

\* In every state the invariant the tracking of orders rests on holds.
THEOREM TrackCorrect == Spec => []TrackInv
<1>1. Init => TrackInv
  <2> SUFFICES ASSUME Init
               PROVE  TrackInv
    OBVIOUS
  <2>1. ReadingInv /\ RequestsAreTrue
    BY InitTypes DEF Init, ReadingInv, Fresh, RequestsAreTrue, Idle, Reading, Callbacks
  <2>2. ChargesHappened
    BY DEF Init, LiqPayInit, ChargesHappened
  <2>3. sub.order # NoOrder => sub.order \in LegacyOrders /\ CanRequestCancellation(sub)
    <3>1. CASE sub = NewSubscription
      BY <3>1 DEF NewSubscription
    <3>2. ASSUME NEW o \in LegacyOrders, sub = LegacySubscription(o)
          PROVE  sub.order = o /\ sub.status = "ACTIVE" /\ ~sub.cancelRequested
      BY <3>2 DEF LegacySubscription, NewSubscription
    <3> QED
      BY <3>1, <3>2 DEF Init, CanRequestCancellation
  <2>4. LiveOrderWasLive
    BY <2>3, InitAssumption DEF Init, LiqPayInit, LiveOrderWasLive, WasLive
  <2>5. ChargingIsTracked
    BY <2>3, OrderAssumption
    DEF Init, LiqPayInit, ChargingIsTracked, Tracked
  <2> QED
    BY <2>1, <2>2, <2>4, <2>5 DEF TrackInv
<1>2. TrackInv /\ [Next]_vars => TrackInv'
  BY NextTypes, FreshStep, LiveOrderStep, ChargesHappenedStep, RequestsTrueStep, TrackedStep
  DEF TrackInv, ReadingInv
<1> QED
  BY <1>1, <1>2, PTL DEF Spec

\* Every order that LiqPay still charges, and whose charge has reached us, is the live
\* order of a subscription that renews or is queued to be stopped, for any number of
\* requests, orders, callbacks and days.
THEOREM ChargingTracked == Spec => []ChargingOrderIsTracked
<1>1. TrackInv => ChargingOrderIsTracked
  BY DEF TrackInv, ChargingIsTracked, Tracked, ChargingOrderIsTracked
<1> QED
  BY <1>1, TrackCorrect, PTL

\* While the live order of a cancelled subscription still charges, a request to stop it
\* is open.
THEOREM CanceledQueued == Spec => []CanceledOrderIsQueued
<1>1. TrackInv => CanceledOrderIsQueued
  <2> SUFFICES ASSUME TrackInv, sub.cancelRequested, sub.order # NoOrder,
                      recurring[sub.order] = "charging"
               PROVE  requests[sub.order] = "open"
    BY DEF CanceledOrderIsQueued
  <2>1. sub.order \in Orders /\ WasLive(sub.order)
    BY DEF TrackInv, ReadingInv, TypeOK, SubscriptionRows, LiveOrderWasLive
  <2> QED
    BY <2>1 DEF TrackInv, ChargingIsTracked, Tracked, CanRequestCancellation
<1> QED
  BY <1>1, TrackCorrect, PTL

-----------------------------------------------------------------------------
(* Access and the dates it ends on.                                          *)

\* A row that grants access by a date has the date, and one that was never activated
\* has no order.
RowHasItsDates ==
    /\ sub.status = "ACTIVE" => sub.period # NoDate
    /\ sub.status = "PAST_DUE" => sub.grace # NoDate
    /\ sub.status = "PENDING" => sub.order = NoOrder

\* A request has seen at most one midnight.
RequestsAreOfToday ==
    \A w \in Workers :
      op[w].phase \in Callbacks \cup {"canceling"} => op[w].now <= now /\ now <= op[w].now + 1

AccessInv == TrackInv /\ RowHasItsDates /\ RequestsAreOfToday

\* Time only takes access away.
LEMMA AccessRunsOut ==
    ASSUME NEW row \in SubscriptionRows, NEW early \in Nat, NEW late \in Nat,
           early <= late, FullAccess(row, late)
    PROVE  FullAccess(row, early)
  BY DEF FullAccess, ResolveEntitlements, RulesByStatus, AccessUntil, IsBeforeDeadline,
         SubscriptionRows, SubscriptionStatuses

\* What a cancellation that has not been requested before makes of a row with its dates:
\* the access left is what the row granted already, and no more.
LEMMA CancellationKeepsDates ==
    ASSUME NEW row \in SubscriptionRows, NEW at \in Nat,
           row.status = "ACTIVE" => row.period # NoDate,
           row.status = "PAST_DUE" => row.grace # NoDate
    PROVE  LET t == CancellationTransition(row, at)
           IN  /\ t.status \in {row.status, "CANCELED"}
               /\ t.status = "PAST_DUE" => t.grace # NoDate
               /\ row.cancelRequested =>
                    t.status = row.status /\ t.grace = row.grace
               /\ ~row.cancelRequested /\ row.status = "ACTIVE" =>
                    \/ t.grace = row.period + GracePeriod
                    \/ row.period + GracePeriod <= at
               /\ ~row.cancelRequested /\ row.status # "ACTIVE" /\ t.grace # NoDate =>
                    row.status = "PAST_DUE" /\ t.grace = row.grace
<1>1. GraceAtCancellation(row) \in Nat
  BY PeriodAssumption DEF GraceAtCancellation, SubscriptionRows, NoDate
<1>2. CASE row.cancelRequested
  BY <1>2 DEF CancellationTransition, Transition
<1>3. CASE ~row.cancelRequested
  <2>1. /\ row.status = "ACTIVE" =>
             GraceAtCancellation(row) = row.period + GracePeriod
        /\ row.status = "PAST_DUE" => GraceAtCancellation(row) = row.grace
        /\ row.status \notin {"ACTIVE", "PAST_DUE"} => GraceAtCancellation(row) = NoDate
    BY DEF GraceAtCancellation
  <2>2. CASE GraceAtCancellation(row) > at
    <3>1. CancellationTransition(row, at)
            = Transition(row.status, GraceAtCancellation(row), row.period, TRUE)
      BY <1>3, <2>2 DEF CancellationTransition
    <3> QED
      BY <1>1, <1>3, <2>1, <2>2, <3>1 DEF Transition, NoDate
  <2>3. CASE ~(GraceAtCancellation(row) > at)
    <3>1. CancellationTransition(row, at)
            = Transition("CANCELED", NoDate, row.period, TRUE)
      BY <1>3, <2>3 DEF CancellationTransition
    <3> QED
      BY <1>1, <1>3, <2>1, <2>3, <3>1 DEF Transition
  <2> QED
    BY <2>2, <2>3
<1> QED
  BY <1>2, <1>3

\* The dates a callback's decision leaves on a row that has its own.
LEMMA DecisionKeepsDates ==
    ASSUME NEW row \in SubscriptionRows, NEW at \in Nat, NEW status,
           NEW isNew \in BOOLEAN,
           NEW t \in TransitionForCallbackStatus(row, status, at, isNew),
           row.status = "ACTIVE" => row.period # NoDate,
           row.status = "PAST_DUE" => row.grace # NoDate
    PROVE  /\ t.status = "ACTIVE" => t.period # NoDate
           /\ t.status = "PAST_DUE" => t.grace # NoDate
           /\ t.status = "PENDING" => row.status = "PENDING"
<1> DEFINE outcome == ClassifyCallbackStatus(status)
<1>1. \/ outcome = "paid" /\ t = PaidTransition(row, at, isNew)
      \/ t \in ChargebackTransition(row, at)
      \/ t = CancellationTransition(row, at)
      \/ t = FailedTransition(row, at)
  BY DEF TransitionForCallbackStatus, When
<1>2. CASE t = PaidTransition(row, at, isNew)
  <2>1. t.status = "ACTIVE" /\ t.period >= row.period + Month
    BY <1>2, PaidType
  <2> QED
    BY <2>1, PeriodAssumption DEF NoDate, SubscriptionRows
<1>3. CASE t \in ChargebackTransition(row, at)
  <2>1. t = Transition(row.status, at + GracePeriod, row.period, row.cancelRequested)
    BY <1>3 DEF ChargebackTransition
  <2> QED
    BY <2>1, PeriodAssumption DEF Transition, NoDate
<1>4. CASE t = CancellationTransition(row, at)
  <2>1. t.status \in {row.status, "CANCELED"} /\ (t.status = "PAST_DUE" => t.grace # NoDate)
    BY <1>4, CancellationKeepsDates
  <2>2. t.period = row.period
    BY <1>4, CancellationType
  <2> QED
    BY <2>1, <2>2
<1>5. CASE t = FailedTransition(row, at)
  BY <1>5, PeriodAssumption DEF FailedTransition, Transition, NoDate
<1> QED
  BY <1>1, <1>2, <1>3, <1>4, <1>5

\* Every commit leaves the row with its dates.
LEMMA RowDatesStep == AccessInv /\ [Next]_vars => RowHasItsDates'
<1> SUFFICES ASSUME AccessInv, [Next]_vars
             PROVE  RowHasItsDates'
  OBVIOUS
<1>1. ReadingInv /\ TypeOK /\ RowHasItsDates /\ sub \in SubscriptionRows
  BY DEF AccessInv, TrackInv, ReadingInv, TypeOK
<1>2. ASSUME NEW w \in Workers, CommitCallback(w)
      PROVE  RowHasItsDates'
  <2> DEFINE c == op[w]
  <2>1. CASE Decision(c) = {}
    BY <1>1, <1>2, <2>1, CommitLeavesRow DEF RowHasItsDates
  <2>2. ASSUME NEW t \in Decision(c)
        PROVE  RowHasItsDates'
    <3>1. /\ c \in JudgedRequests /\ c.seen = sub
          /\ t \in TransitionForCallbackStatus(sub, c.event.status, c.now, IsNew(c))
          /\ sub'.status = t.status /\ sub'.grace = t.grace /\ sub'.period = t.period
          /\ sub'.order = IF TakesOver(c) THEN c.event.order ELSE sub.order
      BY <1>1, <1>2, <2>2, CommitDecided
    <3>2. c.now \in Nat /\ IsNew(c) \in BOOLEAN
      BY <3>1 DEF JudgedRequests, IsNew
    <3>3. /\ t.status = "ACTIVE" => t.period # NoDate
          /\ t.status = "PAST_DUE" => t.grace # NoDate
          /\ t.status = "PENDING" => sub.status = "PENDING"
      BY <1>1, <3>1, <3>2, DecisionKeepsDates DEF RowHasItsDates
    <3>4. TakesOver(c) => t.status = "ACTIVE"
      BY <2>2, <3>1, NewCheckoutDecides DEF TakesOver
    <3> QED
      BY <1>1, <3>1, <3>3, <3>4 DEF RowHasItsDates
  <2> QED
    BY <2>1, <2>2
<1>3. ASSUME NEW w \in Workers, CommitCancellation(w)
      PROVE  RowHasItsDates'
  <2> DEFINE t == CancellationTransition(sub, op[w].now)
  <2>1. /\ op[w].now \in Nat /\ t \in Transitions
        /\ sub'.order = sub.order /\ sub'.status = t.status
        /\ sub'.grace = t.grace /\ sub'.period = sub.period
    BY <1>1, <1>3, CancellationCommitted
  <2>2. t.status \in {sub.status, "CANCELED"} /\ (t.status = "PAST_DUE" => t.grace # NoDate)
    BY <1>1, <2>1, CancellationKeepsDates DEF RowHasItsDates
  <2> HIDE DEF t
  <2> QED
    BY <1>1, <2>1, <2>2 DEF RowHasItsDates
<1>4. CASE ~\E w \in Workers : CommitCallback(w) \/ CommitCancellation(w)
  BY <1>1, <1>4, RowUntouched DEF RowHasItsDates
<1> QED
  BY <1>2, <1>3, <1>4

\* A request keeps the time it arrived at; a callback decided again keeps its own.
LEMMA RequestKeepsItsTime ==
    ASSUME NEW w \in Workers, Arrive(w) \/ Continue(w)
    PROVE  /\ now' = now
           /\ \E next :
                /\ Run(w, next)
                /\ next.phase \in Callbacks \cup {"canceling"} =>
                     next.now = now \/ (op[w].phase \in Callbacks /\ next.now = op[w].now)
<1>1. now' = now
  BY DEF Arrive, Continue, StartCheckout,
     RequestCancellation, DeliverCallback, ReuseCheckout, CreateCheckoutOrder,
     FindCheckoutOrder, FindSubscription, UnknownOrder, FindPaymentHistory,
     AnswerDuplicate, ReapplyStale, CommitCallback, CommitCancellation,
     CancellationConflict, StopAccepted, StopUnconfirmed, ResolveUnsubscribeRequest, Abort
<1>2. \E next :
        /\ Run(w, next)
        /\ next.phase \in Callbacks \cup {"canceling"} =>
             next.now = now \/ (op[w].phase \in Callbacks /\ next.now = op[w].now)
  <2>1. CASE StartCheckout(w) \/ ReuseCheckout(w) \/ CreateCheckoutOrder(w)
             \/ UnknownOrder(w) \/ AnswerDuplicate(w) \/ CommitCallback(w)
             \/ CommitCancellation(w) \/ CancellationConflict(w) \/ StopAccepted(w)
             \/ StopUnconfirmed(w) \/ ResolveUnsubscribeRequest(w) \/ Abort(w)
    <3>1. PICK next :
            /\ Run(w, next)
            /\ next.phase \in {"idle", "offering", "stopping", "stopped"}
      BY <2>1 DEF StartCheckout, ReuseCheckout, CreateCheckoutOrder, UnknownOrder,
         AnswerDuplicate, CommitCallback, CommitCancellation, CancellationConflict,
         StopAccepted, StopUnconfirmed, ResolveUnsubscribeRequest, Abort, Idle,
         Stopping, Stopped, StoppingAnyOf
    <3> QED
      BY <3>1 DEF Callbacks
  <2>2. CASE RequestCancellation(w) \/ \E event \in sent : DeliverCallback(w, event)
    <3>1. CASE RequestCancellation(w)
      <4>1. Run(w, [phase |-> "canceling", now |-> now, seen |-> sub])
        BY <3>1 DEF RequestCancellation
      <4> QED
        BY <4>1
    <3>2. ASSUME NEW event \in sent, DeliverCallback(w, event)
          PROVE  Run(w, Received(event, now, 1)) /\ Received(event, now, 1).now = now
      BY <3>2 DEF DeliverCallback, Received
    <3> QED
      BY <2>2, <3>1, <3>2
  <2>3. CASE FindCheckoutOrder(w) \/ FindSubscription(w) \/ FindPaymentHistory(w)
    BY <2>3 DEF FindCheckoutOrder, FindSubscription, FindPaymentHistory, Callbacks
  <2>4. CASE ReapplyStale(w)
    <3>1. op[w].phase \in Callbacks
      BY <2>4 DEF ReapplyStale, Callbacks
    <3>2. \/ Run(w, Received(op[w].event, op[w].now, op[w].attempt + 1))
          \/ Run(w, Idle)
      BY <2>4 DEF ReapplyStale
    <3> QED
      BY <3>1, <3>2 DEF Received, Idle, Callbacks
  <2> QED
    BY <2>1, <2>2, <2>3, <2>4 DEF Arrive, Continue
<1> QED
  BY <1>1, <1>2

\* A request that counts in days knows when it started.
LEMMA RequestsKeepTime ==
    ASSUME TypeOK, NEW w \in Workers, op[w].phase \in Callbacks \cup {"canceling"}
    PROVE  "now" \in DOMAIN op[w]
<1>1. op[w] \in ReceivedRequests \cup LocatedRequests \cup MatchedRequests
                \cup JudgedRequests \cup CancelRequests
  BY PhaseType DEF TypeOK, Callbacks
<1> QED
  BY <1>1 DEF ReceivedRequests, LocatedRequests, MatchedRequests, JudgedRequests,
     CancelRequests

\* The clock moves a day only when every request has caught up with it.
LEMMA TodayStep == AccessInv /\ [Next]_vars => RequestsAreOfToday'
<1> SUFFICES ASSUME AccessInv, [Next]_vars
             PROVE  RequestsAreOfToday'
  OBVIOUS
<1>1. TypeOK /\ RequestsAreOfToday /\ now \in Nat
  BY DEF AccessInv, TrackInv, ReadingInv, TypeOK
<1>2. ASSUME NEW w \in Workers, Arrive(w) \/ Continue(w)
      PROVE  RequestsAreOfToday'
  <2>1. now' = now
    BY <1>2, RequestKeepsItsTime
  <2>2. PICK next :
          /\ Run(w, next)
          /\ next.phase \in Callbacks \cup {"canceling"} =>
               next.now = now \/ (op[w].phase \in Callbacks /\ next.now = op[w].now)
    BY <1>2, RequestKeepsItsTime
  <2>3. \A v \in Workers : op'[v] = IF v = w THEN next ELSE op[v]
    BY <1>1, <2>2 DEF Run, TypeOK
  <2> QED
    BY <1>1, <2>1, <2>2, <2>3 DEF RequestsAreOfToday
<1>3. CASE ProviderStep \/ UNCHANGED vars
  BY <1>1, <1>3 DEF ProviderStep, vars, RequestsAreOfToday
<1>4. CASE Tick
  <2>1. op' = op /\ now' = now + 1
    BY <1>4 DEF Tick
  <2>2. ASSUME NEW w \in Workers, op[w].phase \in Callbacks \cup {"canceling"}
        PROVE  op[w].now = now
    BY <1>1, <1>4, <2>2, RequestsKeepTime DEF Tick
  <2> QED
    BY <1>1, <2>1, <2>2 DEF RequestsAreOfToday
<1> QED
  BY <1>2, <1>3, <1>4 DEF Next

\* In every state a row that grants access has the date it ends on.
THEOREM AccessCorrect == Spec => []AccessInv
<1>1. Init => RowHasItsDates /\ RequestsAreOfToday
  <2> SUFFICES ASSUME Init
               PROVE  RowHasItsDates /\ RequestsAreOfToday
    OBVIOUS
  <2>1. RequestsAreOfToday
    BY DEF Init, RequestsAreOfToday, Idle, Callbacks
  <2>2. CASE sub = NewSubscription
    <3>1. sub.status = "PENDING" /\ sub.order = NoOrder
      BY <2>2 DEF NewSubscription
    <3> QED
      BY <2>1, <3>1 DEF RowHasItsDates
  <2>3. ASSUME NEW o \in LegacyOrders, sub = LegacySubscription(o)
        PROVE  RowHasItsDates
    <3>1. sub.status = "ACTIVE" /\ sub.period = 1 + Month
      BY <2>3 DEF LegacySubscription, NewSubscription
    <3> QED
      BY <3>1, PeriodAssumption DEF RowHasItsDates, NoDate
  <2> QED
    BY <2>1, <2>2, <2>3 DEF Init
<1>2. AccessInv /\ [Next]_vars => (RowHasItsDates /\ RequestsAreOfToday)'
  BY RowDatesStep, TodayStep
<1>3. AccessInv <=> TrackInv /\ RowHasItsDates /\ RequestsAreOfToday
  BY DEF AccessInv
<1> QED
  BY <1>1, <1>2, <1>3, TrackCorrect, PTL DEF Spec

\* The clock only goes forward.
LEMMA TimePasses ==
    ASSUME TypeOK, [Next]_vars
    PROVE  now' \in Nat /\ now <= now'
<1>1. now \in Nat
  BY DEF TypeOK
<1>2. now' = now \/ now' = now + 1
  BY DEF Next, vars, ProviderStep, Tick, Arrive, Continue, StartCheckout,
         RequestCancellation, DeliverCallback, ReuseCheckout, CreateCheckoutOrder,
         FindCheckoutOrder, FindSubscription, UnknownOrder, FindPaymentHistory,
         AnswerDuplicate, ReapplyStale, CommitCallback, CommitCancellation,
         CancellationConflict, StopAccepted, StopUnconfirmed, ResolveUnsubscribeRequest, Abort
<1> QED
  BY <1>1, <1>2

\* A decision that credits nothing returns no access to a row that lost it.
LEMMA DecisionReturnsNoAccess ==
    ASSUME AccessInv, NEW w \in Workers, CommitCallback(w), NEW t \in Decision(op[w]),
           Outcome(op[w]) # "paid", ~FullAccess(sub, now)
    PROVE  ~FullAccess(sub', now)
<1> DEFINE c == op[w]
<1>1. /\ ReadingInv /\ TypeOK /\ RowHasItsDates /\ sub \in SubscriptionRows /\ now \in Nat
  BY DEF AccessInv, TrackInv, ReadingInv, TypeOK
<1>2. /\ c \in JudgedRequests /\ c.seen = sub /\ c.now \in Nat /\ IsNew(c) \in BOOLEAN
      /\ t \in TransitionForCallbackStatus(sub, c.event.status, c.now, IsNew(c))
      /\ sub'.status = t.status /\ sub'.grace = t.grace
      /\ sub'.cancelRequested = t.cancelRequested
      /\ sub'.exempt = sub.exempt /\ sub'.restrictAfter = sub.restrictAfter
      /\ t \in Transitions
  BY <1>1, CommitDecided DEF JudgedRequests, IsNew
<1>3. ~sub.exempt
  BY DEF FullAccess, ResolveEntitlements
<1>4. sub.order # NoOrder
  <2>1. ~IsNew(c) /\ Role(c) # "retired-checkout"
    BY <1>2, JudgedDecision, NewCheckoutDecides
  <2>2. c.checkout = "NONE" => c.seen.order = c.event.order
    BY DEF CommitCallback, AccessInv, TrackInv, RequestsAreTrue
  <2>3. sub.order = c.event.order /\ c.event.order \in Orders
    BY <1>2, <2>1, <2>2, RoleOfOrder DEF JudgedRequests, Events
  <2> QED
    BY <2>3, OrderAssumption
<1>5. sub.status # "PENDING"
  BY <1>1, <1>4 DEF RowHasItsDates
<1>6. CASE sub.cancelRequested
  <2>1. t.cancelRequested /\ t.grace <= sub.grace
    <3>1. t \in ChargebackTransition(sub, c.now)
      BY <1>2, <1>6 DEF TransitionForCallbackStatus, When, Outcome
    <3> QED
      BY <1>1, <1>2, <1>6, <3>1, PeriodAssumption
      DEF ChargebackTransition, Transition, SubscriptionRows
  <2>2. ~(now < sub.grace)
    BY <1>3, <1>6 DEF FullAccess, ResolveEntitlements, AccessUntil, IsBeforeDeadline
  <2>3. ~(now < sub'.grace)
    BY <1>1, <1>2, <2>1, <2>2 DEF SubscriptionRows, Transitions
  <2> QED
    BY <1>2, <1>3, <2>1, <2>3
    DEF FullAccess, ResolveEntitlements, AccessUntil, IsBeforeDeadline
<1>7. CASE ~sub.cancelRequested
  <2>1. sub.status # "ACTIVE" /\ (sub.status = "PAST_DUE" => ~(now < sub.grace))
    BY <1>3, <1>7 DEF FullAccess, ResolveEntitlements, RulesByStatus, AccessUntil, IsBeforeDeadline
  <2>2. \/ t = CancellationTransition(sub, c.now)
        \/ t = FailedTransition(sub, c.now) /\ sub.status \notin {"RESTRICTED", "CANCELED"}
    BY <1>2, <1>7 DEF TransitionForCallbackStatus, When, Outcome
  <2>3. CASE t = CancellationTransition(sub, c.now)
    <3>1. t.cancelRequested
      BY <1>1, <1>2, <2>3, CancellationType
    <3>2. t.grace # NoDate => sub.status = "PAST_DUE" /\ t.grace = sub.grace
      BY <1>1, <1>2, <1>7, <2>1, <2>3, CancellationKeepsDates DEF RowHasItsDates
    <3>3. ~(now < sub'.grace)
      BY <1>1, <1>2, <2>1, <3>2 DEF NoDate
    <3> QED
      BY <1>2, <1>3, <3>1, <3>3 DEF FullAccess, ResolveEntitlements, AccessUntil, IsBeforeDeadline
  <2>4. CASE t = FailedTransition(sub, c.now) /\ sub.status \notin {"RESTRICTED", "CANCELED"}
    <3>1. sub.status = "PAST_DUE" /\ sub.grace # NoDate
      BY <1>1, <1>5, <2>1, <2>4 DEF RowHasItsDates, SubscriptionRows, SubscriptionStatuses
    <3>2. t.status = "PAST_DUE" /\ t.grace = sub.grace /\ ~t.cancelRequested
      BY <2>4, <3>1 DEF FailedTransition, Transition
    <3>3. ~(now < sub'.grace)
      BY <1>2, <2>1, <3>1, <3>2
    <3> QED
      BY <1>2, <1>3, <3>2, <3>3
      DEF FullAccess, ResolveEntitlements, RulesByStatus, AccessUntil, IsBeforeDeadline
  <2> QED
    BY <2>2, <2>3, <2>4
<1> QED
  BY <1>6, <1>7

\* A cancellation returns no access to a row that lost it.
LEMMA CancellationReturnsNoAccess ==
    ASSUME AccessInv, NEW w \in Workers, CommitCancellation(w), ~FullAccess(sub, now)
    PROVE  ~FullAccess(sub', now)
<1> DEFINE t == CancellationTransition(sub, op[w].now)
<1>1. ReadingInv /\ RowHasItsDates /\ sub \in SubscriptionRows /\ now \in Nat
  BY DEF AccessInv, TrackInv, ReadingInv, TypeOK
<1>2. /\ op[w].now \in Nat /\ t \in Transitions
      /\ sub'.grace = t.grace /\ sub'.cancelRequested /\ sub'.exempt = sub.exempt
  BY <1>1, CancellationCommitted
<1>3. ~sub.exempt
  BY DEF FullAccess, ResolveEntitlements
<1>4. /\ sub.cancelRequested => ~(now < sub.grace)
      /\ ~sub.cancelRequested =>
           sub.status # "ACTIVE" /\ (sub.status = "PAST_DUE" => ~(now < sub.grace))
  BY <1>3 DEF FullAccess, ResolveEntitlements, RulesByStatus, AccessUntil, IsBeforeDeadline
<1>5. /\ sub.cancelRequested => t.grace = sub.grace
      /\ ~sub.cancelRequested /\ t.grace # NoDate /\ sub.status # "ACTIVE" =>
           sub.status = "PAST_DUE" /\ t.grace = sub.grace
  BY <1>1, <1>2, CancellationKeepsDates DEF RowHasItsDates
<1>6. ~(now < sub'.grace)
  BY <1>1, <1>2, <1>4, <1>5 DEF NoDate
<1> QED
  BY <1>2, <1>3, <1>6 DEF FullAccess, ResolveEntitlements, AccessUntil, IsBeforeDeadline

\* Full access, once over, comes back only with a credited payment: no failed charge,
\* reversal or cancellation returns it, however late or twice it is delivered.
THEOREM AccessReturnsPaid == Spec => AccessReturnsOnlyWhenPaid
<1>1. AccessInv /\ [Next]_vars =>
        [~FullAccess(sub, now) /\ FullAccess(sub', now') =>
           \/ CreditedNow # {}
           \/ sub'.exempt
           \/ sub'.restrictAfter # sub.restrictAfter]_vars
  <2> SUFFICES ASSUME AccessInv, [Next]_vars, ~FullAccess(sub, now), FullAccess(sub', now')
               PROVE  CreditedNow # {}
    OBVIOUS
  <2>1. ReadingInv /\ TypeOK /\ sub \in SubscriptionRows /\ now \in Nat
    BY DEF AccessInv, TrackInv, ReadingInv, TypeOK
  <2>2. ASSUME NEW w \in Workers, CommitCallback(w)
        PROVE  CreditedNow # {}
    <3>1. now' = now
      BY <2>2 DEF CommitCallback
    <3>2. PICK t \in Decision(op[w]) : TRUE
      BY <2>2, <3>1, CommitLeavesRow
    <3>3. Outcome(op[w]) = "paid"
      BY <2>2, <3>1, <3>2, DecisionReturnsNoAccess
    <3> QED
      BY <2>2, <3>2, <3>3, CreditsOfCommit DEF Credited
  <2>3. ASSUME NEW w \in Workers, CommitCancellation(w)
        PROVE  FALSE
    <3>1. now' = now
      BY <2>3 DEF CommitCancellation
    <3> QED
      BY <2>3, <3>1, CancellationReturnsNoAccess
  <2>4. CASE ~\E w \in Workers : CommitCallback(w) \/ CommitCancellation(w)
    <3>1. sub' = sub
      BY <2>1, <2>4, RowUntouched
    <3>2. now' \in Nat /\ now <= now'
      BY <2>1, TimePasses
    <3>3. FullAccess(sub, now')
      BY <3>1
    <3> QED
      BY <2>1, <3>2, <3>3, AccessRunsOut
  <2> QED
    BY <2>2, <2>3, <2>4
<1> QED
  BY <1>1, AccessCorrect, PTL DEF Spec, AccessReturnsOnlyWhenPaid

\* A cancellation, by the owner or at LiqPay, keeps the paid period and its grace.
THEOREM CancellationKeepsPaid == Spec => CancellationKeepsPaidTime
<1>1. AccessInv /\ [Next]_vars =>
        [~sub.cancelRequested /\ sub'.cancelRequested /\ sub.status = "ACTIVE" =>
           sub'.grace = sub.period + GracePeriod \/ sub.period + GracePeriod <= now]_vars
  <2> SUFFICES ASSUME AccessInv, [Next]_vars, ~sub.cancelRequested, sub'.cancelRequested,
                      sub.status = "ACTIVE"
               PROVE  sub'.grace = sub.period + GracePeriod \/ sub.period + GracePeriod <= now
    OBVIOUS
  <2>1. /\ ReadingInv /\ TypeOK /\ sub \in SubscriptionRows /\ now \in Nat
        /\ RowHasItsDates /\ RequestsAreOfToday
    BY DEF AccessInv, TrackInv, ReadingInv, TypeOK
  <2>2. ASSUME NEW at \in Nat, at <= now, sub'.grace = CancellationTransition(sub, at).grace
        PROVE  sub'.grace = sub.period + GracePeriod \/ sub.period + GracePeriod <= now
    <3>1. \/ CancellationTransition(sub, at).grace = sub.period + GracePeriod
          \/ sub.period + GracePeriod <= at
      BY <2>1, CancellationKeepsDates DEF RowHasItsDates
    <3> QED
      BY <2>1, <2>2, <3>1, PeriodAssumption DEF SubscriptionRows
  <2>3. ASSUME NEW w \in Workers, CommitCallback(w)
        PROVE  sub'.grace = sub.period + GracePeriod \/ sub.period + GracePeriod <= now
    <3> DEFINE c == op[w]
    <3>1. PICK t \in Decision(c) : TRUE
      BY <2>3, CommitLeavesRow
    <3>2. /\ c \in JudgedRequests /\ c.seen = sub /\ c.now \in Nat /\ IsNew(c) \in BOOLEAN
          /\ t \in TransitionForCallbackStatus(sub, c.event.status, c.now, IsNew(c))
          /\ sub'.grace = t.grace /\ sub'.cancelRequested = t.cancelRequested
      BY <2>1, <2>3, <3>1, CommitDecided DEF JudgedRequests, IsNew
    <3>3. t = CancellationTransition(sub, c.now)
      <4>1. \/ t = PaidTransition(sub, c.now, IsNew(c))
            \/ t = CancellationTransition(sub, c.now)
            \/ t = FailedTransition(sub, c.now)
        BY <3>2 DEF TransitionForCallbackStatus, When
      <4>2. t.cancelRequested
        BY <3>2
      <4>3. t # PaidTransition(sub, c.now, IsNew(c))
        BY <4>2 DEF PaidTransition, Transition
      <4>4. t # FailedTransition(sub, c.now)
        BY <4>2 DEF FailedTransition, Transition
      <4> QED
        BY <4>1, <4>3, <4>4
    <3>4. c.now <= now
      BY <2>1, <2>3 DEF RequestsAreOfToday, CommitCallback, Callbacks
    <3> QED
      BY <2>2, <3>2, <3>3, <3>4
  <2>4. ASSUME NEW w \in Workers, CommitCancellation(w)
        PROVE  sub'.grace = sub.period + GracePeriod \/ sub.period + GracePeriod <= now
    <3>1. op[w].now \in Nat /\ sub'.grace = CancellationTransition(sub, op[w].now).grace
      BY <2>1, <2>4, CancellationCommitted
    <3>2. op[w].now <= now
      BY <2>1, <2>4 DEF RequestsAreOfToday, CommitCancellation
    <3> QED
      BY <2>2, <3>1, <3>2
  <2>5. CASE ~\E w \in Workers : CommitCallback(w) \/ CommitCancellation(w)
    BY <2>1, <2>5, RowUntouched
  <2> QED
    BY <2>3, <2>4, <2>5
<1> QED
  BY <1>1, AccessCorrect, PTL DEF Spec, CancellationKeepsPaidTime

-----------------------------------------------------------------------------
(* No order is stopped that a subscription renews by.                        *)

\* The subscription no longer renews by order o, and never will again: its page was paid
\* once, or will not be paid any more.
Over(o) ==
    /\ checkouts[o] = "ABANDONED" \/ WasLive(o)
    /\ o = sub.order => sub.cancelRequested

CancellationsAreMarked == sub.status = "CANCELED" => sub.cancelRequested

QueuedAreOver == \A o \in Orders : requests[o] = "open" => Over(o)

\* What callback c has read says that its order is not to be charged.
TurnsAway(c) ==
    \/ c.checkout = "ABANDONED"
    \/ c.checkout = "PAID" /\ c.seen.order # c.event.order
    \/ c.seen.order = c.event.order /\ c.seen.cancelRequested

\* What callbacks have read of closed checkouts, and what they will stop orders for, stands;
\* so does what requests to stop an order go by.
StandsFor(c) ==
    /\ c.phase \in {"located", "matched", "judged"} /\ c.checkout \in {"PAID", "ABANDONED"} =>
         checkouts[c.event.order] = c.checkout
    /\ c.phase \in {"matched", "judged"} =>
         /\ c.seen.status = "CANCELED" => c.seen.cancelRequested
         /\ TurnsAway(c) => Over(c.event.order)
    /\ c.phase = "canceling" => ~c.seen.cancelRequested
    /\ c.phase = "stopping" => Over(c.order)

ReadingsStand == \A w \in Workers : StandsFor(op[w])

\* The inductive invariant: every order that is queued, or about to be, is over.
StopInv == TrackInv /\ CancellationsAreMarked /\ QueuedAreOver /\ ReadingsStand

\* A checkout that is closed stays as it is.
LEMMA ClosedStays ==
    ASSUME TypeOK, [Next]_vars, NEW o \in Orders, checkouts[o] \in {"PAID", "ABANDONED"}
    PROVE  checkouts'[o] = checkouts[o]
<1>1. ASSUME NEW w \in Workers, CommitCallback(w)
      PROVE  checkouts'[o] = checkouts[o]
  <2> DEFINE c == op[w]
  <2>1. c.event.order \in Orders
    BY <1>1, OrdersOfRequests DEF CommitCallback, Callbacks
  <2>2. ClosesCheckout(c) => checkouts[c.event.order] = "PROPOSED"
    BY <1>1 DEF CommitCallback, Stale
  <2> QED
    BY <1>1, <2>1, <2>2 DEF CommitCallback, ClosesCheckout, AbandonProposed, TypeOK
<1>2. CASE \E w \in Workers : CommitCancellation(w)
  BY <1>2 DEF CommitCancellation, AbandonProposed, TypeOK
<1>3. CASE \E w \in Workers : CreateCheckoutOrder(w)
  BY <1>3 DEF CreateCheckoutOrder, TypeOK
<1>4. CASE ~\E w \in Workers :
             CommitCallback(w) \/ CommitCancellation(w) \/ CreateCheckoutOrder(w)
  BY <1>4, CheckoutsUntouched
<1> QED
  BY <1>1, <1>2, <1>3, <1>4

\* An order that is over does not come back: only a page that is still offered is paid.
LEMMA OverStays ==
    ASSUME TrackInv, [Next]_vars, NEW o \in Orders, Over(o)
    PROVE  Over(o)'
<1>1. ReadingInv /\ TypeOK
  BY DEF TrackInv, ReadingInv
<1>2. (checkouts[o] = "ABANDONED" \/ WasLive(o))'
  BY <1>1, ClosedStays, WasLiveStays DEF Over
<1>3. o = sub'.order => sub'.cancelRequested
  <2>0. SUFFICES ASSUME o = sub'.order, ~sub'.cancelRequested
               PROVE  FALSE
    OBVIOUS
  <2>1. o # sub.order
    <3> SUFFICES ASSUME o = sub.order
                 PROVE  FALSE
      OBVIOUS
    <3>1. sub.cancelRequested
      BY DEF Over
    <3> QED
      BY <1>1, <2>0, <3>1, RenewalStep
  <2>2. ASSUME NEW w \in Workers, CommitCallback(w)
        PROVE  FALSE
    <3>1. PaysCheckout(op[w]) /\ o = op[w].event.order
      BY <1>1, <2>0, <2>1, <2>2, LiveOrderOfCommit
    <3>2. checkouts[o] = "PROPOSED"
      BY <2>2, <3>1 DEF CommitCallback, Stale, ClosesCheckout
    <3> QED
      BY <3>2 DEF Over, WasLive
  <2>3. ASSUME NEW w \in Workers, CommitCancellation(w)
        PROVE  FALSE
    BY <1>1, <2>0, <2>1, <2>3, CancellationCommitted
  <2> QED
    BY <1>1, <2>0, <2>1, <2>2, <2>3, RowUntouched
<1> QED
  BY <1>2, <1>3 DEF Over

\* A subscription is CANCELED only by a cancellation.
LEMMA MarkedStep == ReadingInv /\ CancellationsAreMarked /\ [Next]_vars => CancellationsAreMarked'
<1> SUFFICES ASSUME ReadingInv, CancellationsAreMarked, [Next]_vars, sub'.status = "CANCELED"
             PROVE  sub'.cancelRequested
  BY DEF CancellationsAreMarked
<1>1. TypeOK
  BY DEF ReadingInv
<1>2. ASSUME NEW w \in Workers, CommitCallback(w)
      PROVE  sub'.cancelRequested
  <2> DEFINE c == op[w]
  <2>1. CASE Decision(c) = {}
    BY <1>2, <2>1, CommitLeavesRow DEF CancellationsAreMarked
  <2>2. ASSUME NEW t \in Decision(c)
        PROVE  sub'.cancelRequested
    <3>1. /\ c \in JudgedRequests /\ c.now \in Nat /\ sub \in SubscriptionRows
          /\ t \in TransitionForCallbackStatus(sub, c.event.status, c.now, IsNew(c))
          /\ t.status = "CANCELED" /\ sub'.cancelRequested = t.cancelRequested
      BY <1>1, <1>2, <2>2, CommitDecided DEF JudgedRequests, TypeOK
    <3>2. \/ t = PaidTransition(sub, c.now, IsNew(c))
          \/ t = CancellationTransition(sub, c.now)
          \/ t \in ChargebackTransition(sub, c.now)
          \/ t = FailedTransition(sub, c.now)
      BY <3>1 DEF TransitionForCallbackStatus, When
    <3>3. t # PaidTransition(sub, c.now, IsNew(c)) /\ t # FailedTransition(sub, c.now)
      BY <3>1 DEF PaidTransition, FailedTransition, Transition
    <3>4. CASE t = CancellationTransition(sub, c.now)
      BY <3>1, <3>4, CancellationType
    <3>5. CASE t \in ChargebackTransition(sub, c.now)
      <4>1. t.status = sub.status /\ t.cancelRequested = sub.cancelRequested
        BY <3>5 DEF ChargebackTransition, Transition
      <4> QED
        BY <3>1, <4>1 DEF CancellationsAreMarked
    <3> QED
      BY <3>2, <3>3, <3>4, <3>5
  <2> QED
    BY <2>1, <2>2
<1>3. ASSUME NEW w \in Workers, CommitCancellation(w)
      PROVE  sub'.cancelRequested
  BY <1>3, CancellationCommitted
<1>4. CASE ~\E w \in Workers : CommitCallback(w) \/ CommitCancellation(w)
  BY <1>1, <1>4, RowUntouched DEF CancellationsAreMarked
<1> QED
  BY <1>2, <1>3, <1>4

\* Why a commit stops an order: it was turned away when the callback was judged, it is of a
\* page this commit takes back, or the commit replaces it.
LEMMA StoppedIsOver ==
    ASSUME StopInv, [Next]_vars, NEW w \in Workers, CommitCallback(w),
           NEW o \in OrderToStop(op[w])
    PROVE  o \in Orders /\ Over(o)'
<1> DEFINE c == op[w]
<1>1. TrackInv /\ ReadingInv /\ TypeOK
  BY DEF StopInv, TrackInv, ReadingInv
<1>2. /\ c \in JudgedRequests /\ c.phase = "judged" /\ c.event.order \in Orders
      /\ c.checkout = "NONE" => c.seen.order = c.event.order
      /\ c.seen.order # NoOrder => WasLive(c.seen.order)
      /\ StandsFor(c)
  BY <1>1, PhaseType DEF CommitCallback, TypeOK, TrackInv, RequestsAreTrue, Reading,
     JudgedRequests, Events, StopInv, ReadingsStand
<1>3. o \in Orders
  BY <1>2, OrderToStopType
<1>4. \/ o = c.event.order /\ Role(c) = "retired-checkout"
      \/ o = c.event.order /\ ~IsNew(c) /\ (c.seen.cancelRequested \/ c.seen.status = "CANCELED")
      \/ o = c.event.order /\ Blocked(c) /\ IsNew(c)
      \/ o = c.seen.order /\ o # NoOrder /\ o # c.event.order /\ PaysCheckout(c)
  BY DEF OrderToStop, PaysCheckout
<1>5. CASE o = c.event.order /\ TurnsAway(c)
  BY <1>1, <1>2, <1>3, <1>5, OverStays DEF StandsFor
<1>6. Role(c) = "retired-checkout" => TurnsAway(c)
  <2>1. c.checkout \in CheckoutStatuses
    BY <1>2 DEF JudgedRequests
  <2> QED
    BY <2>1 DEF Role, CallbackRole, TurnsAway, CheckoutStatuses
<1>7. ASSUME ~IsNew(c), c.seen.cancelRequested \/ c.seen.status = "CANCELED"
      PROVE  TurnsAway(c)
  <2>1. c.seen.cancelRequested
    BY <1>2, <1>7 DEF StandsFor
  <2>2. Role(c) = "retired-checkout" \/ c.seen.order = c.event.order
    BY <1>2, <1>7, RoleOfOrder
  <2> QED
    BY <1>6, <2>1, <2>2 DEF TurnsAway
<1>8. CASE o = c.event.order /\ Blocked(c) /\ IsNew(c)
  <2>1. Decision(c) = {} /\ ~PaysCheckout(c) /\ c.checkout = "PROPOSED"
    <3>1. c.checkout \in CheckoutStatuses
      BY <1>2 DEF JudgedRequests
    <3> QED
      BY <1>8, <3>1 DEF Decision, PaysCheckout, Activated, IsNew, Role, CallbackRole,
         CheckoutStatuses
  <2>2. AbandonsCheckout(c) /\ checkouts[o] = "PROPOSED"
    BY <1>8, <2>1 DEF AbandonsCheckout, CommitCallback, Stale, ClosesCheckout
  <2>3. checkouts'[o] = "ABANDONED"
    BY <1>1, <1>3, <1>8, <2>1, <2>2 DEF CommitCallback, AbandonProposed, TypeOK
  <2>4. sub' = sub /\ o # sub.order
    <3>1. ~WasLive(o) /\ o # NoOrder
      BY <1>3, <2>2, OrderAssumption DEF WasLive
    <3> QED
      BY <1>1, <2>1, <3>1, CommitLeavesRow DEF TrackInv, LiveOrderWasLive
  <2> QED
    BY <1>3, <2>3, <2>4 DEF Over
<1>9. CASE o = c.seen.order /\ o # NoOrder /\ o # c.event.order /\ PaysCheckout(c)
  <2>1. sub'.order = c.event.order
    BY <1>1, <1>9, LiveOrderOfCommit
  <2>2. WasLive(o)'
    BY <1>1, <1>2, <1>3, <1>9, WasLiveStays
  <2> QED
    BY <1>3, <1>9, <2>1, <2>2 DEF Over
<1> QED
  BY <1>4, <1>5, <1>6, <1>7, <1>8, <1>9

\* A cancellation ends the renewals of the order it stops.
LEMMA CanceledIsOver ==
    ASSUME TrackInv, [Next]_vars, NEW w \in Workers, CommitCancellation(w),
           NEW o, o = op[w].seen.order
    PROVE  o \in Orders /\ o = sub.order /\ Over(o)'
<1>1. ReadingInv /\ TypeOK
  BY DEF TrackInv, ReadingInv
<1>2. o = sub.order /\ o \in Orders
  BY <1>1, PhaseType DEF ReadingInv, Fresh, TypeOK, CommitCancellation, CancelRequests, Reading
<1>3. sub'.order = sub.order /\ sub'.cancelRequested
  BY <1>1, CancellationCommitted
<1>4. WasLive(o)
  BY <1>2, OrderAssumption DEF TrackInv, LiveOrderWasLive
<1>5. WasLive(o)'
  BY <1>1, <1>2, <1>4, WasLiveStays
<1> QED
  BY <1>2, <1>3, <1>5 DEF Over

\* Whatever a step queues is over.
LEMMA QueuedStep == StopInv /\ [Next]_vars => QueuedAreOver'
<1> SUFFICES ASSUME StopInv, [Next]_vars, NEW o \in Orders, requests'[o] = "open"
             PROVE  Over(o)'
  BY DEF QueuedAreOver, Over, WasLive
<1>1. TrackInv /\ TypeOK
  BY DEF StopInv, TrackInv, ReadingInv
<1>2. CASE requests[o] = "open"
  BY <1>1, <1>2, OverStays DEF StopInv, QueuedAreOver
<1>3. ASSUME NEW w \in Workers, CommitCallback(w), requests[o] # "open"
      PROVE  Over(o)'
  <2>1. o \in OrderToStop(op[w])
    BY <1>3 DEF CommitCallback, QueueUnsubscribe, ResolveUnsubscribe
  <2> QED
    BY <1>3, <2>1, StoppedIsOver
<1>4. ASSUME NEW w \in Workers, CommitCancellation(w), requests[o] # "open"
      PROVE  Over(o)'
  <2>1. o = op[w].seen.order
    BY <1>4 DEF CommitCancellation, QueueUnsubscribe
  <2> QED
    BY <1>1, <1>4, <2>1, CanceledIsOver
<1>5. ASSUME NEW w \in Workers, ResolveUnsubscribeRequest(w)
      PROVE  requests[o] = "open"
  BY <1>5 DEF ResolveUnsubscribeRequest, ResolveUnsubscribe
<1> QED
  BY <1>2, <1>3, <1>4, <1>5, QueueUntouched

\* What a request stands for is not undone by a later step.
LEMMA StandingStays ==
    ASSUME StopInv, [Next]_vars, NEW c \in Requests, StandsFor(c)
    PROVE  StandsFor(c)'
<1>1. TrackInv /\ TypeOK
  BY DEF StopInv, TrackInv, ReadingInv
<1>2. /\ c.phase \in {"located", "matched", "judged"} => c.event.order \in Orders
      /\ c.phase = "stopping" => c.order \in Orders
  BY PhaseType DEF LocatedRequests, MatchedRequests, JudgedRequests, StopRequests, Events
<1>3. /\ c.phase \in {"located", "matched", "judged"} /\ c.checkout \in {"PAID", "ABANDONED"} =>
           checkouts'[c.event.order] = c.checkout
  BY <1>1, <1>2, ClosedStays DEF StandsFor
<1>4. c.phase \in {"matched", "judged"} /\ TurnsAway(c) => Over(c.event.order)'
  <2> SUFFICES ASSUME c.phase \in {"matched", "judged"}, TurnsAway(c)
               PROVE  Over(c.event.order)'
    OBVIOUS
  <2>1. Over(c.event.order) /\ c.event.order \in Orders
    BY <1>2 DEF StandsFor
  <2> QED
    BY <1>1, <2>1, OverStays
<1>5. c.phase = "stopping" => Over(c.order)'
  <2> SUFFICES ASSUME c.phase = "stopping"
               PROVE  Over(c.order)'
    OBVIOUS
  <2>1. Over(c.order) /\ c.order \in Orders
    BY <1>2 DEF StandsFor
  <2> QED
    BY <1>1, <2>1, OverStays
<1> QED
  BY <1>3, <1>4, <1>5 DEF StandsFor, TurnsAway

\* After a step of w, when what it goes on with stands.
LEMMA StandingRequestRuns ==
    ASSUME StopInv, [Next]_vars, NEW w \in Workers, NEW next, Run(w, next), StandsFor(next)'
    PROVE  ReadingsStand'
<1>1. TypeOK /\ ReadingsStand
  BY DEF StopInv, TrackInv, ReadingInv
<1> SUFFICES ASSUME NEW v \in Workers
             PROVE  StandsFor(op[v])'
  BY DEF ReadingsStand
<1>2. PICK c : c = op'[v]
  OBVIOUS
<1>3. StandsFor(c)'
  <2>1. CASE v = w
    <3>1. c = next
      BY <1>1, <1>2, <2>1 DEF Run, TypeOK
    <3> QED
      BY <3>1
  <2>2. CASE v # w
    <3>1. c = op[v] /\ c \in Requests
      BY <1>1, <1>2, <2>2 DEF Run, TypeOK
    <3>2. StandsFor(c)
      BY <1>1, <3>1 DEF ReadingsStand
    <3> QED
      BY <3>1, <3>2, StandingStays
  <2> QED
    BY <2>1, <2>2
<1> QED
  BY <1>2, <1>3 DEF StandsFor, TurnsAway, Over, WasLive

\* What a callback reads, and the order a commit goes on to stop, stand for what they say.
LEMMA ReadingsStandStep == StopInv /\ [Next]_vars => ReadingsStand'
<1> SUFFICES ASSUME StopInv, [Next]_vars
             PROVE  ReadingsStand'
  OBVIOUS
<1>1. TrackInv /\ TypeOK /\ ReadingsStand /\ LiveOrderWasLive /\ CancellationsAreMarked
  BY DEF StopInv, TrackInv, ReadingInv
<1>2. ASSUME NEW w \in Workers, NEW next, Run(w, next),
             next.phase \notin {"located", "matched", "judged", "canceling", "stopping"}
      PROVE  ReadingsStand'
  <2>1. StandsFor(next)'
    BY <1>2 DEF StandsFor
  <2> QED
    BY <1>2, <2>1, StandingRequestRuns
<1>3. ASSUME NEW w \in Workers, Arrive(w) \/ Continue(w)
      PROVE  ReadingsStand'
  <2> DEFINE c == op[w]
  <2>0. StandsFor(c)
    BY <1>1 DEF ReadingsStand
  <2>1. CASE \/ StartCheckout(w) \/ ReuseCheckout(w) \/ CreateCheckoutOrder(w)
             \/ UnknownOrder(w) \/ AnswerDuplicate(w) \/ CancellationConflict(w)
             \/ StopUnconfirmed(w) \/ ResolveUnsubscribeRequest(w) \/ Abort(w)
             \/ StopAccepted(w)
    <3>1. PICK next : /\ Run(w, next)
                      /\ next.phase \in {"idle", "offering", "stopped"}
      BY <2>1 DEF StartCheckout, ReuseCheckout, CreateCheckoutOrder, UnknownOrder,
         AnswerDuplicate, CancellationConflict, StopUnconfirmed, ResolveUnsubscribeRequest,
         Abort, StopAccepted, Stopped, Idle
    <3> QED
      BY <1>2, <3>1
  <2>8. CASE \E event \in sent : DeliverCallback(w, event)
    <3>1. PICK next : Run(w, next) /\ next.phase = "received"
      BY <2>8 DEF DeliverCallback, Received
    <3> QED
      BY <1>2, <3>1
  <2>9. CASE RequestCancellation(w)
    <3>1. PICK next : Run(w, next) /\ next.phase = "canceling" /\ ~next.seen.cancelRequested
      BY <2>9 DEF RequestCancellation, CanRequestCancellation
    <3>2. StandsFor(next)'
      BY <3>1 DEF StandsFor
    <3> QED
      BY <3>1, <3>2, StandingRequestRuns
  <2>2. CASE ReapplyStale(w)
    <3>1. PICK next : Run(w, next) /\ next.phase \in {"received", "idle"}
      BY <2>2 DEF ReapplyStale, Received, Idle
    <3> QED
      BY <1>2, <3>1
  <2>3. CASE FindCheckoutOrder(w)
    <3>1. PICK next : /\ Run(w, next) /\ next.phase = "located"
                      /\ next.checkout = checkouts[next.event.order]
      BY <2>3 DEF FindCheckoutOrder
    <3>2. checkouts' = checkouts
      BY <2>3 DEF FindCheckoutOrder, rowVars
    <3>3. StandsFor(next)'
      BY <3>1, <3>2 DEF StandsFor
    <3> QED
      BY <3>1, <3>3, StandingRequestRuns
  <2>4. CASE FindSubscription(w)
    <3>1. PICK next : /\ Run(w, next) /\ next.phase = "matched"
                      /\ next.seen = sub /\ next.event = c.event
                      /\ next.checkout = c.checkout
      BY <2>4 DEF FindSubscription
    <3>2. checkouts' = checkouts /\ sub' = sub /\ recurring' = recurring
      BY <2>4 DEF FindSubscription, rowVars, liqPayVars
    <3>3. PICK o \in Orders : o = next.event.order
      BY <1>1, <2>4, <3>1, OrdersOfRequests DEF FindSubscription, Callbacks
    <3>4. o = sub.order => WasLive(o)
      BY <1>1, OrderAssumption DEF LiveOrderWasLive
    <3>5. next.checkout \in {"PAID", "ABANDONED"} => checkouts[o] = next.checkout
      BY <2>0, <2>4, <3>1, <3>3 DEF FindSubscription, StandsFor
    <3>6. TurnsAway(next) => Over(o)
      BY <3>1, <3>3, <3>4, <3>5 DEF TurnsAway, Over, WasLive
    <3>7. TurnsAway(next) => Over(o)'
      BY <3>2, <3>6 DEF Over, WasLive
    <3>8. next.seen.status = "CANCELED" => next.seen.cancelRequested
      BY <1>1, <3>1 DEF CancellationsAreMarked
    <3>9. StandsFor(next)'
      <4>1. next.checkout \in {"PAID", "ABANDONED"} => checkouts'[next.event.order] = next.checkout
        BY <3>2, <3>3, <3>5
      <4>2. TurnsAway(next) => Over(next.event.order)'
        BY <3>3, <3>7
      <4> QED
        BY <3>1, <3>8, <4>1, <4>2 DEF StandsFor, TurnsAway
    <3> QED
      BY <3>1, <3>9, StandingRequestRuns
  <2>5. CASE FindPaymentHistory(w)
    <3>1. PICK next : /\ Run(w, next) /\ next.phase = "judged"
                      /\ next.seen = c.seen /\ next.event = c.event
                      /\ next.checkout = c.checkout
      BY <2>5 DEF FindPaymentHistory
    <3>2. c.phase = "matched"
      BY <2>5 DEF FindPaymentHistory
    <3>3. checkouts' = checkouts /\ sub' = sub /\ recurring' = recurring
      BY <2>5 DEF FindPaymentHistory, rowVars, liqPayVars
    <3>4. StandsFor(next)
      BY <2>0, <3>1, <3>2 DEF StandsFor, TurnsAway
    <3>5. StandsFor(next)'
      BY <3>3, <3>4 DEF StandsFor, TurnsAway, Over, WasLive
    <3> QED
      BY <3>1, <3>5, StandingRequestRuns
  <2>6. CASE CommitCallback(w)
    <3>1. PICK next :
            /\ Run(w, next)
            /\ \/ next.phase = "idle"
               \/ next.phase = "stopping" /\ next.order \in OrderToStop(c)
      BY <2>6 DEF CommitCallback, StoppingAnyOf, Stopping, Idle
    <3>2. CASE next.phase = "idle"
      BY <1>2, <3>1, <3>2
    <3>3. CASE next.phase = "stopping" /\ next.order \in OrderToStop(c)
      <4>1. Over(next.order)'
        BY <2>6, <3>3, StoppedIsOver
      <4>2. StandsFor(next)'
        BY <3>3, <4>1 DEF StandsFor
      <4> QED
        BY <3>1, <4>2, StandingRequestRuns
    <3> QED
      BY <3>1, <3>2, <3>3
  <2>7. CASE CommitCancellation(w)
    <3>1. PICK next : /\ Run(w, next) /\ next.phase = "stopping"
                      /\ next.order = c.seen.order
      BY <2>7 DEF CommitCancellation, Stopping
    <3>2. Over(next.order)'
      BY <1>1, <2>7, <3>1, CanceledIsOver
    <3>3. StandsFor(next)'
      BY <3>1, <3>2 DEF StandsFor
    <3> QED
      BY <3>1, <3>3, StandingRequestRuns
  <2> QED
    BY <1>3, <2>1, <2>2, <2>3, <2>4, <2>5, <2>6, <2>7, <2>8, <2>9 DEF Arrive, Continue
<1>4. CASE ProviderStep \/ Tick \/ UNCHANGED vars
  <2>1. op' = op
    BY <1>4 DEF ProviderStep, Tick, vars
  <2> SUFFICES ASSUME NEW v \in Workers
               PROVE  StandsFor(op[v])'
    BY DEF ReadingsStand
  <2>2. PICK c : c = op[v]
    OBVIOUS
  <2>3. c \in Requests /\ StandsFor(c)
    BY <1>1, <2>2 DEF TypeOK, ReadingsStand
  <2>4. StandsFor(c)'
    BY <2>3, StandingStays
  <2> QED
    BY <2>1, <2>2, <2>4 DEF StandsFor, TurnsAway, Over, WasLive
<1> QED
  BY <1>3, <1>4 DEF Next

\* The orders that are queued, the readings that condemn them and the marks of a
\* cancellation stay as they should, together.
THEOREM StopCorrect == Spec => []StopInv
<1>1. Init => CancellationsAreMarked /\ QueuedAreOver /\ ReadingsStand
  <2> SUFFICES ASSUME Init
               PROVE  CancellationsAreMarked /\ QueuedAreOver /\ ReadingsStand
    OBVIOUS
  <2>1. sub.status # "CANCELED"
    <3>1. NewSubscription.status = "PENDING"
      BY DEF NewSubscription
    <3>2. \A o \in LegacyOrders : LegacySubscription(o).status = "ACTIVE"
      BY DEF NewSubscription, LegacySubscription
    <3> QED
      BY <3>1, <3>2 DEF Init
  <2>2. \A o \in Orders : requests[o] # "open"
    BY DEF Init
  <2>3. \A w \in Workers : op[w].phase = "idle"
    BY DEF Init, Idle
  <2> QED
    BY <2>1, <2>2, <2>3 DEF CancellationsAreMarked, QueuedAreOver, ReadingsStand, StandsFor
<1>2. StopInv /\ TrackInv' /\ [Next]_vars => StopInv'
  BY MarkedStep, QueuedStep, ReadingsStandStep DEF StopInv, TrackInv
<1>3. StopInv <=> TrackInv /\ CancellationsAreMarked /\ QueuedAreOver /\ ReadingsStand
  BY DEF StopInv
<1> QED
  BY <1>1, <1>2, <1>3, TrackCorrect, PTL DEF Spec

\* Whatever late charges, cancellations and new checkouts cross, the order a subscription
\* renews by is not in the queue, and no request is about to stop it.
THEOREM RenewingNotStopped == Spec => []RenewingOrderIsNotStopped
<1>1. StopInv => RenewingOrderIsNotStopped
  <2> SUFFICES ASSUME StopInv, NEW o \in Orders, sub.order = o, CanRequestCancellation(sub)
               PROVE  /\ requests[o] # "open"
                      /\ \A w \in Workers : op[w].phase = "stopping" => op[w].order # o
    BY DEF RenewingOrderIsNotStopped
  <2>1. ~Over(o)
    BY DEF CanRequestCancellation, Over
  <2> QED
    BY <2>1 DEF StopInv, QueuedAreOver, ReadingsStand, StandsFor
<1> QED
  BY <1>1, StopCorrect, PTL

-----------------------------------------------------------------------------
(* The requests together keep one book (SubscriptionLedger).                 *)

\* What the statuses of callbacks come to.
LEMMA OutcomeOfStatus ==
    ASSUME NEW c
    PROVE  /\ Outcome(c) = "paid" => c.event.status \in PaidStatuses
           /\ Outcome(c) = "canceled" <=> c.event.status = "unsubscribed"
           /\ Outcome(c) \in {"paid", "canceled", "failed", "undecided"}
<1>1. ClassifyCallbackStatus("unsubscribed") = "canceled"
  BY ZenonT(30) DEF ClassifyCallbackStatus, PaidStatuses, FailedStatuses, CanceledStatuses
<1> QED
  BY <1>1 DEF Outcome, ClassifyCallbackStatus, CanceledStatuses, PaidStatuses, FailedStatuses

\* What a callback that is committed holds.
LEMMA CommitHolds ==
    ASSUME TrackInv, NEW w \in Workers, CommitCallback(w)
    PROVE  LET c == op[w]
           IN  /\ c \in JudgedRequests /\ c.event.order \in Orders /\ c.now \in Nat
               /\ c.event \in sent /\ c.seen \in SubscriptionRows /\ IsNew(c) \in BOOLEAN
               /\ Outcome(c) = "paid" => recurring[c.event.order] # "idle"
               /\ Outcome(c) = "canceled" => recurring[c.event.order] = "stopped"
               /\ ~IsNew(c) /\ Role(c) # "retired-checkout" => c.seen.order = c.event.order
<1> DEFINE c == op[w]
<1>1. TypeOK /\ ChargesHappened /\ RequestsAreTrue /\ c.phase = "judged"
  BY DEF TrackInv, ReadingInv, CommitCallback
<1>2. c \in JudgedRequests /\ c.event.order \in Orders /\ c.now \in Nat
      /\ c.seen \in SubscriptionRows /\ IsNew(c) \in BOOLEAN
  BY <1>1, PhaseType DEF TypeOK, JudgedRequests, Events, IsNew
<1>3. c.event \in sent /\ (c.checkout = "NONE" => c.seen.order = c.event.order)
  BY <1>1 DEF RequestsAreTrue, Callbacks
<1>4. /\ Outcome(c) = "paid" => recurring[c.event.order] # "idle"
      /\ Outcome(c) = "canceled" => recurring[c.event.order] = "stopped"
  BY <1>1, <1>3, OutcomeOfStatus DEF ChargesHappened
<1>5. ~IsNew(c) /\ Role(c) # "retired-checkout" => c.seen.order = c.event.order
  BY <1>2, <1>3, RoleOfOrder
<1> QED
  BY <1>2, <1>3, <1>4, <1>5

\* The charge of a credited callback is entered, and was not entered before.
LEMMA ChargeEntered ==
    ASSUME NEW w \in Workers, CommitCallback(w)
    PROVE  LET charge == <<op[w].event.order, op[w].event.payment>>
           IN  IF Credited(op[w])
               THEN charge \notin CreditedCharges
                    /\ CreditedCharges' = CreditedCharges \cup {charge}
               ELSE CreditedCharges' = CreditedCharges
<1> DEFINE c == op[w]
           entry == LogEntry(c)
           charge == <<c.event.order, c.event.payment>>
<1>1. /\ entry.order = c.event.order
      /\ entry.payment = c.event.payment
      /\ entry.credited = Credited(c)
  BY DEF LogEntry
<1>2. log' = log \cup {entry} /\ ~Duplicate(c)
  BY DEF CommitCallback
<1> HIDE DEF entry
<1>3. CASE Credited(c)
  <2>1. CreditedCharges' = CreditedCharges \cup {charge}
    BY <1>1, <1>2, <1>3 DEF CreditedCharges
  <2>2. charge \notin CreditedCharges
    BY <1>2, <1>3 DEF CreditedCharges, Duplicate
  <2> QED
    BY <1>3, <2>1, <2>2
<1>4. CASE ~Credited(c)
  BY <1>1, <1>2, <1>4 DEF CreditedCharges
<1> QED
  BY <1>3, <1>4

\* The queue after a commit: what it stops is put down, what LiqPay stopped is ticked off.
LEMMA QueueEntered ==
    ASSUME TypeOK, NEW w \in Workers, CommitCallback(w)
    PROVE  /\ Outcome(op[w]) # "canceled" => requests' = Ledger!PutDown(OrderToStop(op[w]))
           /\ Outcome(op[w]) = "canceled" => requests' = Ledger!TickedOff(op[w].event.order)
           /\ OrderToStop(op[w]) = {} /\ Outcome(op[w]) # "canceled" => requests' = requests
<1> DEFINE c == op[w]
<1>1. c.event.order \in Orders /\ requests \in [Orders -> RequestStates]
  BY OrdersOfRequests DEF CommitCallback, Callbacks, TypeOK
<1>2. requests' = QueueUnsubscribe(ResolveUnsubscribe(requests,
                     IF c.event.status = "unsubscribed" THEN {c.event.order} ELSE {}),
                                   OrderToStop(c))
  BY DEF CommitCallback
<1>3. CASE Outcome(c) # "canceled"
  <2>1. c.event.status # "unsubscribed"
    BY <1>3, OutcomeOfStatus
  <2>2. requests' = [o \in Orders |-> IF o \in OrderToStop(c) THEN "open" ELSE requests[o]]
    BY <1>1, <1>2, <2>1 DEF QueueUnsubscribe, ResolveUnsubscribe
  <2>3. OrderToStop(c) = {} => requests' = requests
    BY <1>1, <2>2
  <2> QED
    BY <1>3, <2>2, <2>3 DEF Ledger!PutDown
<1>4. CASE Outcome(c) = "canceled"
  <2>1. c.event.status = "unsubscribed" /\ OrderToStop(c) = {}
    BY <1>4, OutcomeOfStatus DEF OrderToStop
  <2>2. requests' = [requests EXCEPT ![c.event.order] = IF @ = "open" THEN "resolved" ELSE @]
    BY <1>1, <1>2, <2>1 DEF QueueUnsubscribe, ResolveUnsubscribe
  <2> QED
    BY <1>4, <2>2 DEF Ledger!TickedOff
<1> QED
  BY <1>3, <1>4

\* The checkouts after a commit.
LEMMA PagesEntered ==
    ASSUME TrackInv, NEW w \in Workers, CommitCallback(w)
    PROVE  LET c == op[w]
               o == c.event.order
           IN  /\ PaysCheckout(c) =>
                    /\ checkouts[o] = "PROPOSED"
                    /\ checkouts' = Ledger!Withdrawn([checkouts EXCEPT ![o] = "PAID"])
               /\ AbandonsCheckout(c) =>
                    /\ checkouts[o] = "PROPOSED"
                    /\ checkouts' = [checkouts EXCEPT ![o] = "ABANDONED"]
               /\ Outcome(c) = "canceled" /\ Decision(c) # {} =>
                    checkouts' = Ledger!Withdrawn(checkouts)
               /\ ~ClosesCheckout(c) /\ ~(Outcome(c) = "canceled" /\ Decision(c) # {}) =>
                    checkouts' = checkouts
<1> DEFINE c == op[w]
           o == c.event.order
           closed == [checkouts EXCEPT ![o] = IF PaysCheckout(c) THEN "PAID"
                                              ELSE IF AbandonsCheckout(c) THEN "ABANDONED"
                                              ELSE @]
           cancels == Outcome(c) = "canceled" /\ Decision(c) # {}
<1>1. /\ c \in JudgedRequests /\ o \in Orders
      /\ checkouts \in [Orders -> CheckoutStatuses]
  BY CommitHolds DEF TrackInv, ReadingInv, TypeOK
<1>2. /\ checkouts' = IF PaysCheckout(c) \/ cancels THEN AbandonProposed(closed) ELSE closed
      /\ ClosesCheckout(c) => checkouts[o] = "PROPOSED"
  BY DEF CommitCallback, Stale
<1>3. PaysCheckout(c) => Outcome(c) = "paid" /\ IsNew(c) /\ Decision(c) # {}
  BY <1>1, NewCheckoutDecides DEF PaysCheckout, Activated
<1>4. Decision(c) # {} => ~Blocked(c)
  BY DEF Decision
<1>5. AbandonsCheckout(c) => ~PaysCheckout(c) /\ ~cancels
  <2>1. ASSUME IsNew(c), Outcome(c) \in {"failed", "canceled"}
        PROVE  Decision(c) = {}
    BY <1>1, <2>1, NewCheckoutDecides
  <2> QED
    BY <1>3, <1>4, <2>1 DEF AbandonsCheckout
<1>6. cancels => ~PaysCheckout(c)
  BY <1>3
<1> HIDE DEF cancels
<1>7. CASE PaysCheckout(c)
  <2>1. checkouts[o] = "PROPOSED" /\ ~cancels /\ ~AbandonsCheckout(c)
    BY <1>2, <1>5, <1>6, <1>7 DEF ClosesCheckout
  <2>2. closed = [checkouts EXCEPT ![o] = "PAID"]
    BY <1>1, <1>7
  <2>3. checkouts' = AbandonProposed([checkouts EXCEPT ![o] = "PAID"])
    BY <1>2, <1>7, <2>2
  <2> QED
    BY <1>7, <2>1, <2>3 DEF AbandonProposed, ClosesCheckout, Ledger!Withdrawn, cancels
<1>8. CASE AbandonsCheckout(c)
  <2>1. checkouts[o] = "PROPOSED" /\ ~cancels /\ ~PaysCheckout(c)
    BY <1>2, <1>5, <1>8 DEF ClosesCheckout
  <2>2. closed = [checkouts EXCEPT ![o] = "ABANDONED"]
    BY <1>1, <1>8, <2>1
  <2> QED
    BY <1>2, <1>8, <2>1, <2>2 DEF ClosesCheckout, cancels
<1>9. CASE ~ClosesCheckout(c)
  <2>1. closed = checkouts
    BY <1>1, <1>9 DEF ClosesCheckout
  <2> QED
    BY <1>2, <1>9, <2>1 DEF ClosesCheckout, AbandonProposed, Ledger!Withdrawn, cancels
<1> QED
  BY <1>7, <1>8, <1>9 DEF ClosesCheckout

\* The entry of a credited charge: it was made, it is entered once, and it adds a month as
\* counted on the day its callback came in.
LEMMA CreditEntered ==
    ASSUME TrackInv, RequestsAreOfToday, NEW w \in Workers, CommitCallback(w), Credited(op[w])
    PROVE  Ledger!Credit(op[w].event.order)
<1> DEFINE c == op[w]
           charge == <<c.event.order, c.event.payment>>
<1>1. ReadingInv /\ now \in Nat /\ sub \in SubscriptionRows
  BY DEF TrackInv, ReadingInv, TypeOK
<1>2. Outcome(c) = "paid" /\ Decision(c) # {}
  BY DEF Credited
<1>3. /\ recurring[c.event.order] # "idle" /\ c.now \in Nat /\ IsNew(c) \in BOOLEAN
      /\ c.now <= now /\ now <= c.now + 1
  BY <1>2, CommitHolds DEF RequestsAreOfToday, CommitCallback, Callbacks
<1>4. sub'.period = PeriodAfterPayment(sub, c.now)
  <2>1. PICK t \in Decision(c) : TRUE
    BY <1>2
  <2>2. /\ t \in TransitionForCallbackStatus(sub, c.event.status, c.now, IsNew(c))
        /\ sub'.period = t.period
    BY <1>1, <2>1, CommitDecided
  <2>3. t = PaidTransition(sub, c.now, IsNew(c))
    BY <1>1, <1>2, <1>3, <2>2, DecisionType DEF Outcome
  <2> QED
    BY <2>2, <2>3 DEF PaidTransition, Transition
<1>5. \E at \in {now - 1, now} :
        sub'.period = Month + (IF sub.period > at THEN sub.period ELSE at)
  <2>1. c.now \in {now - 1, now}
    BY <1>1, <1>3
  <2> QED
    BY <1>1, <1>3, <1>4, <2>1, PeriodAssumption DEF PeriodAfterPayment, SubscriptionRows
<1>6. /\ charge[1] = c.event.order /\ charge \notin CreditedCharges
      /\ CreditedCharges' = CreditedCharges \cup {charge}
  BY ChargeEntered
<1> QED
  BY <1>3, <1>5, <1>6 DEF Ledger!Credit

\* A commit changes nothing of LiqPay's, and no day passes.
LEMMA CommitIsOurs ==
    ASSUME NEW w \in Workers, CommitCallback(w) \/ CommitCancellation(w)
    PROVE  now' = now /\ recurring' = recurring
  BY DEF CommitCallback, CommitCancellation, liqPayVars

\* Why a callback is not about a new checkout: its order is the live one, as it was read.
LEMMA RenewalOfLiveOrder ==
    ASSUME TrackInv, NEW w \in Workers, CommitCallback(w), ~IsNew(op[w]), Decision(op[w]) # {}
    PROVE  op[w].event.order = sub.order /\ op[w].seen = sub
<1> DEFINE c == op[w]
<1>1. PICK t \in Decision(c) : TRUE
  OBVIOUS
<1>2. c \in JudgedRequests /\ c.seen = sub
  BY <1>1, CommitDecided DEF TrackInv
<1>3. Role(c) # "retired-checkout"
  BY <1>1, <1>2, JudgedDecision
<1> QED
  BY <1>2, <1>3, CommitHolds

\* A charge of the live order renews the subscription; if it was cancelled it stays so, and
\* its order is put down to be stopped once more.
LEMMA RenewEntered ==
    ASSUME StopInv, RequestsAreOfToday, NEW w \in Workers, CommitCallback(w),
           Credited(op[w]), ~IsNew(op[w])
    PROVE  Ledger!Renew(op[w].event.order)
<1> DEFINE c == op[w]
<1>1. TrackInv /\ ReadingInv /\ TypeOK /\ CancellationsAreMarked
  BY DEF StopInv, TrackInv, ReadingInv
<1>2. Outcome(c) = "paid" /\ Decision(c) # {}
  BY DEF Credited
<1>3. c.event.order = sub.order /\ c.seen = sub
  BY <1>1, <1>2, RenewalOfLiveOrder
<1>4. PICK t \in Decision(c) : TRUE
  BY <1>2
<1>5. /\ c \in JudgedRequests /\ c.now \in Nat /\ IsNew(c) \in BOOLEAN
      /\ sub \in SubscriptionRows
      /\ t \in TransitionForCallbackStatus(sub, c.event.status, c.now, IsNew(c))
      /\ sub'.cancelRequested = t.cancelRequested
      /\ sub'.order = IF TakesOver(c) THEN c.event.order ELSE sub.order
  BY <1>1, <1>4, CommitDecided, CommitHolds DEF TypeOK
<1>6. t = PaidTransition(sub, c.now, IsNew(c))
  BY <1>2, <1>5, DecisionType DEF Outcome
<1>7. sub'.cancelRequested = sub.cancelRequested
  <2>1. sub.cancelRequested \in BOOLEAN
    BY <1>5 DEF SubscriptionRows
  <2>2. t.cancelRequested = (sub.cancelRequested \/ sub.status = "CANCELED")
    BY <1>6, <2>1 DEF PaidTransition, Transition
  <2> QED
    BY <1>1, <1>5, <2>1, <2>2 DEF CancellationsAreMarked
<1>8. sub'.order = sub.order
  BY <1>5 DEF TakesOver
<1>9. OrderToStop(c) = IF sub.cancelRequested THEN {c.event.order} ELSE {}
  <2>1. ~Blocked(c) /\ Role(c) # "retired-checkout"
    BY <1>4, <1>5, JudgedDecision
  <2>2. (c.seen.cancelRequested \/ c.seen.status = "CANCELED") <=> sub.cancelRequested
    BY <1>1, <1>3 DEF CancellationsAreMarked
  <2> QED
    BY <1>2, <2>1, <2>2 DEF OrderToStop
<1>10. checkouts' = checkouts
  <2>1. ~Blocked(c)
    BY <1>4, <1>5, JudgedDecision
  <2>2. ~ClosesCheckout(c)
    BY <1>2, <2>1 DEF ClosesCheckout, PaysCheckout, AbandonsCheckout
  <2> QED
    BY <1>1, <1>2, <2>2, PagesEntered
<1>11. requests' = Ledger!PutDown(IF sub.cancelRequested THEN {c.event.order} ELSE {})
  BY <1>1, <1>2, <1>9, QueueEntered
<1>12. Ledger!Credit(c.event.order)
  BY <1>1, CreditEntered
<1> QED
  BY <1>3, <1>7, <1>8, <1>10, <1>11, <1>12, CommitIsOurs DEF Ledger!Renew

\* A page that is paid makes its order the live one, and the order it replaces is put down.
LEMMA ActivateEntered ==
    ASSUME StopInv, RequestsAreOfToday, NEW w \in Workers, CommitCallback(w),
           Credited(op[w]), IsNew(op[w])
    PROVE  Ledger!Activate(op[w].event.order)
<1> DEFINE c == op[w]
<1>1. TrackInv /\ ReadingInv /\ TypeOK
  BY DEF StopInv, TrackInv, ReadingInv
<1>2. Outcome(c) = "paid" /\ Decision(c) # {}
  BY DEF Credited
<1>3. PICK t \in Decision(c) : TRUE
  BY <1>2
<1>4. /\ c \in JudgedRequests /\ c.seen = sub /\ sub'.cancelRequested = t.cancelRequested
      /\ sub'.cancelRequested \in BOOLEAN
      /\ sub'.order = IF TakesOver(c) THEN c.event.order ELSE sub.order
  BY <1>1, <1>3, CommitDecided DEF SubscriptionRows
<1>5. /\ t.status = "ACTIVE" /\ ~t.cancelRequested /\ PaysCheckout(c) /\ TakesOver(c)
      /\ c.seen.order # c.event.order
  BY <1>3, <1>4, NewCheckoutDecides
<1>6. sub'.order = c.event.order /\ sub'.cancelRequested = FALSE /\ c.event.order # sub.order
  BY <1>4, <1>5
<1>7. OrderToStop(c) = {sub.order} \ {NoOrder}
  <2>1. ~Blocked(c) /\ Role(c) # "retired-checkout"
    BY <1>3, <1>4, JudgedDecision
  <2> QED
    BY <1>2, <1>4, <1>5, <2>1 DEF OrderToStop, PaysCheckout
<1>8. requests' = Ledger!PutDown({sub.order} \ {NoOrder})
  BY <1>1, <1>2, <1>7, QueueEntered
<1>9. /\ checkouts[c.event.order] = "PROPOSED"
      /\ checkouts' = Ledger!Withdrawn([checkouts EXCEPT ![c.event.order] = "PAID"])
  BY <1>1, <1>5, PagesEntered
<1>10. Ledger!Credit(c.event.order)
  BY <1>1, CreditEntered
<1> QED
  BY <1>6, <1>8, <1>9, <1>10, CommitIsOurs DEF Ledger!Activate

\* An entry in the book, or a step that makes none.
Entered == Ledger!LedgerNext \/ UNCHANGED Ledger!ledgerVars

\* A paid callback that is not credited: its order is to be stopped, or it changes nothing.
LEMMA RefusalEntered ==
    ASSUME StopInv, [Next]_vars, NEW w \in Workers, CommitCallback(w),
           Outcome(op[w]) = "paid", Decision(op[w]) = {}
    PROVE  Entered
<1> DEFINE c == op[w]
<1>0. PICK o : o = c.event.order
  OBVIOUS
<1>1. TrackInv /\ TypeOK /\ checkouts \in [Orders -> CheckoutStatuses]
  BY DEF StopInv, TrackInv, ReadingInv, TypeOK
<1>2. /\ c \in JudgedRequests /\ o \in Orders /\ recurring[o] # "idle"
      /\ sub' = sub /\ CreditedCharges' = CreditedCharges /\ now' = now /\ recurring' = recurring
      /\ requests' = Ledger!PutDown(OrderToStop(c))
      /\ OrderToStop(c) = {} => requests' = requests
  BY <1>0, <1>1, CommitHolds, CommitLeavesRow, ChargeEntered, CommitIsOurs, QueueEntered
  DEF Credited
<1>3. ~PaysCheckout(c) /\ (ClosesCheckout(c) => AbandonsCheckout(c))
  BY DEF PaysCheckout, Activated, ClosesCheckout
<1>4. /\ AbandonsCheckout(c) => /\ checkouts[o] = "PROPOSED"
                                /\ checkouts' = [checkouts EXCEPT ![o] = "ABANDONED"]
      /\ ~AbandonsCheckout(c) => checkouts' = checkouts
  BY <1>0, <1>1, <1>3, PagesEntered
<1>5. OrderToStop(c) \in {{}, {o}}
  BY <1>0, <1>3 DEF OrderToStop, PaysCheckout
<1>6. CASE OrderToStop(c) = {o}
  <2>1. Over(o)'
    BY <1>6, StoppedIsOver
  <2>2. ~Ledger!Renewing(o)
    BY <1>2, <2>1 DEF Over, Ledger!Renewing
  <2>3. checkouts'[o] # "PROPOSED"
    BY <2>1 DEF Over, WasLive
  <2>4. checkouts' = [checkouts EXCEPT ![o] = IF @ = "PROPOSED" THEN "ABANDONED" ELSE @]
    BY <1>1, <1>2, <1>4, <2>3
  <2>5. Ledger!Refuse(o)
    BY <1>2, <1>6, <2>2, <2>4 DEF Ledger!Refuse
  <2> QED
    BY <1>2, <2>5 DEF Entered, Ledger!LedgerNext
<1>7. CASE OrderToStop(c) = {} /\ AbandonsCheckout(c)
  <2>1. Ledger!Withdraw(o)
    BY <1>2, <1>4, <1>7 DEF Ledger!Withdraw
  <2> QED
    BY <1>2, <2>1 DEF Entered, Ledger!LedgerNext
<1>8. CASE OrderToStop(c) = {} /\ ~AbandonsCheckout(c)
  BY <1>2, <1>4, <1>8 DEF Entered, Ledger!ledgerVars, Ledger!bookVars
<1> QED
  BY <1>5, <1>6, <1>7, <1>8

\* A failed charge and an outcome not decided yet enter nothing; the page of a new checkout
\* whose first charge failed is taken back.
LEMMA FailureEntered ==
    ASSUME StopInv, NEW w \in Workers, CommitCallback(w),
           Outcome(op[w]) \in {"failed", "undecided"}
    PROVE  Entered
<1> DEFINE c == op[w]
           o == c.event.order
<1>1. TrackInv /\ ReadingInv /\ TypeOK /\ sub \in SubscriptionRows
  BY DEF StopInv, TrackInv, ReadingInv, TypeOK
<1>2. /\ c \in JudgedRequests /\ o \in Orders /\ c.now \in Nat /\ IsNew(c) \in BOOLEAN
      /\ CreditedCharges' = CreditedCharges /\ now' = now /\ recurring' = recurring
  BY <1>1, CommitHolds, ChargeEntered, CommitIsOurs DEF Credited
<1>3. requests' = requests
  <2>1. OrderToStop(c) = {}
    BY DEF OrderToStop
  <2> QED
    BY <1>1, <2>1, QueueEntered
<1>4. /\ sub'.period = sub.period /\ sub'.order = sub.order
      /\ sub'.cancelRequested = sub.cancelRequested
  <2>1. CASE Decision(c) = {}
    BY <2>1, CommitLeavesRow
  <2>2. ASSUME NEW t \in Decision(c)
        PROVE  /\ sub'.period = sub.period /\ sub'.order = sub.order
               /\ sub'.cancelRequested = sub.cancelRequested
    <3>1. /\ t \in TransitionForCallbackStatus(sub, c.event.status, c.now, IsNew(c))
          /\ sub'.period = t.period /\ sub'.cancelRequested = t.cancelRequested
          /\ sub'.order = IF TakesOver(c) THEN c.event.order ELSE sub.order
      BY <1>1, <2>2, CommitDecided
    <3>2. ~IsNew(c) /\ t.period = sub.period
      BY <1>1, <1>2, <3>1, DecisionType DEF Outcome
    <3>3. \/ t \in ChargebackTransition(sub, c.now)
          \/ ~sub.cancelRequested /\ t = FailedTransition(sub, c.now)
      BY <3>1 DEF TransitionForCallbackStatus, When, Outcome
    <3>4. t.cancelRequested = sub.cancelRequested
      <4>1. CASE t \in ChargebackTransition(sub, c.now)
        BY <4>1 DEF ChargebackTransition, Transition
      <4>2. CASE ~sub.cancelRequested /\ t = FailedTransition(sub, c.now)
        BY <1>1, <4>2 DEF FailedTransition, Transition, SubscriptionRows
      <4> QED
        BY <3>3, <4>1, <4>2
    <3> QED
      BY <3>1, <3>2, <3>4 DEF TakesOver
  <2> QED
    BY <2>1, <2>2
<1>5. ~PaysCheckout(c)
  BY <1>2, NewCheckoutDecides DEF PaysCheckout, Activated
<1>6. /\ AbandonsCheckout(c) => /\ checkouts[o] = "PROPOSED"
                                /\ checkouts' = [checkouts EXCEPT ![o] = "ABANDONED"]
      /\ ~AbandonsCheckout(c) => checkouts' = checkouts
  BY <1>1, <1>5, PagesEntered DEF ClosesCheckout
<1>7. CASE AbandonsCheckout(c)
  <2>1. Ledger!Withdraw(o)
    BY <1>2, <1>3, <1>4, <1>6, <1>7 DEF Ledger!Withdraw
  <2> QED
    BY <1>2, <2>1 DEF Entered, Ledger!LedgerNext
<1>8. CASE ~AbandonsCheckout(c)
  BY <1>2, <1>3, <1>4, <1>6, <1>8 DEF Entered, Ledger!ledgerVars, Ledger!bookVars
<1> QED
  BY <1>7, <1>8

\* LiqPay stopped an order: of the live one that ends the renewals, of any other it settles
\* what was put down.
LEMMA UnsubscriptionEntered ==
    ASSUME StopInv, NEW w \in Workers, CommitCallback(w), Outcome(op[w]) = "canceled"
    PROVE  Entered
<1> DEFINE c == op[w]
           o == c.event.order
<1>1. TrackInv /\ ReadingInv /\ TypeOK /\ sub \in SubscriptionRows
  BY DEF StopInv, TrackInv, ReadingInv, TypeOK
<1>2. /\ c \in JudgedRequests /\ o \in Orders /\ c.now \in Nat /\ IsNew(c) \in BOOLEAN
      /\ CreditedCharges' = CreditedCharges /\ now' = now /\ recurring' = recurring
      /\ recurring[o] = "stopped"
      /\ requests' = Ledger!TickedOff(o)
  BY <1>1, CommitHolds, ChargeEntered, CommitIsOurs, QueueEntered DEF Credited
<1>3. ~PaysCheckout(c)
  BY <1>2, NewCheckoutDecides DEF PaysCheckout, Activated
<1>4. CASE Decision(c) # {}
  <2>1. PICK t \in Decision(c) : TRUE
    BY <1>4
  <2>2. /\ t \in TransitionForCallbackStatus(sub, c.event.status, c.now, IsNew(c))
        /\ sub'.period = t.period /\ sub'.cancelRequested = t.cancelRequested
        /\ sub'.order = IF TakesOver(c) THEN c.event.order ELSE sub.order
        /\ sub'.cancelRequested \in BOOLEAN
    BY <1>1, <2>1, CommitDecided DEF SubscriptionRows
  <2>3. ~IsNew(c) /\ t.period = sub.period
    BY <1>1, <1>2, <2>2, DecisionType DEF Outcome
  <2>4. ~sub.cancelRequested /\ t = CancellationTransition(sub, c.now)
    <3>1. c.event.status = "unsubscribed"
      BY OutcomeOfStatus
    <3> QED
      BY <2>2, <3>1 DEF TransitionForCallbackStatus, When, Outcome
  <2>5. sub'.cancelRequested = TRUE
    BY <1>1, <1>2, <2>2, <2>4, CancellationType
  <2>6. o = sub.order /\ sub'.order = sub.order /\ sub.order # NoOrder
    BY <1>1, <1>2, <1>4, <2>2, <2>3, RenewalOfLiveOrder, OrderAssumption DEF TakesOver
  <2>7. checkouts' = Ledger!Withdrawn(checkouts)
    BY <1>1, <1>4, PagesEntered
  <2>8. Ledger!Cancel
    BY <1>2, <2>2, <2>3, <2>4, <2>5, <2>6, <2>7 DEF Ledger!Cancel
  <2> QED
    BY <2>8 DEF Entered, Ledger!LedgerNext
<1>5. CASE Decision(c) = {} /\ AbandonsCheckout(c)
  <2>1. checkouts[o] = "PROPOSED" /\ checkouts' = [checkouts EXCEPT ![o] = "ABANDONED"]
    BY <1>1, <1>5, PagesEntered
  <2>2. Ledger!Withdraw(o)
    BY <1>2, <1>5, <2>1, CommitLeavesRow DEF Ledger!Withdraw
  <2> QED
    BY <1>2, <2>2 DEF Entered, Ledger!LedgerNext
<1>6. CASE Decision(c) = {} /\ ~AbandonsCheckout(c)
  <2>1. checkouts' = checkouts
    BY <1>1, <1>3, <1>6, PagesEntered DEF ClosesCheckout
  <2>2. Ledger!Settle(o)
    BY <1>2, <1>6, <2>1, CommitLeavesRow DEF Ledger!Settle
  <2> QED
    BY <1>2, <2>2 DEF Entered, Ledger!LedgerNext
<1> QED
  BY <1>4, <1>5, <1>6

\* Every commit of a callback is one entry on the row as it is.
LEMMA CommitEntered ==
    ASSUME StopInv, RequestsAreOfToday, [Next]_vars, NEW w \in Workers, CommitCallback(w)
    PROVE  Entered
<1> DEFINE c == op[w]
<1>1. c.event.order \in Orders
  BY CommitHolds DEF StopInv
<1>2. CASE Outcome(c) = "paid" /\ Decision(c) # {}
  <2>1. Credited(c)
    BY <1>2 DEF Credited
  <2>2. Ledger!Renew(c.event.order) \/ Ledger!Activate(c.event.order)
    BY <2>1, RenewEntered, ActivateEntered
  <2> QED
    BY <1>1, <2>2 DEF Entered, Ledger!LedgerNext
<1>3. CASE Outcome(c) = "paid" /\ Decision(c) = {}
  BY <1>3, RefusalEntered
<1>4. CASE Outcome(c) \in {"failed", "undecided"}
  BY <1>4, FailureEntered
<1>5. CASE Outcome(c) = "canceled"
  BY <1>5, UnsubscriptionEntered
<1> QED
  BY <1>2, <1>3, <1>4, <1>5, OutcomeOfStatus

\* An owner's cancellation is the entry that ends the renewals.
LEMMA CancellationEntered ==
    ASSUME StopInv, [Next]_vars, NEW w \in Workers, CommitCancellation(w)
    PROVE  Ledger!Cancel
<1> DEFINE c == op[w]
<1>1. TrackInv /\ ReadingInv /\ TypeOK /\ c.phase = "canceling" /\ c.seen = sub
  BY DEF StopInv, TrackInv, ReadingInv, Fresh, Reading, CommitCancellation
<1>2. sub.order # NoOrder
  BY <1>1, PhaseType, OrderAssumption DEF TypeOK, CancelRequests
<1>3. ~sub.cancelRequested
  BY <1>1 DEF StopInv, ReadingsStand, StandsFor
<1>4. /\ sub'.order = sub.order /\ sub'.period = sub.period
      /\ sub'.cancelRequested = TRUE
  <2>1. sub'.cancelRequested /\ sub'.cancelRequested \in BOOLEAN
    <3>1. sub' \in SubscriptionRows
      BY <1>1, NextTypes DEF TypeOK
    <3> QED
      BY <1>1, <3>1, CancellationCommitted DEF SubscriptionRows
  <2> QED
    BY <1>1, <2>1, CancellationCommitted
<1>5. CreditedCharges' = CreditedCharges
  BY DEF CommitCancellation, CreditedCharges
<1>6. /\ requests' = Ledger!PutDown({sub.order})
      /\ checkouts' = Ledger!Withdrawn(checkouts)
  BY <1>1 DEF CommitCancellation, QueueUnsubscribe, AbandonProposed, Ledger!PutDown,
     Ledger!Withdrawn
<1> QED
  BY <1>2, <1>3, <1>4, <1>5, <1>6, CommitIsOurs DEF Ledger!Cancel

\* LiqPay's own steps start the charges of a page that was offered, and end them; so do the
\* requests to stop an order.
LEMMA ProviderEntered ==
    ASSUME TypeOK, RequestsAreTrue, [Next]_vars,
           ProviderStep \/ \E w \in Workers : StopAccepted(w) \/ StopUnconfirmed(w)
    PROVE  Entered
<1>1. now' = now /\ UNCHANGED rowVars /\ CreditedCharges' = CreditedCharges
  BY DEF ProviderStep, StopAccepted, StopUnconfirmed, rowVars, CreditedCharges
<1>2. \/ UNCHANGED recurring
      \/ \E o \in Orders :
           \/ /\ checkouts[o] # "NONE" /\ recurring[o] = "idle"
              /\ recurring' = [recurring EXCEPT ![o] = "charging"]
           \/ recurring[o] = "charging" /\ recurring' = [recurring EXCEPT ![o] = "stopped"]
  <2>1. CASE ProviderStep
    BY <2>1 DEF ProviderStep, PayCheckout, Decline, ChargeAgain, TakeBack, Unsubscribe
  <2>2. ASSUME NEW w \in Workers, StopAccepted(w) \/ StopUnconfirmed(w)
        PROVE  \/ UNCHANGED recurring
               \/ \E o \in Orders : /\ recurring[o] = "charging"
                                    /\ recurring' = [recurring EXCEPT ![o] = "stopped"]
    <3>1. op[w].order \in Orders
      BY <2>2, OrdersOfRequests DEF StopAccepted, StopUnconfirmed
    <3> QED
      BY <2>2, <3>1 DEF StopAccepted, StopUnconfirmed, Unsubscribe, liqPayVars
  <2> QED
    BY <2>1, <2>2
<1>3. CASE UNCHANGED recurring
  BY <1>1, <1>3 DEF rowVars, Entered, Ledger!ledgerVars, Ledger!bookVars
<1>4. ASSUME NEW o \in Orders,
             \/ /\ checkouts[o] # "NONE" /\ recurring[o] = "idle"
                /\ recurring' = [recurring EXCEPT ![o] = "charging"]
             \/ recurring[o] = "charging" /\ recurring' = [recurring EXCEPT ![o] = "stopped"]
      PROVE  Entered
  <2>1. Ledger!Provider(o)
    BY <1>1, <1>4 DEF rowVars, Ledger!Provider, Ledger!bookVars
  <2> QED
    BY <2>1 DEF Entered, Ledger!LedgerNext
<1> QED
  BY <1>2, <1>3, <1>4

\* Every step of the requests, of LiqPay and of the clock is an entry in the book, or none.
LEMMA StepEntered ==
    ASSUME StopInv, RequestsAreOfToday, [Next]_vars
    PROVE  Entered
<1>1. TypeOK /\ RequestsAreTrue
  BY DEF StopInv, TrackInv, ReadingInv
<1>2. ASSUME NEW w \in Workers, CommitCallback(w)
      PROVE  Entered
  BY <1>2, CommitEntered
<1>3. ASSUME NEW w \in Workers, CommitCancellation(w)
      PROVE  Entered
  BY <1>3, CancellationEntered DEF Entered, Ledger!LedgerNext
<1>4. ASSUME NEW w \in Workers, CreateCheckoutOrder(w)
      PROVE  Entered
  <2>1. PICK o \in Orders : /\ checkouts[o] = "NONE" /\ recurring[o] = "idle"
                            /\ checkouts' = [checkouts EXCEPT ![o] = "PROPOSED"]
    BY <1>4 DEF CreateCheckoutOrder
  <2>2. Ledger!Offer(o)
    BY <1>4, <2>1 DEF CreateCheckoutOrder, liqPayVars, CreditedCharges, Ledger!Offer
  <2> QED
    BY <2>2 DEF Entered, Ledger!LedgerNext
<1>5. ASSUME NEW w \in Workers, ResolveUnsubscribeRequest(w)
      PROVE  Entered
  <2>1. PICK o \in Orders : o = op[w].order
    BY <1>1, <1>5, OrdersOfRequests DEF ResolveUnsubscribeRequest
  <2>2. recurring[o] = "stopped"
    BY <1>1, <1>5, <2>1 DEF ResolveUnsubscribeRequest, RequestsAreTrue
  <2>3. requests' = Ledger!TickedOff(o)
    BY <1>1, <1>5, <2>1 DEF ResolveUnsubscribeRequest, ResolveUnsubscribe, Ledger!TickedOff,
       TypeOK
  <2>4. Ledger!Settle(o)
    BY <1>5, <2>2, <2>3 DEF ResolveUnsubscribeRequest, liqPayVars, CreditedCharges,
       Ledger!Settle
  <2> QED
    BY <2>4 DEF Entered, Ledger!LedgerNext
<1>6. CASE ProviderStep \/ \E w \in Workers : StopAccepted(w) \/ StopUnconfirmed(w)
  BY <1>1, <1>6, ProviderEntered
<1>7. CASE Tick
  <2>1. Ledger!PassDay
    BY <1>7 DEF Tick, rowVars, liqPayVars, CreditedCharges, Ledger!PassDay, Ledger!bookVars
  <2> QED
    BY <2>1 DEF Entered, Ledger!LedgerNext
<1>8. CASE /\ ~ProviderStep /\ ~Tick
           /\ ~\E w \in Workers : \/ CommitCallback(w) \/ CommitCancellation(w)
                                  \/ CreateCheckoutOrder(w) \/ ResolveUnsubscribeRequest(w)
                                  \/ StopAccepted(w) \/ StopUnconfirmed(w)
  <2>1. sub' = sub /\ checkouts' = checkouts /\ requests' = requests /\ log' = log
    BY <1>1, <1>8, RowUntouched, CheckoutsUntouched, QueueUntouched, LogUntouched
  <2>2. recurring' = recurring
    BY <1>8, ProviderUntouched DEF liqPayVars
  <2>3. now' = now
    BY <1>8 DEF Next, vars, Arrive, Continue, StartCheckout, RequestCancellation,
       DeliverCallback, ReuseCheckout, FindCheckoutOrder, FindSubscription, UnknownOrder,
       FindPaymentHistory, AnswerDuplicate, ReapplyStale, CancellationConflict, Abort
  <2> QED
    BY <2>1, <2>2, <2>3 DEF Entered, Ledger!ledgerVars, Ledger!bookVars, CreditedCharges
<1> QED
  BY <1>2, <1>3, <1>4, <1>5, <1>6, <1>7, <1>8

\* A new subscription, and one that predates the checkouts, are new books.
LEMMA InitEntered == Init => Ledger!LedgerInit
<1> SUFFICES ASSUME Init
             PROVE  Ledger!LedgerInit
  OBVIOUS
<1>1. CreditedCharges = {} /\ now = 1
  BY DEF Init, CreditedCharges
<1>2. \/ /\ sub.order = NoOrder /\ sub.period = 0 /\ ~sub.cancelRequested
      \/ /\ sub.order \in LegacyOrders /\ sub.period = 1 + Month /\ ~sub.cancelRequested
  <2>1. CASE sub = NewSubscription
    BY <2>1 DEF NewSubscription, NoDate
  <2>2. ASSUME NEW o \in LegacyOrders, sub = LegacySubscription(o)
        PROVE  sub.order \in LegacyOrders /\ sub.period = 1 + Month /\ ~sub.cancelRequested
    BY <2>2 DEF NewSubscription, LegacySubscription
  <2> QED
    BY <2>1, <2>2 DEF Init
<1>3. recurring = [o \in Orders |-> IF o = sub.order THEN "charging" ELSE "idle"]
  <2>1. \A o \in Orders : o \in LegacyOrders \cap {sub.order} <=> o = sub.order
    BY <1>2, OrderAssumption
  <2> QED
    BY <2>1 DEF Init, LiqPayInit
<1>4. checkouts = [o \in Orders |-> "NONE"] /\ requests = [o \in Orders |-> "none"]
  BY DEF Init
<1> QED
  BY <1>1, <1>2, <1>3, <1>4, InitAssumption DEF Ledger!LedgerInit

\* Billing implements the book: however requests interleave, are repeated or die, what they
\* do to an organization's money is a sequence of entries each made at once.
THEOREM BillingImplementsLedger == Spec => ImplementsLedger
<1>1. StopInv /\ AccessInv /\ [Next]_vars => [Ledger!LedgerNext]_(Ledger!ledgerVars)
  BY StepEntered DEF AccessInv, Entered
<1> QED
  BY <1>1, InitEntered, StopCorrect, AccessCorrect, PTL
  DEF Spec, ImplementsLedger, Ledger!LedgerSpec

\* The end of the paid period accounts for every charge that was ever credited.
MonthsAreKept ==
    /\ IsFiniteSet(CreditedCharges)
    /\ sub.period >= Month * Cardinality(CreditedCharges)

\* No month is lost over the whole history of a subscription: however often it was cancelled,
\* renewed, failed or charged late, what was paid for was added up.
THEOREM MonthsKept == Spec => []MonthsAreKept
<1>1. Init => MonthsAreKept
  <2> SUFFICES ASSUME Init
               PROVE  MonthsAreKept
    OBVIOUS
  <2>1. CreditedCharges = {}
    BY DEF Init, CreditedCharges
  <2>2. sub.period \in Nat
    BY InitTypes DEF TypeOK, SubscriptionRows
  <2> QED
    BY <2>1, <2>2, FS_EmptySet, PeriodAssumption DEF MonthsAreKept
<1>2. AccessInv /\ MonthsAreKept /\ [Next]_vars => MonthsAreKept'
  <2> SUFFICES ASSUME AccessInv, MonthsAreKept, [Next]_vars
               PROVE  MonthsAreKept'
    OBVIOUS
  <2>1. TrackInv /\ ReadingInv /\ TypeOK /\ RequestsAreOfToday
    BY DEF AccessInv, TrackInv, ReadingInv
  <2>2. sub.period \in Nat /\ sub'.period \in Nat
    BY <2>1, NextTypes DEF TypeOK, SubscriptionRows
  <2>3. ASSUME NEW w \in Workers, CommitCallback(w), Credited(op[w])
        PROVE  MonthsAreKept'
    <3>1. PICK charge : charge \notin CreditedCharges
                        /\ CreditedCharges' = CreditedCharges \cup {charge}
      BY <2>3, ChargeEntered
    <3>2. /\ IsFiniteSet(CreditedCharges')
          /\ Cardinality(CreditedCharges') = Cardinality(CreditedCharges) + 1
      BY <3>1, FS_AddElement DEF MonthsAreKept
    <3>3. sub'.period >= sub.period + Month
      <4>1. CreditedNow # {}
        BY <2>3, CreditsOfCommit
      <4> QED
        BY <2>1, <4>1, CreditStep
    <3>4. Cardinality(CreditedCharges) \in Nat
      BY FS_CardinalityType DEF MonthsAreKept
    <3>5. Month * (Cardinality(CreditedCharges) + 1) = Month * Cardinality(CreditedCharges) + Month
      BY <3>4, PeriodAssumption
    <3>6. /\ Month * Cardinality(CreditedCharges) \in Nat
          /\ Month * Cardinality(CreditedCharges') = Month * Cardinality(CreditedCharges) + Month
      BY <3>2, <3>4, <3>5, PeriodAssumption
    <3> QED
      BY <2>2, <3>2, <3>3, <3>6, PeriodAssumption DEF MonthsAreKept
  <2>4. CASE ~\E w \in Workers : CommitCallback(w) /\ Credited(op[w])
    <3>1. CreditedCharges' = CreditedCharges /\ CreditedNow = {}
      <4>1. CASE \E w \in Workers : CommitCallback(w)
        <5>1. PICK w \in Workers : CommitCallback(w)
          BY <4>1
        <5> QED
          BY <2>4, <5>1, ChargeEntered, CreditsOfCommit
      <4>2. CASE ~\E w \in Workers : CommitCallback(w)
        BY <4>2, LogUntouched DEF CreditedCharges, CreditedNow
      <4> QED
        BY <4>1, <4>2
    <3>2. sub'.period = sub.period
      BY <2>1, <3>1, CreditStep
    <3> QED
      BY <3>1, <3>2 DEF MonthsAreKept
  <2> QED
    BY <2>3, <2>4
<1> QED
  BY <1>1, <1>2, AccessCorrect, PTL DEF Spec
=============================================================================
