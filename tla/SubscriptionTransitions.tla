--------------------- MODULE SubscriptionTransitions ---------------------
(***************************************************************************)
(* The pure decisions of the billing module of the API                     *)
(* (src/apps/api/src/modules/billing/subscription-transitions.ts): what a  *)
(* LiqPay callback, a cancellation or a chargeback makes of a subscription. *)
(*                                                                         *)
(* Dates are day numbers.  NoDate stands for a NULL column, and every real *)
(* date is positive, so NoDate is before every date.  A function of the    *)
(* code that returns a next state or null returns here the set that holds  *)
(* the next state, or the empty set.                                       *)
(***************************************************************************)
EXTENDS Naturals

CONSTANTS
    Month,        \* addMonths(date, 1), in days
    GracePeriod,  \* BILLING_GRACE_PERIOD_DAYS
    NoOrder       \* liqpayOrderId = null

ASSUME PeriodAssumption == Month \in Nat \ {0} /\ GracePeriod \in Nat \ {0}

NoDate == 0

SubscriptionStatuses ==
    {"PENDING", "ACTIVE", "PAST_DUE", "RESTRICTED", "CANCELED"}

-----------------------------------------------------------------------------
(* Callback statuses and the roles of the orders they name. *)

PaidStatuses     == {"success", "subscribed", "sandbox"}
FailedStatuses   == {"failure", "error", "reversed"}
CanceledStatuses == {"unsubscribed"}

ClassifyCallbackStatus(status) ==
    CASE status \in PaidStatuses     -> "paid"
      [] status \in CanceledStatuses -> "canceled"
      [] status \in FailedStatuses   -> "failed"
      [] OTHER                       -> "undecided"

\* checkoutStatus is "NONE" for an order that has no checkout row.
CallbackRole(checkoutStatus, isLiveOrder) ==
    CASE checkoutStatus = "ABANDONED"                 -> "retired-checkout"
      [] checkoutStatus = "NONE"                      -> "renewal"
      [] checkoutStatus # "ABANDONED" /\ isLiveOrder  -> "renewal"
      [] checkoutStatus = "PROPOSED" /\ ~isLiveOrder  -> "new-checkout"
      [] checkoutStatus = "PAID" /\ ~isLiveOrder      -> "retired-checkout"

-----------------------------------------------------------------------------
(* The four fields a transition decides. *)

Transition(status, grace, period, cancelRequested) ==
    [status |-> status, grace |-> grace, period |-> period,
     cancelRequested |-> cancelRequested]

\* Whether cancel, a complimentary grant or a status change has an order to stop.
CanRequestCancellation(row) ==
    /\ row.order # NoOrder
    /\ row.status # "CANCELED"
    /\ ~row.cancelRequested

\* A mistake: the grace period is left out.
PeriodAtCancellation(row) ==
    CASE row.status = "ACTIVE"   -> row.period
      [] row.status = "PAST_DUE" -> row.grace
      [] OTHER                   -> NoDate

\* The access a cancellation leaves: the paid period and its grace, or what is
\* left of a grace period already running.
GraceAtCancellation(row) ==
    CASE row.status = "ACTIVE" /\ row.period # NoDate -> row.period + GracePeriod
      [] row.status = "PAST_DUE"                      -> row.grace
      [] OTHER                                        -> NoDate

CancellationTransition(row, at) ==
    LET remaining == GraceAtCancellation(row) > at
    IN  IF row.cancelRequested
        THEN Transition(row.status, row.grace, row.period, TRUE)
        ELSE Transition(IF remaining THEN row.status ELSE "CANCELED",
                        IF remaining THEN GraceAtCancellation(row) ELSE NoDate,
                        row.period, TRUE)

\* A payment taken back after the cancellation pulls the deadline in, never out.
ChargebackTransition(row, at) ==
    IF row.grace > at + GracePeriod
    THEN {Transition(row.status, at + GracePeriod, row.period, row.cancelRequested)}
    ELSE {}

\* A charge adds a month to what is left of the paid period.
PeriodAfterPayment(row, at) ==
    (IF row.period > at THEN row.period ELSE at) + Month

\* A mistake: any charge renews the subscription, also one of a cancelled order.
PaidTransitionRenewing(row, at, isNew) ==
    Transition("ACTIVE", NoDate, PeriodAfterPayment(row, at), FALSE)

PaidTransition(row, at, isNew) ==
    LET period == PeriodAfterPayment(row, at)
    IN  IF ~isNew /\ (row.cancelRequested \/ row.status = "CANCELED")
        THEN Transition("ACTIVE", period + GracePeriod, period, TRUE)
        ELSE Transition("ACTIVE", NoDate, period, FALSE)

\* A mistake: every failed charge starts the grace period again.
FailedTransitionRestarting(row, at) ==
    Transition("PAST_DUE", at + GracePeriod, row.period, FALSE)

\* A mistake: the first failed charge grants no grace period.
FailedTransitionAtOnce(row, at) ==
    Transition("PAST_DUE",
               IF row.status = "PAST_DUE" /\ row.grace # NoDate THEN row.grace ELSE at,
               row.period, FALSE)

FailedTransition(row, at) ==
    Transition("PAST_DUE",
               IF row.status = "PAST_DUE" /\ row.grace # NoDate
               THEN row.grace ELSE at + GracePeriod,
               row.period, FALSE)

When(condition, next) == IF condition THEN next ELSE {}

\* A mistake: a failed charge moves a restricted subscription too.
TransitionIgnoringRestriction(row, status, at, isNew) ==
    LET outcome  == ClassifyCallbackStatus(status)
        renewing == ~isNew /\ ~row.cancelRequested
    IN  When(outcome = "paid", {PaidTransition(row, at, isNew)})
        \cup When(outcome = "canceled" /\ renewing, {CancellationTransition(row, at)})
        \cup When(outcome = "failed" /\ renewing, {FailedTransition(row, at)})

TransitionForCallbackStatus(row, status, at, isNew) ==
    LET outcome  == ClassifyCallbackStatus(status)
        renewing == ~isNew /\ ~row.cancelRequested
    IN  When(outcome = "paid", {PaidTransition(row, at, isNew)})
        \cup When(status = "reversed" /\ ~isNew /\ row.cancelRequested,
                  ChargebackTransition(row, at))
        \cup When(outcome = "canceled" /\ renewing /\ row.status # "CANCELED",
                  {CancellationTransition(row, at)})
        \cup When(outcome = "failed" /\ renewing
                    /\ row.status \notin {"RESTRICTED", "CANCELED"},
                  {FailedTransition(row, at)})

\* newerEvent: an event later than this one is on record (lastEventAt).
IsOutOfOrderCallback(outcome, stamped, newerEvent, paymentAlreadyFailed) ==
    \/ outcome = "paid" /\ paymentAlreadyFailed
    \/ stamped /\ newerEvent
=============================================================================
