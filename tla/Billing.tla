------------------------------ MODULE Billing ------------------------------
(***************************************************************************)
(* The subscription of one organization, as the API keeps it               *)
(* (src/apps/api/src/modules/billing): the subscription row, the checkouts *)
(* offered to its payer, the callback log and the queue of orders LiqPay   *)
(* still has to stop.                                                      *)
(*                                                                         *)
(* Requests run concurrently in Workers.  A request reads, decides on what *)
(* it read and writes in one transaction; between its awaits any other     *)
(* request may run, a day may pass, and the process may die.  A write that *)
(* is conditional on updatedAt is conditional on the worker not being in   *)
(* `overtaken`: the set of workers whose reading of the row an intervening *)
(* write has outdated.                                                     *)
(***************************************************************************)
EXTENDS SubscriptionTransitions, Entitlements, LiqPay, FiniteSets

CONSTANTS
    Workers,        \* concurrent requests
    LegacyOrders,   \* orders already live that predate the checkout table
    RolloutWindow,  \* restrictAfter of the row at the start, or NoDate
    Stamped,        \* whether callbacks carry the time of their event
    MaxAttempts,    \* CALLBACK_APPLY_ATTEMPTS
    MaxTime         \* bound on the clock, in days

ASSUME OrderAssumption == NoOrder \notin Orders
ASSUME AttemptAssumption == MaxAttempts \in Nat \ {0}
ASSUME InitAssumption == LegacyOrders \subseteq Orders /\ RolloutWindow \in Nat

VARIABLES
    now,        \* today
    sub,        \* the subscription row
    checkouts,  \* per order: its checkout row's status, "NONE" without a row
    requests,   \* per order: its unsubscribe request, "none" without a row
    log,        \* the recorded callbacks
    orgActive,  \* whether the organization's status is ACTIVE
    op,         \* per worker: the request it is running
    overtaken   \* the workers whose reading of the row is outdated

rowVars == <<sub, checkouts, requests, log, orgActive>>
vars == <<now, rowVars, op, overtaken, liqPayVars>>

CheckoutStatuses == {"NONE", "PROPOSED", "PAID", "ABANDONED"}
RequestStates    == {"none", "open", "resolved"}
Issues           == {"none", "review", "out-of-order"}

-----------------------------------------------------------------------------
(* The phases of a request.  "received", "located", "matched", "judged": a  *)
(* callback on its way to the database; "canceling", "offering": the two      *)
(* requests of an owner; "stopping", "stopped": the call to LiqPay that     *)
(* follows a commit; "changing": a status change (BillingAdministration).    *)

Idle == [phase |-> "idle"]
Received(event, at, attempt) ==
    [phase |-> "received", event |-> event, now |-> at, attempt |-> attempt]
Stopping(o) == [phase |-> "stopping", order |-> o]
Stopped(o)  == [phase |-> "stopped", order |-> o]
StoppingAnyOf(orders) ==
    IF orders = {} THEN Idle ELSE Stopping(CHOOSE o \in orders : TRUE)

\* The workers other than w that hold a reading of the row and will check it.
Readers(w) ==
    {v \in Workers \ {w} : op[v].phase \in {"matched", "judged", "canceling"}}

Run(w, next) == op' = [op EXCEPT ![w] = next]

\* w lets go of its reading; the row is not written.
RowUnread(w) == overtaken' = overtaken \ {w}

\* w writes the row: every other reading of it is outdated.
RowWritten(w) == overtaken' = Readers(w)

Merge(row, t) ==
    [row EXCEPT !.status = t.status, !.grace = t.grace, !.period = t.period,
                !.cancelRequested = t.cancelRequested]

\* queueUnsubscribe and resolveUnsubscribe.
QueueUnsubscribe(queue, orders) ==
    [o \in Orders |-> IF o \in orders THEN "open" ELSE queue[o]]
ResolveUnsubscribe(queue, orders) ==
    [o \in Orders |-> IF o \in orders /\ queue[o] = "open" THEN "resolved" ELSE queue[o]]

\* updateMany({where: {status: 'PROPOSED'}, data: {status: 'ABANDONED'}})
AbandonProposed(rows) ==
    [o \in Orders |-> IF rows[o] = "PROPOSED" THEN "ABANDONED" ELSE rows[o]]

-----------------------------------------------------------------------------
NewSubscription ==
    [status |-> "PENDING", grace |-> NoDate, period |-> NoDate,
     cancelRequested |-> FALSE, restrictAfter |-> RolloutWindow,
     order |-> NoOrder, exempt |-> FALSE]

\* A subscription activated before checkout orders had rows of their own.
LegacySubscription(o) ==
    [NewSubscription EXCEPT !.status = "ACTIVE", !.period = 1 + Month, !.order = o]

Init ==
    /\ now = 1
    /\ sub \in {NewSubscription} \cup {LegacySubscription(o) : o \in LegacyOrders}
    /\ checkouts = [o \in Orders |-> "NONE"]
    /\ requests = [o \in Orders |-> "none"]
    /\ log = {}
    /\ orgActive = TRUE
    /\ op = [w \in Workers |-> Idle]
    /\ overtaken = {}
    /\ LiqPayInit(LegacyOrders \cap {sub.order})

-----------------------------------------------------------------------------
(* POST billing/checkout: startCheckout, and the page it hands out. *)

StartCheckout(w) ==
    /\ op[w] = Idle
    /\ orgActive
    /\ ~sub.exempt
    /\ Run(w, [phase |-> "offering"])
    /\ UNCHANGED <<now, rowVars, overtaken, liqPayVars>>

\* A checkout offered minutes ago at today's price is handed out again.
ReuseCheckout(w) ==
    /\ op[w].phase = "offering"
    /\ \E o \in Orders : checkouts[o] = "PROPOSED"
    /\ Run(w, Idle)
    /\ UNCHANGED <<now, rowVars, overtaken, liqPayVars>>

\* None was found, or only at another price or offered too long ago.
CreateCheckoutOrder(w) ==
    /\ op[w].phase = "offering"
    /\ \E o \in Orders :
         /\ checkouts[o] = "NONE"
         /\ recurring[o] = "idle"
         /\ checkouts' = [checkouts EXCEPT ![o] = "PROPOSED"]
    /\ Run(w, Idle)
    /\ UNCHANGED <<now, sub, requests, log, orgActive, overtaken, liqPayVars>>

-----------------------------------------------------------------------------
(* POST billing/liqpay/callback: handleCallback and what it calls. *)

DeliverCallback(w, event) ==
    /\ op[w] = Idle
    /\ Run(w, Received(event, now, 1))
    /\ UNCHANGED <<now, rowVars, overtaken, liqPayVars>>

(* findByOrderId makes two queries: the checkout row, then the subscription. *)

FindCheckoutOrder(w) ==
    LET c == op[w]
    IN  /\ c.phase = "received"
        /\ Run(w, [phase |-> "located", event |-> c.event, now |-> c.now,
                   attempt |-> c.attempt, checkout |-> checkouts[c.event.order]])
        /\ UNCHANGED <<now, rowVars, overtaken, liqPayVars>>

FindSubscription(w) ==
    LET c == op[w]
    IN  /\ c.phase = "located"
        /\ c.checkout # "NONE" \/ sub.order = c.event.order
        /\ Run(w, [phase |-> "matched", event |-> c.event, now |-> c.now,
                   attempt |-> c.attempt, seen |-> sub, checkout |-> c.checkout])
        /\ UNCHANGED <<now, rowVars, overtaken, liqPayVars>>

\* The order matches nothing: acknowledged and dropped.
UnknownOrder(w) ==
    /\ op[w].phase = "located"
    /\ op[w].checkout = "NONE" /\ sub.order # op[w].event.order
    /\ Run(w, Idle)
    /\ UNCHANGED <<now, rowVars, overtaken, liqPayVars>>

\* eventAt as decodeCallback finds it, 0 if LiqPay sent none.
EventAt(event) == IF Stamped THEN event.at ELSE 0

\* A mistake: the checkout is read once more, after the subscription.
FindPaymentHistoryAndCheckout(w) ==
    LET c == op[w]
        samePayment == {l \in log : l.order = c.event.order /\ l.payment = c.event.payment}
    IN  /\ c.phase = "matched"
        /\ Run(w, [phase |-> "judged", event |-> c.event, now |-> c.now,
                   attempt |-> c.attempt, seen |-> c.seen,
                   checkout |-> checkouts[c.event.order],
                   newerEvent |-> \E l \in log : l.at > EventAt(c.event),
                   alreadyFailed |-> \E l \in samePayment : l.status \in FailedStatuses])
        /\ UNCHANGED <<now, rowVars, overtaken, liqPayVars>>

FindPaymentHistory(w) ==
    LET c == op[w]
        samePayment == {l \in log : l.order = c.event.order /\ l.payment = c.event.payment}
    IN  /\ c.phase = "matched"
        /\ Run(w, [phase |-> "judged", event |-> c.event, now |-> c.now,
                   attempt |-> c.attempt, seen |-> c.seen, checkout |-> c.checkout,
                   newerEvent |-> \E l \in log : l.at > EventAt(c.event),
                   alreadyFailed |-> \E l \in samePayment : l.status \in FailedStatuses])
        /\ UNCHANGED <<now, rowVars, overtaken, liqPayVars>>

(* What applyCallbackOnce decides about a judged callback c. *)

Outcome(c) == ClassifyCallbackStatus(c.event.status)
Role(c)    == CallbackRole(c.checkout, c.seen.order = c.event.order)
IsNew(c)   == Role(c) = "new-checkout"

OutOfOrder(c) ==
    IsOutOfOrderCallback(Outcome(c), EventAt(c.event) # 0, c.newerEvent, c.alreadyFailed)

\* paymentReview: the issues that hold a payment back.
Blocked(c) ==
    Outcome(c) = "paid" /\ (~c.event.match \/ Role(c) = "retired-checkout")

Decision(c) ==
    IF Blocked(c) \/ OutOfOrder(c) \/ Role(c) = "retired-checkout"
    THEN {}
    ELSE TransitionForCallbackStatus(c.seen, c.event.status, c.now, IsNew(c))

Activated(c) == \E t \in Decision(c) : t.status = "ACTIVE"
Credited(c)  == Outcome(c) = "paid" /\ Decision(c) # {}

\* A mistake: an order replaced by a new checkout is not stopped.
OrderToStopUnlessReplaced(c) ==
    IF Outcome(c) = "paid"
       /\ \/ Role(c) = "retired-checkout"
          \/ ~IsNew(c) /\ (c.seen.cancelRequested \/ c.seen.status = "CANCELED")
          \/ Blocked(c) /\ IsNew(c)
    THEN {c.event.order} ELSE {}

\* The order this callback leaves charging a card, if any.
OrderToStop(c) ==
    LET windingDown == ~IsNew(c) /\ (c.seen.cancelRequested \/ c.seen.status = "CANCELED")
        notHonoured == \/ Role(c) = "retired-checkout"
                       \/ windingDown
                       \/ Blocked(c) /\ IsNew(c)
    IN  IF Outcome(c) # "paid" THEN {}
        ELSE IF notHonoured THEN {c.event.order}
        ELSE IF IsNew(c) /\ Activated(c) THEN {c.seen.order} \ {NoOrder, c.event.order}
        ELSE {}

\* resolveCheckout, and the abandonment of a checkout whose payment is blocked.
PaysCheckout(c) == IsNew(c) /\ Activated(c)
AbandonsCheckout(c) ==
    \/ Blocked(c) /\ c.checkout = "PROPOSED"
    \/ IsNew(c) /\ Outcome(c) \in {"failed", "canceled"}
ClosesCheckout(c) == PaysCheckout(c) \/ AbandonsCheckout(c)

\* buildCallbackUpdate: only a new checkout that renews takes over as the live order.
TakesOver(c) ==
    IsNew(c) /\ \E t \in Decision(c) : t.status = "ACTIVE" /\ ~t.cancelRequested

UpdatedRow(c) ==
    IF Decision(c) = {} THEN sub
    ELSE LET t == CHOOSE t \in Decision(c) : TRUE
         IN  [Merge(sub, t) EXCEPT !.order = IF TakesOver(c) THEN c.event.order ELSE @]

LogEntry(c) ==
    [order |-> c.event.order, payment |-> c.event.payment, status |-> c.event.status,
     at |-> EventAt(c.event), credited |-> Credited(c),
     issue |-> IF Blocked(c) THEN "review"
               ELSE IF OutOfOrder(c) THEN "out-of-order" ELSE "none"]

\* A mistake: only the same status of a payment is a repetition of it.
DuplicateByStatus(c) ==
    \E l \in log :
      /\ l.order = c.event.order
      /\ l.payment = c.event.payment
      /\ l.status = c.event.status

\* The unique index on (order, payment, status), and the partial one on
\* (order, payment) where credited.
Duplicate(c) ==
    \E l \in log :
      /\ l.order = c.event.order
      /\ l.payment = c.event.payment
      /\ l.status = c.event.status \/ (Credited(c) /\ l.credited)

\* A mistake: the row is written without regard to what was read.
StaleCheckoutOnly(w, c) ==
    ClosesCheckout(c) /\ checkouts[c.event.order] # "PROPOSED"

\* The two writes of applyCallback that are conditional on what was read.
Stale(w, c) ==
    \/ ClosesCheckout(c) /\ checkouts[c.event.order] # "PROPOSED"
    \/ Decision(c) # {} /\ w \in overtaken

AnswerDuplicate(w) ==
    /\ op[w].phase = "judged"
    /\ Duplicate(op[w])
    /\ Run(w, Idle)
    /\ RowUnread(w)
    /\ UNCHANGED <<now, rowVars, liqPayVars>>

\* StaleSubscriptionStateError: decided again, until the attempts run out.
ReapplyStale(w) ==
    LET c == op[w]
    IN  /\ c.phase = "judged"
        /\ ~Duplicate(c) /\ Stale(w, c)
        /\ Run(w, IF c.attempt < MaxAttempts
                  THEN Received(c.event, c.now, c.attempt + 1) ELSE Idle)
        /\ RowUnread(w)
        /\ UNCHANGED <<now, rowVars, liqPayVars>>

CommitCallback(w) ==
    LET c == op[w]
        o == c.event.order
        closed == [checkouts EXCEPT ![o] = IF PaysCheckout(c) THEN "PAID"
                                          ELSE IF AbandonsCheckout(c) THEN "ABANDONED"
                                          ELSE @]
        cancels == Outcome(c) = "canceled" /\ Decision(c) # {}
        unsubscribed == IF c.event.status = "unsubscribed" THEN {o} ELSE {}
    IN  /\ c.phase = "judged"
        /\ ~Duplicate(c) /\ ~Stale(w, c)
        /\ log' = log \cup {LogEntry(c)}
        /\ checkouts' = IF PaysCheckout(c) \/ cancels
                        THEN AbandonProposed(closed) ELSE closed
        /\ requests' = QueueUnsubscribe(ResolveUnsubscribe(requests, unsubscribed),
                                        OrderToStop(c))
        /\ sub' = UpdatedRow(c)
        /\ IF Decision(c) # {} THEN RowWritten(w) ELSE RowUnread(w)
        /\ Run(w, StoppingAnyOf(OrderToStop(c)))
        /\ UNCHANGED <<now, orgActive, liqPayVars>>

-----------------------------------------------------------------------------
(* POST billing/cancel *)

RequestCancellation(w) ==
    /\ op[w] = Idle
    /\ orgActive
    /\ CanRequestCancellation(sub)
    /\ Run(w, [phase |-> "canceling", now |-> now, seen |-> sub])
    /\ UNCHANGED <<now, rowVars, overtaken, liqPayVars>>

\* A mistake: the cancellation is written whatever happened since the row was read.
CommitCancellationAnyway(w) ==
    LET c == op[w]
    IN  /\ c.phase = "canceling"
        /\ sub' = Merge(sub, CancellationTransition(c.seen, c.now))
        /\ requests' = QueueUnsubscribe(requests, {c.seen.order})
        /\ checkouts' = AbandonProposed(checkouts)
        /\ RowWritten(w)
        /\ Run(w, Stopping(c.seen.order))
        /\ UNCHANGED <<now, log, orgActive, liqPayVars>>

CommitCancellation(w) ==
    LET c == op[w]
    IN  /\ c.phase = "canceling"
        /\ w \notin overtaken
        /\ sub' = Merge(sub, CancellationTransition(c.seen, c.now))
        /\ requests' = QueueUnsubscribe(requests, {c.seen.order})
        /\ checkouts' = AbandonProposed(checkouts)
        /\ RowWritten(w)
        /\ Run(w, Stopping(c.seen.order))
        /\ UNCHANGED <<now, log, orgActive, liqPayVars>>

\* P2025: "The subscription changed. Please try canceling again."
CancellationConflict(w) ==
    /\ op[w].phase = "canceling"
    /\ w \in overtaken
    /\ Run(w, Idle)
    /\ RowUnread(w)
    /\ UNCHANGED <<now, rowVars, liqPayVars>>

-----------------------------------------------------------------------------
(* stopOrder: the unsubscribe call, and closing the request it was made for. *)

\* LiqPay stops the order, or has no recurring charge left for it.
StopAccepted(w) ==
    LET o == op[w].order
    IN  /\ op[w].phase = "stopping"
        /\ \/ Unsubscribe(o)
           \/ recurring[o] # "charging" /\ UNCHANGED liqPayVars
        /\ Run(w, Stopped(o))
        /\ UNCHANGED <<now, rowVars, overtaken>>

\* A mistake: an answer LiqPay did not give is taken for a stopped order.
StopAssumed(w) ==
    /\ op[w].phase = "stopping"
    /\ Unsubscribe(op[w].order) \/ UNCHANGED liqPayVars
    /\ Run(w, Stopped(op[w].order))
    /\ UNCHANGED <<now, rowVars, overtaken>>

\* 'retry': LiqPay refuses or is not reached, or stops the order and its answer
\* is lost.
StopUnconfirmed(w) ==
    /\ op[w].phase = "stopping"
    /\ Unsubscribe(op[w].order) \/ UNCHANGED liqPayVars
    /\ Run(w, Idle)
    /\ UNCHANGED <<now, rowVars, overtaken>>

ResolveUnsubscribeRequest(w) ==
    /\ op[w].phase = "stopped"
    /\ requests' = ResolveUnsubscribe(requests, {op[w].order})
    /\ Run(w, Idle)
    /\ UNCHANGED <<now, sub, checkouts, log, orgActive, overtaken, liqPayVars>>

-----------------------------------------------------------------------------
\* The process dies, the database goes away, the connection is cut.
Abort(w) ==
    /\ op[w] # Idle
    /\ Run(w, Idle)
    /\ RowUnread(w)
    /\ UNCHANGED <<now, rowVars, liqPayVars>>

\* A request or a job is over within minutes: it sees at most one midnight.
Tick ==
    /\ now < MaxTime
    /\ \A w \in Workers : "now" \in DOMAIN op[w] => op[w].now = now
    /\ now' = now + 1
    /\ UNCHANGED <<rowVars, op, overtaken, liqPayVars>>

ProviderStep ==
    /\ \E o \in Orders :
         \/ checkouts[o] # "NONE" /\ PayCheckout(o)
         \/ (checkouts[o] # "NONE" \/ recurring[o] = "charging") /\ Decline(o)
         \/ ChargeAgain(o)
         \/ TakeBack(o)
         \/ clock < MaxEvents /\ Unsubscribe(o)
    /\ UNCHANGED <<now, rowVars, op, overtaken>>

\* What a request does once it runs.
Continue(w) ==
    \/ ReuseCheckout(w) \/ CreateCheckoutOrder(w)
    \/ FindCheckoutOrder(w) \/ FindSubscription(w) \/ UnknownOrder(w)
    \/ FindPaymentHistory(w)
    \/ AnswerDuplicate(w) \/ ReapplyStale(w) \/ CommitCallback(w)
    \/ CommitCancellation(w) \/ CancellationConflict(w)
    \/ StopAccepted(w) \/ StopUnconfirmed(w) \/ ResolveUnsubscribeRequest(w)
    \/ Abort(w)

Arrive(w) ==
    \/ StartCheckout(w)
    \/ RequestCancellation(w)
    \/ \E event \in sent : DeliverCallback(w, event)

Next ==
    \/ \E w \in Workers : Arrive(w) \/ Continue(w)
    \/ ProviderStep
    \/ Tick

Spec == Init /\ [][Next]_vars

-----------------------------------------------------------------------------
(* Types. *)

SubscriptionRows ==
    [status : SubscriptionStatuses, grace : Nat, period : Nat,
     cancelRequested : BOOLEAN, restrictAfter : Nat,
     order : Orders \cup {NoOrder}, exempt : BOOLEAN]

Events ==
    [order : Orders, payment : Nat, status : ReportStatuses, at : Nat, match : BOOLEAN]

LogEntries ==
    [order : Orders, payment : Nat, status : ReportStatuses, at : Nat,
     credited : BOOLEAN, issue : Issues]

ReceivedRequests ==
    [phase : {"received"}, event : Events, now : Nat, attempt : Nat]
LocatedRequests ==
    [phase : {"located"}, event : Events, now : Nat, attempt : Nat,
     checkout : CheckoutStatuses]
MatchedRequests ==
    [phase : {"matched"}, event : Events, now : Nat, attempt : Nat,
     checkout : CheckoutStatuses, seen : SubscriptionRows]
JudgedRequests ==
    [phase : {"judged"}, event : Events, now : Nat, attempt : Nat,
     checkout : CheckoutStatuses, seen : SubscriptionRows,
     newerEvent : BOOLEAN, alreadyFailed : BOOLEAN]
CancelRequests ==
    [phase : {"canceling"}, now : Nat, seen : {row \in SubscriptionRows : row.order \in Orders}]
ChangeRequests ==
    [phase : {"changing"}, now : Nat, seen : SubscriptionRows]
StopRequests ==
    [phase : {"stopping", "stopped"}, order : Orders]

Requests ==
    [phase : {"idle", "offering"}]
    \cup ReceivedRequests \cup LocatedRequests \cup MatchedRequests \cup JudgedRequests
    \cup CancelRequests \cup ChangeRequests \cup StopRequests

\* The types of the database's tables, of the requests and of LiqPay's state.
TypeOK ==
    /\ now \in Nat
    /\ sub \in SubscriptionRows
    /\ checkouts \in [Orders -> CheckoutStatuses]
    /\ requests \in [Orders -> RequestStates]
    /\ log \subseteq LogEntries
    /\ orgActive \in BOOLEAN
    /\ op \in [Workers -> Requests]
    /\ overtaken \subseteq Workers
    /\ recurring \in [Orders -> RecurringStates]
    /\ sent \subseteq Events
    /\ clock \in Nat

-----------------------------------------------------------------------------
(* Safety. *)

\* A payment buys one month, however many paid statuses LiqPay reports it
\* under and however often it delivers them (the credit index of applyCallback).
PaymentIsCreditedOnce ==
    \A l, m \in log :
      l.credited /\ m.credited /\ l.order = m.order /\ l.payment = m.payment => l = m

\* An order that was live once and was replaced is never forgotten: a request
\* to stop it was queued with the swap (orderToStop, the guard of applyCallback).
SupersededOrderIsQueued ==
    \A o \in Orders :
      checkouts[o] = "PAID" /\ o # sub.order => requests[o] # "none"

\* Whether a charge of order o was recorded and judged on its merits.
ChargeRecorded(o) ==
    \E l \in log : /\ l.order = o
                  /\ l.status \in PaidStatuses
                  /\ l.issue # "out-of-order"

\* Every order that LiqPay still charges, and whose charge has reached us, is the
\* live order of a subscription that renews, or is queued to be stopped - whatever
\* callbacks, cancellations and lost answers cross (orderToStop, cancel, stopOrder).
ChargingOrderIsTracked ==
    \A o \in Orders :
      recurring[o] = "charging" /\ ChargeRecorded(o) =>
        \/ requests[o] = "open"
        \/ sub.order = o /\ CanRequestCancellation(sub)

\* The same for every paid callback, also one set aside as overtaken by a later
\* event: "an order missed here is an order LiqPay keeps charging with nothing left
\* in the system aware of it" (billing.service.ts:755-756).
OutOfOrderChargeIsTracked ==
    \A l \in log :
      l.status \in PaidStatuses /\ recurring[l.order] = "charging" =>
        requests[l.order] = "open" \/ sub.order = l.order

\* While the live order of a cancelled subscription still charges, a request to
\* stop it is open (cancel and changeStatus queue it with the cancellation).
CanceledOrderIsQueued ==
    sub.cancelRequested /\ sub.order # NoOrder /\ recurring[sub.order] = "charging" =>
      requests[sub.order] = "open"

\* The order a subscription renews by is never queued to be stopped, nor is LiqPay asked
\* to: what was decided on an older reading, or on a checkout since paid, does not reach it
\* (orderToStop, and the guards of applyCallback and cancel).
RenewingOrderIsNotStopped ==
    \A o \in Orders :
      sub.order = o /\ CanRequestCancellation(sub) =>
        /\ requests[o] # "open"
        /\ \A w \in Workers : op[w].phase = "stopping" => op[w].order # o

-----------------------------------------------------------------------------
(* What a step may never do. *)

CreditedIn(entries) == {l \in entries : l.credited}
CreditedNow == CreditedIn(log') \ CreditedIn(log)

\* No charge recorded as paid is lost or paid twice: the paid period grows by at
\* least a month exactly when a payment is credited, and never shrinks
\* (PaidTransition, and the guard that refuses a change computed on an old reading).
EveryCreditAddsAMonth ==
    [][IF CreditedNow = {}
       THEN sub'.period = sub.period
       ELSE Cardinality(CreditedNow) = 1 /\ sub'.period >= sub.period + Month]_vars

\* Only a checkout the organization paid for ends a cancellation; late charges,
\* failures and reversals of the old order leave it standing.
OnlyNewCheckoutRenews ==
    [][sub.cancelRequested /\ ~sub'.cancelRequested =>
         /\ sub'.order # sub.order
         /\ checkouts[sub'.order] = "PROPOSED" /\ checkouts'[sub'.order] = "PAID"]_vars

\* Full access, once over, comes back only with a credited payment, a complimentary
\* grant or a rollout window handed back: a failed charge, a reversal, a cancellation
\* or the nightly job never returns it.
AccessReturnsOnlyWhenPaid ==
    [][~FullAccess(sub, now) /\ FullAccess(sub', now') =>
         \/ CreditedNow # {}
         \/ sub'.exempt
         \/ sub'.restrictAfter # sub.restrictAfter]_vars

\* A cancellation keeps what was paid for: until the paid period and its grace are
\* over the organization has full access (cancellationTransition).
CancellationKeepsPaidTime ==
    [][~sub.cancelRequested /\ sub'.cancelRequested /\ sub.status = "ACTIVE" =>
         sub'.grace = sub.period + GracePeriod \/ sub.period + GracePeriod <= now]_vars

\* The requests together keep one book: whatever they read, retry and leave undone, each
\* commit is one entry made on the row as it is (applyCallback, cancel, stopOrder).
CreditedCharges == {<<l.order, l.payment>> : l \in {m \in log : m.credited}}
Ledger == INSTANCE SubscriptionLedger WITH
    today <- now, paidUntil <- sub.period, live <- sub.order,
    canceled <- sub.cancelRequested, credited <- CreditedCharges,
    offers <- checkouts, stops <- requests
ImplementsLedger == Ledger!LedgerSpec

\* "once one of these is on record for a payment, a `success` for the same payment
\* arriving afterwards is a late delivery of an outcome that has already been
\* superseded, not a new one": it is not credited (subscription-transitions.ts:14-16).
ReversedPaymentIsNotCredited ==
    [][\A l \in CreditedNow : \A f \in log :
         f.order = l.order /\ f.payment = l.payment => f.status \notin FailedStatuses]_vars
=============================================================================
