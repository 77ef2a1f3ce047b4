------------------------------ MODULE LiqPay ------------------------------
(***************************************************************************)
(* The payment provider, as the billing module uses it: an external        *)
(* service.  Once a payer has paid a checkout page LiqPay charges the card *)
(* every month until it is asked to stop, and reports what happened in     *)
(* callbacks.  A callback, once sent, may be delivered any number of times *)
(* (also never), in any order: sent only grows and delivery removes        *)
(* nothing.                                                                *)
(***************************************************************************)
EXTENDS Naturals

CONSTANTS
    Orders,         \* order ids, one per checkout page ever offered
    PaidReports,    \* the statuses one successful charge is reported under
    Sums,           \* {TRUE}: charges are for the pinned price; FALSE: some are not
    MaxEvents       \* bound on the charges and reversals at LiqPay

VARIABLES
    recurring,  \* per order: "idle", "charging" or "stopped"
    sent,       \* every callback LiqPay has sent
    clock       \* the number of events so far, which is also LiqPay's time

liqPayVars == <<recurring, sent, clock>>

\* The statuses LiqPay is modelled to report, of the many it has.
ReportStatuses ==
    {"success", "subscribed", "sandbox", "failure", "error", "reversed",
     "unsubscribed", "wait_secure"}

ASSUME ReportAssumption ==
    PaidReports \subseteq ReportStatuses \ {"unsubscribed"} /\ Sums \subseteq BOOLEAN

RecurringStates == {"idle", "charging", "stopped"}

\* The payment id of an `unsubscribed` callback, which names no payment.
NoPayment == 0

Report(o, payment, status, match) ==
    [order |-> o, payment |-> payment, status |-> status,
     at |-> clock + 1, match |-> match]

Happens(reports) ==
    /\ clock' = clock + 1
    /\ sent' = sent \cup reports

LiqPayInit(charging) ==
    /\ recurring = [o \in Orders |-> IF o \in charging THEN "charging" ELSE "idle"]
    /\ sent = {}
    /\ clock = 0

\* The payer completes the checkout page of order o: its first charge, and from
\* now on LiqPay charges the card.
PayCheckout(o) ==
    /\ clock < MaxEvents
    /\ recurring[o] = "idle"
    /\ recurring' = [recurring EXCEPT ![o] = "charging"]
    /\ \E match \in Sums :
         Happens({Report(o, clock + 1, s, match) : s \in PaidReports})

\* The monthly charge of a running order goes through.
ChargeAgain(o) ==
    /\ clock < MaxEvents
    /\ recurring[o] = "charging"
    /\ \E match \in Sums :
         Happens({Report(o, clock + 1, s, match) : s \in PaidReports})
    /\ UNCHANGED recurring

\* A charge is declined: the first one, on the page, or a monthly one.
Decline(o) ==
    /\ clock < MaxEvents
    /\ recurring[o] # "stopped"
    /\ Happens({Report(o, clock + 1, "failure", TRUE)})
    /\ UNCHANGED recurring

\* A settled payment is taken back.
TakeBack(o) ==
    /\ clock < MaxEvents
    /\ \E e \in sent :
         /\ e.order = o
         /\ e.status = "success"
         /\ \A r \in sent : r.status = "reversed" => r.payment # e.payment
         /\ Happens({Report(o, e.payment, "reversed", TRUE)})
    /\ UNCHANGED recurring

\* LiqPay stops charging order o, at our request or at the payer's.
Unsubscribe(o) ==
    /\ recurring[o] = "charging"
    /\ recurring' = [recurring EXCEPT ![o] = "stopped"]
    /\ Happens({Report(o, NoPayment, "unsubscribed", TRUE)})

\* What a status query about order o may answer: its newest report.
NewestReports(o) ==
    {e \in sent : e.order = o /\ \A f \in sent : f.order = o => f.at <= e.at}
=============================================================================
