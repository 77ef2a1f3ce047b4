------------------------- MODULE SubscriptionLedger -------------------------
(***************************************************************************)
(* What billing promises about an organization's money, as one book in     *)
(* which every entry is made at once: a charge buys one month and buys it   *)
(* once, an order that is replaced or cancelled is put down to be stopped  *)
(* in the same entry, and the order that renews the subscription never is. *)
(* There are no requests, retries or crashes here.                         *)
(***************************************************************************)
EXTENDS Integers

CONSTANTS Orders,
          NoOrder,
          Month         \* the days a charge pays for

VARIABLES today,
          paidUntil,    \* the end of the paid period
          live,         \* the order that renews the subscription, or NoOrder
          canceled,     \* whether the renewals have been cancelled
          credited,     \* the charges entered, each an order and a payment
          offers,       \* per order: "NONE", "PROPOSED", "PAID" or "ABANDONED"
          stops,        \* per order: "none", "open" or "resolved"
          recurring     \* per order, at the provider: "idle", "charging" or "stopped"

bookVars == <<paidUntil, live, canceled, credited, offers, stops>>
ledgerVars == <<today, bookVars, recurring>>

Renewing(o) == o = live /\ ~canceled

\* Orders put down to be stopped, and one that has been stopped.
PutDown(orders) == [o \in Orders |-> IF o \in orders THEN "open" ELSE stops[o]]
TickedOff(o) == [stops EXCEPT ![o] = IF @ = "open" THEN "resolved" ELSE @]

\* The pages nobody has paid are taken back.
Withdrawn(pages) == [o \in Orders |-> IF pages[o] = "PROPOSED" THEN "ABANDONED" ELSE pages[o]]

LedgerInit ==
    /\ today = 1
    /\ ~canceled /\ credited = {}
    /\ offers = [o \in Orders |-> "NONE"]
    /\ stops = [o \in Orders |-> "none"]
    /\ recurring = [o \in Orders |-> IF o = live THEN "charging" ELSE "idle"]
    /\ \/ live = NoOrder /\ paidUntil = 0
       \/ live \in Orders /\ paidUntil = today + Month

-----------------------------------------------------------------------------
\* A charge of order o is entered: it was made, it was not entered before, and it adds a month
\* to what is left, as counted today or, by a request that crossed midnight, yesterday.
Credit(o) ==
    /\ recurring[o] # "idle"
    /\ \E charge \in credited' : /\ charge[1] = o /\ charge \notin credited
                                 /\ credited' = credited \cup {charge}
    /\ \E at \in {today - 1, today} :
         paidUntil' = Month + (IF paidUntil > at THEN paidUntil ELSE at)

\* The live order is charged again.  If it was cancelled it is to be stopped, once more.
Renew(o) ==
    /\ o = live /\ Credit(o)
    /\ stops' = PutDown(IF canceled THEN {o} ELSE {})
    /\ UNCHANGED <<today, live, canceled, offers, recurring>>

\* A page that was offered is paid: its order takes over.
Activate(o) ==
    /\ offers[o] = "PROPOSED" /\ o # live /\ Credit(o)
    /\ live' = o /\ canceled' = FALSE
    /\ stops' = PutDown({live} \ {NoOrder})
    /\ offers' = Withdrawn([offers EXCEPT ![o] = "PAID"])
    /\ UNCHANGED <<today, recurring>>

\* Money that is not honoured: its order is to be stopped.
Refuse(o) ==
    /\ recurring[o] # "idle" /\ ~Renewing(o)
    /\ stops' = PutDown({o})
    /\ offers' = [offers EXCEPT ![o] = IF @ = "PROPOSED" THEN "ABANDONED" ELSE @]
    /\ UNCHANGED <<today, paidUntil, live, canceled, credited, recurring>>

\* The renewals end: the owner cancels, or the payer does at the provider.
Cancel ==
    /\ live # NoOrder /\ ~canceled /\ canceled' = TRUE
    /\ \/ stops' = PutDown({live})
       \/ recurring[live] = "stopped" /\ stops' = TickedOff(live)
    /\ offers' = Withdrawn(offers)
    /\ UNCHANGED <<today, paidUntil, live, credited, recurring>>

Offer(o) ==
    /\ offers[o] = "NONE" /\ recurring[o] = "idle"
    /\ offers' = [offers EXCEPT ![o] = "PROPOSED"]
    /\ UNCHANGED <<today, paidUntil, live, canceled, credited, stops, recurring>>

\* A page that was offered fails.
Withdraw(o) ==
    /\ offers[o] = "PROPOSED"
    /\ offers' = [offers EXCEPT ![o] = "ABANDONED"]
    /\ stops' = stops \/ (recurring[o] = "stopped" /\ stops' = TickedOff(o))
    /\ UNCHANGED <<today, paidUntil, live, canceled, credited, recurring>>

\* An order is ticked off once the provider has stopped it.
Settle(o) ==
    /\ recurring[o] = "stopped"
    /\ stops' = TickedOff(o)
    /\ UNCHANGED <<today, paidUntil, live, canceled, credited, offers, recurring>>

-----------------------------------------------------------------------------
Provider(o) ==
    /\ \/ offers[o] # "NONE" /\ recurring[o] = "idle"
          /\ recurring' = [recurring EXCEPT ![o] = "charging"]
       \/ recurring[o] = "charging" /\ recurring' = [recurring EXCEPT ![o] = "stopped"]
    /\ UNCHANGED <<today, bookVars>>

PassDay == today' = today + 1 /\ UNCHANGED <<bookVars, recurring>>

LedgerNext ==
    \/ \E o \in Orders : \/ Renew(o) \/ Activate(o) \/ Refuse(o)
                         \/ Offer(o) \/ Withdraw(o) \/ Settle(o) \/ Provider(o)
    \/ Cancel
    \/ PassDay

LedgerSpec == LedgerInit /\ [][LedgerNext]_ledgerVars
=============================================================================
