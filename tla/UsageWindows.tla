--------------------------- MODULE UsageWindows ---------------------------
(***************************************************************************)
(* The monthly windows in which ChurchFlow AI counts its actions           *)
(* (ai-assistant-access.ts), and the month arithmetic they are built of    *)
(* (billing-time.ts).                                                      *)
(*                                                                         *)
(* A date is the number of a day in a calendar given by the lengths of its *)
(* months.  The calendar has an end; what is asked of it must stay inside. *)
(***************************************************************************)
EXTENDS Integers, Sequences

CONSTANT MonthLengths    \* the number of days of each month of the calendar

ASSUME CalendarAssumption == MonthLengths \in Seq(Nat \ {0}) /\ Len(MonthLengths) >= 4

FirstDay[m \in Nat] == IF m <= 1 THEN 1 ELSE FirstDay[m - 1] + MonthLengths[m - 1]

Days == 1..(FirstDay[Len(MonthLengths) + 1] - 1)

MonthOf(day) ==
    CHOOSE m \in 1..Len(MonthLengths) : FirstDay[m] <= day /\ day < FirstDay[m + 1]

\* The same day of another month, or its last day when it has no such day.
AddMonths(day, months) ==
    LET month == MonthOf(day)
        target == month + months
        dayOfMonth == day - FirstDay[month]
    IN  FirstDay[target]
        + (IF dayOfMonth < MonthLengths[target] THEN dayOfMonth ELSE MonthLengths[target] - 1)

\* The paid month that contains a day, anchored on the end of the period that was paid for.
BillingPeriodContaining(periodEndsAt, day) ==
    LET Forward[end \in Days] ==
            IF day < end
            THEN [start |-> AddMonths(periodEndsAt, -1), end |-> end]
            ELSE LET next == AddMonths(end, 1)
                 IN  IF day < next THEN [start |-> end, end |-> next] ELSE Forward[next]
        Backward[start \in Days] ==
            LET previous == AddMonths(start, -1)
            IN  IF day < previous THEN Backward[previous]
                ELSE [start |-> previous, end |-> start]
        ahead == Forward[periodEndsAt]
    IN  IF day < ahead.start THEN Backward[ahead.start] ELSE ahead

WindowAt(periodEndsAt, day) == BillingPeriodContaining(periodEndsAt, day).start

\* The end of the period a payment buys.
RenewedPeriodEnd(periodEndsAt, day) ==
    AddMonths(IF periodEndsAt > day THEN periodEndsAt ELSE day, 1)

\* What a renewal has to move, or the empty set.
LateRenewalUsageCarryOver(previousPeriodEndsAt, nextPeriodEndsAt, day) ==
    {move \in [from : {WindowAt(previousPeriodEndsAt, day)}, to : {WindowAt(nextPeriodEndsAt, day)}] :
        previousPeriodEndsAt <= day /\ move.from # move.to}
=============================================================================
