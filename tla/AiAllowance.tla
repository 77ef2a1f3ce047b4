---------------------------- MODULE AiAllowance ----------------------------
(***************************************************************************)
(* The allowance of ChurchFlow AI: messages reserve one action each from   *)
(* the counter of the window they were sent in, give it back when nothing  *)
(* was answered, and record how they ended; a renewal paid late moves what *)
(* was used into the window it opens (ai-assistant.service.ts and its      *)
(* repository, the end of billing.service.ts' callback).                   *)
(*                                                                         *)
(* Each step is one statement or one transaction of READ COMMITTED.  The   *)
(* organization is ACTIVE throughout and not exempt.                       *)
(***************************************************************************)
EXTENDS UsageWindows, FiniteSets

CONSTANTS Requests,       \* ids of ai_requests
          Messages,       \* ids the client gives its messages
          NoMessage,
          Limit,          \* actions of a window
          FirstMoment,    \* the day the model starts
          LastMoment,     \* and the day it ends
          Renewals        \* how many renewals are paid

ASSUME AllowanceAssumption ==
    /\ IsFiniteSet(Requests)
    /\ Limit \in Nat /\ Renewals \in Nat
    /\ NoMessage \notin Messages
    /\ FirstMoment \in Days /\ LastMoment \in Days

VARIABLES now,
          periodEnd,     \* subscriptions.current_period_ends_at
          used,          \* ai_usage_counters: window -> used, 0 while it has no row
          counters,      \* the windows that have a row
          requests,      \* ai_requests
          chats,         \* the process that serves each request
          renewal        \* the callback that moves the usage, and the windows moves have lowered

allowanceVars == <<now, periodEnd, used, counters, requests, chats, renewal>>

NoRequestRow == [status |-> "NONE", message |-> NoMessage, counted |-> FALSE]

RequestRows ==
    [status : {"NONE", "RUNNING", "SUCCEEDED", "FAILED"},
     message : Messages \cup {NoMessage},     \* clientMessageId
     counted : BOOLEAN]                       \* countedAgainstQuota

Chats ==
    [step : {"idle", "chat", "counting", "reserving", "streaming", "releasing", "recording",
             "over", "unrecorded", "dead"},
     message : Messages \cup {NoMessage},
     window : Days,
     holds : BOOLEAN,                          \* reserved and not given back
     output : BOOLEAN,                         \* producedOutput
     outcome : {"NONE", "REFUSED", "SUCCEEDED", "FAILED"}]

NoMove == [step |-> "none"]

Moves == {NoMove} \cup
    [step : {"paid", "locked", "read"}, from : Days, to : Days, locked : SUBSET Days, amount : Int]

AllowanceTypeOK ==
    /\ now \in Days /\ periodEnd \in Days
    /\ used \in [Days -> Int] /\ counters \subseteq Days
    /\ requests \in [Requests -> RequestRows]
    /\ chats \in [Requests -> Chats]
    /\ renewal.move \in Moves /\ renewal.paid \in 0..Renewals /\ renewal.lowered \subseteq Days

AllowanceInit ==
    /\ now = FirstMoment
    /\ periodEnd \in {end \in Days : end > now /\ AddMonths(end, -1) <= now}
    /\ used = [w \in Days |-> 0] /\ counters = {}
    /\ requests = [r \in Requests |-> NoRequestRow]
    /\ chats = [r \in Requests |->
                  [step |-> "idle", message |-> NoMessage, window |-> FirstMoment,
                   holds |-> FALSE, output |-> FALSE, outcome |-> "NONE"]]
    /\ renewal = [move |-> NoMove, paid |-> 0, lowered |-> {}]

Active(r) == chats[r].step \notin {"idle", "over", "unrecorded", "dead"}

Locked(w) == renewal.move # NoMove /\ w \in renewal.move.locked

-----------------------------------------------------------------------------
(* A message. *)

\* A message is sent, for the first time or again.  Its window is read once.  (The bound of the
\* model: its windows are days of the calendar.)
Chat(r, m) ==
    /\ chats[r].step = "idle" /\ WindowAt(periodEnd, now) \in Days
    /\ chats' = [chats EXCEPT ![r].step = "chat", ![r].message = m,
                              ![r].window = WindowAt(periodEnd, now)]
    /\ UNCHANGED <<now, periodEnd, used, counters, requests, renewal>>

IsDuplicate(m) == m # NoMessage /\ \E other \in Requests : requests[other].message = m

StartRequest(r) ==
    /\ chats[r].step = "chat" /\ ~IsDuplicate(chats[r].message)
    /\ requests' = [requests EXCEPT ![r].status = "RUNNING", ![r].message = chats[r].message]
    /\ chats' = [chats EXCEPT ![r].step = "counting"]
    /\ UNCHANGED <<now, periodEnd, used, counters, renewal>>

RefuseDuplicate(r) ==
    /\ chats[r].step = "chat" /\ IsDuplicate(chats[r].message)
    /\ chats' = [chats EXCEPT ![r].step = "over", ![r].outcome = "REFUSED"]
    /\ UNCHANGED <<now, periodEnd, used, counters, requests, renewal>>

\* The counter is created before it is incremented.
CreateCounter(r) ==
    /\ chats[r].step = "counting"
    /\ counters' = counters \cup {chats[r].window}
    /\ chats' = [chats EXCEPT ![r].step = "reserving"]
    /\ UNCHANGED <<now, periodEnd, used, requests, renewal>>

\* A mistake: the limit is compared with what was used before this action alone.
ReserveOneMore(r) ==
    LET w == chats[r].window
    IN  /\ chats[r].step = "reserving" /\ ~Locked(w)
        /\ IF used[w] <= Limit
           THEN /\ used' = [used EXCEPT ![w] = @ + 1]
                /\ chats' = [chats EXCEPT ![r].step = "streaming", ![r].holds = TRUE]
           ELSE /\ chats' = [chats EXCEPT ![r].step = "recording", ![r].outcome = "FAILED"]
                /\ UNCHANGED used
        /\ UNCHANGED <<now, periodEnd, counters, requests, renewal>>

\* One conditional UPDATE; a request that gets nothing fails without giving anything back.
ReserveAction(r) ==
    LET w == chats[r].window
    IN  /\ chats[r].step = "reserving" /\ ~Locked(w)
        /\ IF used[w] < Limit
           THEN /\ used' = [used EXCEPT ![w] = @ + 1]
                /\ chats' = [chats EXCEPT ![r].step = "streaming", ![r].holds = TRUE]
           ELSE /\ chats' = [chats EXCEPT ![r].step = "recording", ![r].outcome = "FAILED"]
                /\ UNCHANGED used
        /\ UNCHANGED <<now, periodEnd, counters, requests, renewal>>

ProduceOutput(r) ==
    /\ chats[r].step = "streaming" /\ ~chats[r].output
    /\ chats' = [chats EXCEPT ![r].output = TRUE]
    /\ UNCHANGED <<now, periodEnd, used, counters, requests, renewal>>

\* The reply ended with a sentence or a confirmation card.
Answer(r) ==
    /\ chats[r].step = "streaming" /\ chats[r].output
    /\ chats' = [chats EXCEPT ![r].step = "recording", ![r].outcome = "SUCCEEDED"]
    /\ UNCHANGED <<now, periodEnd, used, counters, requests, renewal>>

\* A mistake: an action that showed nothing is not given back.
FailWithoutRefund(r) ==
    /\ chats[r].step = "streaming"
    /\ chats' = [chats EXCEPT ![r].outcome = "FAILED", ![r].step = "recording"]
    /\ UNCHANGED <<now, periodEnd, used, counters, requests, renewal>>

\* A mistake: an action that failed is given back, whatever it showed.
RefundAnyFailure(r) ==
    /\ chats[r].step = "streaming"
    /\ chats' = [chats EXCEPT ![r].outcome = "FAILED",
                              ![r].step = IF chats[r].holds THEN "releasing" ELSE "recording"]
    /\ UNCHANGED <<now, periodEnd, used, counters, requests, renewal>>

\* An error, the time limit or a reply that says nothing.  An action that showed something is
\* spent; one that showed nothing is given back.
FailRequest(r) ==
    /\ chats[r].step = "streaming"
    /\ chats' = [chats EXCEPT ![r].outcome = "FAILED",
                              ![r].step = IF chats[r].holds /\ ~chats[r].output
                                         THEN "releasing" ELSE "recording"]
    /\ UNCHANGED <<now, periodEnd, used, counters, requests, renewal>>

ReleaseAction(r) ==
    LET w == chats[r].window
    IN  /\ chats[r].step = "releasing" /\ ~Locked(w)
        /\ used' = [used EXCEPT ![w] = IF @ > 0 THEN @ - 1 ELSE @]
        /\ chats' = [chats EXCEPT ![r].step = "recording", ![r].holds = FALSE]
        /\ UNCHANGED <<now, periodEnd, counters, requests, renewal>>

\* countedAgainstQuota.
Counted(r) == chats[r].holds /\ (chats[r].outcome = "SUCCEEDED" \/ chats[r].output)

\* A mistake: an answered message may be sent again too.
ForgetMessage(r) ==
    /\ chats[r].step = "recording"
    /\ requests' = [requests EXCEPT
                     ![r] = [status |-> chats[r].outcome, counted |-> Counted(r),
                             message |-> NoMessage]]
    /\ chats' = [chats EXCEPT ![r].step = "over"]
    /\ UNCHANGED <<now, periodEnd, used, counters, renewal>>

\* The outcome is written; only a failed message may be sent again.
RecordFinish(r) ==
    /\ chats[r].step = "recording"
    /\ requests' = [requests EXCEPT
                     ![r] = [status |-> chats[r].outcome, counted |-> Counted(r),
                             message |-> IF chats[r].outcome = "FAILED" THEN NoMessage ELSE @.message]]
    /\ chats' = [chats EXCEPT ![r].step = "over"]
    /\ UNCHANGED <<now, periodEnd, used, counters, renewal>>

\* The last write fails, which is only logged.
LoseFinish(r) ==
    /\ chats[r].step = "recording"
    /\ chats' = [chats EXCEPT ![r].step = "unrecorded"]
    /\ UNCHANGED <<now, periodEnd, used, counters, requests, renewal>>

\* The process dies.
Die(r) ==
    /\ Active(r)
    /\ chats' = [chats EXCEPT ![r].step = "dead"]
    /\ UNCHANGED <<now, periodEnd, used, counters, requests, renewal>>

-----------------------------------------------------------------------------
(* A renewal. *)

\* LiqPay reports a payment; what follows is done after the callback is committed.
Renew ==
    LET next == RenewedPeriodEnd(periodEnd, now)
        move == LateRenewalUsageCarryOver(periodEnd, next, now)
    IN  /\ renewal.move = NoMove /\ renewal.paid < Renewals
        /\ next \in Days /\ move \subseteq [from : Days, to : Days]
        /\ periodEnd' = next
        /\ renewal' = [renewal EXCEPT
                        !.paid = @ + 1,
                        !.move = IF move = {} THEN NoMove
                                 ELSE LET m == CHOOSE one \in move : TRUE
                                      IN  [step |-> "paid", from |-> m.from, to |-> m.to,
                                           locked |-> {}, amount |-> 0]]
        /\ UNCHANGED <<now, used, counters, requests, chats>>

\* The rows that exist are locked.
LockCounters ==
    /\ renewal.move.step = "paid"
    /\ renewal' = [renewal EXCEPT !.move.step = "locked", !.move.locked = counters]
    /\ UNCHANGED <<now, periodEnd, used, counters, requests, chats>>

ReadSource ==
    /\ renewal.move.step = "locked"
    /\ renewal' = [renewal EXCEPT !.move.step = "read", !.move.amount = used[renewal.move.from]]
    /\ UNCHANGED <<now, periodEnd, used, counters, requests, chats>>

\* A mistake: the source is emptied, whatever is in it by now.
EmptySource ==
    LET move == renewal.move
    IN  /\ move.step = "read"
        /\ used' = [used EXCEPT ![move.from] = 0, ![move.to] = used[move.to] + move.amount]
        /\ counters' = counters \cup {move.to}
        /\ renewal' = [renewal EXCEPT !.move = NoMove,
                                      !.lowered = @ \cup {w \in Days : used'[w] < used[w]}]
        /\ UNCHANGED <<now, periodEnd, requests, chats>>

\* A window with nothing in it is left alone.
MoveUsage ==
    LET move == renewal.move
    IN  /\ move.step = "read"
        /\ IF move.amount = 0
           THEN /\ renewal' = [renewal EXCEPT !.move = NoMove]
                /\ UNCHANGED <<used, counters>>
           ELSE /\ used' = [used EXCEPT ![move.from] = used[move.from] - move.amount,
                                       ![move.to] = used[move.to] + move.amount]
                /\ counters' = counters \cup {move.to}
                /\ renewal' = [renewal EXCEPT !.move = NoMove,
                                      !.lowered = @ \cup {w \in Days : used'[w] < used[w]}]
        /\ UNCHANGED <<now, periodEnd, requests, chats>>

\* The process dies or the transaction fails: nothing is moved, and nobody tries again.
LoseMove ==
    /\ renewal.move # NoMove
    /\ renewal' = [renewal EXCEPT !.move = NoMove]
    /\ UNCHANGED <<now, periodEnd, used, counters, requests, chats>>

Tick ==
    /\ now < LastMoment
    /\ now' = now + 1
    /\ UNCHANGED <<periodEnd, used, counters, requests, chats, renewal>>

-----------------------------------------------------------------------------

ChatStep(r) ==
    \/ \E m \in Messages : Chat(r, m)
    \/ StartRequest(r) \/ RefuseDuplicate(r)
    \/ CreateCounter(r) \/ ReserveAction(r)
    \/ ProduceOutput(r) \/ Answer(r) \/ FailRequest(r)
    \/ ReleaseAction(r) \/ RecordFinish(r) \/ LoseFinish(r) \/ Die(r)

RenewalStep == Renew \/ LockCounters \/ ReadSource \/ MoveUsage \/ LoseMove

AllowanceNext == (\E r \in Requests : ChatStep(r)) \/ RenewalStep \/ Tick

AllowanceSpec == AllowanceInit /\ [][AllowanceNext]_allowanceVars

-----------------------------------------------------------------------------
(* Properties. *)

Holders(w) == {r \in Requests : chats[r].holds /\ chats[r].window = w}

\* Requests that race for the last action of a window, give actions back and die never hold more
\* than the limit in it, unless a late payment has moved away what was used there (reserveAction,
\* releaseAction, carryOverAiUsage).
AllowanceIsKept == \A w \in Days \ renewal.lowered : Cardinality(Holders(w)) <= Limit

\* When every request has recorded its end, the counters say what the requests say: the
\* reservation, its refund and the outcome are three separate writes.
CountersMatchRequests ==
    (renewal.lowered = {} /\ \A r \in Requests : chats[r].step \in {"idle", "over"}) =>
        \A w \in Days :
            used[w] = Cardinality({r \in Requests : requests[r].counted /\ chats[r].window = w})

Answering(r) ==
    \/ chats[r].outcome = "SUCCEEDED"
    \/ Active(r) /\ chats[r].step # "chat" /\ chats[r].outcome # "REFUSED"

\* An answered message is not answered again, however often it is sent, and nobody answers it
\* twice at a time: the unique key of ai_requests holds it from the start to a recorded failure.
MessageIsAnsweredOnce ==
    \A r, s \in Requests :
        r # s /\ Answering(r) /\ Answering(s) => chats[r].message # chats[s].message

\* The actions that are counted: as many of a window as its counter says.
CountedActions == UNION {{w} \X (1..used[w]) : w \in {d \in Days : used[d] > 0}}

\* What the counters are short of: a move may leave one below zero.
MissingActions == UNION {{w} \X (1..(-used[w])) : w \in {d \in Days : used[d] < 0}}

\* Whatever is reserved, given back and moved at a time, every action a request holds is counted
\* in some window: a refund that comes after the move takes nothing that another one holds.
HeldActionsAreCounted ==
    Cardinality(CountedActions) - Cardinality(MissingActions)
        >= Cardinality({r \in Requests : chats[r].holds})

\* While a renewal moves the actions of a window, nobody reserves or gives back there ("an action
\* reserved there while this runs waits for the move", subscriptions.repository.ts).
MoveIsExclusive ==
    [][renewal.move.step \in {"locked", "read"} /\ renewal'.move # NoMove =>
         used'[renewal.move.from] = used[renewal.move.from]]_allowanceVars

\* A payment made ahead of time does not move the window ("the month is added to the old end, so
\* the window does not move", ai-assistant-policies.test.cjs).
EarlyRenewalKeepsWindow ==
    [][periodEnd' # periodEnd /\ periodEnd > now => WindowAt(periodEnd', now) = WindowAt(periodEnd, now)]_allowanceVars

\* Only an answered message, or one that is being answered, is refused as a duplicate ("A failed
\* message may be sent again under the same id; only an answered one is a duplicate.").
OnlyAnsweredIsDuplicate ==
    [][\A r \in Requests : chats[r].outcome = "NONE" /\ chats'[r].outcome = "REFUSED" =>
         \E s \in Requests : Answering(s) /\ chats[s].message = chats[r].message]_allowanceVars
=============================================================================
