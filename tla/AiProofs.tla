------------------------------ MODULE AiProofs ------------------------------
(***************************************************************************)
(* Proofs about ChurchFlow AI, for any requests, windows, messages and     *)
(* proposals: requests never hold more actions of a window than the limit  *)
(* and the counters say what they hold, a message is answered once, and a  *)
(* confirmed change is made once; every stored card has its row, and a     *)
(* confirmation goes back to a message that keeps the action it reserved.  *)
(***************************************************************************)
EXTENDS AiConversation, FiniteSetTheorems, TLAPS

RowsTyped ==
    /\ used \in [Days -> Int] /\ counters \subseteq Days
    /\ requests \in [Requests -> RequestRows]
    /\ chats \in [Requests -> Chats]
    /\ renewal \in [move : Moves, paid : Nat, lowered : SUBSET Days]

\* What is known of a request at each step.
StepAt(r) ==
    /\ chats[r].step \in {"idle", "chat", "counting", "reserving"} => ~chats[r].holds
    /\ chats[r].step \in {"idle", "chat", "counting", "reserving", "streaming"} =>
          chats[r].outcome = "NONE"
    /\ chats[r].step = "recording" => chats[r].outcome \in {"SUCCEEDED", "FAILED"}
    /\ chats[r].step # "idle" => chats[r].message \in Messages
    /\ chats[r].step \in {"idle", "chat"} => requests[r].message = NoMessage
    /\ chats[r].step = "releasing" => chats[r].holds /\ chats[r].outcome = "FAILED"

\* A request that answers its message has the message in its row.
KeyAt(r) == Answering(r) => requests[r].message = chats[r].message

UniqueAt(r, s) == r # s /\ requests[r].message # NoMessage =>
                      requests[r].message # requests[s].message

\* Who holds an action of a window is counted there, as long as nobody has moved the count away.
CountAt(w) ==
    w \notin renewal.lowered =>
        Cardinality(Holders(w)) <= Limit /\ Cardinality(Holders(w)) <= used[w]

AllowanceInv ==
    /\ RowsTyped
    /\ \A r \in Requests : StepAt(r) /\ KeyAt(r)
    /\ \A r, s \in Requests : UniqueAt(r, s)
    /\ \A w \in Days : CountAt(w)

-----------------------------------------------------------------------------

\* Holders is a finite set, and its size a natural number.
LEMMA HoldersFinite ==
    ASSUME NEW w
    PROVE  IsFiniteSet(Holders(w)) /\ Cardinality(Holders(w)) \in Nat
<1>1. Holders(w) \subseteq Requests  BY DEF Holders
<1>2. IsFiniteSet(Holders(w))
  BY <1>1, FS_Subset, AllowanceAssumption DEF AllowanceAssumption
<1>3. QED  BY <1>2, FS_CardinalityType

LEMMA InitHoldsInv == AllowanceInit => AllowanceInv
<1> SUFFICES ASSUME AllowanceInit PROVE AllowanceInv  OBVIOUS
<1> USE DEF AllowanceInit, NoRequestRow, NoMove
<1>1. RowsTyped
  BY AllowanceAssumption DEF AllowanceAssumption, RowsTyped, RequestRows, Chats, Moves
<1>2. \A r \in Requests : StepAt(r) /\ KeyAt(r)
  BY DEF StepAt, KeyAt, Answering, Active
<1>3. \A r, s \in Requests : UniqueAt(r, s)  BY DEF UniqueAt
<1>4. ASSUME NEW w \in Days PROVE CountAt(w)
  <2>1. Holders(w) = {}  BY DEF Holders
  <2>2. Cardinality(Holders(w)) = 0  BY <2>1, FS_EmptySet
  <2>3. QED  BY <2>2, AllowanceAssumption DEF CountAt, AllowanceAssumption
<1>5. QED  BY <1>1, <1>2, <1>3, <1>4 DEF AllowanceInv

LEMMA CounterUpdate ==
    ASSUME NEW f \in [Days -> Int], NEW w \in Days, NEW n \in Int
    PROVE  [f EXCEPT ![w] = n] \in [Days -> Int]
OBVIOUS

\* A step of one request that leaves the counters and what it holds alone.
Quiet(r) ==
    /\ UNCHANGED <<used, renewal>>
    /\ \A s \in Requests \ {r} : chats'[s] = chats[s]
    /\ chats'[r].holds = chats[r].holds
    /\ chats[r].holds => chats'[r].window = chats[r].window

LEMMA QuietCounts ==
    ASSUME AllowanceInv, NEW r \in Requests, Quiet(r)
    PROVE  \A w \in Days : CountAt(w)'
<1> TAKE w \in Days
<1>1. Holders(w)' = Holders(w)  BY DEF Quiet, Holders
<1>2. QED  BY <1>1 DEF AllowanceInv, CountAt, Quiet

\* A step of one request keeps its row and everybody's key.
LEMMA OthersKept ==
    ASSUME AllowanceInv, NEW r \in Requests,
           \A s \in Requests \ {r} : chats'[s] = chats[s] /\ requests'[s] = requests[s],
           StepAt(r)', KeyAt(r)',
           \A s \in Requests : UniqueAt(r, s)' /\ UniqueAt(s, r)'
    PROVE  /\ \A s \in Requests : StepAt(s)' /\ KeyAt(s)'
           /\ \A s, t \in Requests : UniqueAt(s, t)'
BY DEF AllowanceInv, StepAt, KeyAt, UniqueAt, Answering, Active

\* A step that leaves the rows of ai_requests alone leaves the keys unique.
LEMMA SameRows ==
    ASSUME AllowanceInv, NEW r \in Requests, requests' = requests
    PROVE  \A s \in Requests : UniqueAt(r, s)' /\ UniqueAt(s, r)'
BY DEF AllowanceInv, UniqueAt

ChatOnly == <<used, requests, renewal>>

\* A step that only changes the process of a request, and not what it holds.
LEMMA ProcessStep ==
    ASSUME AllowanceInv, NEW r \in Requests, UNCHANGED ChatOnly,
           NEW row \in Chats, chats' = [chats EXCEPT ![r] = row],
           row.holds = chats[r].holds, chats[r].holds => row.window = chats[r].window,
           counters' \subseteq Days, StepAt(r)', KeyAt(r)'
    PROVE  AllowanceInv'
<1>1. RowsTyped'  BY DEF AllowanceInv, RowsTyped, ChatOnly
<1>2. chats'[r] = row /\ \A s \in Requests \ {r} : chats'[s] = chats[s]
  BY DEF AllowanceInv, RowsTyped
<1>3. Quiet(r)  BY <1>2 DEF Quiet, ChatOnly
<1>4. requests' = requests  BY DEF ChatOnly
<1>5. QED  BY <1>1, <1>2, <1>3, <1>4, QuietCounts, SameRows, OthersKept DEF AllowanceInv

-----------------------------------------------------------------------------
(* One lemma per step of a message. *)

LEMMA OfChat ==
    ASSUME AllowanceInv, NEW r \in Requests, NEW m \in Messages, Chat(r, m)
    PROVE  AllowanceInv'
<1> DEFINE row == [chats[r] EXCEPT 
                    !.step = "chat",
                    !.message = m,
                    !.window = WindowAt(periodEnd, now)]
<1>0. chats[r] \in Chats /\ StepAt(r) /\ KeyAt(r)  BY DEF AllowanceInv, RowsTyped
<1>1. /\ row \in Chats /\ row.holds = chats[r].holds
      /\ chats[r].holds => row.window = chats[r].window
  BY <1>0 DEF Chat, Chats, StepAt
<1>2. /\ row.step = "chat"
      /\ row.message = m
      /\ row.window = WindowAt(periodEnd, now)
      /\ row.outcome = chats[r].outcome
      /\ row.holds = chats[r].holds
  BY <1>0 DEF Chats
<1>3. chats' = [chats EXCEPT ![r] = row] /\ UNCHANGED ChatOnly
  BY <1>0 DEF Chat, ChatOnly, Chats
<1>4. chats'[r] = row /\ requests'[r] = requests[r]
  BY <1>3 DEF AllowanceInv, RowsTyped, ChatOnly
<1> HIDE DEF row
<1>5. StepAt(r)'  BY <1>0, <1>2, <1>4 DEF Chat, StepAt
<1>6. KeyAt(r)'  BY <1>0, <1>2, <1>4 DEF Chat, StepAt, KeyAt, Answering, Active
<1>7. counters' \subseteq Days  BY <1>0 DEF Chat, Chats, AllowanceInv, RowsTyped
<1>8. QED  BY <1>1, <1>3, <1>5, <1>6, <1>7, ProcessStep

LEMMA OfRefuseDuplicate ==
    ASSUME AllowanceInv, NEW r \in Requests, RefuseDuplicate(r)
    PROVE  AllowanceInv'
<1> DEFINE row == [chats[r] EXCEPT !.step = "over", !.outcome = "REFUSED"]
<1>0. chats[r] \in Chats /\ StepAt(r) /\ KeyAt(r)  BY DEF AllowanceInv, RowsTyped
<1>1. /\ row \in Chats /\ row.holds = chats[r].holds
      /\ chats[r].holds => row.window = chats[r].window
  BY <1>0 DEF RefuseDuplicate, Chats, StepAt
<1>2. /\ row.step = "over"
      /\ row.outcome = "REFUSED"
      /\ row.message = chats[r].message
      /\ row.holds = chats[r].holds
  BY <1>0 DEF Chats
<1>3. chats' = [chats EXCEPT ![r] = row] /\ UNCHANGED ChatOnly
  BY <1>0 DEF RefuseDuplicate, ChatOnly, Chats
<1>4. chats'[r] = row /\ requests'[r] = requests[r]
  BY <1>3 DEF AllowanceInv, RowsTyped, ChatOnly
<1> HIDE DEF row
<1>5. StepAt(r)'  BY <1>0, <1>2, <1>4 DEF RefuseDuplicate, StepAt
<1>6. KeyAt(r)'  BY <1>0, <1>2, <1>4 DEF RefuseDuplicate, StepAt, KeyAt, Answering, Active
<1>7. counters' \subseteq Days  BY <1>0 DEF RefuseDuplicate, Chats, AllowanceInv, RowsTyped
<1>8. QED  BY <1>1, <1>3, <1>5, <1>6, <1>7, ProcessStep

LEMMA OfCreateCounter ==
    ASSUME AllowanceInv, NEW r \in Requests, CreateCounter(r)
    PROVE  AllowanceInv'
<1> DEFINE row == [chats[r] EXCEPT !.step = "reserving"]
<1>0. chats[r] \in Chats /\ StepAt(r) /\ KeyAt(r)  BY DEF AllowanceInv, RowsTyped
<1>1. /\ row \in Chats /\ row.holds = chats[r].holds
      /\ chats[r].holds => row.window = chats[r].window
  BY <1>0 DEF CreateCounter, Chats, StepAt
<1>2. /\ row.step = "reserving"
      /\ row.message = chats[r].message
      /\ row.outcome = chats[r].outcome
      /\ row.holds = chats[r].holds
  BY <1>0 DEF Chats
<1>3. chats' = [chats EXCEPT ![r] = row] /\ UNCHANGED ChatOnly
  BY <1>0 DEF CreateCounter, ChatOnly, Chats
<1>4. chats'[r] = row /\ requests'[r] = requests[r]
  BY <1>3 DEF AllowanceInv, RowsTyped, ChatOnly
<1> HIDE DEF row
<1>5. StepAt(r)'  BY <1>0, <1>2, <1>4 DEF CreateCounter, StepAt
<1>6. KeyAt(r)'  BY <1>0, <1>2, <1>4 DEF CreateCounter, StepAt, KeyAt, Answering, Active
<1>7. counters' \subseteq Days  BY <1>0 DEF CreateCounter, Chats, AllowanceInv, RowsTyped
<1>8. QED  BY <1>1, <1>3, <1>5, <1>6, <1>7, ProcessStep

LEMMA OfProduceOutput ==
    ASSUME AllowanceInv, NEW r \in Requests, ProduceOutput(r)
    PROVE  AllowanceInv'
<1> DEFINE row == [chats[r] EXCEPT !.output = TRUE]
<1>0. chats[r] \in Chats /\ StepAt(r) /\ KeyAt(r)  BY DEF AllowanceInv, RowsTyped
<1>1. /\ row \in Chats /\ row.holds = chats[r].holds
      /\ chats[r].holds => row.window = chats[r].window
  BY <1>0 DEF ProduceOutput, Chats, StepAt
<1>2. /\ row.output = TRUE
      /\ row.step = chats[r].step
      /\ row.message = chats[r].message
      /\ row.outcome = chats[r].outcome
      /\ row.holds = chats[r].holds
  BY <1>0 DEF Chats
<1>3. chats' = [chats EXCEPT ![r] = row] /\ UNCHANGED ChatOnly
  BY <1>0 DEF ProduceOutput, ChatOnly, Chats
<1>4. chats'[r] = row /\ requests'[r] = requests[r]
  BY <1>3 DEF AllowanceInv, RowsTyped, ChatOnly
<1> HIDE DEF row
<1>5. StepAt(r)'  BY <1>0, <1>2, <1>4 DEF ProduceOutput, StepAt
<1>6. KeyAt(r)'  BY <1>0, <1>2, <1>4 DEF ProduceOutput, StepAt, KeyAt, Answering, Active
<1>7. counters' \subseteq Days  BY <1>0 DEF ProduceOutput, Chats, AllowanceInv, RowsTyped
<1>8. QED  BY <1>1, <1>3, <1>5, <1>6, <1>7, ProcessStep

LEMMA OfAnswer ==
    ASSUME AllowanceInv, NEW r \in Requests, Answer(r)
    PROVE  AllowanceInv'
<1> DEFINE row == [chats[r] EXCEPT !.step = "recording", !.outcome = "SUCCEEDED"]
<1>0. chats[r] \in Chats /\ StepAt(r) /\ KeyAt(r)  BY DEF AllowanceInv, RowsTyped
<1>1. /\ row \in Chats /\ row.holds = chats[r].holds
      /\ chats[r].holds => row.window = chats[r].window
  BY <1>0 DEF Answer, Chats, StepAt
<1>2. /\ row.step = "recording"
      /\ row.outcome = "SUCCEEDED"
      /\ row.message = chats[r].message
      /\ row.holds = chats[r].holds
  BY <1>0 DEF Chats
<1>3. chats' = [chats EXCEPT ![r] = row] /\ UNCHANGED ChatOnly
  BY <1>0 DEF Answer, ChatOnly, Chats
<1>4. chats'[r] = row /\ requests'[r] = requests[r]
  BY <1>3 DEF AllowanceInv, RowsTyped, ChatOnly
<1> HIDE DEF row
<1>5. StepAt(r)'  BY <1>0, <1>2, <1>4 DEF Answer, StepAt
<1>6. KeyAt(r)'  BY <1>0, <1>2, <1>4 DEF Answer, StepAt, KeyAt, Answering, Active
<1>7. counters' \subseteq Days  BY <1>0 DEF Answer, Chats, AllowanceInv, RowsTyped
<1>8. QED  BY <1>1, <1>3, <1>5, <1>6, <1>7, ProcessStep

LEMMA OfFailRequest ==
    ASSUME AllowanceInv, NEW r \in Requests, FailRequest(r)
    PROVE  AllowanceInv'
<1> DEFINE row == [chats[r] EXCEPT 
                    !.outcome = "FAILED",
                    !.step = IF chats[r].holds /\ ~chats[r].output THEN "releasing" ELSE "recording"]
<1>0. chats[r] \in Chats /\ StepAt(r) /\ KeyAt(r)  BY DEF AllowanceInv, RowsTyped
<1>1. /\ row \in Chats /\ row.holds = chats[r].holds
      /\ chats[r].holds => row.window = chats[r].window
  BY <1>0 DEF FailRequest, Chats, StepAt
<1>2. /\ row.outcome = "FAILED"
      /\ row.step \in {"releasing", "recording"}
      /\ row.step = "releasing" => chats[r].holds
      /\ row.message = chats[r].message
      /\ row.holds = chats[r].holds
  BY <1>0 DEF Chats
<1>3. chats' = [chats EXCEPT ![r] = row] /\ UNCHANGED ChatOnly
  BY <1>0 DEF FailRequest, ChatOnly, Chats
<1>4. chats'[r] = row /\ requests'[r] = requests[r]
  BY <1>3 DEF AllowanceInv, RowsTyped, ChatOnly
<1> HIDE DEF row
<1>5. StepAt(r)'  BY <1>0, <1>2, <1>4 DEF FailRequest, StepAt
<1>6. KeyAt(r)'  BY <1>0, <1>2, <1>4 DEF FailRequest, StepAt, KeyAt, Answering, Active
<1>7. counters' \subseteq Days  BY <1>0 DEF FailRequest, Chats, AllowanceInv, RowsTyped
<1>8. QED  BY <1>1, <1>3, <1>5, <1>6, <1>7, ProcessStep

LEMMA OfLoseFinish ==
    ASSUME AllowanceInv, NEW r \in Requests, LoseFinish(r)
    PROVE  AllowanceInv'
<1> DEFINE row == [chats[r] EXCEPT !.step = "unrecorded"]
<1>0. chats[r] \in Chats /\ StepAt(r) /\ KeyAt(r)  BY DEF AllowanceInv, RowsTyped
<1>1. /\ row \in Chats /\ row.holds = chats[r].holds
      /\ chats[r].holds => row.window = chats[r].window
  BY <1>0 DEF LoseFinish, Chats, StepAt
<1>2. /\ row.step = "unrecorded"
      /\ row.message = chats[r].message
      /\ row.outcome = chats[r].outcome
      /\ row.holds = chats[r].holds
  BY <1>0 DEF Chats
<1>3. chats' = [chats EXCEPT ![r] = row] /\ UNCHANGED ChatOnly
  BY <1>0 DEF LoseFinish, ChatOnly, Chats
<1>4. chats'[r] = row /\ requests'[r] = requests[r]
  BY <1>3 DEF AllowanceInv, RowsTyped, ChatOnly
<1> HIDE DEF row
<1>5. StepAt(r)'  BY <1>0, <1>2, <1>4 DEF LoseFinish, StepAt
<1>6. KeyAt(r)'  BY <1>0, <1>2, <1>4 DEF LoseFinish, StepAt, KeyAt, Answering, Active
<1>7. counters' \subseteq Days  BY <1>0 DEF LoseFinish, Chats, AllowanceInv, RowsTyped
<1>8. QED  BY <1>1, <1>3, <1>5, <1>6, <1>7, ProcessStep

LEMMA OfDie ==
    ASSUME AllowanceInv, NEW r \in Requests, Die(r)
    PROVE  AllowanceInv'
<1> DEFINE row == [chats[r] EXCEPT !.step = "dead"]
<1>0. chats[r] \in Chats /\ StepAt(r) /\ KeyAt(r)  BY DEF AllowanceInv, RowsTyped
<1>1. /\ row \in Chats /\ row.holds = chats[r].holds
      /\ chats[r].holds => row.window = chats[r].window
  BY <1>0 DEF Die, Chats, StepAt
<1>2. /\ row.step = "dead"
      /\ row.message = chats[r].message
      /\ row.outcome = chats[r].outcome
      /\ row.holds = chats[r].holds
  BY <1>0 DEF Chats
<1>3. chats' = [chats EXCEPT ![r] = row] /\ UNCHANGED ChatOnly
  BY <1>0 DEF Die, ChatOnly, Chats
<1>4. chats'[r] = row /\ requests'[r] = requests[r]
  BY <1>3 DEF AllowanceInv, RowsTyped, ChatOnly
<1> HIDE DEF row
<1>5. StepAt(r)'  BY <1>0, <1>2, <1>4 DEF Die, Active, StepAt
<1>6. KeyAt(r)'  BY <1>0, <1>2, <1>4 DEF Die, StepAt, KeyAt, Answering, Active
<1>7. counters' \subseteq Days  BY <1>0 DEF Die, Chats, AllowanceInv, RowsTyped
<1>8. QED  BY <1>1, <1>3, <1>5, <1>6, <1>7, ProcessStep

LEMMA OfStartRequest ==
    ASSUME AllowanceInv, NEW r \in Requests, StartRequest(r)
    PROVE  AllowanceInv'
<1> DEFINE row == [chats[r] EXCEPT !.step = "counting"]
           key == [requests[r] EXCEPT !.status = "RUNNING", !.message = chats[r].message]
<1>0. chats[r] \in Chats /\ StepAt(r) /\ KeyAt(r) /\ requests[r] \in RequestRows
      /\ chats[r].step = "chat"
  BY DEF AllowanceInv, RowsTyped, StartRequest
<1>1. row \in Chats /\ key \in RequestRows  BY <1>0 DEF Chats, RequestRows, StepAt
<1>2. /\ row.step = "counting" /\ row.message = chats[r].message /\ row.holds = chats[r].holds
      /\ row.outcome = chats[r].outcome /\ row.window = chats[r].window
      /\ key.message = chats[r].message
  BY <1>0 DEF Chats, RequestRows
<1>3. /\ chats' = [chats EXCEPT ![r] = row] /\ requests' = [requests EXCEPT ![r] = key]
      /\ used' = used /\ renewal' = renewal
  BY <1>0 DEF StartRequest, Chats, RequestRows
<1>4. /\ chats'[r] = row /\ requests'[r] = key
      /\ \A s \in Requests \ {r} : chats'[s] = chats[s] /\ requests'[s] = requests[s]
  BY <1>3 DEF AllowanceInv, RowsTyped
<1> HIDE DEF row, key
<1>d. counters' \subseteq Days  BY DEF StartRequest, AllowanceInv, RowsTyped
<1>5. RowsTyped'  BY <1>1, <1>3, <1>d DEF AllowanceInv, RowsTyped
<1>6. StepAt(r)' /\ KeyAt(r)'
  BY <1>0, <1>2, <1>4 DEF StepAt, KeyAt, Answering, Active
<1>7. ASSUME NEW s \in Requests PROVE UniqueAt(r, s)' /\ UniqueAt(s, r)'
  <2>1. s # r => requests[s].message # chats[r].message \/ chats[r].message = NoMessage
    BY DEF StartRequest, IsDuplicate
  <2>2. QED  BY <1>2, <1>4, <2>1 DEF UniqueAt
<1>8. Quiet(r)  BY <1>2, <1>3, <1>4 DEF Quiet
<1>9. QED  BY <1>4, <1>5, <1>6, <1>7, <1>8, OthersKept, QuietCounts DEF AllowanceInv

LEMMA OfRecordFinish ==
    ASSUME AllowanceInv, NEW r \in Requests, RecordFinish(r)
    PROVE  AllowanceInv'
<1> DEFINE row == [chats[r] EXCEPT !.step = "over"]
           key == [status |-> chats[r].outcome, counted |-> Counted(r),
                   message |-> IF chats[r].outcome = "FAILED" THEN NoMessage
                               ELSE requests[r].message]
<1>0. chats[r] \in Chats /\ StepAt(r) /\ KeyAt(r) /\ requests[r] \in RequestRows
      /\ chats[r].step = "recording"
  BY DEF AllowanceInv, RowsTyped, RecordFinish
<1>a. Counted(r) \in BOOLEAN  BY <1>0 DEF Counted, Chats
<1>1. row \in Chats /\ key \in RequestRows  BY <1>0, <1>a DEF Chats, RequestRows, StepAt
<1>2. /\ row.step = "over" /\ row.message = chats[r].message /\ row.holds = chats[r].holds
      /\ row.outcome = chats[r].outcome /\ row.window = chats[r].window
      /\ key.message = IF chats[r].outcome = "FAILED" THEN NoMessage ELSE requests[r].message
  BY <1>0 DEF Chats, RequestRows
<1>3. /\ chats' = [chats EXCEPT ![r] = row] /\ requests' = [requests EXCEPT ![r] = key]
      /\ used' = used /\ renewal' = renewal
  BY <1>0 DEF RecordFinish, Chats, RequestRows
<1>4. /\ chats'[r] = row /\ requests'[r] = key
      /\ \A s \in Requests \ {r} : chats'[s] = chats[s] /\ requests'[s] = requests[s]
  BY <1>3 DEF AllowanceInv, RowsTyped
<1> HIDE DEF row, key
<1>d. counters' \subseteq Days  BY DEF RecordFinish, AllowanceInv, RowsTyped
<1>5. RowsTyped'  BY <1>1, <1>3, <1>d DEF AllowanceInv, RowsTyped
<1>6. StepAt(r)' /\ KeyAt(r)'
  BY <1>0, <1>2, <1>4 DEF StepAt, KeyAt, Answering, Active
<1>7. ASSUME NEW s \in Requests PROVE UniqueAt(r, s)' /\ UniqueAt(s, r)'
  BY <1>2, <1>4 DEF AllowanceInv, UniqueAt
<1>8. Quiet(r)  BY <1>2, <1>3, <1>4 DEF Quiet
<1>9. QED  BY <1>4, <1>5, <1>6, <1>7, <1>8, OthersKept, QuietCounts DEF AllowanceInv

\* A reservation adds its request to those that hold an action of the window, and counts it.
LEMMA OfReserveAction ==
    ASSUME AllowanceInv, NEW r \in Requests, ReserveAction(r)
    PROVE  AllowanceInv'
<1> DEFINE win == chats[r].window
           row == IF used[win] < Limit
                  THEN [chats[r] EXCEPT !.step = "streaming", !.holds = TRUE]
                  ELSE [chats[r] EXCEPT !.step = "recording", !.outcome = "FAILED"]
<1>0. chats[r] \in Chats /\ StepAt(r) /\ KeyAt(r) /\ chats[r].step = "reserving" /\ win \in Days
  BY DEF AllowanceInv, RowsTyped, ReserveAction, Chats
<1>1. row \in Chats  BY <1>0 DEF Chats
<1>2. /\ row.message = chats[r].message /\ row.window = win /\ ~chats[r].holds
      /\ row.holds <=> used[win] < Limit
      /\ \/ row.step = "streaming" /\ row.outcome = "NONE"
         \/ row.step = "recording" /\ row.outcome = "FAILED"
  <2>1. CASE used[win] < Limit
    <3>1. row = [chats[r] EXCEPT !.step = "streaming", !.holds = TRUE]  BY <2>1
    <3> HIDE DEF row
    <3>2. row.message = chats[r].message /\ row.window = win /\ row.step = "streaming"
          /\ row.outcome = "NONE" /\ row.holds
      BY <1>0, <3>1 DEF Chats, StepAt
    <3>3. QED  BY <1>0, <2>1, <3>2 DEF StepAt
  <2>2. CASE ~(used[win] < Limit)
    <3>1. row = [chats[r] EXCEPT !.step = "recording", !.outcome = "FAILED"]  BY <2>2
    <3> HIDE DEF row
    <3>2. row.message = chats[r].message /\ row.window = win /\ row.step = "recording"
          /\ row.outcome = "FAILED" /\ row.holds = chats[r].holds
      BY <1>0, <3>1 DEF Chats
    <3>3. QED  BY <1>0, <2>2, <3>2 DEF StepAt
  <2>3. QED  BY <2>1, <2>2
<1>3. /\ chats' = [chats EXCEPT ![r] = row] /\ requests' = requests /\ renewal' = renewal
      /\ used' = IF used[win] < Limit THEN [used EXCEPT ![win] = @ + 1] ELSE used
  BY <1>0 DEF ReserveAction, Chats
<1>4. chats'[r] = row /\ \A s \in Requests \ {r} : chats'[s] = chats[s]
  BY <1>3 DEF AllowanceInv, RowsTyped
<1> HIDE DEF row
<1>b. used \in [Days -> Int] /\ used[win] \in Int  BY <1>0 DEF AllowanceInv, RowsTyped
<1>c. used' \in [Days -> Int]
  <2>1. [used EXCEPT ![win] = used[win] + 1] \in [Days -> Int]
    BY <1>0, <1>b, CounterUpdate
  <2>2. QED  BY <1>3, <1>b, <2>1
<1>d. counters' \subseteq Days  BY DEF ReserveAction, AllowanceInv, RowsTyped
<1>5. RowsTyped'  BY <1>1, <1>3, <1>d, <1>c DEF AllowanceInv, RowsTyped
<1>6. StepAt(r)' /\ KeyAt(r)'
  BY <1>0, <1>2, <1>3, <1>4 DEF StepAt, KeyAt, Answering, Active
<1>7. ASSUME NEW w \in Days PROVE CountAt(w)'
  <2>0. CountAt(w) /\ Limit \in Nat /\ used[w] \in Int
    BY AllowanceAssumption DEF AllowanceInv, AllowanceAssumption, RowsTyped
  <2>1. CASE w = win /\ used[win] < Limit
    <3>1. Holders(w)' = Holders(w) \cup {r}  BY <1>2, <1>4, <2>1 DEF Holders
    <3>2. r \notin Holders(w)  BY <1>2 DEF Holders
    <3>3. Cardinality(Holders(w)') = Cardinality(Holders(w)) + 1
      BY <3>1, <3>2, HoldersFinite, FS_AddElement
    <3>4. used'[w] = used[w] + 1  BY <1>0, <1>3, <2>1 DEF AllowanceInv, RowsTyped
    <3>5. QED
      BY <1>3, <2>0, <2>1, <3>3, <3>4, HoldersFinite DEF CountAt
  <2>2. CASE ~(w = win /\ used[win] < Limit)
    <3>1. Holders(w)' = Holders(w)  BY <1>2, <1>4, <2>2 DEF Holders
    <3>2. used'[w] = used[w]  BY <1>0, <1>3, <2>2 DEF AllowanceInv, RowsTyped
    <3>3. QED  BY <1>3, <2>0, <3>1, <3>2 DEF CountAt
  <2>3. QED  BY <2>1, <2>2
<1>8. QED  BY <1>3, <1>4, <1>5, <1>6, <1>7, SameRows, OthersKept DEF AllowanceInv

\* A refund takes its request from those that hold an action of the window; as long as nobody has
\* moved the count away it is positive then.
LEMMA OfReleaseAction ==
    ASSUME AllowanceInv, NEW r \in Requests, ReleaseAction(r)
    PROVE  AllowanceInv'
<1> DEFINE win == chats[r].window
           row == [chats[r] EXCEPT !.step = "recording", !.holds = FALSE]
<1>0. chats[r] \in Chats /\ StepAt(r) /\ KeyAt(r) /\ chats[r].step = "releasing" /\ win \in Days
  BY DEF AllowanceInv, RowsTyped, ReleaseAction, Chats
<1>1. row \in Chats  BY <1>0 DEF Chats
<1>2. /\ row.message = chats[r].message /\ row.window = win /\ chats[r].holds /\ ~row.holds
      /\ row.step = "recording" /\ row.outcome = chats[r].outcome
  BY <1>0 DEF Chats, StepAt
<1>3. /\ chats' = [chats EXCEPT ![r] = row] /\ requests' = requests /\ renewal' = renewal
      /\ used' = [used EXCEPT ![win] = IF @ > 0 THEN @ - 1 ELSE @]
  BY <1>0 DEF ReleaseAction, Chats
<1>4. chats'[r] = row /\ \A s \in Requests \ {r} : chats'[s] = chats[s]
  BY <1>3 DEF AllowanceInv, RowsTyped
<1> HIDE DEF row
<1>b. used \in [Days -> Int] /\ used[win] \in Int  BY <1>0 DEF AllowanceInv, RowsTyped
<1>c. used' \in [Days -> Int]
  <2>1. (IF used[win] > 0 THEN used[win] - 1 ELSE used[win]) \in Int  BY <1>b
  <2>a. [used EXCEPT ![win] = IF used[win] > 0 THEN used[win] - 1 ELSE used[win]]
          \in [Days -> Int]
    BY <1>0, <1>b, <2>1, CounterUpdate
  <2>2. QED  BY <1>3, <1>b, <2>a
<1>d. counters' \subseteq Days  BY DEF ReleaseAction, AllowanceInv, RowsTyped
<1>5. RowsTyped'  BY <1>1, <1>3, <1>d, <1>c DEF AllowanceInv, RowsTyped
<1>6. StepAt(r)' /\ KeyAt(r)'
  BY <1>0, <1>2, <1>3, <1>4 DEF StepAt, KeyAt, Answering, Active
<1>7. ASSUME NEW w \in Days PROVE CountAt(w)'
  <2>0. CountAt(w) /\ Limit \in Nat /\ used[w] \in Int
    BY AllowanceAssumption DEF AllowanceInv, AllowanceAssumption, RowsTyped
  <2>1. CASE w = win
    <3>1. Holders(w)' = Holders(w) \ {r}  BY <1>2, <1>4, <2>1 DEF Holders
    <3>2. r \in Holders(w)  BY <1>2, <2>1 DEF Holders
    <3>3. Cardinality(Holders(w)') = Cardinality(Holders(w)) - 1
      BY <3>1, <3>2, HoldersFinite, FS_RemoveElement
    <3>4. Cardinality(Holders(w)) >= 1
      BY <3>2, HoldersFinite, FS_EmptySet
    <3>5. used'[w] = IF used[w] > 0 THEN used[w] - 1 ELSE used[w]
      BY <1>0, <1>3, <2>1 DEF AllowanceInv, RowsTyped
    <3>6. QED
      BY <1>3, <2>0, <3>3, <3>4, <3>5, HoldersFinite DEF CountAt
  <2>2. CASE w # win
    <3>1. Holders(w)' = Holders(w)  BY <1>2, <1>4, <2>2 DEF Holders
    <3>2. used'[w] = used[w]  BY <1>0, <1>3, <2>2 DEF AllowanceInv, RowsTyped
    <3>3. QED  BY <1>3, <2>0, <3>1, <3>2 DEF CountAt
  <2>3. QED  BY <2>1, <2>2
<1>8. QED  BY <1>3, <1>4, <1>5, <1>6, <1>7, SameRows, OthersKept DEF AllowanceInv

-----------------------------------------------------------------------------
(* The steps of a renewal, and the theorems. *)

\* A step that leaves the requests alone, and lowers a counter only with a mark.
LEMMA CountersStep ==
    ASSUME AllowanceInv, UNCHANGED <<requests, chats>>, RowsTyped',
           renewal.lowered \subseteq renewal'.lowered,
           \A w \in Days : w \notin renewal'.lowered => used'[w] >= used[w]
    PROVE  AllowanceInv'
<1>1. \A r \in Requests : StepAt(r)' /\ KeyAt(r)'
  BY DEF AllowanceInv, StepAt, KeyAt, Answering, Active
<1>2. \A r, s \in Requests : UniqueAt(r, s)'  BY DEF AllowanceInv, UniqueAt
<1>3. ASSUME NEW w \in Days PROVE CountAt(w)'
  <2>1. Holders(w)' = Holders(w)  BY DEF Holders
  <2>2. used[w] \in Int /\ used'[w] \in Int  BY DEF AllowanceInv, RowsTyped
  <2>3. QED  BY <2>1, <2>2, HoldersFinite DEF AllowanceInv, CountAt
<1>4. QED  BY <1>1, <1>2, <1>3 DEF AllowanceInv

\* A step that leaves the counters alone as well.
LEMMA RenewalOnly ==
    ASSUME AllowanceInv, UNCHANGED <<used, counters, requests, chats>>,
           NEW move \in Moves, NEW paid \in Nat,
           renewal' = [renewal EXCEPT !.move = move, !.paid = paid]
    PROVE  AllowanceInv'
<1>1. RowsTyped' /\ renewal'.lowered = renewal.lowered  BY DEF AllowanceInv, RowsTyped
<1>2. \A w \in Days : used'[w] >= used[w]  BY DEF AllowanceInv, RowsTyped
<1>3. QED  BY <1>1, <1>2, CountersStep

LEMMA OfRenew ==
    ASSUME AllowanceInv, Renew
    PROVE  AllowanceInv'
<1> DEFINE next == RenewedPeriodEnd(periodEnd, now)
           moves == LateRenewalUsageCarryOver(periodEnd, next, now)
           one == CHOOSE m \in moves : TRUE
           move == IF moves = {} THEN NoMove
                   ELSE [step |-> "paid", from |-> one.from, to |-> one.to,
                         locked |-> {}, amount |-> 0]
<1>1. moves \subseteq [from : Days, to : Days]  BY DEF Renew
<1>2. renewal' = [renewal EXCEPT !.move = move, !.paid = @ + 1]  BY DEF Renew, AllowanceInv, RowsTyped
<1> HIDE DEF moves
<1>3. moves # {} => one \in moves  OBVIOUS
<1>4. move \in Moves  BY <1>1, <1>3 DEF Moves
<1>5. renewal.paid + 1 \in Nat  BY DEF AllowanceInv, RowsTyped
<1> HIDE DEF move
<1>6. renewal' = [renewal EXCEPT !.move = move, !.paid = renewal.paid + 1]
  BY <1>2 DEF AllowanceInv, RowsTyped
<1>7. QED  BY <1>4, <1>5, <1>6, RenewalOnly DEF Renew

LEMMA OfLockCounters ==
    ASSUME AllowanceInv, LockCounters
    PROVE  AllowanceInv'
<1> DEFINE move == [renewal.move EXCEPT !.step = "locked", !.locked = counters]
<1>1. /\ renewal \in [move : Moves, paid : Nat, lowered : SUBSET Days]
      /\ renewal.move \in Moves /\ renewal.move.step = "paid" /\ counters \subseteq Days
  BY DEF AllowanceInv, RowsTyped, LockCounters
<1>c. renewal.move \in [step : {"paid", "locked", "read"}, from : Days, to : Days,
                         locked : SUBSET Days, amount : Int]
  BY <1>1 DEF Moves, NoMove
<1>2. move \in Moves  BY <1>1, <1>c DEF Moves
<1>3. renewal' = [renewal EXCEPT !.move = move, !.paid = renewal.paid]
  BY <1>1 DEF LockCounters
<1> HIDE DEF move
<1>4. QED  BY <1>1, <1>2, <1>3, RenewalOnly DEF LockCounters

LEMMA OfReadSource ==
    ASSUME AllowanceInv, ReadSource
    PROVE  AllowanceInv'
<1> DEFINE move == [renewal.move EXCEPT !.step = "read", !.amount = used[renewal.move.from]]
<1>1. /\ renewal \in [move : Moves, paid : Nat, lowered : SUBSET Days]
      /\ renewal.move \in Moves /\ renewal.move.step = "locked" /\ used \in [Days -> Int]
  BY DEF AllowanceInv, RowsTyped, ReadSource
<1>a. renewal.move.from \in Days  BY <1>1 DEF Moves, NoMove
<1>b. used[renewal.move.from] \in Int  BY <1>1, <1>a
<1>c. renewal.move \in [step : {"paid", "locked", "read"}, from : Days, to : Days,
                         locked : SUBSET Days, amount : Int]
  BY <1>1 DEF Moves, NoMove
<1>2. move \in Moves  BY <1>1, <1>b, <1>c DEF Moves
<1>3. renewal' = [renewal EXCEPT !.move = move, !.paid = renewal.paid]
  BY <1>1 DEF ReadSource
<1> HIDE DEF move
<1>4. QED  BY <1>1, <1>2, <1>3, RenewalOnly DEF ReadSource

LEMMA OfLoseMove ==
    ASSUME AllowanceInv, LoseMove
    PROVE  AllowanceInv'
<1>1. NoMove \in Moves  BY DEF Moves
<1>2. renewal' = [renewal EXCEPT !.move = NoMove, !.paid = renewal.paid] /\ renewal.paid \in Nat
  BY DEF AllowanceInv, RowsTyped, LoseMove
<1>3. QED  BY <1>1, <1>2, RenewalOnly DEF LoseMove

LEMMA OfMoveUsage ==
    ASSUME AllowanceInv, MoveUsage
    PROVE  AllowanceInv'
<1> DEFINE from == renewal.move.from
           to == renewal.move.to
           amount == renewal.move.amount
           low == {w \in Days : used'[w] < used[w]}
<1>1. /\ renewal \in [move : Moves, paid : Nat, lowered : SUBSET Days]
      /\ renewal.move \in Moves /\ renewal.move.step = "read" /\ used \in [Days -> Int]
      /\ counters \subseteq Days /\ NoMove \in Moves
  BY DEF AllowanceInv, RowsTyped, MoveUsage, Moves
<1>2. from \in Days /\ to \in Days /\ amount \in Int  BY <1>1 DEF Moves, NoMove
<1>3. CASE amount = 0
  <2>1. renewal' = [renewal EXCEPT !.move = NoMove, !.paid = renewal.paid]
        /\ UNCHANGED <<used, counters, requests, chats>>
    BY <1>1, <1>3 DEF MoveUsage
  <2>2. renewal.paid \in Nat  BY <1>1
  <2>3. QED  BY <1>1, <2>1, <2>2, RenewalOnly
<1>4. CASE amount # 0
  <2>1. /\ used' = [used EXCEPT ![from] = used[from] - amount, ![to] = used[to] + amount]
        /\ counters' = counters \cup {to} /\ UNCHANGED <<requests, chats>>
        /\ renewal' = [renewal EXCEPT !.move = NoMove, !.lowered = @ \cup low]
    BY <1>4 DEF MoveUsage
  <2>2. used' \in [Days -> Int]
    <3> DEFINE taken == [used EXCEPT ![from] = used[from] - amount]
    <3>1. taken \in [Days -> Int]
      <4>1. used[from] - amount \in Int  BY <1>1, <1>2
      <4>2. QED  BY <1>1, <1>2, <4>1, CounterUpdate
    <3>2. used' = [taken EXCEPT ![to] = used[to] + amount]  BY <2>1
    <3> HIDE DEF taken
    <3>3. used[to] + amount \in Int  BY <1>1, <1>2
    <3>4. QED  BY <1>2, <3>1, <3>2, <3>3, CounterUpdate
  <2>3. low \subseteq Days  OBVIOUS
  <2>4. renewal' \in [move : Moves, paid : Nat, lowered : SUBSET Days]
        /\ renewal'.lowered = renewal.lowered \cup low
    BY <1>1, <2>1, <2>3
  <2>5. RowsTyped'  BY <1>1, <1>2, <2>1, <2>2, <2>4 DEF AllowanceInv, RowsTyped
  <2>6. ASSUME NEW w \in Days, w \notin renewal'.lowered PROVE used'[w] >= used[w]
    BY <1>1, <2>2, <2>4, <2>6
  <2>7. QED  BY <2>1, <2>4, <2>5, <2>6, CountersStep
<1>5. QED  BY <1>3, <1>4

LEMMA AllowanceInductive == AllowanceInv /\ [AllowanceNext]_allowanceVars => AllowanceInv'
<1> SUFFICES ASSUME AllowanceInv, [AllowanceNext]_allowanceVars PROVE AllowanceInv'
  OBVIOUS
<1>1. CASE UNCHANGED <<used, counters, requests, chats, renewal>>
  <2>1. RowsTyped' /\ renewal'.lowered = renewal.lowered  BY <1>1 DEF AllowanceInv, RowsTyped
  <2>2. \A w \in Days : used'[w] >= used[w]  BY <1>1 DEF AllowanceInv, RowsTyped
  <2>3. QED  BY <1>1, <2>1, <2>2, CountersStep
<1>2. ASSUME NEW r \in Requests, ChatStep(r) PROVE AllowanceInv'
  BY <1>2, OfChat, OfStartRequest, OfRefuseDuplicate, OfCreateCounter, OfReserveAction,
     OfProduceOutput, OfAnswer, OfFailRequest, OfReleaseAction, OfRecordFinish, OfLoseFinish,
     OfDie DEF ChatStep
<1>3. CASE RenewalStep
  BY <1>3, OfRenew, OfLockCounters, OfReadSource, OfMoveUsage, OfLoseMove DEF RenewalStep
<1>4. QED  BY <1>1, <1>2, <1>3 DEF AllowanceNext, Tick, allowanceVars

\* Requests that race, give back and die never hold more actions of a window than the limit,
\* until a late payment has moved its count away.
THEOREM AllowanceKept == AllowanceSpec => []AllowanceIsKept
<1>1. AllowanceInv => AllowanceIsKept  BY DEF AllowanceInv, CountAt, AllowanceIsKept
<1>2. QED  BY <1>1, InitHoldsInv, AllowanceInductive, PTL DEF AllowanceSpec

\* No message is answered twice, or by two requests at a time.
THEOREM AnsweredOnce == AllowanceSpec => []MessageIsAnsweredOnce
<1>1. AllowanceInv => MessageIsAnsweredOnce
  <2> SUFFICES ASSUME AllowanceInv, NEW r \in Requests, NEW s \in Requests, r # s,
                      Answering(r), Answering(s)
               PROVE  chats[r].message # chats[s].message
    BY DEF MessageIsAnsweredOnce
  <2>1. /\ requests[r].message = chats[r].message /\ requests[s].message = chats[s].message
        /\ UniqueAt(r, s) /\ StepAt(r)
    BY DEF AllowanceInv, KeyAt
  <2>2. chats[r].step # "idle"  BY <2>1 DEF Answering, Active, StepAt
  <2>3. QED  BY <2>1, <2>2, AllowanceAssumption DEF UniqueAt, StepAt, AllowanceAssumption
<1>2. QED  BY <1>1, InitHoldsInv, AllowanceInductive, PTL DEF AllowanceSpec

-----------------------------------------------------------------------------
(* The changes that are confirmed. *)

ToolsTyped ==
    /\ executions \in [Proposals -> Executions]
    /\ tools \in [Requests -> Decisions]
    /\ ran \in [Proposals -> Nat]

\* A change is not made before its proposal is claimed, and the one request that claimed it is the
\* only one that can make it.
MadeAt(p) ==
    /\ executions[p].status \in {"NONE", "PENDING_APPROVAL", "REJECTED"} =>
          ran[p] = 0 /\ \A r \in Requests : p \notin tools[r].running
    /\ \A r \in Requests : p \in tools[r].running =>
          /\ executions[p].status = "EXECUTING" /\ executions[p].request = r
          /\ p \notin tools[r].made => ran[p] = 0
    /\ ran[p] <= 1

ToolsInv == ToolsTyped /\ \A p \in Proposals : MadeAt(p)

\* What a decision forbids, for one proposal and one step.
StandsAt(p) ==
    /\ executions[p].status \in {"SUCCEEDED", "FAILED", "REJECTED"} =>
          executions'[p] = executions[p]
    /\ executions[p].status = "EXECUTING" =>
          executions'[p].status \in {"EXECUTING", "SUCCEEDED", "FAILED"}

ToolsGoal == ToolsInv' /\ \A p \in Proposals : StandsAt(p)

\* A step that decides nothing and makes nothing.
LEMMA NoToolStep ==
    ASSUME ToolsInv, UNCHANGED <<executions, tools, ran>>
    PROVE  ToolsGoal
<1>1. ToolsTyped'  BY DEF ToolsInv, ToolsTyped
<1>2. \A p \in Proposals : MadeAt(p)' /\ StandsAt(p)  BY DEF ToolsInv, MadeAt, StandsAt
<1>3. QED  BY <1>1, <1>2 DEF ToolsGoal, ToolsInv

\* New decisions touch neither what runs nor what was made.
LEMMA OfAnswerCards ==
    ASSUME ToolsInv, NEW r \in Requests, NEW approved \in SUBSET Proposals,
           NEW rejected \in SUBSET Proposals, AnswerCards(r, approved, rejected)
    PROVE  ToolsGoal
<1> DEFINE row == [tools[r] EXCEPT !.approved = approved, !.rejected = rejected]
<1>1. tools[r] \in Decisions /\ tools \in [Requests -> Decisions]  BY DEF ToolsInv, ToolsTyped
<1>2. row \in Decisions /\ row.running = tools[r].running /\ row.made = tools[r].made
  BY <1>1 DEF Decisions
<1>3. tools' = [tools EXCEPT ![r] = row] /\ UNCHANGED <<executions, ran>>
  BY <1>1 DEF AnswerCards, Decisions
<1> HIDE DEF row
<1>4. ToolsTyped'  BY <1>1, <1>2, <1>3 DEF ToolsInv, ToolsTyped
<1>5. \A s \in Requests : tools'[s].running = tools[s].running /\ tools'[s].made = tools[s].made
  BY <1>1, <1>2, <1>3
<1>6. \A p \in Proposals : MadeAt(p)' /\ StandsAt(p)
  BY <1>3, <1>5 DEF ToolsInv, MadeAt, StandsAt
<1>7. QED  BY <1>4, <1>6 DEF ToolsGoal, ToolsInv

\* The row of a proposal that is set leaves the other rows alone.
LEMMA ExecutionUpdate ==
    ASSUME executions \in [Proposals -> Executions], NEW p \in Proposals, NEW row \in Executions,
           executions' = [executions EXCEPT ![p] = row]
    PROVE  /\ executions' \in [Proposals -> Executions] /\ executions'[p] = row
           /\ \A q \in Proposals \ {p} : executions'[q] = executions[q]
OBVIOUS

LEMMA ToolsUpdate ==
    ASSUME tools \in [Requests -> Decisions], NEW r \in Requests, NEW row \in Decisions,
           tools' = [tools EXCEPT ![r] = row]
    PROVE  /\ tools' \in [Requests -> Decisions] /\ tools'[r] = row
           /\ \A s \in Requests \ {r} : tools'[s] = tools[s]
OBVIOUS

LEMMA OfRejectPendingExecution ==
    ASSUME ToolsInv, NEW r \in Requests, NEW p \in Proposals, RejectPendingExecution(r, p)
    PROVE  ToolsGoal
<1> DEFINE row == [tools[r] EXCEPT !.handled = @ \cup {p}]
           new == [executions[p] EXCEPT
                     !.status = IF @ = "PENDING_APPROVAL" THEN "REJECTED" ELSE @]
<1>1. /\ tools[r] \in Decisions /\ tools \in [Requests -> Decisions]
      /\ executions[p] \in Executions /\ executions \in [Proposals -> Executions]
      /\ ran' = ran
  BY DEF ToolsInv, ToolsTyped, RejectPendingExecution
<1>2. row \in Decisions /\ row.running = tools[r].running /\ row.made = tools[r].made
  BY <1>1 DEF Decisions
<1>3. /\ new \in Executions
      /\ executions[p].status = "PENDING_APPROVAL" => new.status = "REJECTED"
      /\ executions[p].status # "PENDING_APPROVAL" => new = executions[p]
  BY <1>1 DEF Executions
<1>4. tools' = [tools EXCEPT ![r] = row] /\ executions' = [executions EXCEPT ![p] = new]
  BY <1>1 DEF RejectPendingExecution, Decisions, Executions
<1> HIDE DEF row, new
<1>5. /\ tools' \in [Requests -> Decisions]
      /\ \A s \in Requests : tools'[s].running = tools[s].running /\ tools'[s].made = tools[s].made
  BY <1>1, <1>2, <1>4, ToolsUpdate
<1>6. /\ executions' \in [Proposals -> Executions] /\ executions'[p] = new
      /\ \A q \in Proposals \ {p} : executions'[q] = executions[q]
  BY <1>1, <1>3, <1>4, ExecutionUpdate
<1>7. ToolsTyped'  BY <1>1, <1>5, <1>6 DEF ToolsInv, ToolsTyped
<1>8. ASSUME NEW q \in Proposals PROVE MadeAt(q)' /\ StandsAt(q)
  <2>1. MadeAt(q)  BY DEF ToolsInv
  <2>2. CASE q = p  BY <1>1, <1>3, <1>5, <1>6, <2>1, <2>2 DEF MadeAt, StandsAt
  <2>3. CASE q # p  BY <1>1, <1>5, <1>6, <2>1, <2>3 DEF MadeAt, StandsAt
  <2>4. QED  BY <2>2, <2>3
<1>9. QED  BY <1>7, <1>8 DEF ToolsGoal, ToolsInv

\* Only a pending proposal is claimed, so nobody runs it and nobody has made its change.
LEMMA OfClaimApprovedExecution ==
    ASSUME ToolsInv, NEW r \in Requests, NEW p \in Proposals, ClaimApprovedExecution(r, p)
    PROVE  ToolsGoal
<1>1. /\ tools[r] \in Decisions /\ tools \in [Requests -> Decisions]
      /\ executions \in [Proposals -> Executions] /\ ran' = ran
  BY DEF ToolsInv, ToolsTyped, ClaimApprovedExecution
<1>2. CASE executions[p].status = "PENDING_APPROVAL"
  <2> DEFINE row == [tools[r] EXCEPT !.handled = @ \cup {p}, !.running = @ \cup {p}]
             new == [status |-> "EXECUTING", request |-> r]
  <2>1. row \in Decisions /\ row.running = tools[r].running \cup {p} /\ row.made = tools[r].made
    BY <1>1 DEF Decisions
  <2>2. new \in Executions /\ new.status = "EXECUTING" /\ new.request = r  BY DEF Executions
  <2>3. tools' = [tools EXCEPT ![r] = row] /\ executions' = [executions EXCEPT ![p] = new]
    BY <1>1, <1>2 DEF ClaimApprovedExecution, Decisions
  <2> HIDE DEF row, new
  <2>4. /\ tools' \in [Requests -> Decisions] /\ tools'[r] = row
        /\ \A s \in Requests \ {r} : tools'[s] = tools[s]
    BY <1>1, <2>1, <2>3, ToolsUpdate
  <2>5. /\ executions' \in [Proposals -> Executions] /\ executions'[p] = new
        /\ \A q \in Proposals \ {p} : executions'[q] = executions[q]
    BY <1>1, <2>2, <2>3, ExecutionUpdate
  <2>6. ToolsTyped'  BY <1>1, <2>4, <2>5 DEF ToolsInv, ToolsTyped
  <2>7. ASSUME NEW q \in Proposals PROVE MadeAt(q)' /\ StandsAt(q)
    <3>1. MadeAt(q)  BY DEF ToolsInv
    <3>2. CASE q = p  BY <1>1, <1>2, <2>1, <2>2, <2>4, <2>5, <3>1, <3>2 DEF MadeAt, StandsAt
    <3>3. CASE q # p  BY <1>1, <2>1, <2>4, <2>5, <3>1, <3>3 DEF MadeAt, StandsAt
    <3>4. QED  BY <3>2, <3>3
  <2>8. QED  BY <2>6, <2>7 DEF ToolsGoal, ToolsInv
<1>3. CASE executions[p].status # "PENDING_APPROVAL"
  <2> DEFINE row == [tools[r] EXCEPT !.handled = @ \cup {p}]
  <2>1. row \in Decisions /\ row.running = tools[r].running /\ row.made = tools[r].made
    BY <1>1 DEF Decisions
  <2>2. tools' = [tools EXCEPT ![r] = row] /\ UNCHANGED <<executions, ran>>
    BY <1>1, <1>3 DEF ClaimApprovedExecution, Decisions
  <2> HIDE DEF row
  <2>3. /\ tools' \in [Requests -> Decisions]
        /\ \A s \in Requests : tools'[s].running = tools[s].running /\ tools'[s].made = tools[s].made
    BY <1>1, <2>1, <2>2, ToolsUpdate
  <2>4. ToolsTyped'  BY <1>1, <2>2, <2>3 DEF ToolsInv, ToolsTyped
  <2>5. \A q \in Proposals : MadeAt(q)' /\ StandsAt(q)
    BY <2>2, <2>3 DEF ToolsInv, MadeAt, StandsAt
  <2>6. QED  BY <2>4, <2>5 DEF ToolsGoal, ToolsInv
<1>4. QED  BY <1>2, <1>3

LEMMA OfRunTool ==
    ASSUME ToolsInv, NEW r \in Requests, NEW p \in Proposals, RunTool(r, p)
    PROVE  ToolsGoal
<1> DEFINE row == [tools[r] EXCEPT !.made = @ \cup {p}]
<1>1. /\ tools[r] \in Decisions /\ tools \in [Requests -> Decisions]
      /\ p \in tools[r].running /\ p \notin tools[r].made /\ executions' = executions
      /\ ran \in [Proposals -> Nat] /\ ran' = [ran EXCEPT ![p] = @ + 1]
  BY DEF ToolsInv, ToolsTyped, RunTool
<1>2. row \in Decisions /\ row.running = tools[r].running /\ row.made = tools[r].made \cup {p}
  BY <1>1 DEF Decisions
<1>3. tools' = [tools EXCEPT ![r] = row]  BY <1>1 DEF RunTool, Decisions
<1> HIDE DEF row
<1>4. /\ tools' \in [Requests -> Decisions] /\ tools'[r] = row
      /\ \A s \in Requests \ {r} : tools'[s] = tools[s]
  BY <1>1, <1>2, <1>3, ToolsUpdate
<1>5. /\ ran' \in [Proposals -> Nat] /\ ran'[p] = ran[p] + 1
      /\ \A q \in Proposals \ {p} : ran'[q] = ran[q]
  BY <1>1
<1>6. ToolsTyped'  BY <1>1, <1>4, <1>5 DEF ToolsInv, ToolsTyped
<1>7. ASSUME NEW q \in Proposals PROVE MadeAt(q)' /\ StandsAt(q)
  <2>1. MadeAt(q)  BY DEF ToolsInv
  <2>2. CASE q = p
    <3>1. executions[p].status = "EXECUTING" /\ executions[p].request = r /\ ran[p] = 0
      BY <1>1, <2>1, <2>2 DEF MadeAt
    <3>2. QED  BY <1>1, <1>2, <1>4, <1>5, <2>1, <2>2, <3>1 DEF MadeAt, StandsAt
  <2>3. CASE q # p
    BY <1>1, <1>2, <1>4, <1>5, <2>1, <2>3 DEF MadeAt, StandsAt
  <2>4. QED  BY <2>2, <2>3
<1>8. QED  BY <1>6, <1>7 DEF ToolsGoal, ToolsInv

LEMMA OfCompleteToolExecution ==
    ASSUME ToolsInv, NEW r \in Requests, NEW p \in Proposals, CompleteToolExecution(r, p)
    PROVE  ToolsGoal
<1> DEFINE row == [tools[r] EXCEPT !.running = @ \ {p}]
<1>1. /\ tools[r] \in Decisions /\ tools \in [Requests -> Decisions]
      /\ executions[p] \in Executions /\ executions \in [Proposals -> Executions]
      /\ ran' = ran /\ p \in tools[r].running
  BY DEF ToolsInv, ToolsTyped, CompleteToolExecution
<1>2. PICK status \in {"FAILED", "SUCCEEDED"} :
        executions' = [executions EXCEPT ![p] = [executions[p] EXCEPT !.status = status]]
  BY <1>1 DEF CompleteToolExecution
<1> DEFINE new == [executions[p] EXCEPT !.status = status]
<1>3. new \in Executions /\ new.status = status  BY <1>1 DEF Executions
<1>4. row \in Decisions /\ row.running = tools[r].running \ {p} /\ row.made = tools[r].made
  BY <1>1 DEF Decisions
<1>5. tools' = [tools EXCEPT ![r] = row] /\ executions' = [executions EXCEPT ![p] = new]
  BY <1>1, <1>2 DEF CompleteToolExecution, Decisions
<1> HIDE DEF row, new
<1>6. /\ tools' \in [Requests -> Decisions] /\ tools'[r] = row
      /\ \A s \in Requests \ {r} : tools'[s] = tools[s]
  BY <1>1, <1>4, <1>5, ToolsUpdate
<1>7. /\ executions' \in [Proposals -> Executions] /\ executions'[p] = new
      /\ \A q \in Proposals \ {p} : executions'[q] = executions[q]
  BY <1>1, <1>3, <1>5, ExecutionUpdate
<1>8. ToolsTyped'  BY <1>1, <1>6, <1>7 DEF ToolsInv, ToolsTyped
<1>9. ASSUME NEW q \in Proposals PROVE MadeAt(q)' /\ StandsAt(q)
  <2>1. MadeAt(q)  BY DEF ToolsInv
  <2>2. CASE q = p
    <3>1. executions[p].status = "EXECUTING" /\ executions[p].request = r
      BY <1>1, <2>1, <2>2 DEF MadeAt
    <3>2. \A s \in Requests : p \notin tools'[s].running
      BY <1>4, <1>6, <2>1, <2>2, <3>1 DEF MadeAt
    <3>3. QED  BY <1>1, <1>3, <1>7, <2>1, <2>2, <3>1, <3>2 DEF MadeAt, StandsAt
  <2>3. CASE q # p
    BY <1>1, <1>4, <1>6, <1>7, <2>1, <2>3 DEF MadeAt, StandsAt
  <2>4. QED  BY <2>2, <2>3
<1>10. QED  BY <1>8, <1>9 DEF ToolsGoal, ToolsInv

\* A stored turn adds pending rows only where there was none.
LEMMA OfSaveTurn ==
    ASSUME ToolsInv, NEW r \in Requests, SaveTurn(r)
    PROVE  ToolsGoal
<1>1. executions' = Proposed(r) /\ UNCHANGED <<tools, ran>> /\ executions \in [Proposals -> Executions]
  BY DEF SaveTurn, ToolsInv, ToolsTyped
<1>2. [status |-> "PENDING_APPROVAL", request |-> r] \in Executions  BY DEF Executions
<1>3. ToolsTyped'  BY <1>1, <1>2 DEF ToolsInv, ToolsTyped, Proposed
<1>4. ASSUME NEW q \in Proposals PROVE MadeAt(q)' /\ StandsAt(q)
  <2>1. MadeAt(q)  BY DEF ToolsInv
  <2>2. \/ executions'[q] = executions[q]
        \/ executions[q].status = "NONE" /\ executions'[q].status = "PENDING_APPROVAL"
    BY <1>1 DEF Proposed
  <2>3. QED  BY <1>1, <2>1, <2>2 DEF MadeAt, StandsAt
<1>5. QED  BY <1>3, <1>4 DEF ToolsGoal, ToolsInv

LEMMA ToolsStep == ToolsInv /\ [ConversationNext]_chatVars => ToolsGoal
<1> SUFFICES ASSUME ToolsInv, [ConversationNext]_chatVars PROVE ToolsGoal
  OBVIOUS
<1>1. CASE UNCHANGED chatVars
  BY <1>1, NoToolStep DEF chatVars, conversationVars
<1>2. ASSUME NEW r \in Requests, TurnStep(r) PROVE ToolsGoal
  <2>1. ASSUME NEW p \in Proposals, ToolStep(r, p) PROVE ToolsGoal
    BY <2>1, OfRejectPendingExecution, OfClaimApprovedExecution, OfRunTool,
       OfCompleteToolExecution DEF ToolStep
  <2>2. ASSUME NEW approved \in SUBSET Proposals, NEW rejected \in SUBSET Proposals,
               AnswerCards(r, approved, rejected)
        PROVE  ToolsGoal
    BY <2>2, OfAnswerCards
  <2>3. CASE SaveTurn(r)  BY <2>3, OfSaveTurn
  <2>4. CASE UNCHANGED <<executions, tools, ran>>  BY <2>4, NoToolStep
  <2>5. ASSUME NEW m \in Messages, SendMessage(r, m) PROVE UNCHANGED <<executions, tools, ran>>
    BY <2>5 DEF SendMessage
  <2>6. CASE CreateConversation(r) \/ FindProposingRequest(r) \/ CountConfirmations(r)
             \/ RefuseConfirmation(r) \/ Start(r) \/ RefuseMessage(r)
    BY <2>4, <2>6 DEF CreateConversation, FindProposingRequest, CountConfirmations,
                      RefuseConfirmation, Start, RefuseMessage
  <2>7. CASE Reserve(r) \/ DeleteEmptyConversation(r) \/ Continue(r) \/ LoadHistory(r)
             \/ Reply(r) \/ Fail(r) \/ LoseTurn(r)
    BY <2>4, <2>7 DEF Reserve, DeleteEmptyConversation, Continue, LoadHistory, Reply, Fail, LoseTurn
  <2>8. CASE UNCHANGED conversationVars  BY <2>4, <2>8 DEF conversationVars
  <2>9. QED  BY <1>2, <2>1, <2>2, <2>3, <2>4, <2>5, <2>6, <2>7, <2>8 DEF TurnStep
<1>3. QED  BY <1>1, <1>2 DEF ConversationNext

LEMMA InitTools == ConversationInit => ToolsInv
<1> SUFFICES ASSUME ConversationInit PROVE ToolsInv  OBVIOUS
<1>1. ToolsTyped
  BY DEF ConversationInit, ToolsTyped, Executions, Decisions, NoDecisions
<1>2. \A p \in Proposals : MadeAt(p)
  BY DEF ConversationInit, MadeAt, NoDecisions
<1>3. QED  BY <1>1, <1>2 DEF ToolsInv

\* A confirmed change is made at most once.
THEOREM MadeOnce == ConversationSpec => []MutationRunsOnce
<1>1. ToolsInv => MutationRunsOnce  BY DEF ToolsInv, MadeAt, MutationRunsOnce
<1>2. ToolsGoal => ToolsInv'  BY DEF ToolsGoal
<1>3. QED  BY <1>1, <1>2, InitTools, ToolsStep, PTL DEF ConversationSpec

\* A rejected change is never made.
THEOREM RejectedNotMade == ConversationSpec => []RejectedNeverRuns
<1>1. ToolsInv => RejectedNeverRuns  BY DEF ToolsInv, MadeAt, RejectedNeverRuns
<1>2. ToolsGoal => ToolsInv'  BY DEF ToolsGoal
<1>3. QED  BY <1>1, <1>2, InitTools, ToolsStep, PTL DEF ConversationSpec

\* No decision about a proposal is taken back.
THEOREM DecisionKept == ConversationSpec => DecisionIsFinal
<1> DEFINE Stands == \A p \in Proposals : StandsAt(p)
<1>1. ToolsGoal => ToolsInv' /\ Stands  BY DEF ToolsGoal
<1>2. Stands <=> (\A p \in Proposals :
         /\ executions[p].status \in {"SUCCEEDED", "FAILED", "REJECTED"} =>
              executions'[p] = executions[p]
         /\ executions[p].status = "EXECUTING" =>
              executions'[p].status \in {"EXECUTING", "SUCCEEDED", "FAILED"})
  BY DEF StandsAt
<1> HIDE DEF Stands
<1>3. QED  BY <1>1, <1>2, InitTools, ToolsStep, PTL DEF ConversationSpec, DecisionIsFinal

-----------------------------------------------------------------------------
(* What the counters say is what the requests say.                          *)

\* Until a move has lowered a counter, it counts exactly the requests that hold an action.
ExactAt(w) == renewal.lowered = {} => used[w] = Cardinality(Holders(w))

\* What is recorded of a request is what it holds.
RecordAt(r) ==
    /\ chats[r].step \in {"idle", "chat"} => ~requests[r].counted
    /\ chats[r].step = "recording" /\ chats[r].holds =>
          chats[r].outcome = "SUCCEEDED" \/ chats[r].output
    /\ chats[r].step = "over" => (requests[r].counted <=> chats[r].holds)

\* A move goes to another window.
MoveApart == renewal.move # NoMove => renewal.move.from # renewal.move.to

MatchInv ==
    /\ AllowanceInv /\ MoveApart
    /\ \A w \in Days : ExactAt(w)
    /\ \A r \in Requests : RecordAt(r)

\* What a step of one request does to its row and its process.
LEMMA OneRequestMoves ==
    ASSUME AllowanceInv, NEW r \in Requests, ChatStep(r)
    PROVE  /\ \A s \in Requests \ {r} : chats'[s] = chats[s] /\ requests'[s] = requests[s]
           /\ renewal' = renewal
  BY DEF AllowanceInv, RowsTyped, ChatStep, Chat, StartRequest, RefuseDuplicate, CreateCounter,
     ReserveAction, ProduceOutput, Answer, FailRequest, ReleaseAction, RecordFinish, LoseFinish,
     Die

\* Each step of a request keeps its record true to what it holds.
LEMMA RecordStep ==
    ASSUME AllowanceInv, NEW r \in Requests, ChatStep(r), RecordAt(r)
    PROVE  RecordAt(r)'
<1>1. /\ chats[r] \in Chats /\ requests[r] \in RequestRows /\ StepAt(r)
      /\ chats \in [Requests -> Chats] /\ requests \in [Requests -> RequestRows]
  BY DEF AllowanceInv, RowsTyped
<1>2. CASE \E m \in Messages : Chat(r, m)
  <2>1. chats'[r].step = "chat" /\ requests' = requests /\ chats[r].step = "idle"
    BY <1>1, <1>2 DEF Chat, Chats
  <2> QED  BY <2>1 DEF RecordAt
<1>3. CASE StartRequest(r)
  <2>1. chats'[r].step = "counting"  BY <1>1, <1>3 DEF StartRequest, Chats
  <2> QED  BY <2>1 DEF RecordAt
<1>4. CASE RefuseDuplicate(r)
  <2>1. /\ chats'[r].step = "over" /\ chats'[r].holds = chats[r].holds
        /\ requests' = requests /\ chats[r].step = "chat"
    BY <1>1, <1>4 DEF RefuseDuplicate, Chats
  <2>2. ~chats[r].holds /\ ~requests[r].counted  BY <1>1, <2>1 DEF StepAt, RecordAt
  <2> QED  BY <2>1, <2>2 DEF RecordAt
<1>5. CASE CreateCounter(r)
  <2>1. chats'[r].step = "reserving"  BY <1>1, <1>5 DEF CreateCounter, Chats
  <2> QED  BY <2>1 DEF RecordAt
<1>6. CASE ReserveAction(r)
  <2>1. \/ chats'[r].step = "streaming"
        \/ chats'[r].step = "recording" /\ chats'[r].holds = chats[r].holds
    BY <1>1, <1>6 DEF ReserveAction, Chats
  <2>2. ~chats[r].holds  BY <1>1, <1>6 DEF ReserveAction, StepAt
  <2> QED  BY <2>1, <2>2 DEF RecordAt
<1>7. CASE ProduceOutput(r)
  <2>1. chats'[r].step = "streaming"  BY <1>1, <1>7 DEF ProduceOutput, Chats
  <2> QED  BY <2>1 DEF RecordAt
<1>8. CASE Answer(r)
  <2>1. chats'[r].step = "recording" /\ chats'[r].outcome = "SUCCEEDED"
    BY <1>1, <1>8 DEF Answer, Chats
  <2> QED  BY <2>1 DEF RecordAt
<1>9. CASE FailRequest(r)
  <2>1. \/ chats'[r].step = "releasing"
        \/ /\ chats'[r].step = "recording" /\ (~chats[r].holds \/ chats[r].output)
           /\ chats'[r].holds = chats[r].holds /\ chats'[r].output = chats[r].output
    <3>1. CASE chats[r].holds /\ ~chats[r].output
      BY <1>1, <1>9, <3>1 DEF FailRequest, Chats
    <3>2. CASE ~(chats[r].holds /\ ~chats[r].output)
      BY <1>1, <1>9, <3>2 DEF FailRequest, Chats
    <3> QED  BY <3>1, <3>2
  <2> QED  BY <2>1 DEF RecordAt
<1>10. CASE ReleaseAction(r)
  <2>1. chats'[r].step = "recording" /\ ~chats'[r].holds
    BY <1>1, <1>10 DEF ReleaseAction, Chats
  <2> QED  BY <2>1 DEF RecordAt
<1>11. CASE RecordFinish(r)
  <2>1. /\ chats'[r].step = "over" /\ chats'[r].holds = chats[r].holds
        /\ chats[r].step = "recording"
    BY <1>1, <1>11 DEF RecordFinish, Chats
  <2>2. requests'[r].counted = Counted(r)
    BY <1>1, <1>11 DEF RecordFinish
  <2>3. Counted(r) <=> chats[r].holds
    BY <2>1 DEF Counted, RecordAt
  <2> QED  BY <2>1, <2>2, <2>3 DEF RecordAt
<1>12. CASE LoseFinish(r) \/ Die(r)
  <2>1. chats'[r].step \in {"unrecorded", "dead"}  BY <1>1, <1>12 DEF LoseFinish, Die, Chats
  <2> QED  BY <2>1 DEF RecordAt
<1> QED
  BY <1>2, <1>3, <1>4, <1>5, <1>6, <1>7, <1>8, <1>9, <1>10, <1>11, <1>12 DEF ChatStep

\* Each step of a request counts what it comes to hold, and gives back what it held.
LEMMA ExactStep ==
    ASSUME AllowanceInv, NEW r \in Requests, ChatStep(r), NEW w \in Days, ExactAt(w)
    PROVE  ExactAt(w)'
<1>1. /\ chats[r] \in Chats /\ StepAt(r) /\ chats \in [Requests -> Chats]
      /\ used \in [Days -> Int] /\ used[w] \in Int /\ chats[r].window \in Days
  BY DEF AllowanceInv, RowsTyped, Chats
<1>2. /\ \A s \in Requests \ {r} : chats'[s] = chats[s]
      /\ renewal' = renewal
  BY OneRequestMoves
<1>3. CASE /\ ReserveAction(r) /\ used[chats[r].window] < Limit /\ chats[r].window = w
  <2>1. /\ chats'[r].holds /\ chats'[r].window = chats[r].window
        /\ used'[w] = used[w] + 1
    BY <1>1, <1>3 DEF ReserveAction, Chats
  <2>2. ~chats[r].holds  BY <1>1, <1>3 DEF ReserveAction, StepAt
  <2>3. Holders(w)' = Holders(w) \cup {r} /\ r \notin Holders(w)
    BY <1>2, <1>3, <2>1, <2>2 DEF Holders
  <2>4. Cardinality(Holders(w)') = Cardinality(Holders(w)) + 1
    BY <2>3, HoldersFinite, FS_AddElement
  <2> QED  BY <1>2, <2>1, <2>4 DEF ExactAt
<1>4. CASE ReleaseAction(r) /\ chats[r].window = w
  <2>1. /\ ~chats'[r].holds /\ used'[w] = IF used[w] > 0 THEN used[w] - 1 ELSE used[w]
    BY <1>1, <1>4 DEF ReleaseAction, Chats
  <2>2. chats[r].holds  BY <1>1, <1>4 DEF ReleaseAction, StepAt
  <2>3. Holders(w)' = Holders(w) \ {r} /\ r \in Holders(w)
    BY <1>2, <1>4, <2>1, <2>2 DEF Holders
  <2>4. Cardinality(Holders(w)') = Cardinality(Holders(w)) - 1
    BY <2>3, HoldersFinite, FS_RemoveElement
  <2>5. Cardinality(Holders(w)) >= 1
    BY <2>3, HoldersFinite, FS_EmptySet
  <2> QED  BY <1>1, <1>2, <2>1, <2>4, <2>5, HoldersFinite DEF ExactAt
<1>5. CASE /\ ~(ReserveAction(r) /\ used[chats[r].window] < Limit /\ chats[r].window = w)
           /\ ~(ReleaseAction(r) /\ chats[r].window = w)
  <2>1. used'[w] = used[w]
    BY <1>1, <1>5 DEF ChatStep, Chat, StartRequest, RefuseDuplicate, CreateCounter,
       ReserveAction, ProduceOutput, Answer, FailRequest, ReleaseAction, RecordFinish,
       LoseFinish, Die
  <2>2. r \in Holders(w)' <=> r \in Holders(w)
    <3>1. CASE ReserveAction(r)
      <4>1. CASE used[chats[r].window] < Limit
        <5>1. chats'[r].window = chats[r].window  BY <1>1, <3>1, <4>1 DEF ReserveAction, Chats
        <5> QED  BY <1>5, <3>1, <4>1, <5>1 DEF Holders
      <4>2. CASE ~(used[chats[r].window] < Limit)
        <5>1. chats'[r].window = chats[r].window /\ chats'[r].holds = chats[r].holds
          BY <1>1, <3>1, <4>2 DEF ReserveAction, Chats
        <5> QED  BY <5>1 DEF Holders
      <4> QED  BY <4>1, <4>2
    <3>2. CASE ReleaseAction(r)
      <4>1. chats'[r].window = chats[r].window  BY <1>1, <3>2 DEF ReleaseAction, Chats
      <4> QED  BY <1>5, <3>2, <4>1 DEF Holders
    <3>3. CASE \E m \in Messages : Chat(r, m)
      <4>1. ~chats[r].holds /\ chats'[r].holds = chats[r].holds
        BY <1>1, <3>3 DEF Chat, StepAt, Chats
      <4> QED  BY <4>1 DEF Holders
    <3>4. CASE /\ ~ReserveAction(r) /\ ~ReleaseAction(r) /\ ~\E m \in Messages : Chat(r, m)
      <4>1. chats'[r].window = chats[r].window /\ chats'[r].holds = chats[r].holds
        BY <1>1, <3>4 DEF ChatStep, StartRequest, RefuseDuplicate, CreateCounter,
           ProduceOutput, Answer, FailRequest, RecordFinish, LoseFinish, Die, Chats
      <4> QED  BY <4>1 DEF Holders
    <3> QED  BY <3>1, <3>2, <3>3, <3>4
  <2>3. Holders(w)' = Holders(w)
    BY <1>2, <2>2 DEF Holders
  <2> QED  BY <1>2, <2>1, <2>3 DEF ExactAt
<1> QED  BY <1>3, <1>4, <1>5

\* A step that leaves what the requests hold alone keeps the counters exact, unless it lowers one.
LEMMA MatchKept ==
    ASSUME MatchInv, UNCHANGED <<requests, chats>>,
           renewal'.lowered = {} => renewal.lowered = {} /\ used' = used,
           MoveApart'
    PROVE  MoveApart' /\ (\A w \in Days : ExactAt(w)') /\ (\A r \in Requests : RecordAt(r)')
<1>1. \A w \in Days : ExactAt(w)'
  <2> TAKE w \in Days
  <2>1. Holders(w)' = Holders(w) /\ ExactAt(w)  BY DEF Holders, MatchInv
  <2> QED  BY <2>1 DEF ExactAt
<1>2. \A r \in Requests : RecordAt(r)'  BY DEF MatchInv, RecordAt
<1> QED  BY <1>1, <1>2

\* A late payment moves between two windows.
LEMMA RenewApart ==
    ASSUME AllowanceInv, Renew
    PROVE  MoveApart' /\ renewal'.lowered = renewal.lowered
<1> DEFINE next == RenewedPeriodEnd(periodEnd, now)
           moves == LateRenewalUsageCarryOver(periodEnd, next, now)
           one == CHOOSE m \in moves : TRUE
           move == IF moves = {} THEN NoMove
                   ELSE [step |-> "paid", from |-> one.from, to |-> one.to,
                         locked |-> {}, amount |-> 0]
<1>1. renewal' = [renewal EXCEPT !.move = move, !.paid = @ + 1]  BY DEF Renew
<1>2. \A m \in moves : m.from # m.to  BY DEF LateRenewalUsageCarryOver
<1> HIDE DEF moves
<1>3. moves # {} => one \in moves  OBVIOUS
<1>4. move # NoMove => move.from # move.to  BY <1>2, <1>3
<1> HIDE DEF move
<1>5. renewal'.move = move /\ renewal'.lowered = renewal.lowered
  BY <1>1 DEF AllowanceInv, RowsTyped
<1> QED  BY <1>4, <1>5 DEF MoveApart

\* A move that moves something lowers the counter it takes from.
LEMMA MoveLowers ==
    ASSUME AllowanceInv, MoveApart, MoveUsage, renewal'.lowered = {}
    PROVE  renewal.lowered = {} /\ used' = used
<1> DEFINE from == renewal.move.from
           to == renewal.move.to
           amount == renewal.move.amount
           low == {w \in Days : used'[w] < used[w]}
<1>1. /\ renewal \in [move : Moves, paid : Nat, lowered : SUBSET Days]
      /\ renewal.move \in Moves /\ renewal.move.step = "read" /\ used \in [Days -> Int]
  BY DEF AllowanceInv, RowsTyped, MoveUsage
<1>2. from \in Days /\ to \in Days /\ amount \in Int /\ renewal.move # NoMove
  BY <1>1 DEF Moves, NoMove
<1>3. from # to  BY <1>2 DEF MoveApart
<1>4. CASE amount = 0  BY <1>1, <1>4 DEF MoveUsage
<1>5. CASE amount # 0
  <2>1. /\ used' = [used EXCEPT ![from] = used[from] - amount, ![to] = used[to] + amount]
        /\ renewal' = [renewal EXCEPT !.move = NoMove, !.lowered = @ \cup low]
    BY <1>5 DEF MoveUsage
  <2>2. used'[from] = used[from] - amount /\ used'[to] = used[to] + amount
    BY <1>1, <1>2, <1>3, <2>1
  <2>3. used[from] \in Int /\ used[to] \in Int  BY <1>1, <1>2
  <2>4. from \in low \/ to \in low  BY <1>2, <1>5, <2>2, <2>3
  <2>5. renewal'.lowered = renewal.lowered \cup low  BY <1>1, <2>1
  <2> QED  BY <2>4, <2>5
<1> QED  BY <1>4, <1>5

LEMMA MatchInductive == MatchInv /\ [AllowanceNext]_allowanceVars => MatchInv'
<1> SUFFICES ASSUME MatchInv, [AllowanceNext]_allowanceVars PROVE MatchInv'
  OBVIOUS
<1>0. AllowanceInv /\ MoveApart /\ AllowanceInv'
      /\ renewal \in [move : Moves, paid : Nat, lowered : SUBSET Days]
  BY AllowanceInductive DEF MatchInv, AllowanceInv, RowsTyped
<1> DEFINE Rest == /\ MoveApart' /\ (\A w \in Days : ExactAt(w)')
                   /\ (\A r \in Requests : RecordAt(r)')
<1>1. ASSUME NEW r \in Requests, ChatStep(r) PROVE Rest
  <2>1. /\ \A s \in Requests \ {r} : chats'[s] = chats[s] /\ requests'[s] = requests[s]
        /\ renewal' = renewal
    BY <1>0, <1>1, OneRequestMoves
  <2>2. MoveApart'  BY <1>0, <2>1 DEF MoveApart
  <2>3. ASSUME NEW w \in Days PROVE ExactAt(w)'
    <3>1. ExactAt(w)  BY DEF MatchInv
    <3> QED  BY <1>0, <1>1, <3>1, ExactStep
  <2>4. ASSUME NEW s \in Requests PROVE RecordAt(s)'
    <3>1. RecordAt(s)  BY DEF MatchInv
    <3>2. CASE s = r  BY <1>0, <1>1, <3>1, <3>2, RecordStep
    <3>3. CASE s # r  BY <2>1, <3>1, <3>3 DEF RecordAt
    <3> QED  BY <3>2, <3>3
  <2> QED  BY <2>2, <2>3, <2>4
<1>2. ASSUME Renew PROVE Rest
  <2>1. MoveApart' /\ renewal'.lowered = renewal.lowered  BY <1>0, <1>2, RenewApart
  <2>2. UNCHANGED <<used, requests, chats>>  BY <1>2 DEF Renew
  <2> QED  BY <2>1, <2>2, MatchKept
<1>3. ASSUME LockCounters \/ ReadSource PROVE Rest
  <2>1. /\ renewal.move \in Moves /\ renewal.move # NoMove
        /\ UNCHANGED <<used, requests, chats>>
    BY <1>0, <1>3 DEF LockCounters, ReadSource, NoMove
  <2>2. renewal.move \in [step : {"paid", "locked", "read"}, from : Days, to : Days,
                           locked : SUBSET Days, amount : Int]
    BY <2>1 DEF Moves
  <2>3. /\ renewal'.move.from = renewal.move.from /\ renewal'.move.to = renewal.move.to
        /\ renewal'.lowered = renewal.lowered
    <3>1. CASE LockCounters  BY <1>0, <2>2, <3>1 DEF LockCounters
    <3>2. CASE ReadSource  BY <1>0, <2>2, <3>2 DEF ReadSource
    <3> QED  BY <1>3, <3>1, <3>2
  <2>4. MoveApart'  BY <1>0, <2>1, <2>3 DEF MoveApart
  <2> QED  BY <2>1, <2>3, <2>4, MatchKept
<1>4. ASSUME MoveUsage PROVE Rest
  <2>1. renewal'.move = NoMove  BY <1>0, <1>4 DEF MoveUsage
  <2>2. MoveApart'  BY <2>1 DEF MoveApart
  <2>3. UNCHANGED <<requests, chats>>  BY <1>4 DEF MoveUsage
  <2> QED  BY <1>0, <1>4, <2>2, <2>3, MoveLowers, MatchKept
<1>5. ASSUME LoseMove PROVE Rest
  <2>1. renewal'.move = NoMove /\ renewal'.lowered = renewal.lowered
        /\ UNCHANGED <<used, requests, chats>>
    BY <1>0, <1>5 DEF LoseMove
  <2>2. MoveApart'  BY <2>1 DEF MoveApart
  <2> QED  BY <2>1, <2>2, MatchKept
<1>6. ASSUME Tick \/ UNCHANGED allowanceVars PROVE Rest
  <2>1. UNCHANGED <<used, requests, chats, renewal>>  BY <1>6 DEF Tick, allowanceVars
  <2>2. MoveApart'  BY <1>0, <2>1 DEF MoveApart
  <2> QED  BY <2>1, <2>2, MatchKept
<1>7. Rest
  BY <1>1, <1>2, <1>3, <1>4, <1>5, <1>6 DEF AllowanceNext, RenewalStep
<1> QED  BY <1>0, <1>7 DEF MatchInv

LEMMA InitMatches == AllowanceInit => MatchInv
<1> SUFFICES ASSUME AllowanceInit PROVE MatchInv  OBVIOUS
<1>1. AllowanceInv  BY InitHoldsInv
<1>2. MoveApart  BY DEF AllowanceInit, MoveApart
<1>3. ASSUME NEW w \in Days PROVE ExactAt(w)
  <2>1. Holders(w) = {}  BY DEF AllowanceInit, Holders
  <2>2. Cardinality(Holders(w)) = 0  BY <2>1, FS_EmptySet
  <2> QED  BY <2>2 DEF AllowanceInit, ExactAt
<1>4. \A r \in Requests : RecordAt(r)  BY DEF AllowanceInit, RecordAt, NoRequestRow
<1> QED  BY <1>1, <1>2, <1>3, <1>4 DEF MatchInv

\* When every request has recorded its end, a counter says what the requests say, as long as no
\* late payment has moved it.
THEOREM CountersMatch == AllowanceSpec => []CountersMatchRequests
<1>1. MatchInv => CountersMatchRequests
  <2> SUFFICES ASSUME MatchInv, renewal.lowered = {},
                      \A r \in Requests : chats[r].step \in {"idle", "over"},
                      NEW w \in Days
               PROVE  used[w] = Cardinality({r \in Requests :
                                               requests[r].counted /\ chats[r].window = w})
    BY DEF CountersMatchRequests
  <2>1. ASSUME NEW r \in Requests PROVE requests[r].counted <=> chats[r].holds
    <3>1. /\ StepAt(r) /\ RecordAt(r) /\ chats[r].step \in {"idle", "over"}
          /\ chats[r] \in Chats /\ requests[r] \in RequestRows
      BY DEF MatchInv, AllowanceInv, RowsTyped
    <3>2. CASE chats[r].step = "idle"
      <4>1. ~requests[r].counted  BY <3>1, <3>2 DEF RecordAt
      <4>2. ~chats[r].holds  BY <3>1, <3>2 DEF StepAt
      <4> QED  BY <4>1, <4>2
    <3>3. CASE chats[r].step = "over"  BY <3>1, <3>3 DEF RecordAt
    <3> QED  BY <3>1, <3>2, <3>3
  <2>2. {r \in Requests : requests[r].counted /\ chats[r].window = w} = Holders(w)
    BY <2>1 DEF Holders
  <2>3. ExactAt(w)  BY DEF MatchInv
  <2> QED  BY <2>2, <2>3 DEF ExactAt
<1>2. QED  BY <1>1, InitMatches, MatchInductive, PTL DEF AllowanceSpec

-----------------------------------------------------------------------------
(* Every action that is held is counted.                                    *)

\* The pairs of a day and a number up to what f says of the day.
CellsOf(f) == {c \in Days \X (Nat \ {0}) : c[2] <= f[c[1]]}

Negated(f) == [w \in Days |-> -f[w]]

Positive(n) == IF n > 0 THEN n ELSE 0

FiniteCells(f) == IsFiniteSet(CellsOf(f)) /\ IsFiniteSet(CellsOf(Negated(f)))

Net(f) == Cardinality(CellsOf(f)) - Cardinality(CellsOf(Negated(f)))

\* The cells of one day are as many as f says.
LEMMA OwnCells ==
    ASSUME NEW w, NEW n \in Int
    PROVE  IsFiniteSet({w} \X (1..n)) /\ Cardinality({w} \X (1..n)) = Positive(n)
<1>1. IsFiniteSet({w}) /\ Cardinality({w}) = 1  BY FS_Singleton
<1>2. IsFiniteSet(1..n) /\ Cardinality(1..n) = IF 1 > n THEN 0 ELSE n - 1 + 1  BY FS_Interval
<1>3. Cardinality(1..n) = Positive(n)  BY <1>2 DEF Positive
<1>4. /\ IsFiniteSet({w} \X (1..n))
      /\ Cardinality({w} \X (1..n)) = Cardinality({w}) * Cardinality(1..n)
  BY <1>1, <1>2, FS_Product
<1> QED  BY <1>1, <1>3, <1>4 DEF Positive

\* The change of one day changes the cells of that day.
LEMMA CellUpdate ==
    ASSUME NEW f \in [Days -> Int], IsFiniteSet(CellsOf(f)), NEW w \in Days, NEW n \in Int,
           NEW g, g = [f EXCEPT ![w] = n]
    PROVE  /\ IsFiniteSet(CellsOf(g))
           /\ Cardinality(CellsOf(g)) = Cardinality(CellsOf(f)) - Positive(f[w]) + Positive(n)
<1> DEFINE Rest == {c \in CellsOf(f) : c[1] # w}
           Own(i) == {w} \X (1..i)
<1>1. f[w] \in Int /\ g[w] = n /\ \A x \in Days \ {w} : g[x] = f[x]  OBVIOUS
<1>2. CellsOf(f) = Rest \cup Own(f[w])
  <2>1. ASSUME NEW c \in CellsOf(f), c[1] = w PROVE c \in Own(f[w])
    <3>1. c \in Days \X (Nat \ {0}) /\ c[2] <= f[w]  BY <2>1 DEF CellsOf
    <3> QED  BY <1>1, <2>1, <3>1
  <2>2. ASSUME NEW c \in Own(f[w]) PROVE c \in CellsOf(f)
    <3>1. c[1] = w /\ c[2] \in 1..f[w] /\ c = <<w, c[2]>>  BY <2>2
    <3>2. c \in Days \X (Nat \ {0}) /\ c[2] <= f[c[1]]  BY <1>1, <3>1
    <3> QED  BY <3>2 DEF CellsOf
  <2> QED  BY <2>1, <2>2
<1>3. CellsOf(g) = Rest \cup Own(n)
  <2>1. ASSUME NEW c \in CellsOf(g), c[1] = w PROVE c \in Own(n)
    <3>1. c \in Days \X (Nat \ {0}) /\ c[2] <= n  BY <1>1, <2>1 DEF CellsOf
    <3> QED  BY <1>1, <2>1, <3>1
  <2>2. ASSUME NEW c \in Own(n) PROVE c \in CellsOf(g)
    <3>1. c[1] = w /\ c[2] \in 1..n /\ c = <<w, c[2]>>  BY <2>2
    <3>2. c \in Days \X (Nat \ {0}) /\ c[2] <= g[c[1]]  BY <1>1, <3>1
    <3> QED  BY <3>2 DEF CellsOf
  <2>3. ASSUME NEW c, c[1] # w PROVE c \in CellsOf(g) <=> c \in CellsOf(f)
    <3>1. CASE c \in Days \X (Nat \ {0})
      <4>1. g[c[1]] = f[c[1]]  BY <1>1, <2>3, <3>1
      <4> QED  BY <4>1 DEF CellsOf
    <3>2. CASE c \notin Days \X (Nat \ {0})  BY <3>2 DEF CellsOf
    <3> QED  BY <3>1, <3>2
  <2> QED  BY <2>1, <2>2, <2>3
<1>4. \A i \in Int : Rest \cap Own(i) = {}  OBVIOUS
<1>5. IsFiniteSet(Rest)
  <2>1. Rest \subseteq CellsOf(f)  OBVIOUS
  <2> QED  BY <2>1, FS_Subset
<1>6. \A i \in Int : IsFiniteSet(Own(i)) /\ Cardinality(Own(i)) = Positive(i)  BY OwnCells
<1> HIDE DEF Rest, Own
<1>7. \A i \in Int : /\ IsFiniteSet(Rest \cup Own(i))
                     /\ Cardinality(Rest \cup Own(i)) = Cardinality(Rest) + Positive(i)
  <2> TAKE i \in Int
  <2>1. /\ IsFiniteSet(Rest \cup Own(i))
        /\ Cardinality(Rest \cup Own(i)) =
              Cardinality(Rest) + Cardinality(Own(i)) - Cardinality(Rest \cap Own(i))
    BY <1>5, <1>6, FS_Union
  <2>2. Cardinality(Rest \cap Own(i)) = 0  BY <1>4, FS_EmptySet
  <2>3. Cardinality(Rest) \in Nat /\ Positive(i) \in Nat  BY <1>5, FS_CardinalityType DEF Positive
  <2> QED  BY <1>6, <2>1, <2>2, <2>3
<1>8. Cardinality(Rest) \in Nat /\ Positive(f[w]) \in Nat /\ Positive(n) \in Nat
  BY <1>1, <1>5, FS_CardinalityType DEF Positive
<1>9. /\ IsFiniteSet(CellsOf(g)) /\ Cardinality(CellsOf(g)) = Cardinality(Rest) + Positive(n)
      /\ Cardinality(CellsOf(f)) = Cardinality(Rest) + Positive(f[w])
  BY <1>1, <1>2, <1>3, <1>7
<1> QED  BY <1>8, <1>9

\* The change of one counter changes the sum by as much.
LEMMA NetUpdate ==
    ASSUME NEW f \in [Days -> Int], FiniteCells(f), NEW w \in Days, NEW n \in Int,
           NEW g, g = [f EXCEPT ![w] = n]
    PROVE  FiniteCells(g) /\ Net(f) \in Int /\ Net(g) = Net(f) + n - f[w]
<1>1. f[w] \in Int /\ -n \in Int /\ g \in [Days -> Int] /\ Negated(f)[w] = -f[w]
  BY DEF Negated
<1>2. /\ IsFiniteSet(CellsOf(g))
      /\ Cardinality(CellsOf(g)) = Cardinality(CellsOf(f)) - Positive(f[w]) + Positive(n)
  BY CellUpdate DEF FiniteCells
<1>3. PICK h : h = Negated(f)  OBVIOUS
<1>4. PICK k : k = Negated(g)  OBVIOUS
<1>5. /\ IsFiniteSet(CellsOf(k))
      /\ Cardinality(CellsOf(k)) = Cardinality(CellsOf(h)) - Positive(h[w]) + Positive(-n)
  <2>1. h \in [Days -> Int] /\ IsFiniteSet(CellsOf(h))  BY <1>3 DEF Negated, FiniteCells
  <2>2. k = [h EXCEPT ![w] = -n]
    <3>1. k = [x \in Days |-> IF x = w THEN -n ELSE h[x]]
      BY <1>1, <1>3, <1>4 DEF Negated
    <3> QED  BY <2>1, <3>1
  <2>3. PICK m \in Int : m = -n  BY <1>1
  <2>4. k = [h EXCEPT ![w] = m]  BY <2>2, <2>3
  <2>5. /\ IsFiniteSet(CellsOf(k))
        /\ Cardinality(CellsOf(k)) = Cardinality(CellsOf(h)) - Positive(h[w]) + Positive(m)
    BY <2>1, <2>4, CellUpdate
  <2> QED  BY <2>3, <2>5
<1>6. /\ Positive(n) - Positive(-n) = n /\ Positive(f[w]) - Positive(-f[w]) = f[w]
      /\ Positive(n) \in Nat /\ Positive(-n) \in Nat
      /\ Positive(f[w]) \in Nat /\ Positive(-f[w]) \in Nat
  BY <1>1 DEF Positive
<1>7. Cardinality(CellsOf(f)) \in Nat /\ Cardinality(CellsOf(h)) \in Nat
  BY <1>3, FS_CardinalityType DEF FiniteCells
<1> QED  BY <1>1, <1>2, <1>3, <1>4, <1>5, <1>6, <1>7 DEF FiniteCells, Net

\* What the property counts is the cells of the counters.
LEMMA CountedCells ==
    ASSUME used \in [Days -> Int]
    PROVE  CountedActions = CellsOf(used) /\ MissingActions = CellsOf(Negated(used))
<1>1. CountedActions = CellsOf(used)
  <2>1. ASSUME NEW c \in CountedActions PROVE c \in CellsOf(used)
    <3>1. PICK w \in Days : used[w] > 0 /\ c \in {w} \X (1..used[w])
      BY <2>1 DEF CountedActions
    <3>2. c = <<w, c[2]>> /\ c[2] \in 1..used[w] /\ used[w] \in Int  BY <3>1
    <3> QED  BY <3>1, <3>2 DEF CellsOf
  <2>2. ASSUME NEW c \in CellsOf(used) PROVE c \in CountedActions
    <3>1. /\ c \in Days \X (Nat \ {0}) /\ c[2] <= used[c[1]] /\ used[c[1]] \in Int
      BY <2>2 DEF CellsOf
    <3>2. c[1] \in Days /\ used[c[1]] > 0 /\ c \in {c[1]} \X (1..used[c[1]])  BY <3>1
    <3> QED  BY <3>2 DEF CountedActions
  <2> QED  BY <2>1, <2>2
<1>2. MissingActions = CellsOf(Negated(used))
  <2>1. ASSUME NEW c \in MissingActions PROVE c \in CellsOf(Negated(used))
    <3>1. PICK w \in Days : used[w] < 0 /\ c \in {w} \X (1..(-used[w]))
      BY <2>1 DEF MissingActions
    <3>2. /\ c = <<w, c[2]>> /\ c[2] \in 1..(-used[w]) /\ used[w] \in Int
          /\ Negated(used)[w] = -used[w]
      BY <3>1 DEF Negated
    <3> QED  BY <3>1, <3>2 DEF CellsOf
  <2>2. ASSUME NEW c \in CellsOf(Negated(used)) PROVE c \in MissingActions
    <3>1. /\ c \in Days \X (Nat \ {0}) /\ c[2] <= -used[c[1]] /\ used[c[1]] \in Int
      BY <2>2 DEF CellsOf, Negated
    <3>2. c[1] \in Days /\ used[c[1]] < 0 /\ c \in {c[1]} \X (1..(-used[c[1]]))  BY <3>1
    <3> QED  BY <3>2 DEF MissingActions
  <2> QED  BY <2>1, <2>2
<1> QED  BY <1>1, <1>2

Held == {r \in Requests : chats[r].holds}

SumInv ==
    /\ MatchInv /\ FiniteCells(used)
    /\ Net(used) >= Cardinality(Held)

LEMMA HeldFinite == IsFiniteSet(Held) /\ Cardinality(Held) \in Nat
<1>1. Held \subseteq Requests  BY DEF Held
<1>2. IsFiniteSet(Held)  BY <1>1, FS_Subset, AllowanceAssumption DEF AllowanceAssumption
<1> QED  BY <1>2, FS_CardinalityType

\* The sum goes up by one for what a request comes to hold, and down by one at most for what it
\* gives back.
LEMMA SumOfChat ==
    ASSUME SumInv, NEW r \in Requests, ChatStep(r)
    PROVE  FiniteCells(used') /\ Net(used') >= Cardinality(Held')
<1>1. /\ AllowanceInv /\ chats[r] \in Chats /\ StepAt(r) /\ chats \in [Requests -> Chats]
      /\ used \in [Days -> Int] /\ chats[r].window \in Days
  BY DEF SumInv, MatchInv, AllowanceInv, RowsTyped, Chats
<1>2. \A s \in Requests \ {r} : chats'[s] = chats[s]  BY <1>1, OneRequestMoves
<1>3. PICK w \in Days : w = chats[r].window  BY <1>1
<1>4. used[w] \in Int /\ FiniteCells(used) /\ Net(used) >= Cardinality(Held)  BY <1>1 DEF SumInv
<1>5. CASE ReserveAction(r) /\ used[w] < Limit
  <2>1. PICK n \in Int : n = used[w] + 1  BY <1>4
  <2>2. used' = [used EXCEPT ![w] = n] /\ chats'[r].holds
    BY <1>1, <1>3, <1>5, <2>1 DEF ReserveAction, Chats
  <2>3. FiniteCells(used') /\ Net(used) \in Int /\ Net(used') = Net(used) + n - used[w]
    BY <1>1, <1>4, <2>2, NetUpdate
  <2>4. ~chats[r].holds  BY <1>1, <1>5 DEF ReserveAction, StepAt
  <2>5. Held' = Held \cup {r} /\ r \notin Held  BY <1>2, <2>2, <2>4 DEF Held
  <2>6. Cardinality(Held') = Cardinality(Held) + 1  BY <2>5, HeldFinite, FS_AddElement
  <2> QED  BY <1>4, <2>1, <2>3, <2>6, HeldFinite
<1>6. CASE ReleaseAction(r)
  <2>1. PICK n \in Int : n = IF used[w] > 0 THEN used[w] - 1 ELSE used[w]  BY <1>4
  <2>2. used' = [used EXCEPT ![w] = n] /\ ~chats'[r].holds
    BY <1>1, <1>3, <1>6, <2>1 DEF ReleaseAction, Chats
  <2>3. FiniteCells(used') /\ Net(used) \in Int /\ Net(used') = Net(used) + n - used[w]
    BY <1>1, <1>4, <2>2, NetUpdate
  <2>4. chats[r].holds  BY <1>1, <1>6 DEF ReleaseAction, StepAt
  <2>5. Held' = Held \ {r} /\ r \in Held  BY <1>2, <2>2, <2>4 DEF Held
  <2>6. Cardinality(Held') = Cardinality(Held) - 1  BY <2>5, HeldFinite, FS_RemoveElement
  <2> QED  BY <1>4, <2>1, <2>3, <2>6, HeldFinite
<1>7. CASE ~(ReserveAction(r) /\ used[w] < Limit) /\ ~ReleaseAction(r)
  <2>1. used' = used
    BY <1>3, <1>7 DEF ChatStep, Chat, StartRequest, RefuseDuplicate, CreateCounter,
       ReserveAction, ProduceOutput, Answer, FailRequest, ReleaseAction, RecordFinish,
       LoseFinish, Die
  <2>2. chats'[r].holds = chats[r].holds
    <3>1. CASE ReserveAction(r)
      BY <1>1, <1>3, <1>7, <3>1 DEF ReserveAction, Chats
    <3>2. CASE \E m \in Messages : Chat(r, m)
      BY <1>1, <3>2 DEF Chat, Chats
    <3>3. CASE ~ReserveAction(r) /\ ~\E m \in Messages : Chat(r, m)
      BY <1>1, <1>7, <3>3 DEF ChatStep, StartRequest, RefuseDuplicate, CreateCounter,
         ProduceOutput, Answer, FailRequest, RecordFinish, LoseFinish, Die, Chats
    <3> QED  BY <3>1, <3>2, <3>3
  <2>3. Held' = Held  BY <1>2, <2>2 DEF Held
  <2> QED  BY <1>4, <2>1, <2>3
<1> QED  BY <1>5, <1>6, <1>7

\* A move takes from one window what it adds to another.
LEMMA SumOfMove ==
    ASSUME SumInv, MoveUsage
    PROVE  FiniteCells(used') /\ Net(used') = Net(used)
<1> DEFINE from == renewal.move.from
           to == renewal.move.to
           amount == renewal.move.amount
<1>1. /\ renewal \in [move : Moves, paid : Nat, lowered : SUBSET Days]
      /\ renewal.move \in Moves /\ renewal.move.step = "read" /\ used \in [Days -> Int]
      /\ FiniteCells(used)
  BY DEF SumInv, MatchInv, AllowanceInv, RowsTyped, MoveUsage
<1>2. from \in Days /\ to \in Days /\ amount \in Int /\ renewal.move # NoMove
  BY <1>1 DEF Moves, NoMove
<1>3. from # to  BY <1>2 DEF SumInv, MatchInv, MoveApart
<1>4. CASE amount = 0  BY <1>1, <1>4 DEF MoveUsage
<1>5. CASE amount # 0
  <2>1. used' = [used EXCEPT ![from] = used[from] - amount, ![to] = used[to] + amount]
    BY <1>5 DEF MoveUsage
  <2> HIDE DEF from, to, amount
  <2>2. PICK n \in Int : n = used[from] - amount  BY <1>1, <1>2
  <2>3. PICK m \in Int : m = used[to] + amount  BY <1>1, <1>2
  <2>4. PICK taken : taken = [used EXCEPT ![from] = n]  OBVIOUS
  <2>5. FiniteCells(taken) /\ Net(used) \in Int /\ Net(taken) = Net(used) + n - used[from]
    BY <1>1, <1>2, <2>4, NetUpdate
  <2>6. taken \in [Days -> Int] /\ taken[to] = used[to] /\ used' = [taken EXCEPT ![to] = m]
    BY <1>1, <1>2, <1>3, <2>1, <2>2, <2>3, <2>4
  <2>7. FiniteCells(used') /\ Net(taken) \in Int /\ Net(used') = Net(taken) + m - taken[to]
    BY <1>2, <2>5, <2>6, NetUpdate
  <2>8. used[from] \in Int /\ used[to] \in Int  BY <1>1, <1>2
  <2> QED  BY <1>2, <2>2, <2>3, <2>5, <2>6, <2>7, <2>8
<1> QED  BY <1>4, <1>5

LEMMA SumInductive == SumInv /\ [AllowanceNext]_allowanceVars => SumInv'
<1> SUFFICES ASSUME SumInv, [AllowanceNext]_allowanceVars PROVE SumInv'
  OBVIOUS
<1> DEFINE Summed == FiniteCells(used') /\ Net(used') >= Cardinality(Held')
<1>1. MatchInv'  BY MatchInductive DEF SumInv
<1>2. ASSUME NEW r \in Requests, ChatStep(r) PROVE Summed
  BY <1>2, SumOfChat
<1>3. ASSUME MoveUsage PROVE Summed
  <2>1. Held' = Held  BY <1>3 DEF MoveUsage, Held
  <2> QED  BY <1>3, <2>1, SumOfMove DEF SumInv
<1>4. ASSUME UNCHANGED <<used, chats>> PROVE Summed
  <2>1. Held' = Held  BY <1>4 DEF Held
  <2> QED  BY <1>4, <2>1 DEF SumInv
<1>5. Summed
  BY <1>2, <1>3, <1>4 DEF AllowanceNext, RenewalStep, Renew, LockCounters, ReadSource, LoseMove,
     Tick, allowanceVars
<1> QED  BY <1>1, <1>5 DEF SumInv

LEMMA InitSum == AllowanceInit => SumInv
<1> SUFFICES ASSUME AllowanceInit PROVE SumInv  OBVIOUS
<1>1. \A w \in Days : used[w] = 0 /\ Negated(used)[w] = -used[w]
  BY DEF AllowanceInit, Negated
<1>2. CellsOf(used) = {} /\ CellsOf(Negated(used)) = {}
  <2>1. \A w \in Days : Negated(used)[w] = 0  BY <1>1
  <2> QED  BY <1>1, <2>1 DEF CellsOf
<1>3. Held = {}  BY DEF AllowanceInit, Held
<1>4. FiniteCells(used) /\ Net(used) = 0 /\ Cardinality(Held) = 0
  BY <1>2, <1>3, FS_EmptySet DEF FiniteCells, Net
<1> QED  BY <1>4, InitMatches DEF SumInv

\* Every action a request holds is counted in some window, whatever is reserved, given back and
\* moved at a time (reserveAction, releaseAction, carryOverAiUsage).
THEOREM HeldCounted == AllowanceSpec => []HeldActionsAreCounted
<1>1. SumInv => HeldActionsAreCounted
  <2> SUFFICES ASSUME SumInv PROVE HeldActionsAreCounted  OBVIOUS
  <2>1. CountedActions = CellsOf(used) /\ MissingActions = CellsOf(Negated(used))
    BY CountedCells DEF SumInv, MatchInv, AllowanceInv, RowsTyped
  <2> QED  BY <2>1 DEF SumInv, Net, Held, HeldActionsAreCounted
<1> QED  BY <1>1, InitSum, SumInductive, PTL DEF AllowanceSpec

-----------------------------------------------------------------------------
(* The conversation: cards, rows and confirmations. *)

TurnRows ==
    [kind : {"NONE", "MESSAGE", "APPROVAL"},
     step : {"idle", "creating", "starting", "finding", "confirming", "continuing", "loading",
             "replying", "saving", "cleaning", "over"},
     existing : BOOLEAN, action : Requests \cup {NoRequest}, confirmations : Nat,
     blocked : BOOLEAN, reply : Requests \cup {NoRequest}, position : Nat,
     asking : SUBSET Proposals, proposed : SUBSET Proposals]

ReplyRows == [by : Requests, position : Nat, asking : SUBSET Proposals]

TurnsTyped ==
    /\ chats \in [Requests -> Chats] /\ turns \in [Requests -> TurnRows]
    /\ tools \in [Requests -> Decisions] /\ executions \in [Proposals -> Executions]
    /\ replies \in Seq(ReplyRows) /\ conversation \in BOOLEAN

\* The proposals that have a row.
Rows == {p \in Proposals : executions[p].status # "NONE"}

Newest(i) ==
    \A j \in DOMAIN replies :
        \/ replies[j].position < replies[i].position
        \/ replies[j].position = replies[i].position /\ j <= i

HistoryHasNewest == replies # <<>> => \E i \in DOMAIN replies : Newest(i)

\* The request keeps the action it reserved.
Settled(chat) == chat.holds /\ chat.step \in {"recording", "over", "unrecorded", "dead"}
Paid(turn, chat) == turn.kind = "APPROVAL" \/ (turn.kind = "MESSAGE" /\ Settled(chat))

Vouched(a) == a # NoRequest => Paid(turns[a], chats[a])

\* What is known of the three rows of a request.
RowsFit(turn, chat, decisions) ==
    /\ turn.kind = "NONE" => turn.step = "idle"
    /\ turn.kind = "NONE" <=> chat.step = "idle"
    /\ decisions.approved # {} => turn.kind = "APPROVAL"
    /\ turn.step = "continuing" => turn.kind = "APPROVAL"
    /\ turn.kind = "MESSAGE" /\ chat.step = "streaming" => chat.holds
    /\ turn.proposed # {} => Paid(turn, chat)

Fit(r) == RowsFit(turns[r], chats[r], tools[r]) /\ Vouched(turns[r].action)
          /\ turns[r].asking \subseteq Rows

TurnsInv ==
    /\ TurnsTyped /\ HistoryHasNewest
    /\ \A i \in DOMAIN replies : replies[i].asking \subseteq Rows
    /\ \A r \in Requests : Fit(r)
    /\ \A p \in Proposals : Vouched(executions[p].request)

-----------------------------------------------------------------------------

LEMMA InitTurns == ConversationInit => TurnsInv
<1> SUFFICES ASSUME ConversationInit PROVE TurnsInv  OBVIOUS
<1> USE DEF ConversationInit, AllowanceInit
<1>1. chats \in [Requests -> Chats]
  BY AllowanceAssumption DEF AllowanceAssumption, Chats
<1>2. /\ turns \in [Requests -> TurnRows] /\ tools \in [Requests -> Decisions]
      /\ executions \in [Proposals -> Executions]
  BY DEF TurnRows, NewTurn, Decisions, NoDecisions, Executions
<1>3. replies = <<>> /\ replies \in Seq(ReplyRows)  OBVIOUS
<1>4. conversation \in BOOLEAN  BY Zenon
<1>5. \A p \in Proposals : Vouched(executions[p].request)  BY DEF Vouched
<1>6. \A r \in Requests : Fit(r)
  BY DEF Fit, RowsFit, Vouched, NewTurn, NoDecisions
<1> HIDE DEF ConversationInit, AllowanceInit
<1>7. TurnsTyped  BY <1>1, <1>2, <1>3, <1>4 DEF TurnsTyped
<1>8. QED  BY <1>3, <1>5, <1>6, <1>7 DEF TurnsInv, HistoryHasNewest

\* A request writes its own rows.
LEMMA OwnRows ==
    ASSUME TurnsInv, NEW r \in Requests,
           NEW turn \in TurnRows, NEW chat \in Chats, NEW decisions \in Decisions,
           turns' = [turns EXCEPT ![r] = turn], chats' = [chats EXCEPT ![r] = chat],
           tools' = [tools EXCEPT ![r] = decisions], UNCHANGED <<replies, executions>>,
           conversation' \in BOOLEAN, Paid(turns[r], chats[r]) => Paid(turn, chat),
           RowsFit(turn, chat, decisions), Vouched(turn.action), turn.asking \subseteq Rows
    PROVE  TurnsInv'
<1>1. /\ turns'[r] = turn /\ chats'[r] = chat /\ tools'[r] = decisions
      /\ \A s \in Requests \ {r} :
            turns'[s] = turns[s] /\ chats'[s] = chats[s] /\ tools'[s] = tools[s]
  BY DEF TurnsInv, TurnsTyped
<1>2. TurnsTyped'  BY DEF TurnsInv, TurnsTyped
<1>3. Rows' = Rows  BY DEF Rows
<1>4. \A a \in Requests \cup {NoRequest} : Vouched(a) => Vouched(a)'
  BY <1>1 DEF Vouched
<1>5. ASSUME NEW s \in Requests PROVE Fit(s)'
  <2>1. turns'[s].action \in Requests \cup {NoRequest} /\ Vouched(turns'[s].action)
    BY <1>1, <1>2 DEF TurnsTyped, TurnRows, TurnsInv, Fit
  <2>2. Vouched(turns[s].action)'  BY <1>4, <2>1 DEF Vouched
  <2>3. QED  BY <1>1, <1>3, <2>2 DEF Fit, TurnsInv
<1>6. \A p \in Proposals : Vouched(executions[p].request)'
  <2> TAKE p \in Proposals
  <2>1. executions[p].request \in Requests \cup {NoRequest} /\ Vouched(executions[p].request)
    BY DEF TurnsInv, TurnsTyped, Executions
  <2>2. QED  BY <1>4, <2>1 DEF Vouched
<1>7. QED  BY <1>2, <1>3, <1>5, <1>6 DEF TurnsInv, HistoryHasNewest, Newest

\* The same, for a step that leaves the decisions alone.
LEMMA OwnTurn ==
    ASSUME TurnsInv, NEW r \in Requests, NEW turn \in TurnRows, NEW chat \in Chats,
           turns' = [turns EXCEPT ![r] = turn], chats' = [chats EXCEPT ![r] = chat],
           UNCHANGED <<tools, replies, executions>>,
           conversation' \in BOOLEAN, Paid(turns[r], chats[r]) => Paid(turn, chat),
           RowsFit(turn, chat, tools[r]), Vouched(turn.action), turn.asking \subseteq Rows
    PROVE  TurnsInv'
<1>1. tools[r] \in Decisions /\ tools' = [tools EXCEPT ![r] = tools[r]]
  BY DEF TurnsInv, TurnsTyped
<1>2. QED  BY <1>1, OwnRows

Steps == {"idle", "creating", "starting", "finding", "confirming", "loading", "replying",
          "saving", "cleaning", "over"}

\* A step that only moves a request on.
LEMMA MovedOn ==
    ASSUME TurnsInv, NEW r \in Requests, NEW chat \in Chats, NEW step \in Steps,
           turns' = [turns EXCEPT ![r].step = step] \/ UNCHANGED turns,
           chats' = [chats EXCEPT ![r] = chat], UNCHANGED <<tools, replies, executions>>,
           conversation' \in BOOLEAN, Settled(chats[r]) => Settled(chat),
           chats[r].step # "idle", chat.step # "idle",
           turns[r].kind = "MESSAGE" /\ chat.step = "streaming" => chat.holds
    PROVE  TurnsInv'
<1>1. turns \in [Requests -> TurnRows] /\ turns[r] \in TurnRows /\ Fit(r)
  BY DEF TurnsInv, TurnsTyped
<1>2. PICK turn \in {turns[r], [turns[r] EXCEPT !.step = step]} :
        turns' = [turns EXCEPT ![r] = turn]
  BY <1>1
<1>3. /\ turn \in TurnRows /\ turn.kind = turns[r].kind /\ turn.action = turns[r].action
      /\ turn.asking = turns[r].asking /\ turn.proposed = turns[r].proposed
      /\ turn.step = "continuing" => turns[r].step = "continuing"
  BY <1>1, <1>2 DEF TurnRows, Steps
<1>4. RowsFit(turn, chat, tools[r]) /\ (Paid(turns[r], chats[r]) => Paid(turn, chat))
  BY <1>1, <1>3 DEF Fit, RowsFit, Paid
<1>5. QED  BY <1>1, <1>2, <1>3, <1>4, OwnTurn DEF Fit

\* The process of a request, whatever step it is at.
LEMMA OfProcess ==
    ASSUME TurnsInv, NEW r \in Requests, UNCHANGED conversationVars,
           ProduceOutput(r) \/ ReleaseAction(r) \/ RecordFinish(r) \/ LoseFinish(r) \/ Die(r)
    PROVE  TurnsInv'
<1>1. /\ chats[r] \in Chats /\ chats \in [Requests -> Chats] /\ Fit(r)
      /\ chats[r].step # "idle"
  BY DEF TurnsInv, TurnsTyped, ProduceOutput, ReleaseAction, RecordFinish, LoseFinish, Die, Active
<1> SUFFICES ASSUME NEW chat \in Chats, chats' = [chats EXCEPT ![r] = chat],
                    Settled(chats[r]) => Settled(chat),
                    chat.step # "idle",
                    chat.step = "streaming" =>
                        chats[r].step = "streaming" /\ chat.holds = chats[r].holds
             PROVE  TurnsInv'
  <2>1. CASE ProduceOutput(r)
    <3> DEFINE chat == [chats[r] EXCEPT !.output = TRUE]
    <3>1. chats' = [chats EXCEPT ![r] = chat] /\ chat \in Chats
      BY <1>1, <2>1 DEF ProduceOutput, Chats
    <3>2. chat.step = chats[r].step /\ chat.holds = chats[r].holds  BY <1>1 DEF Chats
    <3>3. QED  BY <1>1, <3>1, <3>2 DEF Settled
  <2>2. CASE ReleaseAction(r)
    <3> DEFINE chat == [chats[r] EXCEPT !.step = "recording", !.holds = FALSE]
    <3>1. chats' = [chats EXCEPT ![r] = chat] /\ chat \in Chats
      BY <1>1, <2>2 DEF ReleaseAction, Chats
    <3>2. chat.step = "recording" /\ chats[r].step = "releasing"
      BY <1>1, <2>2 DEF ReleaseAction, Chats
    <3>3. QED  BY <3>1, <3>2 DEF Settled
  <2>3. ASSUME NEW step \in {"over", "unrecorded", "dead"},
               chats' = [chats EXCEPT ![r].step = step]
        PROVE  \E chat \in Chats : /\ chats' = [chats EXCEPT ![r] = chat]
                                   /\ chat.step = step /\ chat.holds = chats[r].holds
    <3>1. [chats[r] EXCEPT !.step = step] \in Chats  BY <1>1 DEF Chats
    <3>2. QED  BY <1>1, <2>3, <3>1 DEF Chats
  <2>4. CASE RecordFinish(r) \/ LoseFinish(r) \/ Die(r)
    <3>1. PICK step \in {"over", "unrecorded", "dead"} : chats' = [chats EXCEPT ![r].step = step]
      BY <2>4 DEF RecordFinish, LoseFinish, Die
    <3>2. QED  BY <2>3, <3>1 DEF Settled
  <2>5. QED  BY <2>1, <2>2, <2>4
<1>2. turns[r].kind = "MESSAGE" /\ chat.step = "streaming" => chat.holds
  BY <1>1 DEF Fit, RowsFit
<1>3. conversation' \in BOOLEAN  BY DEF TurnsInv, TurnsTyped, conversationVars
<1>4. QED  BY <1>1, <1>2, <1>3, MovedOn DEF conversationVars, Steps

LEMMA OfSendMessage ==
    ASSUME TurnsInv, NEW r \in Requests, NEW m \in Messages, SendMessage(r, m)
    PROVE  TurnsInv'
<1> DEFINE step == IF conversation THEN "starting" ELSE "creating"
           turn == [turns[r] EXCEPT !.kind = "MESSAGE", !.existing = conversation, !.step = step]
           chat == [chats[r] EXCEPT !.step = "chat", !.message = m,
                                    !.window = WindowAt(periodEnd, now)]
<1>1. /\ chats[r] \in Chats /\ turns[r] \in TurnRows /\ Fit(r)
      /\ chats \in [Requests -> Chats] /\ turns \in [Requests -> TurnRows]
      /\ chats[r].step = "idle" /\ conversation \in BOOLEAN
  BY DEF TurnsInv, TurnsTyped, SendMessage, Chat
<1>2. turn \in TurnRows /\ chat \in Chats
  BY <1>1 DEF TurnRows, Chats, SendMessage, Chat
<1>3. turns' = [turns EXCEPT ![r] = turn] /\ chats' = [chats EXCEPT ![r] = chat]
  BY <1>1 DEF SendMessage, Chat
<1>4. /\ turn.kind = "MESSAGE" /\ turn.step # "continuing" /\ turn.action = turns[r].action
      /\ turn.asking = turns[r].asking /\ turn.proposed = turns[r].proposed
      /\ chat.step = "chat"
  BY <1>1 DEF TurnRows, Chats
<1> HIDE DEF turn, chat, step
<1>5. RowsFit(turn, chat, tools[r]) /\ ~Paid(turns[r], chats[r])
  BY <1>1, <1>4 DEF Fit, RowsFit, Paid, Settled
<1>6. UNCHANGED <<tools, replies, executions, conversation>>  BY DEF SendMessage
<1>7. QED  BY <1>1, <1>2, <1>3, <1>4, <1>5, <1>6, OwnTurn DEF Fit

LEMMA TurnsOfAnswerCards ==
    ASSUME TurnsInv, NEW r \in Requests, NEW approved \in SUBSET Proposals,
           NEW rejected \in SUBSET Proposals, AnswerCards(r, approved, rejected)
    PROVE  TurnsInv'
<1> DEFINE turn == [turns[r] EXCEPT !.kind = "APPROVAL", !.existing = TRUE, !.step = "finding"]
           chat == [chats[r] EXCEPT !.step = "chat", !.message = NoMessage,
                                    !.window = WindowAt(periodEnd, now)]
           decisions == [tools[r] EXCEPT !.approved = approved, !.rejected = rejected]
<1>1. /\ chats[r] \in Chats /\ turns[r] \in TurnRows /\ tools[r] \in Decisions /\ Fit(r)
      /\ chats \in [Requests -> Chats] /\ turns \in [Requests -> TurnRows]
      /\ tools \in [Requests -> Decisions]
      /\ WindowAt(periodEnd, now) \in Days
  BY DEF TurnsInv, TurnsTyped, AnswerCards, Chat
<1>2. turn \in TurnRows /\ chat \in Chats /\ decisions \in Decisions
  BY <1>1 DEF TurnRows, Chats, Decisions
<1>3. /\ turns' = [turns EXCEPT ![r] = turn] /\ chats' = [chats EXCEPT ![r] = chat]
      /\ tools' = [tools EXCEPT ![r] = decisions]
  BY <1>1 DEF AnswerCards, Chat
<1>4. /\ turn.kind = "APPROVAL" /\ turn.action = turns[r].action /\ turn.asking = turns[r].asking
      /\ chat.step = "chat"
  BY <1>1 DEF TurnRows, Chats
<1> HIDE DEF turn, chat, decisions
<1>5. Paid(turn, chat)  BY <1>4 DEF Paid
<1>6. RowsFit(turn, chat, decisions)  BY <1>4, <1>5 DEF RowsFit
<1>7. UNCHANGED <<replies, executions, conversation>> /\ conversation \in BOOLEAN
  BY DEF AnswerCards, TurnsInv, TurnsTyped
<1>8. QED  BY <1>1, <1>2, <1>3, <1>4, <1>5, <1>6, <1>7, OwnRows DEF Fit

\* The request that proposed a change is vouched for, or is a confirmation of one that is.
LEMMA OfFindProposingRequest ==
    ASSUME TurnsInv, NEW r \in Requests, FindProposingRequest(r)
    PROVE  TurnsInv'
<1>1. /\ turns[r] \in TurnRows /\ tools[r] \in Decisions /\ Fit(r)
      /\ turns \in [Requests -> TurnRows] /\ chats \in [Requests -> Chats]
      /\ turns[r].step = "finding"
  BY DEF TurnsInv, TurnsTyped, FindProposingRequest, Turn
<1>2. PICK p \in Proposals :
        LET request == executions[p].request
        IN  turns' = [turns EXCEPT
                       ![r].step = "confirming",
                       ![r].action = IF request # NoRequest /\ turns[request].action # NoRequest
                                     THEN turns[request].action ELSE request]
  BY <1>1 DEF FindProposingRequest, Decisions
<1> DEFINE request == executions[p].request
           action == IF request # NoRequest /\ turns[request].action # NoRequest
                     THEN turns[request].action ELSE request
           turn == [turns[r] EXCEPT !.step = "confirming", !.action = action]
<1>3. request \in Requests \cup {NoRequest} /\ Vouched(request)
  BY DEF TurnsInv, TurnsTyped, Executions
<1>4. action \in Requests \cup {NoRequest} /\ Vouched(action)
  BY <1>3 DEF TurnsInv, TurnsTyped, TurnRows, Fit
<1> HIDE DEF request
<1>5. turns' = [turns EXCEPT ![r] = turn]  BY <1>1, <1>2 DEF request
<1> HIDE DEF action
<1>6. /\ turn \in TurnRows /\ turn.step = "confirming" /\ turn.action = action
      /\ turn.kind = turns[r].kind /\ turn.asking = turns[r].asking
      /\ turn.proposed = turns[r].proposed
  BY <1>1, <1>4 DEF TurnRows
<1> HIDE DEF turn
<1>7. RowsFit(turn, chats[r], tools[r]) /\ (Paid(turns[r], chats[r]) => Paid(turn, chats[r]))
  BY <1>1, <1>6 DEF Fit, RowsFit, Paid
<1>8. /\ chats[r] \in Chats /\ chats' = [chats EXCEPT ![r] = chats[r]]
      /\ UNCHANGED <<tools, replies, executions, conversation>> /\ conversation \in BOOLEAN
  BY <1>1 DEF TurnsInv, TurnsTyped, FindProposingRequest, allowanceVars
<1>9. QED  BY <1>1, <1>4, <1>5, <1>6, <1>7, <1>8, OwnTurn DEF Fit

LEMMA OfCountConfirmations ==
    ASSUME TurnsInv, NEW r \in Requests, CountConfirmations(r)
    PROVE  TurnsInv'
<1> DEFINE n == Cardinality(Confirmations(turns[r].action))
           turn == [turns[r] EXCEPT !.confirmations = n, !.step = "starting"]
<1>1. /\ turns[r] \in TurnRows /\ Fit(r) /\ chats \in [Requests -> Chats]
      /\ turns \in [Requests -> TurnRows] /\ conversation \in BOOLEAN
      /\ turns[r].step = "confirming"
  BY DEF TurnsInv, TurnsTyped, CountConfirmations, Turn
<1>2. n \in Nat
  <2>1. Confirmations(turns[r].action) \subseteq Requests  BY DEF Confirmations
  <2>2. QED  BY <2>1, FS_Subset, FS_CardinalityType, AllowanceAssumption DEF AllowanceAssumption
<1>3. turns' = [turns EXCEPT ![r] = turn]  BY <1>1 DEF CountConfirmations
<1> HIDE DEF n
<1>4. /\ turn \in TurnRows /\ turn.step = "starting" /\ turn.action = turns[r].action
      /\ turn.kind = turns[r].kind /\ turn.asking = turns[r].asking
      /\ turn.proposed = turns[r].proposed
  BY <1>1, <1>2 DEF TurnRows
<1> HIDE DEF turn
<1>5. RowsFit(turn, chats[r], tools[r]) /\ (Paid(turns[r], chats[r]) => Paid(turn, chats[r]))
  BY <1>1, <1>4 DEF Fit, RowsFit, Paid
<1>6. /\ chats[r] \in Chats /\ chats' = [chats EXCEPT ![r] = chats[r]]
      /\ UNCHANGED <<tools, replies, executions, conversation>>
  BY <1>1 DEF CountConfirmations, allowanceVars
<1>7. QED  BY <1>1, <1>3, <1>4, <1>5, <1>6, OwnTurn DEF Fit

\* A step that leaves the process alone.
LEMMA OfWaiting ==
    ASSUME TurnsInv, NEW r \in Requests, CreateConversation(r) \/ LoseTurn(r)
    PROVE  TurnsInv'
<1>1. /\ chats \in [Requests -> Chats] /\ chats[r] \in Chats /\ Fit(r)
      /\ conversation \in BOOLEAN /\ chats[r].step # "idle"
  BY DEF TurnsInv, TurnsTyped, Fit, RowsFit, CreateConversation, LoseTurn, Turn
<1>2. PICK step \in Steps : turns' = [turns EXCEPT ![r].step = step]
  BY DEF CreateConversation, LoseTurn, Goto, Steps
<1>3. chats' = [chats EXCEPT ![r] = chats[r]] /\ UNCHANGED <<tools, replies, executions>>
  BY <1>1 DEF CreateConversation, LoseTurn, allowanceVars
<1>4. conversation' \in BOOLEAN  BY <1>1 DEF CreateConversation, LoseTurn
<1>5. QED  BY <1>1, <1>2, <1>3, <1>4, MovedOn DEF Fit, RowsFit

\* A request that is refused, or starts.
LEMMA OfRefuse ==
    ASSUME TurnsInv, NEW r \in Requests, RefuseConfirmation(r) \/ RefuseMessage(r)
    PROVE  TurnsInv'
<1>1. /\ chats[r] \in Chats /\ chats \in [Requests -> Chats] /\ conversation \in BOOLEAN
      /\ chats[r].step # "idle"
  BY DEF TurnsInv, TurnsTyped, Fit, RowsFit, RefuseConfirmation, RefuseMessage, Turn
<1>2. PICK step \in Steps : turns' = [turns EXCEPT ![r].step = step]
  BY DEF RefuseConfirmation, RefuseMessage, Goto, Steps
<1>3. UNCHANGED <<tools, replies, executions, conversation>>
  BY DEF RefuseConfirmation, RefuseMessage
<1> DEFINE chat == [chats[r] EXCEPT !.step = "over", !.outcome = "REFUSED"]
<1>4. chats' = [chats EXCEPT ![r] = chat]
  BY <1>1 DEF RefuseConfirmation, RefuseMessage, RefuseDuplicate
<1>5. chat \in Chats /\ chat.step = "over" /\ chat.holds = chats[r].holds  BY <1>1 DEF Chats
<1> HIDE DEF chat
<1>6. QED  BY <1>1, <1>2, <1>3, <1>4, <1>5, MovedOn DEF Settled

LEMMA OfStart ==
    ASSUME TurnsInv, NEW r \in Requests, Start(r)
    PROVE  TurnsInv'
<1> DEFINE step == IF IsMessage(r) THEN "loading" ELSE "continuing"
           turn == [turns[r] EXCEPT !.step = step]
           chat == [chats[r] EXCEPT !.step = "counting"]
<1>1. /\ chats[r] \in Chats /\ chats \in [Requests -> Chats] /\ Fit(r)
      /\ turns[r] \in TurnRows /\ turns \in [Requests -> TurnRows]
      /\ chats[r].step = "chat" /\ turns[r].step = "starting"
      /\ UNCHANGED <<tools, replies, executions, conversation>> /\ conversation \in BOOLEAN
  BY DEF TurnsInv, TurnsTyped, Start, StartRequest, Turn
<1>2. chats' = [chats EXCEPT ![r] = chat] /\ turns' = [turns EXCEPT ![r] = turn]
  BY <1>1 DEF Start, StartRequest, Goto
<1>3. chat \in Chats /\ chat.step = "counting"  BY <1>1 DEF Chats
<1>4. step \in {"loading", "continuing"} /\ (step = "continuing" => turns[r].kind = "APPROVAL")
  BY <1>1 DEF Fit, RowsFit, IsMessage, TurnRows
<1> HIDE DEF step, chat
<1>5. /\ turn \in TurnRows /\ turn.step = step /\ turn.kind = turns[r].kind
      /\ turn.action = turns[r].action /\ turn.asking = turns[r].asking
      /\ turn.proposed = turns[r].proposed
  BY <1>1, <1>4 DEF TurnRows
<1> HIDE DEF turn
<1>6. Paid(turns[r], chats[r]) => Paid(turn, chat)  BY <1>1, <1>5 DEF Paid, Settled
<1>7. RowsFit(turn, chat, tools[r])  BY <1>1, <1>3, <1>4, <1>5, <1>6 DEF Fit, RowsFit
<1>8. QED  BY <1>1, <1>2, <1>3, <1>5, <1>6, <1>7, OwnTurn DEF Fit

\* A message streams once it has its action.
LEMMA OfReserve ==
    ASSUME TurnsInv, NEW r \in Requests, Reserve(r)
    PROVE  TurnsInv'
<1>1. /\ chats[r] \in Chats /\ chats \in [Requests -> Chats] /\ conversation \in BOOLEAN
  BY DEF TurnsInv, TurnsTyped
<1>2. PICK step \in Steps : turns' = [turns EXCEPT ![r].step = step] \/ UNCHANGED turns
  BY DEF Reserve, Goto, Steps
<1>3. UNCHANGED <<tools, replies, executions, conversation>>  BY DEF Reserve
<1>4. PICK chat \in Chats : /\ chats' = [chats EXCEPT ![r] = chat]
                            /\ chat.step \in {"reserving", "streaming", "recording"}
                            /\ chat.step = "streaming" => chat.holds
  <2>1. CASE CreateCounter(r)
    <3> DEFINE chat == [chats[r] EXCEPT !.step = "reserving"]
    <3>1. chat \in Chats /\ chat.step = "reserving"  BY <1>1 DEF Chats
    <3>2. chats' = [chats EXCEPT ![r] = chat]  BY <1>1, <2>1 DEF CreateCounter
    <3> HIDE DEF chat
    <3>3. QED  BY <3>1, <3>2
  <2>2. CASE ReserveAction(r)
    <3> DEFINE got == [chats[r] EXCEPT !.step = "streaming", !.holds = TRUE]
               none == [chats[r] EXCEPT !.step = "recording", !.outcome = "FAILED"]
    <3>1. got \in Chats /\ got.step = "streaming" /\ got.holds = TRUE  BY <1>1 DEF Chats
    <3>2. none \in Chats /\ none.step = "recording"  BY <1>1 DEF Chats
    <3>3. chats' = [chats EXCEPT ![r] = got] \/ chats' = [chats EXCEPT ![r] = none]
      BY <1>1, <2>2 DEF ReserveAction
    <3> HIDE DEF got, none
    <3>4. QED  BY <3>1, <3>2, <3>3
  <2>3. QED  BY <2>1, <2>2 DEF Reserve
<1>5. chats[r].step \in {"counting", "reserving"}
  BY DEF Reserve, CreateCounter, ReserveAction
<1>6. QED  BY <1>1, <1>2, <1>3, <1>4, <1>5, MovedOn DEF Settled

LEMMA OfDeleteEmptyConversation ==
    ASSUME TurnsInv, NEW r \in Requests, DeleteEmptyConversation(r)
    PROVE  TurnsInv'
<1>1. /\ chats \in [Requests -> Chats] /\ chats[r] \in Chats /\ Fit(r)
      /\ conversation \in BOOLEAN /\ chats[r].step # "idle"
  BY DEF TurnsInv, TurnsTyped, Fit, DeleteEmptyConversation
<1>2. /\ turns' = [turns EXCEPT ![r].step = "over"] /\ UNCHANGED <<tools, replies, executions>>
      /\ chats' = [chats EXCEPT ![r] = chats[r]]
  BY <1>1 DEF DeleteEmptyConversation, Goto
<1>3. conversation' \in BOOLEAN  BY <1>1 DEF DeleteEmptyConversation
<1>4. QED  BY <1>1, <1>2, <1>3, MovedOn DEF Fit, RowsFit, Steps

\* Only a confirmation streams without an action of its own.
LEMMA OfContinue ==
    ASSUME TurnsInv, NEW r \in Requests, Continue(r)
    PROVE  TurnsInv'
<1> DEFINE blocked == \/ turns[r].confirmations + 1 >= MaxConfirmations
                      \/ used[chats[r].window] >= Limit
           turn == [turns[r] EXCEPT !.blocked = blocked, !.step = "loading"]
           chat == [chats[r] EXCEPT !.step = "streaming"]
<1>1. /\ chats[r] \in Chats /\ chats \in [Requests -> Chats] /\ Fit(r)
      /\ turns[r] \in TurnRows /\ turns \in [Requests -> TurnRows]
      /\ turns[r].step = "continuing" /\ turns[r].kind = "APPROVAL"
      /\ UNCHANGED <<tools, replies, executions, conversation>> /\ conversation \in BOOLEAN
  BY DEF TurnsInv, TurnsTyped, Continue, Turn, Fit, RowsFit
<1>2. chats' = [chats EXCEPT ![r] = chat] /\ turns' = [turns EXCEPT ![r] = turn]
  BY <1>1 DEF Continue
<1>3. chat \in Chats /\ chat.step = "streaming"  BY <1>1 DEF Chats
<1>4. blocked \in BOOLEAN  OBVIOUS
<1> HIDE DEF chat, blocked
<1>5. /\ turn \in TurnRows /\ turn.step = "loading" /\ turn.kind = "APPROVAL"
      /\ turn.action = turns[r].action /\ turn.asking = turns[r].asking
  BY <1>1, <1>4 DEF TurnRows
<1> HIDE DEF turn
<1>6. Paid(turn, chat)  BY <1>5 DEF Paid
<1>7. RowsFit(turn, chat, tools[r])  BY <1>3, <1>5, <1>6 DEF RowsFit
<1>8. QED  BY <1>1, <1>2, <1>3, <1>5, <1>6, <1>7, OwnTurn DEF Fit

\* The last message of a history is one of its messages.
LEMMA LastIsStored ==
    ASSUME TurnsInv, replies # <<>>
    PROVE  \E i \in DOMAIN replies : LastReply(replies) = replies[i]
<1> DEFINE last == {i \in DOMAIN replies : Newest(i)}
<1>1. last # {}  BY DEF TurnsInv, HistoryHasNewest
<1>2. LastReply(replies) = replies[CHOOSE i \in last : TRUE]  BY DEF LastReply, Newest
<1>3. (CHOOSE i \in last : TRUE) \in last  BY <1>1
<1>4. QED  BY <1>2, <1>3

LEMMA OfLoadHistory ==
    ASSUME TurnsInv, NEW r \in Requests, LoadHistory(r)
    PROVE  TurnsInv'
<1> DEFINE waiting == IF replies = <<>> THEN {} ELSE LastReply(replies).asking
           by == IF replies = <<>> THEN NoRequest ELSE LastReply(replies).by
           position == NextPosition(replies)
<1>1. /\ chats[r] \in Chats /\ chats \in [Requests -> Chats] /\ Fit(r)
      /\ turns[r] \in TurnRows /\ turns \in [Requests -> TurnRows]
      /\ turns[r].step = "loading" /\ chats[r].step = "streaming"
      /\ UNCHANGED <<tools, replies, executions, conversation>> /\ conversation \in BOOLEAN
  BY DEF TurnsInv, TurnsTyped, LoadHistory, Turn
<1>2. /\ waiting \in SUBSET Proposals /\ waiting \subseteq Rows /\ position \in Nat
      /\ by \in Requests \cup {NoRequest}
  <2>1. CASE replies = <<>>  BY <2>1 DEF NextPosition
  <2>2. CASE replies # <<>>
    <3>1. PICK i \in DOMAIN replies : LastReply(replies) = replies[i]  BY <2>2, LastIsStored
    <3>2. replies[i] \in ReplyRows /\ replies[i].asking \subseteq Rows
      BY DEF TurnsInv, TurnsTyped
    <3>3. QED  BY <2>2, <3>1, <3>2 DEF NextPosition, ReplyRows
  <2>3. QED  BY <2>1, <2>2
<1>3. PICK step \in {"replying", "over"} :
        /\ turns' = [[turns EXCEPT ![r].position = position, ![r].asking = waiting,
                                   ![r].reply = by] EXCEPT ![r].step = step]
        /\ \/ UNCHANGED chats
           \/ chats' = [chats EXCEPT ![r].step = "recording", ![r].outcome = "FAILED"]
  <2>1. CASE Decided(r) \subseteq waiting  BY <2>1 DEF LoadHistory
  <2>2. CASE ~(Decided(r) \subseteq waiting)  BY <2>2 DEF LoadHistory
  <2>3. QED  BY <2>1, <2>2
<1> HIDE DEF waiting, by, position
<1> DEFINE turn == [turns[r] EXCEPT !.position = position, !.asking = waiting, !.reply = by,
                                    !.step = step]
<1>4. turns' = [turns EXCEPT ![r] = turn]  BY <1>1, <1>3
<1>5. /\ turn \in TurnRows /\ turn.step = step /\ turn.kind = turns[r].kind
      /\ turn.action = turns[r].action /\ turn.asking = waiting
      /\ turn.proposed = turns[r].proposed
  BY <1>1, <1>2, <1>3 DEF TurnRows
<1> HIDE DEF turn
<1>6. PICK chat \in Chats : /\ chats' = [chats EXCEPT ![r] = chat]
                            /\ chat.holds = chats[r].holds
                            /\ chat.step \in {"streaming", "recording"}
  <2> DEFINE failed == [chats[r] EXCEPT !.step = "recording", !.outcome = "FAILED"]
  <2>1. failed \in Chats /\ failed.step = "recording" /\ failed.holds = chats[r].holds
    BY <1>1 DEF Chats
  <2>2. chats' = [chats EXCEPT ![r] = failed] \/ chats' = [chats EXCEPT ![r] = chats[r]]
    BY <1>1, <1>3
  <2> HIDE DEF failed
  <2>3. QED  BY <1>1, <2>1, <2>2
<1>7. Paid(turns[r], chats[r]) => Paid(turn, chat)  BY <1>1, <1>5 DEF Paid, Settled
<1>8. RowsFit(turn, chat, tools[r])  BY <1>1, <1>3, <1>5, <1>6, <1>7 DEF Fit, RowsFit
<1>9. QED  BY <1>1, <1>2, <1>4, <1>5, <1>6, <1>7, <1>8, OwnTurn DEF Fit

\* A message that proposes something has shown something: its action is not given back.
LEMMA Proposing ==
    ASSUME TurnsInv, NEW r \in Requests, NEW proposed \in SUBSET Proposals,
           NEW step \in {"saving", "over"}, NEW next \in {"recording", "releasing"},
           NEW outcome \in {"SUCCEEDED", "FAILED"}, chats[r].step = "streaming",
           turns' = [turns EXCEPT ![r].proposed = proposed, ![r].step = step],
           chats' = [chats EXCEPT ![r].outcome = outcome, ![r].step = next],
           next = "recording" \/ proposed = {},
           UNCHANGED <<tools, replies, executions, conversation>>
    PROVE  TurnsInv'
<1> DEFINE turn == [turns[r] EXCEPT !.proposed = proposed, !.step = step]
           chat == [chats[r] EXCEPT !.outcome = outcome, !.step = next]
<1>1. /\ chats[r] \in Chats /\ chats \in [Requests -> Chats] /\ Fit(r)
      /\ turns[r] \in TurnRows /\ turns \in [Requests -> TurnRows] /\ conversation \in BOOLEAN
  BY DEF TurnsInv, TurnsTyped
<1>2. chats' = [chats EXCEPT ![r] = chat] /\ turns' = [turns EXCEPT ![r] = turn]
  BY <1>1
<1>3. chat \in Chats /\ chat.step = next /\ chat.holds = chats[r].holds  BY <1>1 DEF Chats
<1>4. /\ turn \in TurnRows /\ turn.step = step /\ turn.kind = turns[r].kind
      /\ turn.action = turns[r].action /\ turn.asking = turns[r].asking
      /\ turn.proposed = proposed
  BY <1>1 DEF TurnRows
<1> HIDE DEF chat, turn
<1>5. turn.kind \in {"MESSAGE", "APPROVAL"} /\ (turn.kind = "MESSAGE" => chats[r].holds)
  BY <1>1, <1>4 DEF Fit, RowsFit, TurnRows
<1>6. Paid(turns[r], chats[r]) => Paid(turn, chat)  BY <1>4 DEF Paid, Settled
<1>7. next = "recording" => Paid(turn, chat)  BY <1>3, <1>5 DEF Paid, Settled
<1>8. RowsFit(turn, chat, tools[r])
  BY <1>1, <1>3, <1>4, <1>5, <1>7 DEF Fit, RowsFit
<1>9. QED  BY <1>1, <1>2, <1>3, <1>4, <1>6, <1>8, OwnTurn DEF Fit

LEMMA OfReply ==
    ASSUME TurnsInv, NEW r \in Requests, Reply(r)
    PROVE  TurnsInv'
<1>1. PICK proposed \in SUBSET Proposals :
        turns' = [turns EXCEPT ![r].proposed = proposed, ![r].step = "saving"]
  BY DEF Reply
<1>2. chats' = [chats EXCEPT ![r].outcome = "SUCCEEDED", ![r].step = "recording"]
  BY DEF Reply, Answer, TurnsInv, TurnsTyped, Chats
<1>3. chats[r].step = "streaming" /\ UNCHANGED <<tools, replies, executions, conversation>>
  BY DEF Reply, Answer
<1>4. QED  BY <1>1, <1>2, <1>3, Proposing

LEMMA OfFail ==
    ASSUME TurnsInv, NEW r \in Requests, Fail(r)
    PROVE  TurnsInv'
<1> DEFINE begun == turns[r].step = "replying" /\ tools[r].rejected \subseteq tools[r].handled
           step == IF begun THEN "saving" ELSE "over"
           next == IF chats[r].holds /\ ~chats[r].output THEN "releasing" ELSE "recording"
<1>1. PICK proposed \in SUBSET Proposals :
        /\ turns' = [turns EXCEPT ![r].proposed = proposed, ![r].step = step]
        /\ chats[r].output \/ proposed = {}
  BY DEF Fail
<1>2. chats' = [chats EXCEPT ![r].outcome = "FAILED", ![r].step = next]
  BY DEF Fail, FailRequest
<1>3. chats[r].step = "streaming" /\ UNCHANGED <<tools, replies, executions, conversation>>
  BY DEF Fail, FailRequest
<1>4. /\ step \in {"saving", "over"} /\ next \in {"recording", "releasing"}
      /\ chats[r].output => next = "recording"
  OBVIOUS
<1> HIDE DEF step, next
<1>5. next = "recording" \/ proposed = {}  BY <1>1, <1>4
<1>6. QED  BY <1>1, <1>2, <1>3, <1>4, <1>5, Proposing

-----------------------------------------------------------------------------
(* The rows of the proposals. *)

\* A proposal that has a row keeps it, and the request it names is vouched for.
LEMMA ExecutionsWritten ==
    ASSUME TurnsInv, UNCHANGED <<chats, turns, replies, conversation>>,
           tools' \in [Requests -> Decisions], executions' \in [Proposals -> Executions],
           \A s \in Requests : tools'[s].approved = tools[s].approved,
           \A p \in Proposals :
              /\ executions[p].status # "NONE" => executions'[p].status # "NONE"
              /\ Vouched(executions'[p].request)
    PROVE  TurnsInv'
<1>1. TurnsTyped' /\ HistoryHasNewest'
  BY DEF TurnsInv, TurnsTyped, HistoryHasNewest, Newest
<1>2. Rows \subseteq Rows'  BY DEF Rows
<1>3. \A r \in Requests : Fit(r)'
  BY <1>2 DEF TurnsInv, Fit, RowsFit, Vouched
<1>4. \A p \in Proposals : Vouched(executions[p].request)'  BY DEF Vouched
<1>5. QED  BY <1>1, <1>2, <1>3, <1>4 DEF TurnsInv

LEMMA OfToolStep ==
    ASSUME TurnsInv, NEW r \in Requests, NEW p \in Proposals, ToolStep(r, p)
    PROVE  TurnsInv'
<1>1. /\ tools \in [Requests -> Decisions] /\ tools[r] \in Decisions
      /\ executions \in [Proposals -> Executions] /\ executions[p] \in Executions
      /\ \A q \in Proposals : Vouched(executions[q].request)
      /\ Fit(r)
  BY DEF TurnsInv, TurnsTyped
<1>2. UNCHANGED <<chats, turns, replies, conversation>>
  BY DEF ToolStep, RejectPendingExecution, ClaimApprovedExecution, RunTool,
         CompleteToolExecution, allowanceVars
<1>3. tools' \in [Requests -> Decisions] /\ \A s \in Requests : tools'[s].approved = tools[s].approved
  <2>1. PICK row \in Decisions : row.approved = tools[r].approved
                                 /\ tools' = [tools EXCEPT ![r] = row]
    <3> DEFINE handled == [tools[r] EXCEPT !.handled = @ \cup {p}]
               claimed == [tools[r] EXCEPT !.handled = @ \cup {p}, !.running = @ \cup {p}]
               made == [tools[r] EXCEPT !.made = @ \cup {p}]
               over == [tools[r] EXCEPT !.running = @ \ {p}]
    <3>1. handled \in Decisions /\ handled.approved = tools[r].approved  BY <1>1 DEF Decisions
    <3>2. claimed \in Decisions /\ claimed.approved = tools[r].approved  BY <1>1 DEF Decisions
    <3>3. made \in Decisions /\ made.approved = tools[r].approved  BY <1>1 DEF Decisions
    <3>4. over \in Decisions /\ over.approved = tools[r].approved  BY <1>1 DEF Decisions
    <3>5. \E row \in {handled, claimed, made, over} : tools' = [tools EXCEPT ![r] = row]
      <4>1. CASE RejectPendingExecution(r, p)  BY <1>1, <4>1 DEF RejectPendingExecution
      <4>2. CASE ClaimApprovedExecution(r, p)  BY <1>1, <4>2 DEF ClaimApprovedExecution
      <4>3. CASE RunTool(r, p)  BY <1>1, <4>3 DEF RunTool
      <4>4. CASE CompleteToolExecution(r, p)  BY <1>1, <4>4 DEF CompleteToolExecution
      <4>5. QED  BY <4>1, <4>2, <4>3, <4>4 DEF ToolStep
    <3> HIDE DEF handled, claimed, made, over
    <3>6. QED  BY <3>1, <3>2, <3>3, <3>4, <3>5
  <2>2. QED  BY <1>1, <2>1
<1>4. PICK row \in Executions : /\ executions' = [executions EXCEPT ![p] = row]
                                /\ executions[p].status # "NONE" => row.status # "NONE"
                                /\ Vouched(row.request)
  <2>1. CASE RejectPendingExecution(r, p)
    <3> DEFINE row == [executions[p] EXCEPT
                         !.status = IF @ = "PENDING_APPROVAL" THEN "REJECTED" ELSE @]
    <3>1. row \in Executions /\ row.request = executions[p].request
          /\ (executions[p].status # "NONE" => row.status # "NONE")
      BY <1>1 DEF Executions
    <3>2. executions' = [executions EXCEPT ![p] = row]
      BY <1>1, <2>1 DEF RejectPendingExecution
    <3> HIDE DEF row
    <3>3. QED  BY <1>1, <3>1, <3>2
  <2>2. CASE ClaimApprovedExecution(r, p)
    <3> DEFINE row == [status |-> "EXECUTING", request |-> r]
    <3>1. row \in Executions /\ row.request = r /\ row.status # "NONE"  BY DEF Executions
    <3>2. turns[r].kind = "APPROVAL"
      <4>1. tools[r].approved # {}  BY <2>2 DEF ClaimApprovedExecution
      <4>2. QED  BY <1>1, <4>1 DEF Fit, RowsFit
    <3>3. \/ executions' = [executions EXCEPT ![p] = row]
          \/ executions' = [executions EXCEPT ![p] = executions[p]]
      BY <1>1, <2>2 DEF ClaimApprovedExecution
    <3>4. Vouched(r)  BY <3>2 DEF Vouched, Paid
    <3> HIDE DEF row
    <3>5. QED  BY <1>1, <3>1, <3>3, <3>4
  <2>3. CASE RunTool(r, p)
    <3>1. executions' = [executions EXCEPT ![p] = executions[p]]  BY <1>1, <2>3 DEF RunTool
    <3>2. QED  BY <1>1, <3>1
  <2>4. CASE CompleteToolExecution(r, p)
    <3>1. PICK status \in {"FAILED", "SUCCEEDED"} :
            executions' = [executions EXCEPT ![p].status = status]
      BY <2>4 DEF CompleteToolExecution
    <3> DEFINE row == [executions[p] EXCEPT !.status = status]
    <3>2. row \in Executions /\ row.request = executions[p].request /\ row.status # "NONE"
      BY <1>1 DEF Executions
    <3>3. executions' = [executions EXCEPT ![p] = row]  BY <1>1, <3>1
    <3> HIDE DEF row
    <3>4. QED  BY <1>1, <3>2, <3>3
  <2>5. QED  BY <2>1, <2>2, <2>3, <2>4 DEF ToolStep
<1>5. QED  BY <1>1, <1>2, <1>3, <1>4, ExecutionsWritten

-----------------------------------------------------------------------------
(* The turn is stored: the cards of its message have rows by then. *)

\* The newest message of a history stays the newest, or the one that is appended is.
LEMMA AppendHasNewest ==
    ASSUME TurnsInv, NEW row \in ReplyRows, replies' = Append(replies, row)
    PROVE  HistoryHasNewest'
<1>0. PICK n \in Nat : n = Len(replies)  BY DEF TurnsInv, TurnsTyped
<1>1. replies \in Seq(ReplyRows) /\ n \in Nat /\ DOMAIN replies = 1..n
  BY <1>0 DEF TurnsInv, TurnsTyped
<1>2. /\ DOMAIN replies' = 1..(n + 1) /\ replies'[n + 1] = row
      /\ \A i \in 1..n : replies'[i] = replies[i]
  BY <1>0, <1>1
<1>3. row.position \in Nat /\ \A i \in 1..n : replies[i].position \in Nat
  <2>1. \A i \in 1..n : replies[i] \in ReplyRows  BY <1>1
  <2>2. QED  BY <2>1 DEF ReplyRows
<1>4. CASE replies = <<>>
  <2>1. n = 0  BY <1>0, <1>4
  <2>2. Newest(1)'  BY <1>2, <1>3, <2>1 DEF Newest
  <2>3. QED  BY <1>2, <2>1, <2>2 DEF HistoryHasNewest
<1>5. CASE replies # <<>>
  <2>1. PICK i \in 1..n : Newest(i)
    BY <1>1, <1>5 DEF TurnsInv, HistoryHasNewest
  <2>2. \A j \in 1..n : \/ replies[j].position < replies[i].position
                        \/ replies[j].position = replies[i].position /\ j <= i
    BY <1>1, <2>1 DEF Newest
  <2>3. CASE row.position >= replies[i].position
    <3>1. ASSUME NEW j \in 1..(n + 1)
          PROVE  \/ replies'[j].position < row.position
                 \/ replies'[j].position = row.position /\ j <= n + 1
      <4>1. CASE j = n + 1  BY <1>1, <1>2, <1>3, <4>1
      <4>2. CASE j \in 1..n
        <5>1. replies[j].position \in Nat /\ replies[i].position \in Nat /\ replies'[j] = replies[j]
          BY <1>2, <1>3, <2>1, <4>2
        <5>2. replies[j].position <= replies[i].position  BY <2>2, <4>2, <5>1
        <5>3. QED  BY <1>1, <1>3, <2>3, <4>2, <5>1, <5>2
      <4>3. QED  BY <1>1, <4>1, <4>2
    <3>2. Newest(n + 1)'  BY <1>2, <3>1 DEF Newest
    <3>3. QED  BY <1>1, <1>2, <3>2 DEF HistoryHasNewest
  <2>4. CASE row.position < replies[i].position
    <3>1. ASSUME NEW j \in 1..(n + 1)
          PROVE  \/ replies'[j].position < replies'[i].position
                 \/ replies'[j].position = replies'[i].position /\ j <= i
      <4>1. replies'[i] = replies[i]  BY <1>2, <2>1
      <4>2. CASE j = n + 1  BY <1>2, <2>4, <4>1, <4>2
      <4>3. CASE j \in 1..n  BY <1>2, <2>2, <4>1, <4>3
      <4>4. QED  BY <1>1, <4>2, <4>3
    <3>2. Newest(i)'  BY <1>2, <3>1 DEF Newest
    <3>3. QED  BY <1>1, <1>2, <2>1, <3>2 DEF HistoryHasNewest
  <2>5. QED  BY <1>3, <2>1, <2>3, <2>4
<1>6. QED  BY <1>4, <1>5

LEMMA TurnsOfSaveTurn ==
    ASSUME TurnsInv, NEW r \in Requests, SaveTurn(r)
    PROVE  TurnsInv'
<1> DEFINE turn == [turns[r] EXCEPT !.step = "over"]
           message == [by |-> r, position |-> turns[r].position, asking |-> Asking(r)]
<1>1. /\ turns \in [Requests -> TurnRows] /\ turns[r] \in TurnRows /\ Fit(r)
      /\ executions \in [Proposals -> Executions] /\ replies \in Seq(ReplyRows)
      /\ turns[r].step = "saving"
      /\ executions' = Proposed(r) /\ UNCHANGED <<chats, tools, conversation>>
  BY DEF TurnsInv, TurnsTyped, SaveTurn, Turn, allowanceVars
<1>2. turns' = [turns EXCEPT ![r] = turn]  BY <1>1 DEF SaveTurn
<1>3. /\ turn \in TurnRows /\ turn.step = "over" /\ turn.kind = turns[r].kind
      /\ turn.action = turns[r].action /\ turn.asking = turns[r].asking
      /\ turn.proposed = turns[r].proposed
  BY <1>1 DEF TurnRows
<1> HIDE DEF turn
<1>4. \A s \in Requests : /\ turns'[s].kind = turns[s].kind /\ turns'[s].action = turns[s].action
                           /\ turns'[s].asking = turns[s].asking
  BY <1>1, <1>2, <1>3
<1>5. ASSUME NEW a \in Requests \cup {NoRequest}, Vouched(a)
      PROVE  a # NoRequest => Paid(turns'[a], chats'[a])
  <2>1. a \in Requests => turns'[a].kind = turns[a].kind /\ chats'[a] = chats[a]
    BY <1>1, <1>4
  <2>2. QED  BY <1>5, <2>1 DEF Vouched, Paid
<1>6. /\ executions' \in [Proposals -> Executions]
      /\ Rows \subseteq Rows' /\ turns[r].proposed \subseteq Rows'
  BY <1>1 DEF Proposed, Executions, Rows, TurnRows
<1>7. Asking(r) \in SUBSET Proposals /\ Asking(r) \subseteq Rows'
  BY <1>1, <1>6 DEF Asking, Fit, Rows, TurnRows
<1>8. ASSUME NEW s \in Requests PROVE Fit(s)'
  <2>1. Fit(s) /\ turns[s].action \in Requests \cup {NoRequest}
    BY <1>1 DEF TurnsInv, TurnRows
  <2>2. Vouched(turns[s].action)'
    <3>1. turns'[s].action = turns[s].action  BY <1>4
    <3>2. QED  BY <1>5, <2>1, <3>1 DEF Fit, Vouched
  <2>3. RowsFit(turns[s], chats[s], tools[s])'
    <3>1. CASE s = r
      BY <1>1, <1>2, <1>3, <2>1, <3>1 DEF Fit, RowsFit, Paid
    <3>2. CASE s # r
      <4>1. turns'[s] = turns[s]  BY <1>1, <1>2, <3>2
      <4>2. QED  BY <1>1, <2>1, <4>1 DEF Fit
    <3>3. QED  BY <3>1, <3>2
  <2>4. turns'[s].asking \subseteq Rows'  BY <1>4, <1>6, <2>1 DEF Fit
  <2>5. QED  BY <2>2, <2>3, <2>4 DEF Fit
<1>9. ASSUME NEW p \in Proposals PROVE Vouched(executions[p].request)'
  <2>1. Vouched(executions[p].request) /\ executions[p].request \in Requests \cup {NoRequest}
    BY <1>1 DEF TurnsInv, Executions
  <2>2. CASE executions'[p] = executions[p]  BY <1>5, <2>1, <2>2 DEF Vouched
  <2>3. CASE executions'[p] # executions[p]
    <3>1. p \in turns[r].proposed /\ executions'[p] = [status |-> "PENDING_APPROVAL", request |-> r]
      BY <1>1, <2>3 DEF Proposed
    <3>2. executions'[p].request = r /\ Vouched(r)
      BY <1>1, <3>1 DEF Fit, RowsFit, Vouched
    <3>3. QED  BY <1>5, <3>2 DEF Vouched
  <2>4. QED  BY <2>2, <2>3
<1>10. CASE IsMessage(r)
  <2>1. replies' = Append(replies, message)  BY <1>10 DEF SaveTurn
  <2>2. message \in ReplyRows /\ message.asking = Asking(r)
    BY <1>1, <1>7 DEF ReplyRows, TurnRows
  <2> HIDE DEF message
  <2>3. replies' \in Seq(ReplyRows)  BY <1>1, <2>1, <2>2
  <2>4. HistoryHasNewest'  BY <2>1, <2>2, AppendHasNewest
  <2>5. \A i \in DOMAIN replies' : replies'[i].asking \subseteq Rows'
    BY <1>1, <1>6, <1>7, <2>1, <2>2 DEF TurnsInv
  <2>6. TurnsTyped'  BY <1>1, <1>2, <1>3, <1>6, <2>3 DEF TurnsInv, TurnsTyped
  <2>7. QED  BY <1>8, <1>9, <2>4, <2>5, <2>6 DEF TurnsInv
<1>11. CASE ~IsMessage(r)
  <2>1. replies' = [i \in DOMAIN replies |->
                      IF replies[i].by = turns[r].reply
                      THEN [replies[i] EXCEPT !.asking = Asking(r)] ELSE replies[i]]
    BY <1>11 DEF SaveTurn
  <2>2. ASSUME NEW i \in DOMAIN replies
        PROVE  /\ replies'[i] \in ReplyRows /\ replies'[i].position = replies[i].position
               /\ replies'[i].asking \in {replies[i].asking, Asking(r)}
    <3>1. replies[i] \in ReplyRows  BY <1>1
    <3>2. QED  BY <1>7, <2>1, <3>1 DEF ReplyRows
  <2>3. DOMAIN replies' = 1..Len(replies) /\ Len(replies) \in Nat /\ DOMAIN replies = 1..Len(replies)
    BY <1>1, <2>1
  <2>4. replies' \in Seq(ReplyRows)
    <3>1. replies' \in [1..Len(replies) -> ReplyRows]  BY <2>1, <2>2, <2>3
    <3>2. QED  BY <2>3, <3>1
  <2>5. HistoryHasNewest'
    <3>1. ASSUME replies' # <<>> PROVE replies # <<>>  BY <1>1, <2>1, <3>1
    <3>2. QED  BY <2>2, <2>3, <3>1 DEF TurnsInv, HistoryHasNewest, Newest
  <2>6. \A i \in DOMAIN replies' : replies'[i].asking \subseteq Rows'
    BY <1>6, <1>7, <2>2, <2>3 DEF TurnsInv
  <2>7. TurnsTyped'  BY <1>1, <1>2, <1>3, <1>6, <2>4 DEF TurnsInv, TurnsTyped
  <2>8. QED  BY <1>8, <1>9, <2>5, <2>6, <2>7 DEF TurnsInv
<1>12. QED  BY <1>10, <1>11

-----------------------------------------------------------------------------

LEMMA TurnsStep == TurnsInv /\ [ConversationNext]_chatVars => TurnsInv'
<1> SUFFICES ASSUME TurnsInv, [ConversationNext]_chatVars PROVE TurnsInv'
  OBVIOUS
<1>1. CASE UNCHANGED chatVars
  <2>1. UNCHANGED <<chats, turns, replies, conversation, tools, executions>>
    BY <1>1 DEF chatVars, conversationVars, allowanceVars
  <2>2. QED  BY <2>1, ExecutionsWritten DEF TurnsInv, TurnsTyped
<1>2. ASSUME NEW r \in Requests, TurnStep(r) PROVE TurnsInv'
  <2>1. ASSUME NEW p \in Proposals, ToolStep(r, p) PROVE TurnsInv'  BY <2>1, OfToolStep
  <2>2. ASSUME NEW approved \in SUBSET Proposals, NEW rejected \in SUBSET Proposals,
               AnswerCards(r, approved, rejected)
        PROVE  TurnsInv'
    BY <2>2, TurnsOfAnswerCards
  <2>3. ASSUME NEW m \in Messages, SendMessage(r, m) PROVE TurnsInv'  BY <2>3, OfSendMessage
  <2>4. CASE FindProposingRequest(r) \/ CountConfirmations(r)
    BY <2>4, OfFindProposingRequest, OfCountConfirmations
  <2>5. CASE CreateConversation(r) \/ LoseTurn(r)  BY <2>5, OfWaiting
  <2>6. CASE RefuseConfirmation(r) \/ RefuseMessage(r)  BY <2>6, OfRefuse
  <2>7. CASE Start(r) \/ Reserve(r) \/ DeleteEmptyConversation(r) \/ Continue(r)
    BY <2>7, OfStart, OfReserve, OfDeleteEmptyConversation, OfContinue
  <2>8. CASE LoadHistory(r) \/ Reply(r) \/ Fail(r) \/ SaveTurn(r)
    BY <2>8, OfLoadHistory, OfReply, OfFail, TurnsOfSaveTurn
  <2>9. CASE /\ ProduceOutput(r) \/ ReleaseAction(r) \/ RecordFinish(r) \/ LoseFinish(r) \/ Die(r)
             /\ UNCHANGED conversationVars
    BY <2>9, OfProcess
  <2>10. QED
    BY <1>2, <2>1, <2>2, <2>3, <2>4, <2>5, <2>6, <2>7, <2>8, <2>9 DEF TurnStep
<1>3. QED  BY <1>1, <1>2 DEF ConversationNext

\* Every stored card has the row that lets it be confirmed, whoever answers the cards of a message
\* and in whatever order the turns are stored (saveTurn).
THEOREM CardsHaveRows == ConversationSpec => []CardHasItsRow
<1>1. TurnsInv => CardHasItsRow  BY DEF TurnsInv, Rows, CardHasItsRow
<1>2. QED  BY <1>1, InitTurns, TurnsStep, PTL DEF ConversationSpec

\* The message a confirmation goes back to keeps the action it reserved (findActionRequest,
\* countConfirmations, releaseAction).
THEOREM ConfirmationsArePaid == ConversationSpec => []ConfirmationIsPaid
<1>1. TurnsInv => ConfirmationIsPaid
  <2> SUFFICES ASSUME TurnsInv, NEW r \in Requests, turns[r].action # NoRequest,
                      IsMessage(turns[r].action)
               PROVE  chats[turns[r].action].holds
    BY DEF ConfirmationIsPaid
  <2>1. Vouched(turns[r].action)  BY DEF TurnsInv, Fit
  <2>2. QED  BY <2>1 DEF Vouched, Paid, Settled, IsMessage
<1>2. QED  BY <1>1, InitTurns, TurnsStep, PTL DEF ConversationSpec
=============================================================================
