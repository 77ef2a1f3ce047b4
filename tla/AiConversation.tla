--------------------------- MODULE AiConversation ---------------------------
(***************************************************************************)
(* One conversation with ChurchFlow AI: its creation with the first        *)
(* message, the replies that are stored when they are over, the changes a  *)
(* reply proposes on confirmation cards, and the requests that answer the  *)
(* cards, which run or reject the proposals (ai-assistant.service.ts,      *)
(* ai-assistant.repository.ts, tools/ai-tool-runner.ts).                   *)
(*                                                                         *)
(* A request is two rows here: chats has its reservation and outcome, as   *)
(* in AiAllowance, and turns what it does to the conversation.             *)
(***************************************************************************)
EXTENDS AiAllowance

CONSTANTS Proposals,           \* approval ids
          NoRequest,
          MaxConfirmations     \* AI_ASSISTANT_MAX_CONFIRMATIONS_PER_ACTION

ASSUME ConversationAssumption ==
    /\ MaxConfirmations \in Nat \ {0}
    /\ NoRequest \notin Requests

VARIABLES conversation,        \* whether the row of ai_conversations exists
          replies,             \* the assistant messages, in the order of their creation
          executions,          \* ai_tool_executions
          turns,               \* what a request does to the conversation
          tools,               \* and to the proposals
          ran                  \* how many times the change of each proposal was made

conversationVars == <<conversation, replies, executions, turns, tools, ran>>
chatVars == <<allowanceVars, conversationVars>>

Executions ==
    [status : {"NONE", "PENDING_APPROVAL", "EXECUTING", "SUCCEEDED", "FAILED", "REJECTED"},
     request : Requests \cup {NoRequest}]

NewTurn ==
    [kind |-> "NONE", step |-> "idle", existing |-> FALSE, action |-> NoRequest,
     confirmations |-> 0, blocked |-> FALSE,
     reply |-> NoRequest, position |-> 0, asking |-> {},   \* the loaded history
     proposed |-> {}]

\* The decisions of a request, how far it has carried them out, which proposals it has claimed and
\* which changes it has made.
NoDecisions == [approved |-> {}, rejected |-> {}, handled |-> {}, running |-> {}, made |-> {}]

Decisions ==
    [approved : SUBSET Proposals, rejected : SUBSET Proposals, handled : SUBSET Proposals,
     running : SUBSET Proposals, made : SUBSET Proposals]

ConversationInit ==
    /\ AllowanceInit
    /\ conversation = FALSE /\ replies = <<>>
    /\ executions = [p \in Proposals |-> [status |-> "NONE", request |-> NoRequest]]
    /\ turns = [r \in Requests |-> NewTurn]
    /\ tools = [r \in Requests |-> NoDecisions]
    /\ ran = [p \in Proposals |-> 0]

Alive(r) == chats[r].step # "dead"
IsMessage(r) == turns[r].kind = "MESSAGE"
Turn(r, step) == turns[r].step = step /\ Alive(r)
Goto(r, step) == turns' = [turns EXCEPT ![r].step = step]

\* The last message of the stored history: the newest of those at the highest position.
LastReply(history) ==
    LET last == {i \in DOMAIN history :
                   \A j \in DOMAIN history :
                      \/ history[j].position < history[i].position
                      \/ history[j].position = history[i].position /\ j <= i}
    IN  history[CHOOSE i \in last : TRUE]

NextPosition(history) ==
    IF history = <<>> THEN 0 ELSE LastReply(history).position + 1

Shown == UNION {turns[r].proposed : r \in Requests}

-----------------------------------------------------------------------------
(* A request comes in. *)

SendMessage(r, m) ==
    /\ Chat(r, m)
    /\ turns' = [turns EXCEPT ![r].kind = "MESSAGE", ![r].existing = conversation,
                              ![r].step = IF conversation THEN "starting" ELSE "creating"]
    /\ UNCHANGED <<conversation, replies, executions, tools, ran>>

CreateConversation(r) ==
    /\ Turn(r, "creating")
    /\ conversation' = TRUE
    /\ Goto(r, "starting")
    /\ UNCHANGED <<allowanceVars, replies, executions, tools, ran>>

\* The user answers cards that were shown.
AnswerCards(r, approved, rejected) ==
    /\ conversation
    /\ approved \cup rejected # {} /\ approved \cap rejected = {}
    /\ approved \cup rejected \subseteq Shown
    /\ Chat(r, NoMessage)
    /\ turns' = [turns EXCEPT ![r].kind = "APPROVAL", ![r].existing = TRUE, ![r].step = "finding"]
    /\ tools' = [tools EXCEPT ![r].approved = approved, ![r].rejected = rejected]
    /\ UNCHANGED <<conversation, replies, executions, ran>>

FindProposingRequest(r) ==
    /\ Turn(r, "finding")
    /\ \E p \in tools[r].approved \cup tools[r].rejected :
          LET request == executions[p].request
          IN  turns' = [turns EXCEPT
                         ![r].step = "confirming",
                         ![r].action = IF request # NoRequest /\ turns[request].action # NoRequest
                                       THEN turns[request].action ELSE request]
    /\ UNCHANGED <<allowanceVars, conversation, replies, executions, tools, ran>>

Confirmations(action) ==
    {s \in Requests : /\ turns[s].kind = "APPROVAL" /\ requests[s].status # "NONE"
                      /\ turns[s].action = action /\ action # NoRequest}

CountConfirmations(r) ==
    /\ Turn(r, "confirming")
    /\ turns' = [turns EXCEPT
                  ![r].confirmations = Cardinality(Confirmations(turns[r].action)),
                  ![r].step = "starting"]
    /\ UNCHANGED <<allowanceVars, conversation, replies, executions, tools, ran>>

RefuseConfirmation(r) ==
    /\ Turn(r, "starting") /\ turns[r].confirmations >= MaxConfirmations
    /\ chats' = [chats EXCEPT ![r].step = "over", ![r].outcome = "REFUSED"]
    /\ Goto(r, "over")
    /\ UNCHANGED <<now, periodEnd, used, counters, requests, renewal,
                   conversation, replies, executions, tools, ran>>

Start(r) ==
    /\ Turn(r, "starting") /\ conversation /\ turns[r].confirmations < MaxConfirmations
    /\ StartRequest(r)
    /\ Goto(r, IF IsMessage(r) THEN "loading" ELSE "continuing")
    /\ UNCHANGED <<conversation, replies, executions, tools, ran>>

\* The message is a duplicate, or the conversation has gone.
RefuseMessage(r) ==
    /\ Turn(r, "starting") /\ IsMessage(r)
    /\ \/ conversation /\ RefuseDuplicate(r)
       \/ /\ ~conversation
          /\ chats' = [chats EXCEPT ![r].step = "over", ![r].outcome = "REFUSED"]
          /\ UNCHANGED <<now, periodEnd, used, counters, requests, renewal>>
    /\ Goto(r, IF turns[r].existing THEN "over" ELSE "cleaning")
    /\ UNCHANGED <<conversation, replies, executions, tools, ran>>

\* A message reserves its action.  One that gets none is refused once that is recorded.
Reserve(r) ==
    /\ IsMessage(r)
    /\ \/ CreateCounter(r) /\ UNCHANGED turns
       \/ ReserveAction(r) /\ (IF chats'[r].holds \/ turns[r].existing
                               THEN UNCHANGED turns ELSE Goto(r, "cleaning"))
    /\ UNCHANGED <<conversation, replies, executions, tools, ran>>

\* A refused first message takes its conversation along, unless that has messages.
DeleteEmptyConversation(r) ==
    /\ Turn(r, "cleaning") /\ chats[r].step \in {"over", "unrecorded"}
    /\ IF replies = <<>>
       THEN /\ conversation' = FALSE
            /\ requests' = [s \in Requests |-> [requests[s] EXCEPT !.message = NoMessage]]
       ELSE UNCHANGED <<conversation, requests>>
    /\ Goto(r, "over")
    /\ UNCHANGED <<now, periodEnd, used, counters, chats, renewal, replies, executions, tools, ran>>

\* The last confirmation of an action, and one whose window is spent, may not propose again.
Continue(r) ==
    /\ Turn(r, "continuing")
    /\ chats' = [chats EXCEPT ![r].step = "streaming"]
    /\ turns' = [turns EXCEPT
                  ![r].blocked = \/ turns[r].confirmations + 1 >= MaxConfirmations
                                 \/ used[chats[r].window] >= Limit,
                  ![r].step = "loading"]
    /\ UNCHANGED <<now, periodEnd, used, counters, requests, renewal,
                   conversation, replies, executions, tools, ran>>

-----------------------------------------------------------------------------
(* The reply. *)

Decided(r) == tools[r].approved \cup tools[r].rejected

\* The history is read; decisions about cards that are not waiting in its last message fail.
LoadHistory(r) ==
    LET waiting == IF replies = <<>> THEN {} ELSE LastReply(replies).asking
        loaded == [turns EXCEPT ![r].position = NextPosition(replies),
                                ![r].asking = waiting,
                                ![r].reply = IF replies = <<>> THEN NoRequest
                                             ELSE LastReply(replies).by]
    IN  /\ Turn(r, "loading") /\ chats[r].step = "streaming"
        /\ IF Decided(r) \subseteq waiting
           THEN turns' = [loaded EXCEPT ![r].step = "replying"] /\ UNCHANGED chats
           ELSE /\ turns' = [loaded EXCEPT ![r].step = "over"]
                /\ chats' = [chats EXCEPT ![r].step = "recording", ![r].outcome = "FAILED"]
        /\ UNCHANGED <<now, periodEnd, used, counters, requests, renewal,
                       conversation, replies, executions, tools, ran>>

\* A mistake: what runs is rejected too.
RejectAnyExecution(r, p) ==
    /\ Turn(r, "replying") /\ p \in tools[r].rejected \ tools[r].handled
    /\ executions' = [executions EXCEPT ![p].status = "REJECTED"]
    /\ tools' = [tools EXCEPT ![r].handled = @ \cup {p}]
    /\ UNCHANGED <<allowanceVars, conversation, replies, turns, ran>>

RejectPendingExecution(r, p) ==
    /\ Turn(r, "replying") /\ p \in tools[r].rejected \ tools[r].handled
    /\ executions' = [executions EXCEPT
                       ![p].status = IF @ = "PENDING_APPROVAL" THEN "REJECTED" ELSE @]
    /\ tools' = [tools EXCEPT ![r].handled = @ \cup {p}]
    /\ UNCHANGED <<allowanceVars, conversation, replies, turns, ran>>

\* A mistake: what failed may be claimed again.
ClaimUnfinished(r, p) ==
    /\ Turn(r, "replying") /\ tools[r].rejected \subseteq tools[r].handled
    /\ p \in tools[r].approved \ tools[r].handled
    /\ IF executions[p].status \in {"PENDING_APPROVAL", "EXECUTING"}
       THEN /\ executions' = [executions EXCEPT ![p] = [status |-> "EXECUTING", request |-> r]]
            /\ tools' = [tools EXCEPT ![r].handled = @ \cup {p}, ![r].running = @ \cup {p}]
       ELSE tools' = [tools EXCEPT ![r].handled = @ \cup {p}] /\ UNCHANGED executions
    /\ UNCHANGED <<allowanceVars, conversation, replies, turns, ran>>

\* The rejections are written first.  A proposal that is not pending any more is not run.
ClaimApprovedExecution(r, p) ==
    /\ Turn(r, "replying") /\ tools[r].rejected \subseteq tools[r].handled
    /\ p \in tools[r].approved \ tools[r].handled
    /\ IF executions[p].status = "PENDING_APPROVAL"
       THEN /\ executions' = [executions EXCEPT ![p] = [status |-> "EXECUTING", request |-> r]]
            /\ tools' = [tools EXCEPT ![r].handled = @ \cup {p}, ![r].running = @ \cup {p}]
       ELSE tools' = [tools EXCEPT ![r].handled = @ \cup {p}] /\ UNCHANGED executions
    /\ UNCHANGED <<allowanceVars, conversation, replies, turns, ran>>

\* The tool makes the change; a tool that is refused or fails may stop before that.
RunTool(r, p) ==
    /\ Alive(r) /\ p \in tools[r].running \ tools[r].made
    /\ ran' = [ran EXCEPT ![p] = @ + 1]
    /\ tools' = [tools EXCEPT ![r].made = @ \cup {p}]
    /\ UNCHANGED <<allowanceVars, conversation, replies, executions, turns>>

CompleteToolExecution(r, p) ==
    /\ Alive(r) /\ p \in tools[r].running
    /\ \E status \in {"FAILED"} \cup (IF p \in tools[r].made THEN {"SUCCEEDED"} ELSE {}) :
          executions' = [executions EXCEPT ![p].status = status]
    /\ tools' = [tools EXCEPT ![r].running = @ \ {p}]
    /\ UNCHANGED <<allowanceVars, conversation, replies, turns, ran>>

\* The confirmed tools are over; the model answers, and may propose further changes.
Reply(r) ==
    /\ Turn(r, "replying") /\ Decided(r) = tools[r].handled /\ tools[r].running = {}
    /\ Answer(r)
    /\ \E proposed \in SUBSET (IF turns[r].blocked THEN {} ELSE Proposals \ Shown) :
          turns' = [turns EXCEPT ![r].proposed = proposed, ![r].step = "saving"]
    /\ UNCHANGED <<conversation, replies, executions, tools, ran>>

\* A reply that fails half-way is stored as far as it got, with the cards it had shown.
Fail(r) ==
    LET begun == turns[r].step = "replying" /\ tools[r].rejected \subseteq tools[r].handled
        free == begun /\ Decided(r) = tools[r].handled /\ tools[r].running = {}
                /\ chats[r].output /\ ~turns[r].blocked
    IN  /\ FailRequest(r)
        /\ \E proposed \in SUBSET (IF free THEN Proposals \ Shown ELSE {}) :
              turns' = [turns EXCEPT ![r].proposed = proposed,
                                     ![r].step = IF begun THEN "saving" ELSE "over"]
        /\ UNCHANGED <<conversation, replies, executions, tools, ran>>

Proposed(r) ==
    [p \in Proposals |->
        IF p \in turns[r].proposed /\ executions[p].status = "NONE"
        THEN [status |-> "PENDING_APPROVAL", request |-> r] ELSE executions[p]]

\* The cards of the message once the turn is over.
Asking(r) ==
    (IF IsMessage(r) THEN {} ELSE turns[r].asking \ Decided(r)) \cup turns[r].proposed

\* A mistake: the message is stored, the proposals are not.
SaveMessages(r) ==
    /\ Turn(r, "saving") /\ conversation
    /\ replies' = IF IsMessage(r)
                  THEN Append(replies, [by |-> r, position |-> turns[r].position,
                                        asking |-> Asking(r)])
                  ELSE [i \in DOMAIN replies |->
                          IF replies[i].by = turns[r].reply
                          THEN [replies[i] EXCEPT !.asking = Asking(r)] ELSE replies[i]]
    /\ turns' = [turns EXCEPT ![r].step = "over"]
    /\ UNCHANGED <<allowanceVars, conversation, executions, tools, ran>>

\* The message and its proposals are written together.  A confirmation goes on with the message
\* it answers, and writes that message as it had loaded it.
SaveTurn(r) ==
    /\ Turn(r, "saving") /\ conversation
    /\ replies' = IF IsMessage(r)
                  THEN Append(replies, [by |-> r, position |-> turns[r].position,
                                        asking |-> Asking(r)])
                  ELSE [i \in DOMAIN replies |->
                          IF replies[i].by = turns[r].reply
                          THEN [replies[i] EXCEPT !.asking = Asking(r)] ELSE replies[i]]
    /\ executions' = Proposed(r)
    /\ turns' = [turns EXCEPT ![r].step = "over"]
    /\ UNCHANGED <<allowanceVars, conversation, tools, ran>>

\* The turn cannot be stored, or its conversation has gone: that is only logged.
LoseTurn(r) ==
    /\ Turn(r, "saving")
    /\ Goto(r, "over")
    /\ UNCHANGED <<allowanceVars, conversation, replies, executions, tools, ran>>

-----------------------------------------------------------------------------

ToolStep(r, p) ==
    \/ RejectPendingExecution(r, p) \/ ClaimApprovedExecution(r, p)
    \/ RunTool(r, p) \/ CompleteToolExecution(r, p)

TurnStep(r) ==
    \/ \E m \in Messages : SendMessage(r, m)
    \/ CreateConversation(r)
    \/ \E approved, rejected \in SUBSET Proposals : AnswerCards(r, approved, rejected)
    \/ FindProposingRequest(r) \/ CountConfirmations(r) \/ RefuseConfirmation(r)
    \/ Start(r) \/ RefuseMessage(r) \/ Reserve(r) \/ DeleteEmptyConversation(r) \/ Continue(r)
    \/ LoadHistory(r) \/ Reply(r) \/ Fail(r) \/ SaveTurn(r) \/ LoseTurn(r)
    \/ \E p \in Proposals : ToolStep(r, p)
    \/ /\ ProduceOutput(r) \/ ReleaseAction(r) \/ RecordFinish(r) \/ LoseFinish(r) \/ Die(r)
       /\ UNCHANGED conversationVars

ConversationNext == \E r \in Requests : TurnStep(r)

ConversationSpec == ConversationInit /\ [][ConversationNext]_chatVars

-----------------------------------------------------------------------------
(* Properties. *)

\* A confirmed change is made at most once, whatever confirmations of it arrive, in whatever order,
\* and wherever a process dies (claimApprovedExecution, mutate).
MutationRunsOnce == \A p \in Proposals : ran[p] <= 1

\* What one request rejected, no other one makes, and a decision is not taken back
\* (rejectPendingExecution, claimApprovedExecution, saveTurn).
RejectedNeverRuns == \A p \in Proposals : executions[p].status = "REJECTED" => ran[p] = 0
DecisionIsFinal ==
    [][\A p \in Proposals :
         /\ executions[p].status \in {"SUCCEEDED", "FAILED", "REJECTED"} =>
              executions'[p] = executions[p]
         /\ executions[p].status = "EXECUTING" =>
              executions'[p].status \in {"EXECUTING", "SUCCEEDED", "FAILED"}]_chatVars

\* Every stored card has the row that lets it be confirmed, also when two requests answer cards of
\* one message and write it one after the other (saveTurn).
CardHasItsRow ==
    \A i \in DOMAIN replies : \A p \in replies[i].asking : executions[p].status # "NONE"

\* A confirmation is free because the message it goes back to was paid for: that one is a message,
\* and it keeps the action it reserved.
ConfirmationIsPaid ==
    \A r \in Requests :
        turns[r].action # NoRequest /\ IsMessage(turns[r].action) => chats[turns[r].action].holds

\* An action has no more confirmations than the limit ("therefore capped", ai-assistant.ts).
ConfirmationsAreCapped ==
    \A action \in Requests : Cardinality(Confirmations(action)) <= MaxConfirmations

\* A confirmation that goes through is tied to the message that proposed the change ("so both
\* count as one action", ai-assistant.repository.ts).
ConfirmationHasItsAction ==
    \A r \in Requests :
        turns[r].kind = "APPROVAL" /\ turns[r].step = "replying" => turns[r].action # NoRequest

\* The conversation of a message that is being answered is there when the turn is to be stored
\* ("the turn is saved when it is really over", ai-assistant.service.ts).
AnswerHasAConversation ==
    \A r \in Requests : turns[r].step = "saving" => conversation
=============================================================================
