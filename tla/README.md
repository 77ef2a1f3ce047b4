# A verification project for ChurchFlow

ChurchFlow is a multi-tenant application for churches: a NestJS API over PostgreSQL (`src/apps/api`), a Next.js
client (`src/apps/web`) and shared packages (`src/packages/shared`, `src/packages/db`). This directory holds TLA+
models of its core, the TLC runs that check them and the TLAPS proofs about them. The core is what several actors
change at once: the billing of an organization (callbacks of a payment provider, owners, platform admins, a nightly
job, crashes), its members (owners, invitations, claims), the allowance and the confirmed changes of the AI assistant,
the job that reminds, and the accounts of users with their ways to sign in.

Run a model with `tlc -config <Run>.cfg <Module>.tla` and the proofs with `tlapm <Module>Proofs.tla`.
`PROJECT.json` lists every component, run, property, hazard and theorem, and maps definitions to source lines.

## 1. Inventory

Paths are below `src/apps/api/src/modules/` unless they say otherwise.

| Component | State it keeps | Operations | Hard behaviour | What makes it correct |
| --- | --- | --- | --- | --- |
| Subscription transitions (`billing/subscription-transitions.ts`) | none, pure | what a callback, a cancellation, a chargeback makes of a row | repeated failures, late charges, boundaries of deadlines | no time is given away, none that was paid for is lost |
| Billing service (`billing/billing.service.ts`, `billing/repositories`) | subscription row, checkout orders, callback log, queue of orders to stop | startCheckout, cancel, handleCallback, reconcileOrderWithProvider, stopOrder | lost, duplicated, reordered callbacks; concurrent requests; crash between a commit and the call that follows it | every charge counts once; no order charges unnoticed |
| LiqPay client (`billing/liqpay.service.ts`) | none | unsubscribe, status query, signing | lost answers | an answer not given is never taken for one |
| Entitlements (`src/packages/shared/src/entitlements.ts`) | none, pure | resolveEntitlements | boundaries | agrees with the transitions about who has access |
| Nightly billing job (`billing/billing-dunning.scheduler.ts`) | a batch in memory | reopen, reconcile, restrict, warn, retry | a batch that is outdated when it is written | it acts on nothing that stopped being due; it acts in the end |
| Organization administration (`organizations`) | organization status, complimentary flag | grant, revoke, archive, suspend, delete, restore | races with payments | a closed or complimentary organization is not dunned |
| Scheduled job lock (`scheduled-jobs`) | one row per job | acquire, take over, release | TTL runs out while the owner is still at work; clocks differ; the owner dies | at most one owner inside its TTL; nobody is locked out longer than a TTL |
| AI assistant (`ai-assistant`) | usage counters, requests, conversations, executions | reserve, refund, move at a renewal, answer, propose, confirm, reject | last action, refund against move, crash in a stream, two confirmations | the allowance is kept; an execution runs once |
| Memberships (`memberships`) | members with role and status | remove, archive, restore, change role; profiles | two owners acting on each other | there is always an owner |
| Invitations (`invitations`) | invitations | create or refresh, accept, revoke, resend | accept against revoke, refresh and restoration | an accepted invitation was valid, and used once |
| Membership claims (`membership-claims`) | claims | create or refresh, request, approve, reject, revoke | expiry against refresh, opposite lock orders | one member, one account |
| Organization requests (`organization-requests`) | requests | submit, resubmit, review, expire, delete | two reviewers; expiry between view and approval | one organization per request |
| Sign-in (`auth`, `users`, `platform-admin-bootstrap`) | tokens, accounts, passkeys, sessions | mail a token, redeem its link or code, confirm, change the address, add and remove passkeys | link and code at once; an address that moves while it is confirmed | single use; a way in remains |
| Calendar reminders, notifications (`calendar-events`, `notifications`) | events, notifications, preferences | expand recurrence, remind; inbox, retention | two runs of the job; preferences that change | one reminder per occurrence and recipient |
| Budgets, groups, knowledge, prayer requests, websites, pages, media, audit, currency rates, email, Telegram bot, health | rows of their own | create, read, update, delete; front ends and I/O | little | - |

How they interact: the client calls the API; LiqPay calls `POST billing/liqpay/callback`; the API calls LiqPay to
stop an order and to ask about one. The nightly job calls the billing service in process, as do the organization
operations after their commit. The AI assistant counts its allowance in billing periods, which a late renewal moves.
Approving a claim writes the members an owner removes; an accepted invitation and a restoration write one row. The reminder
job and the nightly job run under the job lock. A request for an organization needs an account that is still confirmed
when it is approved, and lets its user sign in.
All shared state is in PostgreSQL under its default READ COMMITTED isolation: what guards a decision against a
concurrent one is a condition in an UPDATE, a unique index, or a row lock, and each is in the model where the code has it.

## 2. Plan

Done, in this order: billing with its administration and its nightly job, and the proofs about `Billing`, which implements
`SubscriptionLedger`; the job lock, with `Lease` as its abstract specification and the refinement proved; reminders under that lock; members, claims and invitations;
the AI allowance and the conversation built on it; accounts and organization requests. Each group has its proofs.

Left, in the order of what it would add:

1. `EveryCreditAddsAMonth`, the ledger and what may return access, for `DunningSpec`: today those theorems are about `Spec`.
2. Session rotation, Telegram login and WebAuthn challenges beside `Accounts`; claims and invitations in one composition.
3. The arithmetic of recurrences against a reference over bounded dates.

## 3. The modules

Definitions that begin with the comment "A mistake:" are not used by any specification. Each is a plausible bug in the
definition after it; put in its place it makes the property named in `PROJECT.json` fail, which is how we know that the
property says something about the code.

| Module | Models | Correspondence |
| --- | --- | --- |
| `SubscriptionTransitions` | `subscription-transitions.ts` | one operator per function; "next state or null" is a set of at most one state |
| `Entitlements` | `entitlements.ts` | `FullAccess(row, day)`: every entitlement |
| `LiqPay` | the provider, external | `recurring` per order, `sent` callbacks (never removed: lost, duplicated and reordered deliveries are choices of the receiver), `clock` |
| `Billing` | `billing.service.ts`, `subscriptions.repository.ts`, `billing-unsubscribe-queue.ts` | 3.1 |
| `SubscriptionLedger` | - | what billing promises about the money, as one book: `paidUntil`, the `live` order, what is `credited`, the `offers`, the `stops`; every entry is made at once, without requests, retries or crashes |
| `BillingAdministration` | `setBillingExemption`, `changeStatus` of organizations | extends `Billing` with the actions of platform admins |
| `BillingDunning` | `billing-dunning.scheduler.ts` | extends it with the pass of the job; its calls to the billing service run in the worker `Job` |
| `Lease`, `ScheduledJobLock` | what an expiring lock promises; `scheduled-job-lock.service.ts` | 3.2 |
| `Reminders` | the reminder scheduler, what it lists, stores and sends | extends `ScheduledJobLock` with the job inside the lock; 3.2 |
| `Members` | `memberships.repository.ts`: remove, archive, restore, update a role | 3.3 |
| `MembershipClaims`, `Invitations` | their repositories | each extends `Members` |
| `UsageWindows` | `ai-assistant-access.ts`, `addMonths` | recursive functions over a calendar given by the lengths of its months |
| `AiAllowance` | counters and requests of `ai-assistant.repository.ts`, `carryOverAiUsage` | 3.4 |
| `AiConversation` | `ai-assistant.service.ts`, `ai-tool-runner.ts` | extends `AiAllowance` |
| `Accounts` | `email-auth`, `passkeys`, `users` | 3.5 |
| `OrganizationRequests` | `organization-requests.service.ts` and its repository | extends `Accounts` |
| `...MC` | - | initial states and symmetry for TLC |
| `...Proofs` | - | theorems; section 5 |

### 3.1 Billing

`Billing` keeps one organization: the row `sub`, the status of each checkout order, the queue `requests` of unsubscribe
requests, the callback `log`, whether the organization is ACTIVE, and per worker the request it is running. It starts with a new
subscription or with a live order that predates the checkout rows (`LegacyOrders`). A request is a sequence of phases, and a
step is one query, one transaction or one call to LiqPay of the code:

| Phase reached | By | Code |
| --- | --- | --- |
| received | `DeliverCallback` | `handleCallback` |
| located, matched | `FindCheckoutOrder`, `FindSubscription` | the two queries of `findByOrderId` |
| judged | `FindPaymentHistory` | `findPaymentHistory`; what is decided of it is `Decision`, `OrderToStop`, `PaysCheckout`, ... |
| stopping or idle | `CommitCallback`, `AnswerDuplicate`, `ReapplyStale` | `applyCallback`: committed; refused by a unique index; rolled back as stale and retried |
| offering, idle | `StartCheckout`, `ReuseCheckout`, `CreateCheckoutOrder` | `startCheckout` |
| canceling, stopping | `RequestCancellation`, `CommitCancellation`, `CancellationConflict` | `cancel` |
| stopped, idle | `StopAccepted`, `StopUnconfirmed`, `ResolveUnsubscribeRequest` | `stopOrder` |

`Abort` ends a request anywhere: a crash, a lost connection, a failing notification. `Tick` passes a day.

- The condition `updatedAt = <as read>` is the set `overtaken` of the workers whose reading a write has outdated. It
  takes two writes of a row to have different `updatedAt` stamps (they are in milliseconds).
- `cancelRequestedAt` is a Boolean; dates are days, `NoDate` is NULL; a calendar month is `Month` days.
- The checkout that is reused, within how many minutes and at which price, is left open: both outcomes are possible
  whenever a PROPOSED one exists.
- A callback's sum either matches the pinned price or is known not to (`match`); a sum that cannot be compared counts as
  matching, as in the code.
- The two queries of the payment history are one step.
- A request or a pass of the job sees at most one midnight. A checkout page is paid at most once.
- Out of the model: what is shown, sent or audited; signatures. The carry-over of AI usage is in `AiAllowance`.

### 3.2 The job lock and the reminders

A call of `runOnce` draws an owner id of its own, so a run is its own owner. `phase` follows `runOnce`: `RunOnce` reads the
instance's clock, which is off by up to `Skew`; `CreateLock` or `LockExists` is the insert, `TakeOver` or `Skip` the conditional
update, `JobEnds` and `Release` the `finally`. `Die` is a crash, a failing query or a lost answer. `Lease` says what is promised:
a holder is alone until its deadline. `Leases!LeaseSpec` is checked with `lease` computed from `now[r] + Ttl - Skew`, the last moment
at which no clock is past the end of the run's lease.

`Reminders` is the job inside: `ListDue` (the window that ends at the instance's clock), then per occurrence `FindRecipients`
(who has something enabled and has no row yet), `CreateNotifications` (`skipDuplicates`) and `Deliver`, whose deliveries fail one by
one and are not tried again; `FailBatch` gives up an occurrence. Recipients change what they have enabled between any two steps. `sent` is
history: what was sent, by which run, and whether after its lease. An occurrence stands for the dedupe key of an event's reminder.
The code's window is as long as its period of five minutes, so a run that is skipped or late loses the reminders of its window for good;
that follows from `ListDue`, and no property claims otherwise. No code under `src/apps/api/src` sets `deletedAt` of a notification, so
rows never leave the table here.

### 3.3 Members, claims and invitations

`members` and `claims` are tables, `locks` the rows each worker's transaction has locked, `request` what it is doing. Each statement is a
step that sees what is committed. A row that is written stays locked to the end of the transaction; its new value is put into the table by the
step that commits (`RevokeClaims` writes what `WriteMember` locked), since nobody sees it before. A statement waits for rows others have
locked (`Free`). `FindOwners` and `LockOwners` are one statement, `SELECT ... FOR UPDATE`: it finds its rows on the snapshot it starts
with, then waits. With `AgedSnapshots` it only looks again at the rows it found, which is what PostgreSQL does; without, it looks for the
owners again. The passing runs and the proof of `SomeOwner` take the second, and `MemberOwnersAged` shows what the first does (section 6).
`Abort` is a crash, a lost connection, or the deadlock detector.

`MembershipClaims` adds `AskForLink` to `LinkMember`; `approve` locks the claim, then judges it and the member, then writes the member:
the opposite order of a removal, which locks the member and then its claims. `Invitations` adds the operations that read a row and then write it by its
id (`RefreshInvitation`, `ResendInvitation`, `RevokeInvitation`) and the transaction of `accept` (`FindMembership`, `AcceptInvitation`), whose last
update has a condition. Expiry is an action. The unique indexes are conditions of the inserts; a refused insert is retried once, as in the
code. Ids of rows are a bound.

### 3.4 The AI assistant

`UsageWindows` computes windows as the code does, clamping to the last day of a month. In `AiAllowance` a request of `chats` goes through
`Chat` (the window is computed once), `StartRequest` (the unique client id), `CreateCounter`, `ReserveAction` (the conditional update),
`ProduceOutput`, `Answer` or `FailRequest`, `ReleaseAction`, `RecordFinish`; `LoseFinish` is the last write failing, `Die` a crash. `Renew` is a
payment; `LockCounters`, `ReadSource`, `MoveUsage` are the transaction of `carryOverAiUsage`, one at a time. `renewal.lowered` is
history: the windows a move has taken something from, in which more may be held than is counted, because what was used there is
counted in the window it went to. The organization is ACTIVE and not exempt throughout.

`AiConversation` adds what a request does to the conversation (`turns`) and to proposals (`tools`): the conversation is created with its
first message, a reply is stored with its cards when it is over (`SaveTurn`), a confirmation finds the request that proposed
(`FindProposingRequest`), counts (`CountConfirmations`), loads the history, writes the rejections, claims the approved executions by a conditional
update, makes the changes and writes back the message it continues. `ran` counts how often the change of a proposal was made. The day does
not pass here.

### 3.5 Accounts and organization requests

`users`, `mail` (the email account of an address), `passkeys`, `tokens` and `sessions` are tables, the last one counting the sessions each token has
opened. A link is redeemed by one conditional update (`ConsumeSignInTokenByHash`); a code is matched first and redeemed by id
(`MatchSignInToken`, `ConsumeSignInTokenById`) while `RecordFailedCodeAttempts` burns. Then comes admission, creation or confirmation of the
account, and the session. Whether a redirect admits somebody is open. `updateProfile` is a transaction of two writes
(`DropEmailAccounts`, `MoveAddress`), whose locks make others wait (`Free`). `confirmEmailIdentity` is one step: its update of the user decides, and
the account it then writes belongs to the row it has locked; the deadlock it may have with a change of the profile ends like `Die`. `overtaken` is
history: the users whose sign-in methods two overlapping requests changed.

`OrganizationRequests` adds submissions, listings (each expires what is old first), resubmission, deletion, `AskToApprove` (the view) and
`Approve` (the transaction), `Reject`. Of the organization that an approval founds only the number is kept; its owner is the
initial state of `Members`.

## 4. The runs

All behaviours end but those of liveness: requests, events, days, ids and runs are bounded, so a state without successor only means that
the bounds are used up. Deadlock checking is therefore off; that nothing waits forever is what `DunningLiveness` and `ClaimsEnd` are about.

| Run | Instance | Shows |
| --- | --- | --- |
| `BillingRaces` | 2 workers, 2 orders, one of which may predate checkouts, 2 LiqPay events | the requests implement `SubscriptionLedger`; every replaced order is queued; every order that charges is live or queued; a cancelled order stays queued; the order a subscription renews by is neither queued nor about to be stopped; each credit adds its month |
| `BillingDeadlines` | 1 worker, 3 events, 2 paid statuses, 4 days, stamped callbacks | a payment counts once; when full access may return; what a cancellation keeps |
| `Dunning` | the job, 1 other worker, 6 days, grant, revoke, close, restore | the job acts on nothing that is no longer due, and access ends only at its deadline |
| `DunningLiveness` | the job and 1 other worker, 5 days, 1 day of grace, a rollout window | queued orders are stopped; silence is noticed; what is overdue is closed; a window nobody enforced is handed back first |
| `Reminders` | 3 runs of the job, TTL 2, 4 moments, 1 occurrence, 1 recipient | leases do not overlap; a skip has a reason; the row implements `Lease`; nobody is reminded twice |
| `Claims` | 2 requests, 3 users, 2 members, 2 claims; archive, restore, promote | an owner is left; one account is linked, to an active plain member; a claim stays its claimant's |
| `ClaimsEnd` | 2 requests, 1 claim; remove | every request ends, opposite lock orders or not |
| `Invited` | 2 requests, 3 users, 3 members, 2 invitations; remove, restore, archive | an invitation is used once; nobody comes in without a usable one |
| `AiCarryOver` | 3 requests, 2 messages, limit 1, 3 days around a short month, 1 renewal | counters agree with requests; a message is answered once; the allowance is kept; no held action is uncounted |
| `AiConfirmations` | 3 requests, 1 proposal, limit 1, 1 confirmation per action | a change is made once, a rejected one never; a decision stands; cards have rows; a confirmation is paid for |
| `Accounts` | 2 requests at a time, 2 users, 1 address, 1 token, 1 passkey, 2 organization requests | a token is used once; a confirmed address is owned; a way in remains; a request is decided once |
| `MemberOwnersAged` | 2 requests, 3 members, aged snapshots | a disagreement: section 6 |

Why the bounds are enough. Two workers are what a race on one row needs, since every reading is checked against one write; the
proofs cover any number. Two orders make a live order and the one that replaces it. Two or three LiqPay events make a payment,
its reversal, and one more from another order. `Month` is 2 or 3 days and `GracePeriod` 1 or 2, so that periods, their grace and
a renewal in between fit in the days of the run. `MaxAttempts` of billing is the 3 of the code.
`CancellationKeepsPaidTime` and `AccessReturnsOnlyWhenPaid` run with one worker: they are about days, and what they say of a step
is decided by the row that step reads. `StaleWindowIsNotSpent` is only checked in `DunningLiveness`, without admins; the theorem about it
allows those that neither revoke nor restore.

Three runs of the reminder job are one that holds the lock, one that takes it over and one that is skipped; the clocks agree in the run
(`Skew = 0`), and the theorems hold for any skew. Two members are an owner and another that is promoted, archived and restored; three make room for one who
joins. Two claims are one that is over and its successor. Three requests race for one action and leave one that is refused, given back or
sent again; days 5 to 7 of a calendar of three-day months with one of two lie across its clamped end. Three requests of a conversation are the message that
proposes and the two that answer its card; `MaxConfirmations = 1` makes the cap bite. In `Accounts` one wrong code burns a token, where the code takes
five: the counter's way there adds no step of another kind. One token is enough for a link and its code; the instances with two tokens and one
request, and those without requests but with two tokens and two addresses, have passed as well. `TelegramUsers` is empty: a Telegram account only
makes a way in that nobody can take.

Fairness, in `DunningLiveness`. `StartJob(TRUE)` is strongly fair: the cron fires every night, though it may meet a
request still running in the `Job` worker. `JobStep` and `JobCall` are weakly fair: a started pass goes on by itself.
`StopAccepted` is strongly fair: LiqPay, asked every night, does not refuse forever; without it nothing could be promised
about somebody else's system. `ResolveUnsubscribeRequest(Job)` is strongly fair too: the database does not fail every time a stop
is to be noted. A process that dies in a pass leaves the phase `killed`, from which the next night starts; the last assumption
says that from some night on this does not happen. Nothing is assumed of requests, callbacks or the payer: they may stop for good.

Fairness, in `ClaimsEnd`. The steps of a request are strongly fair: it goes on by itself, and PostgreSQL serves the queue of a lock, so a
request whose row is free again and again gets it. `EndDeadlock` is weakly fair: the deadlock detector ends one of those that wait in a
circle. Nothing is assumed of what is asked.

## 5. The proofs

They hold for every value of the constants: any number of workers, rows, runs, requests, days. Every invariant the runs check and every
property of a step has its theorem. They assume the named assumptions of the modules, and three of them a hypothesis more, which stands
in the theorem: `OwnerIsLeft`, `AccessEndsOnTime` and `StaleWindowUnspent`, below. Two of the assumptions are about data: LiqPay does not call a payment
"unsubscribed" (`ReportAssumption`), and the rows `Accounts` starts with agree with each other (`InitialAccountsAssumption`).

`BillingProofs`, about `Spec` of `Billing`:

- `TypeCorrect`: `TypeOK` is inductive by itself, because the type of a phase carries what its guard established (a
  request that is canceling has read a row with an order). One lemma per group of actions.
- `CreditedOnce`: `PaymentIsCreditedOnce` is inductive by itself: only a commit writes the log, and only past the two indexes.
- `ReadingCorrect`: the invariant `ReadingInv`, which is `TypeOK` and `Fresh`: a worker that holds a reading and is not
  overtaken holds the row as it is. The properties of a step need it: what `CommitCallback` writes is computed from the
  row as it was read, and the properties compare it with the row as it is. `Fresh` is kept because every action
  that writes the row marks the other readers and releases its own reading.
- `SupersededQueued`: `SupersededOrderIsQueued` with `ReadingInv`: the swap queues the order that is live at the commit,
  which is the order that was read.
- `OnlyCheckoutRenews`, `CreditsAddMonths`: the action properties, from `ReadingInv` and the lemmas about the transitions
  (`PaidType`, `CancellationType`, `DecisionType`).
- `ChargingTracked`, `CanceledQueued`: neither is inductive. An order may be made live, replaced and charged again without a charge of it being
  recorded, so `TrackInv` tracks every order that was ever live (`WasLive`) and still charges. It adds that the live order is one of
  those, that what the log and LiqPay's callbacks say has happened, and that the order a request will queue, stop or take out of the queue, decided
  phases ago, is what the request takes it for (`RequestsAreTrue`).
- `AccessReturnsPaid`, `CancellationKeepsPaid`: `AccessInv` is `TrackInv`, that a row has the dates its status implies, and that a
  request started today or yesterday. Each needs the lemmas about one transition for one status, and that the callback saw the row of its commit.

- `RenewingNotStopped`: `StopInv` adds to `TrackInv` that every order in the queue, or that a worker is about to stop, is over: its page
  is closed or it was live once, and it is live now only if the row is cancelled. An order is queued for what a callback read phases ago, so what
  was read has to stand as well (`ReadingsStand`): a checkout read as closed stays closed, an order turned away is over, and what is over never comes
  back (`OverStays`). It needs the checkout to be read before the subscription, as `findByOrderId` does; the mutant of this property reads
  it again afterwards, and stops an order another callback has just made live.
- `BillingImplementsLedger`: the row, the log and the tables are a `SubscriptionLedger`. Initial states are new books; a commit is `Renew`,
  `Activate`, `Refuse`, `Cancel`, `Withdraw`, `Settle` or a stutter, by its outcome and by what it decides (one lemma each); the rest is
  `Offer`, `Settle`, `Provider`, `PassDay` or a stutter. `StopInv` gives what an entry requires and no guard of the code looks at: that
  a refused order does not renew, that an order ticked off is stopped at LiqPay, that a cancellation is entered once.
- `MonthsKept`: over all its history the paid period is at least a month for every charge credited.

`DunningProofs`, about `DunningSpec`: requests, admins, the passing of days and the job. A step is one of `Billing`'s, or moves only what the job
has in memory, or writes the row as an admin, or writes it as the job; the lemmas that sort it so carry what is proved of requests over to
the whole (`CreditedOnceWithJob`, `SupersededQueuedWithJob`, `OnlyCheckoutRenewsWithJob`). `DunningInv` is `ReadingInv`, which survives because
every admin and the job outdate the readings of others when they write, the types of the pass, that a request or a pass is at most one midnight
old, and that a job between two passes holds nothing. From it:

- `ExemptLeftAlone`: the conditions of the job's updates are judged on the row as it is.
- `ArrearsExplained`, `AccessEndsOnTime`: by cases on who writes. The second assumes `GracePeriod > 1`, the code's is 7 days
  (entitlements.ts:57): a callback that was judged before midnight and commits after it dates its grace from the day before, and with one day of grace
  would end access on the spot. The run `Dunning` has `GracePeriod = 2`.
- `StaleWindowUnspent`: `WindowInv` says that a pass which has handed back the windows nobody enforced meets no other. It assumes that admins neither
  revoke nor restore, for an organization that was closed or complimentary at that step may come back with its old window during the pass.

`ScheduledJobLockProofs`: `LockInv` says that a run inside its lease is the owner of the row to the end of its lease, and that the row
always has an end: its owner's lease, or the moment it gave the row back. Exclusiveness and the reason of a skip follow; a take-over needs
`lock.until < now[r]`, so the time is past the deadline whatever the two clocks show. `LockImplementsLease` maps each step to one of `Lease` or to a stutter.
`RemindersProofs` builds on it: whatever `Reminders` does is a step of the lock or leaves it alone, so `LockInv` holds there; `RemindersInv` adds that
what was sent, and what is stored to be sent, has its rows, and that a recipient another run has already reminded is in a batch only if
one of the two is late.

`MembersProofs`, about `ClaimSpec`: `LinkInv` is the types, exclusive locks, one open claim of a member, and that an approval that waits to write still
holds the claim it judged, while the member is claimable: a removal or an archival has to revoke that claim first, and only members with an account are given an elevated role.
`LinkKept`, `ActiveLinked` and `ClaimantKept` are step properties from it. `OwnerIsLeft` (assuming `AgedSnapshots = FALSE` and an owner at the start) needs
`OwnersInv`: at most one transaction that takes owners away is past its locks, since it holds the lock of an owner nobody else can take
away; and when it comes to write, another owner is left.

`AiProofs`: `AllowanceKept` from `Cardinality(Holders(w)) <= used[w] <= Limit` for every window no move has lowered; `AnsweredOnce`
from the unique client id that a request holds from its start to a recorded failure; `MadeOnce`, `RejectedNotMade`, `DecisionKept` about `ConversationSpec`
from one invariant per proposal that says, for each status, who has claimed it and whether its change was made.
`TurnsInv` says that a row a proposal has is kept, that the cards of a stored message and those a confirmation has loaded have rows,
and that a request which proposes something, or which another goes back to, is a confirmation or a message that is past giving its action
back. That the loaded message is one of the stored ones needs the history to have a newest message, which the invariant carries along. Hence `CardsHaveRows` and
`ConfirmationsArePaid`. `CountersMatch`: `MatchInv` says that until a move lowers a counter each counts exactly the requests that hold an action of its
window, and that what is recorded of a request is what it holds. `HeldCounted` compares sums over all windows; `HeldActionsAreCounted` says it with the cardinality of a set of counted actions, so
that `SumInv` follows a step by what it adds to the set and takes from it, without induction over windows.

`InvitationsProofs`, about `InvitationSpec`: `JoinInv` is the types, that a pending invitation is nobody's yet, and that the rows a request has read are still there:
the member's row still the actor's, the invitation's target as it was. Each step is then shown to be `Orderly`: only an acceptance sets who used an
invitation, or makes a removed member active. `InvitationUsedOnce` and `JoinsInvited` follow.

`AccountsProofs`, about `RequestsSpec`: `TokenInv` is the types, that a worker's fields fit its step, that a token being redeemed is addressed, and that
a worker past the redemption is the only one of its token and no session has been opened by it yet. `RequestsAreDecidedOnce` is a step property;
`RequestTypesHold` is the types. `VerifiedAddressesAreOwned` and `SignInMethodsRemain` follow from `WaysInv`: rows stand as long as the user they
belong to, and what a request under way has read of its user (`StandsAt`) is still so unless another request overtook it.

Model-checked only: the four properties of liveness (`QueuedOrderIsStopped`, `SilenceIsNoticed`, `OverdueIsClosed`, `RequestsEnd`), since liveness under
fairness and ENABLED are out of the prover's reach. So is what recursive definitions compute: the proofs about the allowance hold for
any windows, not only for those `UsageWindows` computes. `ChargingOrderIsTracked`, `CanceledOrderIsQueued`, `EveryCreditAddsAMonth` the two
access properties, `RenewingOrderIsNotStopped` and `ImplementsLedger` of `Billing` are proved of `Spec`, that is of requests. With admins the second is
false (section 6), and so is `RenewingOrderIsNotStopped`, as it should be: a complimentary grant queues the live order and leaves the row uncancelled. The
others are not claimed there. `TypeOK` and `OnlyNewCheckoutRenews` of `Billing` are proved and no longer checked by a run; the second follows from the ledger, in which only
`Activate` takes a cancellation back.

## 6. Where the code and its comments disagree

`MemberOwnersAged` shows the one that is kept as a run: archiving, removing and changing a role lock the owners with `SELECT ... FOR UPDATE`, which in
READ COMMITTED looks again only at the rows its snapshot had. An owner that is restored or promoted in between is not locked, so two requests can each count
two owners and each take one away. "Downgrading or removing the last active owner is blocked transactionally" (docs/invitations.md:53).

The others have their property in the module. TLC finds each violated with the constants given, those not named being as in the run
named (`Sums = {TRUE}` everywhere, no admins' operation, proposal or claim but those named). For a run of their own, list the
property as the only INVARIANT or PROPERTY.

| Property (module) | Constants | What happens | What the repository says |
| --- | --- | --- | --- |
| `OutOfOrderChargeIsTracked` (`Billing`) | `BillingRaces` with 1 worker, `MaxEvents = 3`, `Stamped = TRUE` | a payment of a new checkout that is overtaken by a later event of another order is recorded and acted on by nothing: not credited, its order neither live nor queued, and charging | "LiqPay keeps charging with nothing left in the system aware of it" is what `orderToStop` is to prevent (billing.service.ts:754) |
| `ReversedPaymentIsNotCredited` (`Billing`) | `BillingRaces` with `Orders = {o1}`, `MaxEvents = 3` | the payment history is read before the transaction; a reversal recorded in between that changes no row is not seen, and the payment is credited | "a late delivery of an outcome that has already been superseded" (subscription-transitions.ts:14) |
| `ExemptOrganizationIsNotCharged` (`BillingAdministration`) | `AdminSpec`, `BillingRaces` with `Orders = {o1}`, `LegacyOrders = {}`, `MaxEvents = 3`, `AdminOperations = {"GRANT"}` | `startCheckout` looks at the flag, awaits the exchange rate, then creates the order; a grant in between leaves a payable page | "An organization told it pays nothing must not keep being charged" (organizations.repository.ts:252) |
| `CanceledOrderIsQueued` (`BillingAdministration`) | `AdminSpec`, `BillingRaces` with `MaxEvents = 3`, `AdminOperations = {"CLOSE"}` | a status change writes a cancellation over a checkout paid since it read the row, which stays live and unqueued | "Stopping the order is therefore part of the status change" (organizations.repository.ts:332) |
| `SomeOwner` (`Invitations`) | `Invited` with 2 users and members, 1 invitation, `Operations = {"restore", "archive"}` | an acceptance writes its role over an archived member that was restored as owner in between and is the only one left | docs/invitations.md:53, as above |
| `HistoryIsAppendOnly` (`Invitations`) | `Invited` with `InitialMembers <- OneOwner`, 1 invitation, `Roles = {"ADMIN", "MEMBER"}`, `Operations = {}` | a revocation writes REVOKED over an acceptance | "accepted and revoked history remains append-only" (docs/invitations.md:30) |
| `RemovedMemberHasNoOpenClaim` (`MembershipClaims`) | `Claims` with `Roles = {}`, `Operations = {"remove"}` | a claim is inserted for a member whose removal committed after the check | "Removing a membership revokes active claims" (docs/manual-members.md:29) |
| `MoveIsExclusive` (`AiAllowance`) | `AiCarryOver` with 1 request, 1 message, days 4 to 8 | a counter created after the move took its locks is reserved from while it runs | "an action reserved there while this runs waits for the move" (subscriptions.repository.ts:370) |
| `OnlyAnsweredIsDuplicate` (`AiAllowance`) | `AiCarryOver` with 2 requests, 1 message, day 4, `Renewals = 0` | a message whose process died, or whose outcome was lost, is refused from then on | "only an answered one is a duplicate" (ai-assistant.repository.ts:266) |
| `EarlyRenewalKeepsWindow` (`AiAllowance`) | as for `MoveIsExclusive` | a period that ends on the 31st and is paid ahead of time moves its window to another day, and the allowance starts again | "the window does not move" (apps/api/test/ai-assistant-policies.test.cjs:183) |
| `ConfirmationsAreCapped` (`AiConversation`) | `AiConfirmations` | confirmations that arrive together all count fewer than the limit | "they are free - and therefore capped" (packages/shared/src/ai-assistant.ts:31) |
| `ConfirmationHasItsAction` (`AiConversation`) | `AiConfirmations` with 2 requests, `MaxConfirmations = 2` | a card is confirmed before its turn is stored: the confirmation counts for no action | "so both count as one action" (ai-assistant.repository.ts:282) |
| `AnswerHasAConversation` (`AiConversation`) | `AiConfirmations` with 2 requests, `MaxConfirmations = 2` | the refused copy of a first message deletes the conversation the other copy is answering in | "the turn is saved when it is really over" (ai-assistant.service.ts:584) |
| `SomeSignInMethod` (`Accounts`) | `Accounts` with `Passkeys = {k1, k2}` | two removals at once both count two methods | "between them take the last way back into the account" is to be ruled out (auth/passkeys/passkeys.repository.ts:186) |

Three more, without a property of their own. A status change writes a cancellation it computed on the row as it read it (organizations.repository.ts:364-388):
a payment in between is put back into arrears, and time it bought is cut, though the cancellation "keeps access that has already been paid for rather than
cutting it short" (organizations.repository.ts:383). `ArrearsNeedAReason` and `AccessEndsOnlyAtItsDeadline` therefore name that step as a
reason; without it TLC finds both violated with `AdminSpec`, 2 workers for requests, 1 order, `MaxEvents = 2` and `AdminOperations = {"CLOSE"}`. `VerifiedAddressIsOwned` fails in the run `Accounts` if its exception for `overtaken` users is dropped: a
verification link that is redeemed across a change of the address confirms the new address, which nobody has shown to own, while the old one
gets the email account. And an email account left behind that way makes the insert of `CreateAdmittedEmailUser` fail for the next user of that address.

## 7. Not modelled

The map covers about one line in fifteen of the implementation. Most of the rest has no behaviour that a state machine would say anything about: pages and
components of the web client, message texts of the Telegram bot and of e-mails, schemas, controllers that pass on what they get, listings and
projections. The other components create, edit and delete rows of their own, each by one transaction guarded by a role check (budgets,
groups, knowledge, prayer requests, websites, media): a model would repeat their assignments. The components marked `not_modelled` in
`PROJECT.json` give the reason.

Within what is modelled: notifications of billing, audit rows, the exchange rate and the warnings of the nightly job; two passes
of the nightly job at once (its lock is checked with `Reminders`); a callback without a payment id, which is refused before anything is read; profiles,
imports and relationships of members; the calendar windows of exempt organizations, retries that replace a stored attempt, pricing and the retention
purge of the assistant; digests, retention, the inbox and the arithmetic of recurrences; session rotation and expiry, Telegram login, WebAuthn
challenges, and the bootstrap token.
