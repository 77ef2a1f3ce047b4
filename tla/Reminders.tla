----------------------------- MODULE Reminders -----------------------------
(***************************************************************************)
(* The job that reminds members of what is in the calendar: every instance *)
(* starts it every few minutes under the lock of ScheduledJobLock, and it  *)
(* stores a notification for each recipient and then sends it by e-mail    *)
(* or Telegram (calendar-event-reminders.scheduler.ts,                     *)
(* calendar-events.service.ts, the notifications' repository and service). *)
(* Who is reminded is settled by rows the job reads before it writes, so   *)
(* two runs at once may both send.                                         *)
(***************************************************************************)
EXTENDS ScheduledJobLock

CONSTANTS Occurrences,     \* what is due, one dedupe key each
          DueAt,           \* Occurrences -> when
          Window,          \* REMINDER_WINDOW_MS
          Recipients,
          Preferences      \* what a recipient may have enabled

ASSUME ReminderAssumption ==
    /\ DueAt \in [Occurrences -> Int]
    /\ Window \in Nat
    /\ Preferences \subseteq SUBSET {"inApp", "service"}

VARIABLES notifications,   \* the rows: <<occurrence, recipient>>
          preferences,     \* recipient -> what it has enabled
          due,             \* run -> what it has still to do, or NotListed
          batch,           \* run -> what it is storing or sending, or NoBatch
          sent             \* history: what was sent, by which run, and whether too late

reminderVars == <<notifications, preferences, due, batch, sent>>
allVars == <<vars, reminderVars>>

NotListed == [listed |-> "no"]
Listed(work) == [listed |-> "yes", occurrences |-> work]

NoBatch == [stage |-> "none"]
Batch(stage, o, new, services) ==
    [stage |-> stage, occurrence |-> o, new |-> new, services |-> services]

ReminderInit ==
    /\ Init
    /\ notifications = {}
    /\ preferences \in [Recipients -> Preferences]
    /\ due = [r \in Runs |-> NotListed]
    /\ batch = [r \in Runs |-> NoBatch]
    /\ sent = {}

Working(r) == phase[r] = "running"

-----------------------------------------------------------------------------
(* The job of one run. *)

\* What fell due in the window that ends now, by the instance's clock, both ends
\* included.
ListDue(r) ==
    /\ Working(r) /\ due[r] = NotListed
    /\ \E reading \in Clock :
          due' = [due EXCEPT ![r] =
                    Listed({o \in Occurrences : DueAt[o] \in (reading - Window) .. reading})]
    /\ UNCHANGED <<vars, notifications, preferences, batch, sent>>

Reminded(o) == {u \in Recipients : <<o, u>> \in notifications}

\* A mistake: who only wants e-mail leaves no row.
FindRecipientsInApp(r) ==
    /\ Working(r) /\ due[r] # NotListed /\ batch[r] = NoBatch
    /\ \E o \in due[r].occurrences :
          batch' = [batch EXCEPT ![r] =
              Batch("found", o,
                    {u \in Recipients : "inApp" \in preferences[u]} \ Reminded(o),
                    {u \in Recipients : "service" \in preferences[u]} \ Reminded(o))]
    /\ UNCHANGED <<vars, notifications, preferences, due, sent>>

\* Who wants to be reminded at all, and has not been.
FindRecipients(r) ==
    /\ Working(r) /\ due[r] # NotListed /\ batch[r] = NoBatch
    /\ \E o \in due[r].occurrences :
          batch' = [batch EXCEPT ![r] =
              Batch("found", o,
                    {u \in Recipients : preferences[u] # {}} \ Reminded(o),
                    {u \in Recipients : "service" \in preferences[u]} \ Reminded(o))]
    /\ UNCHANGED <<vars, notifications, preferences, due, sent>>

\* createMany, skipDuplicates: who only wants e-mail gets a row as well, put away.
CreateNotifications(r) ==
    /\ Working(r) /\ batch[r].stage = "found"
    /\ notifications' = notifications \cup ({batch[r].occurrence} \X batch[r].new)
    /\ batch' = [batch EXCEPT ![r].stage = "stored"]
    /\ UNCHANGED <<vars, preferences, due, sent>>

Past(r) == [due EXCEPT ![r].occurrences = @ \ {batch[r].occurrence}]

\* The query or the insert fails: this occurrence is given up and the next one is
\* tried.
FailBatch(r) ==
    /\ Working(r) /\ batch[r].stage = "found"
    /\ due' = Past(r)
    /\ batch' = [batch EXCEPT ![r] = NoBatch]
    /\ UNCHANGED <<vars, notifications, preferences, sent>>

Mail(r, o, u, late) == [run |-> r, to |-> <<o, u>>, late |-> late]

\* Each delivery may fail by itself; none is tried again.
Deliver(r) ==
    /\ Working(r) /\ batch[r].stage = "stored"
    /\ \E reached \in SUBSET batch[r].services :
          sent' = sent \cup {Mail(r, batch[r].occurrence, u, time > Deadline(r)) : u \in reached}
    /\ due' = Past(r)
    /\ batch' = [batch EXCEPT ![r] = NoBatch]
    /\ UNCHANGED <<vars, notifications, preferences>>

\* The job is over, or a query outside the loop threw.
ReminderJobEnds(r) ==
    /\ batch[r] = NoBatch
    /\ JobEnds(r)
    /\ UNCHANGED reminderVars

UpdatePreferences(u) ==
    /\ \E enabled \in Preferences \ {preferences[u]} :
          preferences' = [preferences EXCEPT ![u] = enabled]
    /\ UNCHANGED <<vars, notifications, due, batch, sent>>

-----------------------------------------------------------------------------

\* Around the job: the lock.
LockStep(r) ==
    /\ \/ RunOnce(r)
       \/ CreateLock(r) \/ LockExists(r) \/ TakeOver(r) \/ Skip(r)
       \/ Release(r)
       \/ Die(r)
    /\ UNCHANGED reminderVars

ReminderStep(r) ==
    \/ ListDue(r)
    \/ FindRecipients(r) \/ CreateNotifications(r) \/ FailBatch(r) \/ Deliver(r)
    \/ ReminderJobEnds(r)

ReminderNext ==
    \/ \E r \in Runs : LockStep(r) \/ ReminderStep(r)
    \/ \E u \in Recipients : UpdatePreferences(u)
    \/ Tick /\ UNCHANGED reminderVars

ReminderSpec == ReminderInit /\ [][ReminderNext]_allVars

-----------------------------------------------------------------------------

Batches ==
    [stage : {"found", "stored"}, occurrence : Occurrences,
     new : SUBSET Recipients, services : SUBSET Recipients] \cup {NoBatch}

ReminderTypeOK ==
    /\ notifications \subseteq Occurrences \X Recipients
    /\ preferences \in [Recipients -> Preferences]
    /\ due \in [Runs -> [listed : {"yes"}, occurrences : SUBSET Occurrences] \cup {NotListed}]
    /\ batch \in [Runs -> Batches]
    /\ sent \subseteq [run : Runs, to : Occurrences \X Recipients, late : BOOLEAN]

\* What r is about to send.
Sends(r) == {batch[r].occurrence} \X batch[r].services

\* A batch that is stored, and whatever was sent, has its rows.
SentIsStored ==
    /\ \A r \in Runs : batch[r].stage = "stored" => Sends(r) \subseteq notifications
    /\ \A r \in Runs : batch[r].stage = "found" => batch[r].services \subseteq batch[r].new
    /\ \A m \in sent : m.to \in notifications

\* Only a run that is in the job, or has died in it, has a batch.
BatchesAreOfTheJob ==
    \A r \in Runs :
        batch[r] # NoBatch => phase[r] \in {"running", "dead"} /\ due[r] # NotListed

\* What another run has sent while r was about to, one of them sent too late.
LateIfSentBefore ==
    \A m \in sent, r \in Runs :
        m.run # r /\ Working(r) /\ batch[r] # NoBatch /\ m.to \in Sends(r) =>
            m.late \/ time > Deadline(r)

\* Nobody is reminded of one thing twice, whichever instances run the job and
\* whatever the recipient enables or disables meanwhile, unless a run has outlived its
\* lease (createDueReminderNotifications, createNotificationsForEligibleRecipients,
\* dispatchToEnabledServices, runOnce).
RemindedOnce ==
    \A m, n \in sent : m.run # n.run /\ m.to = n.to => m.late \/ n.late
=============================================================================
