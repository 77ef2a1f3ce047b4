-------------------------- MODULE RemindersProofs --------------------------
(***************************************************************************)
(* Proofs about Reminders: what the lock promises of the runs carries over *)
(* to the job that runs under it, for any number of runs, occurrences and  *)
(* recipients.                                                             *)
(***************************************************************************)
EXTENDS Reminders, ScheduledJobLockProofs

\* The job runs under the lock and never touches it.
LEMMA StepsOfTheLock == [ReminderNext]_allVars => [Next]_vars
<1> SUFFICES ASSUME [ReminderNext]_allVars PROVE [Next]_vars
  OBVIOUS
<1>1. CASE UNCHANGED allVars
  BY <1>1 DEF allVars
<1>2. ASSUME NEW r \in Runs, LockStep(r) PROVE Next
  BY <1>2 DEF LockStep, Next, Step
<1>3. ASSUME NEW r \in Runs, ReminderStep(r) PROVE [Next]_vars
  BY <1>3 DEF ReminderStep, ListDue, FindRecipients, CreateNotifications, FailBatch, Deliver,
     ReminderJobEnds, Next, Step
<1>4. ASSUME NEW u \in Recipients, UpdatePreferences(u) PROVE UNCHANGED vars
  BY <1>4 DEF UpdatePreferences
<1>5. CASE Tick /\ UNCHANGED reminderVars
  BY <1>5 DEF Next
<1> QED
  BY <1>1, <1>2, <1>3, <1>4, <1>5 DEF ReminderNext

LEMMA UnderTheLock == ReminderSpec => Spec
<1>1. ReminderInit => Init
  BY DEF ReminderInit
<1> QED
  BY <1>1, StepsOfTheLock, PTL DEF ReminderSpec, Spec

\* The inductive invariant: what is stored, and who sends what another has sent.
RemindersInv ==
    /\ ReminderTypeOK
    /\ SentIsStored /\ BatchesAreOfTheJob /\ LateIfSentBefore /\ RemindedOnce

LEMMA RemindersInit == ReminderInit => RemindersInv
<1> SUFFICES ASSUME ReminderInit PROVE RemindersInv
  OBVIOUS
<1>1. ReminderTypeOK /\ SentIsStored /\ BatchesAreOfTheJob /\ LateIfSentBefore /\ RemindedOnce
  BY DEF ReminderInit, ReminderTypeOK, SentIsStored, BatchesAreOfTheJob, LateIfSentBefore,
     RemindedOnce, Batches, NoBatch
<1> QED
  BY <1>1 DEF RemindersInv

\* Doing one occurrence leaves a list of occurrences.
LEMMA PastIsDue ==
    ASSUME NEW r \in Runs, ReminderTypeOK, due[r] # NotListed
    PROVE  /\ Past(r) \in [Runs -> [listed : {"yes"}, occurrences : SUBSET Occurrences] \cup {NotListed}]
           /\ \A s \in Runs : due[s] # NotListed => Past(r)[s] # NotListed
<1>1. due[r] \in [listed : {"yes"}, occurrences : SUBSET Occurrences]
  BY DEF ReminderTypeOK
<1>2. Past(r)[r] \in [listed : {"yes"}, occurrences : SUBSET Occurrences]
  BY <1>1 DEF Past, ReminderTypeOK
<1>3. Past(r)[r] # NotListed
  BY <1>2 DEF NotListed
<1>4. /\ DOMAIN Past(r) = Runs /\ Past(r) = [s \in Runs |-> Past(r)[s]]
      /\ \A s \in Runs \ {r} : Past(r)[s] = due[s]
  BY DEF Past, ReminderTypeOK
<1>5. \A s \in Runs \ {r} :
         due[s] \in [listed : {"yes"}, occurrences : SUBSET Occurrences] \cup {NotListed}
  BY DEF ReminderTypeOK
<1> HIDE DEF Past
<1> QED
  BY <1>2, <1>3, <1>4, <1>5

LEMMA RemindersStep ==
    /\ RemindersInv /\ LockInv /\ LeaseIsExclusive
    /\ [ReminderNext]_allVars
    => RemindersInv'
<1> SUFFICES ASSUME RemindersInv, LockInv, LeaseIsExclusive, [ReminderNext]_allVars
             PROVE  RemindersInv'
  OBVIOUS
<1> USE LockAssumption, ReminderAssumption
<1>t. /\ ReminderTypeOK
      /\ SentIsStored /\ BatchesAreOfTheJob /\ LateIfSentBefore /\ RemindedOnce
      /\ TypeOK
  BY DEF RemindersInv, LockInv
<1>i. time \in Int /\ \A r \in Runs : Deadline(r) \in Int
  BY <1>t DEF TypeOK, Deadline
<1>1. CASE UNCHANGED allVars
  BY <1>t, <1>1 DEF allVars, vars, reminderVars, RemindersInv, ReminderTypeOK, SentIsStored,
     BatchesAreOfTheJob, LateIfSentBefore, RemindedOnce, Sends, Working, Deadline
<1>2. ASSUME NEW r \in Runs, LockStep(r) PROVE RemindersInv'
  <2>1. UNCHANGED reminderVars /\ time' = time
    BY <1>2 DEF LockStep, RunOnce, CreateLock, LockExists, TakeOver, Skip, Release, Die
  <2>2. \A s \in Runs : batch[s] # NoBatch =>
            /\ phase'[s] \in {"running", "dead"} /\ (phase'[s] = "running" => phase[s] = "running")
            /\ now'[s] = now[s]
    BY <1>t, <1>2 DEF LockStep, RunOnce, CreateLock, LockExists, TakeOver, Skip, Release, Die, Goto,
       BatchesAreOfTheJob, TypeOK
  <2>3. LateIfSentBefore'
    BY <1>t, <2>1, <2>2 DEF reminderVars, LateIfSentBefore, Sends, Working, Deadline
  <2> QED
    BY <1>t, <2>1, <2>2, <2>3 DEF reminderVars, RemindersInv, ReminderTypeOK, SentIsStored,
       BatchesAreOfTheJob, RemindedOnce, Sends
<1>3. ASSUME NEW r \in Runs, ListDue(r) PROVE RemindersInv'
  <2>1. ReminderTypeOK'
    BY <1>t, <1>3 DEF ListDue, Listed, ReminderTypeOK
  <2>2. /\ UNCHANGED <<vars, notifications, preferences, batch, sent>> /\ batch[r] = NoBatch
        /\ \A s \in Runs \ {r} : due'[s] = due[s]
    BY <1>t, <1>3 DEF ListDue, BatchesAreOfTheJob, ReminderTypeOK
  <2>3. BatchesAreOfTheJob'
    BY <1>t, <2>2 DEF BatchesAreOfTheJob, vars
  <2> QED
    BY <1>t, <2>1, <2>2, <2>3 DEF vars, RemindersInv, SentIsStored,
       LateIfSentBefore, RemindedOnce, Sends, Working, Deadline
<1>4. ASSUME NEW r \in Runs, FindRecipients(r) PROVE RemindersInv'
  <2> DEFINE new(o) == {u \in Recipients : preferences[u] # {}} \ Reminded(o)
             services(o) == {u \in Recipients : "service" \in preferences[u]} \ Reminded(o)
  <2>1. PICK o \in due[r].occurrences :
            batch' = [batch EXCEPT ![r] = Batch("found", o, new(o), services(o))]
    BY <1>4 DEF FindRecipients
  <2>2. /\ o \in Occurrences /\ Working(r) /\ due[r] # NotListed
        /\ UNCHANGED <<vars, notifications, preferences, due, sent>>
    BY <1>t, <1>4 DEF FindRecipients, ReminderTypeOK
  <2>3. Batch("found", o, new(o), services(o)) \in Batches /\ services(o) \subseteq new(o)
    BY <2>2 DEF Batch, Batches
  <2> HIDE DEF new, services
  <2>4. ReminderTypeOK'
    BY <1>t, <2>1, <2>2, <2>3 DEF ReminderTypeOK
  <2>5. SentIsStored'
    BY <1>t, <2>1, <2>2, <2>3 DEF SentIsStored, Sends, Batch, ReminderTypeOK
  <2>6. BatchesAreOfTheJob'
    <3> SUFFICES ASSUME NEW s \in Runs, batch'[s] # NoBatch
                 PROVE  phase'[s] \in {"running", "dead"} /\ due'[s] # NotListed
      BY DEF BatchesAreOfTheJob
    <3>1. CASE s = r
      BY <2>2, <3>1 DEF Working, vars
    <3>2. CASE s # r
      BY <1>t, <2>1, <2>2, <3>2 DEF BatchesAreOfTheJob, vars, ReminderTypeOK
    <3> QED
      BY <3>1, <3>2
  <2>7. \A m \in sent : m.to \notin {o} \X services(o)
    BY <1>t DEF SentIsStored, services, Reminded
  <2>8. LateIfSentBefore'
    BY <1>t, <2>1, <2>2, <2>7 DEF LateIfSentBefore, Sends, Batch, Working, Deadline, vars, ReminderTypeOK
  <2> QED
    BY <1>t, <2>2, <2>4, <2>5, <2>6, <2>8 DEF RemindersInv, RemindedOnce
<1>5. ASSUME NEW r \in Runs, CreateNotifications(r) PROVE RemindersInv'
  <2>1. /\ notifications' = notifications \cup ({batch[r].occurrence} \X batch[r].new)
        /\ batch' = [batch EXCEPT ![r].stage = "stored"]
        /\ batch[r].stage = "found" /\ Working(r)
        /\ UNCHANGED <<vars, preferences, due, sent>>
    BY <1>5 DEF CreateNotifications
  <2>2. /\ batch[r] \in Batches /\ batch[r] # NoBatch
        /\ batch'[r] = [batch[r] EXCEPT !.stage = "stored"]
        /\ \A s \in Runs \ {r} : batch'[s] = batch[s]
    BY <1>t, <2>1 DEF ReminderTypeOK, NoBatch
  <2>3. /\ batch'[r] \in Batches /\ batch'[r] # NoBatch /\ batch'[r].stage = "stored"
        /\ batch'[r].occurrence = batch[r].occurrence
        /\ batch'[r].new = batch[r].new /\ batch'[r].services = batch[r].services
        /\ batch[r].occurrence \in Occurrences /\ batch[r].new \subseteq Recipients
    BY <2>1, <2>2 DEF Batches, NoBatch
  <2>4. ReminderTypeOK'
    BY <1>t, <2>1, <2>3 DEF ReminderTypeOK
  <2>5. SentIsStored'
    BY <1>t, <2>1, <2>2, <2>3 DEF SentIsStored, Sends
  <2>6. BatchesAreOfTheJob'
    BY <1>t, <2>1, <2>2, <2>3 DEF BatchesAreOfTheJob, vars
  <2>7. LateIfSentBefore'
    BY <1>t, <2>1, <2>2, <2>3 DEF LateIfSentBefore, Sends, Working, Deadline, vars
  <2> QED
    BY <1>t, <2>1, <2>4, <2>5, <2>6, <2>7 DEF RemindersInv, RemindedOnce
<1>6. ASSUME NEW r \in Runs, FailBatch(r) PROVE RemindersInv'
  <2>1. /\ batch' = [batch EXCEPT ![r] = NoBatch]
        /\ due' = Past(r) /\ batch[r].stage = "found"
        /\ UNCHANGED <<vars, notifications, preferences, sent>>
    BY <1>6 DEF FailBatch
  <2>2. /\ due' \in [Runs -> [listed : {"yes"}, occurrences : SUBSET Occurrences] \cup {NotListed}]
        /\ \A s \in Runs : due[s] # NotListed => due'[s] # NotListed
    <3>1. batch[r] # NoBatch
      BY <2>1 DEF NoBatch
    <3> QED
      BY <1>t, <2>1, <3>1, PastIsDue DEF BatchesAreOfTheJob
  <2>3. ReminderTypeOK'
    BY <1>t, <2>1, <2>2 DEF ReminderTypeOK, Batches
  <2>4. BatchesAreOfTheJob'
    BY <1>t, <2>1, <2>2 DEF BatchesAreOfTheJob, vars, ReminderTypeOK
  <2>5. SentIsStored'
    BY <1>t, <2>1 DEF SentIsStored, Sends, NoBatch, ReminderTypeOK
  <2>6. LateIfSentBefore'
    BY <1>t, <2>1 DEF LateIfSentBefore, Sends, Working, Deadline, vars, ReminderTypeOK
  <2> QED
    BY <1>t, <2>1, <2>3, <2>4, <2>5, <2>6 DEF RemindersInv, RemindedOnce
<1>7. ASSUME NEW r \in Runs, Deliver(r) PROVE RemindersInv'
  <2> DEFINE o == batch[r].occurrence
             late == time > Deadline(r)
  <2>1. PICK reached \in SUBSET batch[r].services :
            sent' = sent \cup {Mail(r, o, u, late) : u \in reached}
    BY <1>7 DEF Deliver
  <2>2. /\ batch' = [batch EXCEPT ![r] = NoBatch]
        /\ due' = Past(r) /\ batch[r].stage = "stored" /\ Working(r)
        /\ UNCHANGED <<vars, notifications, preferences>>
    BY <1>7 DEF Deliver
  <2>3. /\ batch[r] \in Batches /\ batch[r] # NoBatch
        /\ o \in Occurrences /\ batch[r].services \subseteq Recipients
    BY <1>t, <2>2 DEF ReminderTypeOK, Batches, NoBatch
  <2>4. /\ due' \in [Runs -> [listed : {"yes"}, occurrences : SUBSET Occurrences] \cup {NotListed}]
        /\ \A s \in Runs : due[s] # NotListed => due'[s] # NotListed
    BY <1>t, <2>2, <2>3, PastIsDue DEF BatchesAreOfTheJob
  <2> DEFINE fresh == {Mail(r, o, u, late) : u \in reached}
  <2>5. \A m \in fresh :
            /\ m \in [run : Runs, to : Occurrences \X Recipients, late : BOOLEAN]
            /\ m.run = r /\ m.to \in Sends(r) /\ m.late = late
    <3>1. late \in BOOLEAN
      OBVIOUS
    <3> HIDE DEF late
    <3> QED
      BY <2>3, <3>1 DEF Mail, Sends
  <2>6. sent' = sent \cup fresh
    BY <2>1
  <2> HIDE DEF o, fresh
  <2>7. ReminderTypeOK'
    BY <1>t, <2>2, <2>4, <2>5, <2>6 DEF ReminderTypeOK, Batches
  <2>8. SentIsStored'
    BY <1>t, <2>2, <2>5, <2>6 DEF SentIsStored, Sends, NoBatch, ReminderTypeOK
  <2>9. BatchesAreOfTheJob'
    BY <1>t, <2>2, <2>4 DEF BatchesAreOfTheJob, vars, ReminderTypeOK
  <2>10. ASSUME NEW s \in Runs, s # r, Working(s), batch[s] # NoBatch
         PROVE  late \/ time > Deadline(s)
    BY <1>i, <2>2, <2>10 DEF LeaseIsExclusive, AtWork, Working
  <2>11. LateIfSentBefore'
    <3> SUFFICES ASSUME NEW m \in sent', NEW s \in Runs, m.run # s, Working(s)', batch'[s] # NoBatch,
                        m.to \in Sends(s)'
                 PROVE  m.late \/ (time > Deadline(s))'
      BY DEF LateIfSentBefore
    <3>1. s # r /\ batch'[s] = batch[s] /\ Working(s) /\ m.to \in Sends(s) /\ Deadline(s)' = Deadline(s)
      BY <1>t, <2>2 DEF ReminderTypeOK, Sends, Working, Deadline, vars
    <3> QED
      BY <1>t, <2>2, <2>5, <2>6, <2>10, <3>1 DEF LateIfSentBefore, vars
  <2>12. RemindedOnce'
    <3>1. ASSUME NEW m \in sent, NEW n \in fresh, m.run # n.run, m.to = n.to
          PROVE  m.late \/ n.late
      BY <1>t, <2>2, <2>3, <2>5, <3>1 DEF LateIfSentBefore
    <3> QED
      BY <1>t, <2>5, <2>6, <3>1 DEF RemindedOnce
  <2> QED
    BY <2>7, <2>8, <2>9, <2>11, <2>12 DEF RemindersInv
<1>8. ASSUME NEW r \in Runs, ReminderJobEnds(r) PROVE RemindersInv'
  <2>1. /\ batch[r] = NoBatch /\ phase' = [phase EXCEPT ![r] = "releasing"]
        /\ UNCHANGED <<reminderVars, time, now>>
    BY <1>8 DEF ReminderJobEnds, JobEnds, Goto
  <2> QED
    BY <1>t, <2>1 DEF reminderVars, RemindersInv, ReminderTypeOK,
       SentIsStored, BatchesAreOfTheJob, LateIfSentBefore, RemindedOnce, Sends, Working, Deadline, TypeOK
<1>9. ASSUME NEW u \in Recipients, UpdatePreferences(u) PROVE RemindersInv'
  <2>1. preferences' \in [Recipients -> Preferences]
    BY <1>t, <1>9 DEF UpdatePreferences, ReminderTypeOK
  <2> QED
    BY <1>t, <1>9, <2>1 DEF UpdatePreferences, vars, RemindersInv, ReminderTypeOK, SentIsStored,
       BatchesAreOfTheJob, LateIfSentBefore, RemindedOnce, Sends, Working, Deadline
<1>10. CASE Tick /\ UNCHANGED reminderVars
  <2>1. /\ time' = time + 1 /\ UNCHANGED <<phase, now>> /\ UNCHANGED reminderVars
    BY <1>10 DEF Tick
  <2>2. LateIfSentBefore'
    BY <1>t, <1>i, <2>1 DEF reminderVars, LateIfSentBefore, Sends, Working, Deadline
  <2> QED
    BY <1>t, <2>1, <2>2 DEF reminderVars, RemindersInv, ReminderTypeOK, SentIsStored,
       BatchesAreOfTheJob, RemindedOnce, Sends
<1> QED
  BY <1>1, <1>2, <1>3, <1>4, <1>5, <1>6, <1>7, <1>8, <1>9, <1>10 DEF ReminderNext, ReminderStep

\* The invariant, which takes from the lock that no two runs are at work within their
\* leases (createDueReminderNotifications under runExclusive).
THEOREM RemindersInvariant == ReminderSpec => []RemindersInv
<1>1. ReminderSpec => [](LockInv /\ LeaseIsExclusive)
  BY UnderTheLock, LockInvariant, LeaseExclusive, PTL
<1> QED
  BY <1>1, RemindersInit, RemindersStep, PTL DEF ReminderSpec

\* Two runs never remind one recipient of one occurrence while both keep to their
\* leases, for any number of runs and recipients and any difference of their clocks
\* within Skew (createDueReminderNotifications,
\* createNotificationsForEligibleRecipients, dispatchToEnabledServices).
THEOREM RemindersOnce == ReminderSpec => []RemindedOnce
<1>1. RemindersInv => RemindedOnce
  BY DEF RemindersInv
<1> QED
  BY <1>1, RemindersInvariant, PTL
=============================================================================
