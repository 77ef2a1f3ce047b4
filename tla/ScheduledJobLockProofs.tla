----------------------- MODULE ScheduledJobLockProofs -----------------------
(***************************************************************************)
(* Proofs about ScheduledJobLock, for any number of runs, any time to live *)
(* and any skew of the clocks.                                             *)
(***************************************************************************)
EXTENDS ScheduledJobLock, TLAPS

LEMMA LockInvInit == Init => LockInv
<1> SUFFICES ASSUME Init PROVE LockInv
  OBVIOUS
<1> USE LockAssumption DEF Init
<1>1. TypeOK
  BY DEF TypeOK, Locks, NoLock, Phases
<1>2. ClocksAreClose
  BY DEF ClocksAreClose
<1>3. OwnsItsLease
  BY DEF OwnsItsLease, AtWork
<1>4. LockHasAnEnd
  BY DEF LockHasAnEnd
<1>5. LockStays
  BY DEF LockStays
<1> QED
  BY <1>1, <1>2, <1>3, <1>4, <1>5 DEF LockInv

\* A lock that exists is a row with an owner among the runs and an end.
LEMMA ExistingLock ==
    ASSUME lock \in Locks, lock # NoLock
    PROVE  lock.owner \in Runs /\ lock.until \in Int
  BY DEF Locks

LEMMA NewLock ==
    ASSUME NEW r \in Runs, NEW u \in Int
    PROVE  /\ Lock(r, u) \in Locks
           /\ Lock(r, u).owner = r /\ Lock(r, u).until = u
           /\ Lock(r, u) # NoLock
  BY NobodyAssumption DEF Locks, Lock, NoLock

LEMMA LockInvStep == LockInv /\ [Next]_vars => LockInv'
<1> SUFFICES ASSUME LockInv, [Next]_vars PROVE LockInv'
  OBVIOUS
<1> USE LockAssumption
<1>t. TypeOK /\ ClocksAreClose /\ OwnsItsLease /\ LockHasAnEnd /\ LockStays
  BY DEF LockInv
<1>1. CASE UNCHANGED vars
  BY <1>t, <1>1 DEF vars, LockInv, TypeOK, ClocksAreClose, OwnsItsLease, LockHasAnEnd,
     LockStays, AtWork, Deadline, Locks
<1>2. CASE Tick
  <2>1. time' = time + 1 /\ time' <= MaxTime /\ UNCHANGED <<lock, phase, now, freed>>
    BY <1>t, <1>2 DEF Tick, TypeOK
  <2> QED
    BY <1>t, <2>1 DEF LockInv, LockStays, TypeOK, ClocksAreClose, OwnsItsLease, LockHasAnEnd,
       AtWork, Deadline, Locks
<1>3. ASSUME NEW r \in Runs, RunOnce(r) PROVE LockInv'
  <2>1. PICK reading \in Clock : now' = [now EXCEPT ![r] = reading]
    BY <1>3 DEF RunOnce
  <2>2. /\ phase[r] = "ready" /\ phase' = [phase EXCEPT ![r] = "creating"]
        /\ UNCHANGED <<time, lock, freed>>
    BY <1>3 DEF RunOnce, Goto
  <2>3. TypeOK'
    BY <1>t, <2>1, <2>2 DEF TypeOK, Phases, Clock
  <2>4. ClocksAreClose'
    BY <1>t, <2>1, <2>2 DEF TypeOK, ClocksAreClose, Clock
  <2>5. OwnsItsLease'
    BY <1>t, <2>1, <2>2 DEF TypeOK, OwnsItsLease, AtWork, Deadline
  <2>6. LockHasAnEnd'
    <3>1. lock # NoLock => lock.owner # r /\ lock.owner \in Runs
      BY <1>t, <2>2, ExistingLock DEF LockHasAnEnd, TypeOK
    <3> QED
      BY <1>t, <2>1, <2>2, <3>1 DEF TypeOK, LockHasAnEnd
  <2>7. LockStays'
    BY <1>t, <2>2 DEF TypeOK, LockStays
  <2> QED
    BY <2>3, <2>4, <2>5, <2>6, <2>7 DEF LockInv
<1>4. ASSUME NEW r \in Runs, CreateLock(r) \/ TakeOver(r) PROVE LockInv'
  <2> DEFINE end == now[r] + Ttl
  <2>1. /\ phase[r] \in {"creating", "updating"}
        /\ phase' = [phase EXCEPT ![r] = "running"]
        /\ lock' = Lock(r, end)
        /\ UNCHANGED <<time, now, freed>>
    BY <1>4 DEF CreateLock, TakeOver, Goto
  <2>2. end \in Int /\ now[r] <= time + Skew
    BY <1>t DEF TypeOK, ClocksAreClose
  <2>3. /\ lock' \in Locks /\ lock'.owner = r /\ lock'.until = end
    BY <2>1, <2>2, NewLock
  <2>4. TypeOK'
    BY <1>t, <2>1, <2>3 DEF TypeOK, Phases
  <2>5. ClocksAreClose'
    BY <1>t, <2>1 DEF ClocksAreClose
  <2>6. OwnsItsLease'
    <3> SUFFICES ASSUME NEW s \in Runs, AtWork(s)', time' <= Deadline(s)'
                 PROVE  lock' = Lock(s, now'[s] + Ttl)
      BY DEF OwnsItsLease
    <3>1. CASE s = r
      BY <2>1, <3>1
    <3>2. CASE s # r
      <4>1. AtWork(s) /\ time <= Deadline(s)
        BY <1>t, <2>1, <3>2 DEF AtWork, Deadline, TypeOK
      <4>2. lock = Lock(s, now[s] + Ttl) /\ now[s] \in Int
        BY <1>t, <4>1 DEF OwnsItsLease, TypeOK
      <4>3. lock # NoLock /\ lock.until = now[s] + Ttl
        BY <4>2, NewLock
      <4>4. TakeOver(r)
        BY <1>4, <4>3 DEF CreateLock
      <4>5. now[s] + Ttl < now[r]
        BY <4>3, <4>4 DEF TakeOver
      <4> QED
        BY <1>t, <2>2, <4>1, <4>2, <4>5 DEF TypeOK, Deadline
    <3> QED
      BY <3>1, <3>2
  <2>7. LockHasAnEnd'
    BY <1>t, <2>1, <2>3 DEF LockHasAnEnd, TypeOK
  <2>8. LockStays'
    BY <2>1, <2>2, NewLock DEF LockStays
  <2> QED
    BY <2>4, <2>5, <2>6, <2>7, <2>8 DEF LockInv
<1>5. ASSUME NEW r \in Runs, LockExists(r) \/ Skip(r) PROVE LockInv'
  <2>1. /\ phase[r] \in {"creating", "updating"}
        /\ \E p \in {"updating", "skipped"} : phase' = [phase EXCEPT ![r] = p]
        /\ UNCHANGED <<time, lock, now, freed>>
        /\ lock # NoLock
    BY <1>5, <1>t DEF LockExists, Skip, Goto, LockStays
  <2>2. lock # NoLock => lock.owner # r /\ lock.owner \in Runs
    BY <1>t, <2>1, ExistingLock DEF LockHasAnEnd, TypeOK
  <2> QED
    BY <1>t, <2>1, <2>2 DEF LockInv, LockStays, TypeOK, ClocksAreClose, OwnsItsLease, LockHasAnEnd,
       AtWork, Deadline, Phases
<1>6. ASSUME NEW r \in Runs, JobEnds(r) PROVE LockInv'
  <2>1. PICK reading \in Clock : freed' = [freed EXCEPT ![r] = reading]
    BY <1>6 DEF JobEnds
  <2>2. /\ phase[r] = "running" /\ phase' = [phase EXCEPT ![r] = "releasing"]
        /\ UNCHANGED <<time, lock, now>>
    BY <1>6 DEF JobEnds, Goto
  <2>3. lock # NoLock => lock.owner \in Runs
    BY <1>t, ExistingLock DEF TypeOK
  <2> QED
    BY <1>t, <2>1, <2>2, <2>3 DEF LockInv, LockStays, TypeOK, ClocksAreClose, OwnsItsLease, LockHasAnEnd,
       AtWork, Deadline, Phases, Clock
<1>7. ASSUME NEW r \in Runs, Release(r) PROVE LockInv'
  <2>1. /\ phase[r] = "releasing" /\ phase' = [phase EXCEPT ![r] = "done"]
        /\ lock' = IF lock.owner = r THEN Lock(r, freed[r]) ELSE lock
        /\ UNCHANGED <<time, now, freed>>
    BY <1>7 DEF Release, Goto
  <2>2. freed[r] \in Int /\ phase \in [Runs -> Phases]
    BY <1>t DEF TypeOK
  <2>3. CASE lock.owner = r
    <3>1. lock' \in Locks /\ lock'.owner = r /\ lock'.until = freed[r] /\ lock' # NoLock
      BY <2>1, <2>2, <2>3, NewLock
    <3>2. OwnsItsLease'
      <4> SUFFICES ASSUME NEW s \in Runs, AtWork(s)', time' <= Deadline(s)'
                   PROVE  FALSE
        BY DEF OwnsItsLease
      <4>1. s # r /\ AtWork(s) /\ time <= Deadline(s)
        BY <2>1, <2>2 DEF AtWork, Deadline
      <4>2. lock = Lock(s, now[s] + Ttl) /\ now[s] + Ttl \in Int
        BY <1>t, <4>1 DEF OwnsItsLease, TypeOK
      <4> QED
        BY <2>3, <4>1, <4>2, NewLock
    <3> QED
      BY <1>t, <2>1, <2>2, <3>1, <3>2 DEF LockInv, LockStays, TypeOK, ClocksAreClose, LockHasAnEnd, Phases
  <2>4. CASE lock.owner # r
    <3>1. lock # NoLock => lock.owner \in Runs
      BY <1>t, ExistingLock DEF TypeOK
    <3> QED
      BY <1>t, <2>1, <2>2, <2>4, <3>1 DEF LockInv, LockStays, TypeOK, ClocksAreClose, OwnsItsLease,
         LockHasAnEnd, AtWork, Deadline, Phases
  <2> QED
    BY <2>3, <2>4
<1>8. ASSUME NEW r \in Runs, Die(r) PROVE LockInv'
  <2>1. /\ phase[r] \in {"creating", "updating", "running", "releasing"}
        /\ phase' = [phase EXCEPT ![r] =
                       IF phase[r] \in {"creating", "updating"} THEN "failed" ELSE "dead"]
        /\ UNCHANGED <<time, lock, now, freed>>
    BY <1>8 DEF Die, Goto
  <2>2. lock # NoLock => lock.owner \in Runs
    BY <1>t, ExistingLock DEF TypeOK
  <2> QED
    BY <1>t, <2>1, <2>2 DEF LockInv, LockStays, TypeOK, ClocksAreClose, OwnsItsLease, LockHasAnEnd,
       AtWork, Deadline, Phases
<1> QED
  BY <1>1, <1>2, <1>3, <1>4, <1>5, <1>6, <1>7, <1>8 DEF Next, Step

LEMMA LockInvariant == Spec => []LockInv
<1> QED
  BY LockInvInit, LockInvStep, PTL DEF Spec

-----------------------------------------------------------------------------
(* The lock implements an expiring lease. *)

LEMMA LeaseStep == LockInv /\ [Next]_vars => [Leases!LeaseNext]_(Leases!leaseVars)
<1> SUFFICES ASSUME LockInv, [Next]_vars
             PROVE  [Leases!LeaseNext]_(Leases!leaseVars)
  OBVIOUS
<1> USE LockAssumption
<1> DEFINE LeaseOf(r) == IF AtWork(r) THEN [held |-> TRUE, deadline |-> Deadline(r)]
                                      ELSE [held |-> FALSE, deadline |-> 0]
           Mapped == [r \in Runs |-> LeaseOf(r)]
<1>t. TypeOK /\ LockInv'
  BY LockInvStep DEF LockInv
<1>1. CASE UNCHANGED vars
  BY <1>1 DEF Leases!leaseVars, vars, AtWork, Deadline
<1>2. CASE Tick
  BY <1>2 DEF Tick, Leases!LeaseNext, Leases!Pass, AtWork, Deadline
<1>3. ASSUME NEW r \in Runs, RunOnce(r) \/ LockExists(r) \/ Skip(r)
      PROVE  UNCHANGED Leases!leaseVars
  <2>1. ~AtWork(r) /\ ~AtWork(r)'
    BY <1>3, <1>t DEF RunOnce, LockExists, Skip, Goto, AtWork, TypeOK
  <2>2. \A s \in Runs \ {r} : phase'[s] = phase[s] /\ now'[s] = now[s]
    BY <1>3, <1>t DEF RunOnce, LockExists, Skip, Goto, TypeOK
  <2>3. \A s \in Runs : LeaseOf(s)' = LeaseOf(s)
    BY <2>1, <2>2 DEF AtWork, Deadline
  <2>4. time' = time
    BY <1>3 DEF RunOnce, LockExists, Skip
  <2> QED
    BY <2>3, <2>4 DEF Leases!leaseVars
<1>4. ASSUME NEW r \in Runs, JobEnds(r)
      PROVE  UNCHANGED Leases!leaseVars
  <2>1. \A s \in Runs : AtWork(s)' = AtWork(s) /\ now'[s] = now[s]
    BY <1>4, <1>t DEF JobEnds, Goto, AtWork, TypeOK
  <2>2. \A s \in Runs : LeaseOf(s)' = LeaseOf(s)
    BY <2>1 DEF Deadline
  <2> QED
    BY <1>4, <2>2 DEF Leases!leaseVars, JobEnds
<1>5. ASSUME NEW r \in Runs, CreateLock(r) \/ TakeOver(r)
      PROVE  Leases!Grant(r, Deadline(r))
  <2>1. /\ phase[r] \in {"creating", "updating"}
        /\ phase' = [phase EXCEPT ![r] = "running"]
        /\ lock' = Lock(r, now[r] + Ttl)
        /\ UNCHANGED <<time, now, freed>>
    BY <1>5 DEF CreateLock, TakeOver, Goto
  <2>2. \A s \in Runs \ {r} : AtWork(s) => time > Deadline(s)
    <3> SUFFICES ASSUME NEW s \in Runs \ {r}, AtWork(s), ~(time > Deadline(s))
                 PROVE  FALSE
      OBVIOUS
    <3>1. AtWork(s)' /\ ~(time' > Deadline(s)') /\ now'[s] = now[s]
      BY <2>1, <1>t DEF TypeOK, AtWork, Deadline
    <3>2. lock' = Lock(s, now[s] + Ttl)
      BY <1>t, <3>1 DEF LockInv, OwnsItsLease, TypeOK, Deadline
    <3> QED
      BY <2>1, <3>2 DEF Lock
  <2>3. Mapped' = [Mapped EXCEPT ![r] = [held |-> TRUE, deadline |-> Deadline(r)]]
    <3>1. \A s \in Runs \ {r} : LeaseOf(s)' = LeaseOf(s)
      BY <2>1, <1>t DEF TypeOK, AtWork, Deadline
    <3>2. LeaseOf(r)' = [held |-> TRUE, deadline |-> Deadline(r)]
      BY <2>1, <1>t DEF TypeOK, AtWork, Deadline
    <3> HIDE DEF LeaseOf
    <3> QED
      BY <3>1, <3>2
  <2>4. \A s \in Runs \ {r} : ~Leases!Protects(Mapped[s])
    <3> SUFFICES ASSUME NEW s \in Runs \ {r}, LeaseOf(s).held, time <= LeaseOf(s).deadline
                 PROVE  FALSE
      BY DEF Leases!Protects
    <3>1. AtWork(s) /\ LeaseOf(s).deadline = Deadline(s)
      OBVIOUS
    <3> QED
      BY <2>2, <3>1, <1>t DEF TypeOK, Deadline
  <2>5. time' = time
    BY <2>1
  <2> QED
    BY <2>3, <2>4, <2>5 DEF Leases!Grant, Leases!LeaseUntil
<1>6. ASSUME NEW r \in Runs, CreateLock(r) \/ TakeOver(r)
      PROVE  Deadline(r) \in (Ttl - 2 * Skew) .. (MaxTime + Ttl)
  BY DEF LockInv, TypeOK, ClocksAreClose, Deadline
<1>7. ASSUME NEW r \in Runs, Release(r) \/ Die(r)
      PROVE  Leases!GiveUp(r) \/ UNCHANGED Leases!leaseVars
  <2>1. /\ ~AtWork(r)' /\ UNCHANGED <<time, now>>
        /\ \A s \in Runs \ {r} : phase'[s] = phase[s]
    BY <1>7, <1>t DEF Release, Die, Goto, AtWork, TypeOK
  <2>2. \A s \in Runs \ {r} : LeaseOf(s)' = LeaseOf(s)
    BY <2>1 DEF AtWork, Deadline
  <2>3. LeaseOf(r)' = [held |-> FALSE, deadline |-> 0]
    BY <2>1
  <2>4. CASE AtWork(r)
    <3>1. LeaseOf(r).held
      BY <2>4
    <3> HIDE DEF LeaseOf
    <3>2. Mapped' = [Mapped EXCEPT ![r] = [held |-> FALSE, deadline |-> 0]]
      BY <2>2, <2>3
    <3> QED
      BY <2>1, <3>1, <3>2 DEF Leases!GiveUp, Leases!NoLease, LeaseOf
  <2>5. CASE ~AtWork(r)
    <3>1. LeaseOf(r) = [held |-> FALSE, deadline |-> 0]
      BY <2>5
    <3> HIDE DEF LeaseOf
    <3>2. Mapped' = Mapped
      BY <2>2, <2>3, <3>1
    <3> QED
      BY <2>1, <3>2 DEF Leases!leaseVars, LeaseOf
  <2> QED
    BY <2>4, <2>5
<1> QED
  BY <1>1, <1>2, <1>3, <1>4, <1>5, <1>6, <1>7 DEF Next, Step, Leases!LeaseNext

\* The row in the database implements an expiring lock.
THEOREM LockImplementsLease == Spec => ImplementsLease
<1>1. Init => Leases!LeaseInit
  BY DEF Init, Leases!LeaseInit, Leases!NoLease, AtWork
<1> QED
  BY <1>1, LeaseStep, LockInvariant, PTL DEF Spec, ImplementsLease, Leases!LeaseSpec

-----------------------------------------------------------------------------

\* Two runs that are inside their leases would both own the one row.
THEOREM LeaseExclusive == Spec => []LeaseIsExclusive
<1>1. LockInv => LeaseIsExclusive
  <2> SUFFICES ASSUME LockInv, NEW r \in Runs, NEW s \in Runs, r # s,
                      AtWork(r), AtWork(s), time <= Deadline(r), time <= Deadline(s)
               PROVE  FALSE
    BY LockAssumption DEF LeaseIsExclusive, LockInv, TypeOK, Deadline
  <2>1. lock = Lock(r, now[r] + Ttl) /\ lock = Lock(s, now[s] + Ttl)
    BY DEF LockInv, OwnsItsLease
  <2> QED
    BY <2>1 DEF Lock
<1> QED
  BY <1>1, LockInvariant, PTL

\* The owner of the row is the reason.
THEOREM SkipsExplained == Spec => SkipHasAReason
<1>1. ASSUME LockInv, [Next]_vars, NEW r \in Runs,
             phase[r] = "updating", phase'[r] = "skipped"
      PROVE  \E s \in Runs \ {r} :
                 \/ phase[s] \in {"running", "releasing", "dead"} /\ now[s] + Ttl >= now[r]
                 \/ phase[s] = "done" /\ freed[s] >= now[r]
  <2>1. TypeOK
    BY <1>1 DEF LockInv
  <2>2. Skip(r)
    <3>1. ASSUME NEW s \in Runs, Step(s) PROVE s = r
      BY <1>1, <2>1, <3>1 DEF Step, RunOnce, CreateLock, LockExists, TakeOver, Skip, JobEnds,
         Release, Die, Goto, TypeOK
    <3>2. Step(r)
      BY <1>1, <3>1 DEF Next, Tick, vars
    <3> QED
      BY <1>1, <2>1, <3>2 DEF Step, RunOnce, CreateLock, LockExists, TakeOver, JobEnds,
         Release, Die, Goto, TypeOK
  <2>3. lock.until >= now[r]
    BY <2>2 DEF Skip
  <2>4. lock # NoLock
    BY <1>1 DEF LockInv, LockStays
  <2> QED
    BY <1>1, <2>1, <2>3, <2>4, ExistingLock DEF LockInv, LockHasAnEnd, TypeOK
<1>2. LockInv /\ [Next]_vars =>
        [\A r \in Runs : phase[r] = "updating" /\ phase'[r] = "skipped" =>
           \E s \in Runs \ {r} :
              \/ phase[s] \in {"running", "releasing", "dead"} /\ now[s] + Ttl >= now[r]
              \/ phase[s] = "done" /\ freed[s] >= now[r]]_vars
  BY <1>1
<1> QED
  BY <1>2, LockInvariant, PTL DEF Spec, SkipHasAReason
=============================================================================
