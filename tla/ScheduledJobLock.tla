-------------------------- MODULE ScheduledJobLock --------------------------
(***************************************************************************)
(* The lock that keeps the instances of the API from running one scheduled *)
(* job twice (scheduled-job-lock.service.ts).  Every call of runOnce draws *)
(* an owner id of its own, so a run is its own owner.  The instances read  *)
(* their own clocks, which are off by at most Skew.  A job may take longer *)
(* than the lock's time to live, and its process may die.                  *)
(***************************************************************************)
EXTENDS Integers

CONSTANTS Runs,      \* calls of runOnce for one job name
          Ttl,       \* lockTtlMs
          Skew,      \* how far a clock is off
          MaxTime    \* bound of the model

ASSUME LockAssumption ==
    /\ Ttl \in Nat
    /\ Skew \in Nat
    /\ MaxTime \in Nat

\* The owner of no lock is not a run.
ASSUME NobodyAssumption == "nobody" \notin Runs

VARIABLES time,      \* real time
          lock,      \* the row of scheduled_job_locks
          phase,     \* run -> where runOnce is
          now,       \* run -> `now` in acquire
          freed      \* run -> the new Date() of release

vars == <<time, lock, phase, now, freed>>

Phases == {"ready", "creating", "updating", "running", "releasing", "done", "skipped", "failed", "dead"}

NoLock == [owner |-> "nobody"]
Lock(r, until) == [owner |-> r, until |-> until]
Locks == [owner : Runs, until : Int] \cup {NoLock}

\* What a clock may show now.
Clock == (time - Skew) .. (time + Skew)

TypeOK ==
    /\ time \in Nat
    /\ lock \in Locks
    /\ phase \in [Runs -> Phases]
    /\ now \in [Runs -> Int]
    /\ freed \in [Runs -> Int]

Init ==
    /\ time = 0
    /\ lock = NoLock
    /\ phase = [r \in Runs |-> "ready"]
    /\ now = [r \in Runs |-> 0]
    /\ freed = [r \in Runs |-> 0]

Goto(r, p) == phase' = [phase EXCEPT ![r] = p]

-----------------------------------------------------------------------------

RunOnce(r) ==
    /\ phase[r] = "ready"
    /\ \E reading \in Clock : now' = [now EXCEPT ![r] = reading]
    /\ Goto(r, "creating")
    /\ UNCHANGED <<time, lock, freed>>

\* The first run ever creates the row; nothing deletes it.
CreateLock(r) ==
    /\ phase[r] = "creating"
    /\ lock = NoLock
    /\ lock' = Lock(r, now[r] + Ttl)
    /\ Goto(r, "running")
    /\ UNCHANGED <<time, now, freed>>

LockExists(r) ==
    /\ phase[r] = "creating"
    /\ lock # NoLock
    /\ Goto(r, "updating")
    /\ UNCHANGED <<time, lock, now, freed>>

\* A mistake: any lock that was there before this run is taken for an old one.
TakeOverAny(r) ==
    /\ phase[r] = "updating"
    /\ lock' = Lock(r, now[r] + Ttl)
    /\ Goto(r, "running")
    /\ UNCHANGED <<time, now, freed>>

TakeOver(r) ==
    /\ phase[r] = "updating"
    /\ lock.until < now[r]
    /\ lock' = Lock(r, now[r] + Ttl)
    /\ Goto(r, "running")
    /\ UNCHANGED <<time, now, freed>>

Skip(r) ==
    /\ phase[r] = "updating"
    /\ lock.until >= now[r]
    /\ Goto(r, "skipped")
    /\ UNCHANGED <<time, lock, now, freed>>

\* The job returned or threw.
JobEnds(r) ==
    /\ phase[r] = "running"
    /\ \E reading \in Clock : freed' = [freed EXCEPT ![r] = reading]
    /\ Goto(r, "releasing")
    /\ UNCHANGED <<time, lock, now>>

\* A mistake: the lock is given back by its name alone.
ReleaseByName(r) ==
    /\ phase[r] = "releasing"
    /\ lock' = Lock(lock.owner, freed[r])
    /\ Goto(r, "done")
    /\ UNCHANGED <<time, now, freed>>

\* A mistake: no `finally`: a job that throws keeps its lock.
KeepLock(r) ==
    /\ phase[r] = "releasing"
    /\ Goto(r, "done")
    /\ UNCHANGED <<time, lock, now, freed>>

Release(r) ==
    /\ phase[r] = "releasing"
    /\ lock' = IF lock.owner = r THEN Lock(r, freed[r]) ELSE lock
    /\ Goto(r, "done")
    /\ UNCHANGED <<time, now, freed>>

\* The process dies or the database cannot be reached, before the lock is had or
\* after; the answer that the lock is had may be lost as well.
Die(r) ==
    /\ phase[r] \in {"creating", "updating", "running", "releasing"}
    /\ Goto(r, IF phase[r] \in {"creating", "updating"} THEN "failed" ELSE "dead")
    /\ UNCHANGED <<time, lock, now, freed>>

Tick ==
    /\ time < MaxTime
    /\ time' = time + 1
    /\ UNCHANGED <<lock, phase, now, freed>>

Step(r) ==
    \/ RunOnce(r)
    \/ CreateLock(r) \/ LockExists(r) \/ TakeOver(r) \/ Skip(r)
    \/ JobEnds(r) \/ Release(r)
    \/ Die(r)

Next == (\E r \in Runs : Step(r)) \/ Tick

Spec == Init /\ [][Next]_vars

-----------------------------------------------------------------------------

\* The last moment at which no clock is past the end of r's lease.
Deadline(r) == now[r] + Ttl - Skew

AtWork(r) == phase[r] \in {"running", "releasing"}

\* Two runs of one job are never at work together while the lease of both still
\* lasts: a run that outlives its lease may be overtaken, but its late release
\* does not cut short the lease of the one that took over (acquire, release).
LeaseIsExclusive ==
    \A r, s \in Runs :
        r # s /\ AtWork(r) /\ AtWork(s) => time > Deadline(r) \/ time > Deadline(s)

\* A run inside its lease is the owner of the row, to the end of its lease.
OwnsItsLease ==
    \A r \in Runs : AtWork(r) /\ time <= Deadline(r) => lock = Lock(r, now[r] + Ttl)

\* A clock reading is never ahead of the time by more than the skew.
ClocksAreClose == time <= MaxTime /\ \A r \in Runs : now[r] \in -Skew .. (time + Skew)

\* The row ends when its owner's lease ends, or when its owner gave it back.
LockHasAnEnd ==
    lock # NoLock =>
        \/ /\ phase[lock.owner] \in {"running", "releasing", "dead"}
           /\ lock.until = now[lock.owner] + Ttl
        \/ /\ phase[lock.owner] = "done"
           /\ lock.until = freed[lock.owner]

\* A row that was met is still there.
LockStays == (\E r \in Runs : phase[r] = "updating") => lock # NoLock

LockInv == TypeOK /\ ClocksAreClose /\ OwnsItsLease /\ LockHasAnEnd /\ LockStays

\* A run is only ever skipped because of another one whose time to live, or whose
\* end, reaches its own clock: an owner that died costs the job no more than one
\* time to live (runOnce, lockTtlMs).
SkipHasAReason ==
    [][\A r \in Runs : phase[r] = "updating" /\ phase'[r] = "skipped" =>
          \E s \in Runs \ {r} :
              \/ phase[s] \in {"running", "releasing", "dead"} /\ now[s] + Ttl >= now[r]
              \/ phase[s] = "done" /\ freed[s] >= now[r]]_vars

\* The leases the row stands for.  A run that has died or has been overtaken needs
\* none.
Leases == INSTANCE Lease WITH
    Holders <- Runs,
    Deadlines <- (Ttl - 2 * Skew) .. (MaxTime + Ttl),
    time <- time,
    lease <- [r \in Runs |-> IF AtWork(r)
                             THEN [held |-> TRUE, deadline |-> Deadline(r)]
                             ELSE [held |-> FALSE, deadline |-> 0]]

\* The row in the database implements an expiring lock (acquire, release).
ImplementsLease == Leases!LeaseSpec
=============================================================================
