------------------------------- MODULE Lease -------------------------------
(***************************************************************************)
(* What a lock that expires promises: whoever holds it holds it alone      *)
(* until its deadline.  After the deadline nothing is promised, and the    *)
(* holder may still be at work.                                            *)
(***************************************************************************)
EXTENDS Integers

CONSTANTS Holders,
          Deadlines     \* the deadlines a lease may have

VARIABLES time,     \* real time
          lease     \* holder -> its deadline, or Nobody's

leaseVars == <<time, lease>>

NoLease == [held |-> FALSE, deadline |-> 0]
LeaseUntil(day) == [held |-> TRUE, deadline |-> day]

\* The lease still protects its holder.
Protects(l) == l.held /\ time <= l.deadline

LeaseInit ==
    /\ time = 0
    /\ lease = [h \in Holders |-> NoLease]

\* A lease is handed out when it protects nobody else.
Grant(h, day) ==
    /\ \A g \in Holders \ {h} : ~Protects(lease[g])
    /\ lease' = [lease EXCEPT ![h] = LeaseUntil(day)]
    /\ UNCHANGED time

GiveUp(h) ==
    /\ lease[h].held
    /\ lease' = [lease EXCEPT ![h] = NoLease]
    /\ UNCHANGED time

Pass ==
    /\ time' = time + 1
    /\ UNCHANGED lease

LeaseNext ==
    \/ \E h \in Holders : (\E day \in Deadlines : Grant(h, day)) \/ GiveUp(h)
    \/ Pass

LeaseSpec == LeaseInit /\ [][LeaseNext]_leaseVars
=============================================================================
