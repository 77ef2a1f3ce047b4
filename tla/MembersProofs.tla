--------------------------- MODULE MembersProofs ---------------------------
(***************************************************************************)
(* Proofs about Members and MembershipClaims, for any number of requests,  *)
(* users, members and claims: an owner is always left, and an account is   *)
(* linked once, to an active plain member.                                 *)
(***************************************************************************)
EXTENDS MembershipClaims, FiniteSetTheorems, TLAPS

Requests == OwnerRequests \cup ClaimRequests \cup {Idle}

-----------------------------------------------------------------------------
(* Requests and their phases. *)

\* The phase of a request tells what kind of request it is.
LEMMA Kinds ==
    ASSUME NEW r \in Requests
    PROVE  /\ r.phase \in {"asked", "locking", "reading", "counting", "writing", "revoking"}
              => r \in OwnerRequests /\ r # Idle
           /\ r.phase \in {"issuing", "expiring", "claiming", "closing", "approving", "judging",
                           "linking"}
              => r \in ClaimRequests /\ r # Idle
           /\ r \in OwnerRequests => r \notin ClaimRequests
           /\ Idle \notin OwnerRequests /\ Idle \notin ClaimRequests
  BY DEF Requests, OwnerRequests, ClaimRequests, Idle

\* An owner's request in another phase.
LEMMA OwnerGoto ==
    ASSUME NEW r \in OwnerRequests,
           NEW p \in {"asked", "locking", "reading", "counting", "writing", "revoking"}
    PROVE  LET q == [r EXCEPT !.phase = p]
           IN  /\ q \in OwnerRequests /\ q.phase = p /\ q.operation = r.operation
               /\ q.member = r.member /\ q.role = r.role /\ q.actor = r.actor
  BY DEF OwnerRequests

LEMMA OwnerFinds ==
    ASSUME NEW r \in OwnerRequests, NEW p \in {"locking", "reading"}, NEW O \in SUBSET Members
    PROVE  LET q == [r EXCEPT !.phase = p, !.owners = O]
           IN  /\ q \in OwnerRequests /\ q.phase = p /\ q.operation = r.operation
               /\ q.member = r.member /\ q.role = r.role /\ q.actor = r.actor
  BY DEF OwnerRequests

LEMMA ClaimGoto ==
    ASSUME NEW r \in ClaimRequests, NEW p \in {"expiring", "judging", "linking"}
    PROVE  LET q == [r EXCEPT !.phase = p]
           IN  /\ q \in ClaimRequests /\ q.phase = p
               /\ q.member = r.member /\ q.claim = r.claim /\ q.actor = r.actor
  BY DEF ClaimRequests

\* Another phase, wherever the request was.
LEMMA Moves ==
    ASSUME ClaimTypeOK, NEW w \in Workers, NEW p, Goto(w, p)
    PROVE  /\ request'[w] = [request[w] EXCEPT !.phase = p]
           /\ \A v \in Workers \ {w} : request'[v] = request[v]
           /\ DOMAIN request' = Workers
  BY DEF Goto, ClaimTypeOK

LEMMA Finishes ==
    ASSUME ClaimTypeOK, NEW w \in Workers, Finish(w)
    PROVE  /\ request'[w] = Idle /\ locks'[w] = {}
           /\ \A v \in Workers \ {w} : request'[v] = request[v] /\ locks'[v] = locks[v]
           /\ request' \in [Workers -> Requests]
           /\ locks' \in [Workers -> SUBSET (Members \cup Claims)]
  BY DEF Finish, ClaimTypeOK, Requests

-----------------------------------------------------------------------------
(* What each action does. *)

\* Only the request of w moves, and it stays a request with locks.
Only(w) ==
    /\ \A v \in Workers \ {w} : request'[v] = request[v] /\ locks'[v] = locks[v]
    /\ request' \in [Workers -> Requests]
    /\ locks' \in [Workers -> SUBSET (Members \cup Claims)]

LEMMA OnlyOne ==
    ASSUME ClaimTypeOK, NEW w \in Workers, NEW r \in Requests,
           request' = [request EXCEPT ![w] = r], UNCHANGED locks
    PROVE  Only(w) /\ request'[w] = r
  BY DEF ClaimTypeOK, Only, Requests

LEMMA OnlyGoto ==
    ASSUME ClaimTypeOK, NEW w \in Workers, NEW p, Goto(w, p),
           [request[w] EXCEPT !.phase = p] \in Requests, UNCHANGED locks
    PROVE  Only(w) /\ request'[w] = [request[w] EXCEPT !.phase = p]
<1>1. request' = [request EXCEPT ![w] = [request[w] EXCEPT !.phase = p]]
  BY DEF Goto, ClaimTypeOK
<1> QED
  BY <1>1, OnlyOne

LEMMA OnlyFinish ==
    ASSUME ClaimTypeOK, NEW w \in Workers, Finish(w)
    PROVE  Only(w) /\ request'[w] = Idle /\ locks'[w] = {}
  BY Finishes DEF Only

LEMMA RequestOf ==
    ASSUME ClaimTypeOK, NEW w \in Workers
    PROVE  request[w] \in Requests /\ locks[w] \in SUBSET (Members \cup Claims)
  BY DEF ClaimTypeOK, Requests

LEMMA OfAskAsOwner ==
    ASSUME ClaimTypeOK, NEW w \in Workers, NEW operation \in Operations, NEW u \in Users,
           NEW m \in Members, NEW role \in MemberRoles, AskAsOwner(w, operation, u, m, role)
    PROVE  /\ Only(w) /\ UNCHANGED <<members, claims, locks>>
           /\ request'[w] \in OwnerRequests
           /\ request'[w].phase \in {"asked", "reading"}
           /\ request'[w].phase = "reading" => request'[w].operation = "restore"
<1> DEFINE r == [phase |-> IF operation = "restore" THEN "reading" ELSE "asked",
                 operation |-> operation, actor |-> u, member |-> m, role |-> role,
                 owners |-> {}]
<1>1. /\ r \in OwnerRequests /\ r.phase \in {"asked", "reading"}
      /\ r.phase = "reading" => r.operation = "restore"
  BY DEF OwnerRequests
<1>2. r \in Requests
  BY <1>1 DEF Requests
<1>3. request' = [request EXCEPT ![w] = r] /\ UNCHANGED <<members, claims, locks>>
  BY DEF AskAsOwner
<1> HIDE DEF r
<1> QED
  BY <1>1, <1>2, <1>3, OnlyOne

LEMMA OfFindOwners ==
    ASSUME ClaimTypeOK, NEW w \in Workers, FindOwners(w)
    PROVE  /\ Only(w) /\ UNCHANGED <<members, claims, locks>>
           /\ request'[w] \in OwnerRequests /\ request'[w].phase = "locking"
<1>1. request[w] \in OwnerRequests
  BY Kinds, RequestOf DEF FindOwners
<1> DEFINE r == [request[w] EXCEPT !.phase = "locking", !.owners = Owners]
<1>2. r \in OwnerRequests /\ r.phase = "locking"
  BY <1>1, OwnerFinds DEF Owners
<1>3. request' = [request EXCEPT ![w] = r] /\ UNCHANGED <<members, claims, locks>>
  BY DEF FindOwners, ClaimTypeOK
<1>4. r \in Requests
  BY <1>2 DEF Requests
<1> HIDE DEF r
<1> QED
  BY <1>2, <1>3, <1>4, OnlyOne

LEMMA OfLockOwners ==
    ASSUME ClaimTypeOK, NEW w \in Workers, LockOwners(w)
    PROVE  /\ Only(w) /\ UNCHANGED <<members, claims>>
           /\ request[w] \in OwnerRequests /\ request[w].phase = "locking"
           /\ request'[w] \in OwnerRequests /\ request'[w].phase = "reading"
           /\ Free(w, Found(w)) /\ locks'[w] = Found(w) \cap Owners
<1>1. request[w] \in OwnerRequests
  BY Kinds, RequestOf DEF LockOwners
<1> DEFINE r == [request[w] EXCEPT !.phase = "reading", !.owners = {}]
           L == Found(w) \cap Owners
<1>2. r \in OwnerRequests /\ r.phase = "reading"
  BY <1>1, OwnerFinds
<1>3. /\ request' = [request EXCEPT ![w] = r] /\ UNCHANGED <<members, claims>>
      /\ locks' = [locks EXCEPT ![w] = L] /\ Free(w, Found(w)) /\ request[w].phase = "locking"
  BY DEF LockOwners, ClaimTypeOK
<1>4. r \in Requests /\ L \in SUBSET (Members \cup Claims)
  BY <1>2 DEF Requests, Owners
<1> HIDE DEF r, L
<1>5. request'[w] = r /\ locks'[w] = L
  BY <1>3 DEF ClaimTypeOK
<1>6. Only(w)
  <2>1. request' \in [Workers -> Requests] /\ locks' \in [Workers -> SUBSET (Members \cup Claims)]
    BY <1>3, <1>4 DEF ClaimTypeOK, Requests
  <2> QED
    BY <1>3, <2>1 DEF ClaimTypeOK, Only
<1> QED
  BY <1>1, <1>2, <1>3, <1>5, <1>6 DEF L

LEMMA OfReadMember ==
    ASSUME ClaimTypeOK, NEW w \in Workers, ReadMember(w)
    PROVE  /\ Only(w) /\ UNCHANGED <<members, claims>>
           /\ request[w] \in OwnerRequests /\ request[w].phase = "reading"
           /\ \/ request'[w] = Idle /\ locks'[w] = {}
              \/ /\ Permitted(request[w]) /\ UNCHANGED locks
                 /\ request'[w] \in OwnerRequests
                 /\ request'[w].operation = request[w].operation
                 /\ request'[w].member = request[w].member
                 /\ request'[w].role = request[w].role
                 /\ \/ request'[w].phase = "counting"
                    \/ /\ request'[w].phase = "writing"
                       /\ ~(/\ CountsOwners(request[w].operation, request[w].role)
                            /\ members[request[w].member].role = "OWNER")
<1> DEFINE r == request[w]
           p == IF CountsOwners(r.operation, r.role) /\ members[r.member].role = "OWNER"
                THEN "counting" ELSE "writing"
           q == [r EXCEPT !.phase = p]
<1>p. /\ p \in {"counting", "writing"}
      /\ p = "writing" => ~(CountsOwners(r.operation, r.role) /\ members[r.member].role = "OWNER")
  OBVIOUS
<1>1. r \in OwnerRequests /\ r.phase = "reading"
  BY DEF ReadMember
<1>2. CASE Permitted(r)
  <2>1. Goto(w, p) /\ UNCHANGED <<members, claims, locks>>
    BY <1>2 DEF ReadMember
  <2> HIDE DEF p
  <2>6. p \in {"asked", "locking", "reading", "counting", "writing", "revoking"}
    BY <1>p
  <2>2. /\ q \in OwnerRequests /\ q.phase = p /\ q.operation = r.operation
        /\ q.member = r.member /\ q.role = r.role
    BY <1>1, <2>6, OwnerGoto
  <2>3. q \in Requests
    BY <2>2 DEF Requests
  <2>4. Only(w) /\ request'[w] = q
    BY <2>1, <2>3, OnlyGoto
  <2> HIDE DEF q
  <2> QED
    BY <1>1, <1>2, <1>p, <2>1, <2>2, <2>4
<1>3. CASE ~Permitted(r)
  BY <1>1, <1>3, OnlyFinish DEF ReadMember, Refuse
<1> QED
  BY <1>2, <1>3

LEMMA OfCountOwners ==
    ASSUME ClaimTypeOK, NEW w \in Workers, CountOwners(w)
    PROVE  /\ Only(w) /\ UNCHANGED <<members, claims>>
           /\ request[w] \in OwnerRequests /\ request[w].phase = "counting"
           /\ \/ request'[w] = Idle /\ locks'[w] = {}
              \/ /\ ~(Cardinality(Owners) <= 1) /\ UNCHANGED locks
                 /\ request'[w] \in OwnerRequests
                 /\ request'[w].operation = request[w].operation
                 /\ request'[w].member = request[w].member
                 /\ request'[w].role = request[w].role
                 /\ request'[w].phase = "writing"
<1> DEFINE r == request[w]
           q == [r EXCEPT !.phase = "writing"]
<1>1. r \in OwnerRequests /\ r.phase = "counting"
  BY Kinds, RequestOf DEF CountOwners
<1>2. CASE ~(Cardinality(Owners) <= 1)
  <2>1. Goto(w, "writing") /\ UNCHANGED <<members, claims, locks>>
    BY <1>2 DEF CountOwners
  <2>2. /\ q \in OwnerRequests /\ q.phase = "writing" /\ q.operation = r.operation
        /\ q.member = r.member /\ q.role = r.role
    BY <1>1, OwnerGoto
  <2>3. q \in Requests
    BY <2>2 DEF Requests
  <2>4. Only(w) /\ request'[w] = q
    BY <2>1, <2>3, OnlyGoto
  <2> HIDE DEF q
  <2> QED
    BY <1>1, <1>2, <2>1, <2>2, <2>4
<1>3. CASE Cardinality(Owners) <= 1
  BY <1>1, <1>3, OnlyFinish DEF CountOwners, Refuse
<1> QED
  BY <1>2, <1>3

\* The row of a member with another role, status or user.
LEMMA RoleUpdate ==
    ASSUME NEW row \in MemberRows, NEW role \in MemberRoles
    PROVE  LET new == [row EXCEPT !.role = role]
           IN  /\ new \in MemberRows /\ new.role = role /\ new.user = row.user
               /\ new.status = row.status /\ new.removed = row.removed
  BY DEF MemberRows

LEMMA StatusUpdate ==
    ASSUME NEW row \in MemberRows, NEW status \in {"ACTIVE", "ARCHIVED"}
    PROVE  LET new == [row EXCEPT !.status = status]
           IN  /\ new \in MemberRows /\ new.role = row.role /\ new.user = row.user
               /\ new.status = status /\ new.removed = row.removed
  BY DEF MemberRows

LEMMA Removal ==
    ASSUME NEW row \in MemberRows
    PROVE  LET new == [row EXCEPT !.status = "REMOVED", !.removed = TRUE]
           IN  new \in MemberRows /\ new.user = row.user
  BY DEF MemberRows

LEMMA UserUpdate ==
    ASSUME NEW row \in MemberRows, NEW u \in Users \cup {NoUser}
    PROVE  LET new == [row EXCEPT !.user = u]
           IN  /\ new \in MemberRows /\ new.role = row.role /\ new.user = u
               /\ new.status = row.status /\ new.removed = row.removed
  BY DEF MemberRows

\* Only the row of m changes, and it stays a row.
OnlyMember(m) ==
    /\ members' \in [Members -> MemberRows \cup {NoRow}]
    /\ \A n \in Members \ {m} : members'[n] = members[n]
    /\ members[m] \in MemberRows /\ members'[m] \in MemberRows

LEMMA OfUpdateMember ==
    ASSUME MemberAssumption, ClaimTypeOK, RowsExist, NEW w \in Workers, UpdateMember(w)
    PROVE  LET r == request[w]
           IN  /\ Only(w) /\ request'[w] = Idle /\ locks'[w] = {} /\ UNCHANGED claims
               /\ r \in OwnerRequests /\ r.phase = "writing"
               /\ OnlyMember(r.member)
               /\ members'[r.member].user = members[r.member].user
               /\ members'[r.member].removed = members[r.member].removed
               /\ \/ /\ r.operation = "updateRole" /\ members'[r.member].role = r.role
                     /\ members'[r.member].status = members[r.member].status
                  \/ /\ r.operation = "restore" /\ members'[r.member].status = "ACTIVE"
                     /\ members'[r.member].role = members[r.member].role
<1> DEFINE r == request[w]
           m == r.member
<1>1. r \in OwnerRequests /\ r.phase = "writing" /\ r.operation \in {"updateRole", "restore"}
  BY DEF UpdateMember
<1>2. m \in Members /\ r.role \in MemberRoles
  BY <1>1 DEF OwnerRequests
<1>3. members[m] \in MemberRows
  BY <1>1, <1>2 DEF RowsExist, ClaimTypeOK
<1>4. Only(w) /\ request'[w] = Idle /\ locks'[w] = {} /\ UNCHANGED claims
  BY OnlyFinish DEF UpdateMember
<1>5. CASE r.operation = "updateRole"
  <2> DEFINE new == [members[m] EXCEPT !.role = r.role]
  <2>1. members' = [members EXCEPT ![m] = new]
    BY <1>5 DEF UpdateMember
  <2>2. /\ new \in MemberRows /\ new.role = r.role /\ new.user = members[m].user
        /\ new.status = members[m].status /\ new.removed = members[m].removed
    BY <1>2, <1>3, RoleUpdate
  <2> HIDE DEF new
  <2>3. OnlyMember(m) /\ members'[m] = new
    BY <1>2, <1>3, <2>1, <2>2 DEF OnlyMember, ClaimTypeOK
  <2> QED
    BY <1>1, <1>4, <1>5, <2>2, <2>3
<1>6. CASE r.operation = "restore"
  <2> DEFINE new == [members[m] EXCEPT !.status = "ACTIVE"]
  <2>1. members' = [members EXCEPT ![m] = new]
    BY <1>6 DEF UpdateMember
  <2>2. /\ new \in MemberRows /\ new.role = members[m].role /\ new.user = members[m].user
        /\ new.status = "ACTIVE" /\ new.removed = members[m].removed
    BY <1>2, <1>3, StatusUpdate
  <2> HIDE DEF new
  <2>3. OnlyMember(m) /\ members'[m] = new
    BY <1>2, <1>3, <2>1, <2>2 DEF OnlyMember, ClaimTypeOK
  <2> QED
    BY <1>1, <1>4, <1>6, <2>2, <2>3
<1> QED
  BY <1>1, <1>5, <1>6

LEMMA OfWriteMember ==
    ASSUME ClaimTypeOK, NEW w \in Workers, WriteMember(w)
    PROVE  LET r == request[w]
           IN  /\ Only(w) /\ UNCHANGED <<members, claims>>
               /\ r \in OwnerRequests /\ r.phase = "writing" /\ r.operation \in {"remove", "archive"}
               /\ Free(w, {r.member}) /\ locks'[w] = locks[w] \cup {r.member}
               /\ request'[w] \in OwnerRequests /\ request'[w].phase = "revoking"
               /\ request'[w].operation = r.operation
               /\ request'[w].member = r.member /\ request'[w].role = r.role
<1> DEFINE r == request[w]
           q == [r EXCEPT !.phase = "revoking"]
           L == locks[w] \cup {r.member}
<1>1. /\ r \in OwnerRequests /\ r.phase = "writing" /\ r.operation \in {"remove", "archive"}
      /\ Free(w, {r.member})
  BY DEF WriteMember
<1>2. /\ request' = [request EXCEPT ![w] = q] /\ locks' = [locks EXCEPT ![w] = L]
      /\ UNCHANGED <<members, claims>>
  BY DEF WriteMember, Goto, ClaimTypeOK
<1>3. /\ q \in OwnerRequests /\ q.phase = "revoking" /\ q.operation = r.operation
      /\ q.member = r.member /\ q.role = r.role
  BY <1>1, OwnerGoto
<1>4. q \in Requests /\ L \in SUBSET (Members \cup Claims)
  BY <1>1, <1>3, RequestOf DEF Requests, OwnerRequests
<1> HIDE DEF q, L
<1>5. Only(w) /\ request'[w] = q /\ locks'[w] = L
  <2>1. request' \in [Workers -> Requests] /\ locks' \in [Workers -> SUBSET (Members \cup Claims)]
    BY <1>2, <1>4 DEF ClaimTypeOK, Requests
  <2> QED
    BY <1>2, <2>1 DEF ClaimTypeOK, Only
<1> QED
  BY <1>1, <1>2, <1>3, <1>5 DEF L

\* A claim with another status, or refreshed, or asked for.
LEMMA ClaimUpdates ==
    ASSUME NEW claim \in ClaimRows,
           NEW status \in {"REQUESTED", "APPROVED", "REJECTED", "REVOKED", "EXPIRED"},
           NEW expired \in BOOLEAN, NEW u \in Users
    PROVE  /\ LET new == [claim EXCEPT !.status = status]
              IN  /\ new \in ClaimRows /\ new.member = claim.member /\ new.by = claim.by
                  /\ new.status = status /\ new.expired = claim.expired
           /\ LET new == [claim EXCEPT !.expired = expired]
              IN  /\ new \in ClaimRows /\ new.member = claim.member /\ new.by = claim.by
                  /\ new.status = claim.status
           /\ LET new == [claim EXCEPT !.status = status, !.by = u]
              IN  /\ new \in ClaimRows /\ new.member = claim.member /\ new.by = u
                  /\ new.status = status
  BY DEF ClaimRows

\* A claim that exists keeps its member, and does not open again.
ClaimGoesOn(c) ==
    /\ claims'[c] \in ClaimRows /\ claims'[c].member = claims[c].member
    /\ Open(claims'[c]) => Open(claims[c])

\* The rows of claims that exist go on; the rows of others are as they were.
ClaimsGoOn ==
    /\ claims' \in [Claims -> ClaimRows \cup {NoRow}]
    /\ \A c \in Claims : IF claims[c] = NoRow THEN claims'[c] = NoRow ELSE ClaimGoesOn(c)

LEMMA ClaimsStay ==
    ASSUME ClaimTypeOK, UNCHANGED claims
    PROVE  ClaimsGoOn
  BY DEF ClaimTypeOK, ClaimsGoOn, ClaimGoesOn

LEMMA OneClaimGoesOn ==
    ASSUME ClaimTypeOK, NEW c \in Claims, NEW new \in ClaimRows,
           claims[c] # NoRow, new.member = claims[c].member, Open(new) => Open(claims[c]),
           claims' = [claims EXCEPT ![c] = new]
    PROVE  /\ ClaimsGoOn /\ claims'[c] = new
           /\ \A d \in Claims \ {c} : claims'[d] = claims[d]
<1>1. /\ claims'[c] = new
      /\ \A d \in Claims \ {c} : claims'[d] = claims[d]
      /\ claims' \in [Claims -> ClaimRows \cup {NoRow}]
  BY DEF ClaimTypeOK
<1> QED
  BY <1>1 DEF ClaimTypeOK, ClaimsGoOn, ClaimGoesOn

LEMMA OfRevokeClaims ==
    ASSUME MemberAssumption, ClaimTypeOK, RowsExist, NEW w \in Workers, RevokeClaims(w)
    PROVE  LET r == request[w]
           IN  /\ Only(w) /\ request'[w] = Idle /\ locks'[w] = {}
               /\ r \in OwnerRequests /\ r.phase = "revoking"
               /\ r.operation \in {"remove", "archive"}
               /\ Free(w, OpenClaims(r.member))
               /\ OnlyMember(r.member) /\ members'[r.member].user = members[r.member].user
               /\ ClaimsGoOn
               /\ \A c \in Claims : c \notin OpenClaims(r.member) => claims'[c] = claims[c]
               /\ \A c \in Claims : claims[c] # NoRow => claims'[c].by = claims[c].by
<1> DEFINE r == request[w]
           m == r.member
<1>1. r \in OwnerRequests /\ r.phase = "revoking" /\ m \in Members /\ Free(w, OpenClaims(m))
  BY Kinds, RequestOf DEF RevokeClaims, OwnerRequests
<1>2. members[m] \in MemberRows
  BY <1>1 DEF RowsExist, ClaimTypeOK
<1>3. Only(w) /\ request'[w] = Idle /\ locks'[w] = {}
  BY OnlyFinish DEF RevokeClaims
<1>4. OnlyMember(m) /\ members'[m].user = members[m].user
  <2> DEFINE new == IF r.operation = "remove"
                    THEN [members[m] EXCEPT !.status = "REMOVED", !.removed = TRUE]
                    ELSE [members[m] EXCEPT !.status = "ARCHIVED"]
  <2>1. members' = [members EXCEPT ![m] = new]
    BY DEF RevokeClaims, Gone, ClaimTypeOK
  <2>2. new \in MemberRows /\ new.user = members[m].user
    BY <1>2, StatusUpdate, Removal
  <2> HIDE DEF new
  <2> QED
    BY <1>1, <1>2, <2>1, <2>2 DEF OnlyMember, ClaimTypeOK
<1>5. claims' = [c \in Claims |-> IF c \in OpenClaims(m)
                                  THEN [claims[c] EXCEPT !.status = "REVOKED"] ELSE claims[c]]
  BY DEF RevokeClaims
<1>6. ASSUME NEW c \in Claims, c \in OpenClaims(m)
      PROVE  /\ claims[c] \in ClaimRows /\ claims[c] # NoRow
             /\ claims'[c] \in ClaimRows /\ claims'[c].member = claims[c].member
             /\ claims'[c].by = claims[c].by /\ ~Open(claims'[c])
  <2> DEFINE new == [claims[c] EXCEPT !.status = "REVOKED"]
  <2>1. claims[c] \in ClaimRows /\ claims[c] # NoRow
    BY <1>6 DEF OpenClaims, Open, ClaimTypeOK
  <2>2. /\ new \in ClaimRows /\ new.member = claims[c].member /\ new.by = claims[c].by
        /\ new.status = "REVOKED"
    BY <2>1 DEF ClaimRows
  <2>3. claims'[c] = new
    BY <1>5, <1>6
  <2> HIDE DEF new
  <2> QED
    BY <2>1, <2>2, <2>3 DEF Open
<1>7. \A c \in Claims : c \notin OpenClaims(m) => claims'[c] = claims[c]
  BY <1>5
<1>8. ClaimsGoOn
  <2>1. claims' \in [Claims -> ClaimRows \cup {NoRow}]
    BY <1>5, <1>6, <1>7 DEF ClaimTypeOK
  <2> QED
    BY <1>6, <1>7, <2>1 DEF ClaimsGoOn, ClaimGoesOn, ClaimTypeOK
<1>9. \A c \in Claims : claims[c] # NoRow => claims'[c].by = claims[c].by
  BY <1>6, <1>7
<1>10. r.operation \in {"remove", "archive"}
  BY <1>1 DEF RowsExist
<1> QED
  BY <1>1, <1>3, <1>4, <1>7, <1>8, <1>9, <1>10

LEMMA OfAbort ==
    ASSUME ClaimTypeOK, NEW w \in Workers, Abort(w)
    PROVE  Only(w) /\ request'[w] = Idle /\ locks'[w] = {} /\ UNCHANGED <<members, claims>>
  BY OnlyFinish DEF Abort, Refuse

\* A new request about a claim.
LEMMA Starts ==
    ASSUME ClaimTypeOK, NEW w \in Workers, NEW u \in Users, NEW m \in Members,
           NEW c \in Claims \cup {NoRow}, NEW status \in {"REJECTED", "REVOKED"},
           NEW p \in {"issuing", "expiring", "claiming", "closing", "approving"},
           Start(w, p, u, m, c, status), UNCHANGED locks
    PROVE  /\ Only(w) /\ request'[w] \in ClaimRequests
           /\ request'[w].phase = p /\ request'[w].member = m /\ request'[w].claim = c
<1> DEFINE r == [phase |-> p, actor |-> u, member |-> m, claim |-> c, status |-> status]
<1>1. r \in ClaimRequests /\ r.phase = p /\ r.member = m /\ r.claim = c
  BY DEF ClaimRequests
<1>2. r \in Requests
  BY <1>1 DEF Requests
<1>3. request' = [request EXCEPT ![w] = r]
  BY DEF Start
<1> HIDE DEF r
<1> QED
  BY <1>1, <1>2, <1>3, OnlyOne

\* A request about a claim starts with the claim's member.
StartsWith(w) ==
    /\ request'[w] \in ClaimRequests
    /\ request'[w].phase \in {"issuing", "expiring", "claiming", "closing", "approving"}
    /\ \/ request'[w].phase = "issuing" /\ request'[w].claim = NoRow
       \/ /\ request'[w].claim \in Claims
          /\ claims[request'[w].claim] # NoRow
          /\ claims[request'[w].claim].member = request'[w].member

LEMMA OfAskAboutClaims ==
    ASSUME ClaimTypeOK, NEW w \in Workers, AskAboutClaims(w)
    PROVE  Only(w) /\ UNCHANGED <<members, claims, locks>> /\ StartsWith(w)
<1> PICK u \in Users :
        \/ \E m \in Members : AskForLink(w, u, m)
        \/ \E c \in Claims :
              \/ OpenLink(w, u, c)
              \/ \E status \in {"REJECTED", "REVOKED"} : AskToClose(w, u, c, status)
              \/ AskToApprove(w, u, c)
  BY DEF AskAboutClaims
<1>0. ASSUME NEW c \in Claims, claims[c] # NoRow PROVE claims[c].member \in Members
  BY <1>0 DEF ClaimTypeOK, ClaimRows
<1>1. ASSUME NEW m \in Members, AskForLink(w, u, m)
      PROVE  Only(w) /\ UNCHANGED <<members, claims, locks>> /\ StartsWith(w)
  <2>1. PICK c \in (IF OpenClaims(m) = {} THEN {NoRow} ELSE OpenClaims(m)) :
            Start(w, "issuing", u, m, c, "REVOKED")
    BY <1>1 DEF AskForLink
  <2>2. UNCHANGED <<members, claims, locks>>
    BY <1>1 DEF AskForLink
  <2>3. c = NoRow \/ (c \in Claims /\ claims[c] # NoRow /\ claims[c].member = m)
    BY <2>1 DEF OpenClaims, Open
  <2>4. /\ Only(w) /\ request'[w] \in ClaimRequests
        /\ request'[w].phase = "issuing" /\ request'[w].member = m /\ request'[w].claim = c
    BY <2>1, <2>2, <2>3, Starts
  <2> QED
    BY <2>2, <2>3, <2>4 DEF StartsWith
<1>2. ASSUME NEW c \in Claims, NEW p \in {"expiring", "claiming", "closing", "approving"},
             NEW status \in {"REJECTED", "REVOKED"}, claims[c] # NoRow,
             Start(w, p, u, claims[c].member, c, status), UNCHANGED <<members, claims, locks>>
      PROVE  Only(w) /\ UNCHANGED <<members, claims, locks>> /\ StartsWith(w)
  <2>1. claims[c].member \in Members
    BY <1>0, <1>2
  <2>2. /\ Only(w) /\ request'[w] \in ClaimRequests
        /\ request'[w].phase = p /\ request'[w].member = claims[c].member
        /\ request'[w].claim = c
    BY <1>2, <2>1, Starts
  <2> QED
    BY <1>2, <2>2 DEF StartsWith
<1>3. ASSUME NEW c \in Claims, OpenLink(w, u, c)
      PROVE  Only(w) /\ UNCHANGED <<members, claims, locks>> /\ StartsWith(w)
  <2> DEFINE p == IF claims[c].expired THEN "expiring" ELSE "claiming"
  <2>1. /\ claims[c] # NoRow /\ Start(w, p, u, claims[c].member, c, "REVOKED")
        /\ UNCHANGED <<members, claims, locks>>
    BY <1>3 DEF OpenLink
  <2>2. p \in {"expiring", "claiming", "closing", "approving"}
    OBVIOUS
  <2> HIDE DEF p
  <2> QED
    BY <1>2, <2>1, <2>2
<1>4. ASSUME NEW c \in Claims, NEW status \in {"REJECTED", "REVOKED"},
             AskToClose(w, u, c, status)
      PROVE  Only(w) /\ UNCHANGED <<members, claims, locks>> /\ StartsWith(w)
  BY <1>2, <1>4 DEF AskToClose
<1>5. ASSUME NEW c \in Claims, AskToApprove(w, u, c)
      PROVE  Only(w) /\ UNCHANGED <<members, claims, locks>> /\ StartsWith(w)
  BY <1>2, <1>5 DEF AskToApprove
<1> QED
  BY <1>1, <1>3, <1>4, <1>5

\* The requests that end with one write to their claim, by its id.
LEMMA OfOneWrite ==
    ASSUME MemberAssumption, ClaimTypeOK, ClaimOfMember, NEW w \in Workers,
           RefreshLink(w) \/ WriteExpiry(w) \/ ClaimLink(w) \/ CloseClaim(w)
    PROVE  LET c == request[w].claim
           IN  /\ Only(w) /\ request'[w] = Idle /\ locks'[w] = {} /\ UNCHANGED members
               /\ c \in Claims /\ Free(w, {c})
               /\ ClaimsGoOn
               /\ \A d \in Claims \ {c} : claims'[d] = claims[d]
               /\ claims[c] # NoRow /\ claims[c].by # NoUser => claims'[c].by = claims[c].by
<1> DEFINE c == request[w].claim
<1>1. /\ c \in Claims /\ claims[c] \in ClaimRows /\ claims[c] # NoRow
      /\ request[w].actor \in Users /\ request[w].status \in {"REJECTED", "REVOKED"}
  <2>1. request[w] \in ClaimRequests
    BY Kinds, RequestOf DEF RefreshLink, WriteExpiry, ClaimLink, CloseClaim
  <2>2. ~(request[w].phase = "issuing" /\ request[w].claim = NoRow)
    BY DEF RefreshLink, WriteExpiry, ClaimLink, CloseClaim
  <2> QED
    BY <2>1, <2>2 DEF ClaimOfMember, ClaimTypeOK, ClaimRequests
<1>2. /\ Only(w) /\ request'[w] = Idle /\ locks'[w] = {} /\ UNCHANGED members
      /\ Free(w, {c})
  BY OnlyFinish DEF RefreshLink, WriteExpiry, ClaimLink, CloseClaim
<1>3. UNCHANGED claims \/ \E new \in ClaimRows :
         /\ claims' = [claims EXCEPT ![c] = new]
         /\ new.member = claims[c].member /\ (Open(new) => Open(claims[c]))
         /\ claims[c].by # NoUser => new.by = claims[c].by
  <2>1. CASE RefreshLink(w)
    <3> DEFINE new == [claims[c] EXCEPT !.expired = FALSE]
    <3>1. claims' = [claims EXCEPT ![c] = new]
      BY <2>1 DEF RefreshLink
    <3>2. /\ new \in ClaimRows /\ new.member = claims[c].member /\ new.by = claims[c].by
          /\ new.status = claims[c].status
      BY <1>1 DEF ClaimRows
    <3> HIDE DEF new
    <3>3. Open(new) => Open(claims[c])
      BY <1>1, <3>2 DEF Open
    <3> QED
      BY <3>1, <3>2, <3>3
  <2>2. CASE WriteExpiry(w)
    <3> DEFINE new == [claims[c] EXCEPT !.status = "EXPIRED"]
    <3>1. claims' = [claims EXCEPT ![c] = new]
      BY <2>2 DEF WriteExpiry
    <3>2. /\ new \in ClaimRows /\ new.member = claims[c].member /\ new.by = claims[c].by
          /\ new.status = "EXPIRED"
      BY <1>1 DEF ClaimRows
    <3> HIDE DEF new
    <3>3. Open(new) => Open(claims[c])
      BY <3>2 DEF Open
    <3> QED
      BY <3>1, <3>2, <3>3
  <2>3. CASE ClaimLink(w) /\ ~UNCHANGED claims
    <3> DEFINE new == [claims[c] EXCEPT !.status = "REQUESTED", !.by = request[w].actor]
    <3>1. /\ claims' = [claims EXCEPT ![c] = new]
          /\ claims[c].status = "PENDING" /\ claims[c].by = NoUser
      BY <2>3 DEF ClaimLink
    <3>2. new \in ClaimRows /\ new.member = claims[c].member
      BY <1>1 DEF ClaimRows
    <3> HIDE DEF new
    <3>3. Open(claims[c])
      BY <1>1, <3>1 DEF Open
    <3> QED
      BY <3>1, <3>2, <3>3
  <2>4. CASE CloseClaim(w) /\ ~UNCHANGED claims
    <3> DEFINE new == [claims[c] EXCEPT !.status = request[w].status]
    <3>1. claims' = [claims EXCEPT ![c] = new]
      BY <2>4 DEF CloseClaim
    <3>2. /\ new \in ClaimRows /\ new.member = claims[c].member /\ new.by = claims[c].by
          /\ new.status \in {"REJECTED", "REVOKED"}
      BY <1>1 DEF ClaimRows
    <3> HIDE DEF new
    <3>3. Open(new) => Open(claims[c])
      BY <3>2 DEF Open
    <3> QED
      BY <3>1, <3>2, <3>3
  <2> QED
    BY <2>1, <2>2, <2>3, <2>4
<1>4. CASE UNCHANGED claims
  BY <1>1, <1>2, <1>4, ClaimsStay
<1>5. CASE ~UNCHANGED claims
  <2>1. PICK new \in ClaimRows :
         /\ claims' = [claims EXCEPT ![c] = new]
         /\ new.member = claims[c].member /\ (Open(new) => Open(claims[c]))
         /\ claims[c].by # NoUser => new.by = claims[c].by
    BY <1>3, <1>5
  <2>2. /\ ClaimsGoOn /\ claims'[c] = new
        /\ \A d \in Claims \ {c} : claims'[d] = claims[d]
    BY <1>1, <2>1, OneClaimGoesOn
  <2> QED
    BY <1>1, <1>2, <2>1, <2>2
<1> QED
  BY <1>4, <1>5

LEMMA OfCreateLink ==
    ASSUME MemberAssumption, ClaimTypeOK, NEW w \in Workers, CreateLink(w)
    PROVE  /\ Only(w) /\ request'[w] = Idle /\ locks'[w] = {} /\ UNCHANGED members
           /\ \/ UNCHANGED claims
              \/ /\ OpenClaims(request[w].member) = {}
                 /\ claims' \in [Claims -> ClaimRows \cup {NoRow}]
                 /\ \E c \in Claims :
                       /\ claims[c] = NoRow /\ claims'[c].member = request[w].member
                       /\ \A d \in Claims \ {c} : claims'[d] = claims[d]
<1>1. Only(w) /\ request'[w] = Idle /\ locks'[w] = {} /\ UNCHANGED members
  BY OnlyFinish DEF CreateLink
<1>2. CASE ~UNCHANGED claims
  <2> DEFINE new == [member |-> request[w].member, status |-> "PENDING",
                     by |-> NoUser, expired |-> FALSE]
  <2>1. PICK c \in Claims : claims[c] = NoRow /\ claims' = [claims EXCEPT ![c] = new]
    BY <1>2 DEF CreateLink
  <2>2. OpenClaims(request[w].member) = {}
    BY <1>2 DEF CreateLink
  <2>3. request[w] \in ClaimRequests
    BY Kinds, RequestOf DEF CreateLink
  <2>4. new \in ClaimRows /\ new.member = request[w].member
    BY <2>3 DEF ClaimRows, ClaimRequests
  <2> HIDE DEF new
  <2> QED
    BY <1>1, <2>1, <2>2, <2>4 DEF ClaimTypeOK
<1> QED
  BY <1>1, <1>2

LEMMA OfLinkExpires ==
    ASSUME MemberAssumption, ClaimTypeOK, NEW c \in Claims, LinkExpires(c)
    PROVE  /\ UNCHANGED <<members, locks, request>>
           /\ ClaimsGoOn
           /\ \A d \in Claims : claims[d] # NoRow => claims'[d].status = claims[d].status
           /\ \A d \in Claims : claims[d] # NoRow => claims'[d].by = claims[d].by
<1> DEFINE new == [claims[c] EXCEPT !.expired = TRUE]
<1>1. claims[c] \in ClaimRows /\ claims[c] # NoRow /\ UNCHANGED <<members, locks, request>>
  BY DEF LinkExpires, Open, ClaimTypeOK
<1>2. /\ new \in ClaimRows /\ new.member = claims[c].member /\ new.by = claims[c].by
      /\ new.status = claims[c].status
  BY <1>1 DEF ClaimRows
<1>3. claims' = [claims EXCEPT ![c] = new]
  BY DEF LinkExpires
<1> HIDE DEF new
<1>4. Open(new) => Open(claims[c])
  BY <1>1, <1>2 DEF Open
<1>5. ClaimsGoOn /\ claims'[c] = new /\ \A d \in Claims \ {c} : claims'[d] = claims[d]
  BY <1>1, <1>2, <1>3, <1>4, OneClaimGoesOn
<1> QED
  BY <1>1, <1>2, <1>5

LEMMA OfLockClaim ==
    ASSUME ClaimTypeOK, ClaimOfMember, NEW w \in Workers, LockClaim(w)
    PROVE  LET r == request[w]
           IN  /\ Only(w) /\ UNCHANGED <<members, claims>>
               /\ r \in ClaimRequests /\ r.claim \in Claims
               /\ Free(w, {r.claim}) /\ locks'[w] = {r.claim}
               /\ request'[w] \in ClaimRequests /\ request'[w].phase = "judging"
               /\ request'[w].member = r.member /\ request'[w].claim = r.claim
<1> DEFINE r == request[w]
           q == [r EXCEPT !.phase = "judging"]
           L == {r.claim}
<1>1. r \in ClaimRequests /\ r.phase = "approving" /\ Free(w, {r.claim})
  BY Kinds, RequestOf DEF LockClaim
<1>2. r.claim \in Claims
  BY <1>1 DEF ClaimOfMember
<1>3. /\ request' = [request EXCEPT ![w] = q] /\ locks' = [locks EXCEPT ![w] = L]
      /\ UNCHANGED <<members, claims>>
  BY DEF LockClaim, Goto, ClaimTypeOK
<1>4. q \in ClaimRequests /\ q.phase = "judging" /\ q.member = r.member /\ q.claim = r.claim
  BY <1>1, ClaimGoto
<1>5. q \in Requests /\ L \in SUBSET (Members \cup Claims)
  BY <1>2, <1>4 DEF Requests
<1> HIDE DEF q, L
<1>6. Only(w) /\ request'[w] = q /\ locks'[w] = L
  <2>1. request' \in [Workers -> Requests] /\ locks' \in [Workers -> SUBSET (Members \cup Claims)]
    BY <1>3, <1>5 DEF ClaimTypeOK, Requests
  <2> QED
    BY <1>3, <2>1 DEF ClaimTypeOK, Only
<1> QED
  BY <1>1, <1>2, <1>3, <1>4, <1>6 DEF L

LEMMA OfJudgeClaim ==
    ASSUME ClaimTypeOK, NEW w \in Workers, JudgeClaim(w)
    PROVE  LET r == request[w]
           IN  /\ Only(w) /\ UNCHANGED <<members, claims>>
               /\ r \in ClaimRequests /\ r.phase = "judging"
               /\ \/ request'[w] = Idle /\ locks'[w] = {}
                  \/ /\ UNCHANGED locks
                     /\ request'[w] \in ClaimRequests
                     /\ request'[w].member = r.member /\ request'[w].claim = r.claim
                     /\ \/ request'[w].phase = "expiring"
                        \/ /\ request'[w].phase = "linking"
                           /\ claims[r.claim].status = "REQUESTED"
                           /\ Claimable(members[r.member])
                           /\ members[r.member].role \in {"MEMBER", "VIEWER"}
<1> DEFINE r == request[w]
           p == IF claims[r.claim].expired THEN "expiring" ELSE "linking"
           q == [r EXCEPT !.phase = p]
           fine == /\ claims[r.claim].status = "REQUESTED"
                   /\ claims[r.claim].expired \/
                        (/\ Claimable(members[r.member])
                         /\ members[r.member].role \in {"MEMBER", "VIEWER"})
<1>1. r \in ClaimRequests /\ r.phase = "judging"
  BY Kinds, RequestOf DEF JudgeClaim
<1>2. CASE Refuse(w)
  BY <1>1, <1>2, OnlyFinish DEF Refuse
<1>3. CASE ~Refuse(w)
  <2>1. Goto(w, p) /\ UNCHANGED <<members, claims, locks>> /\ fine
    BY <1>3 DEF JudgeClaim
  <2>2. p \in {"expiring", "judging", "linking"} /\ (p = "linking" => ~claims[r.claim].expired)
    OBVIOUS
  <2> HIDE DEF p
  <2>3. q \in ClaimRequests /\ q.phase = p /\ q.member = r.member /\ q.claim = r.claim
    BY <1>1, <2>2, ClaimGoto
  <2>4. q \in Requests
    BY <2>3 DEF Requests
  <2>5. Only(w) /\ request'[w] = q
    BY <2>1, <2>4, OnlyGoto
  <2>6. p = "expiring" \/ p = "linking"
    BY DEF p
  <2> HIDE DEF q
  <2> QED
    BY <1>1, <2>1, <2>2, <2>3, <2>5, <2>6
<1> QED
  BY <1>2, <1>3

LEMMA OfLinkMember ==
    ASSUME MemberAssumption, ClaimTypeOK, ClaimOfMember, ApprovalIsCurrent,
           NEW w \in Workers, LinkMember(w)
    PROVE  LET r == request[w]
           IN  /\ Only(w) /\ request'[w] = Idle /\ locks'[w] = {}
               /\ r \in ClaimRequests /\ r.phase = "linking"
               /\ r.claim \in Claims /\ r.claim \in locks[w]
               /\ claims[r.claim] # NoRow /\ claims[r.claim].member = r.member
               /\ claims[r.claim].status = "REQUESTED"
               /\ OnlyMember(r.member) /\ Claimable(members[r.member])
               /\ members[r.member].role \in {"MEMBER", "VIEWER"}
               /\ members'[r.member].role = members[r.member].role
               /\ members'[r.member].status = members[r.member].status
               /\ members'[r.member].removed = members[r.member].removed
               /\ ClaimsGoOn
               /\ \A d \in Claims \ {r.claim} : claims'[d] = claims[d]
               /\ claims'[r.claim].by = claims[r.claim].by
<1> DEFINE r == request[w]
           m == r.member
           c == r.claim
<1>1. r \in ClaimRequests /\ r.phase = "linking" /\ m \in Members
  BY Kinds, RequestOf DEF LinkMember, ClaimRequests
<1>2. c \in Claims /\ claims[c] # NoRow /\ claims[c] \in ClaimRows /\ claims[c].member = m
  BY <1>1 DEF ClaimOfMember, ClaimTypeOK
<1>3. /\ c \in locks[w] /\ claims[c].status = "REQUESTED" /\ Claimable(members[m])
      /\ members[m].role \in {"MEMBER", "VIEWER"} /\ members[m] \in MemberRows
  BY <1>1 DEF ApprovalIsCurrent, Claimable, IsActive, ClaimTypeOK
<1>4. Only(w) /\ request'[w] = Idle /\ locks'[w] = {}
  BY OnlyFinish DEF LinkMember
<1>5. CASE UNCHANGED <<members, claims>>
  <2>1. OnlyMember(m)
    BY <1>1, <1>3, <1>5 DEF OnlyMember, ClaimTypeOK
  <2> QED
    BY <1>1, <1>2, <1>3, <1>4, <1>5, <2>1, ClaimsStay
<1>6. CASE ~UNCHANGED <<members, claims>>
  <2> DEFINE row == [members[m] EXCEPT !.user = claims[c].by]
             new == [claims[c] EXCEPT !.status = "APPROVED"]
  <2>1. members' = [members EXCEPT ![m] = row] /\ claims' = [claims EXCEPT ![c] = new]
    BY <1>6 DEF LinkMember
  <2>2. claims[c].by \in Users \cup {NoUser}
    BY <1>2 DEF ClaimRows
  <2>3. /\ row \in MemberRows /\ row.role = members[m].role
        /\ row.status = members[m].status /\ row.removed = members[m].removed
    BY <1>3, <2>2, UserUpdate
  <2>4. /\ new \in ClaimRows /\ new.member = claims[c].member /\ new.by = claims[c].by
        /\ new.status = "APPROVED"
    BY <1>2 DEF ClaimRows
  <2> HIDE DEF row, new
  <2>5. OnlyMember(m) /\ members'[m] = row
    BY <1>1, <1>3, <2>1, <2>3 DEF OnlyMember, ClaimTypeOK
  <2>6. Open(new) => Open(claims[c])
    BY <2>4 DEF Open
  <2>7. ClaimsGoOn /\ claims'[c] = new /\ \A d \in Claims \ {c} : claims'[d] = claims[d]
    BY <1>2, <2>1, <2>4, <2>6, OneClaimGoesOn
  <2> QED
    BY <1>1, <1>2, <1>3, <1>4, <2>3, <2>4, <2>5, <2>7
<1> QED
  BY <1>5, <1>6

-----------------------------------------------------------------------------
(* LinkInv is inductive. *)

\* What LinkInv says of one request.
At(w) ==
    /\ request[w] \in OwnerRequests /\ request[w].phase \in {"counting", "writing", "revoking"}
       => members[request[w].member] # NoRow
    /\ request[w].phase = "revoking" => request[w].operation \in {"remove", "archive"}
    /\ request[w] \in ClaimRequests =>
          \/ request[w].phase = "issuing" /\ request[w].claim = NoRow
          \/ /\ request[w].claim \in Claims
             /\ claims[request[w].claim] # NoRow
             /\ claims[request[w].claim].member = request[w].member
    /\ request[w].phase \in {"judging", "linking"} => request[w].claim \in locks[w]
    /\ request[w].phase = "linking" =>
          /\ claims[request[w].claim].status = "REQUESTED"
          /\ Claimable(members[request[w].member])
          /\ members[request[w].member].role \in {"MEMBER", "VIEWER"}
    /\ /\ request[w] \in OwnerRequests /\ request[w].phase \in {"counting", "writing"}
       /\ request[w].operation = "updateRole" /\ request[w].role \in {"OWNER", "ADMIN"}
       => members[request[w].member] # NoRow /\ members[request[w].member].user # NoUser

LEMMA AtEach ==
    ASSUME LinkInv, NEW w \in Workers
    PROVE  At(w)
<1>1. RowsExist /\ ClaimOfMember /\ ApprovalIsCurrent /\ ElevatedHaveAccounts
  BY DEF LinkInv
<1> QED
  BY <1>1 DEF At, RowsExist, ClaimOfMember, ApprovalIsCurrent, ElevatedHaveAccounts

LEMMA EachAt ==
    ASSUME \A w \in Workers : At(w)'
    PROVE  (RowsExist /\ ClaimOfMember /\ ApprovalIsCurrent /\ ElevatedHaveAccounts)'
<1>1. RowsExist'
  BY DEF At, RowsExist
<1>2. ClaimOfMember'
  BY DEF At, ClaimOfMember
<1>3. ApprovalIsCurrent'
  BY DEF At, ApprovalIsCurrent
<1>4. ElevatedHaveAccounts'
  BY DEF At, ElevatedHaveAccounts
<1> QED
  BY <1>1, <1>2, <1>3, <1>4

\* Rows of members stay, and so do the users they have.
MembersGoOn ==
    /\ members' \in [Members -> MemberRows \cup {NoRow}]
    /\ \A m \in Members :
          /\ members[m] # NoRow => members'[m] # NoRow
          /\ members[m] # NoRow /\ members[m].user # NoUser => members'[m].user = members[m].user

ClaimsPersist ==
    /\ claims' \in [Claims -> ClaimRows \cup {NoRow}]
    /\ \A c \in Claims :
          claims[c] # NoRow => claims'[c] # NoRow /\ claims'[c].member = claims[c].member

\* The approval a request has under way is of what it was.
Undisturbed(w) ==
    request[w].phase = "linking" =>
        /\ claims'[request[w].claim].status = claims[request[w].claim].status
        /\ Claimable(members'[request[w].member])
        /\ members'[request[w].member].role \in {"MEMBER", "VIEWER"}

LEMMA GoOnPersist ==
    ASSUME MemberAssumption, ClaimsGoOn
    PROVE  ClaimsPersist
  BY DEF MemberAssumption, ClaimsGoOn, ClaimGoesOn, ClaimsPersist

LEMMA OneMemberGoesOn ==
    ASSUME MemberAssumption, NEW m \in Members, OnlyMember(m),
           members[m].user # NoUser => members'[m].user = members[m].user
    PROVE  MembersGoOn
  BY DEF MemberAssumption, OnlyMember, MembersGoOn

LEMMA MembersStay ==
    ASSUME ClaimTypeOK, UNCHANGED members
    PROVE  MembersGoOn
  BY DEF ClaimTypeOK, MembersGoOn

LEMMA OthersStay ==
    ASSUME ClaimTypeOK, NEW w \in Workers, NEW v \in Workers, At(v),
           request'[v] = request[v], locks'[v] = locks[v],
           MembersGoOn, ClaimsPersist, Undisturbed(v)
    PROVE  At(v)'
<1> DEFINE r == request[v]
<1>1. r \in Requests
  BY RequestOf
<1>2. r \in OwnerRequests \/ r \in ClaimRequests => r.member \in Members
  BY DEF OwnerRequests, ClaimRequests
<1>3. r.phase = "linking" => r \in ClaimRequests
  BY <1>1, Kinds
<1> QED
  BY <1>1, <1>2, <1>3 DEF At, MembersGoOn, ClaimsPersist, Undisturbed

LEMMA IdleAt ==
    ASSUME NEW w \in Workers, request'[w] = Idle
    PROVE  At(w)'
<1>1. Idle \notin OwnerRequests /\ Idle \notin ClaimRequests /\ Idle.phase = "idle"
  BY DEF Idle, OwnerRequests, ClaimRequests
<1> QED
  BY <1>1 DEF At

LEMMA ExclusiveKept ==
    ASSUME LocksAreExclusive, NEW w \in Workers, Only(w), NEW S, Free(w, S),
           locks'[w] \subseteq locks[w] \cup S
    PROVE  LocksAreExclusive'
  BY DEF LocksAreExclusive, Only, Free

LEMMA OneOpenKept ==
    ASSUME MemberAssumption, OneOpenClaim, ClaimsGoOn
    PROVE  OneOpenClaim'
<1>1. \A c \in Claims : Open(claims'[c]) => Open(claims[c]) /\ claims'[c].member = claims[c].member
  BY DEF ClaimsGoOn, ClaimGoesOn, Open
<1> QED
  BY <1>1 DEF OneOpenClaim

\* When only the request of w moves, and it neither opens a claim nor disturbs an approval.
LEMMA Kept ==
    ASSUME MemberAssumption, LinkInv, NEW w \in Workers, Only(w), At(w)',
           MembersGoOn, ClaimsGoOn, \A v \in Workers \ {w} : Undisturbed(v),
           NEW S, Free(w, S), locks'[w] \subseteq locks[w] \cup S
    PROVE  LinkInv'
<1>1. \A v \in Workers : At(v)
  BY AtEach
<1>2. ClaimsPersist
  BY GoOnPersist
<1>3. \A v \in Workers \ {w} : At(v)'
  BY <1>1, <1>2, OthersStay DEF LinkInv, Only
<1>4. (RowsExist /\ ClaimOfMember /\ ApprovalIsCurrent /\ ElevatedHaveAccounts)'
  <2>1. \A v \in Workers : At(v)'
    BY <1>3
  <2> QED
    BY <2>1, EachAt
<1>5. LocksAreExclusive'
  BY ExclusiveKept DEF LinkInv
<1>6. OneOpenClaim'
  BY OneOpenKept DEF LinkInv
<1>7. ClaimTypeOK'
  BY DEF Only, MembersGoOn, ClaimsGoOn, ClaimTypeOK, Requests
<1> QED
  BY <1>4, <1>5, <1>6, <1>7 DEF LinkInv

\* The same for a request that changes no row.
LEMMA KeptQuietly ==
    ASSUME MemberAssumption, LinkInv, NEW w \in Workers, Only(w), At(w)',
           UNCHANGED <<members, claims>>, NEW S, Free(w, S), locks'[w] \subseteq locks[w] \cup S
    PROVE  LinkInv'
<1>1. MembersGoOn /\ ClaimsGoOn
  BY MembersStay, ClaimsStay DEF LinkInv
<1>2. \A v \in Workers : Undisturbed(v)
  BY DEF LinkInv, ApprovalIsCurrent, Undisturbed
<1> QED
  BY <1>1, <1>2, Kept

LEMMA ApprovalOf ==
    ASSUME LinkInv, NEW v \in Workers, request[v].phase = "linking"
    PROVE  LET r == request[v]
           IN  /\ r.claim \in Claims /\ r.claim \in locks[v] /\ r.member \in Members
               /\ claims[r.claim] # NoRow /\ claims[r.claim].member = r.member
               /\ claims[r.claim].status = "REQUESTED" /\ r.claim \in OpenClaims(r.member)
               /\ Claimable(members[r.member]) /\ members[r.member].role \in {"MEMBER", "VIEWER"}
<1>1. request[v] \in ClaimRequests
  BY Kinds, RequestOf DEF LinkInv
<1>2. At(v)
  BY AtEach
<1> QED
  BY <1>1, <1>2 DEF At, ClaimRequests, OpenClaims, Open

\* Writing one claim disturbs no approval: the approval holds its claim.
LEMMA OneWriteUndisturbing ==
    ASSUME MemberAssumption, LinkInv, NEW w \in Workers,
           RefreshLink(w) \/ WriteExpiry(w) \/ ClaimLink(w) \/ CloseClaim(w),
           NEW v \in Workers \ {w}
    PROVE  Undisturbed(v)
<1> SUFFICES ASSUME request[v].phase = "linking" PROVE Undisturbed(v)
  BY DEF Undisturbed
<1> DEFINE c == request[w].claim
<1>1. /\ UNCHANGED members /\ Free(w, {c}) /\ \A d \in Claims \ {c} : claims'[d] = claims[d]
  BY OfOneWrite DEF LinkInv
<1>2. request[v].claim # c /\ request[v].claim \in Claims
  BY <1>1, ApprovalOf DEF Free
<1> QED
  BY <1>1, <1>2, ApprovalOf DEF Undisturbed

\* A role or a restoration leaves a member whose approval is under way claimable.
LEMMA UpdateUndisturbing ==
    ASSUME MemberAssumption, LinkInv, NEW w \in Workers, UpdateMember(w), NEW v \in Workers \ {w}
    PROVE  Undisturbed(v)
<1> SUFFICES ASSUME request[v].phase = "linking" PROVE Undisturbed(v)
  BY DEF Undisturbed
<1> DEFINE r == request[w]
           m == request[v].member
<1>1. /\ UNCHANGED claims /\ r \in OwnerRequests /\ r.phase = "writing"
      /\ OnlyMember(r.member)
      /\ members'[r.member].user = members[r.member].user
      /\ members'[r.member].removed = members[r.member].removed
      /\ \/ /\ r.operation = "updateRole" /\ members'[r.member].role = r.role
            /\ members'[r.member].status = members[r.member].status
         \/ /\ r.operation = "restore" /\ members'[r.member].status = "ACTIVE"
            /\ members'[r.member].role = members[r.member].role
  BY OfUpdateMember DEF LinkInv
<1>2. m \in Members /\ Claimable(members[m]) /\ members[m].role \in {"MEMBER", "VIEWER"}
  BY ApprovalOf
<1>3. CASE m # r.member
  BY <1>1, <1>2, <1>3 DEF OnlyMember, Undisturbed
<1>4. CASE m = r.member /\ r.operation = "restore"
  BY <1>1, <1>2, <1>4 DEF OnlyMember, Undisturbed, Claimable, IsActive, MemberAssumption
<1>5. CASE m = r.member /\ r.operation = "updateRole"
  <2>1. members[m].user = NoUser
    BY <1>2 DEF Claimable
  <2>2. r.role \in {"MEMBER", "VIEWER"}
    BY <1>1, <1>5, <2>1, AtEach DEF At, OwnerRequests, MemberRoles
  <2> QED
    BY <1>1, <1>2, <1>5, <2>2 DEF OnlyMember, Undisturbed, Claimable, IsActive, MemberAssumption
<1> QED
  BY <1>1, <1>3, <1>4, <1>5

\* A removal or an archival waits for the approval of its member.
LEMMA RevokeUndisturbing ==
    ASSUME MemberAssumption, LinkInv, NEW w \in Workers, RevokeClaims(w), NEW v \in Workers \ {w}
    PROVE  Undisturbed(v)
<1> SUFFICES ASSUME request[v].phase = "linking" PROVE Undisturbed(v)
  BY DEF Undisturbed
<1> DEFINE r == request[w]
<1>1. /\ Free(w, OpenClaims(r.member)) /\ OnlyMember(r.member)
      /\ \A c \in Claims : c \notin OpenClaims(r.member) => claims'[c] = claims[c]
  BY OfRevokeClaims DEF LinkInv
<1>2. request[v].member # r.member
  BY <1>1, ApprovalOf DEF Free
<1>3. request[v].claim \notin OpenClaims(r.member)
  BY <1>2, ApprovalOf DEF OpenClaims
<1> QED
  BY <1>1, <1>2, <1>3, ApprovalOf DEF Undisturbed, OnlyMember

\* Two approvals of one member are approvals of one claim, which one of them holds.
LEMMA LinkUndisturbing ==
    ASSUME MemberAssumption, LinkInv, NEW w \in Workers, LinkMember(w), NEW v \in Workers \ {w}
    PROVE  Undisturbed(v)
<1> SUFFICES ASSUME request[v].phase = "linking" PROVE Undisturbed(v)
  BY DEF Undisturbed
<1> DEFINE r == request[w]
<1>1. /\ r.phase = "linking" /\ OnlyMember(r.member)
      /\ \A d \in Claims \ {r.claim} : claims'[d] = claims[d]
  BY OfLinkMember DEF LinkInv
<1>2. request[v].claim # r.claim
  BY <1>1, ApprovalOf DEF LinkInv, LocksAreExclusive
<1>3. request[v].member # r.member
  BY <1>1, <1>2, ApprovalOf DEF LinkInv, OneOpenClaim, OpenClaims
<1> QED
  BY <1>1, <1>2, <1>3, ApprovalOf DEF Undisturbed, OnlyMember

LEMMA NothingIsFree ==
    ASSUME NEW w \in Workers
    PROVE  Free(w, {})
  BY DEF Free

\* An owner's request that has not come to write, or has found its member.
LEMMA OwnerAt ==
    ASSUME NEW w \in Workers, request'[w] \in OwnerRequests,
           request'[w].phase \in {"asked", "locking", "reading"}
    PROVE  At(w)'
<1>1. request'[w] \notin ClaimRequests
  BY DEF OwnerRequests, ClaimRequests
<1> QED
  BY <1>1 DEF At

LEMMA OwnerStepKeeps ==
    ASSUME MemberAssumption, LinkInv, NEW w \in Workers, OwnerStep(w)
    PROVE  LinkInv'
<1> USE DEF LinkInv
<1>1. CASE FindOwners(w)
  <2>1. /\ Only(w) /\ UNCHANGED <<members, claims, locks>>
        /\ request'[w] \in OwnerRequests /\ request'[w].phase = "locking"
    BY <1>1, OfFindOwners
  <2>2. At(w)'
    BY <2>1, OwnerAt
  <2> QED
    BY <2>1, <2>2, NothingIsFree, KeptQuietly
<1>2. CASE LockOwners(w)
  <2>1. /\ Only(w) /\ UNCHANGED <<members, claims>>
        /\ request'[w] \in OwnerRequests /\ request'[w].phase = "reading"
        /\ Free(w, Found(w)) /\ locks'[w] \subseteq locks[w] \cup Found(w)
    BY <1>2, OfLockOwners
  <2>2. At(w)'
    BY <2>1, OwnerAt
  <2> QED
    BY <2>1, <2>2, KeptQuietly
<1>3. CASE ReadMember(w)
  <2> DEFINE r == request[w]
  <2>1. Only(w) /\ UNCHANGED <<members, claims>> /\ r \in OwnerRequests /\ r.phase = "reading"
    BY <1>3, OfReadMember
  <2>2. CASE request'[w] = Idle /\ locks'[w] = {}
    BY <2>1, <2>2, IdleAt, NothingIsFree, KeptQuietly
  <2>3. CASE ~(request'[w] = Idle /\ locks'[w] = {})
    <3>1. /\ Permitted(r) /\ UNCHANGED locks
          /\ request'[w] \in OwnerRequests
          /\ request'[w].operation = r.operation
          /\ request'[w].member = r.member /\ request'[w].role = r.role
          /\ request'[w].phase \in {"counting", "writing"}
      BY <1>3, <2>3, OfReadMember
    <3>2. members[r.member] # NoRow
      BY <3>1 DEF Permitted, Applies
    <3>3. /\ r.operation = "updateRole" /\ r.role \in {"OWNER", "ADMIN"}
          => members[r.member].user # NoUser
      BY <3>1 DEF Permitted
    <3>4. request'[w] \notin ClaimRequests
      BY <3>1, Kinds DEF OwnerRequests, ClaimRequests
    <3>5. At(w)'
      BY <2>1, <3>1, <3>2, <3>3, <3>4 DEF At
    <3> QED
      BY <2>1, <3>1, <3>5, NothingIsFree, KeptQuietly
  <2> QED
    BY <2>2, <2>3
<1>4. CASE CountOwners(w)
  <2> DEFINE r == request[w]
  <2>1. Only(w) /\ UNCHANGED <<members, claims>> /\ r \in OwnerRequests /\ r.phase = "counting"
    BY <1>4, OfCountOwners
  <2>2. CASE request'[w] = Idle /\ locks'[w] = {}
    BY <2>1, <2>2, IdleAt, NothingIsFree, KeptQuietly
  <2>3. CASE ~(request'[w] = Idle /\ locks'[w] = {})
    <3>1. /\ UNCHANGED locks
          /\ request'[w] \in OwnerRequests
          /\ request'[w].operation = r.operation
          /\ request'[w].member = r.member /\ request'[w].role = r.role
          /\ request'[w].phase = "writing"
      BY <1>4, <2>3, OfCountOwners
    <3>2. members[r.member] # NoRow
      BY <2>1, AtEach DEF At
    <3>3. /\ r.operation = "updateRole" /\ r.role \in {"OWNER", "ADMIN"}
          => members[r.member].user # NoUser
      BY <2>1, AtEach DEF At
    <3>4. request'[w] \notin ClaimRequests
      BY <3>1, Kinds DEF OwnerRequests, ClaimRequests
    <3>5. At(w)'
      BY <2>1, <3>1, <3>2, <3>3, <3>4 DEF At
    <3> QED
      BY <2>1, <3>1, <3>5, NothingIsFree, KeptQuietly
  <2> QED
    BY <2>2, <2>3
<1>5. CASE UpdateMember(w)
  <2>1. /\ Only(w) /\ request'[w] = Idle /\ locks'[w] = {} /\ UNCHANGED claims
        /\ request[w] \in OwnerRequests /\ OnlyMember(request[w].member)
        /\ members'[request[w].member].user = members[request[w].member].user
    BY <1>5, OfUpdateMember
  <2>2. MembersGoOn
    BY <2>1, OneMemberGoesOn DEF OwnerRequests
  <2>3. \A v \in Workers \ {w} : Undisturbed(v)
    BY <1>5, UpdateUndisturbing
  <2> QED
    BY <2>1, <2>2, <2>3, IdleAt, ClaimsStay, NothingIsFree, Kept
<1>6. CASE WriteMember(w)
  <2> DEFINE r == request[w]
  <2>1. /\ Only(w) /\ UNCHANGED <<members, claims>>
        /\ r \in OwnerRequests /\ r.phase = "writing" /\ r.operation \in {"remove", "archive"}
        /\ Free(w, {r.member}) /\ locks'[w] = locks[w] \cup {r.member}
        /\ request'[w] \in OwnerRequests /\ request'[w].phase = "revoking"
        /\ request'[w].operation = r.operation /\ request'[w].member = r.member
    BY <1>6, OfWriteMember
  <2>2. members[r.member] # NoRow
    BY <2>1, AtEach DEF At
  <2>3. request'[w] \notin ClaimRequests
    BY <2>1, Kinds DEF OwnerRequests, ClaimRequests
  <2>4. At(w)'
    BY <2>1, <2>2, <2>3 DEF At
  <2> QED
    BY <2>1, <2>4, KeptQuietly
<1>7. CASE RevokeClaims(w)
  <2>1. /\ Only(w) /\ request'[w] = Idle /\ locks'[w] = {} /\ ClaimsGoOn
        /\ request[w] \in OwnerRequests /\ OnlyMember(request[w].member)
        /\ members'[request[w].member].user = members[request[w].member].user
    BY <1>7, OfRevokeClaims
  <2>2. MembersGoOn
    BY <2>1, OneMemberGoesOn DEF OwnerRequests
  <2>3. \A v \in Workers \ {w} : Undisturbed(v)
    BY <1>7, RevokeUndisturbing
  <2> QED
    BY <2>1, <2>2, <2>3, IdleAt, NothingIsFree, Kept
<1> QED
  BY <1>1, <1>2, <1>3, <1>4, <1>5, <1>6, <1>7 DEF OwnerStep

LEMMA ClaimStepKeeps ==
    ASSUME MemberAssumption, LinkInv, NEW w \in Workers, ClaimStep(w)
    PROVE  LinkInv'
<1> USE DEF LinkInv
<1> DEFINE r == request[w]
<1>1. CASE RefreshLink(w) \/ WriteExpiry(w) \/ ClaimLink(w) \/ CloseClaim(w)
  <2>1. /\ Only(w) /\ request'[w] = Idle /\ locks'[w] = {} /\ UNCHANGED members /\ ClaimsGoOn
    BY <1>1, OfOneWrite
  <2>2. \A v \in Workers \ {w} : Undisturbed(v)
    BY <1>1, OneWriteUndisturbing
  <2> QED
    BY <2>1, <2>2, IdleAt, MembersStay, NothingIsFree, Kept
<1>2. CASE CreateLink(w)
  <2>1. Only(w) /\ request'[w] = Idle /\ locks'[w] = {} /\ UNCHANGED members
    BY <1>2, OfCreateLink
  <2>2. CASE UNCHANGED claims
    BY <2>1, <2>2, IdleAt, NothingIsFree, KeptQuietly
  <2>3. CASE ~UNCHANGED claims
    <3>1. /\ OpenClaims(r.member) = {} /\ claims' \in [Claims -> ClaimRows \cup {NoRow}]
      BY <1>2, <2>3, OfCreateLink
    <3>2. PICK c \in Claims :
             /\ claims[c] = NoRow /\ claims'[c].member = r.member
             /\ \A d \in Claims \ {c} : claims'[d] = claims[d]
      BY <1>2, <2>3, OfCreateLink
    <3>3. OneOpenClaim'
      BY <3>1, <3>2 DEF OneOpenClaim, OpenClaims
    <3>4. ClaimsPersist
      BY <3>1, <3>2 DEF ClaimsPersist
    <3>5. ASSUME NEW v \in Workers \ {w} PROVE At(v)'
      <4>1. At(v)
        BY AtEach
      <4>2. Undisturbed(v)
        BY <2>1, <3>2, ApprovalOf DEF Undisturbed
      <4> QED
        BY <2>1, <3>4, <4>1, <4>2, MembersStay, OthersStay DEF Only
    <3>6. (RowsExist /\ ClaimOfMember /\ ApprovalIsCurrent /\ ElevatedHaveAccounts)'
      <4>1. \A v \in Workers : At(v)'
        BY <2>1, <3>5, IdleAt
      <4> QED
        BY <4>1, EachAt
    <3>7. LocksAreExclusive'
      BY <2>1, NothingIsFree, ExclusiveKept
    <3>8. ClaimTypeOK'
      BY <2>1, <3>1 DEF Only, ClaimTypeOK, Requests
    <3> QED
      BY <3>3, <3>6, <3>7, <3>8
  <2> QED
    BY <2>2, <2>3
<1>3. CASE LockClaim(w)
  <2>1. /\ Only(w) /\ UNCHANGED <<members, claims>>
        /\ r \in ClaimRequests /\ r.claim \in Claims
        /\ Free(w, {r.claim}) /\ locks'[w] = {r.claim}
        /\ request'[w] \in ClaimRequests /\ request'[w].phase = "judging"
        /\ request'[w].member = r.member /\ request'[w].claim = r.claim
    BY <1>3, OfLockClaim
  <2>2. request'[w] \notin OwnerRequests
    BY <2>1 DEF OwnerRequests, ClaimRequests
  <2>3. claims[r.claim] # NoRow /\ claims[r.claim].member = r.member
    BY <2>1, AtEach DEF At, MemberAssumption
  <2>4. At(w)'
    BY <2>1, <2>2, <2>3 DEF At
  <2> QED
    BY <2>1, <2>4, KeptQuietly
<1>4. CASE JudgeClaim(w)
  <2>1. Only(w) /\ UNCHANGED <<members, claims>> /\ r \in ClaimRequests /\ r.phase = "judging"
    BY <1>4, OfJudgeClaim
  <2>2. CASE request'[w] = Idle /\ locks'[w] = {}
    BY <2>1, <2>2, IdleAt, NothingIsFree, KeptQuietly
  <2>3. CASE ~(request'[w] = Idle /\ locks'[w] = {})
    <3>1. /\ UNCHANGED locks
          /\ request'[w] \in ClaimRequests
          /\ request'[w].member = r.member /\ request'[w].claim = r.claim
          /\ \/ request'[w].phase = "expiring"
             \/ /\ request'[w].phase = "linking"
                /\ claims[r.claim].status = "REQUESTED"
                /\ Claimable(members[r.member])
                /\ members[r.member].role \in {"MEMBER", "VIEWER"}
      BY <1>4, <2>3, OfJudgeClaim
    <3>2. request'[w] \notin OwnerRequests
      BY <3>1 DEF OwnerRequests, ClaimRequests
    <3>3. /\ r.claim \in locks[w] /\ r.claim \in Claims
          /\ claims[r.claim] # NoRow /\ claims[r.claim].member = r.member
      BY <2>1, AtEach DEF At
    <3>4. At(w)'
      BY <2>1, <3>1, <3>2, <3>3 DEF At, Claimable, IsActive
    <3> QED
      BY <2>1, <3>1, <3>4, NothingIsFree, KeptQuietly
  <2> QED
    BY <2>2, <2>3
<1>5. CASE LinkMember(w)
  <2>1. /\ Only(w) /\ request'[w] = Idle /\ locks'[w] = {} /\ ClaimsGoOn
        /\ r \in ClaimRequests /\ OnlyMember(r.member) /\ Claimable(members[r.member])
    BY <1>5, OfLinkMember
  <2>2. MembersGoOn
    BY <2>1, OneMemberGoesOn DEF ClaimRequests, Claimable
  <2>3. \A v \in Workers \ {w} : Undisturbed(v)
    BY <1>5, LinkUndisturbing
  <2> QED
    BY <2>1, <2>2, <2>3, IdleAt, NothingIsFree, Kept
<1> QED
  BY <1>1, <1>2, <1>3, <1>4, <1>5 DEF ClaimStep

\* What may happen in a step, the questions of AskAsOwner by their role.
LEMMA Steps ==
    ASSUME MemberAssumption, [ClaimNext]_memberVars
    PROVE  \/ \E w \in Workers :
                 \/ \E operation \in Operations, u \in Users, m \in Members, role \in MemberRoles :
                       AskAsOwner(w, operation, u, m, role)
                 \/ OwnerStep(w) \/ Abort(w) \/ AskAboutClaims(w) \/ ClaimStep(w)
           \/ \E c \in Claims : LinkExpires(c)
           \/ UNCHANGED memberVars
<1>1. CASE OwnerNext
  <2>1. PICK w \in Workers :
          \/ \E operation \in Operations, u \in Users, m \in Members :
                \E role \in (IF operation = "updateRole" THEN Roles ELSE {"MEMBER"}) :
                    AskAsOwner(w, operation, u, m, role)
          \/ OwnerStep(w)
          \/ Abort(w)
    BY <1>1 DEF OwnerNext
  <2>2. Roles \subseteq MemberRoles /\ "MEMBER" \in MemberRoles
    BY DEF MemberAssumption, MemberRoles
  <2> QED
    BY <2>1, <2>2
<1> QED
  BY <1>1 DEF ClaimNext

LEMMA LinkInvStep ==
    ASSUME MemberAssumption, LinkInv, [ClaimNext]_memberVars
    PROVE  LinkInv'
<1> USE DEF LinkInv
<1>1. ASSUME NEW w \in Workers, NEW operation \in Operations, NEW u \in Users, NEW m \in Members,
             NEW role \in MemberRoles, AskAsOwner(w, operation, u, m, role)
      PROVE  LinkInv'
  <2>1. /\ Only(w) /\ UNCHANGED <<members, claims, locks>>
        /\ request'[w] \in OwnerRequests /\ request'[w].phase \in {"asked", "reading"}
    BY <1>1, OfAskAsOwner
  <2>2. At(w)'
    BY <2>1, OwnerAt
  <2> QED
    BY <2>1, <2>2, NothingIsFree, KeptQuietly
<1>2. ASSUME NEW w \in Workers, Abort(w) PROVE LinkInv'
  BY <1>2, OfAbort, IdleAt, NothingIsFree, KeptQuietly
<1>3. ASSUME NEW w \in Workers, AskAboutClaims(w) PROVE LinkInv'
  <2>1. Only(w) /\ UNCHANGED <<members, claims, locks>> /\ StartsWith(w)
    BY <1>3, OfAskAboutClaims
  <2>2. At(w)'
    BY <2>1 DEF At, StartsWith, OwnerRequests, ClaimRequests
  <2> QED
    BY <2>1, <2>2, NothingIsFree, KeptQuietly
<1>4. ASSUME NEW c \in Claims, LinkExpires(c) PROVE LinkInv'
  <2>1. /\ UNCHANGED <<members, locks, request>> /\ ClaimsGoOn
        /\ \A d \in Claims : claims[d] # NoRow => claims'[d].status = claims[d].status
    BY <1>4, OfLinkExpires
  <2>2. MembersGoOn /\ ClaimsPersist
    BY <2>1, MembersStay, GoOnPersist
  <2>3. ASSUME NEW v \in Workers PROVE At(v)'
    <3>1. Undisturbed(v)
      BY <2>1, ApprovalOf DEF Undisturbed
    <3> QED
      BY <2>1, <2>2, <3>1, AtEach, OthersStay
  <2>4. (RowsExist /\ ClaimOfMember /\ ApprovalIsCurrent /\ ElevatedHaveAccounts)'
    BY <2>3, EachAt
  <2>5. OneOpenClaim'
    BY <2>1, OneOpenKept
  <2>6. ClaimTypeOK' /\ LocksAreExclusive'
    BY <2>1 DEF ClaimTypeOK, LocksAreExclusive, ClaimsGoOn
  <2> QED
    BY <2>4, <2>5, <2>6
<1>5. CASE UNCHANGED memberVars
  <2>1. /\ members' = members /\ claims' = claims /\ locks' = locks /\ request' = request
    BY <1>5 DEF memberVars
  <2> QED
    BY <2>1 DEF ClaimTypeOK, LocksAreExclusive, OneOpenClaim, RowsExist, ClaimOfMember,
       ApprovalIsCurrent, ElevatedHaveAccounts
<1> QED
  BY <1>1, <1>2, <1>3, <1>4, <1>5, Steps, OwnerStepKeeps, ClaimStepKeeps

LEMMA LinkInvInit ==
    ASSUME MemberAssumption, MemberInit
    PROVE  LinkInv
<1> USE DEF MemberInit, LinkInv
<1>1. Idle.phase = "idle" /\ Idle \notin OwnerRequests /\ Idle \notin ClaimRequests
  BY DEF Idle, OwnerRequests, ClaimRequests
<1>2. ClaimTypeOK
  BY DEF ClaimTypeOK, MemberAssumption
<1>3. LocksAreExclusive /\ OneOpenClaim
  BY DEF LocksAreExclusive, OneOpenClaim, Open
<1>4. RowsExist /\ ClaimOfMember /\ ApprovalIsCurrent /\ ElevatedHaveAccounts
  BY <1>1 DEF RowsExist, ClaimOfMember, ApprovalIsCurrent, ElevatedHaveAccounts
<1> QED
  BY <1>2, <1>3, <1>4

\* In every reachable state the tables, the locks and the requests have their types, no
\* row is locked twice, a member has one open claim, and an approval that comes to link
\* still holds the claim and the member it was judged on.
THEOREM LinkInvariant == ClaimSpec => []LinkInv
<1>1. MemberInit => LinkInv
  BY LinkInvInit, MemberAssumption
<1>2. LinkInv /\ [ClaimNext]_memberVars => LinkInv'
  BY LinkInvStep, MemberAssumption
<1> QED
  BY <1>1, <1>2, PTL DEF ClaimSpec

-----------------------------------------------------------------------------
(* What follows from LinkInv. *)

\* A member's user changes only when an approval links one.
LEMMA UserChanges ==
    ASSUME MemberAssumption, LinkInv, [ClaimNext]_memberVars
    PROVE  /\ MembersGoOn
           /\ \A m \in Members :
                 /\ members[m] # NoRow /\ members'[m] # NoRow /\ members[m].user # members'[m].user
                 => members[m].status = "ACTIVE" /\ members[m].role \in {"MEMBER", "VIEWER"}
<1> USE DEF LinkInv
<1>1. CASE UNCHANGED members
  BY <1>1, MembersStay
<1>2. ASSUME NEW w \in Workers, UpdateMember(w) \/ RevokeClaims(w)
      PROVE  MembersGoOn /\ \A m \in Members : members[m] # NoRow => members'[m].user = members[m].user
  <2> DEFINE m == request[w].member
  <2>1. m \in Members /\ OnlyMember(m) /\ members'[m].user = members[m].user
    BY <1>2, OfUpdateMember, OfRevokeClaims DEF OwnerRequests
  <2> QED
    BY <2>1, OneMemberGoesOn DEF OnlyMember
<1>3. ASSUME NEW w \in Workers, LinkMember(w)
      PROVE  /\ MembersGoOn
             /\ \A m \in Members :
                   m # request[w].member => members'[m] = members[m]
             /\ members[request[w].member].status = "ACTIVE"
             /\ members[request[w].member].role \in {"MEMBER", "VIEWER"}
  <2> DEFINE m == request[w].member
  <2>1. /\ m \in Members /\ OnlyMember(m) /\ Claimable(members[m])
        /\ members[m].role \in {"MEMBER", "VIEWER"}
    BY <1>3, OfLinkMember DEF ClaimRequests
  <2> QED
    BY <2>1, OneMemberGoesOn DEF OnlyMember, Claimable, IsActive
<1>4. UNCHANGED members \/ \E w \in Workers : UpdateMember(w) \/ RevokeClaims(w) \/ LinkMember(w)
  BY Steps, OfFindOwners, OfLockOwners, OfReadMember, OfCountOwners, OfWriteMember, OfAbort,
     OfAskAsOwner, OfAskAboutClaims, OfOneWrite, OfCreateLink, OfLockClaim, OfJudgeClaim,
     OfLinkExpires
     DEF OwnerStep, ClaimStep, memberVars
<1> QED
  BY <1>1, <1>2, <1>3, <1>4

\* Once a member has an account it keeps it.
THEOREM LinkKept == ClaimSpec => LinkIsStable
<1>1. LinkInv /\ [ClaimNext]_memberVars =>
        [\A m \in Members :
            members[m] # NoRow /\ members[m].user # NoUser =>
                members'[m] # NoRow /\ members'[m].user = members[m].user]_memberVars
  BY UserChanges, MemberAssumption DEF MembersGoOn
<1> QED
  BY <1>1, LinkInvariant, PTL DEF ClaimSpec, LinkIsStable

\* Who an account is linked to was an active plain member until that moment.
THEOREM ActiveLinked == ClaimSpec => LinkedMemberIsActive
<1>1. LinkInv /\ [ClaimNext]_memberVars =>
        [\A m \in Members :
            members[m] # NoRow /\ members'[m] # NoRow /\ members[m].user # members'[m].user =>
                members[m].status = "ACTIVE" /\ members[m].role \in {"MEMBER", "VIEWER"}]_memberVars
  BY UserChanges, MemberAssumption
<1> QED
  BY <1>1, LinkInvariant, PTL DEF ClaimSpec, LinkedMemberIsActive

\* A claim that somebody has asked for stays that user's.
THEOREM ClaimantKept == ClaimSpec => ClaimantIsStable
<1>1. LinkInv /\ [ClaimNext]_memberVars =>
        [\A c \in Claims :
            claims[c] # NoRow /\ claims[c].by # NoUser => claims'[c].by = claims[c].by]_memberVars
  <2> SUFFICES ASSUME LinkInv, [ClaimNext]_memberVars,
                      NEW c \in Claims, claims[c] # NoRow, claims[c].by # NoUser
               PROVE  claims'[c].by = claims[c].by
    OBVIOUS
  <2> USE MemberAssumption DEF LinkInv
  <2>1. CASE UNCHANGED claims
    BY <2>1
  <2>2. ASSUME NEW w \in Workers, RefreshLink(w) \/ WriteExpiry(w) \/ ClaimLink(w) \/ CloseClaim(w)
        PROVE  claims'[c].by = claims[c].by
    BY <2>2, OfOneWrite
  <2>3. ASSUME NEW w \in Workers, CreateLink(w) PROVE claims'[c].by = claims[c].by
    BY <2>3, OfCreateLink
  <2>4. ASSUME NEW w \in Workers, RevokeClaims(w) PROVE claims'[c].by = claims[c].by
    BY <2>4, OfRevokeClaims
  <2>5. ASSUME NEW w \in Workers, LinkMember(w) PROVE claims'[c].by = claims[c].by
    BY <2>5, OfLinkMember
  <2>6. ASSUME NEW d \in Claims, LinkExpires(d) PROVE claims'[c].by = claims[c].by
    BY <2>6, OfLinkExpires
  <2> QED
    BY <2>1, <2>2, <2>3, <2>4, <2>5, <2>6, Steps, OfFindOwners, OfLockOwners, OfReadMember,
       OfCountOwners, OfUpdateMember, OfWriteMember, OfAbort, OfAskAsOwner, OfAskAboutClaims,
       OfLockClaim, OfJudgeClaim
       DEF OwnerStep, ClaimStep, memberVars
<1> QED
  BY <1>1, LinkInvariant, PTL DEF ClaimSpec, ClaimantIsStable

-----------------------------------------------------------------------------
(* An owner is always left, when a statement that waits for locked rows looks for *)
(* owners again once it has them.                                                 *)

OwnersInv == OneAtATime /\ HoldsAnOwner /\ LeavesAnOwner /\ SomeOwner

LEMMA IdleLocksNothing ==
    ASSUME NEW w \in Workers, request'[w] = Idle
    PROVE  ~HasLocked(w)'
<1>1. Idle \notin OwnerRequests
  BY DEF Idle, OwnerRequests
<1> QED
  BY <1>1 DEF HasLocked

LEMMA ClaimLocksNoOwners ==
    ASSUME NEW w \in Workers, request'[w] \in ClaimRequests
    PROVE  ~HasLocked(w)'
<1>1. request'[w] \notin OwnerRequests
  BY DEF OwnerRequests, ClaimRequests
<1> QED
  BY <1>1 DEF HasLocked

\* The owners of a table where every owner is one still.
LEMMA OwnersStay ==
    ASSUME UNCHANGED members
    PROVE  Owners' = Owners
  BY DEF Owners

LEMMA AnotherOwner ==
    ASSUME ~(Cardinality(Owners) <= 1), NEW m
    PROVE  \E o \in Owners : o # m
<1> SUFFICES ASSUME \A o \in Owners : o = m PROVE FALSE
  OBVIOUS
<1>1. Owners = {} \/ Owners = {m}
  OBVIOUS
<1>2. Cardinality({}) = 0 /\ Cardinality({m}) = 1
  BY FS_EmptySet, FS_Singleton
<1> QED
  BY <1>1, <1>2

\* No owner is lost, and who has locks had them.
LEMMA OwnersKept ==
    ASSUME OwnersInv, NEW w \in Workers, Only(w), Owners \subseteq Owners',
           HasLocked(w)' => HasLocked(w) /\ locks[w] \subseteq locks'[w],
           /\ HasLocked(w)' /\ request'[w].phase \in {"writing", "revoking"}
           /\ CountsOwners(request'[w].operation, request'[w].role)
           => \E o \in Owners : o # request'[w].member
    PROVE  OwnersInv'
<1>1. \A v \in Workers \ {w} : (HasLocked(v)' <=> HasLocked(v)) /\ locks'[v] = locks[v]
  BY DEF Only, HasLocked
<1>2. OneAtATime'
  BY <1>1 DEF OwnersInv, OneAtATime
<1>3. HoldsAnOwner'
  BY <1>1 DEF OwnersInv, HoldsAnOwner
<1>4. LeavesAnOwner'
  <2> SUFFICES ASSUME NEW v \in Workers,
                      HasLocked(v)', request'[v].phase \in {"writing", "revoking"},
                      CountsOwners(request'[v].operation, request'[v].role)
               PROVE  \E o \in Owners' : o # request'[v].member
    BY DEF LeavesAnOwner, CountsOwners
  <2>1. CASE v = w
    BY <2>1
  <2>2. CASE v # w
    <3>1. request'[v] = request[v] /\ HasLocked(v)
      BY <1>1, <2>2 DEF Only
    <3> QED
      BY <3>1 DEF OwnersInv, LeavesAnOwner
  <2> QED
    BY <2>1, <2>2
<1>5. SomeOwner'
  BY DEF OwnersInv, SomeOwner
<1> QED
  BY <1>2, <1>3, <1>4, <1>5 DEF OwnersInv

\* The request that takes an owner away is the only one with locks, and leaves another.
LEMMA LastWrite ==
    ASSUME OwnersInv, NEW w \in Workers, Only(w), HasLocked(w), request'[w] = Idle,
           \E o \in Owners : o \in Owners'
    PROVE  OwnersInv'
<1>1. \A v \in Workers : ~HasLocked(v)'
  <2>1. ~HasLocked(w)'
    BY IdleLocksNothing
  <2>2. ASSUME NEW v \in Workers \ {w} PROVE ~HasLocked(v)'
    <3>1. ~HasLocked(v)
      BY DEF OwnersInv, OneAtATime
    <3> QED
      BY <3>1 DEF Only, HasLocked
  <2> QED
    BY <2>1, <2>2
<1> QED
  BY <1>1 DEF OwnersInv, OneAtATime, HoldsAnOwner, LeavesAnOwner, SomeOwner

LEMMA OwnerStepLeaves ==
    ASSUME MemberAssumption, AgedSnapshots = FALSE, LinkInv, OwnersInv,
           NEW w \in Workers, OwnerStep(w)
    PROVE  OwnersInv'
<1> USE DEF LinkInv
<1> DEFINE r == request[w]
<1>1. CASE FindOwners(w)
  <2>1. /\ Only(w) /\ UNCHANGED <<members, claims, locks>> /\ request'[w].phase = "locking"
    BY <1>1, OfFindOwners
  <2> QED
    BY <2>1, OwnersStay, OwnersKept DEF HasLocked
<1>2. CASE LockOwners(w)
  <2>1. /\ Only(w) /\ UNCHANGED <<members, claims>>
        /\ request'[w] \in OwnerRequests /\ request'[w].phase = "reading"
        /\ Free(w, Owners) /\ locks'[w] = Owners
    BY <1>2, OfLockOwners DEF Found
  <2>2. Owners' = Owners
    BY <2>1, OwnersStay
  <2>3. ASSUME NEW v \in Workers \ {w} PROVE ~HasLocked(v)'
    <3>1. locks[v] \cap Owners = {}
      BY <2>1 DEF Free
    <3>2. ~HasLocked(v)
      BY <3>1 DEF OwnersInv, HoldsAnOwner
    <3> QED
      BY <2>1, <3>2 DEF Only, HasLocked
  <2>4. OneAtATime'
    BY <2>3 DEF OneAtATime
  <2>5. HoldsAnOwner' /\ SomeOwner'
    BY <2>1, <2>2, <2>3 DEF HoldsAnOwner, SomeOwner, OwnersInv
  <2>6. LeavesAnOwner'
    BY <2>1, <2>3 DEF LeavesAnOwner
  <2> QED
    BY <2>4, <2>5, <2>6 DEF OwnersInv
<1>3. CASE ReadMember(w)
  <2>1. Only(w) /\ UNCHANGED <<members, claims>> /\ r \in OwnerRequests /\ r.phase = "reading"
    BY <1>3, OfReadMember
  <2>2. Owners' = Owners
    BY <2>1, OwnersStay
  <2>3. CASE request'[w] = Idle
    BY <2>1, <2>2, <2>3, IdleLocksNothing, OwnersKept
  <2>4. CASE request'[w] # Idle
    <3>1. /\ Permitted(r) /\ UNCHANGED locks
          /\ request'[w] \in OwnerRequests
          /\ request'[w].operation = r.operation
          /\ request'[w].member = r.member /\ request'[w].role = r.role
          /\ \/ request'[w].phase = "counting"
             \/ /\ request'[w].phase = "writing"
                /\ ~(CountsOwners(r.operation, r.role) /\ members[r.member].role = "OWNER")
      BY <1>3, <2>4, OfReadMember
    <3>2. HasLocked(w)' => HasLocked(w)
      BY <2>1, <3>1 DEF HasLocked
    <3>3. /\ HasLocked(w)' /\ request'[w].phase \in {"writing", "revoking"}
          /\ CountsOwners(request'[w].operation, request'[w].role)
          => \E o \in Owners : o # request'[w].member
      <4> SUFFICES ASSUME HasLocked(w)', request'[w].phase = "writing",
                          CountsOwners(r.operation, r.role)
                   PROVE  \E o \in Owners : o # r.member
        BY <3>1
      <4>1. r.member \notin Owners
        BY <3>1 DEF Owners, IsOwner
      <4>2. Owners # {}
        BY DEF OwnersInv, SomeOwner
      <4> QED
        BY <4>1, <4>2
    <3> QED
      BY <2>1, <2>2, <3>1, <3>2, <3>3, OwnersKept
  <2> QED
    BY <2>3, <2>4
<1>4. CASE CountOwners(w)
  <2>1. Only(w) /\ UNCHANGED <<members, claims>> /\ r \in OwnerRequests /\ r.phase = "counting"
    BY <1>4, OfCountOwners
  <2>2. Owners' = Owners
    BY <2>1, OwnersStay
  <2>3. CASE request'[w] = Idle
    BY <2>1, <2>2, <2>3, IdleLocksNothing, OwnersKept
  <2>4. CASE request'[w] # Idle
    <3>1. /\ ~(Cardinality(Owners) <= 1) /\ UNCHANGED locks
          /\ request'[w].operation = r.operation
      BY <1>4, <2>4, OfCountOwners
    <3>2. HasLocked(w)' => HasLocked(w)
      BY <2>1, <3>1 DEF HasLocked
    <3>3. \E o \in Owners : o # request'[w].member
      BY <3>1, AnotherOwner
    <3> QED
      BY <2>1, <2>2, <3>1, <3>2, <3>3, OwnersKept
  <2> QED
    BY <2>3, <2>4
<1>5. CASE UpdateMember(w)
  <2>1. /\ Only(w) /\ request'[w] = Idle /\ locks'[w] = {}
        /\ r \in OwnerRequests /\ r.phase = "writing"
        /\ OnlyMember(r.member)
        /\ members'[r.member].removed = members[r.member].removed
        /\ \/ /\ r.operation = "updateRole" /\ members'[r.member].role = r.role
              /\ members'[r.member].status = members[r.member].status
           \/ /\ r.operation = "restore" /\ members'[r.member].status = "ACTIVE"
              /\ members'[r.member].role = members[r.member].role
    BY <1>5, OfUpdateMember
  <2>2. \A o \in Owners : o # r.member => o \in Owners'
    BY <2>1 DEF Owners, OnlyMember
  <2>3. CASE r.operation = "restore" \/ r.role = "OWNER"
    <3>1. r.member \in Owners => r.member \in Owners'
      BY <2>1, <2>3 DEF Owners, OnlyMember, IsOwner, IsActive, MemberAssumption
    <3>2. Owners \subseteq Owners'
      BY <2>2, <3>1
    <3> QED
      BY <2>1, <3>2, IdleLocksNothing, OwnersKept
  <2>4. CASE r.operation = "updateRole" /\ r.role # "OWNER"
    <3>1. HasLocked(w) /\ CountsOwners(r.operation, r.role)
      BY <2>1, <2>4 DEF HasLocked, CountsOwners
    <3>2. \E o \in Owners : o # r.member
      BY <2>1, <3>1 DEF OwnersInv, LeavesAnOwner
    <3> QED
      BY <2>1, <2>2, <3>1, <3>2, LastWrite
  <2> QED
    BY <2>1, <2>3, <2>4
<1>6. CASE WriteMember(w)
  <2>1. /\ Only(w) /\ UNCHANGED <<members, claims>>
        /\ r \in OwnerRequests /\ r.phase = "writing" /\ r.operation \in {"remove", "archive"}
        /\ locks'[w] = locks[w] \cup {r.member}
        /\ request'[w].operation = r.operation
        /\ request'[w].member = r.member /\ request'[w].role = r.role
    BY <1>6, OfWriteMember
  <2>2. HasLocked(w) /\ CountsOwners(r.operation, r.role)
    BY <2>1 DEF HasLocked, CountsOwners
  <2>3. \E o \in Owners : o # request'[w].member
    BY <2>1, <2>2 DEF OwnersInv, LeavesAnOwner
  <2>4. Owners' = Owners
    BY <2>1, OwnersStay
  <2> QED
    BY <2>1, <2>2, <2>3, <2>4, OwnersKept
<1>7. CASE RevokeClaims(w)
  <2>1. /\ Only(w) /\ request'[w] = Idle
        /\ r \in OwnerRequests /\ r.phase = "revoking" /\ r.operation \in {"remove", "archive"}
        /\ OnlyMember(r.member)
    BY <1>7, OfRevokeClaims
  <2>2. HasLocked(w) /\ CountsOwners(r.operation, r.role)
    BY <2>1 DEF HasLocked, CountsOwners
  <2>3. \E o \in Owners : o # r.member
    BY <2>1, <2>2 DEF OwnersInv, LeavesAnOwner
  <2>4. \A o \in Owners : o # r.member => o \in Owners'
    BY <2>1 DEF Owners, OnlyMember
  <2> QED
    BY <2>1, <2>2, <2>3, <2>4, LastWrite
<1> QED
  BY <1>1, <1>2, <1>3, <1>4, <1>5, <1>6, <1>7 DEF OwnerStep

LEMMA OwnersInvStep ==
    ASSUME MemberAssumption, AgedSnapshots = FALSE, LinkInv, LinkInv', OwnersInv,
           [ClaimNext]_memberVars
    PROVE  OwnersInv'
<1> USE DEF LinkInv
<1>1. ASSUME NEW w \in Workers, Only(w), UNCHANGED members, ~HasLocked(w)'
      PROVE  OwnersInv'
  BY <1>1, OwnersStay, OwnersKept
<1>2. ASSUME NEW w \in Workers, NEW operation \in Operations, NEW u \in Users, NEW m \in Members,
             NEW role \in MemberRoles, AskAsOwner(w, operation, u, m, role)
      PROVE  OwnersInv'
  BY <1>1, <1>2, OfAskAsOwner DEF HasLocked
<1>3. ASSUME NEW w \in Workers, Abort(w) PROVE OwnersInv'
  BY <1>1, <1>3, OfAbort, IdleLocksNothing
<1>4. ASSUME NEW w \in Workers, AskAboutClaims(w) PROVE OwnersInv'
  BY <1>1, <1>4, OfAskAboutClaims, ClaimLocksNoOwners DEF StartsWith
<1>5. ASSUME NEW w \in Workers, ClaimStep(w) PROVE OwnersInv'
  <2>1. CASE LinkMember(w)
    <3> DEFINE m == request[w].member
    <3>1. /\ Only(w) /\ request'[w] = Idle /\ OnlyMember(m)
          /\ members'[m].role = members[m].role
          /\ members'[m].status = members[m].status
          /\ members'[m].removed = members[m].removed
      BY <2>1, OfLinkMember
    <3>2. Owners \subseteq Owners'
      BY <3>1 DEF Owners, OnlyMember, IsOwner, IsActive, MemberAssumption
    <3> QED
      BY <3>1, <3>2, IdleLocksNothing, OwnersKept
  <2>2. CASE RefreshLink(w) \/ WriteExpiry(w) \/ ClaimLink(w) \/ CloseClaim(w)
    BY <1>1, <2>2, OfOneWrite, IdleLocksNothing
  <2>3. CASE CreateLink(w)
    BY <1>1, <2>3, OfCreateLink, IdleLocksNothing
  <2>4. CASE LockClaim(w)
    BY <1>1, <2>4, OfLockClaim, ClaimLocksNoOwners
  <2>5. CASE JudgeClaim(w)
    BY <1>1, <2>5, OfJudgeClaim, IdleLocksNothing, ClaimLocksNoOwners
  <2> QED
    BY <1>5, <2>1, <2>2, <2>3, <2>4, <2>5 DEF ClaimStep
<1>6. CASE UNCHANGED <<members, locks, request>>
  BY <1>6 DEF OwnersInv, OneAtATime, HoldsAnOwner, LeavesAnOwner, SomeOwner, HasLocked, Owners
<1> QED
  BY <1>2, <1>3, <1>4, <1>5, <1>6, Steps, OwnerStepLeaves, OfLinkExpires DEF memberVars

\* If a statement that has waited looks for the owners again, an organization that has an
\* owner always has one, whoever removes, archives or demotes whom at the same time.
THEOREM OwnerIsLeft ==
    ASSUME AgedSnapshots = FALSE, \E m \in Members : IsOwner(InitialMembers[m])
    PROVE  ClaimSpec => []SomeOwner
<1>1. MemberInit => OwnersInv
  <2> SUFFICES ASSUME MemberInit PROVE OwnersInv
    OBVIOUS
  <2>1. SomeOwner
    BY DEF MemberInit, SomeOwner, Owners
  <2>2. \A w \in Workers : ~HasLocked(w)
    <3>1. Idle \notin OwnerRequests
      BY DEF Idle, OwnerRequests
    <3> QED
      BY <3>1 DEF MemberInit, HasLocked
  <2> QED
    BY <2>1, <2>2 DEF OwnersInv, OneAtATime, HoldsAnOwner, LeavesAnOwner
<1>2. LinkInv /\ LinkInv' /\ OwnersInv /\ [ClaimNext]_memberVars => OwnersInv'
  BY OwnersInvStep, MemberAssumption
<1>3. OwnersInv => SomeOwner
  BY DEF OwnersInv
<1> QED
  BY <1>1, <1>2, <1>3, LinkInvariant, PTL DEF ClaimSpec
=============================================================================
