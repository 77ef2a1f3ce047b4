------------------------------ MODULE Members ------------------------------
(***************************************************************************)
(* The members of one organization and what its owners do to them: remove, *)
(* archive, restore, change a role (memberships.service.ts and its         *)
(* repository).                                                            *)
(*                                                                         *)
(* A request is a transaction of READ COMMITTED: each statement sees what  *)
(* is committed when it starts, a written row stays locked until the end,  *)
(* and a statement that meets a locked row waits and then looks again.     *)
(* The last write of a transaction and its commit are one step, and a row  *)
(* that is written before that is locked but not yet changed.              *)
(***************************************************************************)
EXTENDS Integers, FiniteSets

CONSTANTS Workers,          \* requests in progress at a time
          Users,
          NoUser,
          Members,          \* ids of rows of organization_members
          Claims,           \* ids of rows of membership_claims
          NoRow,
          Roles,            \* the roles a request may ask for
          Operations,       \* what owners do
          AgedSnapshots,    \* what waits for locked rows keeps to the rows it found first
          InitialMembers    \* Members -> a row or NoRow

VARIABLES members,          \* organization_members
          claims,           \* membership_claims
          locks,            \* worker -> the rows it has locked
          request           \* worker -> what it is doing, or Idle

memberVars == <<members, claims, locks, request>>

MemberRoles == {"OWNER", "ADMIN", "MEMBER", "VIEWER"}

MemberRows ==
    [user : Users \cup {NoUser}, role : MemberRoles,
     status : {"ACTIVE", "SUSPENDED", "ARCHIVED", "REMOVED"},
     removed : BOOLEAN]             \* removedAt

ClaimRows ==
    [member : Members,
     status : {"PENDING", "REQUESTED", "APPROVED", "REJECTED", "REVOKED", "EXPIRED"},
     by : Users \cup {NoUser},      \* requestedByUserId
     expired : BOOLEAN]             \* expiresAt has passed

ASSUME MemberAssumption ==
    /\ NoUser \notin Users
    /\ NoRow \notin MemberRows \cup ClaimRows \cup Members \cup Claims
    /\ Members \cap Claims = {}
    /\ Roles \subseteq MemberRoles
    /\ Operations \subseteq {"remove", "archive", "restore", "updateRole"}
    /\ AgedSnapshots \in BOOLEAN
    /\ InitialMembers \in [Members -> MemberRows \cup {NoRow}]

Idle == [phase |-> "idle"]

OwnerRequests ==
    [phase : {"asked", "locking", "reading", "counting", "writing", "revoking"},
     operation : Operations, actor : Users, member : Members, role : MemberRoles,
     owners : SUBSET Members]

MemberInit ==
    /\ members = InitialMembers
    /\ claims = [c \in Claims |-> NoRow]
    /\ locks = [w \in Workers |-> {}]
    /\ request = [w \in Workers |-> Idle]

-----------------------------------------------------------------------------
(* Rows, locks and transactions. *)

IsActive(row) == row # NoRow /\ row.status = "ACTIVE" /\ ~row.removed
IsOwner(row) == IsActive(row) /\ row.role = "OWNER"
Owners == {m \in Members : IsOwner(members[m])}

\* The active membership of a user has one of the roles.
ActsAs(u, roles) ==
    \E m \in Members : IsActive(members[m]) /\ members[m].user = u /\ members[m].role \in roles

Open(claim) == claim # NoRow /\ claim.status \in {"PENDING", "REQUESTED"}
OpenClaims(m) == {c \in Claims : Open(claims[c]) /\ claims[c].member = m}

Free(w, rows) == \A v \in Workers \ {w} : locks[v] \cap rows = {}

Goto(w, phase) == request' = [request EXCEPT ![w].phase = phase]

\* A mistake: an error leaves the transaction open.
FinishOpen(w) ==
    /\ request' = [request EXCEPT ![w] = Idle]
    /\ locks' = locks

\* Commit or roll back: the locks are given up.
Finish(w) ==
    /\ request' = [request EXCEPT ![w] = Idle]
    /\ locks' = [locks EXCEPT ![w] = {}]

Refuse(w) == Finish(w) /\ UNCHANGED <<members, claims>>

\* The process dies, the connection is lost, the deadlock detector picks this one.
Abort(w) == request[w] # Idle /\ Refuse(w)

-----------------------------------------------------------------------------
(* What owners do. *)

CountsOwners(operation, role) ==
    operation \in {"remove", "archive"} \/ (operation = "updateRole" /\ role # "OWNER")

\* The statuses in which an operation finds its member.
Applies(operation, row) ==
    /\ row # NoRow /\ ~row.removed
    /\ row.status \in CASE operation \in {"remove", "updateRole"} -> {"ACTIVE"}
                        [] operation = "archive" -> {"ACTIVE", "SUSPENDED"}
                        [] operation = "restore" -> {"ARCHIVED"}

\* The guard of the route and the checks of the service.
AskAsOwner(w, operation, u, m, role) ==
    /\ request[w] = Idle
    /\ ActsAs(u, {"OWNER"})
    /\ operation # "updateRole" => Applies(operation, members[m]) /\ members[m].user # u
    /\ request' = [request EXCEPT ![w] =
          [phase |-> IF operation = "restore" THEN "reading" ELSE "asked",
           operation |-> operation, actor |-> u, member |-> m, role |-> role,
           owners |-> {}]]
    /\ UNCHANGED <<members, claims, locks>>

\* SELECT ... FOR UPDATE finds the owners there are, ...
FindOwners(w) ==
    /\ request[w].phase = "asked"
    /\ request' = [request EXCEPT ![w].phase = "locking", ![w].owners = Owners]
    /\ UNCHANGED <<members, claims, locks>>

\* The rows the statement is after.
Found(w) == IF AgedSnapshots THEN request[w].owners ELSE Owners

\* A mistake: the owners are not locked.
LockNobody(w) ==
    /\ request[w].phase = "locking"
    /\ request' = [request EXCEPT ![w].phase = "reading", ![w].owners = {}]
    /\ UNCHANGED <<members, claims, locks>>

\* ... waits for their rows, and locks those that are owners still.
LockOwners(w) ==
    /\ request[w].phase = "locking"
    /\ Free(w, Found(w))
    /\ locks' = [locks EXCEPT ![w] = Found(w) \cap Owners]
    /\ request' = [request EXCEPT ![w].phase = "reading", ![w].owners = {}]
    /\ UNCHANGED <<members, claims>>

Permitted(r) ==
    /\ ActsAs(r.actor, {"OWNER"})
    /\ Applies(r.operation, members[r.member])
    /\ r.operation = "updateRole" /\ members[r.member].user = NoUser =>
          r.role \notin {"OWNER", "ADMIN"}

ReadMember(w) ==
    LET r == request[w]
    IN  /\ r.phase = "reading" /\ r \in OwnerRequests
        /\ IF Permitted(r)
           THEN /\ Goto(w, IF /\ CountsOwners(r.operation, r.role)
                              /\ members[r.member].role = "OWNER"
                           THEN "counting" ELSE "writing")
                /\ UNCHANGED <<members, claims, locks>>
           ELSE Refuse(w)

\* LAST_OWNER
CountOwners(w) ==
    /\ request[w].phase = "counting"
    /\ IF Cardinality(Owners) <= 1
       THEN Refuse(w)
       ELSE Goto(w, "writing") /\ UNCHANGED <<members, claims, locks>>

\* A mistake: a restoration undoes a removal as well.
UpdateMemberFully(w) ==
    LET r == request[w]
    IN  /\ r.phase = "writing" /\ r \in OwnerRequests
        /\ r.operation \in {"updateRole", "restore"}
        /\ Free(w, {r.member})
        /\ members' = IF r.operation = "updateRole"
                      THEN [members EXCEPT ![r.member].role = r.role]
                      ELSE [members EXCEPT ![r.member].status = "ACTIVE",
                                           ![r.member].removed = FALSE]
        /\ Finish(w)
        /\ UNCHANGED claims

\* The update of a role or a restoration is the last write.
UpdateMember(w) ==
    LET r == request[w]
    IN  /\ r.phase = "writing" /\ r \in OwnerRequests
        /\ r.operation \in {"updateRole", "restore"}
        /\ Free(w, {r.member})
        /\ members' = IF r.operation = "updateRole"
                      THEN [members EXCEPT ![r.member].role = r.role]
                      ELSE [members EXCEPT ![r.member].status = "ACTIVE"]
        /\ Finish(w)
        /\ UNCHANGED claims

\* A removal or an archival writes the member, ...
WriteMember(w) ==
    LET r == request[w]
    IN  /\ r.phase = "writing" /\ r \in OwnerRequests
        /\ r.operation \in {"remove", "archive"}
        /\ Free(w, {r.member})
        /\ locks' = [locks EXCEPT ![w] = @ \cup {r.member}]
        /\ Goto(w, "revoking")
        /\ UNCHANGED <<members, claims>>

Gone(r) ==
    IF r.operation = "remove"
    THEN [members EXCEPT ![r.member].status = "REMOVED", ![r.member].removed = TRUE]
    ELSE [members EXCEPT ![r.member].status = "ARCHIVED"]

\* A mistake: only the claims nobody has asked for yet.
RevokePendingClaims(w) ==
    LET r == request[w]
        pending == {c \in OpenClaims(r.member) : claims[c].status = "PENDING"}
    IN  /\ r.phase = "revoking"
        /\ Free(w, pending)
        /\ members' = Gone(r)
        /\ claims' = [c \in Claims |-> IF c \in pending
                                       THEN [claims[c] EXCEPT !.status = "REVOKED"]
                                       ELSE claims[c]]
        /\ Finish(w)

\* ... and then its open claims.
RevokeClaims(w) ==
    LET r == request[w]
    IN  /\ r.phase = "revoking"
        /\ Free(w, OpenClaims(r.member))
        /\ members' = Gone(r)
        /\ claims' = [c \in Claims |-> IF c \in OpenClaims(r.member)
                                       THEN [claims[c] EXCEPT !.status = "REVOKED"]
                                       ELSE claims[c]]
        /\ Finish(w)

OwnerStep(w) ==
    \/ FindOwners(w) \/ LockOwners(w)
    \/ ReadMember(w) \/ CountOwners(w)
    \/ UpdateMember(w) \/ WriteMember(w) \/ RevokeClaims(w)

OwnerNext ==
    \E w \in Workers :
        \/ \E operation \in Operations, u \in Users, m \in Members :
              \E role \in (IF operation = "updateRole" THEN Roles ELSE {"MEMBER"}) :
                  AskAsOwner(w, operation, u, m, role)
        \/ OwnerStep(w)
        \/ Abort(w)

MemberSpec == MemberInit /\ [][OwnerNext]_memberVars

-----------------------------------------------------------------------------

\* Two owners who remove, archive or demote each other, or themselves, at once do
\* not leave the organization without one (removeMembership, archiveMembership,
\* updateRole: the lock on the owners, the count).
SomeOwner == Owners # {}

\* An owner's transaction that has its locks.
HasLocked(w) ==
    /\ request[w] \in OwnerRequests
    /\ request[w].phase \in {"reading", "counting", "writing", "revoking"}
    /\ request[w].operation # "restore"

\* Why there is always an owner: one such transaction at a time, because it holds the
\* lock of an owner that only itself can take away; and when it comes to write,
\* another owner is left.
OneAtATime == \A v, w \in Workers : HasLocked(v) /\ HasLocked(w) => v = w
HoldsAnOwner == \A w \in Workers : HasLocked(w) => locks[w] \cap Owners # {}
LeavesAnOwner ==
    \A w \in Workers :
        /\ HasLocked(w) /\ request[w].phase \in {"writing", "revoking"}
        /\ CountsOwners(request[w].operation, request[w].role)
        => \E o \in Owners : o # request[w].member

\* No two transactions hold the lock of one row.
LocksAreExclusive == \A v, w \in Workers : v # w => locks[v] \cap locks[w] = {}
=============================================================================
