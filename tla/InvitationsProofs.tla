------------------------- MODULE InvitationsProofs -------------------------
(***************************************************************************)
(* Proofs about Invitations, for any number of requests, users, members    *)
(* and invitations: an invitation is used once, and nobody comes in        *)
(* without a usable one.                                                   *)
(***************************************************************************)
EXTENDS Invitations, TLAPS

Requests == OwnerRequests \cup InvitationRequests \cup {Idle}

\* The rows a request has read are still there, and still what it took them for.
Fits(r) ==
    /\ r \in OwnerRequests /\ r.phase \in {"counting", "writing", "revoking"} =>
          members[r.member] # NoRow
    /\ r.phase \in {"refreshing", "resending", "withdrawing", "joining", "accepting"} =>
          r.invitation \in Invitations /\ invitations[r.invitation] # NoRow
    /\ r.phase \in {"joining", "accepting"} =>
          invitations[r.invitation].target \in {r.actor, Anyone}
    /\ r.phase = "joining" => r.member = NoRow
    /\ r.phase = "accepting" /\ r.member # NoRow =>
          members[r.member] # NoRow /\ members[r.member].user = r.actor

RowTypes ==
    /\ members \in [Members -> MemberRows \cup {NoRow}]
    /\ invitations \in [Invitations -> InvitationRows \cup {NoRow}]

PendingIsUnclaimed == \A i \in Invitations : Pending(i) => invitations[i].by = NoUser

JoinInv ==
    /\ RowTypes /\ PendingIsUnclaimed
    /\ request \in [Workers -> Requests]
    /\ \A w \in Workers : Fits(request[w])

-----------------------------------------------------------------------------
(* What a step does to the rows. *)

\* Rows stay the rows of their users and targets.
RowsGoOn ==
    /\ \A m \in Members :
          members[m] # NoRow => members'[m] # NoRow /\ members'[m].user = members[m].user
    /\ \A i \in Invitations :
          invitations[i] # NoRow =>
              invitations'[i] # NoRow /\ invitations'[i].target = invitations[i].target

UsedOnce ==
    \A i \in Invitations :
        invitations[i] # NoRow /\ invitations[i].by # NoUser =>
            invitations'[i].by = invitations[i].by

Invited ==
    \A m \in Members :
        (members[m] = NoRow \/ members[m].removed) /\ IsActive(members'[m]) =>
            \E i \in Invitations :
                /\ Usable(i)
                /\ invitations'[i].status = "ACCEPTED"
                /\ invitations'[i].by = members'[m].user
                /\ invitations[i].target \in {members'[m].user, Anyone}

Orderly == RowTypes' /\ PendingIsUnclaimed' /\ RowsGoOn /\ UsedOnce /\ Invited

LEMMA RowsUnchanged ==
    ASSUME RowTypes, PendingIsUnclaimed, UNCHANGED <<members, invitations>>
    PROVE  Orderly
<1>1. RowTypes' /\ PendingIsUnclaimed' /\ RowsGoOn /\ UsedOnce
  BY DEF RowTypes, PendingIsUnclaimed, RowsGoOn, UsedOnce, Pending
<1>2. Invited
  BY DEF Invited, IsActive
<1> QED
  BY <1>1, <1>2 DEF Orderly

\* An owner writes a member's row; one that is removed does not become active.
LEMMA MemberWritten ==
    ASSUME InvitationAssumption, MemberAssumption, RowTypes, PendingIsUnclaimed,
           NEW m \in Members, members[m] # NoRow,
           NEW row \in MemberRows, row.user = members[m].user,
           members[m].removed => row.removed,
           members' = [members EXCEPT ![m] = row], UNCHANGED invitations
    PROVE  Orderly
<1>1. row # NoRow
  BY DEF MemberAssumption
<1>2. RowTypes' /\ PendingIsUnclaimed' /\ UsedOnce
  BY DEF RowTypes, PendingIsUnclaimed, UsedOnce, Pending
<1>3. RowsGoOn
  BY <1>1 DEF RowTypes, RowsGoOn
<1>4. Invited
  BY DEF RowTypes, Invited, IsActive
<1> QED
  BY <1>2, <1>3, <1>4 DEF Orderly

\* An invitation is written; who has used it stays, and it is not made pending again.
LEMMA InvitationWritten ==
    ASSUME InvitationAssumption, RowTypes, PendingIsUnclaimed, NEW i \in Invitations,
           NEW row \in InvitationRows,
           invitations[i] = NoRow => row.by = NoUser,
           invitations[i] # NoRow =>
               /\ row.target = invitations[i].target
               /\ row.by = invitations[i].by
               /\ row.status = "PENDING" => invitations[i].status = "PENDING",
           invitations' = [invitations EXCEPT ![i] = row], UNCHANGED members
    PROVE  Orderly
<1>1. row # NoRow
  BY DEF InvitationAssumption
<1>2. RowTypes' /\ PendingIsUnclaimed'
  BY DEF RowTypes, PendingIsUnclaimed, Pending
<1>3. RowsGoOn /\ UsedOnce
  BY <1>1 DEF RowTypes, RowsGoOn, UsedOnce
<1>4. Invited
  BY DEF Invited, IsActive
<1> QED
  BY <1>2, <1>3, <1>4 DEF Orderly

-----------------------------------------------------------------------------
(* What a step does to the requests. *)

Only(w) ==
    /\ \A v \in Workers \ {w} : request'[v] = request[v]
    /\ request' \in [Workers -> Requests]

LEMMA Kinds ==
    ASSUME NEW r \in Requests
    PROVE  /\ r.phase \in {"asked", "locking", "reading", "counting", "writing", "revoking"}
              => r \in OwnerRequests
           /\ r.phase \in {"inviting", "creating", "refreshing", "resending", "withdrawing",
                           "joining", "accepting"}
              => r \in InvitationRequests /\ r \notin OwnerRequests
           /\ Idle \in Requests /\ Idle \notin OwnerRequests /\ Idle.phase = "idle"
  BY DEF Requests, OwnerRequests, InvitationRequests, Idle

\* What fits goes on fitting.
LEMMA FitsOn ==
    ASSUME RowsGoOn, NEW r \in Requests, Fits(r)
    PROVE  Fits(r)'
<1>1. r \in OwnerRequests => r.member \in Members
  BY DEF OwnerRequests
<1>2. r.phase = "accepting" /\ r.member # NoRow => r.member \in Members
  BY Kinds DEF InvitationRequests
<1> QED
  BY <1>1, <1>2 DEF RowsGoOn, Fits

LEMMA StepKeeps ==
    ASSUME JoinInv, Orderly, NEW w \in Workers, Only(w), Fits(request[w])'
    PROVE  JoinInv'
<1>1. ASSUME NEW v \in Workers PROVE Fits(request[v])'
  <2>1. CASE v = w
    BY <2>1
  <2>2. CASE v # w
    <3>1. request'[v] = request[v] /\ request[v] \in Requests /\ Fits(request[v])
      BY <2>2 DEF Only, JoinInv
    <3> DEFINE r == request[v]
    <3>2. Fits(request[v])' <=> (request'[v] = r => Fits(request[v])')
      BY <3>1
    <3> QED
      BY <3>1, FitsOn DEF Orderly, Fits, RowsGoOn
  <2> QED
    BY <2>1, <2>2
<1> QED
  BY <1>1 DEF JoinInv, Orderly, Only

\* Another phase, or another request.
LEMMA Enters ==
    ASSUME JoinInv, NEW w \in Workers, NEW r \in Requests, request' = [request EXCEPT ![w] = r]
    PROVE  Only(w) /\ request'[w] = r
  BY DEF JoinInv, Only

LEMMA Ends ==
    ASSUME JoinInv, NEW w \in Workers, Finish(w)
    PROVE  Only(w) /\ Fits(request[w])'
<1>0. Idle \in Requests /\ request' = [request EXCEPT ![w] = Idle]
  BY DEF Requests, Finish
<1>1. Only(w) /\ request'[w] = Idle
  BY <1>0, Enters
<1>2. Idle \notin OwnerRequests /\ Idle.phase = "idle"
  BY DEF Idle, OwnerRequests
<1>3. request'[w] = Idle
  BY <1>1
<1> QED
  BY <1>1, <1>2, <1>3 DEF Fits

\* A step that leaves the rows alone.
LEMMA Quiet ==
    ASSUME JoinInv, UNCHANGED <<members, invitations>>, NEW w \in Workers,
           Only(w), Fits(request[w])'
    PROVE  JoinInv' /\ Orderly
  BY RowsUnchanged, StepKeeps DEF JoinInv

LEMMA QuietEnd ==
    ASSUME JoinInv, UNCHANGED <<members, invitations>>, NEW w \in Workers, Finish(w)
    PROVE  JoinInv' /\ Orderly
  BY Ends, Quiet

-----------------------------------------------------------------------------
(* The steps of owners. *)

LEMMA OwnersAsk ==
    ASSUME MemberAssumption, JoinInv, UNCHANGED invitations, NEW w \in Workers,
           NEW operation \in Operations, NEW u \in Users, NEW m \in Members,
           NEW role \in MemberRoles, AskAsOwner(w, operation, u, m, role)
    PROVE  JoinInv' /\ Orderly
<1> DEFINE r == [phase |-> IF operation = "restore" THEN "reading" ELSE "asked",
                 operation |-> operation, actor |-> u, member |-> m, role |-> role,
                 owners |-> {}]
<1>1. r \in OwnerRequests /\ r.phase \in {"reading", "asked"}
  BY DEF OwnerRequests
<1>2. request' = [request EXCEPT ![w] = r] /\ UNCHANGED members
  BY DEF AskAsOwner
<1> HIDE DEF r
<1>3. Only(w) /\ request'[w] = r
  BY <1>1, <1>2, Enters DEF Requests
<1>4. Fits(request[w])'
  BY <1>1, <1>3 DEF Fits
<1> QED
  BY <1>2, <1>3, <1>4, Quiet

LEMMA OwnersLock ==
    ASSUME JoinInv, UNCHANGED invitations, NEW w \in Workers, FindOwners(w) \/ LockOwners(w)
    PROVE  JoinInv' /\ Orderly
<1>1. request[w] \in OwnerRequests
  BY Kinds DEF FindOwners, LockOwners, JoinInv
<1>2. PICK p \in {"locking", "reading"}, O \in SUBSET Members :
         request' = [request EXCEPT ![w] = [request[w] EXCEPT !.phase = p, !.owners = O]]
  BY DEF FindOwners, LockOwners, Owners, JoinInv
<1> DEFINE r == [request[w] EXCEPT !.phase = p, !.owners = O]
<1>3. r \in OwnerRequests /\ r.phase = p
  BY <1>1 DEF OwnerRequests
<1>4. request' = [request EXCEPT ![w] = r]
  BY <1>2
<1> HIDE DEF r
<1>5. Only(w) /\ request'[w] = r
  BY <1>3, <1>4, Enters DEF Requests
<1>6. Fits(request[w])'
  BY <1>3, <1>5 DEF Fits
<1> QED
  BY <1>5, <1>6, Quiet DEF FindOwners, LockOwners

\* An owner's request goes on to count or to write, with a member that is there.
LEMMA OwnerGoes ==
    ASSUME JoinInv, UNCHANGED <<members, invitations>>, NEW w \in Workers,
           request[w] \in OwnerRequests, members[request[w].member] # NoRow,
           NEW p \in {"counting", "writing", "revoking"}, Goto(w, p)
    PROVE  JoinInv' /\ Orderly
<1> DEFINE r == [request[w] EXCEPT !.phase = p]
<1>1. r \in OwnerRequests /\ r.phase = p /\ r.member = request[w].member
  BY DEF OwnerRequests
<1>2. request' = [request EXCEPT ![w] = r]
  BY DEF Goto, JoinInv
<1> HIDE DEF r
<1>3. Only(w) /\ request'[w] = r
  BY <1>1, <1>2, Enters DEF Requests
<1>4. Fits(request[w])'
  BY <1>1, <1>3 DEF Fits
<1> QED
  BY <1>3, <1>4, Quiet

LEMMA OwnersCheck ==
    ASSUME JoinInv, UNCHANGED invitations, NEW w \in Workers, ReadMember(w) \/ CountOwners(w)
    PROVE  JoinInv' /\ Orderly
<1>1. CASE ReadMember(w)
  <2>1. CASE Permitted(request[w])
    BY <1>1, <2>1, OwnerGoes DEF ReadMember, Permitted, Applies
  <2>2. CASE ~Permitted(request[w])
    BY <1>1, <2>2, QuietEnd DEF ReadMember, Refuse
  <2> QED
    BY <2>1, <2>2
<1>2. CASE CountOwners(w)
  <2>1. request[w] \in OwnerRequests /\ members[request[w].member] # NoRow
    BY <1>2, Kinds DEF CountOwners, JoinInv, Fits
  <2> QED
    BY <1>2, <2>1, OwnerGoes, QuietEnd DEF CountOwners, Refuse
<1> QED
  BY <1>1, <1>2

LEMMA OwnersWrite ==
    ASSUME MemberAssumption, InvitationAssumption, JoinInv, UNCHANGED invitations,
           NEW w \in Workers, UpdateMember(w) \/ WriteMember(w) \/ RevokeClaims(w)
    PROVE  JoinInv' /\ Orderly
<1> DEFINE r == request[w]
           m == r.member
<1>1. r \in OwnerRequests /\ m \in Members /\ members[m] # NoRow /\ members[m] \in MemberRows
  <2>1. r \in OwnerRequests /\ r.phase \in {"writing", "revoking"}
    BY Kinds DEF UpdateMember, WriteMember, RevokeClaims, JoinInv
  <2>2. m \in Members
    BY <2>1 DEF OwnerRequests
  <2> QED
    BY <2>1, <2>2 DEF JoinInv, Fits, RowTypes
<1>2. ASSUME NEW row \in MemberRows, row.user = members[m].user,
             members[m].removed => row.removed, members' = [members EXCEPT ![m] = row],
             Finish(w)
      PROVE  JoinInv' /\ Orderly
  <2>1. Orderly
    BY <1>1, <1>2, MemberWritten DEF JoinInv
  <2> QED
    BY <1>2, <2>1, Ends, StepKeeps
<1>3. CASE UpdateMember(w)
  <2>1. CASE r.operation = "updateRole"
    <3> DEFINE row == [members[m] EXCEPT !.role = r.role]
    <3>1. row \in MemberRows /\ row.user = members[m].user /\ row.removed = members[m].removed
      BY <1>1 DEF MemberRows, OwnerRequests
    <3>2. members' = [members EXCEPT ![m] = row] /\ Finish(w)
      BY <1>1, <1>3, <2>1 DEF UpdateMember, JoinInv, RowTypes
    <3> HIDE DEF row
    <3> QED
      BY <1>2, <3>1, <3>2
  <2>2. CASE r.operation # "updateRole"
    <3> DEFINE row == [members[m] EXCEPT !.status = "ACTIVE"]
    <3>1. row \in MemberRows /\ row.user = members[m].user /\ row.removed = members[m].removed
      BY <1>1 DEF MemberRows
    <3>2. members' = [members EXCEPT ![m] = row] /\ Finish(w)
      BY <1>1, <1>3, <2>2 DEF UpdateMember, JoinInv, RowTypes
    <3> HIDE DEF row
    <3> QED
      BY <1>2, <3>1, <3>2
  <2> QED
    BY <2>1, <2>2
<1>4. CASE WriteMember(w)
  BY <1>1, <1>4, OwnerGoes DEF WriteMember
<1>5. CASE RevokeClaims(w)
  <2> DEFINE row == IF r.operation = "remove"
                    THEN [members[m] EXCEPT !.status = "REMOVED", !.removed = TRUE]
                    ELSE [members[m] EXCEPT !.status = "ARCHIVED"]
  <2>1. /\ row \in MemberRows /\ row.user = members[m].user
        /\ members[m].removed => row.removed
    BY <1>1 DEF MemberRows
  <2>2. members' = [members EXCEPT ![m] = row] /\ Finish(w)
    BY <1>1, <1>5 DEF RevokeClaims, Gone, JoinInv, RowTypes
  <2> HIDE DEF row
  <2> QED
    BY <1>2, <2>1, <2>2
<1> QED
  BY <1>3, <1>4, <1>5

LEMMA OwnersStep ==
    ASSUME MemberAssumption, InvitationAssumption, JoinInv, OwnerNext, UNCHANGED invitations
    PROVE  JoinInv' /\ Orderly
<1>1. ASSUME NEW w \in Workers, NEW operation \in Operations, NEW u \in Users, NEW m \in Members,
             NEW role \in (IF operation = "updateRole" THEN Roles ELSE {"MEMBER"}),
             AskAsOwner(w, operation, u, m, role)
      PROVE  JoinInv' /\ Orderly
  <2>1. role \in MemberRoles
    BY DEF MemberAssumption, MemberRoles
  <2> QED
    BY <1>1, <2>1, OwnersAsk
<1>2. ASSUME NEW w \in Workers, OwnerStep(w) PROVE JoinInv' /\ Orderly
  BY <1>2, OwnersLock, OwnersCheck, OwnersWrite DEF OwnerStep
<1>3. ASSUME NEW w \in Workers, Abort(w) PROVE JoinInv' /\ Orderly
  BY <1>3, QuietEnd DEF Abort, Refuse
<1> QED
  BY <1>1, <1>2, <1>3 DEF OwnerNext

-----------------------------------------------------------------------------
(* The steps of inviters and of the invited. *)

\* A request about invitations is entered.
LEMMA Entered ==
    ASSUME JoinInv, UNCHANGED <<members, invitations>>, NEW w \in Workers,
           NEW p \in {"inviting", "creating", "resending", "withdrawing", "joining"},
           NEW u \in Users, NEW target \in Users \cup {Anyone}, NEW role \in MemberRoles,
           NEW i \in Invitations \cup {NoRow}, Enter(w, p, u, target, role, i, NoRow),
           p \in {"resending", "withdrawing", "joining"} =>
               i \in Invitations /\ invitations[i] # NoRow,
           p = "joining" => invitations[i].target \in {u, Anyone}
    PROVE  JoinInv' /\ Orderly
<1> DEFINE r == [phase |-> p, actor |-> u, target |-> target, role |-> role,
                 invitation |-> i, member |-> NoRow, again |-> FALSE]
<1>1. /\ r \in InvitationRequests /\ r.phase = p /\ r.invitation = i /\ r.actor = u
      /\ r.member = NoRow /\ r \notin OwnerRequests
  BY DEF InvitationRequests, OwnerRequests
<1>2. request' = [request EXCEPT ![w] = r]
  BY DEF Enter
<1> HIDE DEF r
<1>3. Only(w) /\ request'[w] = r
  BY <1>1, <1>2, Enters DEF Requests
<1>4. Fits(request[w])'
  BY <1>1, <1>3 DEF Fits
<1> QED
  BY <1>3, <1>4, Quiet

LEMMA AskedToInvite ==
    ASSUME MemberAssumption, JoinInv, NEW w \in Workers, NEW u \in Users,
           NEW target \in Users \cup {Anyone}, NEW role \in Roles,
           AskToInvite(w, u, target, role)
    PROVE  JoinInv' /\ Orderly
<1>1. role \in MemberRoles
  BY DEF MemberAssumption
<1> QED
  BY <1>1, Entered DEF AskToInvite

LEMMA AskedAbout ==
    ASSUME InvitationAssumption, JoinInv, NEW w \in Workers, NEW u \in Users, NEW i \in Invitations,
           \/ AskAboutPending(w, u, i, "withdrawing")
           \/ AskAboutPending(w, u, i, "resending")
           \/ AskToAccept(w, u, i)
    PROVE  JoinInv' /\ Orderly
<1>1. Pending(i) => invitations[i] \in InvitationRows /\ invitations[i] # NoRow
  BY DEF Pending, JoinInv, RowTypes
<1>2. CASE AskAboutPending(w, u, i, "withdrawing") \/ AskAboutPending(w, u, i, "resending")
  BY <1>1, <1>2, Entered DEF AskAboutPending, MemberRoles
<1>3. CASE AskToAccept(w, u, i)
  <2>1. invitations[i].target \in Users \cup {Anyone} /\ invitations[i].role \in MemberRoles
    BY <1>1, <1>3 DEF AskToAccept, InvitationRows
  <2> QED
    BY <1>1, <1>3, <2>1, Entered DEF AskToAccept
<1> QED
  BY <1>2, <1>3

\* A pending invitation of the target is found, or none.
LEMMA FoundPending ==
    ASSUME JoinInv, NEW w \in Workers, FindPending(w)
    PROVE  JoinInv' /\ Orderly
<1>1. request[w] \in InvitationRequests
  BY Kinds DEF FindPending, JoinInv
<1>2. PICK r \in InvitationRequests :
         /\ request' = [request EXCEPT ![w] = r]
         /\ \/ r.phase = "creating"
            \/ /\ r.phase = "refreshing"
               /\ r.invitation \in Invitations /\ invitations[r.invitation] # NoRow
  <2>1. CASE Goto(w, "creating")
    <3>1. [request[w] EXCEPT !.phase = "creating"] \in InvitationRequests
      BY <1>1 DEF InvitationRequests
    <3> QED
      BY <1>1, <2>1, <3>1 DEF Goto, JoinInv, InvitationRequests
  <2>2. ASSUME NEW i \in PendingFor(request[w].target),
               request' = [request EXCEPT ![w].phase = "refreshing", ![w].invitation = i]
        PROVE  \E r \in InvitationRequests :
                  /\ request' = [request EXCEPT ![w] = r]
                  /\ r.phase = "refreshing"
                  /\ r.invitation \in Invitations /\ invitations[r.invitation] # NoRow
    <3> DEFINE r == [request[w] EXCEPT !.phase = "refreshing", !.invitation = i]
    <3>1. i \in Invitations /\ invitations[i] # NoRow
      BY DEF PendingFor, Pending
    <3>2. r \in InvitationRequests /\ r.phase = "refreshing" /\ r.invitation = i
      BY <1>1, <3>1 DEF InvitationRequests
    <3>3. request' = [request EXCEPT ![w] = r]
      BY <2>2 DEF JoinInv
    <3> HIDE DEF r
    <3> QED
      BY <3>1, <3>2, <3>3
  <2> QED
    BY <2>1, <2>2 DEF FindPending
<1>3. Only(w) /\ request'[w] = r
  BY <1>2, Enters DEF Requests
<1>4. r \notin OwnerRequests
  BY <1>2 DEF OwnerRequests
<1>5. Fits(request[w])'
  BY <1>2, <1>3, <1>4 DEF Fits, FindPending
<1> QED
  BY <1>3, <1>5, Quiet DEF FindPending

\* The writes by id.
LEMMA WrittenById ==
    ASSUME InvitationAssumption, JoinInv, NEW w \in Workers,
           RefreshInvitation(w) \/ RevokeInvitation(w) \/ ResendInvitation(w)
    PROVE  JoinInv' /\ Orderly
<1> DEFINE r == request[w]
           i == r.invitation
<1>1. /\ i \in Invitations /\ invitations[i] # NoRow /\ invitations[i] \in InvitationRows
      /\ r.role \in MemberRoles
  <2>1. r \in InvitationRequests /\ r.phase \in {"refreshing", "withdrawing", "resending"}
    BY Kinds DEF RefreshInvitation, RevokeInvitation, ResendInvitation, JoinInv
  <2> QED
    BY <2>1 DEF JoinInv, Fits, RowTypes, InvitationRequests
<1>2. ASSUME NEW row \in InvitationRows, row.target = invitations[i].target,
             row.by = invitations[i].by,
             row.status = "PENDING" => invitations[i].status = "PENDING",
             invitations' = [invitations EXCEPT ![i] = row], UNCHANGED members, Finish(w)
      PROVE  JoinInv' /\ Orderly
  <2>1. Orderly
    BY <1>1, <1>2, InvitationWritten DEF JoinInv
  <2> QED
    BY <1>2, <2>1, Ends, StepKeeps
<1>3. CASE RefreshInvitation(w)
  <2> DEFINE row == [invitations[i] EXCEPT !.role = r.role, !.expired = FALSE]
  <2>1. /\ row \in InvitationRows /\ row.target = invitations[i].target
        /\ row.by = invitations[i].by /\ row.status = invitations[i].status
    BY <1>1 DEF InvitationRows
  <2>2. invitations' = [invitations EXCEPT ![i] = row] /\ UNCHANGED members /\ Finish(w)
    BY <1>1, <1>3 DEF RefreshInvitation, JoinInv, RowTypes
  <2> HIDE DEF row
  <2> QED
    BY <1>2, <2>1, <2>2
<1>4. CASE RevokeInvitation(w)
  <2> DEFINE row == [invitations[i] EXCEPT !.status = "REVOKED"]
  <2>1. /\ row \in InvitationRows /\ row.target = invitations[i].target
        /\ row.by = invitations[i].by /\ row.status = "REVOKED"
    BY <1>1 DEF InvitationRows
  <2>2. invitations' = [invitations EXCEPT ![i] = row] /\ UNCHANGED members /\ Finish(w)
    BY <1>1, <1>4 DEF RevokeInvitation, JoinInv, RowTypes
  <2> HIDE DEF row
  <2> QED
    BY <1>2, <2>1, <2>2
<1>5. CASE ResendInvitation(w)
  <2> DEFINE row == [invitations[i] EXCEPT !.expired = FALSE]
  <2>1. /\ row \in InvitationRows /\ row.target = invitations[i].target
        /\ row.by = invitations[i].by /\ row.status = invitations[i].status
    BY <1>1 DEF InvitationRows
  <2>2. invitations' = [invitations EXCEPT ![i] = row] /\ UNCHANGED members /\ Finish(w)
    BY <1>1, <1>5 DEF ResendInvitation, JoinInv, RowTypes
  <2> HIDE DEF row
  <2> QED
    BY <1>2, <2>1, <2>2
<1> QED
  BY <1>3, <1>4, <1>5

\* A new row, or none; or another try.
LEMMA Created ==
    ASSUME InvitationAssumption, JoinInv, NEW w \in Workers, CreateInvitation(w)
    PROVE  JoinInv' /\ Orderly
<1> DEFINE r == request[w]
<1>1. r \in InvitationRequests
  BY Kinds DEF CreateInvitation, JoinInv
<1>2. CASE request' = [request EXCEPT ![w].phase = "inviting", ![w].again = TRUE]
           /\ UNCHANGED <<members, invitations>>
  <2> DEFINE q == [r EXCEPT !.phase = "inviting", !.again = TRUE]
  <2>1. q \in InvitationRequests /\ q.phase = "inviting" /\ q \notin OwnerRequests
    BY <1>1 DEF InvitationRequests, OwnerRequests
  <2>2. request' = [request EXCEPT ![w] = q]
    BY <1>2 DEF JoinInv
  <2> HIDE DEF q
  <2>3. Only(w) /\ request'[w] = q
    BY <2>1, <2>2, Enters DEF Requests
  <2>4. Fits(request[w])'
    BY <2>1, <2>3 DEF Fits
  <2> QED
    BY <1>2, <2>3, <2>4, Quiet
<1>3. CASE Finish(w) /\ UNCHANGED <<members, invitations>>
  BY <1>3, QuietEnd
<1>4. ASSUME NEW i \in Invitations, invitations[i] = NoRow, Finish(w), UNCHANGED members,
             invitations' = [invitations EXCEPT ![i] =
                 [target |-> r.target, role |-> r.role, status |-> "PENDING",
                  by |-> NoUser, expired |-> FALSE]]
      PROVE  JoinInv' /\ Orderly
  <2> DEFINE row == [target |-> r.target, role |-> r.role, status |-> "PENDING",
                     by |-> NoUser, expired |-> FALSE]
  <2>1. row \in InvitationRows /\ row.by = NoUser
    BY <1>1 DEF InvitationRows, InvitationRequests
  <2>2. invitations' = [invitations EXCEPT ![i] = row]
    BY <1>4
  <2> HIDE DEF row
  <2>3. Orderly
    BY <1>4, <2>1, <2>2, InvitationWritten DEF JoinInv
  <2> QED
    BY <1>4, <2>3, Ends, StepKeeps
<1> QED
  BY <1>2, <1>3, <1>4 DEF CreateInvitation

LEMMA Expired ==
    ASSUME InvitationAssumption, JoinInv, NEW i \in Invitations, InvitationExpires(i)
    PROVE  JoinInv' /\ Orderly
<1> DEFINE row == [invitations[i] EXCEPT !.expired = TRUE]
<1>1. /\ invitations[i] # NoRow /\ row \in InvitationRows /\ row.target = invitations[i].target
      /\ row.by = invitations[i].by /\ row.status = invitations[i].status
  BY DEF InvitationExpires, Pending, JoinInv, RowTypes, InvitationRows
<1>2. /\ invitations' = [invitations EXCEPT ![i] = row]
      /\ UNCHANGED members /\ UNCHANGED request
  BY DEF InvitationExpires, JoinInv, RowTypes, memberVars
<1> HIDE DEF row
<1>3. Orderly
  BY <1>1, <1>2, InvitationWritten DEF JoinInv
<1>4. ASSUME NEW w \in Workers PROVE JoinInv' /\ Orderly
  <2>1. Only(w)
    BY <1>2 DEF JoinInv, Only
  <2>2. Fits(request[w])'
    <3> DEFINE r == request[w]
    <3>1. r \in Requests /\ Fits(r) /\ request'[w] = r
      BY <1>2 DEF JoinInv
    <3> QED
      BY <1>3, <3>1, FitsOn DEF Orderly, Fits, RowsGoOn
  <2> QED
    BY <1>3, <2>1, <2>2, StepKeeps
<1>5. JoinInv'
  BY <1>2, <1>3, <1>4 DEF JoinInv, Orderly
<1> QED
  BY <1>3, <1>5

\* The user's own row, if there is one.
LEMMA FoundMembership ==
    ASSUME JoinInv, NEW w \in Workers, FindMembership(w)
    PROVE  JoinInv' /\ Orderly
<1> DEFINE r == request[w]
<1>1. r \in InvitationRequests /\ r \notin OwnerRequests
  BY Kinds DEF FindMembership, JoinInv
<1>2. CASE Goto(w, "accepting")
  <2> DEFINE q == [r EXCEPT !.phase = "accepting"]
  <2>1. /\ q \in InvitationRequests /\ q.phase = "accepting" /\ q \notin OwnerRequests
        /\ q.invitation = r.invitation /\ q.actor = r.actor /\ q.member = r.member
    BY <1>1 DEF InvitationRequests, OwnerRequests
  <2>2. request' = [request EXCEPT ![w] = q]
    BY <1>2 DEF Goto, JoinInv
  <2> HIDE DEF q
  <2>3. Only(w) /\ request'[w] = q
    BY <2>1, <2>2, Enters DEF Requests
  <2>4. Fits(request[w])'
    BY <2>1, <2>3 DEF Fits, FindMembership, JoinInv
  <2> QED
    BY <2>3, <2>4, Quiet DEF FindMembership
<1>3. ASSUME NEW m \in Membership(r.actor),
             request' = [request EXCEPT ![w].phase = "accepting", ![w].member = m]
      PROVE  JoinInv' /\ Orderly
  <2> DEFINE q == [r EXCEPT !.phase = "accepting", !.member = m]
  <2>0. m \in Members /\ members[m] # NoRow /\ members[m].user = r.actor
    BY DEF Membership
  <2>1. /\ q \in InvitationRequests /\ q.phase = "accepting" /\ q \notin OwnerRequests
        /\ q.invitation = r.invitation /\ q.actor = r.actor /\ q.member = m
    BY <1>1, <2>0 DEF InvitationRequests, OwnerRequests
  <2>2. request' = [request EXCEPT ![w] = q]
    BY <1>3 DEF JoinInv
  <2> HIDE DEF q
  <2>3. Only(w) /\ request'[w] = q
    BY <2>1, <2>2, Enters DEF Requests
  <2>4. Fits(request[w])'
    BY <2>0, <2>1, <2>3 DEF Fits, FindMembership, JoinInv
  <2> QED
    BY <2>3, <2>4, Quiet DEF FindMembership
<1> QED
  BY <1>2, <1>3, QuietEnd DEF FindMembership

\* An acceptance: the member's row and the invitation are written together.
LEMMA Accepted ==
    ASSUME MemberAssumption, InvitationAssumption, JoinInv, NEW w \in Workers, AcceptInvitation(w)
    PROVE  JoinInv' /\ Orderly
<1> DEFINE r == request[w]
           i == r.invitation
<1>1. /\ r \in InvitationRequests /\ i \in Invitations /\ invitations[i] \in InvitationRows
      /\ invitations[i].target \in {r.actor, Anyone} /\ Fits(r)
      /\ r.actor \in Users /\ r.actor # NoUser /\ r.phase = "accepting" /\ r.role \in MemberRoles
  BY Kinds DEF AcceptInvitation, JoinInv, Fits, RowTypes, InvitationRequests, MemberAssumption
<1>2. CASE UNCHANGED <<members, invitations>>
  BY <1>2, QuietEnd DEF AcceptInvitation
<1>3. CASE Usable(i) /\ members' \in Joined(r)
           /\ invitations' = [invitations EXCEPT ![i].status = "ACCEPTED", ![i].by = r.actor]
  <2> DEFINE ticket == [invitations[i] EXCEPT !.status = "ACCEPTED", !.by = r.actor]
  <2>1. /\ ticket \in InvitationRows /\ ticket.target = invitations[i].target
        /\ ticket.by = r.actor /\ ticket.status = "ACCEPTED"
    BY <1>1 DEF InvitationRows
  <2>2. invitations' = [invitations EXCEPT ![i] = ticket]
    BY <1>1, <1>3 DEF JoinInv, RowTypes
  <2>3. PICK m \in Members, row \in MemberRows :
           /\ members' = [members EXCEPT ![m] = row] /\ row.user = r.actor
           /\ members[m] # NoRow => members[m].user = r.actor
    <3>1. CASE r.member # NoRow
      <4> DEFINE m == r.member
                 row == [members[m] EXCEPT !.role = r.role, !.status = "ACTIVE", !.removed = FALSE]
      <4>1. m \in Members /\ members[m] \in MemberRows /\ members[m].user = r.actor
        BY <1>1, <3>1 DEF Fits, InvitationRequests, JoinInv, RowTypes
      <4>2. row \in MemberRows /\ row.user = r.actor
        BY <1>1, <4>1 DEF MemberRows
      <4>3. members' = [members EXCEPT ![m] = row]
        BY <1>3, <3>1, <4>1 DEF Joined, JoinInv, RowTypes
      <4> HIDE DEF row
      <4> QED
        BY <4>1, <4>2, <4>3
    <3>2. CASE r.member = NoRow
      <4> DEFINE row == [user |-> r.actor, role |-> r.role, status |-> "ACTIVE", removed |-> FALSE]
      <4>1. row \in MemberRows /\ row.user = r.actor
        BY <1>1 DEF MemberRows
      <4>2. PICK m \in Members : members[m] = NoRow /\ members' = [members EXCEPT ![m] = row]
        BY <1>3, <3>2 DEF Joined
      <4> HIDE DEF row
      <4> QED
        BY <4>1, <4>2
    <3> QED
      BY <3>1, <3>2
  <2> HIDE DEF ticket
  <2>4. row # NoRow /\ ticket # NoRow
    BY <2>1 DEF MemberAssumption, InvitationAssumption
  <2>5. RowTypes' /\ PendingIsUnclaimed'
    BY <1>1, <2>1, <2>2, <2>3 DEF JoinInv, RowTypes, PendingIsUnclaimed, Pending
  <2>6. RowsGoOn
    BY <1>1, <2>1, <2>2, <2>3, <2>4 DEF RowsGoOn, JoinInv, RowTypes
  <2>7. UsedOnce
    BY <1>1, <1>3, <2>2 DEF UsedOnce, JoinInv, RowTypes, PendingIsUnclaimed, Usable
  <2>8. Invited
    <3> SUFFICES ASSUME NEW n \in Members, members[n] = NoRow \/ members[n].removed,
                        IsActive(members'[n])
                 PROVE  n = m
      BY <1>1, <1>3, <2>1, <2>2, <2>3 DEF Invited, JoinInv, RowTypes
    <3> QED
      BY <2>3 DEF IsActive, JoinInv, RowTypes
  <2>9. Orderly
    BY <2>5, <2>6, <2>7, <2>8 DEF Orderly
  <2> QED
    BY <2>9, Ends, StepKeeps DEF AcceptInvitation
<1> QED
  BY <1>2, <1>3 DEF AcceptInvitation

-----------------------------------------------------------------------------

LEMMA InvitationsStep ==
    ASSUME MemberAssumption, InvitationAssumption, JoinInv, [InvitationNext]_invitationVars
    PROVE  JoinInv' /\ Orderly
<1>1. CASE OwnerNext /\ UNCHANGED invitations
  BY <1>1, OwnersStep
<1>2. ASSUME NEW w \in Workers, NEW u \in Users,
             \/ \E target \in Users \cup {Anyone}, role \in Roles : AskToInvite(w, u, target, role)
             \/ \E i \in Invitations :
                   \/ AskAboutPending(w, u, i, "withdrawing")
                   \/ AskAboutPending(w, u, i, "resending")
                   \/ AskToAccept(w, u, i)
      PROVE  JoinInv' /\ Orderly
  BY <1>2, AskedToInvite, AskedAbout
<1>3. ASSUME NEW w \in Workers, InvitationStep(w) PROVE JoinInv' /\ Orderly
  BY <1>3, FoundPending, WrittenById, Created, FoundMembership, Accepted DEF InvitationStep
<1>4. ASSUME NEW i \in Invitations, InvitationExpires(i) PROVE JoinInv' /\ Orderly
  BY <1>4, Expired
<1>5. CASE UNCHANGED invitationVars
  <2>1. UNCHANGED <<members, invitations>> /\ UNCHANGED request
    BY <1>5 DEF invitationVars, memberVars
  <2>2. Orderly
    BY <2>1, RowsUnchanged DEF JoinInv
  <2>3. JoinInv'
    BY <2>1 DEF JoinInv, RowTypes, PendingIsUnclaimed, Pending, Fits
  <2> QED
    BY <2>2, <2>3
<1> QED
  BY <1>1, <1>2, <1>3, <1>4, <1>5 DEF InvitationNext

\* The inductive invariant: the rows have their types, a pending invitation is nobody's yet, and
\* the rows a request has read are still there, the member's the actor's own and the invitation's
\* target as it was.
THEOREM JoinInvariant == InvitationSpec => []JoinInv
<1>1. InvitationInit => JoinInv
  <2> SUFFICES ASSUME InvitationInit PROVE JoinInv
    OBVIOUS
  <2>1. RowTypes /\ PendingIsUnclaimed
    BY MemberAssumption
       DEF InvitationInit, MemberInit, RowTypes, PendingIsUnclaimed, Pending
  <2>2. \A w \in Workers : request[w] = Idle
    BY DEF InvitationInit, MemberInit
  <2>3. Idle \in Requests /\ Idle \notin OwnerRequests /\ Idle.phase = "idle"
    BY DEF Requests, Idle, OwnerRequests
  <2>4. request \in [Workers -> Requests]
    BY <2>3 DEF InvitationInit, MemberInit
  <2>5. \A w \in Workers : Fits(request[w])
    BY <2>2, <2>3 DEF Fits
  <2> QED
    BY <2>1, <2>4, <2>5 DEF JoinInv
<1>2. JoinInv /\ [InvitationNext]_invitationVars => JoinInv'
  BY InvitationsStep, MemberAssumption, InvitationAssumption
<1> QED
  BY <1>1, <1>2, PTL DEF InvitationSpec

\* An invitation lets in one user once, whatever is refreshed, sent again, revoked or accepted at
\* the same time.
THEOREM InvitationUsedOnce == InvitationSpec => InvitationIsSingleUse
<1>1. JoinInv /\ [InvitationNext]_invitationVars =>
        [\A i \in Invitations :
            invitations[i] # NoRow /\ invitations[i].by # NoUser =>
                invitations'[i].by = invitations[i].by]_invitationVars
  BY InvitationsStep, MemberAssumption, InvitationAssumption DEF Orderly, UsedOnce
<1> QED
  BY <1>1, JoinInvariant, PTL DEF InvitationSpec, InvitationIsSingleUse

\* Nobody comes in, or back from a removal, without a usable invitation.
THEOREM JoinsInvited == InvitationSpec => JoinsByUsableInvitation
<1>1. JoinInv /\ [InvitationNext]_invitationVars => [Invited]_invitationVars
  BY InvitationsStep, MemberAssumption, InvitationAssumption DEF Orderly
<1>2. InvitationSpec => [][Invited]_invitationVars
  BY <1>1, JoinInvariant, PTL DEF InvitationSpec
<1> QED
  BY <1>2 DEF Invited, JoinsByUsableInvitation
=============================================================================
