---------------------------- MODULE Invitations ----------------------------
(***************************************************************************)
(* Invitations to an organization: targeted at one account, or links that  *)
(* bind to whoever accepts first (invitations.service.ts and its           *)
(* repository), while owners remove, archive, restore and demote members.  *)
(* Only accept is a transaction; the other operations read a row and then  *)
(* update it by its id.                                                    *)
(***************************************************************************)
EXTENDS Members

CONSTANTS Invitations,     \* ids of rows of organization_invitations
          Anyone           \* the target of a claimable link

VARIABLE invitations

invitationVars == <<memberVars, invitations>>

InvitationRows ==
    [target : Users \cup {Anyone},
     role : MemberRoles,
     status : {"PENDING", "ACCEPTED", "REVOKED"},
     by : Users \cup {NoUser},       \* claimedByUserId, or the target that accepted
     expired : BOOLEAN]

ASSUME InvitationAssumption ==
    /\ Anyone \notin Users \cup {NoUser}
    /\ NoRow \notin InvitationRows \cup Invitations
    /\ Invitations \cap (Members \cup Claims) = {}

InvitationRequests ==
    [phase : {"inviting", "creating", "refreshing", "resending", "withdrawing",
              "joining", "accepting"},
     actor : Users, target : Users \cup {Anyone}, role : MemberRoles,
     invitation : Invitations \cup {NoRow}, member : Members \cup {NoRow},
     again : BOOLEAN]                \* the second try of an invitation

InvitationInit == MemberInit /\ invitations = [i \in Invitations |-> NoRow]

Pending(i) == invitations[i] # NoRow /\ invitations[i].status = "PENDING"

\* canInviteRole
InviterRoles(role) == IF role \in {"OWNER", "ADMIN"} THEN {"OWNER"} ELSE {"OWNER", "ADMIN"}

Enter(w, phase, u, target, role, i, m) ==
    request' = [request EXCEPT ![w] =
        [phase |-> phase, actor |-> u, target |-> target, role |-> role,
         invitation |-> i, member |-> m, again |-> FALSE]]

-----------------------------------------------------------------------------
(* Inviting: create a row, or refresh the pending one of the target. *)

AskToInvite(w, u, target, role) ==
    /\ request[w] = Idle
    /\ ActsAs(u, InviterRoles(role))
    /\ IF target = Anyone THEN role \in {"MEMBER", "VIEWER"} ELSE ~ActsAs(target, MemberRoles)
    /\ Enter(w, IF target = Anyone THEN "creating" ELSE "inviting", u, target, role, NoRow, NoRow)
    /\ UNCHANGED <<members, claims, locks, invitations>>

PendingFor(target) == {i \in Invitations : Pending(i) /\ invitations[i].target = target}

FindPending(w) ==
    LET r == request[w]
    IN  /\ r.phase = "inviting"
        /\ \/ /\ PendingFor(r.target) = {}
              /\ Goto(w, "creating")
           \/ \E i \in PendingFor(r.target) :
                 request' = [request EXCEPT ![w].phase = "refreshing", ![w].invitation = i]
        /\ UNCHANGED <<members, claims, locks, invitations>>

\* By its id, whatever has become of it.
RefreshInvitation(w) ==
    LET r == request[w]
    IN  /\ r.phase = "refreshing"
        /\ invitations' = [invitations EXCEPT ![r.invitation].role = r.role,
                                              ![r.invitation].expired = FALSE]
        /\ Finish(w)
        /\ UNCHANGED <<members, claims>>

\* The index admits one pending invitation of a target; who loses the race refreshes
\* the winner's row.  (The ids are a bound of the model.)
CreateInvitation(w) ==
    LET r == request[w]
        taken == r.target # Anyone /\ PendingFor(r.target) # {}
    IN  /\ r.phase = "creating"
        /\ \/ /\ taken /\ ~r.again
              /\ request' = [request EXCEPT ![w].phase = "inviting", ![w].again = TRUE]
              /\ UNCHANGED <<locks, invitations>>
           \/ /\ taken /\ r.again
              /\ Finish(w)
              /\ UNCHANGED invitations
           \/ /\ ~taken
              /\ \E i \in Invitations :
                    /\ invitations[i] = NoRow
                    /\ invitations' = [invitations EXCEPT ![i] =
                          [target |-> r.target, role |-> r.role, status |-> "PENDING",
                           by |-> NoUser, expired |-> FALSE]]
              /\ Finish(w)
        /\ UNCHANGED <<members, claims>>

InvitationExpires(i) ==
    /\ Pending(i) /\ ~invitations[i].expired
    /\ invitations' = [invitations EXCEPT ![i].expired = TRUE]
    /\ UNCHANGED memberVars

-----------------------------------------------------------------------------
(* Revoking and sending again. *)

AskAboutPending(w, u, i, phase) ==
    /\ request[w] = Idle
    /\ ActsAs(u, {"OWNER", "ADMIN"})
    /\ Pending(i)
    /\ Enter(w, phase, u, Anyone, "MEMBER", i, NoRow)
    /\ UNCHANGED <<members, claims, locks, invitations>>

RevokeInvitation(w) ==
    /\ request[w].phase = "withdrawing"
    /\ invitations' = [invitations EXCEPT ![request[w].invitation].status = "REVOKED"]
    /\ Finish(w)
    /\ UNCHANGED <<members, claims>>

ResendInvitation(w) ==
    /\ request[w].phase = "resending"
    /\ invitations' = [invitations EXCEPT ![request[w].invitation].expired = FALSE]
    /\ Finish(w)
    /\ UNCHANGED <<members, claims>>

-----------------------------------------------------------------------------
(* Accepting. *)

\* The checks of the service.
AskToAccept(w, u, i) ==
    /\ request[w] = Idle
    /\ Pending(i) /\ ~invitations[i].expired
    /\ invitations[i].target \in {u, Anyone}
    /\ invitations[i].target = Anyone => invitations[i].role \in {"MEMBER", "VIEWER"}
    /\ ~ActsAs(u, MemberRoles)
    /\ Enter(w, "joining", u, invitations[i].target, invitations[i].role, i, NoRow)
    /\ UNCHANGED <<members, claims, locks, invitations>>

Membership(u) == {m \in Members : members[m] # NoRow /\ members[m].user = u}

\* The first statement of the transaction.
FindMembership(w) ==
    LET u == request[w].actor
    IN  /\ request[w].phase = "joining"
        /\ \/ /\ Membership(u) = {}
              /\ Goto(w, "accepting")
              /\ UNCHANGED locks
           \/ \E m \in Membership(u) :
                 IF members[m].status = "ACTIVE"
                 THEN Finish(w)
                 ELSE /\ request' = [request EXCEPT ![w].phase = "accepting", ![w].member = m]
                      /\ UNCHANGED locks
        /\ UNCHANGED <<members, claims, invitations>>

\* The member becomes active with the invited role, by its id and whatever it is by
\* now, or is created, unless the user has a membership by now.
Joined(r) ==
    IF r.member # NoRow
    THEN {[members EXCEPT ![r.member].role = r.role, ![r.member].status = "ACTIVE",
                          ![r.member].removed = FALSE]}
    ELSE {[members EXCEPT ![m] = [user |-> r.actor, role |-> r.role, status |-> "ACTIVE",
                                  removed |-> FALSE]] :
            m \in {n \in Members : members[n] = NoRow /\ Membership(r.actor) = {}}}

Usable(i) == Pending(i) /\ ~invitations[i].expired

\* A mistake: the invitation is marked by its id alone.
AcceptAnyway(w) ==
    LET r == request[w]
    IN  /\ r.phase = "accepting"
        /\ r.member # NoRow => Free(w, {r.member})
        /\ IF Joined(r) # {}
           THEN /\ members' \in Joined(r)
                /\ invitations' = [invitations EXCEPT ![r.invitation].status = "ACCEPTED",
                                                      ![r.invitation].by = r.actor]
           ELSE UNCHANGED <<members, invitations>>
        /\ Finish(w)
        /\ UNCHANGED claims

\* Both writes, or none when the invitation is no longer pending.
AcceptInvitation(w) ==
    LET r == request[w]
    IN  /\ r.phase = "accepting"
        /\ r.member # NoRow => Free(w, {r.member})
        /\ IF Joined(r) # {} /\ Usable(r.invitation)
           THEN /\ members' \in Joined(r)
                /\ invitations' = [invitations EXCEPT ![r.invitation].status = "ACCEPTED",
                                                      ![r.invitation].by = r.actor]
           ELSE UNCHANGED <<members, invitations>>
        /\ Finish(w)
        /\ UNCHANGED claims

-----------------------------------------------------------------------------

InvitationStep(w) ==
    \/ FindPending(w) \/ RefreshInvitation(w) \/ CreateInvitation(w)
    \/ RevokeInvitation(w) \/ ResendInvitation(w)
    \/ FindMembership(w) \/ AcceptInvitation(w)

InvitationNext ==
    \/ OwnerNext /\ UNCHANGED invitations
    \/ \E w \in Workers :
          \/ \E u \in Users :
                \/ \E target \in Users \cup {Anyone}, role \in Roles : AskToInvite(w, u, target, role)
                \/ \E i \in Invitations :
                      \/ AskAboutPending(w, u, i, "withdrawing")
                      \/ AskAboutPending(w, u, i, "resending")
                      \/ AskToAccept(w, u, i)
          \/ InvitationStep(w)
    \/ \E i \in Invitations : InvitationExpires(i)

InvitationSpec == InvitationInit /\ [][InvitationNext]_invitationVars

-----------------------------------------------------------------------------

\* An invitation lets in one user once, however many open the link, and whatever
\* refresh, resend or revocation runs at the same time (accept: the condition of
\* its last update).
InvitationIsSingleUse ==
    [][\A i \in Invitations :
          invitations[i] # NoRow /\ invitations[i].by # NoUser =>
              invitations'[i].by = invitations[i].by]_invitationVars

\* Nobody comes in, or comes back from a removal, but by an invitation that is pending
\* and has not run out: not even by a restoration that has waited while the member
\* was restored and then removed (accept; restoreMembership leaves removedAt).
JoinsByUsableInvitation ==
    [][\A m \in Members :
          (members[m] = NoRow \/ members[m].removed) /\ IsActive(members'[m]) =>
              \E i \in Invitations :
                  /\ Usable(i)
                  /\ invitations'[i].status = "ACCEPTED"
                  /\ invitations'[i].by = members'[m].user
                  /\ invitations[i].target \in {members'[m].user, Anyone}]_invitationVars

\* "accepted and revoked history remains append-only" (docs/invitations.md).
HistoryIsAppendOnly ==
    [][\A i \in Invitations :
          invitations[i] # NoRow /\ invitations[i].status # "PENDING" =>
              invitations'[i].status = invitations[i].status]_invitationVars
=============================================================================
