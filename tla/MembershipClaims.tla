-------------------------- MODULE MembershipClaims --------------------------
(***************************************************************************)
(* How a member without an account gets one: a manager issues a link, a    *)
(* user asks for the membership behind it, a manager approves              *)
(* (membership-claims.repository.ts), while owners remove and archive      *)
(* members.                                                                *)
(***************************************************************************)
EXTENDS Members

ClaimRequests ==
    [phase : {"issuing", "expiring", "claiming", "closing", "approving", "judging", "linking"},
     actor : Users, member : Members, claim : Claims \cup {NoRow}, status : {"REJECTED", "REVOKED"}]

Managers == {"OWNER", "ADMIN"}

Claimable(row) == IsActive(row) /\ row.user = NoUser

Start(w, phase, u, m, c, status) ==
    request' = [request EXCEPT ![w] =
        [phase |-> phase, actor |-> u, member |-> m, claim |-> c, status |-> status]]

-----------------------------------------------------------------------------
(* Issuing a link, or refreshing it. *)

AskForLink(w, u, m) ==
    /\ request[w] = Idle
    /\ ActsAs(u, Managers)
    /\ Claimable(members[m]) /\ members[m].role \in {"MEMBER", "VIEWER"}
    /\ \A c \in OpenClaims(m) : claims[c].status = "PENDING"
    /\ \E c \in (IF OpenClaims(m) = {} THEN {NoRow} ELSE OpenClaims(m)) :
          Start(w, "issuing", u, m, c, "REVOKED")
    /\ UNCHANGED <<members, claims, locks>>

\* By its id, whatever has become of it.
RefreshLink(w) ==
    LET c == request[w].claim
    IN  /\ request[w].phase = "issuing" /\ c # NoRow
        /\ Free(w, {c})
        /\ claims' = [claims EXCEPT ![c].expired = FALSE]
        /\ Finish(w)
        /\ UNCHANGED members

\* A mistake: the index on open claims is missing.
CreateSecondLink(w) ==
    LET m == request[w].member
    IN  /\ request[w].phase = "issuing" /\ request[w].claim = NoRow
        /\ \E c \in Claims :
              /\ claims[c] = NoRow
              /\ claims' = [claims EXCEPT ![c] = [member |-> m, status |-> "PENDING",
                                                  by |-> NoUser, expired |-> FALSE]]
        /\ Finish(w)
        /\ UNCHANGED members

\* The index admits one open claim of a member.  (The ids are a bound of the model:
\* the request fails when none is left.)
CreateLink(w) ==
    LET m == request[w].member
    IN  /\ request[w].phase = "issuing" /\ request[w].claim = NoRow
        /\ IF OpenClaims(m) # {} \/ \A c \in Claims : claims[c] # NoRow
           THEN UNCHANGED claims
           ELSE \E c \in Claims :
                    /\ claims[c] = NoRow
                    /\ claims' = [claims EXCEPT ![c] = [member |-> m, status |-> "PENDING",
                                                        by |-> NoUser, expired |-> FALSE]]
        /\ Finish(w)
        /\ UNCHANGED members

\* Seven days have passed.
LinkExpires(c) ==
    /\ Open(claims[c]) /\ ~claims[c].expired
    /\ claims' = [claims EXCEPT ![c].expired = TRUE]
    /\ UNCHANGED <<members, locks, request>>

-----------------------------------------------------------------------------
(* Asking for the membership. *)

OpenLink(w, u, c) ==
    /\ request[w] = Idle
    /\ claims[c] # NoRow /\ claims[c].status = "PENDING"
    /\ \/ claims[c].expired
       \/ Claimable(members[claims[c].member])
    /\ Start(w, IF claims[c].expired THEN "expiring" ELSE "claiming",
             u, claims[c].member, c, "REVOKED")
    /\ UNCHANGED <<members, claims, locks>>

\* By its id, whatever has become of it; also the end of an approval that came
\* too late.
WriteExpiry(w) ==
    LET c == request[w].claim
    IN  /\ request[w].phase = "expiring"
        /\ Free(w, {c})
        /\ claims' = [claims EXCEPT ![c].status = "EXPIRED"]
        /\ Finish(w)
        /\ UNCHANGED members

\* A mistake: the update is by the id alone.
ClaimAnyLink(w) ==
    LET c == request[w].claim
    IN  /\ request[w].phase = "claiming"
        /\ Free(w, {c})
        /\ claims' = [claims EXCEPT ![c].status = "REQUESTED", ![c].by = request[w].actor]
        /\ Finish(w)
        /\ UNCHANGED members

ClaimLink(w) ==
    LET c == request[w].claim
    IN  /\ request[w].phase = "claiming"
        /\ Free(w, {c})
        /\ claims' = IF claims[c].status = "PENDING" /\ claims[c].by = NoUser
                     THEN [claims EXCEPT ![c].status = "REQUESTED", ![c].by = request[w].actor]
                     ELSE claims
        /\ Finish(w)
        /\ UNCHANGED members

-----------------------------------------------------------------------------
(* The answer of a manager. *)

AskToClose(w, u, c, status) ==
    /\ request[w] = Idle
    /\ ActsAs(u, Managers)
    /\ claims[c] # NoRow
    /\ Start(w, "closing", u, claims[c].member, c, status)
    /\ UNCHANGED <<members, claims, locks>>

CloseClaim(w) ==
    LET c == request[w].claim
        allowed == IF request[w].status = "REJECTED" THEN {"REQUESTED"}
                                                     ELSE {"PENDING", "REQUESTED"}
    IN  /\ request[w].phase = "closing"
        /\ Free(w, {c})
        /\ claims' = IF claims[c].status \in allowed
                     THEN [claims EXCEPT ![c].status = request[w].status]
                     ELSE claims
        /\ Finish(w)
        /\ UNCHANGED members

AskToApprove(w, u, c) ==
    /\ request[w] = Idle
    /\ claims[c] # NoRow
    /\ Start(w, "approving", u, claims[c].member, c, "REVOKED")
    /\ UNCHANGED <<members, claims, locks>>

LockClaim(w) ==
    /\ request[w].phase = "approving"
    /\ Free(w, {request[w].claim})
    /\ locks' = [locks EXCEPT ![w] = {request[w].claim}]
    /\ Goto(w, "judging")
    /\ UNCHANGED <<members, claims>>

HasMembership(u) == \E m \in Members : members[m] # NoRow /\ members[m].user = u

JudgeClaim(w) ==
    LET c == request[w].claim
        row == members[request[w].member]
    IN  /\ request[w].phase = "judging"
        /\ IF ActsAs(request[w].actor, Managers) /\ claims[c].status = "REQUESTED"
              /\ (claims[c].expired \/
                  (/\ Claimable(row) /\ row.role \in {"MEMBER", "VIEWER"}
                   /\ ~HasMembership(claims[c].by)))
           THEN /\ Goto(w, IF claims[c].expired THEN "expiring" ELSE "linking")
                /\ UNCHANGED <<members, claims, locks>>
           ELSE Refuse(w)

\* The unique index admits one membership of a user.
LinkMember(w) ==
    LET c == request[w].claim
        m == request[w].member
    IN  /\ request[w].phase = "linking"
        /\ Free(w, {m})
        /\ IF HasMembership(claims[c].by)
           THEN UNCHANGED <<members, claims>>
           ELSE /\ members' = [members EXCEPT ![m].user = claims[c].by]
                /\ claims' = [claims EXCEPT ![c].status = "APPROVED"]
        /\ Finish(w)

-----------------------------------------------------------------------------

ClaimStep(w) ==
    \/ RefreshLink(w) \/ CreateLink(w)
    \/ WriteExpiry(w) \/ ClaimLink(w)
    \/ CloseClaim(w)
    \/ LockClaim(w) \/ JudgeClaim(w) \/ LinkMember(w)

AskAboutClaims(w) ==
    \E u \in Users :
        \/ \E m \in Members : AskForLink(w, u, m)
        \/ \E c \in Claims :
              \/ OpenLink(w, u, c)
              \/ \E status \in {"REJECTED", "REVOKED"} : AskToClose(w, u, c, status)
              \/ AskToApprove(w, u, c)

ClaimNext ==
    \/ OwnerNext
    \/ \E w \in Workers : AskAboutClaims(w) \/ ClaimStep(w)
    \/ \E c \in Claims : LinkExpires(c)

ClaimSpec == MemberInit /\ [][ClaimNext]_memberVars

-----------------------------------------------------------------------------
(* Who waits for whom. *)

\* The rows the next statement of a request writes or locks.
Wanted(w) ==
    LET r == request[w]
    IN  CASE r.phase = "locking" -> Found(w)
          [] r.phase \in {"writing", "linking"} -> {r.member}
          [] r.phase = "revoking" -> OpenClaims(r.member)
          [] r.phase \in {"issuing", "expiring", "claiming", "closing", "approving"} -> {r.claim}
          [] OTHER -> {}

WaitsFor(w) == {v \in Workers \ {w} : locks[v] \cap Wanted(w) # {}}

\* PostgreSQL ends one of the transactions that wait in a circle.
Deadlocked(w) == \E C \in SUBSET Workers : w \in C /\ \A v \in C : WaitsFor(v) \cap C # {}

EndDeadlock(w) == Deadlocked(w) /\ Abort(w)

\* A request goes on by itself; the queue of a lock is served; what is asked, and
\* whether a process dies, is open.
FairClaimSpec ==
    /\ ClaimSpec
    /\ \A w \in Workers :
          /\ SF_memberVars(OwnerStep(w) \/ ClaimStep(w))
          /\ WF_memberVars(EndDeadlock(w))

-----------------------------------------------------------------------------

ClaimTypeOK ==
    /\ members \in [Members -> MemberRows \cup {NoRow}]
    /\ claims \in [Claims -> ClaimRows \cup {NoRow}]
    /\ locks \in [Workers -> SUBSET (Members \cup Claims)]
    /\ request \in [Workers -> OwnerRequests \cup ClaimRequests \cup {Idle}]

OneOpenClaim ==
    \A c, d \in Claims :
        Open(claims[c]) /\ Open(claims[d]) /\ claims[c].member = claims[d].member => c = d

\* A request names rows that exist, and the claim's member.
RowsExist ==
    \A w \in Workers :
        /\ request[w] \in OwnerRequests /\ request[w].phase \in {"counting", "writing", "revoking"}
           => members[request[w].member] # NoRow
        /\ request[w].phase = "revoking" => request[w].operation \in {"remove", "archive"}

ClaimOfMember ==
    \A w \in Workers :
        request[w] \in ClaimRequests =>
            \/ request[w].phase = "issuing" /\ request[w].claim = NoRow
            \/ /\ request[w].claim \in Claims
               /\ claims[request[w].claim] # NoRow
               /\ claims[request[w].claim].member = request[w].member

\* Who approves holds the claim, which is what it was judged to be, and so is the
\* member.
ApprovalIsCurrent ==
    \A w \in Workers :
        LET r == request[w]
        IN  /\ r.phase \in {"judging", "linking"} => r.claim \in locks[w]
            /\ r.phase = "linking" => /\ claims[r.claim].status = "REQUESTED"
                                      /\ Claimable(members[r.member])
                                      /\ members[r.member].role \in {"MEMBER", "VIEWER"}

\* An elevated role waits only for members with an account.
ElevatedHaveAccounts ==
    \A w \in Workers :
        /\ request[w] \in OwnerRequests /\ request[w].phase \in {"counting", "writing"}
        /\ request[w].operation = "updateRole" /\ request[w].role \in {"OWNER", "ADMIN"}
        => members[request[w].member] # NoRow /\ members[request[w].member].user # NoUser

LinkInv ==
    /\ ClaimTypeOK /\ LocksAreExclusive
    /\ OneOpenClaim /\ RowsExist /\ ClaimOfMember /\ ApprovalIsCurrent /\ ElevatedHaveAccounts

\* Once a member has an account it keeps it: no second link, stale approval or
\* late refresh puts another user into its place (approve, FOR UPDATE; the index on
\* open claims).
LinkIsStable ==
    [][\A m \in Members :
          members[m] # NoRow /\ members[m].user # NoUser =>
              members'[m] # NoRow /\ members'[m].user = members[m].user]_memberVars

\* Who an account is linked to was an active plain member until that moment: a
\* removal or an archival under way either revokes the claim first or comes after
\* (approve, removeMembership, archiveMembership: the two locks).
LinkedMemberIsActive ==
    [][\A m \in Members :
          members[m] # NoRow /\ members'[m] # NoRow /\ members[m].user # members'[m].user =>
              members[m].status = "ACTIVE" /\ members[m].role \in {"MEMBER", "VIEWER"}]_memberVars

\* A claim goes to the user who asked first, as long as it is open: nobody else gets
\* the account (request: the condition of its update).
ClaimantIsStable ==
    [][\A c \in Claims :
          claims[c] # NoRow /\ claims[c].by # NoUser => claims'[c].by = claims[c].by]_memberVars

\* An organization's rows are never locked for good: requests that lock members and
\* claims in opposite orders all end (approve against removeMembership).
RequestsEnd == \A w \in Workers : request[w] # Idle ~> request[w] = Idle

\* "Removing a membership revokes active claims" (docs/manual-members.md).
RemovedMemberHasNoOpenClaim ==
    \A m \in Members :
        members[m] # NoRow /\ members[m].status \in {"REMOVED", "ARCHIVED"} => OpenClaims(m) = {}
=============================================================================
