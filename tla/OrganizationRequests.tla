------------------------ MODULE OrganizationRequests ------------------------
(***************************************************************************)
(* Requests for a new organization: users submit them, administrators      *)
(* approve or reject them, they expire by themselves                       *)
(* (organization-requests.service.ts, organization-requests.repository.ts).*)
(* Who may submit depends on the account (Accounts), and a request, even   *)
(* an old one, lets its user sign in.                                      *)
(***************************************************************************)
EXTENDS Accounts

CONSTANTS OrganizationRequests, NoRequest

ASSUME RequestsAssumption == NoRequest \notin OrganizationRequests

VARIABLES requests,            \* organization_requests
          organizations        \* how many organizations each request has founded

requestVars == <<requests, organizations>>
allVars == <<accountVars, requestVars>>

RequestRows ==
    [by : Users \cup {NoUser}, old : BOOLEAN,
     status : {"none", "PENDING", "APPROVED", "REJECTED", "EXPIRED", "deleted"}]

\* A worker may also submit a request or approve one.
Reviews ==
    [step : {"submitting", "approving"}, user : Users \cup {NoUser},
     request : OrganizationRequests \cup {NoRequest}]

RequestsInit ==
    /\ AccountsInit
    /\ requests = [r \in OrganizationRequests |->
                     [by |-> NoUser, old |-> FALSE, status |-> "none"]]
    /\ organizations = [r \in OrganizationRequests |-> 0]

Stored(r) == requests[r].status \notin {"none", "deleted"}

Of(u) == {r \in OrganizationRequests : Stored(r) /\ requests[r].by = u}

ExpireStalePending(scope) ==
    [r \in OrganizationRequests |->
        IF r \in scope /\ requests[r].old /\ requests[r].status = "PENDING"
        THEN [requests[r] EXCEPT !.status = "EXPIRED"] ELSE requests[r]]

FindEligibleRequester(u) ==
    /\ users[u].exists
    /\ \/ u \in TelegramUsers
       \/ users[u].verified /\ Mailboxes(u) # {}

\* What is pending of the user once the stale ones have expired.
Pending(rows, u) == {r \in Of(u) : rows[r].status = "PENDING"}

\* Thirty days have passed.
GrowOld(r) ==
    /\ requests[r].status = "PENDING" /\ ~requests[r].old
    /\ requests' = [requests EXCEPT ![r].old = TRUE]
    /\ UNCHANGED <<accountVars, organizations>>

\* What is listed: the requester's own, one of them, or all of them.
Listings ==
    {OrganizationRequests} \cup {Of(u) : u \in Users} \cup {{r} : r \in OrganizationRequests}

\* Every listing expires first.
ListRequests(scope) ==
    /\ requests' = ExpireStalePending(scope)
    /\ UNCHANGED <<accountVars, organizations>>

AskForOrganization(w, u) ==
    LET expired == ExpireStalePending(Of(u))
    IN  /\ request[w] = Idle /\ users[u].exists
        /\ requests' = expired
        /\ request' = IF Pending(expired, u) = {}
                      THEN [request EXCEPT ![w] = [step |-> "submitting", user |-> u,
                                                   request |-> NoRequest]]
                      ELSE request
        /\ UNCHANGED <<rowVars, organizations>>

\* The rows after a request of the user is stored.
Submitted(rows, r, u) == [rows EXCEPT ![r] = [by |-> u, old |-> FALSE, status |-> "PENDING"]]

\* The index admits one pending request of a user; a refused submission changes nothing.  Nothing
\* more expires: staleBefore is what it was before.
CreateRequest(w) ==
    LET u == request[w].user
    IN  /\ request[w].step = "submitting"
        /\ IF FindEligibleRequester(u) /\ Pending(requests, u) = {}
           THEN \E r \in OrganizationRequests :
                   requests[r].status = "none" /\ requests' = Submitted(requests, r, u)
           ELSE UNCHANGED requests
        /\ Finish(w)
        /\ UNCHANGED <<rowVars, organizations>>

ResubmitExpired(r, u) ==
    LET expired == ExpireStalePending(Of(u))
    IN  /\ r \in Of(u) /\ expired[r].status = "EXPIRED"
        /\ FindEligibleRequester(u) /\ Pending(expired, u) = {}
        /\ \E new \in OrganizationRequests :
              requests[new].status = "none" /\ requests' = Submitted(expired, new, u)
        /\ UNCHANGED <<accountVars, organizations>>

DeleteFromHistory(r) ==
    /\ requests[r].status \in {"EXPIRED", "REJECTED"}
    /\ requests' = [requests EXCEPT ![r] = [by |-> NoUser, old |-> FALSE, status |-> "deleted"]]
    /\ UNCHANGED <<accountVars, organizations>>

\* The administrator's view of the request, which expires it.  What staleBefore was then holds for
\* the approval too: it expires nothing more.
AskToApprove(w, r) ==
    LET expired == ExpireStalePending({r})
    IN  /\ request[w] = Idle /\ Stored(r)
        /\ requests' = expired
        /\ request' = IF expired[r].status = "PENDING"
                      THEN [request EXCEPT ![w] = [step |-> "approving", user |-> NoUser,
                                                   request |-> r]]
                      ELSE request
        /\ UNCHANGED <<rowVars, organizations>>

\* A mistake: the view is trusted.
ApproveAsSeen(w) ==
    LET r == request[w].request
    IN  /\ request[w].step = "approving"
        /\ IF FindEligibleRequester(requests[r].by)
           THEN /\ requests' = [requests EXCEPT ![r].status = "APPROVED"]
                /\ organizations' = [organizations EXCEPT ![r] = @ + 1]
           ELSE UNCHANGED <<requests, organizations>>
        /\ Finish(w)
        /\ UNCHANGED rowVars

Approve(w) ==
    LET r == request[w].request
    IN  /\ request[w].step = "approving"
        /\ IF requests[r].status = "PENDING" /\ FindEligibleRequester(requests[r].by)
           THEN /\ requests' = [requests EXCEPT ![r].status = "APPROVED"]
                /\ organizations' = [organizations EXCEPT ![r] = @ + 1]
           ELSE UNCHANGED <<requests, organizations>>
        /\ Finish(w)
        /\ UNCHANGED rowVars

Reject(r) ==
    LET expired == ExpireStalePending({r})
    IN  /\ requests[r].status = "PENDING"
        /\ requests' = IF expired[r].status = "PENDING"
                       THEN [expired EXCEPT ![r].status = "REJECTED"] ELSE expired
        /\ UNCHANGED <<accountVars, organizations>>

\* hasOrganizationRequest, hasActiveMembership.
HasStandingToSignIn(u) == Of(u) # {}

Standing == {u \in Users : HasStandingToSignIn(u)}

RequestsNext ==
    \/ AccountsNext(Standing) /\ UNCHANGED requestVars
    \/ \E w \in Workers :
          \/ \E u \in Users : AskForOrganization(w, u)
          \/ \E r \in OrganizationRequests : AskToApprove(w, r)
          \/ CreateRequest(w) \/ Approve(w)
    \/ \E r \in OrganizationRequests :
          \/ GrowOld(r) \/ DeleteFromHistory(r) \/ Reject(r)
          \/ \E u \in Users : ResubmitExpired(r, u)
    \/ \E scope \in Listings : ListRequests(scope)

RequestsSpec == RequestsInit /\ [][RequestsNext]_allVars

-----------------------------------------------------------------------------
(* Properties. *)

RequestsTypeOK ==
    /\ AccountsTypeOK
    /\ request \in [Workers -> AccountRequests \cup Reviews]
    /\ requests \in [OrganizationRequests -> RequestRows]
    /\ organizations \in [OrganizationRequests -> Nat]

\* A request founds one organization at most, and what it was decided stays: neither a second
\* administrator nor an approval that began before it expired, and may have been submitted again,
\* changes it (approve, reject, expireStalePending, resubmitExpired, deleteFromHistory).
RequestIsDecidedOnce ==
    [][\A r \in OrganizationRequests :
         /\ requests[r].status \in {"APPROVED", "deleted"} => requests'[r] = requests[r]
         /\ requests[r].status \in {"REJECTED", "EXPIRED"} =>
              requests'[r].status \in {requests[r].status, "deleted"}
         /\ organizations'[r] # organizations[r] =>
              requests[r].status = "PENDING" /\ requests'[r].status = "APPROVED"]_allVars
=============================================================================
