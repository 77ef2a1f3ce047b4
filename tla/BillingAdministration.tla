----------------------- MODULE BillingAdministration -----------------------
(***************************************************************************)
(* What a platform admin does to an organization that reaches its billing  *)
(* (src/apps/api/src/modules/organizations): complimentary access, and the *)
(* status changes that close an organization to its members.               *)
(***************************************************************************)
EXTENDS Billing

CONSTANT AdminOperations  \* what platform admins do in this instance

ASSUME AdminAssumption ==
    AdminOperations \subseteq {"GRANT", "REVOKE", "CLOSE", "RESTORE"}

LiveOrderToStop(row) == IF CanRequestCancellation(row) THEN {row.order} ELSE {}

\* setBillingExemption with a reason.  The row is updated first, so the rest of
\* the transaction works on a row it holds the lock of.
GrantBillingExemption(w) ==
    /\ op[w] = Idle
    /\ sub' = [sub EXCEPT !.exempt = TRUE]
    /\ requests' = QueueUnsubscribe(requests, LiveOrderToStop(sub))
    /\ checkouts' = AbandonProposed(checkouts)
    /\ RowWritten(w)
    /\ Run(w, StoppingAnyOf(LiveOrderToStop(sub)))
    /\ UNCHANGED <<now, log, orgActive, liqPayVars>>

RevokeBillingExemption(w) ==
    /\ op[w] = Idle
    /\ sub' = [sub EXCEPT !.exempt = FALSE]
    /\ RowWritten(w)
    /\ UNCHANGED <<now, checkouts, requests, log, orgActive, op, liqPayVars>>

-----------------------------------------------------------------------------
(* changeStatus: ARCHIVE, SUSPEND and DELETE do the same to the billing.    *)
(* All three are the operation "CLOSE".                                     *)
(* The transaction updates the organization first, so two status changes    *)
(* exclude each other; the subscription it reads without a lock, and writes *)
(* without a condition.                                                     *)

OrganizationLocked == \E w \in Workers : op[w].phase = "changing"

ReadForStatusChange(w) ==
    /\ op[w] = Idle
    /\ ~OrganizationLocked
    /\ Run(w, [phase |-> "changing", now |-> now, seen |-> sub])
    /\ UNCHANGED <<now, rowVars, overtaken, liqPayVars>>

\* A mistake: the whole row is written back as it was read.
CommitStatusChangeOfWholeRow(w) ==
    LET c == op[w]
    IN  /\ c.phase = "changing"
        /\ orgActive' = FALSE
        /\ requests' = QueueUnsubscribe(requests, LiveOrderToStop(c.seen))
        /\ checkouts' = AbandonProposed(checkouts)
        /\ sub' = Merge(c.seen, CancellationTransition(c.seen, c.now))
        /\ RowWritten(w)
        /\ Run(w, StoppingAnyOf(LiveOrderToStop(c.seen)))
        /\ UNCHANGED <<now, log, liqPayVars>>

CommitStatusChange(w) ==
    LET c == op[w]
        stopped == LiveOrderToStop(c.seen)
    IN  /\ c.phase = "changing"
        /\ orgActive' = FALSE
        /\ requests' = QueueUnsubscribe(requests, stopped)
        /\ checkouts' = AbandonProposed(checkouts)
        /\ IF stopped # {}
           THEN sub' = Merge(sub, CancellationTransition(c.seen, c.now)) /\ RowWritten(w)
           ELSE UNCHANGED <<sub, overtaken>>
        /\ Run(w, StoppingAnyOf(stopped))
        /\ UNCHANGED <<now, log, liqPayVars>>

\* A mistake: restoring an organization takes its cancellation back.
RestoreOrganizationAndPlan(w) ==
    /\ op[w] = Idle
    /\ ~OrganizationLocked /\ ~orgActive
    /\ orgActive' = TRUE
    /\ sub' = [sub EXCEPT !.cancelRequested = FALSE]
    /\ UNCHANGED <<now, checkouts, requests, log, op, overtaken, liqPayVars>>

RestoreOrganization(w) ==
    /\ op[w] = Idle
    /\ ~OrganizationLocked /\ ~orgActive
    /\ orgActive' = TRUE
    /\ UNCHANGED <<now, sub, checkouts, requests, log, op, overtaken, liqPayVars>>

-----------------------------------------------------------------------------
AdminArrive(w) ==
    \/ "GRANT" \in AdminOperations /\ GrantBillingExemption(w)
    \/ "REVOKE" \in AdminOperations /\ RevokeBillingExemption(w)
    \/ "CLOSE" \in AdminOperations /\ ReadForStatusChange(w)
    \/ "RESTORE" \in AdminOperations /\ RestoreOrganization(w)

AdminNext ==
    \/ Next
    \/ \E w \in Workers : AdminArrive(w) \/ CommitStatusChange(w)

AdminSpec == Init /\ [][AdminNext]_vars

-----------------------------------------------------------------------------
\* "An organization told it pays nothing must not keep being charged": while it is
\* complimentary its live order, if LiqPay still charges it, is queued to be stopped
\* (organizations.repository.ts:252-253).
ExemptOrganizationIsNotCharged ==
    sub.exempt /\ sub.order # NoOrder /\ recurring[sub.order] = "charging" =>
      requests[sub.order] = "open"
=============================================================================
