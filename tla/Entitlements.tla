--------------------------- MODULE Entitlements ---------------------------
(***************************************************************************)
(* The single place subscription state turns into permissions              *)
(* (src/packages/shared/src/entitlements.ts).  The entitlements themselves *)
(* only ever come as "all", every one of them, or "read", those to read.   *)
(***************************************************************************)
EXTENDS Naturals

\* deadline 0 is a NULL column.
IsBeforeDeadline(at, deadline) == at < deadline

AccessUntil(deadline, at) ==
    IF IsBeforeDeadline(at, deadline) THEN "all" ELSE "read"

RulesByStatus(row, at) ==
    CASE row.status = "ACTIVE"   -> "all"
      [] row.status = "PENDING"  -> AccessUntil(row.restrictAfter, at)
      [] row.status = "PAST_DUE" -> AccessUntil(row.grace, at)
      [] OTHER                   -> "read"

\* An organization that has a subscription row, with enforcement switched on.
ResolveEntitlements(row, at) ==
    CASE row.exempt                           -> "all"
      [] ~row.exempt /\ row.cancelRequested   -> AccessUntil(row.grace, at)
      [] ~row.exempt /\ ~row.cancelRequested  -> RulesByStatus(row, at)

FullAccess(row, at) == ResolveEntitlements(row, at) = "all"
=============================================================================
