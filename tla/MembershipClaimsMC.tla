------------------------- MODULE MembershipClaimsMC -------------------------
EXTENDS MembershipClaims, TLC

CONSTANTS m1, m2, u1

Row(u, role, status) == [user |-> u, role |-> role, status |-> status, removed |-> FALSE]

\* An owner and a member without an account.
OwnerAndMember == (m1 :> Row(u1, "OWNER", "ACTIVE")) @@ (m2 :> Row(NoUser, "MEMBER", "ACTIVE"))

WorkerSymmetry == Permutations(Workers)
ClaimSymmetry == Permutations(Workers) \cup Permutations(Claims) \cup Permutations(Users \ {u1})
=============================================================================
