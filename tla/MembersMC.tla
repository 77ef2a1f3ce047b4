----------------------------- MODULE MembersMC -----------------------------
EXTENDS Members, TLC

CONSTANTS m1, m2, m3, u1, u2, u3

Row(u, role, status) == [user |-> u, role |-> role, status |-> status, removed |-> FALSE]

\* Two owners and a member.
TwoOwners == (m1 :> Row(u1, "OWNER", "ACTIVE")) @@ (m2 :> Row(u2, "OWNER", "ACTIVE"))
             @@ (m3 :> Row(u3, "MEMBER", "ACTIVE"))

WorkerSymmetry == Permutations(Workers)
=============================================================================
