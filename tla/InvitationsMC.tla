--------------------------- MODULE InvitationsMC ---------------------------
EXTENDS Invitations, TLC

CONSTANTS m1, m2, m3, u1, u2

Row(u, role, status) == [user |-> u, role |-> role, status |-> status, removed |-> FALSE]

\* An owner, and room for a member.
OneOwner == (m1 :> Row(u1, "OWNER", "ACTIVE")) @@ [m \in Members \ {m1} |-> NoRow]

\* Two owners, one of them archived.
ArchivedOwner == (m1 :> Row(u1, "OWNER", "ACTIVE")) @@ (m2 :> Row(u2, "OWNER", "ARCHIVED"))
                 @@ [m \in Members \ {m1, m2} |-> NoRow]

WorkerSymmetry == Permutations(Workers)
InvitationSymmetry == Permutations(Workers) \cup Permutations(Invitations)
=============================================================================
