----------------------- MODULE OrganizationRequestsMC -----------------------
EXTENDS OrganizationRequests, TLC

CONSTANTS u1, a1

\* One user has confirmed the first address, the second comes in later.
OneUser == [u \in Users |-> IF u = u1 THEN [exists |-> TRUE, address |-> a1, verified |-> TRUE]
                                       ELSE NoRow]
OneMail == [a \in Addresses |-> IF a = a1 THEN u1 ELSE NoUser]

RequestSymmetry == Permutations(Workers) \cup Permutations(OrganizationRequests)
                   \cup Permutations(Tokens) \cup Permutations(Passkeys)
=============================================================================
