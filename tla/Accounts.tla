------------------------------ MODULE Accounts ------------------------------
(***************************************************************************)
(* The accounts of users and the ways into them: sign-in by a mailed link  *)
(* or code, confirmation of an address, the change of the address in the   *)
(* profile, passkeys (email-auth.service.ts, email-auth.repository.ts,     *)
(* users.repository.ts, passkeys.repository.ts).  Each worker serves one   *)
(* request; statements of concurrent transactions interleave as            *)
(* READ COMMITTED lets them.                                               *)
(***************************************************************************)
EXTENDS Naturals, FiniteSets

CONSTANTS Workers,
          Users, NoUser,
          Addresses, NoAddress,
          Tokens, NoToken,
          Passkeys, NoPasskey,
          TelegramUsers,       \* who has a Telegram account
          InitialUsers,        \* the users there are at first, with their rows
          InitialMail,         \* and the email accounts
          MaxAttempts          \* EMAIL_LOGIN_MAX_CODE_ATTEMPTS

ASSUME AccountsAssumption ==
    /\ TelegramUsers \subseteq Users
    /\ NoUser \notin Users /\ NoAddress \notin Addresses
    /\ NoToken \notin Tokens /\ NoPasskey \notin Passkeys
    /\ InitialUsers \in [Users -> [exists : BOOLEAN, address : Addresses \cup {NoAddress},
                                  verified : BOOLEAN]]
    /\ InitialMail \in [Addresses -> Users \cup {NoUser}]
    /\ MaxAttempts \in Nat \ {0}

\* The rows the model starts from are some the program leaves: addresses are unique, a confirmed
\* one has its email account, and whoever exists has a way in.
ASSUME InitialAccountsAssumption ==
    /\ \A u \in Users :
          IF InitialUsers[u].exists
          THEN \/ u \in TelegramUsers
               \/ \E a \in Addresses : InitialMail[a] = u
          ELSE InitialUsers[u].address = NoAddress /\ ~InitialUsers[u].verified
    /\ \A u \in Users :
          InitialUsers[u].verified => \E a \in Addresses :
                                         InitialUsers[u].address = a /\ InitialMail[a] = u
    /\ \A u, v \in Users :
          u # v /\ InitialUsers[u].address # NoAddress =>
              InitialUsers[u].address # InitialUsers[v].address
    /\ \A a \in Addresses :
          InitialMail[a] # NoUser => InitialUsers[InitialMail[a]].address = a

VARIABLES users,               \* the rows: whether it exists, its address, emailVerified
          mail,                \* auth_accounts of the provider email: who has the one of an address
          passkeys,            \* those of the provider passkey
          tokens,              \* email_login_tokens
          sessions,            \* how many sessions each token has opened
          request,             \* what each worker is doing
          overtaken            \* whose sign-in methods two overlapping requests changed

rowVars == <<users, mail, passkeys, tokens, sessions, overtaken>>
accountVars == <<rowVars, request>>

UserRows == [exists : BOOLEAN, address : Addresses \cup {NoAddress}, verified : BOOLEAN]

NoRow == [exists |-> FALSE, address |-> NoAddress, verified |-> FALSE]

TokenRows ==
    [status : {"none", "live", "used", "burnt", "expired"}, purpose : {"sign_in", "verify_email"},
     address : Addresses \cup {NoAddress}, user : Users \cup {NoUser}, attempts : Nat]

NewToken ==
    [status |-> "none", purpose |-> "sign_in", address |-> NoAddress, user |-> NoUser,
     attempts |-> 0]

Idle ==
    [step |-> "idle", user |-> NoUser, token |-> NoToken, address |-> NoAddress,
     passkey |-> NoPasskey]

AccountRequests ==
    [step : {"idle", "consuming", "admitting", "creating", "finding", "confirming", "opening",
             "verifying", "dropping", "moving", "removing"},
     user : Users \cup {NoUser}, token : Tokens \cup {NoToken},
     address : Addresses \cup {NoAddress}, passkey : Passkeys \cup {NoPasskey}]

AccountsInit ==
    /\ users = InitialUsers /\ mail = InitialMail
    /\ passkeys = [u \in Users |-> {}]
    /\ tokens = [t \in Tokens |-> NewToken]
    /\ sessions = [t \in Tokens |-> 0]
    /\ request = [w \in Workers |-> Idle]
    /\ overtaken = {}

Holders(a) == {u \in Users : users[u].exists /\ users[u].address = a}

Mailboxes(u) == {a \in Addresses : mail[a] = u}

HasMethod(u) == Mailboxes(u) # {} \/ passkeys[u] # {} \/ u \in TelegramUsers

Methods(u) ==
    Cardinality(Mailboxes(u)) + Cardinality(passkeys[u]) + (IF u \in TelegramUsers THEN 1 ELSE 0)

Goto(w, step) == request' = [request EXCEPT ![w].step = step]
Finish(w) == request' = [request EXCEPT ![w] = Idle]

\* A change of the profile has deleted the email accounts of its user and not committed yet: who
\* writes those of the address waits.
Free(a) ==
    \A w \in Workers : request[w].step = "moving" => a \notin Mailboxes(request[w].user)

\* Other requests of the user that have read what this step changes.
Others(w, u, steps) == \E v \in Workers \ {w} : request[v].step \in steps /\ request[v].user = u

Overtake(w, u, steps) ==
    overtaken' = IF Others(w, u, steps) THEN overtaken \cup {u} ELSE overtaken

Removals == {"dropping", "moving", "removing"}

-----------------------------------------------------------------------------
(* Tokens. *)

IssueToken(t, purpose, a, u) ==
    /\ tokens[t].status = "none"
    /\ tokens' = [tokens EXCEPT ![t] = [NewToken EXCEPT !.status = "live", !.purpose = purpose,
                                                        !.address = a, !.user = u]]
    /\ UNCHANGED <<users, mail, passkeys, sessions, request, overtaken>>

\* Somebody asks for a link to an address that may sign in, or will if its redirect admits it.
RequestSignIn(t, a, admitting, standing) ==
    /\ admitting \/ Holders(a) \cap standing # {}
    /\ IssueToken(t, "sign_in", a, NoUser)

RequestEmailVerification(t, u) ==
    /\ users[u].exists /\ users[u].address # NoAddress /\ ~users[u].verified
    /\ IssueToken(t, "verify_email", users[u].address, u)

Live(t, purpose) == tokens[t].status = "live" /\ tokens[t].purpose = purpose

\* A quarter of an hour has passed.
TokenExpires(t) ==
    /\ tokens[t].status = "live"
    /\ \A w \in Workers : request[w].step = "verifying" => request[w].token # t
    /\ tokens' = [tokens EXCEPT ![t].status = "expired"]
    /\ UNCHANGED <<users, mail, passkeys, sessions, request, overtaken>>

\* One statement counts a wrong code against every live token of the address and burns those that
\* reach the limit.
RecordFailedCodeAttempts(a) ==
    LET counts(t) == Live(t, "sign_in") /\ tokens[t].address = a
        count(t) == tokens[t].attempts + 1
    IN  /\ \E t \in Tokens : counts(t)
        /\ tokens' = [t \in Tokens |->
                         IF counts(t)
                         THEN [status |-> IF count(t) >= MaxAttempts THEN "burnt" ELSE "live",
                               purpose |-> "sign_in", address |-> a, user |-> tokens[t].user,
                               attempts |-> count(t)]
                         ELSE tokens[t]]
        /\ UNCHANGED <<users, mail, passkeys, sessions, request, overtaken>>

-----------------------------------------------------------------------------
(* Sign-in by a mailed link or code. *)

ConsumeSignInTokenByHash(w, t) ==
    /\ request[w] = Idle /\ Live(t, "sign_in")
    /\ tokens' = [tokens EXCEPT ![t].status = "used"]
    /\ request' = [request EXCEPT ![w] = [Idle EXCEPT !.step = "admitting", !.token = t,
                                                      !.address = tokens[t].address]]
    /\ UNCHANGED <<users, mail, passkeys, sessions, overtaken>>

\* The code matches one of the live tokens that were loaded.
MatchSignInToken(w, t) ==
    /\ request[w] = Idle /\ Live(t, "sign_in")
    /\ request' = [request EXCEPT ![w] = [Idle EXCEPT !.step = "consuming", !.token = t,
                                                      !.address = tokens[t].address]]
    /\ UNCHANGED rowVars

\* A mistake: the token that was loaded is taken as it was.
ConsumeMatchedToken(w) ==
    LET t == request[w].token
    IN  /\ request[w].step = "consuming"
        /\ tokens' = [tokens EXCEPT ![t].status = "used"]
        /\ Goto(w, "admitting")
        /\ UNCHANGED <<users, mail, passkeys, sessions, overtaken>>

ConsumeSignInTokenById(w) ==
    LET t == request[w].token
    IN  /\ request[w].step = "consuming"
        /\ IF tokens[t].status = "live"
           THEN tokens' = [tokens EXCEPT ![t].status = "used"] /\ Goto(w, "admitting")
           ELSE UNCHANGED tokens /\ Finish(w)
        /\ UNCHANGED <<users, mail, passkeys, sessions, overtaken>>

\* The account of an address as it is read: who holds it, and whether that is confirmed.
Continue(w, u) ==
    request' = [request EXCEPT ![w].user = u,
                               ![w].step = IF users[u].verified THEN "opening" ELSE "confirming"]

\* Admission is decided again: by the redirect, or the standing of the account.
ResolveAdmission(w, admitting, standing) ==
    LET held == Holders(request[w].address)
    IN  /\ request[w].step = "admitting"
        /\ CASE held = {} /\ admitting -> Goto(w, "creating")
             [] held # {} /\ (admitting \/ held \cap standing # {}) -> \E u \in held : Continue(w, u)
             [] OTHER -> Finish(w)
        /\ UNCHANGED rowVars

\* The user and its email account are created together.  Who finds the address taken goes on with
\* that user; an account another user has left on the address fails the request.  (The users are a
\* bound of the model: the request also fails when none is left.)
CreateAdmittedEmailUser(w) ==
    LET a == request[w].address
        new == {u \in Users : ~users[u].exists}
    IN  /\ request[w].step = "creating" /\ Free(a)
        /\ IF Holders(a) # {}
           THEN Goto(w, "finding") /\ UNCHANGED <<users, mail>>
           ELSE IF mail[a] # NoUser \/ new = {}
           THEN Finish(w) /\ UNCHANGED <<users, mail>>
           ELSE /\ \E u \in new :
                      /\ users' = [users EXCEPT ![u] = [exists |-> TRUE, address |-> a,
                                                        verified |-> TRUE]]
                      /\ mail' = [mail EXCEPT ![a] = u]
                /\ Goto(w, "finding")
        /\ UNCHANGED <<passkeys, tokens, sessions, overtaken>>

FindCreatedAccount(w) ==
    LET held == Holders(request[w].address)
    IN  /\ request[w].step = "finding"
        /\ IF held = {} THEN Finish(w) ELSE \E u \in held : Continue(w, u)
        /\ UNCHANGED rowVars

\* A mistake: the address is confirmed for the user who held it.
ConfirmUser(w) ==
    LET u == request[w].user
        a == request[w].address
    IN  /\ request[w].step = "confirming" /\ Free(a)
        /\ users' = [users EXCEPT ![u].verified = TRUE]
        /\ mail' = [mail EXCEPT ![a] = u]
        /\ Overtake(w, u, {"moving"})
        /\ Goto(w, "opening")
        /\ UNCHANGED <<passkeys, tokens, sessions>>

\* One update that depends on the address; an account left on it is replaced.
ConfirmEmailIdentity(w) ==
    LET u == request[w].user
        a == request[w].address
    IN  /\ request[w].step = "confirming" /\ Free(a)
        /\ IF users[u].address = a
           THEN /\ users' = [users EXCEPT ![u].verified = TRUE]
                /\ mail' = [mail EXCEPT ![a] = u]
                /\ Overtake(w, u, {"moving"})
           ELSE UNCHANGED <<users, mail, overtaken>>
        /\ Goto(w, "opening")
        /\ UNCHANGED <<passkeys, tokens, sessions>>

CreateUserSession(w) ==
    /\ request[w].step = "opening"
    /\ sessions' = [sessions EXCEPT ![request[w].token] = @ + 1]
    /\ Finish(w)
    /\ UNCHANGED <<users, mail, passkeys, tokens, overtaken>>

-----------------------------------------------------------------------------
(* Confirmation of an address from the profile: one transaction. *)

\* The token is consumed, which others wait for, and the user is looked up.
FindVerifiedUser(w, t) ==
    LET u == tokens[t].user
    IN  /\ request[w] = Idle /\ Live(t, "verify_email")
        /\ \A v \in Workers : request[v].step = "verifying" => request[v].token # t
        /\ IF users[u].address = tokens[t].address
           THEN /\ request' = [request EXCEPT ![w] = [Idle EXCEPT !.step = "verifying", !.token = t,
                                                                  !.user = u,
                                                                  !.address = tokens[t].address]]
                /\ UNCHANGED tokens
           ELSE tokens' = [tokens EXCEPT ![t].status = "used"] /\ UNCHANGED request
        /\ UNCHANGED <<users, mail, passkeys, sessions, overtaken>>

\* The update is by the id of the user; the email account goes to it whoever has it by then.
ConsumeVerificationToken(w) ==
    LET u == request[w].user
        a == request[w].address
    IN  /\ request[w].step = "verifying" /\ Free(a)
        /\ tokens' = [tokens EXCEPT ![request[w].token].status = "used"]
        /\ users' = [users EXCEPT ![u].verified = TRUE]
        /\ mail' = [mail EXCEPT ![a] = u]
        /\ overtaken' = overtaken \cup (IF Others(w, u, {"moving"}) THEN {u} ELSE {})
                                 \cup (IF users[u].address # a THEN {mail[a]} \ {NoUser} ELSE {})
        /\ Finish(w)
        /\ UNCHANGED <<passkeys, sessions>>

-----------------------------------------------------------------------------
(* The profile's address, one transaction, and passkeys. *)

\* The only way back in is not given up.
UpdateProfile(w, u, a) ==
    /\ request[w] = Idle /\ users[u].exists /\ users[u].address # a
    /\ Mailboxes(u) = {} \/ passkeys[u] # {} \/ u \in TelegramUsers
    /\ request' = [request EXCEPT ![w] = [Idle EXCEPT !.step = "dropping", !.user = u,
                                                      !.address = a]]
    /\ UNCHANGED rowVars

DropEmailAccounts(w) ==
    /\ request[w].step = "dropping"
    /\ \A a \in Mailboxes(request[w].user) : Free(a)
    /\ Goto(w, "moving")
    /\ UNCHANGED rowVars

\* The address is unique: a request for one that is taken is rolled back.
MoveAddress(w) ==
    LET u == request[w].user
        a == request[w].address
    IN  /\ request[w].step = "moving"
        /\ IF a # NoAddress /\ Holders(a) \ {u} # {}
           THEN UNCHANGED <<users, mail, overtaken>>
           ELSE /\ users' = [users EXCEPT ![u].address = a, ![u].verified = FALSE]
                /\ mail' = [b \in Addresses |-> IF mail[b] = u THEN NoUser ELSE mail[b]]
                /\ Overtake(w, u, Removals \cup {"verifying"})
        /\ Finish(w)
        /\ UNCHANGED <<passkeys, tokens, sessions>>

CreatePasskey(u, k) ==
    /\ users[u].exists
    /\ \A v \in Users : k \notin passkeys[v]
    /\ passkeys' = [passkeys EXCEPT ![u] = @ \cup {k}]
    /\ UNCHANGED <<users, mail, tokens, sessions, request, overtaken>>

\* A mistake: the methods are not counted.
AskToRemove(w, u, k) ==
    /\ request[w] = Idle /\ k \in passkeys[u]
    /\ request' = [request EXCEPT ![w] = [Idle EXCEPT !.step = "removing", !.user = u,
                                                      !.passkey = k]]
    /\ UNCHANGED rowVars

CountMethods(w, u, k) ==
    /\ request[w] = Idle /\ k \in passkeys[u]
    /\ Methods(u) > 1
    /\ request' = [request EXCEPT ![w] = [Idle EXCEPT !.step = "removing", !.user = u,
                                                      !.passkey = k]]
    /\ UNCHANGED rowVars

DeleteUnlessLastSignInMethod(w) ==
    LET u == request[w].user
    IN  /\ request[w].step = "removing"
        /\ passkeys' = [passkeys EXCEPT ![u] = @ \ {request[w].passkey}]
        /\ Overtake(w, u, Removals)
        /\ Finish(w)
        /\ UNCHANGED <<users, mail, tokens, sessions>>

-----------------------------------------------------------------------------

\* The process dies, or a statement fails: the transaction under way is rolled back.
Die(w) ==
    /\ request[w].step # "idle"
    /\ Finish(w)
    /\ UNCHANGED rowVars

\* standing is who may sign in whatever the redirect.
SignInStep(w, standing) ==
    \/ \E t \in Tokens : ConsumeSignInTokenByHash(w, t) \/ MatchSignInToken(w, t)
    \/ ConsumeSignInTokenById(w)
    \/ \E admitting \in BOOLEAN : ResolveAdmission(w, admitting, standing)
    \/ CreateAdmittedEmailUser(w) \/ FindCreatedAccount(w)
    \/ ConfirmEmailIdentity(w) \/ CreateUserSession(w)

ProfileStep(w) ==
    \/ \E t \in Tokens : FindVerifiedUser(w, t)
    \/ ConsumeVerificationToken(w)
    \/ \E u \in Users, a \in Addresses \cup {NoAddress} : UpdateProfile(w, u, a)
    \/ DropEmailAccounts(w) \/ MoveAddress(w)
    \/ \E u \in Users, k \in Passkeys : CountMethods(w, u, k)
    \/ DeleteUnlessLastSignInMethod(w)

AccountsNext(standing) ==
    \/ \E w \in Workers : SignInStep(w, standing) \/ ProfileStep(w) \/ Die(w)
    \/ \E t \in Tokens :
          \/ \E a \in Addresses, admitting \in BOOLEAN : RequestSignIn(t, a, admitting, standing)
          \/ \E u \in Users : RequestEmailVerification(t, u)
          \/ TokenExpires(t)
    \/ \E a \in Addresses : RecordFailedCodeAttempts(a)
    \/ \E u \in Users, k \in Passkeys : CreatePasskey(u, k)

-----------------------------------------------------------------------------
(* Properties. *)

AccountsTypeOK ==
    /\ users \in [Users -> UserRows]
    /\ mail \in [Addresses -> Users \cup {NoUser}]
    /\ passkeys \in [Users -> SUBSET Passkeys]
    /\ tokens \in [Tokens -> TokenRows]
    /\ sessions \in [Tokens -> Nat]
    /\ overtaken \in SUBSET Users

\* A mailed token signs in once: its link and its code may be redeemed at the same moment, a code
\* may be checked while others burn it (consumeSignInTokenByHash, consumeSignInTokenById,
\* recordFailedCodeAttempts).
TokenIsUsedOnce ==
    \A t \in Tokens : sessions[t] <= (IF tokens[t].status = "used" THEN 1 ELSE 0)

\* A confirmed address is the one whose email account the user has, whatever sign-ins and changes
\* of the profile come together (confirmEmailIdentity, updateProfile).  Only a verification link
\* that is redeemed across a change of the address breaks that.
VerifiedAddressIsOwned ==
    \A u \in Users \ overtaken :
        users[u].verified => users[u].address # NoAddress /\ mail[users[u].address] = u

\* Nobody loses the last sign-in method, as long as no two requests take one of the same user at
\* once (updateProfile, deleteUnlessLastSignInMethod).
SignInMethodRemains == \A u \in Users \ overtaken : users[u].exists => HasMethod(u)

\* "two removals racing each see the same stale count and between them take the last way back
\* into the account" is what one transaction is to rule out (passkeys.repository.ts).
SomeSignInMethod == \A u \in Users : users[u].exists => HasMethod(u)
=============================================================================
