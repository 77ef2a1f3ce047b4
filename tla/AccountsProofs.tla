--------------------------- MODULE AccountsProofs ---------------------------
(***************************************************************************)
(* For any number of users, tokens, requests and workers: a mailed token   *)
(* signs in once, a confirmed address was confirmed by its user, no user   *)
(* loses the last way to sign in, and a request for an organization is     *)
(* decided once.                                                           *)
(***************************************************************************)
EXTENDS OrganizationRequests, FiniteSetTheorems, TLAPS

\* The steps of a sign-in once its token is consumed.
Redeeming == {"admitting", "creating", "finding", "confirming", "opening"}

Redeems(w, t) == request[w].step \in Redeeming /\ request[w].token = t

\* The token of a sign-in under way is used up, has opened no session yet, and is no other's.
RedeemedOnce ==
    \A t \in Tokens, w \in Workers :
        Redeems(w, t) => /\ tokens[t].status = "used" /\ sessions[t] = 0
                         /\ \A v \in Workers : Redeems(v, t) => v = w

\* A request names what its step works on.
StepsAreNamed ==
    \A w \in Workers :
        /\ request[w].step \in Redeeming \cup {"consuming", "verifying"} =>
              request[w].token \in Tokens
        /\ request[w].step \in {"consuming", "admitting", "creating", "finding", "confirming",
                                "verifying"} => request[w].address \in Addresses
        /\ request[w].step \in {"confirming", "opening", "verifying", "dropping", "moving",
                                "removing", "submitting"} => request[w].user \in Users
        /\ request[w].step = "approving" => request[w].request \in OrganizationRequests

\* What is live has been issued: to an address, a verification to a user.
TokensAreAddressed ==
    \A t \in Tokens :
        tokens[t].status # "none" =>
            /\ tokens[t].address \in Addresses
            /\ tokens[t].purpose = "verify_email" => tokens[t].user \in Users

\* The transaction that confirms an address holds its token.
VerifyingIsLive ==
    \A w \in Workers :
        request[w].step = "verifying" => /\ tokens[request[w].token].status = "live"
                                         /\ tokens[request[w].token].purpose = "verify_email"
                                         /\ \A v \in Workers : v # w /\ request[v].step = "verifying"
                                               => request[v].token # request[w].token

\* A token that was matched with a code is one of sign-in.
MatchedIsSignIn ==
    \A w \in Workers :
        request[w].step = "consuming" => /\ tokens[request[w].token].status # "none"
                                         /\ tokens[request[w].token].purpose = "sign_in"

TokenInv ==
    /\ RequestsTypeOK /\ StepsAreNamed /\ TokensAreAddressed
    /\ VerifyingIsLive /\ MatchedIsSignIn
    /\ RedeemedOnce /\ TokenIsUsedOnce

LEMMA TokenInit == RequestsInit => TokenInv
<1> SUFFICES ASSUME RequestsInit PROVE TokenInv
  OBVIOUS
<1>1. \A w \in Workers : request[w] = Idle /\ request[w].step = "idle"
  BY DEF RequestsInit, AccountsInit, Idle
<1>2. \A t \in Tokens : tokens[t].status = "none" /\ sessions[t] = 0
  BY DEF RequestsInit, AccountsInit, NewToken
<1>3. RequestsTypeOK
  <2>1. NewToken \in TokenRows /\ Idle \in AccountRequests
    BY DEF NewToken, TokenRows, Idle, AccountRequests
  <2>2. AccountsTypeOK
    BY <2>1, AccountsAssumption DEF RequestsInit, AccountsInit, AccountsTypeOK, UserRows
  <2> QED
    BY <2>1, <2>2 DEF RequestsInit, AccountsInit, RequestsTypeOK, RequestRows
<1> QED
  BY <1>1, <1>2, <1>3 DEF TokenInv, StepsAreNamed, TokensAreAddressed, RedeemedOnce, Redeems,
     Redeeming, TokenIsUsedOnce, VerifyingIsLive, MatchedIsSignIn

\* The request rows after a step.
RequestIsTyped == StepsAreNamed' /\ request' \in [Workers -> AccountRequests \cup Reviews]

\* A step that changes the request of one worker, and whatever types allow of the rows.
LEMMA OneWorker ==
    ASSUME TokenInv, NEW w \in Workers, NEW r \in AccountRequests \cup Reviews,
           request' = [request EXCEPT ![w] = r],
           r.step \in Redeeming \cup {"consuming", "verifying"} => r.token \in Tokens,
           r.step \in {"consuming", "admitting", "creating", "finding", "confirming",
                      "verifying"} => r.address \in Addresses,
           r.step \in {"confirming", "opening", "verifying", "dropping", "moving",
                      "removing", "submitting"} => r.user \in Users,
           r.step = "approving" => r.request \in OrganizationRequests
    PROVE  RequestIsTyped
<1>1. request \in [Workers -> AccountRequests \cup Reviews]
  BY DEF TokenInv, RequestsTypeOK
<1>2. \A v \in Workers : request'[v] = IF v = w THEN r ELSE request[v]
  BY <1>1
<1>3. StepsAreNamed'
  BY <1>2 DEF TokenInv, StepsAreNamed
<1> QED
  BY <1>1, <1>3 DEF RequestIsTyped

LEMMA FinishIsNamed ==
    ASSUME TokenInv, NEW w \in Workers, Finish(w)
    PROVE  RequestIsTyped
<1>1. Idle \in AccountRequests /\ Idle.step = "idle"
  BY DEF Idle, AccountRequests
<1> QED
  BY <1>1, OneWorker DEF Finish, Redeeming, RequestIsTyped

\* The row of a request that has begun and goes on.
LEMMA GotoIsNamed ==
    ASSUME TokenInv, NEW w \in Workers, NEW step,
           <<request[w].step, step>> \in
              {<<"consuming", "admitting">>, <<"admitting", "creating">>, <<"creating", "finding">>,
               <<"confirming", "opening">>, <<"dropping", "moving">>},
           Goto(w, step)
    PROVE  RequestIsTyped
<1> DEFINE r == [request[w] EXCEPT !.step = step]
<1>1. request[w] \in AccountRequests
  BY DEF TokenInv, RequestsTypeOK, Reviews
<1>2. r \in AccountRequests /\ r.step = step /\ r.token = request[w].token
      /\ r.address = request[w].address /\ r.user = request[w].user
  BY <1>1 DEF AccountRequests
<1>3. request' = [request EXCEPT ![w] = r]
  BY DEF Goto
<1> HIDE DEF r
<1> QED
  BY <1>2, <1>3, OneWorker DEF TokenInv, StepsAreNamed, Redeeming

LEMMA ContinueIsNamed ==
    ASSUME TokenInv, NEW w \in Workers, NEW u \in Users, Continue(w, u),
           request[w].step \in {"admitting", "finding"}
    PROVE  RequestIsTyped
<1> DEFINE r == [request[w] EXCEPT !.user = u,
                                   !.step = IF users[u].verified THEN "opening" ELSE "confirming"]
<1>1. request[w] \in AccountRequests
  BY DEF TokenInv, RequestsTypeOK, Reviews
<1>2. r \in AccountRequests /\ r.step \in {"opening", "confirming"} /\ r.token = request[w].token
      /\ r.address = request[w].address /\ r.user = u
  BY <1>1 DEF AccountRequests
<1>3. request' = [request EXCEPT ![w] = r]
  BY DEF Continue
<1> HIDE DEF r
<1> QED
  BY <1>2, <1>3, OneWorker DEF TokenInv, StepsAreNamed, Redeeming

\* What a step leaves as it should be, apart from the requests for organizations.
Typed == AccountsTypeOK' /\ TokensAreAddressed' /\ RequestIsTyped

LEMMA UnchangedIsTyped ==
    ASSUME TokenInv, UNCHANGED rowVars, RequestIsTyped PROVE Typed
<1>1. UNCHANGED <<users, mail, passkeys, tokens, sessions, overtaken>>
  BY DEF rowVars
<1> QED
  BY <1>1 DEF Typed, TokenInv, RequestsTypeOK, AccountsTypeOK, TokensAreAddressed

\* A token changes its status only.
LEMMA StatusIsTyped ==
    ASSUME TokenInv, NEW t \in Tokens, NEW status \in {"live", "used", "burnt", "expired"},
           tokens[t].status # "none", tokens' = [tokens EXCEPT ![t].status = status]
    PROVE  tokens' \in [Tokens -> TokenRows] /\ TokensAreAddressed'
<1>1. tokens \in [Tokens -> TokenRows]
  BY DEF TokenInv, RequestsTypeOK, AccountsTypeOK
<1>2. \A x \in Tokens : /\ tokens'[x].purpose = tokens[x].purpose
                         /\ tokens'[x].address = tokens[x].address
                         /\ tokens'[x].user = tokens[x].user
                         /\ tokens'[x].status # "none" => tokens[x].status # "none"
  BY <1>1 DEF TokenRows
<1>3. tokens' \in [Tokens -> TokenRows]
  BY <1>1 DEF TokenRows
<1> QED
  BY <1>2, <1>3 DEF TokenInv, TokensAreAddressed

LEMMA VerifiedIsTyped ==
    ASSUME users \in [Users -> UserRows], NEW u \in Users,
           users' = [users EXCEPT ![u].verified = TRUE]
    PROVE  users' \in [Users -> UserRows]
<1>1. [users[u] EXCEPT !.verified = TRUE] \in UserRows
  BY DEF UserRows
<1> QED
  BY <1>1

LEMMA MovedIsTyped ==
    ASSUME users \in [Users -> UserRows], NEW u \in Users, NEW a \in Addresses \cup {NoAddress},
           users' = [users EXCEPT ![u].address = a, ![u].verified = FALSE]
    PROVE  users' \in [Users -> UserRows]
<1>1. users[u] \in UserRows
  OBVIOUS
<1>2. [users[u] EXCEPT !.address = a, !.verified = FALSE] \in UserRows
  BY <1>1 DEF UserRows
<1>3. users' = [users EXCEPT ![u] = [users[u] EXCEPT !.address = a, !.verified = FALSE]]
  <2>1. users[u] = [exists |-> users[u].exists, address |-> users[u].address,
                    verified |-> users[u].verified]
    BY <1>1 DEF UserRows
  <2> QED
    BY <2>1
<1> QED
  BY <1>2, <1>3

LEMMA SignInTypes ==
    ASSUME TokenInv, NEW w \in Workers, NEW standing, SignInStep(w, standing) PROVE Typed
<1> USE DEF TokenInv, RequestsTypeOK, AccountsTypeOK
<1>1. ASSUME NEW t \in Tokens, ConsumeSignInTokenByHash(w, t) \/ MatchSignInToken(w, t) PROVE Typed
  <2> DEFINE r(step) == [Idle EXCEPT !.step = step, !.token = t, !.address = tokens[t].address]
  <2>1. Live(t, "sign_in") /\ tokens[t].address \in Addresses
    BY <1>1 DEF ConsumeSignInTokenByHash, MatchSignInToken, Live, TokensAreAddressed
  <2>2. \A step \in {"admitting", "consuming"} :
           /\ r(step) \in AccountRequests /\ r(step).step = step /\ r(step).token = t
           /\ r(step).address \in Addresses
    BY <2>1 DEF Idle, AccountRequests
  <2>3. \E step \in {"admitting", "consuming"} : request' = [request EXCEPT ![w] = r(step)]
    BY <1>1 DEF ConsumeSignInTokenByHash, MatchSignInToken
  <2> HIDE DEF r
  <2>4. RequestIsTyped
    BY <2>2, <2>3, OneWorker DEF Redeeming
  <2>5. CASE ConsumeSignInTokenByHash(w, t)
    BY <2>1, <2>4, <2>5, StatusIsTyped DEF ConsumeSignInTokenByHash, Live, Typed
  <2>6. CASE MatchSignInToken(w, t)
    BY <2>4, <2>6, UnchangedIsTyped DEF MatchSignInToken, rowVars
  <2> QED
    BY <1>1, <2>5, <2>6
<1>2. CASE ConsumeSignInTokenById(w)
  <2> DEFINE t == request[w].token
  <2>1. t \in Tokens
    BY <1>2 DEF ConsumeSignInTokenById, StepsAreNamed
  <2>2. RequestIsTyped
    BY <1>2, GotoIsNamed, FinishIsNamed DEF ConsumeSignInTokenById
  <2>3. CASE tokens[t].status = "live"
    BY <1>2, <2>1, <2>2, <2>3, StatusIsTyped DEF ConsumeSignInTokenById, Typed
  <2>4. CASE tokens[t].status # "live"
    BY <1>2, <2>2, <2>4, UnchangedIsTyped DEF ConsumeSignInTokenById, rowVars
  <2> QED
    BY <2>3, <2>4
<1>3. ASSUME NEW admitting \in BOOLEAN, ResolveAdmission(w, admitting, standing) PROVE Typed
  <2>1. RequestIsTyped
    BY <1>3, GotoIsNamed, FinishIsNamed, ContinueIsNamed DEF ResolveAdmission, Holders
  <2> QED
    BY <1>3, <2>1, UnchangedIsTyped DEF ResolveAdmission
<1>4. CASE CreateAdmittedEmailUser(w)
  <2>1. RequestIsTyped
    BY <1>4, GotoIsNamed, FinishIsNamed DEF CreateAdmittedEmailUser
  <2>2. request[w].address \in Addresses
    BY <1>4 DEF CreateAdmittedEmailUser, StepsAreNamed
  <2>3. [exists |-> TRUE, address |-> request[w].address, verified |-> TRUE] \in UserRows
    BY <2>2 DEF UserRows
  <2>4. users' \in [Users -> UserRows]
    BY <1>4, <2>3 DEF CreateAdmittedEmailUser
  <2>5. mail' \in [Addresses -> Users \cup {NoUser}]
    BY <1>4, <2>2 DEF CreateAdmittedEmailUser
  <2> QED
    BY <1>4, <2>1, <2>4, <2>5 DEF CreateAdmittedEmailUser, Typed, TokensAreAddressed
<1>5. CASE FindCreatedAccount(w)
  <2>1. RequestIsTyped
    BY <1>5, FinishIsNamed, ContinueIsNamed DEF FindCreatedAccount, Holders
  <2> QED
    BY <1>5, <2>1, UnchangedIsTyped DEF FindCreatedAccount
<1>6. CASE ConfirmEmailIdentity(w)
  <2>1. RequestIsTyped
    BY <1>6, GotoIsNamed DEF ConfirmEmailIdentity
  <2>2. request[w].address \in Addresses /\ request[w].user \in Users
    BY <1>6 DEF ConfirmEmailIdentity, StepsAreNamed
  <2>3. users' \in [Users -> UserRows] /\ mail' \in [Addresses -> Users \cup {NoUser}]
    BY <1>6, <2>2, VerifiedIsTyped DEF ConfirmEmailIdentity
  <2>4. overtaken' \in SUBSET Users
    BY <1>6, <2>2 DEF ConfirmEmailIdentity, Overtake
  <2> QED
    BY <1>6, <2>1, <2>3, <2>4 DEF ConfirmEmailIdentity, Typed, TokensAreAddressed
<1>7. CASE CreateUserSession(w)
  <2>1. RequestIsTyped
    BY <1>7, FinishIsNamed DEF CreateUserSession
  <2>2. request[w].token \in Tokens
    BY <1>7 DEF CreateUserSession, StepsAreNamed, Redeeming
  <2>3. sessions' \in [Tokens -> Nat]
    BY <1>7, <2>2 DEF CreateUserSession
  <2> QED
    BY <1>7, <2>1, <2>3 DEF CreateUserSession, Typed, TokensAreAddressed
<1> QED
  BY <1>1, <1>2, <1>3, <1>4, <1>5, <1>6, <1>7 DEF SignInStep

LEMMA ProfileTypes ==
    ASSUME TokenInv, NEW w \in Workers, ProfileStep(w) PROVE Typed
<1> USE DEF TokenInv, RequestsTypeOK, AccountsTypeOK
<1>1. ASSUME NEW t \in Tokens, FindVerifiedUser(w, t) PROVE Typed
  <2> DEFINE r == [Idle EXCEPT !.step = "verifying", !.token = t, !.user = tokens[t].user,
                               !.address = tokens[t].address]
  <2>1. tokens[t].address \in Addresses /\ tokens[t].user \in Users /\ tokens[t].status # "none"
    BY <1>1 DEF FindVerifiedUser, Live, TokensAreAddressed
  <2>2. CASE users[tokens[t].user].address = tokens[t].address
    <3>1. r \in AccountRequests /\ r.step = "verifying" /\ r.token = t /\ r.user \in Users
          /\ r.address \in Addresses
      BY <2>1 DEF Idle, AccountRequests
    <3>2. request' = [request EXCEPT ![w] = r]
      BY <1>1, <2>2 DEF FindVerifiedUser
    <3> HIDE DEF r
    <3>3. RequestIsTyped
      BY <3>1, <3>2, OneWorker DEF Redeeming
    <3> QED
      BY <1>1, <2>2, <3>3, UnchangedIsTyped DEF FindVerifiedUser, rowVars
  <2>3. CASE users[tokens[t].user].address # tokens[t].address
    <3>1. RequestIsTyped
      BY <1>1, <2>3 DEF FindVerifiedUser, RequestIsTyped, StepsAreNamed
    <3> QED
      BY <1>1, <2>1, <2>3, <3>1, StatusIsTyped DEF FindVerifiedUser, Typed
  <2> QED
    BY <2>2, <2>3
<1>2. CASE ConsumeVerificationToken(w)
  <2>1. RequestIsTyped
    BY <1>2, FinishIsNamed DEF ConsumeVerificationToken
  <2>2. request[w].address \in Addresses /\ request[w].user \in Users /\ request[w].token \in Tokens
    BY <1>2 DEF ConsumeVerificationToken, StepsAreNamed
  <2>3. users' \in [Users -> UserRows] /\ mail' \in [Addresses -> Users \cup {NoUser}]
    BY <1>2, <2>2, VerifiedIsTyped DEF ConsumeVerificationToken
  <2>4. overtaken' \in SUBSET Users
    BY <1>2, <2>2 DEF ConsumeVerificationToken
  <2>5. CASE tokens[request[w].token].status # "none"
    BY <1>2, <2>1, <2>2, <2>3, <2>4, <2>5, StatusIsTyped DEF ConsumeVerificationToken, Typed
  <2>6. tokens[request[w].token].status # "none"
    BY <1>2, <2>2 DEF ConsumeVerificationToken, VerifyingIsLive
  <2> QED
    BY <2>5, <2>6
<1>3. ASSUME NEW u \in Users, NEW a \in Addresses \cup {NoAddress}, UpdateProfile(w, u, a)
      PROVE  Typed
  <2> DEFINE r == [Idle EXCEPT !.step = "dropping", !.user = u, !.address = a]
  <2>1. r \in AccountRequests /\ r.step = "dropping" /\ r.user = u
    BY DEF Idle, AccountRequests
  <2>2. request' = [request EXCEPT ![w] = r]
    BY <1>3 DEF UpdateProfile
  <2> HIDE DEF r
  <2>3. RequestIsTyped
    BY <2>1, <2>2, OneWorker DEF Redeeming
  <2> QED
    BY <1>3, <2>3, UnchangedIsTyped DEF UpdateProfile
<1>4. CASE DropEmailAccounts(w)
  BY <1>4, GotoIsNamed, UnchangedIsTyped DEF DropEmailAccounts
<1>5. CASE MoveAddress(w)
  <2> DEFINE u == request[w].user
             a == request[w].address
  <2>1. RequestIsTyped
    BY <1>5, FinishIsNamed DEF MoveAddress
  <2>2. u \in Users
    BY <1>5 DEF MoveAddress, StepsAreNamed
  <2>3. request[w] \in AccountRequests
    BY <1>5 DEF MoveAddress, Reviews
  <2>4. a \in Addresses \cup {NoAddress}
    BY <2>3 DEF AccountRequests
  <2>5. CASE UNCHANGED <<users, mail, overtaken>>
    BY <1>5, <2>1, <2>5, UnchangedIsTyped DEF MoveAddress, rowVars
  <2>6. CASE /\ users' = [users EXCEPT ![u].address = a, ![u].verified = FALSE]
             /\ mail' = [b \in Addresses |-> IF mail[b] = u THEN NoUser ELSE mail[b]]
             /\ Overtake(w, u, Removals \cup {"verifying"})
    <3>2. users' \in [Users -> UserRows]
      BY <2>2, <2>4, <2>6, MovedIsTyped
    <3>3. mail' \in [Addresses -> Users \cup {NoUser}]
      BY <2>6
    <3>4. overtaken' \in SUBSET Users
      BY <2>2, <2>6 DEF Overtake
    <3> QED
      BY <1>5, <2>1, <3>2, <3>3, <3>4 DEF MoveAddress, Typed, TokensAreAddressed
  <2> QED
    BY <1>5, <2>5, <2>6 DEF MoveAddress
<1>6. ASSUME NEW u \in Users, NEW k \in Passkeys, CountMethods(w, u, k) PROVE Typed
  <2> DEFINE r == [Idle EXCEPT !.step = "removing", !.user = u, !.passkey = k]
  <2>1. r \in AccountRequests /\ r.step = "removing" /\ r.user = u
    BY DEF Idle, AccountRequests
  <2>2. request' = [request EXCEPT ![w] = r]
    BY <1>6 DEF CountMethods
  <2> HIDE DEF r
  <2>3. RequestIsTyped
    BY <2>1, <2>2, OneWorker DEF Redeeming
  <2> QED
    BY <1>6, <2>3, UnchangedIsTyped DEF CountMethods
<1>7. CASE DeleteUnlessLastSignInMethod(w)
  <2>1. RequestIsTyped
    BY <1>7, FinishIsNamed DEF DeleteUnlessLastSignInMethod
  <2>2. request[w].user \in Users
    BY <1>7 DEF DeleteUnlessLastSignInMethod, StepsAreNamed
  <2>3. passkeys' \in [Users -> SUBSET Passkeys] /\ overtaken' \in SUBSET Users
    BY <1>7, <2>2 DEF DeleteUnlessLastSignInMethod, Overtake
  <2> QED
    BY <1>7, <2>1, <2>3 DEF DeleteUnlessLastSignInMethod, Typed, TokensAreAddressed
<1> QED
  BY <1>1, <1>2, <1>3, <1>4, <1>5, <1>6, <1>7 DEF ProfileStep

LEMMA UntouchedRequests ==
    ASSUME TokenInv, UNCHANGED request PROVE RequestIsTyped
  BY DEF TokenInv, RequestsTypeOK, RequestIsTyped, StepsAreNamed

LEMMA IssueTypes ==
    ASSUME TokenInv, NEW t \in Tokens, NEW purpose \in {"sign_in", "verify_email"},
           NEW a \in Addresses, NEW u \in Users \cup {NoUser},
           purpose = "verify_email" => u \in Users,
           IssueToken(t, purpose, a, u)
    PROVE  Typed
<1> DEFINE row == [NewToken EXCEPT !.status = "live", !.purpose = purpose, !.address = a, !.user = u]
<1>1. row \in TokenRows /\ row.address = a /\ row.user = u /\ row.purpose = purpose
  BY DEF NewToken, TokenRows
<1>2. tokens' = [tokens EXCEPT ![t] = row]
  BY DEF IssueToken
<1> HIDE DEF row
<1>3. tokens \in [Tokens -> TokenRows]
  BY DEF TokenInv, RequestsTypeOK, AccountsTypeOK
<1>4. tokens' \in [Tokens -> TokenRows] /\ TokensAreAddressed'
  BY <1>1, <1>2, <1>3 DEF TokenInv, TokensAreAddressed
<1>5. RequestIsTyped
  BY UntouchedRequests DEF IssueToken
<1> QED
  BY <1>4, <1>5 DEF IssueToken, Typed, TokenInv, RequestsTypeOK, AccountsTypeOK

LEMMA AccountTypes ==
    ASSUME TokenInv, NEW standing, AccountsNext(standing) PROVE Typed
<1>1. ASSUME NEW w \in Workers, Die(w) PROVE Typed
  BY <1>1, FinishIsNamed, UnchangedIsTyped DEF Die
<1>2. ASSUME NEW t \in Tokens, NEW a \in Addresses, NEW admitting \in BOOLEAN,
             RequestSignIn(t, a, admitting, standing)
      PROVE  Typed
  BY <1>2, IssueTypes DEF RequestSignIn
<1>3. ASSUME NEW t \in Tokens, NEW u \in Users, RequestEmailVerification(t, u) PROVE Typed
  <2>1. users[u].address \in Addresses
    BY <1>3 DEF RequestEmailVerification, TokenInv, RequestsTypeOK, AccountsTypeOK, UserRows
  <2> QED
    BY <1>3, <2>1, IssueTypes DEF RequestEmailVerification
<1>4. ASSUME NEW t \in Tokens, TokenExpires(t) PROVE Typed
  <2>1. tokens' \in [Tokens -> TokenRows] /\ TokensAreAddressed'
    BY <1>4, StatusIsTyped DEF TokenExpires
  <2>2. RequestIsTyped
    BY <1>4, UntouchedRequests DEF TokenExpires
  <2> QED
    BY <1>4, <2>1, <2>2 DEF TokenExpires, Typed, TokenInv, RequestsTypeOK, AccountsTypeOK
<1>5. ASSUME NEW a \in Addresses, RecordFailedCodeAttempts(a) PROVE Typed
  <2>1. tokens \in [Tokens -> TokenRows]
    BY DEF TokenInv, RequestsTypeOK, AccountsTypeOK
  <2>2. ASSUME NEW t \in Tokens
        PROVE  /\ tokens'[t] \in TokenRows
               /\ tokens'[t].address = tokens[t].address
               /\ tokens'[t].purpose = tokens[t].purpose
               /\ tokens'[t].user = tokens[t].user
               /\ tokens'[t].status # "none" => tokens[t].status # "none"
    <3>1. CASE Live(t, "sign_in") /\ tokens[t].address = a
      <4>1. tokens[t] \in TokenRows
        BY <2>1
      <4>2. tokens'[t] = [status |-> IF tokens[t].attempts + 1 >= MaxAttempts THEN "burnt" ELSE "live",
                          purpose |-> "sign_in", address |-> a, user |-> tokens[t].user,
                          attempts |-> tokens[t].attempts + 1]
        BY <1>5, <3>1 DEF RecordFailedCodeAttempts
      <4> QED
        BY <3>1, <4>1, <4>2 DEF Live, TokenRows
    <3>2. CASE ~(Live(t, "sign_in") /\ tokens[t].address = a)
      BY <1>5, <2>1, <3>2 DEF RecordFailedCodeAttempts
    <3> QED
      BY <3>1, <3>2
  <2>3. tokens' = [t \in Tokens |-> tokens'[t]]
    BY <1>5 DEF RecordFailedCodeAttempts
  <2>4. tokens' \in [Tokens -> TokenRows]
    <3>1. \A t \in Tokens : tokens'[t] \in TokenRows
      BY <2>2
    <3>2. [t \in Tokens |-> tokens'[t]] \in [Tokens -> TokenRows]
      BY <3>1
    <3> QED
      BY <2>3, <3>2
  <2>6. TokensAreAddressed'
    <3> SUFFICES ASSUME NEW t \in Tokens, tokens'[t].status # "none"
                 PROVE  /\ tokens'[t].address \in Addresses
                        /\ tokens'[t].purpose = "verify_email" => tokens'[t].user \in Users
      BY DEF TokensAreAddressed
    <3>1. tokens[t].status # "none"
      BY <2>2
    <3>2. /\ tokens[t].address \in Addresses
          /\ tokens[t].purpose = "verify_email" => tokens[t].user \in Users
      BY <3>1 DEF TokenInv, TokensAreAddressed
    <3>3. /\ tokens'[t].address = tokens[t].address /\ tokens'[t].purpose = tokens[t].purpose
          /\ tokens'[t].user = tokens[t].user
      BY <2>2
    <3> QED
      BY <3>2, <3>3
  <2>5. RequestIsTyped
    BY <1>5, UntouchedRequests DEF RecordFailedCodeAttempts
  <2> QED
    BY <1>5, <2>4, <2>5, <2>6
    DEF RecordFailedCodeAttempts, Typed, TokenInv, RequestsTypeOK, AccountsTypeOK
<1>6. ASSUME NEW u \in Users, NEW k \in Passkeys, CreatePasskey(u, k) PROVE Typed
  <2>1. RequestIsTyped
    BY <1>6, UntouchedRequests DEF CreatePasskey
  <2> QED
    BY <1>6, <2>1
    DEF CreatePasskey, Typed, TokenInv, RequestsTypeOK, AccountsTypeOK, TokensAreAddressed
<1> QED
  BY <1>1, <1>2, <1>3, <1>4, <1>5, <1>6, SignInTypes, ProfileTypes DEF AccountsNext

-----------------------------------------------------------------------------
(* What the requests for organizations do to the types. *)

LEMMA ExpiredIsTyped ==
    ASSUME requests \in [OrganizationRequests -> RequestRows], NEW scope
    PROVE  ExpireStalePending(scope) \in [OrganizationRequests -> RequestRows]
<1>1. ASSUME NEW r \in OrganizationRequests
      PROVE  [requests[r] EXCEPT !.status = "EXPIRED"] \in RequestRows
  <2>1. requests[r] \in RequestRows
    OBVIOUS
  <2> QED
    BY <2>1 DEF RequestRows
<1> QED
  BY <1>1 DEF ExpireStalePending

LEMMA SubmittedIsTyped ==
    ASSUME NEW rows \in [OrganizationRequests -> RequestRows], NEW r \in OrganizationRequests,
           NEW u \in Users
    PROVE  Submitted(rows, r, u) \in [OrganizationRequests -> RequestRows]
<1>1. [by |-> u, old |-> FALSE, status |-> "PENDING"] \in RequestRows
  BY DEF RequestRows
<1> QED
  BY <1>1 DEF Submitted

\* A step on the requests leaves the rows of accounts alone.
RequestsTyped ==
    /\ requests' \in [OrganizationRequests -> RequestRows]
    /\ organizations' \in [OrganizationRequests -> Nat]
    /\ RequestIsTyped

LEMMA WorkerRequestTypes ==
    ASSUME TokenInv, NEW w \in Workers,
           \/ \E u \in Users : AskForOrganization(w, u)
           \/ \E r \in OrganizationRequests : AskToApprove(w, r)
           \/ CreateRequest(w) \/ Approve(w)
    PROVE  RequestsTyped
<1>1. requests \in [OrganizationRequests -> RequestRows]
      /\ organizations \in [OrganizationRequests -> Nat]
  BY DEF TokenInv, RequestsTypeOK
<1>2. ASSUME NEW u \in Users, AskForOrganization(w, u) PROVE RequestsTyped
  <2> DEFINE r == [step |-> "submitting", user |-> u, request |-> NoRequest]
  <2>1. r \in AccountRequests \cup Reviews /\ r.step = "submitting" /\ r.user = u
    BY DEF Reviews
  <2>2. request' = [request EXCEPT ![w] = r] \/ UNCHANGED request
    BY <1>2 DEF AskForOrganization
  <2> HIDE DEF r
  <2>3. RequestIsTyped
    BY <2>1, <2>2, OneWorker, UntouchedRequests DEF Redeeming
  <2> QED
    BY <1>1, <1>2, <2>3, ExpiredIsTyped DEF AskForOrganization, RequestsTyped
<1>3. ASSUME NEW q \in OrganizationRequests, AskToApprove(w, q) PROVE RequestsTyped
  <2> DEFINE r == [step |-> "approving", user |-> NoUser, request |-> q]
  <2>1. r \in AccountRequests \cup Reviews /\ r.step = "approving" /\ r.request = q
    BY DEF Reviews
  <2>2. request' = [request EXCEPT ![w] = r] \/ UNCHANGED request
    BY <1>3 DEF AskToApprove
  <2> HIDE DEF r
  <2>3. RequestIsTyped
    BY <2>1, <2>2, OneWorker, UntouchedRequests DEF Redeeming
  <2> QED
    BY <1>1, <1>3, <2>3, ExpiredIsTyped DEF AskToApprove, RequestsTyped
<1>4. CASE CreateRequest(w)
  <2>1. request[w].user \in Users
    BY <1>4 DEF CreateRequest, TokenInv, StepsAreNamed
  <2> QED
    BY <1>1, <1>4, <2>1, SubmittedIsTyped, FinishIsNamed DEF CreateRequest, RequestsTyped
<1>5. CASE Approve(w)
  <2> DEFINE q == request[w].request
  <2>1. q \in OrganizationRequests
    BY <1>5 DEF Approve, TokenInv, StepsAreNamed
  <2>2. [requests[q] EXCEPT !.status = "APPROVED"] \in RequestRows
    <3>1. requests[q] \in RequestRows
      BY <1>1, <2>1
    <3> QED
      BY <3>1 DEF RequestRows
  <2>3. requests' \in [OrganizationRequests -> RequestRows]
    BY <1>1, <1>5, <2>1, <2>2 DEF Approve
  <2>4. organizations' \in [OrganizationRequests -> Nat]
    BY <1>1, <1>5, <2>1 DEF Approve
  <2> QED
    BY <1>5, <2>3, <2>4, FinishIsNamed DEF Approve, RequestsTyped
<1> QED
  BY <1>2, <1>3, <1>4, <1>5

LEMMA RequestTypes ==
    ASSUME TokenInv, NEW r \in OrganizationRequests,
           \/ GrowOld(r) \/ DeleteFromHistory(r) \/ Reject(r)
           \/ \E u \in Users : ResubmitExpired(r, u)
    PROVE  RequestsTyped
<1>1. requests \in [OrganizationRequests -> RequestRows]
      /\ organizations \in [OrganizationRequests -> Nat]
  BY DEF TokenInv, RequestsTypeOK
<1>2. requests[r] \in RequestRows
  BY <1>1
<1>3. UNCHANGED <<request, organizations>>
  BY DEF GrowOld, DeleteFromHistory, Reject, ResubmitExpired, accountVars
<1>4. CASE GrowOld(r)
  <2>1. [requests[r] EXCEPT !.old = TRUE] \in RequestRows
    BY <1>2 DEF RequestRows
  <2> QED
    BY <1>1, <1>3, <1>4, <2>1, UntouchedRequests DEF GrowOld, RequestsTyped
<1>5. CASE DeleteFromHistory(r)
  <2>1. [by |-> NoUser, old |-> FALSE, status |-> "deleted"] \in RequestRows
    BY DEF RequestRows
  <2> QED
    BY <1>1, <1>3, <1>5, <2>1, UntouchedRequests DEF DeleteFromHistory, RequestsTyped
<1>6. CASE Reject(r)
  <2> DEFINE rows == ExpireStalePending({r})
  <2>1. rows \in [OrganizationRequests -> RequestRows]
    BY <1>1, ExpiredIsTyped
  <2> HIDE DEF rows
  <2>2. [rows[r] EXCEPT !.status = "REJECTED"] \in RequestRows
    <3>1. rows[r] \in RequestRows
      BY <2>1
    <3> QED
      BY <3>1 DEF RequestRows
  <2>3. requests' = rows \/ requests' = [rows EXCEPT ![r] = [rows[r] EXCEPT !.status = "REJECTED"]]
    BY <1>6 DEF Reject, rows
  <2> QED
    BY <1>1, <1>3, <2>1, <2>2, <2>3, UntouchedRequests DEF RequestsTyped
<1>7. ASSUME NEW u \in Users, ResubmitExpired(r, u) PROVE RequestsTyped
  <2>1. ExpireStalePending(Of(u)) \in [OrganizationRequests -> RequestRows]
    BY <1>1, ExpiredIsTyped
  <2>2. PICK new \in OrganizationRequests :
           requests' = Submitted(ExpireStalePending(Of(u)), new, u)
    BY <1>7 DEF ResubmitExpired
  <2> QED
    BY <1>1, <1>3, <2>1, <2>2, SubmittedIsTyped, UntouchedRequests DEF RequestsTyped
<1> QED
  BY <1>4, <1>5, <1>6, <1>7

LEMMA ListingTypes ==
    ASSUME TokenInv, NEW scope, ListRequests(scope) PROVE RequestsTyped
<1>1. requests \in [OrganizationRequests -> RequestRows]
      /\ organizations \in [OrganizationRequests -> Nat]
  BY DEF TokenInv, RequestsTypeOK
<1> QED
  BY <1>1, ExpiredIsTyped, UntouchedRequests DEF ListRequests, RequestsTyped, accountVars

-----------------------------------------------------------------------------
(* What becomes of the tokens. *)

Tracked == RedeemedOnce' /\ TokenIsUsedOnce' /\ VerifyingIsLive' /\ MatchedIsSignIn'

\* Nobody starts on a token, and no token changes but the one that w gives up.
LEMMA ReleasedIsTracked ==
    ASSUME TokenInv, NEW w \in Workers,
           UNCHANGED sessions,
           \A v \in Workers \ {w} : request'[v] = request[v],
           request'[w].step \notin {"verifying", "consuming"} \/ request'[w] = request[w],
           request'[w].step \in Redeeming =>
              request[w].step \in Redeeming /\ request'[w].token = request[w].token,
           \A t \in Tokens : tokens'[t] # tokens[t] =>
              /\ tokens'[t].purpose = tokens[t].purpose \/ tokens[t].status = "none"
              /\ tokens[t].status # "used" /\ tokens'[t].status # "none"
              /\ \A v \in Workers : request'[v].step = "verifying" => request[v].token # t
    PROVE  Tracked
<1>1. \A v \in Workers : request'[v].step \in {"verifying", "consuming"} => request'[v] = request[v]
  OBVIOUS
<1>2. \A v \in Workers, t \in Tokens : Redeems(v, t)' => Redeems(v, t)
  BY DEF Redeems
<1>3. RedeemedOnce'
  BY <1>2 DEF TokenInv, RedeemedOnce
<1>4. TokenIsUsedOnce'
  <2> SUFFICES ASSUME NEW t \in Tokens
               PROVE  sessions[t] <= (IF tokens'[t].status = "used" THEN 1 ELSE 0)
    BY DEF TokenIsUsedOnce
  <2>1. sessions[t] \in Nat /\ sessions[t] <= (IF tokens[t].status = "used" THEN 1 ELSE 0)
    BY DEF TokenInv, TokenIsUsedOnce, RequestsTypeOK, AccountsTypeOK
  <2>2. tokens[t].status = "used" => tokens'[t] = tokens[t]
    OBVIOUS
  <2> QED
    BY <2>1, <2>2
<1>5. VerifyingIsLive'
  <2> SUFFICES ASSUME NEW v \in Workers, request'[v].step = "verifying"
               PROVE  /\ tokens'[request'[v].token].status = "live"
                      /\ tokens'[request'[v].token].purpose = "verify_email"
                      /\ \A x \in Workers : x # v /\ request'[x].step = "verifying"
                            => request'[x].token # request'[v].token
    BY DEF VerifyingIsLive
  <2>1. request'[v] = request[v] /\ request[v].token \in Tokens
    BY <1>1 DEF TokenInv, StepsAreNamed
  <2>2. tokens'[request[v].token] = tokens[request[v].token]
    BY <2>1
  <2> QED
    BY <1>1, <2>1, <2>2 DEF TokenInv, VerifyingIsLive
<1>6. MatchedIsSignIn'
  <2> SUFFICES ASSUME NEW v \in Workers, request'[v].step = "consuming"
               PROVE  /\ tokens'[request'[v].token].status # "none"
                      /\ tokens'[request'[v].token].purpose = "sign_in"
    BY DEF MatchedIsSignIn
  <2>1. request'[v] = request[v] /\ request[v].token \in Tokens
    BY <1>1 DEF TokenInv, StepsAreNamed
  <2>2. /\ tokens[request[v].token].status # "none"
        /\ tokens[request[v].token].purpose = "sign_in"
    BY <2>1 DEF TokenInv, MatchedIsSignIn
  <2> QED
    BY <2>1, <2>2
<1> QED
  BY <1>3, <1>4, <1>5, <1>6 DEF Tracked

\* The tokens and the sessions stay as they are.
LEMMA QuietIsTracked ==
    ASSUME TokenInv, NEW w \in Workers,
           UNCHANGED <<tokens, sessions>>,
           \A v \in Workers \ {w} : request'[v] = request[v],
           request'[w].step \notin {"verifying", "consuming"} \/ request'[w] = request[w],
           request'[w].step \in Redeeming =>
              request[w].step \in Redeeming /\ request'[w].token = request[w].token
    PROVE  Tracked
  BY ReleasedIsTracked

LEMMA RowOfWorker ==
    ASSUME TokenInv, NEW w \in Workers, NEW r, request' = [request EXCEPT ![w] = r]
    PROVE  request'[w] = r /\ \A v \in Workers \ {w} : request'[v] = request[v]
  BY DEF TokenInv, RequestsTypeOK

LEMMA FinishedRow ==
    ASSUME TokenInv, NEW w \in Workers, Finish(w)
    PROVE  /\ request'[w].step = "idle"
           /\ \A v \in Workers \ {w} : request'[v] = request[v]
<1>1. Idle.step = "idle"
  BY DEF Idle
<1>2. request' = [request EXCEPT ![w] = Idle]
  BY DEF Finish
<1> QED
  BY <1>1, <1>2, RowOfWorker

LEMMA GoneRow ==
    ASSUME TokenInv, NEW w \in Workers, NEW step, Goto(w, step),
           request[w].step \notin {"submitting", "approving"}
    PROVE  /\ request'[w].step = step /\ request'[w].token = request[w].token
           /\ \A v \in Workers \ {w} : request'[v] = request[v]
<1> DEFINE r == [request[w] EXCEPT !.step = step]
<1>1. request[w] \in AccountRequests
  BY DEF TokenInv, RequestsTypeOK, Reviews
<1>2. r.step = step /\ r.token = request[w].token
  BY <1>1 DEF AccountRequests
<1>3. request' = [request EXCEPT ![w] = r]
  BY DEF Goto
<1> HIDE DEF r
<1> QED
  BY <1>2, <1>3, RowOfWorker

LEMMA ContinuedRow ==
    ASSUME TokenInv, NEW w \in Workers, NEW u, Continue(w, u),
           request[w].step \notin {"submitting", "approving"}
    PROVE  /\ request'[w].step \in {"opening", "confirming"}
           /\ request'[w].token = request[w].token
           /\ \A v \in Workers \ {w} : request'[v] = request[v]
<1> DEFINE r == [request[w] EXCEPT !.user = u,
                                   !.step = IF users[u].verified THEN "opening" ELSE "confirming"]
<1>1. request[w] \in AccountRequests
  BY DEF TokenInv, RequestsTypeOK, Reviews
<1>2. r.step \in {"opening", "confirming"} /\ r.token = request[w].token
  BY <1>1 DEF AccountRequests
<1>3. request' = [request EXCEPT ![w] = r]
  BY DEF Continue
<1> HIDE DEF r
<1> QED
  BY <1>2, <1>3, RowOfWorker

\* A live token is consumed by a worker that signs in with it.
LEMMA ConsumedIsTracked ==
    ASSUME TokenInv, NEW w \in Workers, NEW t \in Tokens, Live(t, "sign_in"),
           UNCHANGED sessions, tokens' = [tokens EXCEPT ![t].status = "used"],
           request'[w].step = "admitting", request'[w].token = t,
           \A v \in Workers \ {w} : request'[v] = request[v]
    PROVE  Tracked
<1>1. tokens \in [Tokens -> TokenRows] /\ sessions \in [Tokens -> Nat]
  BY DEF TokenInv, RequestsTypeOK, AccountsTypeOK
<1>2. /\ tokens'[t].status = "used" /\ tokens'[t].purpose = "sign_in"
      /\ \A x \in Tokens \ {t} : tokens'[x] = tokens[x]
  BY <1>1 DEF TokenRows, Live
<1>3. tokens[t].status = "live" /\ tokens[t].purpose = "sign_in"
  BY DEF Live
<1>4. sessions[t] = 0 /\ \A v \in Workers : ~Redeems(v, t)
  BY <1>1, <1>3 DEF TokenInv, TokenIsUsedOnce, RedeemedOnce
<1>5. RedeemedOnce'
  <2> SUFFICES ASSUME NEW x \in Tokens, NEW v \in Workers, Redeems(v, x)'
               PROVE  /\ tokens'[x].status = "used" /\ sessions[x] = 0
                      /\ \A y \in Workers : Redeems(y, x)' => y = v
    BY DEF RedeemedOnce
  <2>1. CASE x = t
    BY <1>2, <1>4, <2>1 DEF Redeems
  <2>2. CASE x # t
    <3>1. \A y \in Workers : Redeems(y, x)' => Redeems(y, x) /\ y # w
      BY <2>2 DEF Redeems
    <3> QED
      BY <1>2, <2>2, <3>1 DEF TokenInv, RedeemedOnce
  <2> QED
    BY <2>1, <2>2
<1>6. TokenIsUsedOnce'
  BY <1>1, <1>2, <1>4 DEF TokenInv, TokenIsUsedOnce
<1>7. VerifyingIsLive'
  <2>1. \A v \in Workers : request'[v].step = "verifying" =>
           request'[v] = request[v] /\ request[v].token \in Tokens \ {t}
    BY <1>3 DEF TokenInv, StepsAreNamed, VerifyingIsLive
  <2> QED
    BY <1>2, <2>1 DEF TokenInv, VerifyingIsLive
<1>8. MatchedIsSignIn'
  <2>1. \A v \in Workers : request'[v].step = "consuming" =>
           request'[v] = request[v] /\ request[v].token \in Tokens
    BY DEF TokenInv, StepsAreNamed
  <2> QED
    BY <1>2, <2>1 DEF TokenInv, MatchedIsSignIn
<1> QED
  BY <1>5, <1>6, <1>7, <1>8 DEF Tracked

LEMMA SessionIsTracked ==
    ASSUME TokenInv, NEW w \in Workers, CreateUserSession(w) PROVE Tracked
<1> DEFINE t == request[w].token
<1>1. /\ request[w].step = "opening" /\ t \in Tokens /\ UNCHANGED tokens
      /\ sessions' = [sessions EXCEPT ![t] = @ + 1]
  BY DEF CreateUserSession, TokenInv, StepsAreNamed, Redeeming
<1>2. request'[w].step = "idle" /\ \A v \in Workers \ {w} : request'[v] = request[v]
  BY FinishedRow DEF CreateUserSession
<1>3. Redeems(w, t)
  BY <1>1 DEF Redeems, Redeeming
<1>4. /\ tokens[t].status = "used" /\ sessions[t] = 0
      /\ \A v \in Workers : Redeems(v, t) => v = w
  BY <1>1, <1>3 DEF TokenInv, RedeemedOnce
<1>5. sessions'[t] = 1 /\ \A x \in Tokens \ {t} : sessions'[x] = sessions[x]
  BY <1>1, <1>4 DEF TokenInv, RequestsTypeOK, AccountsTypeOK
<1>6. \A v \in Workers, x \in Tokens : Redeems(v, x)' => Redeems(v, x) /\ x # t
  BY <1>2, <1>4 DEF Redeems, Redeeming
<1>7. RedeemedOnce'
  BY <1>1, <1>5, <1>6 DEF TokenInv, RedeemedOnce
<1>8. TokenIsUsedOnce'
  BY <1>1, <1>4, <1>5 DEF TokenInv, TokenIsUsedOnce
<1>9. VerifyingIsLive' /\ MatchedIsSignIn'
  BY <1>1, <1>2 DEF TokenInv, VerifyingIsLive, MatchedIsSignIn
<1> QED
  BY <1>7, <1>8, <1>9 DEF Tracked

LEMMA SignInIsTracked ==
    ASSUME TokenInv, NEW w \in Workers, NEW standing, SignInStep(w, standing) PROVE Tracked
<1>1. ASSUME NEW t \in Tokens, ConsumeSignInTokenByHash(w, t) PROVE Tracked
  <2> DEFINE r == [Idle EXCEPT !.step = "admitting", !.token = t, !.address = tokens[t].address]
  <2>1. r.step = "admitting" /\ r.token = t
    BY DEF Idle
  <2>2. request' = [request EXCEPT ![w] = r]
    BY <1>1 DEF ConsumeSignInTokenByHash
  <2> HIDE DEF r
  <2>3. /\ request'[w].step = "admitting" /\ request'[w].token = t
        /\ \A v \in Workers \ {w} : request'[v] = request[v]
    BY <2>1, <2>2, RowOfWorker
  <2> QED
    BY <1>1, <2>3, ConsumedIsTracked DEF ConsumeSignInTokenByHash
<1>2. ASSUME NEW t \in Tokens, MatchSignInToken(w, t) PROVE Tracked
  <2> DEFINE r == [Idle EXCEPT !.step = "consuming", !.token = t, !.address = tokens[t].address]
  <2>1. r.step = "consuming" /\ r.token = t
    BY DEF Idle
  <2>2. request' = [request EXCEPT ![w] = r]
    BY <1>2 DEF MatchSignInToken
  <2> HIDE DEF r
  <2>3. /\ request'[w].step = "consuming" /\ request'[w].token = t
        /\ \A v \in Workers \ {w} : request'[v] = request[v]
    BY <2>1, <2>2, RowOfWorker
  <2>4. Live(t, "sign_in") /\ UNCHANGED <<tokens, sessions>>
    BY <1>2 DEF MatchSignInToken, rowVars
  <2>5. \A v \in Workers, x \in Tokens : Redeems(v, x)' => Redeems(v, x)
    BY <2>3 DEF Redeems, Redeeming
  <2>6. RedeemedOnce' /\ TokenIsUsedOnce'
    BY <2>4, <2>5 DEF TokenInv, RedeemedOnce, TokenIsUsedOnce
  <2>7. VerifyingIsLive'
    BY <2>3, <2>4 DEF TokenInv, VerifyingIsLive
  <2>8. MatchedIsSignIn'
    BY <2>3, <2>4 DEF TokenInv, MatchedIsSignIn, Live
  <2> QED
    BY <2>6, <2>7, <2>8 DEF Tracked
<1>3. CASE ConsumeSignInTokenById(w)
  <2> DEFINE t == request[w].token
  <2>1. /\ request[w].step = "consuming" /\ t \in Tokens /\ tokens[t].purpose = "sign_in"
        /\ UNCHANGED sessions
    BY <1>3 DEF ConsumeSignInTokenById, TokenInv, StepsAreNamed, MatchedIsSignIn
  <2>2. CASE tokens[t].status = "live"
    <3>1. tokens' = [tokens EXCEPT ![t].status = "used"] /\ Goto(w, "admitting")
      BY <1>3, <2>2 DEF ConsumeSignInTokenById
    <3>2. /\ request'[w].step = "admitting" /\ request'[w].token = t
          /\ \A v \in Workers \ {w} : request'[v] = request[v]
      BY <2>1, <3>1, GoneRow
    <3> QED
      BY <2>1, <2>2, <3>1, <3>2, ConsumedIsTracked DEF Live
  <2>3. CASE tokens[t].status # "live"
    <3>1. UNCHANGED tokens /\ Finish(w)
      BY <1>3, <2>3 DEF ConsumeSignInTokenById
    <3> QED
      BY <2>1, <3>1, FinishedRow, QuietIsTracked DEF Redeeming
  <2> QED
    BY <2>2, <2>3
<1>4. ASSUME NEW admitting \in BOOLEAN, ResolveAdmission(w, admitting, standing) PROVE Tracked
  <2>1. request[w].step = "admitting" /\ UNCHANGED <<tokens, sessions>>
    BY <1>4 DEF ResolveAdmission, rowVars
  <2>2. Goto(w, "creating") \/ Finish(w) \/ \E u \in Users : Continue(w, u)
    BY <1>4 DEF ResolveAdmission, Holders
  <2> QED
    BY <2>1, <2>2, GoneRow, FinishedRow, ContinuedRow, QuietIsTracked DEF Redeeming
<1>5. CASE CreateAdmittedEmailUser(w)
  <2>1. request[w].step = "creating" /\ UNCHANGED <<tokens, sessions>>
    BY <1>5 DEF CreateAdmittedEmailUser
  <2>2. Goto(w, "finding") \/ Finish(w)
    BY <1>5 DEF CreateAdmittedEmailUser
  <2> QED
    BY <2>1, <2>2, GoneRow, FinishedRow, QuietIsTracked DEF Redeeming
<1>6. CASE FindCreatedAccount(w)
  <2>1. request[w].step = "finding" /\ UNCHANGED <<tokens, sessions>>
    BY <1>6 DEF FindCreatedAccount, rowVars
  <2>2. Finish(w) \/ \E u \in Users : Continue(w, u)
    BY <1>6 DEF FindCreatedAccount, Holders
  <2> QED
    BY <2>1, <2>2, FinishedRow, ContinuedRow, QuietIsTracked DEF Redeeming
<1>7. CASE ConfirmEmailIdentity(w)
  <2>1. request[w].step = "confirming" /\ UNCHANGED <<tokens, sessions>> /\ Goto(w, "opening")
    BY <1>7 DEF ConfirmEmailIdentity
  <2> QED
    BY <2>1, GoneRow, QuietIsTracked DEF Redeeming
<1> QED
  BY <1>1, <1>2, <1>3, <1>4, <1>5, <1>6, <1>7, SessionIsTracked DEF SignInStep

LEMMA ProfileIsTracked ==
    ASSUME TokenInv, NEW w \in Workers, ProfileStep(w) PROVE Tracked
<1>1. ASSUME NEW t \in Tokens, FindVerifiedUser(w, t) PROVE Tracked
  <2>1. /\ Live(t, "verify_email") /\ UNCHANGED sessions
        /\ \A v \in Workers : request[v].step = "verifying" => request[v].token # t
    BY <1>1 DEF FindVerifiedUser
  <2>2. CASE users[tokens[t].user].address = tokens[t].address
    <3> DEFINE r == [Idle EXCEPT !.step = "verifying", !.token = t, !.user = tokens[t].user,
                                 !.address = tokens[t].address]
    <3>1. r.step = "verifying" /\ r.token = t
      BY DEF Idle
    <3>2. request' = [request EXCEPT ![w] = r] /\ UNCHANGED tokens
      BY <1>1, <2>2 DEF FindVerifiedUser
    <3> HIDE DEF r
    <3>3. /\ request'[w].step = "verifying" /\ request'[w].token = t
          /\ \A v \in Workers \ {w} : request'[v] = request[v]
      BY <3>1, <3>2, RowOfWorker
    <3>4. \A v \in Workers, x \in Tokens : Redeems(v, x)' => Redeems(v, x)
      BY <3>3 DEF Redeems, Redeeming
    <3>5. RedeemedOnce' /\ TokenIsUsedOnce'
      BY <2>1, <3>2, <3>4 DEF TokenInv, RedeemedOnce, TokenIsUsedOnce
    <3>6. VerifyingIsLive'
      BY <2>1, <3>2, <3>3 DEF TokenInv, VerifyingIsLive, Live
    <3>7. MatchedIsSignIn'
      BY <3>2, <3>3 DEF TokenInv, MatchedIsSignIn
    <3> QED
      BY <3>5, <3>6, <3>7 DEF Tracked
  <2>3. CASE users[tokens[t].user].address # tokens[t].address
    <3>1. tokens' = [tokens EXCEPT ![t].status = "used"] /\ UNCHANGED request
      BY <1>1, <2>3 DEF FindVerifiedUser
    <3>2. \A x \in Tokens : tokens'[x] # tokens[x] =>
             x = t /\ tokens'[x].purpose = tokens[x].purpose /\ tokens'[x].status = "used"
      BY <3>1 DEF TokenInv, RequestsTypeOK, AccountsTypeOK, TokenRows
    <3> QED
      BY <2>1, <3>1, <3>2, ReleasedIsTracked DEF Live
  <2> QED
    BY <2>2, <2>3
<1>2. CASE ConsumeVerificationToken(w)
  <2> DEFINE t == request[w].token
  <2>1. /\ request[w].step = "verifying" /\ Finish(w) /\ UNCHANGED sessions
        /\ tokens' = [tokens EXCEPT ![t].status = "used"]
    BY <1>2 DEF ConsumeVerificationToken
  <2>2. /\ t \in Tokens /\ tokens[t].status = "live"
        /\ \A v \in Workers : v # w /\ request[v].step = "verifying" => request[v].token # t
    BY <2>1 DEF TokenInv, StepsAreNamed, VerifyingIsLive
  <2>3. \A x \in Tokens : tokens'[x] # tokens[x] =>
           x = t /\ tokens'[x].purpose = tokens[x].purpose /\ tokens'[x].status = "used"
    BY <2>1 DEF TokenInv, RequestsTypeOK, AccountsTypeOK, TokenRows
  <2>4. request'[w].step = "idle" /\ \A v \in Workers \ {w} : request'[v] = request[v]
    BY <2>1, FinishedRow
  <2>5. \A v \in Workers : request'[v].step = "verifying" => request[v].token # t
    BY <2>2, <2>4
  <2> QED
    BY <2>1, <2>2, <2>3, <2>4, <2>5, ReleasedIsTracked DEF Redeeming
<1>3. ASSUME NEW u \in Users, NEW a \in Addresses \cup {NoAddress}, UpdateProfile(w, u, a)
      PROVE  Tracked
  <2> DEFINE r == [Idle EXCEPT !.step = "dropping", !.user = u, !.address = a]
  <2>1. r.step = "dropping"
    BY DEF Idle
  <2>2. request' = [request EXCEPT ![w] = r] /\ UNCHANGED <<tokens, sessions>>
    BY <1>3 DEF UpdateProfile, rowVars
  <2> HIDE DEF r
  <2>3. request'[w].step = "dropping" /\ \A v \in Workers \ {w} : request'[v] = request[v]
    BY <2>1, <2>2, RowOfWorker
  <2> QED
    BY <2>2, <2>3, QuietIsTracked DEF Redeeming
<1>4. CASE DropEmailAccounts(w)
  <2>1. request[w].step = "dropping" /\ UNCHANGED <<tokens, sessions>> /\ Goto(w, "moving")
    BY <1>4 DEF DropEmailAccounts, rowVars
  <2> QED
    BY <2>1, GoneRow, QuietIsTracked DEF Redeeming
<1>5. CASE MoveAddress(w) \/ DeleteUnlessLastSignInMethod(w)
  <2>1. UNCHANGED <<tokens, sessions>> /\ Finish(w)
    BY <1>5 DEF MoveAddress, DeleteUnlessLastSignInMethod
  <2> QED
    BY <2>1, FinishedRow, QuietIsTracked DEF Redeeming
<1>6. ASSUME NEW u \in Users, NEW k \in Passkeys, CountMethods(w, u, k) PROVE Tracked
  <2> DEFINE r == [Idle EXCEPT !.step = "removing", !.user = u, !.passkey = k]
  <2>1. r.step = "removing"
    BY DEF Idle
  <2>2. request' = [request EXCEPT ![w] = r] /\ UNCHANGED <<tokens, sessions>>
    BY <1>6 DEF CountMethods, rowVars
  <2> HIDE DEF r
  <2>3. request'[w].step = "removing" /\ \A v \in Workers \ {w} : request'[v] = request[v]
    BY <2>1, <2>2, RowOfWorker
  <2> QED
    BY <2>2, <2>3, QuietIsTracked DEF Redeeming
<1> QED
  BY <1>1, <1>2, <1>3, <1>4, <1>5, <1>6 DEF ProfileStep

\* Nobody's request changes.
LEMMA BackgroundIsTracked ==
    ASSUME TokenInv, UNCHANGED <<request, sessions>>,
           \A t \in Tokens : tokens'[t] # tokens[t] =>
              /\ tokens'[t].purpose = tokens[t].purpose \/ tokens[t].status = "none"
              /\ tokens[t].status # "used" /\ tokens'[t].status # "none"
              /\ \A v \in Workers : request[v].step = "verifying" => request[v].token # t
    PROVE  Tracked
<1>1. CASE Workers = {}
  <2>1. TokenIsUsedOnce'
    <3> SUFFICES ASSUME NEW t \in Tokens
                 PROVE  sessions[t] <= (IF tokens'[t].status = "used" THEN 1 ELSE 0)
      BY DEF TokenIsUsedOnce
    <3>1. sessions[t] \in Nat /\ sessions[t] <= (IF tokens[t].status = "used" THEN 1 ELSE 0)
      BY DEF TokenInv, TokenIsUsedOnce, RequestsTypeOK, AccountsTypeOK
    <3>2. tokens[t].status = "used" => tokens'[t] = tokens[t]
      OBVIOUS
    <3> QED
      BY <3>1, <3>2
  <2> QED
    BY <1>1, <2>1 DEF Tracked, RedeemedOnce, VerifyingIsLive, MatchedIsSignIn
<1>2. CASE Workers # {}
  <2>1. PICK w \in Workers : TRUE
    BY <1>2
  <2> QED
    BY <2>1, ReleasedIsTracked
<1> QED
  BY <1>1, <1>2

LEMMA AccountIsTracked ==
    ASSUME TokenInv, NEW standing, AccountsNext(standing) PROVE Tracked
<1>1. ASSUME NEW w \in Workers, Die(w) PROVE Tracked
  <2>1. UNCHANGED <<tokens, sessions>> /\ Finish(w)
    BY <1>1 DEF Die, rowVars
  <2> QED
    BY <2>1, FinishedRow, QuietIsTracked DEF Redeeming
<1>2. ASSUME NEW t \in Tokens, NEW purpose, NEW a, NEW u, IssueToken(t, purpose, a, u)
      PROVE  Tracked
  <2> DEFINE row == [NewToken EXCEPT !.status = "live", !.purpose = purpose, !.address = a,
                                     !.user = u]
  <2>1. row.status = "live"
    BY DEF NewToken
  <2>2. tokens[t].status = "none" /\ tokens' = [tokens EXCEPT ![t] = row]
    BY <1>2 DEF IssueToken
  <2> HIDE DEF row
  <2>3. \A x \in Tokens : tokens'[x] # tokens[x] => x = t /\ tokens'[x].status = "live"
    BY <2>1, <2>2 DEF TokenInv, RequestsTypeOK, AccountsTypeOK
  <2>4. \A v \in Workers : request[v].step = "verifying" => request[v].token # t
    BY <2>2 DEF TokenInv, VerifyingIsLive
  <2> QED
    BY <1>2, <2>2, <2>3, <2>4, BackgroundIsTracked DEF IssueToken
<1>3. ASSUME NEW t \in Tokens, TokenExpires(t) PROVE Tracked
  <2>1. \A x \in Tokens : tokens'[x] # tokens[x] =>
           x = t /\ tokens'[x].purpose = tokens[x].purpose /\ tokens'[x].status = "expired"
    BY <1>3 DEF TokenExpires, TokenInv, RequestsTypeOK, AccountsTypeOK, TokenRows
  <2> QED
    BY <1>3, <2>1, BackgroundIsTracked DEF TokenExpires
<1>4. ASSUME NEW a \in Addresses, RecordFailedCodeAttempts(a) PROVE Tracked
  <2>1. tokens \in [Tokens -> TokenRows]
    BY DEF TokenInv, RequestsTypeOK, AccountsTypeOK
  <2>2. ASSUME NEW t \in Tokens, tokens'[t] # tokens[t]
        PROVE  /\ Live(t, "sign_in")
               /\ tokens'[t].purpose = "sign_in" /\ tokens'[t].status \in {"burnt", "live"}
    <3>1. Live(t, "sign_in") /\ tokens[t].address = a
      BY <1>4, <2>2 DEF RecordFailedCodeAttempts
    <3>2. tokens'[t] = [status |-> IF tokens[t].attempts + 1 >= MaxAttempts THEN "burnt" ELSE "live",
                        purpose |-> "sign_in", address |-> a, user |-> tokens[t].user,
                        attempts |-> tokens[t].attempts + 1]
      BY <1>4, <3>1 DEF RecordFailedCodeAttempts
    <3> QED
      BY <3>1, <3>2
  <2>3. \A t \in Tokens : tokens'[t] # tokens[t] =>
           \A v \in Workers : request[v].step = "verifying" => request[v].token # t
    BY <2>2 DEF Live, TokenInv, VerifyingIsLive
  <2>4. UNCHANGED <<request, sessions>>
    BY <1>4 DEF RecordFailedCodeAttempts
  <2>5. \A t \in Tokens : tokens'[t] # tokens[t] =>
           /\ tokens'[t].purpose = tokens[t].purpose \/ tokens[t].status = "none"
           /\ tokens[t].status # "used" /\ tokens'[t].status # "none"
    BY <2>2 DEF Live
  <2> QED
    BY <2>3, <2>4, <2>5, BackgroundIsTracked
<1>5. ASSUME NEW u \in Users, NEW k \in Passkeys, CreatePasskey(u, k) PROVE Tracked
  BY <1>5, BackgroundIsTracked DEF CreatePasskey
<1> QED
  BY <1>1, <1>2, <1>3, <1>4, <1>5, SignInIsTracked, ProfileIsTracked
  DEF AccountsNext, RequestSignIn, RequestEmailVerification

LEMMA RequestIsTracked ==
    ASSUME TokenInv, NEW w \in Workers,
           \/ \E u \in Users : AskForOrganization(w, u)
           \/ \E r \in OrganizationRequests : AskToApprove(w, r)
           \/ CreateRequest(w) \/ Approve(w)
    PROVE  Tracked
<1>1. UNCHANGED <<tokens, sessions>>
  BY DEF AskForOrganization, AskToApprove, CreateRequest, Approve, rowVars
<1>2. ASSUME NEW r, request' = [request EXCEPT ![w] = r], r.step \in {"submitting", "approving"}
      PROVE  Tracked
  <2>1. /\ request'[w].step \in {"submitting", "approving"}
        /\ \A v \in Workers \ {w} : request'[v] = request[v]
    BY <1>2, RowOfWorker
  <2> QED
    BY <1>1, <2>1, QuietIsTracked DEF Redeeming
<1>3. CASE UNCHANGED request
  BY <1>1, <1>3, QuietIsTracked
<1>4. ASSUME NEW u \in Users, AskForOrganization(w, u) PROVE Tracked
  BY <1>2, <1>3, <1>4 DEF AskForOrganization
<1>5. ASSUME NEW r \in OrganizationRequests, AskToApprove(w, r) PROVE Tracked
  BY <1>2, <1>3, <1>5 DEF AskToApprove
<1>6. CASE CreateRequest(w) \/ Approve(w)
  <2>1. Finish(w)
    BY <1>6 DEF CreateRequest, Approve
  <2> QED
    BY <1>1, <2>1, FinishedRow, QuietIsTracked DEF Redeeming
<1> QED
  BY <1>4, <1>5, <1>6

LEMMA TokenNext == TokenInv /\ [RequestsNext]_allVars => TokenInv'
<1> SUFFICES ASSUME TokenInv, [RequestsNext]_allVars PROVE TokenInv'
  OBVIOUS
<1>1. CASE AccountsNext(Standing) /\ UNCHANGED requestVars
  <2>1. Typed
    BY <1>1, AccountTypes
  <2>2. RequestsTypeOK' /\ StepsAreNamed' /\ TokensAreAddressed'
    BY <1>1, <2>1 DEF Typed, RequestIsTyped, TokenInv, RequestsTypeOK, requestVars
  <2> QED
    BY <1>1, <2>2, AccountIsTracked DEF Tracked, TokenInv
<1>2. ASSUME UNCHANGED rowVars, RequestsTyped, Tracked PROVE TokenInv'
  <2>1. Typed
    BY <1>2, UnchangedIsTyped DEF RequestsTyped
  <2> QED
    BY <1>2, <2>1 DEF RequestsTyped, RequestIsTyped, Typed, Tracked, TokenInv, RequestsTypeOK
<1>3. ASSUME NEW w \in Workers,
             \/ \E u \in Users : AskForOrganization(w, u)
             \/ \E r \in OrganizationRequests : AskToApprove(w, r)
             \/ CreateRequest(w) \/ Approve(w)
      PROVE  TokenInv'
  <2>1. UNCHANGED rowVars
    BY <1>3 DEF AskForOrganization, AskToApprove, CreateRequest, Approve
  <2> QED
    BY <1>2, <1>3, <2>1, WorkerRequestTypes, RequestIsTracked
<1>4. ASSUME NEW r \in OrganizationRequests,
             \/ GrowOld(r) \/ DeleteFromHistory(r) \/ Reject(r)
             \/ \E u \in Users : ResubmitExpired(r, u)
      PROVE  TokenInv'
  <2>1. UNCHANGED <<rowVars, request>>
    BY <1>4 DEF GrowOld, DeleteFromHistory, Reject, ResubmitExpired, accountVars
  <2>2. Tracked
    BY <2>1, BackgroundIsTracked DEF rowVars
  <2> QED
    BY <1>2, <1>4, <2>1, <2>2, RequestTypes
<1>5. ASSUME NEW scope, ListRequests(scope) PROVE TokenInv'
  <2>1. UNCHANGED <<rowVars, request>>
    BY <1>5 DEF ListRequests, accountVars
  <2>2. Tracked
    BY <2>1, BackgroundIsTracked DEF rowVars
  <2> QED
    BY <1>2, <1>5, <2>1, <2>2, ListingTypes
<1>6. CASE UNCHANGED allVars
  BY <1>6 DEF allVars, accountVars, rowVars, requestVars, TokenInv, RequestsTypeOK, AccountsTypeOK,
     StepsAreNamed, TokensAreAddressed, VerifyingIsLive, MatchedIsSignIn, RedeemedOnce, Redeems,
     TokenIsUsedOnce
<1> QED
  BY <1>1, <1>3, <1>4, <1>5, <1>6 DEF RequestsNext

LEMMA TokenInvariant == RequestsSpec => []TokenInv
  BY TokenInit, TokenNext, PTL DEF RequestsSpec

\* Every row and every request under way keeps its type (the tables of Prisma's schema that
\* OrganizationRequests and Accounts stand for).
THEOREM RequestTypesHold == RequestsSpec => []RequestsTypeOK
<1>1. TokenInv => RequestsTypeOK
  BY DEF TokenInv
<1> QED
  BY <1>1, TokenInvariant, PTL

\* A mailed token opens one session at most, however many requests redeem its link, match its
\* code, burn it or let it expire (email-auth.repository.ts).
THEOREM TokensAreUsedOnce == RequestsSpec => []TokenIsUsedOnce
<1>1. TokenInv => TokenIsUsedOnce
  BY DEF TokenInv
<1> QED
  BY <1>1, TokenInvariant, PTL

LEMMA ExpiredRow ==
    ASSUME requests \in [OrganizationRequests -> RequestRows], NEW scope,
           NEW r \in OrganizationRequests
    PROVE  IF r \in scope /\ requests[r].old /\ requests[r].status = "PENDING"
           THEN ExpireStalePending(scope)[r].status = "EXPIRED"
           ELSE ExpireStalePending(scope)[r] = requests[r]
<1>1. requests[r] \in RequestRows
  OBVIOUS
<1> QED
  BY <1>1 DEF ExpireStalePending, RequestRows

\* What one step may do to a request.
Decided(r) ==
    /\ requests[r].status \in {"APPROVED", "deleted"} => requests'[r] = requests[r]
    /\ requests[r].status \in {"REJECTED", "EXPIRED"} =>
         requests'[r].status \in {requests[r].status, "deleted"}
    /\ organizations'[r] # organizations[r] =>
         requests[r].status = "PENDING" /\ requests'[r].status = "APPROVED"

LEMMA StepDecides ==
    ASSUME TokenInv, [RequestsNext]_allVars, NEW r \in OrganizationRequests
    PROVE  Decided(r)
<1>1. /\ requests \in [OrganizationRequests -> RequestRows] /\ requests[r] \in RequestRows
      /\ organizations \in [OrganizationRequests -> Nat]
  BY DEF TokenInv, RequestsTypeOK
<1>2. CASE UNCHANGED requestVars
  BY <1>2 DEF Decided, requestVars
<1>3. ASSUME NEW scope, requests' = ExpireStalePending(scope), UNCHANGED organizations
      PROVE  Decided(r)
  BY <1>1, <1>3, ExpiredRow DEF Decided
<1>4. ASSUME NEW rows, NEW new \in OrganizationRequests, NEW u, NEW scope,
             rows = requests \/ rows = ExpireStalePending(scope),
             requests[new].status = "none", requests' = Submitted(rows, new, u),
             UNCHANGED organizations
      PROVE  Decided(r)
  <2>1. rows \in [OrganizationRequests -> RequestRows]
    BY <1>1, <1>4, ExpiredIsTyped
  <2>2. r # new => requests'[r] = rows[r]
    BY <1>4, <2>1 DEF Submitted
  <2>3. CASE r = new
    BY <1>4, <2>3 DEF Decided
  <2>4. CASE r # new
    BY <1>1, <1>4, <2>2, <2>4, ExpiredRow DEF Decided
  <2> QED
    BY <2>3, <2>4
<1>5. ASSUME NEW w \in Workers, CreateRequest(w) PROVE Decided(r)
  <2>1. UNCHANGED organizations
    BY <1>5 DEF CreateRequest
  <2>2. CASE UNCHANGED requests
    BY <1>2, <2>1, <2>2 DEF requestVars
  <2>3. ASSUME NEW new \in OrganizationRequests, requests[new].status = "none",
               requests' = Submitted(requests, new, request[w].user)
        PROVE  Decided(r)
    BY <1>4, <2>1, <2>3
  <2> QED
    BY <1>5, <2>2, <2>3 DEF CreateRequest
<1>6. ASSUME NEW w \in Workers, Approve(w) PROVE Decided(r)
  <2> DEFINE q == request[w].request
  <2>1. CASE UNCHANGED <<requests, organizations>>
    BY <1>2, <2>1 DEF requestVars
  <2>2. CASE /\ requests[q].status = "PENDING"
             /\ requests' = [requests EXCEPT ![q].status = "APPROVED"]
             /\ organizations' = [organizations EXCEPT ![q] = @ + 1]
    <3>1. CASE r = q
      <4>1. requests'[r] = [requests[r] EXCEPT !.status = "APPROVED"]
        BY <1>1, <2>2, <3>1
      <4>2. requests'[r].status = "APPROVED"
        BY <1>1, <4>1 DEF RequestRows
      <4> QED
        BY <2>2, <3>1, <4>2 DEF Decided
    <3>2. CASE r # q
      <4>1. requests'[r] = requests[r] /\ organizations'[r] = organizations[r]
        BY <1>1, <2>2, <3>2
      <4> QED
        BY <4>1 DEF Decided
    <3> QED
      BY <3>1, <3>2
  <2> QED
    BY <1>6, <2>1, <2>2 DEF Approve
<1>7. ASSUME NEW q \in OrganizationRequests, GrowOld(q) PROVE Decided(r)
  <2>1. /\ requests'[r].status = requests[r].status /\ organizations' = organizations
        /\ requests[r].status # "PENDING" => requests'[r] = requests[r]
    BY <1>1, <1>7 DEF GrowOld, RequestRows
  <2> QED
    BY <2>1 DEF Decided
<1>8. ASSUME NEW q \in OrganizationRequests, DeleteFromHistory(q) PROVE Decided(r)
  BY <1>1, <1>8 DEF DeleteFromHistory, Decided
<1>9. ASSUME NEW q \in OrganizationRequests, Reject(q) PROVE Decided(r)
  <2> DEFINE rows == ExpireStalePending({q})
  <2>1. rows \in [OrganizationRequests -> RequestRows]
    BY <1>1, ExpiredIsTyped
  <2>2. requests[q].status = "PENDING" /\ UNCHANGED organizations
    BY <1>9 DEF Reject
  <2>3. r # q => requests'[r] = rows[r]
    BY <1>9, <2>1 DEF Reject
  <2>4. CASE r = q
    BY <2>2, <2>4 DEF Decided
  <2>5. CASE r # q
    BY <1>1, <2>2, <2>3, <2>5, ExpiredRow DEF Decided
  <2> QED
    BY <2>4, <2>5
<1>10. ASSUME NEW q \in OrganizationRequests, NEW u \in Users, ResubmitExpired(q, u)
       PROVE  Decided(r)
  BY <1>4, <1>10 DEF ResubmitExpired
<1>11. ASSUME NEW scope, ListRequests(scope) PROVE Decided(r)
  BY <1>3, <1>11 DEF ListRequests
<1>12. ASSUME NEW w \in Workers,
              \/ \E u \in Users : AskForOrganization(w, u)
              \/ \E q \in OrganizationRequests : AskToApprove(w, q)
       PROVE  Decided(r)
  BY <1>3, <1>12 DEF AskForOrganization, AskToApprove
<1>13. CASE UNCHANGED allVars
  BY <1>2, <1>13 DEF allVars
<1> QED
  BY <1>2, <1>5, <1>6, <1>7, <1>8, <1>9, <1>10, <1>11, <1>12, <1>13 DEF RequestsNext

\* A request founds one organization at most and what was decided of it stays, for any number of
\* administrators, submissions and expirations (organization-requests.repository.ts).
THEOREM RequestsAreDecidedOnce == RequestsSpec => RequestIsDecidedOnce
<1>1. TokenInv /\ [RequestsNext]_allVars => [\A r \in OrganizationRequests : Decided(r)]_allVars
  BY StepDecides
<1>2. RequestsSpec => [][\A r \in OrganizationRequests : Decided(r)]_allVars
  BY <1>1, TokenInvariant, PTL DEF RequestsSpec
<1> QED
  BY <1>2 DEF RequestIsDecidedOnce, Decided

-----------------------------------------------------------------------------
(* Addresses and ways in. *)

\* Who exists has an address of his own, if any; who does not has none.
AddressesAreUnique ==
    /\ \A u \in Users :
          ~users[u].exists => users[u].address = NoAddress /\ ~users[u].verified
    /\ \A u, v \in Users :
          u # v /\ users[u].address # NoAddress => users[u].address # users[v].address

\* An email account is that of the address its user has.
MailIsOfItsAddress ==
    \A a \in Addresses :
        mail[a] # NoUser /\ mail[a] \notin overtaken => users[mail[a]].address = a

\* A verification is of a user that exists.
TokenUsersExist ==
    \A t \in Tokens :
        tokens[t].status # "none" /\ tokens[t].purpose = "verify_email" =>
            users[tokens[t].user].exists

\* What a request under way has read of its user stands, unless another has overtaken it: a
\* verification has the user's address, and what a removal leaves is a way in.
StandsAt(w) ==
    LET u == request[w].user
    IN  /\ request[w].step = "verifying" =>
              users[u].exists /\ (u \in overtaken \/ users[u].address = request[w].address)
        /\ request[w].step \in {"dropping", "moving"} =>
              /\ users[u].exists
              /\ u \in overtaken \/ passkeys[u] # {} \/ u \in TelegramUsers
        /\ request[w].step = "removing" =>
              \/ u \in overtaken \/ Mailboxes(u) # {} \/ u \in TelegramUsers
              \/ passkeys[u] \ {request[w].passkey} # {}

RowsStand ==
    /\ AddressesAreUnique /\ MailIsOfItsAddress
    /\ VerifiedAddressIsOwned /\ SignInMethodRemains

WaysInv ==
    /\ RowsStand /\ TokenUsersExist
    /\ \A w \in Workers : StandsAt(w)

LEMMA InitWays == RequestsInit => WaysInv
<1> SUFFICES ASSUME RequestsInit PROVE WaysInv
  OBVIOUS
<1>1. /\ users = InitialUsers /\ mail = InitialMail
      /\ \A w \in Workers : request[w].step = "idle"
      /\ \A t \in Tokens : tokens[t].status = "none"
  BY DEF RequestsInit, AccountsInit, Idle, NewToken
<1>2. /\ \A u \in Users : InitialUsers[u].exists => u \in TelegramUsers \/ Mailboxes(u) # {}
      /\ \A u \in Users : ~InitialUsers[u].exists =>
                             InitialUsers[u].address = NoAddress /\ ~InitialUsers[u].verified
  BY <1>1, InitialAccountsAssumption DEF InitialAccountsAssumption, Mailboxes
<1>3. AddressesAreUnique
  BY <1>1, <1>2, InitialAccountsAssumption DEF InitialAccountsAssumption, AddressesAreUnique
<1>4. MailIsOfItsAddress
  BY <1>1, InitialAccountsAssumption DEF InitialAccountsAssumption, MailIsOfItsAddress
<1>5. VerifiedAddressIsOwned
  BY <1>1, InitialAccountsAssumption, AccountsAssumption
  DEF InitialAccountsAssumption, AccountsAssumption, VerifiedAddressIsOwned
<1>6. SignInMethodRemains
  BY <1>1, <1>2 DEF SignInMethodRemains, HasMethod
<1> QED
  BY <1>1, <1>3, <1>4, <1>5, <1>6 DEF WaysInv, RowsStand, TokenUsersExist, StandsAt

\* The steps of a request that rely on what it has read.
Relying == {"verifying"} \cup Removals

LEMMA ReleasedStands ==
    ASSUME NEW w \in Workers, request'[w].step \notin Relying PROVE StandsAt(w)'
  BY DEF StandsAt, Relying, Removals

\* What a step of another request must leave for that of v to stand.
Leaves(v) ==
    \A u \in Users :
        u = request[v].user =>
            /\ request[v].step = "verifying" =>
                  u \in overtaken' \/ users'[u].address = users[u].address
            /\ request[v].step \in Removals =>
                  \/ u \in overtaken'
                  \/ passkeys[u] \subseteq passkeys'[u] /\ Mailboxes(u) \subseteq Mailboxes(u)'

UsersStay == (\A u \in Users : users[u].exists => users'[u].exists) /\ overtaken \subseteq overtaken'

LEMMA OtherStands ==
    ASSUME TokenInv, NEW v \in Workers, request'[v] = request[v], StandsAt(v), Leaves(v), UsersStay
    PROVE  StandsAt(v)'
<1>1. CASE request[v].step \notin Relying
  BY <1>1, ReleasedStands
<1>2. CASE request[v].step \in Relying
  <2>1. request[v].user \in Users
    BY <1>2 DEF Relying, Removals, TokenInv, StepsAreNamed
  <2>2. PICK u \in Users : u = request[v].user
    BY <2>1
  <2>3. request'[v].user = u
    BY <2>2
  <2>4. CASE request[v].step = "verifying"
    <3>1. users[u].exists /\ (u \in overtaken \/ users[u].address = request[v].address)
      BY <2>2, <2>4 DEF StandsAt
    <3>2. users'[u].exists /\ (u \in overtaken' \/ users'[u].address = request'[v].address)
      BY <2>2, <2>4, <3>1 DEF Leaves, UsersStay
    <3> QED
      BY <2>3, <2>4, <3>2 DEF StandsAt
  <2>5. CASE request[v].step \in {"dropping", "moving"}
    <3>1. users[u].exists /\ (u \in overtaken \/ passkeys[u] # {} \/ u \in TelegramUsers)
      BY <2>2, <2>5 DEF StandsAt
    <3>2. users'[u].exists /\ (u \in overtaken' \/ passkeys'[u] # {} \/ u \in TelegramUsers)
      BY <2>2, <2>5, <3>1 DEF Leaves, UsersStay, Removals
    <3> QED
      BY <2>3, <2>5, <3>2 DEF StandsAt
  <2>6. CASE request[v].step = "removing"
    <3>1. \/ u \in overtaken \/ Mailboxes(u) # {} \/ u \in TelegramUsers
          \/ passkeys[u] \ {request[v].passkey} # {}
      BY <2>2, <2>6 DEF StandsAt
    <3>2. \/ u \in overtaken' \/ Mailboxes(u)' # {} \/ u \in TelegramUsers
          \/ passkeys'[u] \ {request'[v].passkey} # {}
      BY <2>2, <2>6, <3>1 DEF Leaves, UsersStay, Removals
    <3>3. Mailboxes(u)' = {a \in Addresses : mail'[a] = request'[v].user}
      BY <2>3 DEF Mailboxes
    <3> QED
      BY <2>3, <2>6, <3>2, <3>3 DEF StandsAt, Mailboxes
  <2> QED
    BY <1>2, <2>4, <2>5, <2>6 DEF Relying, Removals
<1> QED
  BY <1>1, <1>2

\* The tokens of a verification stay those they were.
TokensStay ==
    \A t \in Tokens :
        tokens'[t].status # "none" /\ tokens'[t].purpose = "verify_email" =>
            /\ tokens[t].status # "none" /\ tokens[t].purpose = "verify_email"
            /\ tokens'[t].user = tokens[t].user

LEMMA TokenUsersStay ==
    ASSUME TokenInv, TokenUsersExist, TokensStay, UsersStay PROVE TokenUsersExist'
  BY DEF TokenInv, TokensAreAddressed, TokenUsersExist, TokensStay, UsersStay

QuietRows == <<users, mail, passkeys, overtaken>>

\* A step that changes no row of an account, but the request of one worker.
LEMMA QuietStands ==
    ASSUME TokenInv, WaysInv, UNCHANGED QuietRows, TokenUsersExist',
           \A v \in Workers : request'[v] = request[v] \/ StandsAt(v)'
    PROVE  WaysInv'
<1>1. RowsStand'
  BY DEF WaysInv, QuietRows, RowsStand, AddressesAreUnique, MailIsOfItsAddress,
     VerifiedAddressIsOwned, SignInMethodRemains, HasMethod, Mailboxes
<1>2. UsersStay
  BY DEF QuietRows, UsersStay
<1>3. ASSUME NEW v \in Workers PROVE StandsAt(v)'
  <2>1. Leaves(v) /\ StandsAt(v)
    BY DEF Leaves, QuietRows, Mailboxes, WaysInv
  <2> QED
    BY <1>2, <2>1, OtherStands
<1> QED
  BY <1>1, <1>3 DEF WaysInv

\* A step that does not touch the tokens either.
LEMMA QuietTokensStand ==
    ASSUME TokenInv, WaysInv, UNCHANGED QuietRows, UNCHANGED tokens,
           \A v \in Workers : request'[v] = request[v] \/ StandsAt(v)'
    PROVE  WaysInv'
<1>1. TokensStay /\ UsersStay
  BY DEF TokensStay, UsersStay, QuietRows
<1>2. TokenUsersExist'
  BY <1>1, TokenUsersStay DEF WaysInv
<1> QED
  BY <1>2, QuietStands

-----------------------------------------------------------------------------
(* The steps that change the rows of an account. *)

LEMMA AccountRowsTyped ==
    ASSUME TokenInv
    PROVE  /\ users \in [Users -> UserRows] /\ mail \in [Addresses -> Users \cup {NoUser}]
           /\ passkeys \in [Users -> SUBSET Passkeys] /\ overtaken \subseteq Users
           /\ NoUser \notin Users /\ NoAddress \notin Addresses
  BY AccountsAssumption DEF TokenInv, RequestsTypeOK, AccountsTypeOK, AccountsAssumption

\* An email account goes to the user who has the address, or who was overtaken; whoever had it
\* before is the same, or was overtaken.
LEMMA ConfirmedRows ==
    ASSUME TokenInv, WaysInv, NEW u \in Users, NEW a \in Addresses, users[u].exists,
           users' = [users EXCEPT ![u].verified = TRUE], mail' = [mail EXCEPT ![a] = u],
           UNCHANGED passkeys, overtaken \subseteq overtaken',
           u \in overtaken' \/ users[u].address = a,
           mail[a] \in overtaken' \cup {u, NoUser}
    PROVE  /\ RowsStand' /\ UsersStay
           /\ \A x \in Users : /\ users'[x].address = users[x].address
                               /\ x \in overtaken' \/ Mailboxes(x) \subseteq Mailboxes(x)'
<1>1. /\ users \in [Users -> UserRows] /\ mail \in [Addresses -> Users \cup {NoUser}]
      /\ NoUser \notin Users /\ NoAddress \notin Addresses
  BY AccountRowsTyped
<1>2. /\ \A x \in Users : users'[x].exists = users[x].exists /\ users'[x].address = users[x].address
      /\ \A x \in Users \ {u} : users'[x] = users[x]
  BY <1>1 DEF UserRows
<1>3. mail'[a] = u /\ \A b \in Addresses \ {a} : mail'[b] = mail[b]
  BY <1>1
<1>4. \A x \in Users : x \in overtaken' \/ Mailboxes(x) \subseteq Mailboxes(x)'
  BY <1>1, <1>3 DEF Mailboxes
<1>5. AddressesAreUnique'
  BY <1>2 DEF WaysInv, RowsStand, AddressesAreUnique
<1>6. MailIsOfItsAddress'
  <2> SUFFICES ASSUME NEW b \in Addresses, mail'[b] # NoUser, mail'[b] \notin overtaken'
               PROVE  users'[mail'[b]].address = b
    BY DEF MailIsOfItsAddress
  <2>1. CASE b = a
    BY <1>2, <1>3, <2>1
  <2>2. CASE b # a
    <3>1. mail'[b] = mail[b] /\ mail[b] \in Users
      BY <1>1, <1>3, <2>2
    <3>2. users[mail[b]].address = b
      BY <3>1 DEF WaysInv, RowsStand, MailIsOfItsAddress
    <3> QED
      BY <1>2, <3>1, <3>2
  <2> QED
    BY <2>1, <2>2
<1>7. VerifiedAddressIsOwned'
  <2> SUFFICES ASSUME NEW x \in Users, x \notin overtaken', users'[x].verified
               PROVE  users'[x].address # NoAddress /\ mail'[users'[x].address] = x
    BY DEF VerifiedAddressIsOwned
  <2>1. CASE x = u
    BY <1>1, <1>2, <1>3, <2>1
  <2>2. CASE x # u
    <3>1. users[x].verified /\ x \notin overtaken
      BY <1>2, <2>2
    <3>2. users[x].address \in Addresses /\ mail[users[x].address] = x
      BY <1>1, <3>1 DEF WaysInv, RowsStand, VerifiedAddressIsOwned, UserRows
    <3>3. users[x].address # a
      BY <1>1, <2>2, <3>2
    <3> QED
      BY <1>1, <1>2, <1>3, <3>2, <3>3
  <2> QED
    BY <2>1, <2>2
<1>8. SignInMethodRemains'
  BY <1>2, <1>4 DEF WaysInv, RowsStand, SignInMethodRemains, HasMethod
<1> QED
  BY <1>2, <1>4, <1>5, <1>6, <1>7, <1>8 DEF RowsStand, UsersStay

\* Who has an email account of an address and was not overtaken is who has the address.
LEMMA MailOwner ==
    ASSUME TokenInv, WaysInv, NEW u \in Users, NEW a \in Addresses, users[u].address = a
    PROVE  mail[a] \in overtaken \cup {u, NoUser}
<1>1. CASE mail[a] \in Users \ overtaken
  <2>1. users[mail[a]].address = a
    BY <1>1, AccountRowsTyped DEF WaysInv, RowsStand, MailIsOfItsAddress
  <2>2. mail[a] = u
    BY <1>1, <2>1, AccountRowsTyped DEF WaysInv, RowsStand, AddressesAreUnique
  <2> QED
    BY <2>2
<1> QED
  BY <1>1, AccountRowsTyped

\* A row step of the worker w stands when what the others read does.
LEMMA RowStepStands ==
    ASSUME TokenInv, WaysInv, NEW w \in Workers,
           \A v \in Workers \ {w} : request'[v] = request[v],
           request'[w].step \notin Relying,
           RowsStand', UsersStay, TokensStay, \A v \in Workers \ {w} : Leaves(v)
    PROVE  WaysInv'
<1>1. TokenUsersExist'
  BY TokenUsersStay DEF WaysInv
<1>2. ASSUME NEW v \in Workers PROVE StandsAt(v)'
  <2>1. CASE v = w
    BY <2>1, ReleasedStands
  <2>2. CASE v # w
    BY <2>2, OtherStands DEF WaysInv
  <2> QED
    BY <2>1, <2>2
<1> QED
  BY <1>1, <1>2 DEF WaysInv

LEMMA OvertakenGrows ==
    ASSUME NEW w, NEW u, NEW steps, Overtake(w, u, steps)
    PROVE  /\ overtaken \subseteq overtaken' /\ overtaken' \subseteq overtaken \cup {u}
           /\ \A v \in Workers \ {w} :
                 request[v].step \in steps /\ request[v].user = u => u \in overtaken'
  BY DEF Overtake, Others

LEMMA CreateAdmittedStands ==
    ASSUME TokenInv, WaysInv, NEW w \in Workers, CreateAdmittedEmailUser(w) PROVE WaysInv'
<1> DEFINE a == request[w].address
<1>1. /\ request[w].step = "creating" /\ a \in Addresses
      /\ UNCHANGED <<passkeys, tokens, overtaken>>
  BY DEF CreateAdmittedEmailUser, TokenInv, StepsAreNamed
<1>2. request'[w].step \notin Relying /\ \A v \in Workers \ {w} : request'[v] = request[v]
  <2>1. Finish(w) \/ Goto(w, "finding")
    BY DEF CreateAdmittedEmailUser
  <2> QED
    BY <1>1, <2>1, FinishedRow, GoneRow DEF Relying, Removals
<1>3. CASE UNCHANGED <<users, mail>>
  BY <1>1, <1>2, <1>3, QuietTokensStand, ReleasedStands DEF QuietRows
<1>4. ASSUME NEW u \in Users, ~users[u].exists, Holders(a) = {}, mail[a] = NoUser,
             users' = [users EXCEPT ![u] = [exists |-> TRUE, address |-> a, verified |-> TRUE]],
             mail' = [mail EXCEPT ![a] = u]
      PROVE  WaysInv'
  <2>1. /\ users \in [Users -> UserRows] /\ mail \in [Addresses -> Users \cup {NoUser}]
        /\ NoUser \notin Users /\ NoAddress \notin Addresses
    BY AccountRowsTyped
  <2>2. /\ users'[u] = [exists |-> TRUE, address |-> a, verified |-> TRUE]
        /\ \A x \in Users \ {u} : users'[x] = users[x]
    BY <1>4, <2>1
  <2> HIDE DEF a
  <2>3. mail'[a] = u /\ \A b \in Addresses \ {a} : mail'[b] = mail[b]
    BY <1>1, <1>4, <2>1
  <2>4. \A x \in Users : Mailboxes(x) \subseteq Mailboxes(x)'
    BY <1>4, <2>1, <2>3 DEF Mailboxes
  <2>5. \A x \in Users : users[x].address # a
    BY <1>1, <1>4, <2>1 DEF Holders, WaysInv, RowsStand, AddressesAreUnique
  <2>6. users[u].address = NoAddress /\ UsersStay
    BY <1>1, <1>4, <2>2 DEF WaysInv, RowsStand, AddressesAreUnique, UsersStay
  <2>7. AddressesAreUnique'
    BY <2>2, <2>5 DEF WaysInv, RowsStand, AddressesAreUnique
  <2>8. MailIsOfItsAddress'
    <3> SUFFICES ASSUME NEW b \in Addresses, mail'[b] # NoUser, mail'[b] \notin overtaken
                 PROVE  users'[mail'[b]].address = b
      BY <1>1 DEF MailIsOfItsAddress
    <3>1. CASE b = a
      BY <2>2, <2>3, <3>1
    <3>2. CASE b # a
      <4>1. mail'[b] = mail[b] /\ users[mail[b]].address = b
        BY <2>3, <3>2 DEF WaysInv, RowsStand, MailIsOfItsAddress
      <4> QED
        BY <2>1, <2>2, <2>6, <4>1
    <3> QED
      BY <3>1, <3>2
  <2>9. VerifiedAddressIsOwned'
    <3> SUFFICES ASSUME NEW x \in Users, x \notin overtaken, users'[x].verified
                 PROVE  users'[x].address # NoAddress /\ mail'[users'[x].address] = x
      BY <1>1 DEF VerifiedAddressIsOwned
    <3>1. CASE x = u
      BY <1>1, <2>1, <2>2, <2>3, <3>1
    <3>2. CASE x # u
      <4>1. users[x].address \in Addresses /\ mail[users[x].address] = x
        BY <2>1, <2>2, <3>2 DEF WaysInv, RowsStand, VerifiedAddressIsOwned, UserRows
      <4> QED
        BY <2>1, <2>2, <2>3, <2>5, <3>2, <4>1
    <3> QED
      BY <3>1, <3>2
  <2>10. SignInMethodRemains'
    <3> SUFFICES ASSUME NEW x \in Users, x \notin overtaken, users'[x].exists PROVE HasMethod(x)'
      BY <1>1 DEF SignInMethodRemains
    <3>1. CASE x = u
      <4>1. a \in Mailboxes(u)'
        BY <1>1, <2>3 DEF Mailboxes
      <4> QED
        BY <3>1, <4>1 DEF HasMethod
    <3>2. CASE x # u
      BY <1>1, <2>2, <2>4, <3>2 DEF WaysInv, RowsStand, SignInMethodRemains, HasMethod
    <3> QED
      BY <3>1, <3>2
  <2>11. RowsStand' /\ TokensStay
    BY <1>1, <2>7, <2>8, <2>9, <2>10 DEF RowsStand, TokensStay
  <2>12. ASSUME NEW v \in Workers PROVE Leaves(v)
    <3>1. request[v].step = "verifying" => users[request[v].user].exists
      BY DEF WaysInv, StandsAt
    <3> QED
      BY <1>1, <1>4, <2>2, <2>4, <3>1 DEF Leaves
  <2> QED
    BY <1>2, <2>6, <2>11, <2>12, RowStepStands
<1> QED
  BY <1>3, <1>4 DEF CreateAdmittedEmailUser

LEMMA ConfirmStands ==
    ASSUME TokenInv, WaysInv, NEW w \in Workers, ConfirmEmailIdentity(w) PROVE WaysInv'
<1>1. PICK u \in Users, a \in Addresses : u = request[w].user /\ a = request[w].address
  BY DEF ConfirmEmailIdentity, TokenInv, StepsAreNamed
<1>2. UNCHANGED <<passkeys, tokens, sessions>> /\ Goto(w, "opening") /\ request[w].step = "confirming"
  BY DEF ConfirmEmailIdentity
<1>3. request'[w].step \notin Relying /\ \A v \in Workers \ {w} : request'[v] = request[v]
  BY <1>2, GoneRow DEF Relying, Removals
<1>4. CASE users[u].address # a
  <2>1. UNCHANGED <<users, mail, overtaken>>
    BY <1>1, <1>4 DEF ConfirmEmailIdentity
  <2> QED
    BY <1>2, <1>3, <2>1, QuietTokensStand, ReleasedStands DEF QuietRows
<1>5. CASE users[u].address = a
  <2>1. /\ users' = [users EXCEPT ![u].verified = TRUE] /\ mail' = [mail EXCEPT ![a] = u]
        /\ Overtake(w, u, {"moving"})
    BY <1>1, <1>5 DEF ConfirmEmailIdentity
  <2>2. overtaken \subseteq overtaken'
    BY <2>1, OvertakenGrows
  <2>3. users[u].exists
    BY <1>5, AccountRowsTyped DEF WaysInv, RowsStand, AddressesAreUnique
  <2>4. mail[a] \in overtaken' \cup {u, NoUser}
    BY <1>5, <2>2, MailOwner
  <2>5. /\ RowsStand' /\ UsersStay
        /\ \A x \in Users : /\ users'[x].address = users[x].address
                            /\ x \in overtaken' \/ Mailboxes(x) \subseteq Mailboxes(x)'
    BY <1>2, <1>5, <2>1, <2>2, <2>3, <2>4, ConfirmedRows
  <2>6. TokensStay /\ \A v \in Workers : Leaves(v)
    BY <1>2, <2>5 DEF TokensStay, Leaves
  <2> QED
    BY <1>3, <2>5, <2>6, RowStepStands
<1> QED
  BY <1>4, <1>5

LEMMA VerificationStands ==
    ASSUME TokenInv, WaysInv, NEW w \in Workers, ConsumeVerificationToken(w) PROVE WaysInv'
<1>1. PICK u \in Users, a \in Addresses, t \in Tokens :
         u = request[w].user /\ a = request[w].address /\ t = request[w].token
  BY DEF ConsumeVerificationToken, TokenInv, StepsAreNamed
<1>2. /\ tokens' = [tokens EXCEPT ![t].status = "used"] /\ UNCHANGED passkeys
      /\ users' = [users EXCEPT ![u].verified = TRUE] /\ mail' = [mail EXCEPT ![a] = u]
      /\ Finish(w) /\ request[w].step = "verifying"
  BY <1>1 DEF ConsumeVerificationToken
<1>3. request'[w].step \notin Relying /\ \A v \in Workers \ {w} : request'[v] = request[v]
  BY <1>2, FinishedRow DEF Relying, Removals
<1>4. users[u].exists /\ (u \in overtaken \/ users[u].address = a)
  BY <1>1, <1>2 DEF WaysInv, StandsAt
<1>5. /\ overtaken \subseteq overtaken'
      /\ users[u].address # a => {mail[a]} \ {NoUser} \subseteq overtaken'
  BY <1>1 DEF ConsumeVerificationToken
<1>6. mail[a] \in overtaken' \cup {u, NoUser}
  <2>1. CASE users[u].address = a
    BY <1>5, <2>1, MailOwner
  <2>2. CASE users[u].address # a
    BY <1>5, <2>2
  <2> QED
    BY <2>1, <2>2
<1>7. /\ RowsStand' /\ UsersStay
      /\ \A x \in Users : /\ users'[x].address = users[x].address
                          /\ x \in overtaken' \/ Mailboxes(x) \subseteq Mailboxes(x)'
  BY <1>2, <1>4, <1>5, <1>6, ConfirmedRows
<1>8. TokensStay
  <2>1. tokens[t].status = "live" /\ tokens \in [Tokens -> TokenRows]
    BY <1>1, <1>2 DEF TokenInv, VerifyingIsLive, RequestsTypeOK, AccountsTypeOK
  <2> QED
    BY <1>2, <2>1 DEF TokensStay, TokenRows
<1>9. \A v \in Workers : Leaves(v)
  BY <1>2, <1>7 DEF Leaves
<1> QED
  BY <1>3, <1>7, <1>8, <1>9, RowStepStands

LEMMA MoveStands ==
    ASSUME TokenInv, WaysInv, NEW w \in Workers, MoveAddress(w) PROVE WaysInv'
<1>1. PICK u \in Users : u = request[w].user
  BY DEF MoveAddress, TokenInv, StepsAreNamed
<1>2. PICK a : a = request[w].address
  OBVIOUS
<1>3. UNCHANGED <<passkeys, tokens, sessions>> /\ Finish(w) /\ request[w].step = "moving"
  BY DEF MoveAddress
<1>4. request'[w].step \notin Relying /\ \A v \in Workers \ {w} : request'[v] = request[v]
  BY <1>3, FinishedRow DEF Relying, Removals
<1>5. CASE UNCHANGED <<users, mail, overtaken>>
  BY <1>3, <1>4, <1>5, QuietTokensStand, ReleasedStands DEF QuietRows
<1>6. CASE ~UNCHANGED <<users, mail, overtaken>>
  <2>1. /\ a = NoAddress \/ Holders(a) \ {u} = {}
        /\ users' = [users EXCEPT ![u].address = a, ![u].verified = FALSE]
        /\ mail' = [b \in Addresses |-> IF mail[b] = u THEN NoUser ELSE mail[b]]
        /\ Overtake(w, u, Removals \cup {"verifying"})
    BY <1>1, <1>2, <1>6 DEF MoveAddress
  <2>2. /\ overtaken \subseteq overtaken'
        /\ \A v \in Workers \ {w} :
              request[v].step \in Relying /\ request[v].user = u => u \in overtaken'
    BY <2>1, OvertakenGrows DEF Relying
  <2>3. /\ users \in [Users -> UserRows] /\ mail \in [Addresses -> Users \cup {NoUser}]
        /\ NoUser \notin Users /\ NoAddress \notin Addresses
    BY AccountRowsTyped
  <2>4. /\ users'[u].exists = users[u].exists /\ users'[u].address = a /\ ~users'[u].verified
        /\ \A x \in Users \ {u} : users'[x] = users[x]
    BY <2>1, <2>3 DEF UserRows
  <2>5. users[u].exists /\ (u \in overtaken \/ passkeys[u] # {} \/ u \in TelegramUsers)
    BY <1>1, <1>3 DEF WaysInv, StandsAt
  <2>6. \A x \in Users \ {u} : Mailboxes(x) \subseteq Mailboxes(x)'
    BY <2>1, <2>3 DEF Mailboxes
  <2>7. UsersStay
    BY <2>2, <2>4 DEF UsersStay
  <2>8. AddressesAreUnique'
    <3>1. \A x \in Users \ {u} : a # NoAddress => users[x].address # a
      BY <2>1 DEF Holders, WaysInv, RowsStand, AddressesAreUnique
    <3>2. \A x \in Users : ~users'[x].exists =>
                              users'[x].address = NoAddress /\ ~users'[x].verified
      BY <2>4, <2>5 DEF WaysInv, RowsStand, AddressesAreUnique
    <3>3. \A x, y \in Users : x # y /\ users'[x].address # NoAddress =>
                                 users'[x].address # users'[y].address
      BY <2>4, <3>1 DEF WaysInv, RowsStand, AddressesAreUnique
    <3> QED
      BY <3>2, <3>3 DEF AddressesAreUnique
  <2>9. MailIsOfItsAddress'
    <3> SUFFICES ASSUME NEW b \in Addresses, mail'[b] # NoUser, mail'[b] \notin overtaken'
                 PROVE  users'[mail'[b]].address = b
      BY DEF MailIsOfItsAddress
    <3>1. mail'[b] = mail[b] /\ mail[b] \in Users \ {u}
      BY <2>1, <2>3
    <3>2. users[mail[b]].address = b
      BY <2>2, <3>1 DEF WaysInv, RowsStand, MailIsOfItsAddress
    <3> QED
      BY <2>4, <3>1, <3>2
  <2>10. VerifiedAddressIsOwned'
    <3> SUFFICES ASSUME NEW x \in Users, x \notin overtaken', users'[x].verified
                 PROVE  users'[x].address # NoAddress /\ mail'[users'[x].address] = x
      BY DEF VerifiedAddressIsOwned
    <3>1. x # u /\ users'[x] = users[x] /\ x \notin overtaken
      BY <2>2, <2>4
    <3>2. users[x].address \in Addresses /\ mail[users[x].address] = x
      BY <2>3, <3>1 DEF WaysInv, RowsStand, VerifiedAddressIsOwned, UserRows
    <3> QED
      BY <2>1, <2>3, <3>1, <3>2
  <2>11. SignInMethodRemains'
    <3> SUFFICES ASSUME NEW x \in Users, x \notin overtaken', users'[x].exists PROVE HasMethod(x)'
      BY DEF SignInMethodRemains
    <3>1. CASE x = u
      BY <1>3, <2>2, <2>5, <3>1 DEF HasMethod
    <3>2. CASE x # u
      BY <1>3, <2>2, <2>4, <2>6, <3>2 DEF WaysInv, RowsStand, SignInMethodRemains, HasMethod
    <3> QED
      BY <3>1, <3>2
  <2>12. RowsStand' /\ TokensStay
    BY <1>3, <2>8, <2>9, <2>10, <2>11 DEF RowsStand, TokensStay
  <2>13. ASSUME NEW v \in Workers \ {w} PROVE Leaves(v)
    BY <1>3, <2>2, <2>4, <2>6 DEF Leaves, Relying
  <2> QED
    BY <1>4, <2>7, <2>12, <2>13, RowStepStands
<1> QED
  BY <1>5, <1>6

\* More passkeys leave what others have read of them.
LEMMA PasskeyStands ==
    ASSUME TokenInv, WaysInv, NEW u \in Users, NEW k \in Passkeys, CreatePasskey(u, k)
    PROVE  WaysInv'
<1>1. UNCHANGED <<users, mail, tokens, request, overtaken>>
  BY DEF CreatePasskey
<1>2. \A x \in Users : passkeys[x] \subseteq passkeys'[x] /\ Mailboxes(x) = Mailboxes(x)'
  BY <1>1, AccountRowsTyped DEF CreatePasskey, Mailboxes
<1>3. RowsStand'
  BY <1>1, <1>2 DEF WaysInv, RowsStand, AddressesAreUnique, MailIsOfItsAddress,
     VerifiedAddressIsOwned, SignInMethodRemains, HasMethod
<1>4. UsersStay /\ TokensStay /\ \A v \in Workers : Leaves(v)
  BY <1>1, <1>2 DEF UsersStay, TokensStay, Leaves
<1>5. TokenUsersExist'
  BY <1>4, TokenUsersStay DEF WaysInv
<1>6. \A v \in Workers : StandsAt(v)'
  BY <1>1, <1>4, OtherStands DEF WaysInv
<1> QED
  BY <1>3, <1>5, <1>6 DEF WaysInv

LEMMA RemovalStands ==
    ASSUME TokenInv, WaysInv, NEW w \in Workers, DeleteUnlessLastSignInMethod(w) PROVE WaysInv'
<1>1. PICK u \in Users : u = request[w].user
  BY DEF DeleteUnlessLastSignInMethod, TokenInv, StepsAreNamed
<1>2. /\ passkeys' = [passkeys EXCEPT ![u] = @ \ {request[w].passkey}]
      /\ Overtake(w, u, Removals) /\ Finish(w) /\ UNCHANGED <<users, mail, tokens>>
      /\ request[w].step = "removing"
  BY <1>1 DEF DeleteUnlessLastSignInMethod
<1>3. request'[w].step \notin Relying /\ \A v \in Workers \ {w} : request'[v] = request[v]
  BY <1>2, FinishedRow DEF Relying, Removals
<1>4. /\ overtaken \subseteq overtaken'
      /\ \A v \in Workers \ {w} :
            request[v].step \in Removals /\ request[v].user = u => u \in overtaken'
  BY <1>2, OvertakenGrows
<1>5. /\ passkeys'[u] = passkeys[u] \ {request[w].passkey}
      /\ \A x \in Users \ {u} : passkeys'[x] = passkeys[x]
  BY <1>2, AccountRowsTyped
<1>6. \A x \in Users : Mailboxes(x)' = Mailboxes(x)
  BY <1>2 DEF Mailboxes
<1>7. \/ u \in overtaken \/ Mailboxes(u) # {} \/ u \in TelegramUsers
      \/ passkeys[u] \ {request[w].passkey} # {}
  BY <1>1, <1>2 DEF WaysInv, StandsAt
<1>8. SignInMethodRemains'
  <2> SUFFICES ASSUME NEW x \in Users, x \notin overtaken', users'[x].exists PROVE HasMethod(x)'
    BY DEF SignInMethodRemains
  <2>1. CASE x = u
    BY <1>4, <1>5, <1>6, <1>7, <2>1 DEF HasMethod
  <2>2. CASE x # u
    BY <1>2, <1>4, <1>5, <1>6, <2>2 DEF WaysInv, RowsStand, SignInMethodRemains, HasMethod
  <2> QED
    BY <2>1, <2>2
<1>9. AddressesAreUnique' /\ MailIsOfItsAddress' /\ VerifiedAddressIsOwned'
  BY <1>2, <1>4 DEF WaysInv, RowsStand, AddressesAreUnique, MailIsOfItsAddress,
     VerifiedAddressIsOwned
<1>10. RowsStand' /\ UsersStay /\ TokensStay
  BY <1>2, <1>4, <1>8, <1>9 DEF RowsStand, UsersStay, TokensStay
<1>11. ASSUME NEW v \in Workers \ {w} PROVE Leaves(v)
  BY <1>2, <1>4, <1>5, <1>6 DEF Leaves
<1> QED
  BY <1>3, <1>10, <1>11, RowStepStands

-----------------------------------------------------------------------------
(* The steps that read, and the theorems. *)

\* A worker that goes on, or gives up, without relying on what it has read.
LEMMA ReleaseStands ==
    ASSUME TokenInv, WaysInv, NEW w \in Workers, UNCHANGED QuietRows, TokensStay,
           \A v \in Workers \ {w} : request'[v] = request[v],
           request'[w].step \notin Relying
    PROVE  WaysInv'
<1>1. TokenUsersExist'
  BY TokenUsersStay DEF WaysInv, UsersStay, QuietRows
<1>2. \A v \in Workers : request'[v] = request[v] \/ StandsAt(v)'
  BY ReleasedStands
<1> QED
  BY <1>1, <1>2, QuietStands

LEMMA UsedTokensStay ==
    ASSUME TokenInv, NEW t \in Tokens, NEW status, tokens[t].status = "live",
           tokens' = [tokens EXCEPT ![t].status = status]
    PROVE  TokensStay
  BY DEF TokensStay, TokenInv, RequestsTypeOK, AccountsTypeOK, TokenRows

\* More than one way in leaves another without the passkey that is removed.
LEMMA MethodsRemain ==
    ASSUME TokenInv, NEW u \in Users, NEW k, Methods(u) > 1
    PROVE  Mailboxes(u) # {} \/ u \in TelegramUsers \/ passkeys[u] \ {k} # {}
<1> SUFFICES ASSUME Mailboxes(u) = {}, u \notin TelegramUsers, passkeys[u] \ {k} = {} PROVE FALSE
  OBVIOUS
<1>1. Cardinality(Mailboxes(u)) = 0
  BY FS_EmptySet
<1>2. passkeys[u] = {} \/ passkeys[u] = {k}
  OBVIOUS
<1>3. Cardinality(passkeys[u]) \in {0, 1}
  BY <1>2, FS_EmptySet, FS_Singleton
<1> QED
  BY <1>1, <1>3 DEF Methods

\* What a worker reads before it relies on it stands when it has read it.
LEMMA ProfileStands ==
    ASSUME TokenInv, WaysInv, NEW w \in Workers, ProfileStep(w) PROVE WaysInv'
<1>1. ASSUME NEW t \in Tokens, FindVerifiedUser(w, t) PROVE WaysInv'
  <2>1. PICK u \in Users : u = tokens[t].user
    BY <1>1 DEF FindVerifiedUser, Live, TokenInv, TokensAreAddressed
  <2>2. /\ users[u].exists /\ UNCHANGED QuietRows /\ tokens[t].status = "live"
        /\ request[w] = Idle
    BY <1>1, <2>1 DEF FindVerifiedUser, Live, WaysInv, TokenUsersExist, QuietRows
  <2>3. CASE users[u].address = tokens[t].address
    <3> DEFINE r == [Idle EXCEPT !.step = "verifying", !.token = t, !.user = u,
                                 !.address = tokens[t].address]
    <3>1. r.step = "verifying" /\ r.user = u /\ r.address = tokens[t].address
      BY DEF Idle
    <3>2. request' = [request EXCEPT ![w] = r] /\ UNCHANGED tokens
      BY <1>1, <2>1, <2>3 DEF FindVerifiedUser
    <3> HIDE DEF r
    <3>3. request'[w] = r /\ \A v \in Workers \ {w} : request'[v] = request[v]
      BY <3>2, RowOfWorker
    <3>4. StandsAt(w)'
      BY <2>2, <2>3, <3>1, <3>3 DEF StandsAt, QuietRows
    <3> QED
      BY <2>2, <3>2, <3>3, <3>4, QuietTokensStand
  <2>4. CASE users[u].address # tokens[t].address
    <3>1. tokens' = [tokens EXCEPT ![t].status = "used"] /\ UNCHANGED request
      BY <1>1, <2>1, <2>4 DEF FindVerifiedUser
    <3>2. request'[w].step \notin Relying
      BY <2>2, <3>1 DEF Idle, Relying, Removals
    <3> QED
      BY <2>2, <3>1, <3>2, UsedTokensStay, ReleaseStands
  <2> QED
    BY <2>3, <2>4
<1>2. ASSUME NEW u \in Users, NEW a \in Addresses \cup {NoAddress}, UpdateProfile(w, u, a)
      PROVE  WaysInv'
  <2> DEFINE r == [Idle EXCEPT !.step = "dropping", !.user = u, !.address = a]
  <2>1. r.step = "dropping" /\ r.user = u
    BY DEF Idle
  <2>2. /\ request' = [request EXCEPT ![w] = r] /\ UNCHANGED rowVars /\ users[u].exists
        /\ Mailboxes(u) = {} \/ passkeys[u] # {} \/ u \in TelegramUsers
    BY <1>2 DEF UpdateProfile
  <2> HIDE DEF r
  <2>3. request'[w] = r /\ \A v \in Workers \ {w} : request'[v] = request[v]
    BY <2>2, RowOfWorker
  <2>4. u \in overtaken \/ passkeys[u] # {} \/ u \in TelegramUsers
    BY <2>2 DEF WaysInv, RowsStand, SignInMethodRemains, HasMethod
  <2>5. StandsAt(w)'
    BY <2>1, <2>2, <2>3, <2>4 DEF StandsAt, rowVars
  <2> QED
    BY <2>2, <2>3, <2>5, QuietTokensStand DEF QuietRows, rowVars
<1>3. ASSUME DropEmailAccounts(w) PROVE WaysInv'
  <2> DEFINE r == [request[w] EXCEPT !.step = "moving"]
  <2>1. request[w].step = "dropping" /\ UNCHANGED rowVars /\ request' = [request EXCEPT ![w] = r]
    BY <1>3 DEF DropEmailAccounts, Goto
  <2>2. request[w] \in AccountRequests
    BY <2>1 DEF TokenInv, RequestsTypeOK, Reviews
  <2>3. r.step = "moving" /\ r.user = request[w].user
    BY <2>2 DEF AccountRequests
  <2> HIDE DEF r
  <2>4. request'[w] = r /\ \A v \in Workers \ {w} : request'[v] = request[v]
    BY <2>1, RowOfWorker
  <2>5. StandsAt(w)
    BY DEF WaysInv
  <2>6. StandsAt(w)'
    BY <2>1, <2>3, <2>4, <2>5 DEF StandsAt, rowVars
  <2> QED
    BY <2>1, <2>4, <2>6, QuietTokensStand DEF QuietRows, rowVars
<1>4. ASSUME NEW u \in Users, NEW k \in Passkeys, CountMethods(w, u, k) PROVE WaysInv'
  <2> DEFINE r == [Idle EXCEPT !.step = "removing", !.user = u, !.passkey = k]
  <2>1. r.step = "removing" /\ r.user = u /\ r.passkey = k
    BY DEF Idle
  <2>2. /\ request' = [request EXCEPT ![w] = r] /\ UNCHANGED rowVars
        /\ Mailboxes(u) # {} \/ u \in TelegramUsers \/ passkeys[u] \ {k} # {}
    BY <1>4, MethodsRemain DEF CountMethods
  <2> HIDE DEF r
  <2>3. request'[w] = r /\ \A v \in Workers \ {w} : request'[v] = request[v]
    BY <2>2, RowOfWorker
  <2>4. StandsAt(w)'
    BY <2>1, <2>2, <2>3 DEF StandsAt, rowVars, Mailboxes
  <2> QED
    BY <2>2, <2>3, <2>4, QuietTokensStand DEF QuietRows, rowVars
<1> QED
  BY <1>1, <1>2, <1>3, <1>4, VerificationStands, MoveStands, RemovalStands DEF ProfileStep

LEMMA SignInStands ==
    ASSUME TokenInv, WaysInv, NEW w \in Workers, NEW standing, SignInStep(w, standing)
    PROVE  WaysInv'
<1>1. ASSUME UNCHANGED QuietRows, TokensStay, request'[w].step \notin Relying,
             \A v \in Workers \ {w} : request'[v] = request[v]
      PROVE  WaysInv'
  BY <1>1, ReleaseStands
<1>2. ASSUME NEW t \in Tokens, ConsumeSignInTokenByHash(w, t) PROVE WaysInv'
  <2> DEFINE r == [Idle EXCEPT !.step = "admitting", !.token = t, !.address = tokens[t].address]
  <2>1. r.step = "admitting"
    BY DEF Idle
  <2>2. /\ request' = [request EXCEPT ![w] = r] /\ UNCHANGED QuietRows
        /\ tokens[t].status = "live" /\ tokens' = [tokens EXCEPT ![t].status = "used"]
    BY <1>2 DEF ConsumeSignInTokenByHash, QuietRows, Live
  <2> HIDE DEF r
  <2>3. request'[w] = r /\ \A v \in Workers \ {w} : request'[v] = request[v]
    BY <2>2, RowOfWorker
  <2> QED
    BY <1>1, <2>1, <2>2, <2>3, UsedTokensStay DEF Relying, Removals
<1>3. ASSUME NEW t \in Tokens, MatchSignInToken(w, t) PROVE WaysInv'
  <2> DEFINE r == [Idle EXCEPT !.step = "consuming", !.token = t, !.address = tokens[t].address]
  <2>1. r.step = "consuming"
    BY DEF Idle
  <2>2. request' = [request EXCEPT ![w] = r] /\ UNCHANGED QuietRows /\ UNCHANGED tokens
    BY <1>3 DEF MatchSignInToken, QuietRows, rowVars
  <2> HIDE DEF r
  <2>3. request'[w] = r /\ \A v \in Workers \ {w} : request'[v] = request[v]
    BY <2>2, RowOfWorker
  <2> QED
    BY <1>1, <2>1, <2>2, <2>3 DEF Relying, Removals, TokensStay
<1>4. ASSUME ConsumeSignInTokenById(w) PROVE WaysInv'
  <2>1. PICK t \in Tokens : t = request[w].token
    BY <1>4 DEF ConsumeSignInTokenById, TokenInv, StepsAreNamed
  <2>2. UNCHANGED QuietRows /\ request[w].step = "consuming"
        /\ (Goto(w, "admitting") \/ Finish(w))
    BY <1>4 DEF ConsumeSignInTokenById, QuietRows
  <2>3. TokensStay
    <3>1. CASE tokens[t].status = "live"
      BY <1>4, <2>1, <3>1, UsedTokensStay DEF ConsumeSignInTokenById
    <3>2. CASE tokens[t].status # "live"
      BY <1>4, <2>1, <3>2 DEF ConsumeSignInTokenById, TokensStay
    <3> QED
      BY <3>1, <3>2
  <2> QED
    BY <1>1, <2>2, <2>3, FinishedRow, GoneRow DEF Relying, Removals
<1>5. ASSUME NEW admitting \in BOOLEAN, ResolveAdmission(w, admitting, standing) PROVE WaysInv'
  <2>1. /\ UNCHANGED QuietRows /\ TokensStay /\ request[w].step = "admitting"
        /\ Goto(w, "creating") \/ Finish(w) \/ \E u \in Users : Continue(w, u)
    BY <1>5 DEF ResolveAdmission, QuietRows, rowVars, TokensStay, Holders
  <2> QED
    BY <1>1, <2>1, FinishedRow, GoneRow, ContinuedRow DEF Relying, Removals
<1>6. ASSUME FindCreatedAccount(w) PROVE WaysInv'
  <2>1. /\ UNCHANGED QuietRows /\ TokensStay /\ request[w].step = "finding"
        /\ Finish(w) \/ \E u \in Users : Continue(w, u)
    BY <1>6 DEF FindCreatedAccount, QuietRows, rowVars, TokensStay, Holders
  <2> QED
    BY <1>1, <2>1, FinishedRow, ContinuedRow DEF Relying, Removals
<1>7. ASSUME CreateUserSession(w) PROVE WaysInv'
  <2>1. UNCHANGED QuietRows /\ TokensStay /\ Finish(w)
    BY <1>7 DEF CreateUserSession, QuietRows, TokensStay
  <2> QED
    BY <1>1, <2>1, FinishedRow DEF Relying, Removals
<1> QED
  BY <1>2, <1>3, <1>4, <1>5, <1>6, <1>7, CreateAdmittedStands, ConfirmStands DEF SignInStep

\* A step of nobody that changes tokens alone.
LEMMA BackgroundStands ==
    ASSUME TokenInv, WaysInv, UNCHANGED QuietRows, UNCHANGED request, TokenUsersExist'
    PROVE  WaysInv'
  BY QuietStands

LEMMA AccountStands ==
    ASSUME TokenInv, WaysInv, NEW standing, AccountsNext(standing) PROVE WaysInv'
<1>1. ASSUME NEW w \in Workers, Die(w) PROVE WaysInv'
  <2>1. UNCHANGED QuietRows /\ TokensStay /\ Finish(w)
    BY <1>1 DEF Die, rowVars, QuietRows, TokensStay
  <2> QED
    BY <2>1, FinishedRow, ReleaseStands DEF Relying, Removals
<1>2. ASSUME NEW t \in Tokens, NEW purpose, NEW a, NEW u, IssueToken(t, purpose, a, u),
             purpose = "verify_email" => u \in Users /\ users[u].exists
      PROVE  WaysInv'
  <2> DEFINE row == [NewToken EXCEPT !.status = "live", !.purpose = purpose, !.address = a,
                                     !.user = u]
  <2>1. row.purpose = purpose /\ row.user = u
    BY DEF NewToken
  <2>2. tokens' = [tokens EXCEPT ![t] = row] /\ UNCHANGED QuietRows /\ UNCHANGED request
    BY <1>2 DEF IssueToken, QuietRows
  <2> HIDE DEF row
  <2>3. \A x \in Tokens : tokens'[x] = IF x = t THEN row ELSE tokens[x]
    BY <2>2 DEF TokenInv, RequestsTypeOK, AccountsTypeOK
  <2>4. TokenUsersExist'
    BY <1>2, <2>1, <2>2, <2>3 DEF WaysInv, TokenUsersExist, QuietRows
  <2> QED
    BY <2>2, <2>4, BackgroundStands
<1>3. ASSUME NEW t \in Tokens, TokenExpires(t) PROVE WaysInv'
  <2>1. UNCHANGED QuietRows /\ UNCHANGED request /\ UsersStay /\ TokensStay
    BY <1>3, UsedTokensStay DEF TokenExpires, QuietRows, UsersStay
  <2> QED
    BY <2>1, TokenUsersStay, BackgroundStands DEF WaysInv
<1>4. ASSUME NEW a \in Addresses, RecordFailedCodeAttempts(a) PROVE WaysInv'
  <2>1. UNCHANGED QuietRows /\ UNCHANGED request /\ UsersStay
    BY <1>4 DEF RecordFailedCodeAttempts, QuietRows, UsersStay
  <2>2. TokensStay
    <3> SUFFICES ASSUME NEW t \in Tokens, tokens'[t].purpose = "verify_email"
                 PROVE  tokens'[t] = tokens[t]
      BY DEF TokensStay
    <3>1. CASE Live(t, "sign_in") /\ tokens[t].address = a
      <4>1. tokens'[t] = [status |-> IF tokens[t].attempts + 1 >= MaxAttempts THEN "burnt"
                                     ELSE "live",
                          purpose |-> "sign_in", address |-> a, user |-> tokens[t].user,
                          attempts |-> tokens[t].attempts + 1]
        BY <1>4, <3>1 DEF RecordFailedCodeAttempts
      <4> QED
        BY <4>1
    <3>2. CASE ~(Live(t, "sign_in") /\ tokens[t].address = a)
      BY <1>4, <3>2 DEF RecordFailedCodeAttempts
    <3> QED
      BY <3>1, <3>2
  <2> QED
    BY <2>1, <2>2, TokenUsersStay, BackgroundStands DEF WaysInv
<1>5. ASSUME NEW t \in Tokens, NEW u \in Users, RequestEmailVerification(t, u) PROVE WaysInv'
  BY <1>2, <1>5 DEF RequestEmailVerification
<1>6. ASSUME NEW t \in Tokens, NEW a \in Addresses, NEW admitting,
             RequestSignIn(t, a, admitting, standing)
      PROVE  WaysInv'
  BY <1>2, <1>6 DEF RequestSignIn
<1> QED
  BY <1>1, <1>3, <1>4, <1>5, <1>6, PasskeyStands, SignInStands, ProfileStands DEF AccountsNext

LEMMA WaysNext == TokenInv /\ WaysInv /\ [RequestsNext]_allVars => WaysInv'
<1> SUFFICES ASSUME TokenInv, WaysInv, [RequestsNext]_allVars PROVE WaysInv'
  OBVIOUS
<1>1. ASSUME UNCHANGED rowVars, UNCHANGED request PROVE WaysInv'
  BY <1>1, QuietTokensStand DEF rowVars, QuietRows
<1>2. ASSUME NEW w \in Workers, UNCHANGED rowVars,
             NEW r, request' = [request EXCEPT ![w] = r], r.step \in {"submitting", "approving"}
      PROVE  WaysInv'
  <2>1. request'[w] = r /\ \A v \in Workers \ {w} : request'[v] = request[v]
    BY <1>2, RowOfWorker
  <2> QED
    BY <1>2, <2>1, ReleaseStands DEF rowVars, QuietRows, Relying, Removals, TokensStay
<1>3. ASSUME NEW w \in Workers, NEW u \in Users, AskForOrganization(w, u) PROVE WaysInv'
  BY <1>1, <1>2, <1>3 DEF AskForOrganization
<1>4. ASSUME NEW w \in Workers, NEW r \in OrganizationRequests, AskToApprove(w, r) PROVE WaysInv'
  BY <1>1, <1>2, <1>4 DEF AskToApprove
<1>5. ASSUME NEW w \in Workers, CreateRequest(w) \/ Approve(w) PROVE WaysInv'
  <2>1. UNCHANGED rowVars /\ Finish(w)
    BY <1>5 DEF CreateRequest, Approve
  <2> QED
    BY <2>1, FinishedRow, ReleaseStands DEF rowVars, QuietRows, Relying, Removals, TokensStay
<1>6. ASSUME NEW r \in OrganizationRequests,
             \/ GrowOld(r) \/ DeleteFromHistory(r) \/ Reject(r)
             \/ \E u \in Users : ResubmitExpired(r, u)
      PROVE  WaysInv'
  BY <1>1, <1>6 DEF GrowOld, DeleteFromHistory, Reject, ResubmitExpired, accountVars
<1>7. ASSUME NEW scope, ListRequests(scope) PROVE WaysInv'
  BY <1>1, <1>7 DEF ListRequests, accountVars
<1>8. CASE UNCHANGED allVars
  BY <1>1, <1>8 DEF allVars, accountVars
<1> QED
  BY <1>3, <1>4, <1>5, <1>6, <1>7, <1>8, AccountStands DEF RequestsNext

LEMMA WaysInvariant == RequestsSpec => []WaysInv
  BY InitWays, WaysNext, TokenInvariant, PTL DEF RequestsSpec

\* A confirmed address is the one whose email account the user has, whatever sign-ins, passkeys
\* and changes of the profile come together, unless a verification link was redeemed across a
\* change of the address (confirmEmailIdentity, consumeVerificationToken, updateProfile).
THEOREM VerifiedAddressesAreOwned == RequestsSpec => []VerifiedAddressIsOwned
<1>1. WaysInv => VerifiedAddressIsOwned
  BY DEF WaysInv, RowsStand
<1> QED
  BY <1>1, WaysInvariant, PTL

\* Nobody loses the last sign-in method, as long as no two requests take one of the same user at
\* once (updateProfile, deleteUnlessLastSignInMethod).
THEOREM SignInMethodsRemain == RequestsSpec => []SignInMethodRemains
<1>1. WaysInv => SignInMethodRemains
  BY DEF WaysInv, RowsStand
<1> QED
  BY <1>1, WaysInvariant, PTL
=============================================================================
