--------------------------- MODULE AccountsProofs ---------------------------
(***************************************************************************)
(* Proofs about the accounts of the web interface, for any users, browsers, *)
(* mntners and overlapping requests.                                       *)
(*                                                                         *)
(* The properties are about cookies and tables. A request works on a copy  *)
(* of the cookie and on what it looked up when it began, so each invariant  *)
(* also says what requests in progress carry with them.                    *)
(***************************************************************************)
EXTENDS Accounts, FiniteSetTheorems, TLAPS

Row == [email : Emails \union {None}, password : Nat, usable : BOOLEAN, totp : BOOLEAN,
        keys : SUBSET Keys]

Session == [email : Emails \union {None}, hash : (Users \X Nat) \union {None},
            mfa : BOOLEAN, challenge : BOOLEAN, secret : BOOLEAN,
            account : Users \union {None}, asked : BOOLEAN, factor : BOOLEAN]

\* A cookie has the hash of a password of the account that logged in, and is only
\* complete with the second factor it was asked for.
SessionOK(v) ==
    /\ v \in Session
    /\ v.email # None => v.hash \in {v.account} \X Nat
    /\ v.mfa /\ v.asked => v.factor

\* A request acts for the account of the cookie it came with; only a form that is
\* limited and shown again may be wrong.
RequestOK(q) ==
    /\ q.browser \in Browsers
    /\ SessionOK(q.cookie)
    /\ q.right \in BOOLEAN
    /\ ~q.right => q.kind \in Limited \ CountsAll
    /\ q.kind \notin Public => q.user \in Users /\ q.user = q.cookie.account
    /\ q.kind = "set_password" => q.input.user \in Users
    /\ q.kind \in {"create_account", "change_profile"} => q.input \in Emails
    /\ q.kind = "webauthn_verify_registration_response" => q.input \in Keys

TableInv ==
    /\ users \in [Users -> Row]
    /\ \A x \in mailed : x.user \in Users

SessionInv ==
    /\ sessions \in [Browsers -> Session]
    /\ \A b \in Browsers : SessionOK(sessions[b])
    /\ requests = [r \in Requests |-> requests[r]]
    /\ \A r \in Requests : requests[r] # NoRequest => RequestOK(requests[r])

AccountInv == TableInv /\ SessionInv

-----------------------------------------------------------------------------
(* Sessions and second factors. *)

\* The invariant on accounts and sessions holds at the start.
LEMMA AccountInit == Init => AccountInv
<1> SUFFICES ASSUME Init PROVE AccountInv
  OBVIOUS
<1>1. TableInv
  BY AccountsAssumption DEF Init, TableInv, Row, NoUser
<1>2. NoSession \in Session /\ SessionOK(NoSession)
  BY DEF NoSession, Session, SessionOK
<1>3. SessionInv
  BY <1>2 DEF Init, SessionInv
<1> QED
  BY <1>1, <1>3 DEF AccountInv

\* A session that is accepted is accepted for the account that logged in.
LEMMA AuthenticateOwner ==
    ASSUME NEW v, SessionOK(v), NEW u \in Authenticate(v)
    PROVE  u \in Users /\ u = v.account
<1>1. u \in Users /\ v.email # None /\ v.hash = <<u, users[u].password>>
  BY DEF Authenticate, HashOf
<1>2. v.hash \in {v.account} \X Nat
  BY <1>1 DEF SessionOK
<1> QED
  BY <1>1, <1>2

\* The response of a request that leaves a good cookie.
LEMMA RespondInv ==
    ASSUME SessionInv, NEW r \in Requests, requests[r] # NoRequest,
           NEW v, SessionOK(v), NEW code, Respond(r, v, code)
    PROVE  SessionInv'
<1>1. v \in Session /\ requests[r].browser \in Browsers
  BY DEF SessionInv, SessionOK, RequestOK
<1>2. /\ sessions' = [sessions EXCEPT ![requests[r].browser] = v]
      /\ requests' = [requests EXCEPT ![r] = NoRequest]
  BY DEF Respond
<1>3. sessions' \in [Browsers -> Session]
  BY <1>1, <1>2 DEF SessionInv
<1>4. \A b \in Browsers : SessionOK(sessions'[b])
  BY <1>1, <1>2 DEF SessionInv
<1>5. /\ requests' = [q \in Requests |-> requests'[q]]
      /\ \A q \in Requests : requests'[q] # NoRequest => RequestOK(requests'[q])
  BY <1>2 DEF SessionInv
<1> QED
  BY <1>3, <1>4, <1>5 DEF SessionInv

\* An exception leaves the cookie.
LEMMA FailInv ==
    ASSUME SessionInv, NEW r \in Requests, Fail(r)
    PROVE  SessionInv'
<1>1. sessions' = sessions /\ requests' = [requests EXCEPT ![r] = NoRequest]
  BY DEF Fail
<1> QED
  BY <1>1 DEF SessionInv

\* What a form is filled in with.
LEMMA InputTypes ==
    /\ \A k \in {"create_account", "change_profile"} : Inputs(k) = Emails
    /\ Inputs("set_password") = mailed
    /\ Inputs("webauthn_verify_registration_response") = Keys
    /\ \A k \in {"api_token_add", "api_token_edit"} : Inputs(k) = ApiToken
    /\ Inputs("permission_add") = Permission
    /\ \A k \in {"mntner_migrate_initiate", "mntner_migrate_complete"} : Inputs(k) = Mntners
  BY DEF Inputs

\* A request is admitted for the account of its cookie.
LEMMA BeginInv ==
    ASSUME AccountInv, NEW r \in Requests, NEW b \in Browsers, NEW k, NEW x \in Inputs(k),
           NEW right \in BOOLEAN, Begin(r, b, k, x, right)
    PROVE  SessionInv'
<1> DEFINE q == [kind |-> k, browser |-> b, cookie |-> sessions[b],
                 user |-> Actor(k, sessions[b]), input |-> x, right |-> right]
<1>1. sessions' = sessions /\ requests' = [requests EXCEPT ![r] = q]
  BY DEF Begin
<1>2. SessionOK(sessions[b])
  BY DEF AccountInv, SessionInv
<1>3. k \notin Public => q.user \in Users /\ q.user = sessions[b].account
  <2> SUFFICES ASSUME k \notin Public PROVE q.user \in Users /\ q.user = sessions[b].account
    OBVIOUS
  <2>1. Authenticate(sessions[b]) # {}
    BY DEF Begin, AuthenticationRequired
  <2>2. q.user = CHOOSE u \in Users : u \in Authenticate(sessions[b])
    BY DEF Actor
  <2>3. \E u \in Users : u \in Authenticate(sessions[b])
    BY <2>1 DEF Authenticate
  <2>4. q.user \in Authenticate(sessions[b])
    BY <2>2, <2>3
  <2> QED
    BY <1>2, <2>4, AuthenticateOwner
<1>4. ~right => k \in Limited \ CountsAll
  BY DEF Begin
<1>5. k = "set_password" => x.user \in Users
  BY InputTypes DEF AccountInv, TableInv
<1>6. /\ k \in {"create_account", "change_profile"} => x \in Emails
      /\ k = "webauthn_verify_registration_response" => x \in Keys
  BY InputTypes
<1>7. RequestOK(q)
  BY <1>2, <1>3, <1>4, <1>5, <1>6 DEF RequestOK
<1> HIDE DEF q
<1> QED
  BY <1>1, <1>7 DEF AccountInv, SessionInv

\* Nor do the pages of the second factor complete a session.
LEMMA MfaPageInv ==
    ASSUME SessionInv, NEW b \in Browsers, MfaPage(b)
    PROVE  SessionInv'
<1>1. /\ requests' = requests
      /\ \/ sessions' = [sessions EXCEPT ![b].challenge = TRUE]
         \/ sessions' = [sessions EXCEPT ![b].secret = TRUE]
  BY DEF MfaPage
<1>2. SessionOK(sessions[b])
  BY DEF SessionInv
<1>3. /\ SessionOK([sessions[b] EXCEPT !.challenge = TRUE])
      /\ SessionOK([sessions[b] EXCEPT !.secret = TRUE])
  BY <1>2 DEF SessionOK, Session
<1>4. \E v : SessionOK(v) /\ sessions' = [sessions EXCEPT ![b] = v]
  BY <1>1, <1>3
<1>5. PICK v : SessionOK(v) /\ sessions' = [sessions EXCEPT ![b] = v]
  BY <1>4
<1>6. v \in Session
  BY <1>5 DEF SessionOK
<1> QED
  BY <1>1, <1>5, <1>6 DEF SessionInv

\* The requests of irrd.webui.auth keep accounts well-formed, and leave a good cookie.
LEMMA AuthEndpointInv ==
    ASSUME AccountInv, NEW r \in Requests, AuthEndpoint(r)
    PROVE  AccountInv'
<1> DEFINE q == requests[r]
<1>1. q # NoRequest
  BY DEF AuthEndpoint, Login, Logout, CreateAccount, ResetPasswordRequest, SetPassword,
    ChangePassword, ChangeProfile, MfaAuthenticate, WebauthnVerifyRegistrationResponse,
    WebauthnRemove, TotpRegister, TotpRemove, Granted, Running, NoRequest
<1>2. RequestOK(q) /\ SessionOK(q.cookie)
  BY <1>1 DEF AccountInv, SessionInv, RequestOK
<1>3. TableInv /\ SessionInv
  BY DEF AccountInv
<1>4. ASSUME NEW v, SessionOK(v), Redirect(r, v) PROVE SessionInv'
  BY <1>1, <1>3, <1>4, RespondInv DEF Redirect
<1>5. q.kind \notin Public => q.user \in Users
  BY <1>2 DEF RequestOK
<1> HIDE DEF q
<1>a. CASE Login(r)
  <2>1. PICK u \in Users : Redirect(r, LoginSession(q.cookie, u))
    BY <1>a DEF Login, q
  <2>2. users[u] \in Row
    BY <1>3 DEF TableInv
  <2>3. SessionOK(LoginSession(q.cookie, u))
    BY <2>2 DEF LoginSession, NoSession, SessionOK, Session, Row, HashOf, HasMfa
  <2>4. TableInv'
    BY <1>a, <1>3 DEF Login, TableInv, accountVars
  <2> QED
    BY <1>4, <2>1, <2>3, <2>4 DEF AccountInv
<1>b. CASE Logout(r)
  <2>1. SessionOK(NoSession)
    BY DEF NoSession, SessionOK, Session
  <2>2. TableInv'
    BY <1>b, <1>3 DEF Logout, TableInv, accountVars
  <2> QED
    BY <1>b, <1>4, <2>1, <2>2 DEF AccountInv, Logout
<1>c. CASE CreateAccount(r)
  <2>1. PICK u \in Users : /\ users' = [users EXCEPT ![u].email = q.input]
                           /\ mailed' = mailed \union {ResetToken(u, 0)}
    BY <1>c DEF CreateAccount, q
  <2>2. q.input \in Emails
    BY <1>c, <1>2 DEF CreateAccount, Granted, Running, RequestOK, q
  <2>3. TableInv'
    BY <1>3, <2>1, <2>2 DEF TableInv, Row, ResetToken
  <2> QED
    BY <1>c, <1>2, <1>4, <2>3 DEF AccountInv, CreateAccount, q
<1>d. CASE ResetPasswordRequest(r)
  <2>1. TableInv'
    BY <1>d, <1>3 DEF ResetPasswordRequest, TableInv, ResetToken
  <2> QED
    BY <1>d, <1>2, <1>4, <2>1 DEF AccountInv, ResetPasswordRequest, q
<1>e. CASE SetPassword(r)
  <2>1. q.input.user \in Users
    BY <1>e, <1>2 DEF SetPassword, Granted, Running, RequestOK, q
  <2>2. TableInv'
    BY <1>e, <1>3, <2>1 DEF SetPassword, NewPassword, TableInv, Row, q
  <2> QED
    BY <1>e, <1>2, <1>4, <2>2 DEF AccountInv, SetPassword, q
<1>f. CASE ChangePassword(r)
  <2>1. q.user \in Users /\ q.user = q.cookie.account
    BY <1>f, <1>2 DEF ChangePassword, Granted, Running, RequestOK, Public, q
  <2>2. TableInv'
    BY <1>f, <1>3, <2>1 DEF ChangePassword, NewPassword, TableInv, Row, q
  <2>3. users[q.user].password + 1 \in Nat
    BY <1>3, <2>1 DEF TableInv, Row
  <2>4. SessionOK([q.cookie EXCEPT !.hash = <<q.user, users[q.user].password + 1>>])
    BY <1>2, <2>1, <2>3 DEF SessionOK, Session
  <2> QED
    BY <1>f, <1>4, <2>2, <2>4 DEF AccountInv, ChangePassword, q
<1>g. CASE ChangeProfile(r)
  <2>1. q.user \in Users /\ q.input \in Emails
    BY <1>g, <1>2 DEF ChangeProfile, Granted, Running, RequestOK, Public, q
  <2>2. TableInv'
    BY <1>g, <1>3, <2>1 DEF ChangeProfile, TableInv, Row, q
  <2> QED
    BY <1>g, <1>2, <1>4, <2>2 DEF AccountInv, ChangeProfile, q
<1>h. CASE MfaAuthenticate(r)
  <2>1. SessionOK(MfaComplete(q.cookie))
    BY <1>2 DEF MfaComplete, SessionOK, Session
  <2>2. TableInv'
    BY <1>h, <1>3 DEF MfaAuthenticate, TableInv, accountVars
  <2> QED
    BY <1>h, <1>4, <2>1, <2>2 DEF AccountInv, MfaAuthenticate, q
<1>i. CASE WebauthnVerifyRegistrationResponse(r)
  <2>1. q.user \in Users /\ q.input \in Keys
    BY <1>i, <1>2 DEF WebauthnVerifyRegistrationResponse, Granted, Running, RequestOK, Public, q
  <2>2. TableInv'
    BY <1>i, <1>3, <2>1 DEF WebauthnVerifyRegistrationResponse, TableInv, Row, q
  <2>3. SessionOK([q.cookie EXCEPT !.challenge = FALSE])
    BY <1>2 DEF SessionOK, Session
  <2> QED
    BY <1>i, <1>4, <2>2, <2>3 DEF AccountInv, WebauthnVerifyRegistrationResponse, q
<1>j. CASE WebauthnRemove(r)
  <2>1. q.user \in Users
    BY <1>j, <1>5 DEF WebauthnRemove, Granted, Running, Public, q
  <2>2. TableInv'
    BY <1>j, <1>3, <2>1 DEF WebauthnRemove, TableInv, Row, q
  <2> QED
    BY <1>j, <1>2, <1>4, <2>2 DEF AccountInv, WebauthnRemove, q
<1>k. CASE TotpRegister(r)
  <2>1. q.user \in Users
    BY <1>k, <1>5 DEF TotpRegister, Granted, Running, Public, q
  <2>2. TableInv'
    BY <1>k, <1>3, <2>1 DEF TotpRegister, TableInv, Row, q
  <2> QED
    BY <1>k, <1>2, <1>4, <2>2 DEF AccountInv, TotpRegister, q
<1>l. CASE TotpRemove(r)
  <2>1. q.user \in Users
    BY <1>l, <1>5 DEF TotpRemove, Granted, Running, Public, q
  <2>2. TableInv'
    BY <1>l, <1>3, <2>1 DEF TotpRemove, TableInv, Row, q
  <2> QED
    BY <1>l, <1>2, <1>4, <2>2 DEF AccountInv, TotpRemove, q
<1> QED
  BY <1>a, <1>b, <1>c, <1>d, <1>e, <1>f, <1>g, <1>h, <1>i, <1>j, <1>k, <1>l DEF AuthEndpoint

\* The requests of irrd.webui.endpoints_mntners leave accounts and cookies alone.
LEMMA MntnerEndpointInv ==
    ASSUME AccountInv, NEW r \in Requests, MntnerEndpoint(r)
    PROVE  AccountInv'
<1>a. requests[r] # NoRequest
  <2>1. \E k \in {"api_token_add", "api_token_edit", "api_token_delete", "permission_add",
            "permission_delete", "mntner_migrate_initiate", "mntner_migrate_complete"} :
          Granted(r, k)
    BY DEF MntnerEndpoint, ApiTokenAdd, ApiTokenEdit, ApiTokenDelete, PermissionAdd,
      PermissionDelete, MntnerMigrateInitiate, MntnerMigrateComplete
  <2> QED
    BY <2>1 DEF Granted, Running, NoRequest
<1>b. UNCHANGED accountVars
  BY DEF MntnerEndpoint, ApiTokenAdd, ApiTokenEdit, ApiTokenDelete, PermissionAdd,
    PermissionDelete, MntnerMigrateInitiate, MntnerMigrateComplete, accountVars
<1>c. Redirect(r, requests[r].cookie)
  BY DEF MntnerEndpoint, ApiTokenAdd, ApiTokenEdit, ApiTokenDelete, PermissionAdd,
    PermissionDelete, MntnerMigrateInitiate, MntnerMigrateComplete
<1>1. requests[r] # NoRequest /\ UNCHANGED accountVars /\ Redirect(r, requests[r].cookie)
  BY <1>a, <1>b, <1>c
<1>2. SessionOK(requests[r].cookie)
  BY <1>1 DEF AccountInv, SessionInv, RequestOK
<1>3. SessionInv'
  BY <1>1, <1>2, RespondInv DEF AccountInv, Redirect
<1> QED
  BY <1>1, <1>3 DEF AccountInv, TableInv, accountVars

\* Every step keeps the invariant on accounts and sessions.
LEMMA AccountNext == AccountInv /\ [Next]_vars => AccountInv'
<1> SUFFICES ASSUME AccountInv, [Next]_vars PROVE AccountInv'
  OBVIOUS
<1>1. CASE \E r \in Requests, b \in Browsers, k \in scenario.endpoints, right \in BOOLEAN :
             \E x \in Inputs(k) : Begin(r, b, k, x, right)
  <2>1. PICK r \in Requests, b \in Browsers, k \in scenario.endpoints, right \in BOOLEAN :
               \E x \in Inputs(k) : Begin(r, b, k, x, right)
    BY <1>1
  <2>2. PICK x \in Inputs(k) : Begin(r, b, k, x, right)
    BY <2>1
  <2>3. SessionInv'
    BY <2>2, BeginInv
  <2> QED
    BY <2>2, <2>3 DEF Begin, AccountInv, TableInv, accountVars
<1>2. ASSUME NEW r \in Requests, AuthEndpoint(r) PROVE AccountInv'
  BY <1>2, AuthEndpointInv
<1>3. ASSUME NEW r \in Requests, MntnerEndpoint(r) PROVE AccountInv'
  BY <1>3, MntnerEndpointInv
<1>4. ASSUME NEW r \in Requests, Refuse(r) PROVE AccountInv'
  <2> DEFINE v == IF Running(r, "login") THEN NoSession ELSE requests[r].cookie
  <2>1. requests[r] # NoRequest /\ Respond(r, v, 200) /\ UNCHANGED accountVars
    BY <1>4 DEF Refuse
  <2>2. SessionOK(NoSession)
    BY DEF NoSession, SessionOK, Session
  <2>3. SessionOK(v)
    BY <2>1, <2>2 DEF AccountInv, SessionInv, RequestOK
  <2> HIDE DEF v
  <2>4. SessionInv'
    BY <2>1, <2>3, RespondInv DEF AccountInv
  <2> QED
    BY <2>1, <2>4 DEF AccountInv, TableInv, accountVars
<1>5. ASSUME NEW r \in Requests, Fail(r) PROVE AccountInv'
  BY <1>5, FailInv DEF AccountInv, TableInv, Fail, accountVars
<1>6. ASSUME NEW b \in Browsers, MfaPage(b) PROVE AccountInv'
  BY <1>6, MfaPageInv DEF AccountInv, TableInv, MfaPage, accountVars
<1>7. CASE LimitReset \/ DayPasses \/ UNCHANGED vars
  BY <1>7 DEF AccountInv, TableInv, SessionInv, LimitReset, DayPasses, vars, accountVars
<1> QED
  BY <1>1, <1>2, <1>3, <1>4, <1>5, <1>6, <1>7 DEF Next

\* A session that is accepted acts for the account that logged in with it, and for no
\* other, although sessions name accounts by email addresses that users change and
\* give up (HashValidatingSessionAuthenticator).
THEOREM SessionsOwned == Spec => []SessionOwner
<1>1. AccountInv => SessionOwner
  BY AuthenticateOwner DEF AccountInv, SessionInv, SessionOwner
<1> QED
  BY <1>1, AccountInit, AccountNext, PTL DEF Spec

\* No interleaving of logins, registrations and removals of second factors completes a
\* session that was asked for one without it (authentication_required, mfa_authenticate).
THEOREM SecondFactorShown == Spec => []SecondFactor
<1>1. AccountInv => SecondFactor
  BY DEF AccountInv, SessionInv, SessionOK, SecondFactor
<1> QED
  BY <1>1, AccountInit, AccountNext, PTL DEF Spec

-----------------------------------------------------------------------------
(* Guesses. *)

\* Requests with a wrong password or code that were admitted and not counted yet.
Guessing == {r \in Requests : requests[r] # NoRequest /\ ~requests[r].right}

\* Guesses that were counted and those under way, together, have passed the limiter.
GuessInv ==
    /\ hits \in Nat /\ wrong \in Nat
    /\ wrong <= hits
    /\ wrong + Cardinality(Guessing) <= RateLimit - 1 + Cardinality(Requests)

\* There are at most as many guesses under way as requests.
LEMMA GuessingFinite ==
    /\ IsFiniteSet(Guessing)
    /\ Cardinality(Guessing) \in Nat /\ Cardinality(Requests) \in Nat
    /\ Cardinality(Guessing) <= Cardinality(Requests)
<1>1. Guessing \subseteq Requests
  BY DEF Guessing
<1> QED
  BY <1>1, FS_Subset, FS_CardinalityType, AccountsAssumption

\* The invariant on guesses holds at the start.
LEMMA GuessInit == Init => GuessInv
<1> SUFFICES ASSUME Init PROVE GuessInv
  OBVIOUS
<1>1. hits = 0 /\ wrong = 0
  BY DEF Init
<1> QED
  BY <1>1, GuessingFinite, AccountsAssumption DEF GuessInv

\* Steps that admit no guess and count none may only count other responses.
LEMMA GuessFrame ==
    ASSUME GuessInv, wrong' = wrong, hits' \in Nat, hits <= hits', Guessing' \subseteq Guessing
    PROVE  GuessInv'
<1>1. Cardinality(Guessing') <= Cardinality(Guessing) /\ Cardinality(Guessing') \in Nat
  BY GuessingFinite, FS_Subset, FS_CardinalityType
<1> QED
  BY <1>1, GuessingFinite, AccountsAssumption DEF GuessInv

\* A response counts by at most one, and ends its request.
LEMMA RespondGuess ==
    ASSUME SessionInv, GuessInv, NEW r \in Requests, NEW v, NEW code, Respond(r, v, code)
    PROVE  /\ hits' = hits \/ hits' = hits + 1
           /\ Guessing' = Guessing \ {r}
<1>1. hits' = hits \/ hits' = hits + 1
  BY DEF Respond, Hit, GuessInv
<1>2. requests' = [requests EXCEPT ![r] = NoRequest]
  BY DEF Respond
<1>3. \A s \in Requests : requests'[s] = IF s = r THEN NoRequest ELSE requests[s]
  BY <1>2 DEF SessionInv
<1> QED
  BY <1>1, <1>3 DEF Guessing

\* Every step keeps the invariant on guesses.
LEMMA GuessNext == AccountInv /\ GuessInv /\ [Next]_vars => GuessInv'
<1> SUFFICES ASSUME AccountInv, GuessInv, [Next]_vars PROVE GuessInv'
  OBVIOUS
<1>0. SessionInv
  BY DEF AccountInv
<1>1. ASSUME NEW r \in Requests, NEW b, NEW k, NEW x, NEW right \in BOOLEAN,
             Begin(r, b, k, x, right)
      PROVE  GuessInv'
  <2>1. \A s \in Requests \ {r} : requests'[s] = requests[s]
    BY <1>0, <1>1 DEF Begin, SessionInv
  <2>2. requests'[r].right = right /\ hits' = hits /\ wrong' = wrong
    BY <1>0, <1>1 DEF Begin, SessionInv
  <2>3. CASE right
    <3>1. Guessing' \subseteq Guessing
      BY <2>1, <2>2, <2>3 DEF Guessing
    <3> QED
      BY <2>2, <3>1, GuessFrame DEF GuessInv
  <2>4. CASE ~right
    <3>1. hits < RateLimit
      BY <1>1, <2>4 DEF Begin, RateLimitTest
    <3>2. /\ Guessing' \subseteq Requests
          /\ Cardinality(Guessing') \in Nat
          /\ Cardinality(Guessing') <= Cardinality(Requests)
      BY FS_Subset, FS_CardinalityType, AccountsAssumption DEF Guessing
    <3> QED
      BY <2>2, <3>1, <3>2, GuessingFinite, AccountsAssumption DEF GuessInv
  <2> QED
    BY <2>3, <2>4
<1>2. ASSUME NEW r \in Requests, AuthEndpoint(r) \/ MntnerEndpoint(r) PROVE GuessInv'
  <2>1. \E v : Redirect(r, v)
    BY <1>2 DEF AuthEndpoint, MntnerEndpoint, Login, Logout, CreateAccount, ResetPasswordRequest,
      SetPassword, ChangePassword, ChangeProfile, MfaAuthenticate,
      WebauthnVerifyRegistrationResponse, WebauthnRemove, TotpRegister, TotpRemove, ApiTokenAdd,
      ApiTokenEdit, ApiTokenDelete, PermissionAdd, PermissionDelete, MntnerMigrateInitiate,
      MntnerMigrateComplete
  <2>2. PICK v : Respond(r, v, 302) /\ wrong' = wrong
    BY <2>1 DEF Redirect
  <2>3. (hits' = hits \/ hits' = hits + 1) /\ Guessing' = Guessing \ {r}
    BY <1>0, <2>2, RespondGuess
  <2> QED
    BY <2>2, <2>3, GuessFrame DEF GuessInv
<1>3. ASSUME NEW r \in Requests, Refuse(r) PROVE GuessInv'
  <2>1. /\ r \in Guessing
        /\ wrong' = wrong + 1
        /\ \E v : Respond(r, v, 200)
    BY <1>3 DEF Refuse, Guessing
  <2>2. hits' = hits + 1
    <3>1. requests[r].kind \in Limited
      BY <1>0, <2>1 DEF Guessing, SessionInv, RequestOK
    <3> QED
      BY <2>1, <3>1 DEF Respond, Hit
  <2>3. Guessing' = Guessing \ {r}
    BY <1>0, <2>1, RespondGuess
  <2>4. Cardinality(Guessing') = Cardinality(Guessing) - 1
    BY <2>1, <2>3, GuessingFinite, FS_RemoveElement
  <2> QED
    BY <2>1, <2>2, <2>4, GuessingFinite, AccountsAssumption DEF GuessInv
<1>4. ASSUME NEW r \in Requests, Fail(r) PROVE GuessInv'
  <2>1. requests' = [requests EXCEPT ![r] = NoRequest] /\ hits' = hits /\ wrong' = wrong
    BY <1>4 DEF Fail
  <2>2. Guessing' \subseteq Guessing
    BY <1>0, <2>1 DEF Guessing, SessionInv
  <2> QED
    BY <2>1, <2>2, GuessFrame DEF GuessInv
<1>5. CASE LimitReset
  <2>1. hits' = 0 /\ wrong' = 0 /\ Guessing' = Guessing
    BY <1>5 DEF LimitReset, Guessing
  <2> QED
    BY <2>1, GuessingFinite, AccountsAssumption DEF GuessInv
<1>6. CASE (\E b \in Browsers : MfaPage(b)) \/ DayPasses \/ UNCHANGED vars
  <2>1. hits' = hits /\ wrong' = wrong /\ requests' = requests
    BY <1>6 DEF MfaPage, DayPasses, vars
  <2> QED
    BY <2>1, GuessFrame DEF Guessing, GuessInv
<1> QED
  BY <1>1, <1>2, <1>3, <1>4, <1>5, <1>6 DEF Next

\* The limiter is asked before a request and counts after it: between two resets no
\* more passwords or codes are tried than the limit and the requests that overlap
\* allow, for any number of both (rate_limit_post).
THEOREM GuessesLimited == Spec => []GuessesBounded
<1>1. GuessInv => GuessesBounded
  BY GuessingFinite, AccountsAssumption DEF GuessInv, GuessesBounded
<1> QED
  BY <1>1, AccountInit, AccountNext, GuessInit, GuessNext, PTL DEF Spec

-----------------------------------------------------------------------------
(* Migration of mntners. *)

\* A request that adds a permission or a token was admitted for a mntner whose
\* migration was complete. There is no way back from that.
MigrationRequest(q) ==
    /\ q.kind \in {"api_token_add", "permission_add"} =>
         q.input.mntner \in Mntners /\ migration[q.input.mntner] = "complete"
    /\ q.kind \in {"mntner_migrate_initiate", "mntner_migrate_complete"} => q.input \in Mntners

MigrationInv ==
    /\ migration = [m \in Mntners |-> migration[m]]
    /\ initiator = [m \in Mntners |-> initiator[m]]
    /\ MigrationConsistent
    /\ \A r \in Requests : requests[r] # NoRequest => MigrationRequest(requests[r])

\* The invariant on migrations holds at the start.
LEMMA MigrationInit == Init => MigrationInv
  BY DEF Init, MigrationInv, MigrationConsistent, MigrationRequest, PermissionsOn

\* Requests in progress keep what they rely on as long as no migration is undone.
LEMMA MigrationFrame ==
    ASSUME MigrationInv, NEW r \in Requests, SessionInv,
           requests' = [requests EXCEPT ![r] = NoRequest],
           \A m \in Mntners : migration[m] = "complete" => migration'[m] = "complete"
    PROVE  \A s \in Requests : requests'[s] # NoRequest => MigrationRequest(requests[s])'
<1> SUFFICES ASSUME NEW s \in Requests, requests'[s] # NoRequest
             PROVE  MigrationRequest(requests[s])'
  OBVIOUS
<1>1. s # r /\ requests'[s] = requests[s]
  BY DEF SessionInv
<1>2. MigrationRequest(requests[s])
  BY <1>1 DEF MigrationInv
<1> QED
  BY <1>1, <1>2 DEF MigrationRequest

\* Forms for tokens and permissions are accepted only after the migration.
LEMMA AcceptsComplete ==
    ASSUME NEW k \in {"api_token_add", "permission_add"}, NEW u, NEW v, NEW x,
           Accepts(k, u, v, x)
    PROVE  migration[x.mntner] = "complete"
<1>1. CASE k = "api_token_add"
  BY <1>1, Zenon DEF Accepts
<1>2. CASE k = "permission_add"
  BY <1>2, Zenon DEF Accepts, PermissionAddForm
<1> QED
  BY <1>1, <1>2

\* What a request reads agrees with the migration at that moment.
LEMMA MigrationBegin ==
    ASSUME AccountInv, MigrationInv, NEW r \in Requests, NEW b \in Browsers, NEW k,
           NEW x \in Inputs(k), NEW right \in BOOLEAN, Begin(r, b, k, x, right)
    PROVE  MigrationInv'
<1>1. UNCHANGED mntnerVars
  BY DEF Begin
<1>2. MigrationConsistent'
  BY <1>1 DEF MigrationInv, MigrationConsistent, PermissionsOn, mntnerVars
<1>3. k \in {"api_token_add", "permission_add"} =>
        x.mntner \in Mntners /\ migration[x.mntner] = "complete"
  <2>1. Accepts(k, Actor(k, sessions[b]), sessions[b], x)
    BY DEF Begin
  <2>2. k \in {"api_token_add", "permission_add"} => x.mntner \in Mntners
    <3>1. Inputs("api_token_add") = ApiToken /\ Inputs("permission_add") = Permission
      BY InputTypes
    <3>2. \A y \in ApiToken \union Permission : y.mntner \in Mntners
      BY DEF ApiToken, Permission
    <3> QED
      BY <3>1, <3>2
  <2> QED
    BY <2>1, <2>2, AcceptsComplete
<1>4. k \in {"mntner_migrate_initiate", "mntner_migrate_complete"} => x \in Mntners
  BY InputTypes
<1>5. requests'[r].kind = k /\ requests'[r].input = x
  BY DEF Begin, AccountInv, SessionInv
<1>6. \A s \in Requests \ {r} : requests'[s] = requests[s]
  BY DEF Begin, AccountInv, SessionInv
<1>7. \A s \in Requests : requests'[s] # NoRequest => MigrationRequest(requests[s])'
  BY <1>1, <1>3, <1>4, <1>5, <1>6 DEF MigrationInv, MigrationRequest, mntnerVars
<1> QED
  BY <1>1, <1>2, <1>7 DEF MigrationInv, mntnerVars

\* The endpoints for mntners keep the invariant on migrations.
LEMMA MigrationEndpoint ==
    ASSUME AccountInv, MigrationInv, NEW r \in Requests, MntnerEndpoint(r)
    PROVE  MigrationInv'
<1>0. SessionInv
  BY DEF AccountInv
<1>1. ASSUME NEW v, Redirect(r, v),
             \A m \in Mntners : migration[m] = "complete" => migration'[m] = "complete"
      PROVE  \A s \in Requests : requests'[s] # NoRequest => MigrationRequest(requests[s])'
  BY <1>0, <1>1, MigrationFrame DEF Redirect, Respond
<1>2. ASSUME NEW k, k # "none", Granted(r, k) PROVE MigrationRequest(requests[r])
  BY <1>2 DEF MigrationInv, Granted, Running, NoRequest
<1>a. CASE ApiTokenAdd(r)
  <2>1. migration[requests[r].input.mntner] = "complete"
    BY <1>a, <1>2 DEF ApiTokenAdd, MigrationRequest, Granted, Running
  <2>2. MigrationConsistent'
    BY <1>a, <2>1 DEF ApiTokenAdd, MigrationInv, MigrationConsistent, PermissionsOn
  <2> QED
    BY <1>a, <1>1, <2>2 DEF ApiTokenAdd, MigrationInv
<1>b. CASE ApiTokenEdit(r)
  <2>1. PICK t \in apiTokens : /\ t.mntner = requests[r].input.mntner
                               /\ apiTokens' = (apiTokens \ {t}) \union {requests[r].input}
    BY <1>b DEF ApiTokenEdit
  <2>2. UNCHANGED <<migration, internal, permissions, initiator>>
    BY <1>b DEF ApiTokenEdit
  <2>3. MigrationConsistent'
    BY <2>1, <2>2 DEF MigrationInv, MigrationConsistent, PermissionsOn
  <2> QED
    BY <1>b, <1>1, <2>2, <2>3 DEF ApiTokenEdit, MigrationInv
<1>c. CASE ApiTokenDelete(r)
  <2>1. MigrationConsistent'
    BY <1>c DEF ApiTokenDelete, MigrationInv, MigrationConsistent, PermissionsOn
  <2> QED
    BY <1>c, <1>1, <2>1 DEF ApiTokenDelete, MigrationInv
<1>d. CASE PermissionAdd(r)
  <2>1. migration[requests[r].input.mntner] = "complete"
    BY <1>d, <1>2 DEF PermissionAdd, MigrationRequest, Granted, Running
  <2>2. MigrationConsistent'
    BY <1>d, <2>1 DEF PermissionAdd, MigrationInv, MigrationConsistent, PermissionsOn
  <2> QED
    BY <1>d, <1>1, <2>2 DEF PermissionAdd, MigrationInv
<1>e. CASE PermissionDelete(r)
  <2>1. MigrationConsistent'
    BY <1>e DEF PermissionDelete, MigrationInv, MigrationConsistent, PermissionsOn
  <2> QED
    BY <1>e, <1>1, <2>1 DEF PermissionDelete, MigrationInv
<1>f. CASE MntnerMigrateInitiate(r)
  <2> DEFINE m == requests[r].input
             u == requests[r].user
  <2>1. m \in Mntners
    BY <1>f, <1>2 DEF MntnerMigrateInitiate, MigrationRequest, Granted, Running
  <2>2. /\ migration[m] = "none"
        /\ migration' = [migration EXCEPT ![m] = "pending"]
        /\ permissions' = permissions \union {[user |-> u, mntner |-> m, manage |-> TRUE]}
        /\ initiator' = [initiator EXCEPT ![m] = u]
        /\ UNCHANGED <<internal, apiTokens>>
        /\ Redirect(r, requests[r].cookie)
    BY <1>f DEF MntnerMigrateInitiate
  <2> HIDE DEF m, u
  <2>3. MigrationConsistent'
    <3> SUFFICES ASSUME NEW n \in Mntners
                 PROVE  /\ n \in internal' <=> migration'[n] = "complete"
                        /\ migration'[n] = "none" => PermissionsOn(n)' = {}
                        /\ migration'[n] = "pending" =>
                             \A p \in PermissionsOn(n)' : p.user = initiator'[n] /\ p.manage
                        /\ \A t \in apiTokens' : t.mntner = n => migration'[n] = "complete"
      BY DEF MigrationConsistent
    <3>1. CASE n = m
      BY <2>1, <2>2, <3>1 DEF MigrationInv, MigrationConsistent, PermissionsOn
    <3>2. CASE n # m
      BY <2>1, <2>2, <3>2 DEF MigrationInv, MigrationConsistent, PermissionsOn
    <3> QED
      BY <3>1, <3>2
  <2>4. \A n \in Mntners : migration[n] = "complete" => migration'[n] = "complete"
    BY <2>2 DEF MigrationInv
  <2> QED
    BY <1>1, <2>2, <2>3, <2>4 DEF MigrationInv
<1>g. CASE MntnerMigrateComplete(r)
  <2> DEFINE m == requests[r].input
  <2>1. m \in Mntners
    BY <1>g, <1>2 DEF MntnerMigrateComplete, MigrationRequest, Granted, Running
  <2>2. /\ migration' = [migration EXCEPT ![m] = "complete"]
        /\ internal' = internal \union {m}
        /\ UNCHANGED <<permissions, apiTokens, initiator>>
        /\ Redirect(r, requests[r].cookie)
    BY <1>g DEF MntnerMigrateComplete
  <2> HIDE DEF m
  <2>3. MigrationConsistent'
    BY <2>1, <2>2 DEF MigrationInv, MigrationConsistent, PermissionsOn
  <2>4. \A n \in Mntners : migration[n] = "complete" => migration'[n] = "complete"
    BY <2>2 DEF MigrationInv
  <2> QED
    BY <1>1, <2>2, <2>3, <2>4 DEF MigrationInv
<1> QED
  BY <1>a, <1>b, <1>c, <1>d, <1>e, <1>f, <1>g DEF MntnerEndpoint

\* Every step keeps the invariant on migrations.
LEMMA MigrationNext == AccountInv /\ MigrationInv /\ [Next]_vars => MigrationInv'
<1> SUFFICES ASSUME AccountInv, MigrationInv, [Next]_vars PROVE MigrationInv'
  OBVIOUS
<1>0. SessionInv
  BY DEF AccountInv
<1>1. ASSUME UNCHANGED mntnerVars,
             requests' = requests \/ \E r \in Requests :
                                       requests' = [requests EXCEPT ![r] = NoRequest]
      PROVE  MigrationInv'
  <2>1. MigrationConsistent'
    BY <1>1 DEF MigrationInv, MigrationConsistent, PermissionsOn, mntnerVars
  <2>2. \A s \in Requests : requests'[s] # NoRequest => MigrationRequest(requests[s])'
    <3>1. CASE requests' = requests
      BY <1>1, <3>1 DEF MigrationInv, MigrationRequest, mntnerVars
    <3>2. ASSUME NEW r \in Requests, requests' = [requests EXCEPT ![r] = NoRequest]
          PROVE  \A s \in Requests : requests'[s] # NoRequest => MigrationRequest(requests[s])'
      BY <1>0, <1>1, <3>2, MigrationFrame DEF mntnerVars
    <3> QED
      BY <1>1, <3>1, <3>2
  <2> QED
    BY <1>1, <2>1, <2>2 DEF MigrationInv, mntnerVars
<1>2. ASSUME NEW r \in Requests, NEW b \in Browsers, NEW k, NEW x \in Inputs(k),
             NEW right \in BOOLEAN, Begin(r, b, k, x, right)
      PROVE  MigrationInv'
  BY <1>2, MigrationBegin
<1>3. ASSUME NEW r \in Requests, MntnerEndpoint(r) PROVE MigrationInv'
  BY <1>3, MigrationEndpoint
<1>4. ASSUME NEW r \in Requests, AuthEndpoint(r) \/ Refuse(r) \/ Fail(r) PROVE MigrationInv'
  <2>1. UNCHANGED mntnerVars
    BY <1>4 DEF AuthEndpoint, Login, Logout, CreateAccount, ResetPasswordRequest, SetPassword,
      ChangePassword, ChangeProfile, MfaAuthenticate, WebauthnVerifyRegistrationResponse,
      WebauthnRemove, TotpRegister, TotpRemove, Refuse, Fail
  <2>2. requests' = [requests EXCEPT ![r] = NoRequest]
    BY <1>4 DEF AuthEndpoint, Login, Logout, CreateAccount, ResetPasswordRequest, SetPassword,
      ChangePassword, ChangeProfile, MfaAuthenticate, WebauthnVerifyRegistrationResponse,
      WebauthnRemove, TotpRegister, TotpRemove, Refuse, Fail, Redirect, Respond
  <2> QED
    BY <1>1, <2>1, <2>2
<1>5. CASE (\E b \in Browsers : MfaPage(b)) \/ LimitReset \/ DayPasses \/ UNCHANGED vars
  BY <1>1, <1>5 DEF MfaPage, LimitReset, DayPasses, vars, mntnerVars
<1> QED
  BY <1>2, <1>3, <1>4, <1>5 DEF Next

\* The RPSL object of a mntner refers to internal authentication just when its
\* migration is complete, and until then only its initiator has rights on it,
\* whichever requests overlap (mntner_migrate_initiate, mntner_migrate_complete,
\* permission_add, api_token_add).
THEOREM MigrationSafe == Spec => []MigrationConsistent
<1>1. MigrationInv => MigrationConsistent
  BY DEF MigrationInv
<1> QED
  BY <1>1, AccountInit, AccountNext, MigrationInit, MigrationNext, PTL DEF Spec
=============================================================================
