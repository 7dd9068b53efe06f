------------------------------ MODULE Accounts ------------------------------
(***************************************************************************)
(* User accounts of the web interface (irrd.webui): sessions, passwords,  *)
(* second factors, and the permissions and API tokens users have on       *)
(* mntners that were migrated to internal authentication.                 *)
(*                                                                        *)
(* Requests overlap. A request reads the account, the permissions and     *)
(* what its form is validated against (Begin), and writes and commits in  *)
(* one database transaction later (one action per endpoint): the commit() *)
(* of the ORM session joins the transaction of its DatabaseHandler, which *)
(* only session_provider_manager commits.                                 *)
(*                                                                        *)
(* The session is a signed cookie. A request works on the copy it came    *)
(* with and its response replaces the cookie of the browser.              *)
(***************************************************************************)
EXTENDS Integers, FiniteSets

CONSTANTS
    Users,       \* rows auth_user may have
    Emails,      \* email addresses, which identify users in sessions
    Mntners,     \* mntner objects in authoritative sources
    Keys,        \* WebAuthn security tokens
    Browsers,    \* each holds one session cookie
    Requests,    \* requests that may be in progress at once
    Scenarios,   \* a behaviour follows one: the endpoints in use, the users that
                 \* have an account at first, whether forms are filled in wrongly
    HomeEmail,   \* the email address of each user at first
    RateLimit,   \* auth.webui_auth_failure_rate_limit, for one host
    ResetValidity, \* PASSWORD_RESET_VALIDITY_DAYS
    MaxHashes,   \* bound on the passwords an account has in turn
    MaxDay,      \* bound on the days that pass
    None

ASSUME AccountsAssumption ==
    /\ HomeEmail \in [Users -> Emails]
    /\ \A c \in Scenarios : c.registered \subseteq Users
    /\ IsFiniteSet(Requests)
    /\ RateLimit \in Nat \ {0}
    /\ None \notin Users \union Emails

VARIABLES
    scenario,    \* the scenario of this behaviour
    users,       \* table auth_user, with auth_webauthn
    migration,   \* table auth_mntner: migration of each mntner
    internal,    \* mntners whose RPSL object has IRRD-INTERNAL-AUTH
    permissions, \* table auth_permission
    apiTokens,   \* table auth_api_token
    mailed,      \* password reset tokens sent by email
    today,
    sessions,    \* the session cookie of each browser
    requests,    \* requests in progress
    hits,        \* the rate limiter
    wrong,       \* observer: wrong credentials tried since the limiter was reset
    initiator    \* observer: who started the migration of each mntner

vars == <<scenario, users, migration, internal, permissions, apiTokens,
          mailed, today, sessions, requests, hits, wrong, initiator>>
accountVars == <<users, mailed>>
mntnerVars == <<migration, internal, permissions, apiTokens, initiator>>

-----------------------------------------------------------------------------
(* Tables and sessions. *)

\* password counts the passwords of the account: every hash has its own salt. A
\* new account gets a random string instead, which no password matches.
NoUser == [email |-> None, password |-> 0, usable |-> FALSE, totp |-> FALSE, keys |-> {}]
Permission == [user : Users, mntner : Mntners, manage : BOOLEAN]
ApiToken == [mntner : Mntners, email : BOOLEAN, restricted : BOOLEAN]

\* email, hash, mfa, challenge and secret are the keys of the session; account,
\* asked and factor are observers: who logged in, whether the account had a
\* second factor then, and whether one was shown in this session.
NoSession == [email |-> None, hash |-> None, mfa |-> FALSE, challenge |-> FALSE, secret |-> FALSE,
              account |-> None, asked |-> FALSE, factor |-> FALSE]

NoRequest == [kind |-> "none"]

HashOf(u) == <<u, users[u].password>>
HasMfa(u) == users[u].totp \/ users[u].keys # {}

\* Mutant: imia's SessionAuthenticator, which does not look at the hash.
AuthenticateByEmail(v) ==
    {u \in Users : users[u].email = v.email /\ v.email # None}

\* HashValidatingSessionAuthenticator.authenticate(): the account with the email
\* of the session, if the session has the hash of its current password.
Authenticate(v) ==
    {u \in Users : users[u].email = v.email /\ v.email # None /\ v.hash = HashOf(u)}

Init ==
    /\ scenario \in Scenarios
    /\ users = [u \in Users |-> IF u \in scenario.registered
                                THEN [NoUser EXCEPT !.email = HomeEmail[u], !.usable = TRUE]
                                ELSE NoUser]
    /\ migration = [m \in Mntners |-> "none"]
    /\ internal = {}
    /\ permissions = {}
    /\ apiTokens = {}
    /\ mailed = {}
    /\ today = 0
    /\ sessions = [b \in Browsers |-> NoSession]
    /\ requests = [r \in Requests |-> NoRequest]
    /\ hits = 0
    /\ wrong = 0
    /\ initiator = [m \in Mntners |-> None]

-----------------------------------------------------------------------------
(* The life of a request. *)

\* Endpoints that count POST requests to limit guesses; the last two count
\* every response, the others a response that shows the form again.
CountsAll == {"create_account", "reset_password_request"}
Limited == CountsAll \union {"login", "mfa_authenticate", "change_password", "change_profile",
    "webauthn_remove", "totp_remove", "permission_add", "permission_delete",
    "mntner_migrate_initiate", "mntner_migrate_complete"}

\* Endpoints that need no login, and those that need no second factor.
Public == {"login", "create_account", "reset_password_request", "set_password"}
BeforeMfa == {"logout", "mfa_authenticate", "webauthn_verify_authentication_response"}

\* authentication_required, with and without mfa_check.
AuthenticationRequired(k, v) ==
    \/ k \in Public
    \/ Authenticate(v) # {} /\ (k \in BeforeMfa \/ v.mfa)

Actor(k, v) == IF k \in Public THEN None ELSE CHOOSE u \in Users : u \in Authenticate(v)

Has(u, m, manage) == \E p \in permissions : p.user = u /\ p.mntner = m /\ (manage => p.manage)
PermissionsOn(m) == {p \in permissions : p.mntner = m}

\* What the user fills in or follows a link for.
Inputs(k) ==
    CASE k \in {"login", "create_account", "reset_password_request", "change_profile"} -> Emails
      [] k = "set_password" -> mailed
      [] k \in {"webauthn_verify_authentication_response",
                "webauthn_verify_registration_response", "webauthn_remove"} -> Keys
      [] k \in {"api_token_add", "api_token_edit"} -> ApiToken
      [] k = "api_token_delete" -> apiTokens
      [] k = "permission_add" -> Permission
      [] k = "permission_delete" -> permissions
      [] k \in {"mntner_migrate_initiate", "mntner_migrate_complete"} -> Mntners
      [] OTHER -> {None}

\* ApiTokenForm.validate(): tokens for email have no IP restriction.
ApiTokenForm(x) == ~(x.email /\ x.restricted)

\* Mutant: the migration need not be complete.
PermissionAddAnyMntner(u, x) ==
    /\ Has(u, x.mntner, TRUE)
    /\ users[x.user].email # None
    /\ ~Has(x.user, x.mntner, FALSE)

\* permission_add(), PermissionAddForm.validate(): the user manages this migrated
\* mntner, and the new user exists and has no permission on it.
PermissionAddForm(u, x) ==
    /\ Has(u, x.mntner, TRUE)
    /\ migration[x.mntner] = "complete"
    /\ users[x.user].email # None
    /\ ~Has(x.user, x.mntner, FALSE)

\* permission_delete(): the user manages the migrated mntner, and this is not
\* its last permission.
PermissionDeleteForm(u, x) ==
    /\ Has(u, x.mntner, TRUE)
    /\ migration[x.mntner] = "complete"
    /\ PermissionsOn(x.mntner) # {x}

\* PasswordResetToken.validate_token(): made for the current password (no
\* statement changes AuthUser.updated), and not expired.
ValidateToken(x) == x.password = users[x.user].password /\ today <= x.expiry

\* What each endpoint looks up before it takes the form: without it, the
\* response is 404 or the form again.
Accepts(k, u, v, x) ==
    /\ k = "create_account" => \A w \in Users : users[w].email # x
    /\ k = "set_password" => ValidateToken(x)
    /\ k = "mfa_authenticate" => users[u].totp
    /\ k = "webauthn_verify_authentication_response" => v.challenge /\ x \in users[u].keys
    /\ k = "webauthn_verify_registration_response" => v.challenge /\ x \notin users[u].keys
    /\ k = "webauthn_remove" => x \in users[u].keys
    /\ k = "totp_register" => v.secret
    /\ k = "api_token_add" =>
         Has(u, x.mntner, FALSE) /\ migration[x.mntner] = "complete" /\ ApiTokenForm(x)
    /\ k = "api_token_edit" =>
         Has(u, x.mntner, FALSE) /\ ApiTokenForm(x) /\ \E t \in apiTokens : t.mntner = x.mntner
    /\ k = "api_token_delete" => Has(u, x.mntner, FALSE)
    /\ k = "permission_add" => PermissionAddForm(u, x)
    /\ k = "permission_delete" => PermissionDeleteForm(u, x)
    /\ k = "mntner_migrate_initiate" => migration[x] = "none"
    /\ k = "mntner_migrate_complete" => migration[x] = "pending" /\ Has(u, x, TRUE)

\* rate_limit_post: a request over the limit is rejected.
RateLimitTest(k) == k \in Limited => hits < RateLimit

\* A POST request arrives with the cookie of browser b. right says whether the
\* password or code that is typed in is right and the form is complete.
Begin(r, b, k, x, right) ==
    LET v == sessions[b]
    IN  /\ requests[r] = NoRequest
        /\ k \in scenario.endpoints
        /\ RateLimitTest(k)
        /\ AuthenticationRequired(k, v)
        /\ Accepts(k, Actor(k, v), v, x)
        /\ right \/ (scenario.errors /\ k \in Limited \ CountsAll)
        /\ requests' = [requests EXCEPT ![r] = [kind |-> k, browser |-> b, cookie |-> v,
                                                user |-> Actor(k, v), input |-> x, right |-> right]]
        /\ UNCHANGED <<scenario, accountVars, mntnerVars, today, sessions, hits, wrong>>

Running(r, k) == requests[r].kind = k
Granted(r, k) == Running(r, k) /\ requests[r].right

\* Mutant: only redirects are counted.
HitOnRedirect(k, code) == IF k \in CountsAll \/ (k \in Limited /\ code = 302) THEN 1 ELSE 0

\* rate_limit_post: "Hits are counted [...] when the response is 200 [...] or when
\* any_response_code is set".
Hit(k, code) == IF k \in CountsAll \/ (k \in Limited /\ code = 200) THEN 1 ELSE 0

\* The response: session_provider_manager has committed, SessionMiddleware sets
\* the cookie.
Respond(r, v, code) ==
    /\ sessions' = [sessions EXCEPT ![requests[r].browser] = v]
    /\ requests' = [requests EXCEPT ![r] = NoRequest]
    /\ hits' = hits + Hit(requests[r].kind, code)
    /\ UNCHANGED <<scenario, today>>

Redirect(r, v) == Respond(r, v, 302) /\ UNCHANGED wrong

\* The form is not valid.
Refuse(r) ==
    /\ requests[r] # NoRequest
    /\ ~requests[r].right
    /\ Respond(r, IF Running(r, "login") THEN NoSession ELSE requests[r].cookie, 200)
    /\ wrong' = wrong + 1
    /\ UNCHANGED <<accountVars, mntnerVars>>

\* An exception: the transaction is rolled back and no cookie is set.
Fail(r) ==
    /\ requests[r] # NoRequest
    /\ requests' = [requests EXCEPT ![r] = NoRequest]
    /\ UNCHANGED <<scenario, accountVars, mntnerVars, today, sessions, hits, wrong>>

-----------------------------------------------------------------------------
(* irrd.webui.auth.endpoints *)

\* Mutant: the previous session is kept.
LoginKeepingSession(v, u) ==
    [v EXCEPT !.email = users[u].email, !.hash = HashOf(u), !.mfa = @ \/ ~HasMfa(u),
              !.account = u, !.asked = HasMfa(u), !.factor = FALSE]

\* The session after login: it starts empty, and an account without a second
\* factor is complete.
LoginSession(v, u) ==
    [NoSession EXCEPT !.email = users[u].email, !.hash = HashOf(u), !.mfa = ~HasMfa(u),
                      !.account = u, !.asked = HasMfa(u), !.factor = FALSE]

Login(r) ==
    /\ Granted(r, "login")
    /\ \E u \in Users :
         /\ users[u].email = requests[r].input
         /\ users[u].usable
         /\ Redirect(r, LoginSession(requests[r].cookie, u))
    /\ UNCHANGED <<accountVars, mntnerVars>>

Logout(r) ==
    /\ Granted(r, "logout")
    /\ Redirect(r, NoSession)
    /\ UNCHANGED <<accountVars, mntnerVars>>

ResetToken(u, password) == [user |-> u, password |-> password, expiry |-> today + ResetValidity]

\* The email address is unique: the second of two concurrent requests fails.
CreateAccount(r) ==
    /\ Granted(r, "create_account")
    /\ \A w \in Users : users[w].email # requests[r].input
    /\ \E u \in Users :
         /\ users[u] = NoUser
         /\ users' = [users EXCEPT ![u].email = requests[r].input]
         /\ mailed' = mailed \union {ResetToken(u, 0)}
    /\ Redirect(r, requests[r].cookie)
    /\ UNCHANGED mntnerVars

\* An email is sent only if there is such an account; the answer is the same.
ResetPasswordRequest(r) ==
    /\ Granted(r, "reset_password_request")
    /\ mailed' = mailed \union {ResetToken(u, users[u].password) :
                                  u \in {w \in Users : users[w].email = requests[r].input}}
    /\ Redirect(r, requests[r].cookie)
    /\ UNCHANGED <<users, mntnerVars>>

NewPassword(u) ==
    /\ users[u].password < MaxHashes
    /\ users' = [users EXCEPT ![u].password = @ + 1, ![u].usable = TRUE]

SetPassword(r) ==
    /\ Granted(r, "set_password")
    /\ NewPassword(requests[r].input.user)
    /\ Redirect(r, requests[r].cookie)
    /\ UNCHANGED <<mailed, mntnerVars>>

\* update_session_hash() keeps the session of this browser valid.
ChangePassword(r) ==
    LET u == requests[r].user
    IN  /\ Granted(r, "change_password")
        /\ NewPassword(u)
        /\ Redirect(r, [requests[r].cookie EXCEPT !.hash = <<u, users[u].password + 1>>])
        /\ UNCHANGED <<mailed, mntnerVars>>

\* The session keeps the old email address.
ChangeProfile(r) ==
    LET u == requests[r].user
    IN  /\ Granted(r, "change_profile")
        /\ \A w \in Users \ {u} : users[w].email # requests[r].input
        /\ users' = [users EXCEPT ![u].email = requests[r].input]
        /\ Redirect(r, requests[r].cookie)
        /\ UNCHANGED <<mailed, mntnerVars>>

-----------------------------------------------------------------------------
(* irrd.webui.auth.endpoints_mfa *)

\* The pages that put a WebAuthn challenge or a new TOTP secret in the session.
MfaPage(b) ==
    LET v == sessions[b]
    IN  /\ "mfa_authenticate" \in scenario.endpoints
        /\ \E u \in Authenticate(v) :
             \/ /\ users[u].keys # {} \/ v.mfa
                /\ sessions' = [sessions EXCEPT ![b].challenge = TRUE]
             \/ /\ v.mfa
                /\ sessions' = [sessions EXCEPT ![b].secret = TRUE]
        /\ UNCHANGED <<scenario, accountVars, mntnerVars, today, requests, hits, wrong>>

\* The session once the second factor has been shown.
MfaComplete(v) == [v EXCEPT !.mfa = TRUE, !.challenge = FALSE, !.factor = TRUE]

\* mfa_authenticate() with a TOTP code, or a WebAuthn response.
MfaAuthenticate(r) ==
    /\ \/ Granted(r, "mfa_authenticate")
       \/ Granted(r, "webauthn_verify_authentication_response")
    /\ Redirect(r, MfaComplete(requests[r].cookie))
    /\ UNCHANGED <<accountVars, mntnerVars>>

WebauthnVerifyRegistrationResponse(r) ==
    /\ Granted(r, "webauthn_verify_registration_response")
    /\ users' = [users EXCEPT ![requests[r].user].keys = @ \union {requests[r].input}]
    /\ Redirect(r, [requests[r].cookie EXCEPT !.challenge = FALSE])
    /\ UNCHANGED <<mailed, mntnerVars>>

WebauthnRemove(r) ==
    /\ Granted(r, "webauthn_remove")
    /\ users' = [users EXCEPT ![requests[r].user].keys = @ \ {requests[r].input}]
    /\ Redirect(r, requests[r].cookie)
    /\ UNCHANGED <<mailed, mntnerVars>>

TotpRegister(r) ==
    /\ Granted(r, "totp_register")
    /\ users' = [users EXCEPT ![requests[r].user].totp = TRUE]
    /\ Redirect(r, requests[r].cookie)
    /\ UNCHANGED <<mailed, mntnerVars>>

TotpRemove(r) ==
    /\ Granted(r, "totp_remove")
    /\ users' = [users EXCEPT ![requests[r].user].totp = FALSE]
    /\ Redirect(r, requests[r].cookie)
    /\ UNCHANGED <<mailed, mntnerVars>>

-----------------------------------------------------------------------------
(* irrd.webui.endpoints_mntners *)

ApiTokenAdd(r) ==
    /\ Granted(r, "api_token_add")
    /\ apiTokens' = apiTokens \union {requests[r].input}
    /\ Redirect(r, requests[r].cookie)
    /\ UNCHANGED <<accountVars, migration, internal, permissions, initiator>>

ApiTokenEdit(r) ==
    /\ Granted(r, "api_token_edit")
    /\ \E t \in apiTokens :
         /\ t.mntner = requests[r].input.mntner
         /\ apiTokens' = (apiTokens \ {t}) \union {requests[r].input}
    /\ Redirect(r, requests[r].cookie)
    /\ UNCHANGED <<accountVars, migration, internal, permissions, initiator>>

ApiTokenDelete(r) ==
    /\ Granted(r, "api_token_delete")
    /\ apiTokens' = apiTokens \ {requests[r].input}
    /\ Redirect(r, requests[r].cookie)
    /\ UNCHANGED <<accountVars, migration, internal, permissions, initiator>>

\* A user has one permission on a mntner: the second of two concurrent requests
\* violates the unique constraint and fails.
PermissionAdd(r) ==
    LET x == requests[r].input
    IN  /\ Granted(r, "permission_add")
        /\ ~Has(x.user, x.mntner, FALSE)
        /\ permissions' = permissions \union {x}
        /\ Redirect(r, requests[r].cookie)
        /\ UNCHANGED <<accountVars, migration, internal, apiTokens, initiator>>

PermissionDelete(r) ==
    /\ Granted(r, "permission_delete")
    /\ permissions' = permissions \ {requests[r].input}
    /\ Redirect(r, requests[r].cookie)
    /\ UNCHANGED <<accountVars, migration, internal, apiTokens, initiator>>

\* The password of the mntner object was right. An object has one AuthMntner: the
\* second of two concurrent requests fails.
MntnerMigrateInitiate(r) ==
    LET m == requests[r].input
        u == requests[r].user
    IN  /\ Granted(r, "mntner_migrate_initiate")
        /\ migration[m] = "none"
        /\ migration' = [migration EXCEPT ![m] = "pending"]
        /\ permissions' = permissions \union {[user |-> u, mntner |-> m, manage |-> TRUE]}
        /\ initiator' = [initiator EXCEPT ![m] = u]
        /\ Redirect(r, requests[r].cookie)
        /\ UNCHANGED <<accountVars, internal, apiTokens>>

\* The user has followed the link mailed to the admin-c, and given the password
\* of the mntner object again. upsert_rpsl_object() is in the same transaction.
MntnerMigrateComplete(r) ==
    LET m == requests[r].input
    IN  /\ Granted(r, "mntner_migrate_complete")
        /\ migration' = [migration EXCEPT ![m] = "complete"]
        /\ internal' = internal \union {m}
        /\ Redirect(r, requests[r].cookie)
        /\ UNCHANGED <<accountVars, permissions, apiTokens, initiator>>

-----------------------------------------------------------------------------

\* The window of the rate limiter ends.
LimitReset ==
    /\ hits > 0
    /\ hits' = 0
    /\ wrong' = 0
    /\ UNCHANGED <<scenario, accountVars, mntnerVars, today, sessions, requests>>

DayPasses ==
    /\ mailed # {}
    /\ today < MaxDay
    /\ today' = today + 1
    /\ UNCHANGED <<scenario, accountVars, mntnerVars, sessions, requests, hits, wrong>>

AuthEndpoint(r) ==
    \/ Login(r) \/ Logout(r) \/ CreateAccount(r) \/ ResetPasswordRequest(r)
    \/ SetPassword(r) \/ ChangePassword(r) \/ ChangeProfile(r)
    \/ MfaAuthenticate(r) \/ WebauthnVerifyRegistrationResponse(r) \/ WebauthnRemove(r)
    \/ TotpRegister(r) \/ TotpRemove(r)

MntnerEndpoint(r) ==
    \/ ApiTokenAdd(r) \/ ApiTokenEdit(r) \/ ApiTokenDelete(r)
    \/ PermissionAdd(r) \/ PermissionDelete(r)
    \/ MntnerMigrateInitiate(r) \/ MntnerMigrateComplete(r)

Next ==
    \/ \E r \in Requests, b \in Browsers, k \in scenario.endpoints, right \in BOOLEAN :
          \E x \in Inputs(k) : Begin(r, b, k, x, right)
    \/ \E r \in Requests : AuthEndpoint(r) \/ MntnerEndpoint(r) \/ Refuse(r) \/ Fail(r)
    \/ \E b \in Browsers : MfaPage(b)
    \/ LimitReset
    \/ DayPasses

Spec == Init /\ [][Next]_vars

-----------------------------------------------------------------------------
(* Properties. *)

\* Sessions name the account by its email address, which users can change and
\* give up to others: a session that is accepted still acts for the account that
\* logged in, and for no other.
SessionOwner == \A b \in Browsers : Authenticate(sessions[b]) \subseteq {sessions[b].account}

\* A session of an account that had a second factor at login passes
\* authentication_required only once that factor was shown in this session.
SecondFactor ==
    \A b \in Browsers :
        sessions[b].mfa /\ sessions[b].asked /\ Authenticate(sessions[b]) # {} => sessions[b].factor

\* The limiter is asked before a request and counts after it: guesses exceed the
\* limit by no more than the requests that overlap.
GuessesBounded == wrong <= RateLimit - 1 + Cardinality(Requests)

\* Until a migration is complete it has had no effect: the RPSL object does not
\* refer to internal authentication, and only the initiator has a permission.
\* Afterwards the RPSL object does, whichever requests overlapped.
MigrationConsistent ==
    \A m \in Mntners :
        /\ m \in internal <=> migration[m] = "complete"
        /\ migration[m] = "none" => PermissionsOn(m) = {}
        /\ migration[m] = "pending" => \A p \in PermissionsOn(m) : p.user = initiator[m] /\ p.manage
        /\ \A t \in apiTokens : t.mntner = m => migration[m] = "complete"
=============================================================================
