---------------------------- MODULE MCAccounts ----------------------------
EXTENDS Accounts, TLC

CONSTANTS u1, u2, e1, e2

MCHomeEmail == [u \in Users |-> IF u = u1 THEN e1 ELSE e2]

\* Accounts and their passwords, second factors, guesses, mntners and those who
\* maintain them, API tokens.
AccountWork == [endpoints |-> {"login", "create_account", "reset_password_request", "set_password",
                               "change_password", "change_profile"},
                registered |-> {u1}, errors |-> FALSE]
FactorWork == [endpoints |-> {"login", "logout", "mfa_authenticate",
                              "webauthn_verify_authentication_response",
                              "webauthn_verify_registration_response", "webauthn_remove",
                              "totp_register", "totp_remove"},
               registered |-> {u1, u2}, errors |-> FALSE]
Guesses == [endpoints |-> {"login", "change_password", "reset_password_request"},
            registered |-> {u1}, errors |-> TRUE]
MntnerWork == [endpoints |-> {"login", "permission_add", "permission_delete",
                              "mntner_migrate_initiate", "mntner_migrate_complete"},
               registered |-> {u1, u2}, errors |-> FALSE]
TokenWork == [endpoints |-> {"login", "mntner_migrate_initiate", "mntner_migrate_complete",
                             "api_token_add", "api_token_edit", "api_token_delete"},
              registered |-> {u1}, errors |-> FALSE]
MCScenarios == {AccountWork, FactorWork, Guesses, MntnerWork, TokenWork}
RequestSymmetry == Permutations(Requests)
===========================================================================
