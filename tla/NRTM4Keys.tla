----------------------------- MODULE NRTM4Keys -----------------------------
(***************************************************************************)
(* The signing keys of NRTMv4: what the server signs its update            *)
(* notification file (UNF) with, which key it announces in it, and which   *)
(* keys a client has stored. The operator of the server changes the        *)
(* settings while server runs read them one by one; the operator of the    *)
(* client clears the stored keys while a client run is under way. Versions *)
(* and files are in NRTM4Mirror.                                           *)
(***************************************************************************)
EXTENDS Integers

CONSTANTS
    Keys,        \* key pairs; a signature is the key that made it
    MaxChanges,  \* bound on changes of settings, and on runs that fail
    NoKey

\* What a UNF shows of keys; and a server run that has not signed it yet.
Signature == [key : Keys, next : Keys \union {NoKey}]
Unsigned == [key : {NoKey}, next : Keys \union {NoKey}]

ASSUME KeysAssumption ==
    /\ MaxChanges \in Nat
    /\ NoKey \notin Keys \union Signature \union Unsigned

VARIABLES
    settings,  \* nrtm4_server_private_key, nrtm4_server_private_key_next
    writer,    \* a server run in _write_unf(), or NoKey
    signedUnf, \* the file: its signature and next_signing_key, NoKey while it is empty
    initial,   \* nrtm4_client_initial_public_key
    known,     \* the keys in the status row of the client
    keyRun,    \* a client run that has retrieved the UNF, or NoKey
    retired,   \* keys that the client has seen replaced
    missed,    \* a key was replaced before the client had stored its successor, and the
               \* keys of the client were not cleared since
    changes

keyVars == <<settings, writer, signedUnf, initial, known, keyRun, retired, missed, changes>>
serverKeyVars == <<settings, writer, signedUnf>>
clientKeyVars == <<initial, known, keyRun, retired>>

NoKeys == [current |-> NoKey, next |-> NoKey]

KeysTypeOK ==
    /\ settings \in Signature
    /\ writer \in Unsigned \union Signature \union {NoKey}
    /\ signedUnf \in Signature \union {NoKey}
    /\ initial \in Keys
    /\ known \in [current : Keys \union {NoKey}, next : Keys \union {NoKey}]
    /\ keyRun \in Signature \union {NoKey}
    /\ retired \subseteq Keys
    /\ missed \in BOOLEAN
    /\ changes \in 0..MaxChanges

KeysInit ==
    /\ \E k \in Keys :
          /\ settings = [key |-> k, next |-> NoKey]
          /\ signedUnf = settings
          /\ initial = k
    /\ writer = NoKey
    /\ known = NoKeys
    /\ keyRun = NoKey
    /\ retired = {}
    /\ missed = FALSE
    /\ changes = 0

-----------------------------------------------------------------------------
(* _write_unf() of the server. The status lock makes it one at a time. *)

\* The public key of nrtm4_server_private_key_next, if it is set.
ReadNextKey ==
    /\ writer = NoKey
    /\ writer' = [next |-> settings.next, key |-> NoKey]
    /\ UNCHANGED <<settings, signedUnf, clientKeyVars, missed, changes>>

\* The file is signed, and opened for writing, which leaves it empty.
Sign ==
    /\ writer # NoKey /\ writer.key = NoKey
    /\ writer' = [writer EXCEPT !.key = settings.key]
    /\ signedUnf' = NoKey
    /\ UNCHANGED <<settings, clientKeyVars, missed, changes>>

WriteSignedUnf ==
    /\ writer # NoKey /\ writer.key # NoKey
    /\ signedUnf' = [key |-> writer.key, next |-> writer.next]
    /\ writer' = NoKey
    /\ UNCHANGED <<settings, clientKeyVars, missed, changes>>

Serve == ReadNextKey \/ Sign \/ WriteSignedUnf

-----------------------------------------------------------------------------
(* The client *)

\* Mutant: the key in the settings is accepted besides the stored ones.
AlsoInitialKey == {known.current, known.next, initial} \ {NoKey}

\* Mutant: the announced key is not tried.
OnlyCurrentKey == IF known.current # NoKey THEN {known.current} ELSE {initial}

\* _deserialize_unf(): the stored keys, the initial one only as long as there is
\* none. (Otherwise it is tried for the sake of the error message.)
ExpectedKeys == IF known.current # NoKey THEN {known.current, known.next} \ {NoKey} ELSE {initial}

\* _retrieve_unf(): anything else is an error, and the run ends.
RetrieveSignedUnf ==
    /\ keyRun = NoKey
    /\ signedUnf # NoKey
    /\ signedUnf.key \in ExpectedKeys
    /\ keyRun' = signedUnf
    /\ UNCHANGED <<serverKeyVars, initial, known, retired, missed, changes>>

\* Mutant: the key that was expected stays the current one.
KeepCurrentKey ==
    [current |-> IF known.current # NoKey THEN known.current ELSE keyRun.key, next |-> keyRun.next]

\* The keys in new_status: the one that was used, and the one it announces.
NewKeys == [current |-> keyRun.key, next |-> keyRun.next]

\* The files are loaded, and the status row is committed.
StoreKeys ==
    /\ keyRun # NoKey
    /\ known' = NewKeys
    /\ retired' = (retired \union {known.current}) \ {NoKey, keyRun.key, keyRun.next}
    /\ keyRun' = NoKey
    /\ UNCHANGED <<serverKeyVars, initial, missed, changes>>

KeyRun == RetrieveSignedUnf \/ StoreKeys

-----------------------------------------------------------------------------
(* What happens to them *)

ChangeSomething == changes < MaxChanges /\ changes' = changes + 1

\* The client run ends early, and its transaction is rolled back.
AbortKeyRun ==
    /\ ChangeSomething
    /\ keyRun # NoKey
    /\ keyRun' = NoKey
    /\ UNCHANGED <<serverKeyVars, initial, known, retired, missed>>

\* irrdctl nrtm4 client-clear-known-keys, after the operator has set the initial key
\* to the one that the server uses. A run that is under way will store its keys again.
ClientClearKnownKeys ==
    /\ ChangeSomething
    /\ known.current # NoKey
    /\ known' = NoKeys
    /\ initial' = settings.key
    /\ retired' = {}
    /\ missed' = (missed /\ keyRun # NoKey)
    /\ UNCHANGED <<serverKeyVars, keyRun>>

\* The operator of the server sets nrtm4_server_private_key_next, or removes it.
Announce ==
    /\ ChangeSomething
    /\ \E k \in (Keys \union {NoKey}) \ {settings.key, settings.next} :
          settings' = [settings EXCEPT !.next = k]
    /\ UNCHANGED <<writer, signedUnf, clientKeyVars, missed>>

\* A week has passed: runs that began before the key was announced have ended, and
\* the client has stored it.
Stored ==
    /\ known.next = settings.next
    /\ signedUnf # NoKey /\ signedUnf.next = settings.next
    /\ writer = NoKey \/ writer.next = settings.next
    /\ keyRun = NoKey \/ keyRun.next = settings.next

\* The announced key becomes the private key.
Rotate ==
    /\ ChangeSomething
    /\ settings.next # NoKey
    /\ settings' = [key |-> settings.next, next |-> NoKey]
    /\ missed' = (missed \/ ~Stored)
    /\ UNCHANGED <<writer, signedUnf, clientKeyVars>>

KeysNext == Serve \/ KeyRun \/ AbortKeyRun \/ ClientClearKnownKeys \/ Announce \/ Rotate

KeysSpec == KeysInit /\ [][KeysNext]_keyVars

\* The schedulers of the server and of the client start a run every minute. The file
\* is empty for a moment only, and the client does not always come at that moment.
FairKeysSpec == KeysSpec /\ WF_keyVars(Serve) /\ SF_keyVars(KeyRun)

-----------------------------------------------------------------------------
(* Properties *)

\* A client survives rotations: as long as each new key was announced until the
\* client had stored it, the client expects the key that the server signs with,
\* and the one of the file that it may retrieve, whichever runs were under way
\* when the settings changed (nrtm4_server.py 230-266, nrtm4_client.py 136-199).
RotationKeepsClients ==
    ~missed /\ known.current # NoKey =>
        /\ settings.key \in ExpectedKeys
        /\ signedUnf # NoKey => signedUnf.key \in ExpectedKeys

\* A key that was replaced is not accepted again, also if it is still the one in the
\* client's settings, unless the server announces it anew or the stored keys are
\* cleared (nrtm4_client.py 150-190).
RetiredKeysRefused ==
    [][RetrieveSignedUnf => signedUnf.key \notin retired]_keyVars

\* The client comes to know the keys of the server, unless a rotation was missed and
\* the stored keys were not cleared since (nrtm4_client.py 98-114, irrd_control.py 146-178).
KeysSettle ==
    <>[](missed \/ known = [current |-> settings.key, next |-> settings.next])
=============================================================================
