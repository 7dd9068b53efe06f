---------------------------- MODULE NRTM4Mirror ----------------------------
(***************************************************************************)
(* An NRTMv4 server and a client that mirrors its source, in the scenarios *)
(* that have one.                                                          *)
(***************************************************************************)
EXTENDS NRTM4Server

VARIABLES data, clientStatus, run

Client == INSTANCE NRTM4Client

clientVars == <<data, clientStatus, run>>
mirrorVars == <<serverVars, clientVars>>

MirrorInit == Init /\ Client!ClientInit

\* A step of the server, or of those who change its database.
ServerStep == Next /\ UNCHANGED clientVars

\* The client leaves what the server has alone.
OnServer == <<databaseVars, created, statusLock, snapshotLock, runVars>>

ClientStep ==
    /\ "client" \in Operations
    /\ Client!ClientRun
    /\ UNCHANGED <<scenario, OnServer, boundVars>>

ClientForceReload ==
    /\ "clientForce" \in Operations
    /\ Client!ForceReload
    /\ UNCHANGED <<scenario, OnServer, boundVars>>

ClientAbort ==
    /\ crashes < MaxCrashes
    /\ crashes' = crashes + 1
    /\ Client!Abort
    /\ UNCHANGED <<scenario, OnServer, aged, sessions, reloads, overtaken>>

MirrorNext == ServerStep \/ ClientStep \/ ClientForceReload \/ ClientAbort

MirrorSpec == MirrorInit /\ [][MirrorNext]_<<scenario, mirrorVars>>

\* The schedulers of the server and of the client start a run every minute.
FairMirrorSpec ==
    /\ MirrorSpec
    /\ \A p \in Servers :
          WF_mirrorVars(p \in Setup[scenario].servers /\ Run(p) /\ UNCHANGED clientVars)
    /\ WF_mirrorVars(ClientStep)

-----------------------------------------------------------------------------
(* Properties *)

\* The client is at a version the server knows, and would accept what the server
\* publishes now: no reference has changed.
InStep ==
    /\ status # None
    /\ status.session # 0
    /\ Complete(UnfOf(status))
    /\ clientStatus.session = status.session
    /\ clientStatus.version <= status.version
    /\ Client!HistoryKept(clientStatus, UnfOf(status))
    /\ Connected(status, clientStatus.version)

\* Nothing is lost on the way to a client: from the version a client has recorded,
\* the deltas of the server and what the next one will hold lead to the objects of
\* the server. The client never records a version whose changes it does not have
\* (nrtm4_client.py 75-114, 220-286).
ClientMissesNothing ==
    InStep => LeadsToRows(data, status, clientStatus.version)

\* A mirror catches up: once the database of the server no longer changes, the
\* client gets all objects and keeps them, unless it is made to reload again and
\* again. A server run that crashed may have published a version that another
\* file gets later, which the client refuses.
CatchesUp ==
    <>[][~ClientForceReload]_mirrorVars =>
        <>[]("client" \in Operations /\ status # None /\ ~status.force /\ ~overtaken /\ crashes = 0 => data = rows)
=============================================================================
