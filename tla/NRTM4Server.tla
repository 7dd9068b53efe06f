---------------------------- MODULE NRTM4Server ----------------------------
(***************************************************************************)
(* irrd.mirroring.nrtm4.nrtm4_server: the runs of NRTM4ServerWriter for    *)
(* one source, which the scheduler starts every minute whether or not the  *)
(* previous one has ended, against the journal and the status row of the   *)
(* database, two lock files, and the directory that mirrors read.          *)
(*                                                                         *)
(* Journal entries become visible in the order of serial_global: this is   *)
(* GlobalSerialsInOrder of DatabaseHandler. Files have unique names; they  *)
(* are numbered in the order in which they are created.                    *)
(***************************************************************************)
EXTENDS Integers, FiniteSetsExt

CONSTANTS
    Servers,     \* processes that execute server runs
    Objects,     \* objects of the source
    Texts,       \* texts of visible objects
    Setup,       \* scenarios: records with the fields below
    None         \* absent object, row, file or lock holder

ASSUME SetupAssumption ==
    \A n \in DOMAIN Setup :
        /\ Setup[n].servers \subseteq Servers      \* those that run
        /\ Setup[n].operations \subseteq {"elsewhere", "reload", "force", "outage", "day", "client", "clientForce"}
        /\ Setup[n].serials \in Nat               \* bound on serial_global
        /\ Setup[n].crashes \in Nat               \* bound on server runs that end early
        /\ Setup[n].reloads \in Nat               \* bound on full imports of the source
        /\ Setup[n].sessions \in Nat              \* bound on the sessions of the server
ASSUME NoneAssumption == None \notin Texts \union Objects \union Servers

VARIABLES
    scenario,
    \* the database
    rows,          \* visible objects of the source
    journal,       \* journal entries of all sources
    sequence,      \* the serial_global sequence
    status,        \* NRTMv4 server fields of the status row of the source
    \* the directory and the lock files
    unf,           \* the update notification file
    deltaFiles,
    snapshotFiles,
    created,       \* number of files created
    statusLock,
    snapshotLock,
    \* each server run
    pc,
    maxSerial,     \* self.max_serial_global
    horizon,       \* files up to this one are over 24 hours old for this run
    local,         \* self.status
    initialising,  \* is_initialisation
    snapshot,      \* snapshot_file
    \* the passing of time, and bounds
    aged,          \* files up to this one are over 24 hours old
    sessions,      \* number of sessions started
    crashes,
    reloads,
    overtaken      \* the source has been reloaded during a server run

databaseVars == <<rows, journal, sequence, status>>
diskVars == <<unf, deltaFiles, snapshotFiles, created>>
runVars == <<pc, maxSerial, horizon, local, initialising, snapshot>>
boundVars == <<aged, sessions, crashes, reloads, overtaken>>
serverVars == <<databaseVars, diskVars, statusLock, snapshotLock, runVars, boundVars>>

Operations == Setup[scenario].operations
MaxSerial == Setup[scenario].serials
MaxCrashes == Setup[scenario].crashes
MaxReloads == Setup[scenario].reloads
MaxSessions == Setup[scenario].sessions

-----------------------------------------------------------------------------
(* Journal entries, files and the status row. *)

\* An entry of another source has no object here.
Entry == [glob : Nat, obj : Objects \union {None}, text : Texts \union {None}]
Own(J) == {e \in J : e.obj # None}

DeltaRef == [version : Nat, file : Nat, end : Nat]

\* The list of deltas is in the order of their versions.
StatusType ==
    [force : BOOLEAN, session : Nat, version : Nat, snapVersion : Nat, snapSerial : Nat,
     snapFile : Nat, deltas : SUBSET DeltaRef]

ASSUME StatusAssumption == None \notin StatusType

\* NULL is 0: sessions, versions, serials and files are numbered from 1.
EmptyStatus == [force |-> FALSE, session |-> 0, version |-> 0, snapVersion |-> 0,
                snapSerial |-> 0, snapFile |-> 0, deltas |-> {}]

Newest(refs) == CHOOSE ref \in refs : \A r \in refs : r.version <= ref.version

About(E, o) == {e \in E : e.obj = o}
Latest(E) == CHOOSE e \in E : \A f \in E : f.glob <= e.glob

\* The visible objects after some journal entries, in the order of serial_global.
Apply(objects, E) ==
    [o \in Objects |-> IF About(E, o) = {} THEN objects[o] ELSE Latest(About(E, o)).text]

Init ==
    /\ rows = [o \in Objects |-> None]
    /\ journal = {}
    /\ sequence = 0
    /\ status = None
    /\ unf = None
    /\ deltaFiles = {}
    /\ snapshotFiles = {}
    /\ created = 0
    /\ statusLock = None
    /\ snapshotLock = None
    /\ scenario \in DOMAIN Setup
    /\ pc = [p \in Servers |-> "idle"]
    /\ maxSerial = [p \in Servers |-> 0]
    /\ horizon = [p \in Servers |-> 0]
    /\ local = [p \in Servers |-> EmptyStatus]
    /\ initialising = [p \in Servers |-> FALSE]
    /\ snapshot = [p \in Servers |-> 0]
    /\ aged = 0
    /\ sessions = 0
    /\ crashes = 0
    /\ reloads = 0
    /\ overtaken = FALSE

-----------------------------------------------------------------------------
(* The database, as other processes change it. *)

\* finalise_transaction() creates the row of a source that has none.
StatusKept == IF status = None THEN EmptyStatus ELSE status

\* A transaction that changes one visible object.
Change(o, t) ==
    /\ sequence < MaxSerial
    /\ rows[o] # t
    /\ rows' = [rows EXCEPT ![o] = t]
    /\ journal' = journal \union {[glob |-> sequence + 1, obj |-> o, text |-> t]}
    /\ sequence' = sequence + 1
    /\ status' = StatusKept
    /\ UNCHANGED <<diskVars, statusLock, snapshotLock, runVars, boundVars>>

\* A transaction of another source.
ChangeElsewhere ==
    /\ "elsewhere" \in Operations
    /\ sequence < MaxSerial
    /\ journal' = journal \union {[glob |-> sequence + 1, obj |-> None, text |-> None]}
    /\ sequence' = sequence + 1
    /\ UNCHANGED <<rows, status, diskVars, statusLock, snapshotLock, runVars, boundVars>>

\* A full import: delete_all_rpsl_objects_with_journal() removes objects, journal
\* and status of the source, the objects that are loaded are not journaled.
Reload(objects) ==
    /\ "reload" \in Operations
    /\ reloads < MaxReloads
    /\ reloads' = reloads + 1
    /\ overtaken' = (overtaken \/ \E p \in Servers : pc[p] # "idle")
    /\ rows' = objects
    /\ journal' = journal \ Own(journal)
    /\ status' = EmptyStatus
    /\ UNCHANGED <<sequence, diskVars, statusLock, snapshotLock, runVars, aged, sessions, crashes>>

\* irrd_mirror_force_reload.
SetForceReload ==
    /\ "force" \in Operations
    /\ reloads < MaxReloads
    /\ status # None
    /\ status' = [status EXCEPT !.force = TRUE]
    /\ UNCHANGED <<rows, journal, sequence, diskVars, statusLock, snapshotLock, runVars, boundVars>>

\* NRTM4_SERVER_DELTA_EXPIRY_TIME and DANGLING_SNAPSHOT_EXPIRY_TIME have passed
\* for all files there are. Unless runs are held up for a day (an outage), those
\* of that day have ended by then, and have made a snapshot of the current version.
DayPasses ==
    /\ \/ "outage" \in Operations
       \/ /\ "day" \in Operations
          /\ \A p \in Servers : pc[p] = "idle"
          /\ status # None => status.snapVersion = status.version
    /\ aged # created
    /\ aged' = created
    /\ UNCHANGED <<databaseVars, diskVars, statusLock, snapshotLock, runVars, sessions, crashes, reloads, overtaken>>

-----------------------------------------------------------------------------
(* NRTM4ServerWriter.run() *)

\* The end of a run, which closes its lock files.
EndRun(p) ==
    /\ pc' = [pc EXCEPT ![p] = "idle"]
    /\ maxSerial' = [maxSerial EXCEPT ![p] = 0]
    /\ horizon' = [horizon EXCEPT ![p] = 0]
    /\ local' = [local EXCEPT ![p] = EmptyStatus]
    /\ initialising' = [initialising EXCEPT ![p] = FALSE]
    /\ snapshot' = [snapshot EXCEPT ![p] = 0]
    /\ statusLock' = IF statusLock = p THEN None ELSE statusLock
    /\ snapshotLock' = IF snapshotLock = p THEN None ELSE snapshotLock

\* Mutant: the next serial of the sequence.
NextOfSequence == sequence + 1

MaxSerialGlobal == IF journal = {} THEN 0 ELSE Max({e.glob : e \in journal})

\* __init__(): the time of the run and the highest serial_global.
Start(p) ==
    /\ pc[p] = "idle"
    /\ pc' = [pc EXCEPT ![p] = "start"]
    /\ maxSerial' = [maxSerial EXCEPT ![p] = MaxSerialGlobal]
    /\ horizon' = [horizon EXCEPT ![p] = aged]
    /\ UNCHANGED <<databaseVars, diskVars, statusLock, snapshotLock, local, initialising,
                   snapshot, boundVars>>

\* Another run holds the status lock, the source is new, or waits for a reload.
Cancel(p) ==
    /\ pc[p] = "start"
    /\ statusLock # None \/ status = None \/ StatusKept.force
    /\ EndRun(p)
    /\ UNCHANGED <<databaseVars, diskVars, boundVars>>

\* Mutant: missing files are not noticed.
NeverVerified == TRUE

\* _verify_integrity(): all files the status refers to are still there.
VerifyIntegrity ==
    /\ \A ref \in status.deltas : \E d \in deltaFiles : d.file = ref.file
    /\ status.snapFile # 0 => \E s \in snapshotFiles : s.file = status.snapFile

\* The run has the status lock and has read the status.
Locked(p) ==
    /\ pc[p] = "start"
    /\ statusLock = None
    /\ status # None
    /\ ~status.force
    /\ statusLock' = p

\* No session, or one whose files are gone: a new session starts at version 1.
Initialise(p) ==
    /\ Locked(p)
    /\ status.session = 0 \/ ~VerifyIntegrity
    /\ sessions < MaxSessions
    /\ sessions' = sessions + 1
    /\ local' = [local EXCEPT ![p] = [status EXCEPT !.session = sessions + 1, !.version = 1,
                    !.snapVersion = 0, !.snapSerial = 0, !.deltas = {}]]
    /\ initialising' = [initialising EXCEPT ![p] = TRUE]
    /\ pc' = [pc EXCEPT ![p] = "decide"]
    /\ UNCHANGED <<databaseVars, diskVars, snapshotLock, maxSerial, horizon, snapshot, aged,
                   crashes, reloads, overtaken>>

Resume(p) ==
    /\ Locked(p)
    /\ status.session # 0
    /\ VerifyIntegrity
    /\ local' = [local EXCEPT ![p] = status]
    /\ pc' = [pc EXCEPT ![p] = "delta"]
    /\ UNCHANGED <<databaseVars, diskVars, snapshotLock, maxSerial, horizon, initialising,
                   snapshot, boundVars>>

\* The serial_global at which the next delta starts.
DeltaStart(st) ==
    (IF st.deltas = {} THEN st.snapSerial ELSE Newest(st.deltas).end) + 1

DeltaEntries(st) == {e \in Own(journal) : e.glob >= DeltaStart(st)}

\* _write_delta(): all entries there are now, if any, as one new version.
WriteDelta(p) ==
    LET st == local[p]
        new == [version |-> st.version + 1, file |-> created + 1, end |-> maxSerial[p]]
    IN  /\ pc[p] = "delta"
        /\ pc' = [pc EXCEPT ![p] = "expire"]
        /\ IF DeltaEntries(st) = {}
           THEN UNCHANGED <<deltaFiles, created, local>>
           ELSE /\ created' = created + 1
                /\ deltaFiles' = deltaFiles \union
                      {[file |-> new.file, session |-> st.session, version |-> new.version,
                        entries |-> DeltaEntries(st)]}
                /\ local' = [local EXCEPT ![p].version = new.version,
                                          ![p].deltas = @ \union {new}]
        /\ UNCHANGED <<databaseVars, unf, snapshotFiles, statusLock, snapshotLock, maxSerial,
                       horizon, initialising, snapshot, boundVars>>

-----------------------------------------------------------------------------
(* _commit_status() *)

FilesOf(refs) == {ref.file : ref \in refs}

\* Deltas of which this run thinks that they have expired.
ExpiredFor(p, refs) == {f \in FilesOf(refs) : f <= horizon[p]}

\* _expire_deltas(): expired files and files that are not referred to are deleted.
ExpireDeltas(p) ==
    LET kept == {ref \in local[p].deltas : ref.file > horizon[p]}
    IN  /\ pc[p] = "expire"
        /\ ExpiredFor(p, local[p].deltas) \subseteq {d.file : d \in deltaFiles}
        /\ local' = [local EXCEPT ![p].deltas = kept]
        /\ deltaFiles' = {d \in deltaFiles : d.file \in FilesOf(kept)}
        /\ pc' = [pc EXCEPT ![p] = "unf"]
        /\ UNCHANGED <<databaseVars, unf, snapshotFiles, created, statusLock, snapshotLock,
                       maxSerial, horizon, initialising, snapshot, boundVars>>

Versions(refs) == {ref.version : ref \in refs}

\* NRTM4UpdateNotificationFile: required fields and check_version_consistency().
Valid(st) ==
    /\ st.session # 0
    /\ st.snapVersion # 0
    /\ st.version \in Versions(st.deltas) \union {st.snapVersion}
    /\ \A v \in Versions(st.deltas) \union {st.snapVersion} : v <= st.version
    /\ \A v, w \in Versions(st.deltas) : v..w \subseteq Versions(st.deltas)

UnfOf(st) ==
    [session |-> st.session, version |-> st.version,
     snapshot |-> [version |-> st.snapVersion, file |-> st.snapFile],
     deltas |-> {[version |-> ref.version, file |-> ref.file] : ref \in st.deltas}]

\* _write_unf()
WriteUnf(p) ==
    /\ pc[p] = "unf"
    /\ Valid(local[p])
    /\ unf' = UnfOf(local[p])
    /\ pc' = [pc EXCEPT ![p] = "snapshots"]
    /\ UNCHANGED <<databaseVars, deltaFiles, snapshotFiles, created, statusLock, snapshotLock,
                   maxSerial, horizon, local, initialising, snapshot, boundVars>>

\* An exception: a file to expire is gone, after older ones have been deleted, or
\* the notification is not valid.
Fail(p) ==
    LET expired == ExpiredFor(p, local[p].deltas)
        missing == expired \ {d.file : d \in deltaFiles}
    IN  /\ \/ /\ pc[p] = "expire"
              /\ missing # {}
              /\ deltaFiles' = {d \in deltaFiles : d.file \in expired => d.file > Min(missing)}
           \/ /\ pc[p] = "unf"
              /\ ~Valid(local[p])
              /\ UNCHANGED deltaFiles
        /\ EndRun(p)
        /\ UNCHANGED <<databaseVars, unf, snapshotFiles, created, boundVars>>

\* Mutant: the last snapshot is not kept.
ExpireAllSnapshots(p) ==
    /\ pc[p] = "snapshots"
    /\ snapshotFiles' = {s \in snapshotFiles : s.file > horizon[p]}
    /\ pc' = [pc EXCEPT ![p] = "commit"]
    /\ UNCHANGED <<databaseVars, unf, deltaFiles, created, statusLock, snapshotLock, maxSerial,
                   horizon, local, initialising, snapshot, boundVars>>

\* _expire_snapshots(): old snapshots are deleted, but not the last one.
ExpireSnapshots(p) ==
    /\ pc[p] = "snapshots"
    /\ snapshotFiles' = {s \in snapshotFiles :
                            s.file > horizon[p] \/ s.file = local[p].snapFile}
    /\ pc' = [pc EXCEPT ![p] = "commit"]
    /\ UNCHANGED <<databaseVars, unf, deltaFiles, created, statusLock, snapshotLock, maxSerial,
                   horizon, local, initialising, snapshot, boundVars>>

\* database_handler.commit() writes all fields, and resets force_reload.
Record(p) == status' = [local[p] EXCEPT !.force = FALSE]

\* The commit after the delta: the status lock is released, the run goes on.
CommitDelta(p) ==
    /\ pc[p] = "commit"
    /\ snapshotLock # p
    /\ Record(p)
    /\ statusLock' = None
    /\ pc' = [pc EXCEPT ![p] = "decide"]
    /\ UNCHANGED <<rows, journal, sequence, diskVars, snapshotLock, maxSerial, horizon, local,
                   initialising, snapshot, boundVars>>

\* The commit after the snapshot ends the run.
CommitSnapshot(p) ==
    /\ pc[p] = "commit"
    /\ snapshotLock = p
    /\ Record(p)
    /\ EndRun(p)
    /\ UNCHANGED <<rows, journal, sequence, diskVars, boundVars>>

-----------------------------------------------------------------------------
(* Snapshots *)

\* Mutant: a snapshot without a new version.
AlwaysDue(st) == TRUE

\* A snapshot is due when there is none, or when there is a newer version and
\* nrtm4_server_snapshot_frequency has passed.
SnapshotDue(st) == st.snapVersion = 0 \/ st.snapVersion # st.version

\* There is no new version, or it is too early for a snapshot. It is not after
\* 24 hours: that is the longest snapshot frequency the configuration allows.
SkipSnapshot(p) ==
    /\ pc[p] = "decide"
    /\ local[p].snapVersion # 0
    /\ SnapshotDue(local[p]) => local[p].snapFile > horizon[p]
    /\ EndRun(p)
    /\ UNCHANGED <<databaseVars, diskVars, boundVars>>

LockSnapshot(p) ==
    /\ pc[p] = "decide"
    /\ SnapshotDue(local[p])
    /\ snapshotLock = None
    /\ snapshotLock' = p
    /\ pc' = [pc EXCEPT ![p] = "snapshot"]
    /\ UNCHANGED <<databaseVars, diskVars, statusLock, maxSerial, horizon, local, initialising,
                   snapshot, boundVars>>

\* Another run writes a snapshot. One that still has the status lock commits.
SnapshotLocked(p) ==
    /\ pc[p] = "decide"
    /\ SnapshotDue(local[p])
    /\ snapshotLock # None
    /\ IF statusLock = p
       THEN /\ pc' = [pc EXCEPT ![p] = "expire"]
            /\ UNCHANGED <<statusLock, snapshotLock, maxSerial, horizon, local, initialising, snapshot>>
       ELSE EndRun(p)
    /\ UNCHANGED <<databaseVars, diskVars, boundVars>>

\* The status with the snapshot this run has written.
WithSnapshot(p, st, file) ==
    [st EXCEPT !.snapFile = file, !.snapVersion = local[p].version, !.snapSerial = maxSerial[p]]

\* _write_snapshot(): one query for all visible objects.
WriteSnapshot(p) ==
    /\ pc[p] = "snapshot"
    /\ created' = created + 1
    /\ snapshotFiles' = snapshotFiles \union
          {[file |-> created + 1, session |-> local[p].session, version |-> local[p].version,
            objects |-> rows]}
    /\ snapshot' = [snapshot EXCEPT ![p] = created + 1]
    /\ IF initialising[p]
       THEN /\ local' = [local EXCEPT ![p] = WithSnapshot(p, @, created + 1)]
            /\ pc' = [pc EXCEPT ![p] = "expire"]
       ELSE /\ pc' = [pc EXCEPT ![p] = "relock"]
            /\ UNCHANGED local
    /\ UNCHANGED <<databaseVars, unf, deltaFiles, statusLock, snapshotLock, maxSerial, horizon,
                   initialising, boundVars>>

\* Mutant: the status is not read anew.
RelockWithOldStatus(p) ==
    /\ pc[p] = "relock"
    /\ statusLock = None
    /\ statusLock' = p
    /\ local' = [local EXCEPT ![p] = WithSnapshot(p, @, snapshot[p])]
    /\ pc' = [pc EXCEPT ![p] = "expire"]
    /\ UNCHANGED <<databaseVars, diskVars, snapshotLock, maxSerial, horizon, initialising,
                   snapshot, boundVars>>

\* A run that had released the status lock waits for it and reads the status anew.
Relock(p) ==
    /\ pc[p] = "relock"
    /\ statusLock = None
    /\ statusLock' = p
    /\ local' = [local EXCEPT ![p] = WithSnapshot(p, status, snapshot[p])]
    /\ pc' = [pc EXCEPT ![p] = "expire"]
    /\ UNCHANGED <<databaseVars, diskVars, snapshotLock, maxSerial, horizon, initialising,
                   snapshot, boundVars>>

\* The process ends, or the database connection fails.
Crash(p) ==
    /\ crashes < MaxCrashes
    /\ pc[p] # "idle"
    /\ crashes' = crashes + 1
    /\ EndRun(p)
    /\ UNCHANGED <<databaseVars, diskVars, aged, sessions, reloads, overtaken>>

-----------------------------------------------------------------------------

Environment ==
    \/ \E o \in Objects, t \in Texts \union {None} : Change(o, t)
    \/ ChangeElsewhere
    \/ \E objects \in [Objects -> Texts \union {None}] : Reload(objects)
    \/ SetForceReload
    \/ DayPasses

Run(p) ==
    \/ Start(p) \/ Cancel(p) \/ Initialise(p) \/ Resume(p)
    \/ WriteDelta(p)
    \/ ExpireDeltas(p) \/ WriteUnf(p) \/ Fail(p) \/ ExpireSnapshots(p)
    \/ CommitDelta(p) \/ CommitSnapshot(p)
    \/ SkipSnapshot(p) \/ LockSnapshot(p) \/ SnapshotLocked(p) \/ WriteSnapshot(p) \/ Relock(p)

Next ==
    \/ Environment /\ UNCHANGED scenario
    \/ \E p \in Setup[scenario].servers : (Run(p) \/ Crash(p)) /\ UNCHANGED scenario

Spec == Init /\ [][Next]_<<scenario, serverVars>>

\* The scheduler starts a run every minute, and a run that does not fail ends.
FairSpec == Spec /\ \A p \in Servers : WF_serverVars(p \in Setup[scenario].servers /\ Run(p))

-----------------------------------------------------------------------------
(* Properties *)

\* The type of every variable.
TypeOK ==
    /\ rows \in [Objects -> Texts \union {None}]
    /\ journal \subseteq Entry
    /\ {sequence, created, aged, sessions, crashes, reloads} \subseteq Nat
    /\ status \in StatusType \union {None}
    /\ {statusLock, snapshotLock} \subseteq Servers \union {None}
    /\ pc \in [Servers -> {"idle", "start", "delta", "expire", "unf", "snapshots", "commit",
                           "decide", "snapshot", "relock"}]
    /\ maxSerial \in [Servers -> Nat]
    /\ horizon \in [Servers -> Nat]
    /\ local \in [Servers -> StatusType]
    /\ initialising \in [Servers -> BOOLEAN]
    /\ snapshot \in [Servers -> Nat]

EntriesOf(ref) == UNION {d.entries : d \in {f \in deltaFiles : f.file = ref.file}}

\* What a mirror has that loads the deltas after a version: the last one that has
\* an entry about an object counts.
ApplyDeltas(objects, refs, version) ==
    [o \in Objects |->
        LET about == {ref \in refs : ref.version > version /\ About(EntriesOf(ref), o) # {}}
        IN  IF about = {} THEN objects[o] ELSE Latest(About(EntriesOf(Newest(about)), o)).text]

\* The files that a notification file lists are there.
Complete(u) ==
    /\ \E s \in snapshotFiles : s.file = u.snapshot.file
    /\ \A ref \in u.deltas : \E d \in deltaFiles : d.file = ref.file

\* Deltas lead from a version to the current version, without a gap.
Connected(st, version) ==
    version = st.version \/ \E ref \in st.deltas : ref.version <= version + 1

\* The snapshot was written for the session.
SnapshotOfSession(st) == \A s \in snapshotFiles : s.file = st.snapFile => s.session = st.session

\* A mirror that has these objects at this version gets to the rows of the
\* database with the deltas and what the next delta will hold.
LeadsToRows(objects, st, version) ==
    Apply(ApplyDeltas(objects, st.deltas, version), DeltaEntries(st)) = rows

\* Nothing is lost: whatever runs overlap and whenever they read the highest serial,
\* the snapshot, the deltas the status row refers to and the journal entries that
\* the next delta starts from make up the database. This fails if _write_delta()
\* or a snapshot skips an entry (nrtm4_server.py 147-164, 206-208). A reload that
\* overtakes a run is left out: the run writes the status of the old session back.
\* So is a run whose session was given up for missing files between its commit and
\* its snapshot: it puts a snapshot of that session in the status of the new one
\* (nrtm4_server.py 175-215).
NothingLost ==
    /\ ~overtaken
    /\ status # None
    /\ status.session # 0
    /\ Complete(UnfOf(status))
    /\ SnapshotOfSession(status)
    /\ Connected(status, status.snapVersion)
    => \E s \in snapshotFiles :
          s.file = status.snapFile /\ LeadsToRows(s.objects, status, status.snapVersion)

\* When no run is at work, and none has ended early, took a day or was overtaken by
\* a reload, all files of the update notification file are there: expiry of deltas
\* and snapshots by overlapping runs never deletes one (nrtm4_server.py 268-306).
Servable ==
    statusLock = None /\ crashes = 0 /\ ~overtaken /\ "outage" \notin Operations /\ unf # None =>
        Complete(unf)

\* The version of a session never goes back for those who read the update
\* notification file, but for a reload that overtakes a run (nrtm4_server.py 230-266).
\* This is for servers without early ends, or for one server: a run that ends between
\* its publication and its commit leaves the status row behind for the runs beside it.
VersionAdvances ==
    [][unf # None /\ unf'.session = unf.session /\ ~overtaken => unf'.version >= unf.version]_unf

References(u) ==
    {[kind |-> "snapshot", version |-> u.snapshot.version, file |-> u.snapshot.file]}
    \union {[kind |-> "delta", version |-> ref.version, file |-> ref.file] : ref \in u.deltas}

\* History is not rewritten: in one session, a version of the snapshot or of a delta
\* is always the same file. Clients refuse everything else (nrtm4_client.py 262-286).
\* This is for runs that do not overlap, as long as none ends between the publication
\* of its files and the commit of its status.
HistoryKept ==
    [][unf # None /\ unf'.session = unf.session /\ crashes = 0
          /\ (\A p, q \in Setup[scenario].servers : p = q) =>
          \A now \in References(unf'), before \in References(unf) :
             now.kind = before.kind /\ now.version = before.version => now.file = before.file]_unf

\* The server recovers: after a failed or interrupted run, a day without runs or
\* a reload, there is always again a time at which all files of the update
\* notification file are there, or the server waits for a forced reload
\* (nrtm4_server.py 119-142, 396-411).
Recovers == []<>(unf # None => Complete(unf) \/ status.force)

=============================================================================
