---------------------------- MODULE NRTM3Mirror ----------------------------
(***************************************************************************)
(* A source, its export files and its NRTMv3 queries, and another instance *)
(* that mirrors it from them. The serial of the export, the objects of the *)
(* export, the two files, the status and the journal of an NRTMv3 query    *)
(* are each read or written on their own, while the source changes. The    *)
(* transactions that change the source are those of DatabaseHandler, one   *)
(* step each here.                                                         *)
(***************************************************************************)
EXTENDS Integers, FiniteSetsExt, Functions

CONSTANTS
    None,
    Objects,      \* primary keys of the source
    Texts,        \* texts of objects
    Ignored,      \* objects that the mirror does not accept: filtered classes,
                  \* parsing errors, another source
    Scenarios,    \* what is configured: records with the fields below
    MaxSerial,    \* bound on the serials of the source
    MaxFailures,  \* bound on runs that end early
    MaxForces     \* bound on forced reloads

ASSUME MirrorAssumption ==
    /\ Ignored \subseteq Objects
    /\ MaxSerial \in Nat /\ MaxFailures \in Nat /\ MaxForces \in Nat
    /\ \A c \in Scenarios :
          /\ c.with \subseteq {"nrtm",      \* nrtm_host is set
                               "sync",      \* synchronised serials, journal kept
                               "reexport",  \* the mirror exports the source too
                               "expire",    \* irrd_expire_journal is used
                               "file",      \* irrd_update_database is used
                               "force"}     \* irrd_mirror_force_reload is used
          /\ c.loaded \in Nat               \* the serial given to irrd_load_database
          /\ c.rangeLimit \in Nat           \* nrtm_query_serial_range_limit

VARIABLES
    scenario,
    rows,      \* the committed objects of the source: text or None
    journal,   \* its committed journal entries
    status,    \* its committed status row: serials, 0 when NULL
    files,     \* the export files: objects and serial, None when there is no file
    export,    \* the run of the exporter, or None
    mirror,    \* the committed database of the mirror
    run,       \* the run of the mirror, or None
    failures, forces

sourceVars == <<rows, journal, status>>
boundVars == <<failures, forces>>
vars == <<scenario, sourceVars, files, export, mirror, run, boundVars>>

Data == [Objects -> Texts \union {None}]
Operation == [op : {"ADD", "DEL"}, obj : Objects, text : Texts]
NoObjects == [o \in Objects |-> None]

-----------------------------------------------------------------------------
(* The source *)

SerialsOf(J) == {e.serial : e \in J}
Entry(op, n) == [serial |-> n, op |-> op.op, obj |-> op.obj, text |-> op.text]

\* What entries make of the objects: the last entry about an object counts.
Effect(e) == IF e.op = "ADD" THEN e.text ELSE None
About(E, o) == {e \in E : e.obj = o}
Latest(E) == CHOOSE e \in E : \A f \in E : f.serial <= e.serial
After(data, E) ==
    [o \in Objects |-> IF About(E, o) # {} THEN Effect(Latest(About(E, o))) ELSE data[o]]

LastSerial == IF journal # {} THEN Max(SerialsOf(journal)) ELSE status.seen

\* One transaction of n operations: they have got the next serials, and the status
\* follows the journal.
Transaction(entries, n) ==
    /\ LastSerial + n <= MaxSerial
    /\ rows' = After(rows, entries)
    /\ journal' = journal \union entries
    /\ status' = [oldest |-> Min(SerialsOf(journal')), newest |-> LastSerial + n,
                  seen |-> LastSerial + n]
    /\ UNCHANGED <<scenario, files, export, mirror, run, boundVars>>

\* A change to one object.
Change ==
    \E op \in Operation :
        /\ op.op = "DEL" => rows[op.obj] = op.text
        /\ Transaction({Entry(op, LastSerial + 1)}, 1)

\* irrd_update_database: the file is the new state of the source. Objects that
\* are new are added, then those not in the file are deleted, then those with
\* another text are added again. The order within each group is not specified.
FileOperation(file, o) ==
    IF file[o] # None THEN [op |-> "ADD", obj |-> o, text |-> file[o]]
                      ELSE [op |-> "DEL", obj |-> o, text |-> rows[o]]
Group(file, o) == IF rows[o] = None THEN 1 ELSE IF file[o] = None THEN 2 ELSE 3

UpdateDatabase ==
    /\ "file" \in scenario.with
    /\ \E file \in Data, n \in 2 .. MaxSerial :
        LET Changed == {o \in Objects : file[o] # rows[o]}
        IN  \E place \in Bijection(Changed, 1 .. n) :
                /\ \A o, p \in Changed :
                      Group(file, o) < Group(file, p) => place[o] < place[p]
                /\ Transaction({Entry(FileOperation(file, o), LastSerial + place[o]) : o \in Changed}, n)

\* irrd_expire_journal leaves the status row alone. Entries are kept for at least
\* two days; a reader is assumed to come back within that time, see ReaderSerials.
ReaderSerials ==
    ({mirror.newest} \ {0}) \union {f \in {files.serial} : f # None}
        \union (IF export = None THEN {} ELSE {export.serial})
        \union (IF run = None THEN {} ELSE {run.newest, run.last} \ {0})

ExpireJournal ==
    /\ "expire" \in scenario.with
    /\ \E n \in SerialsOf(journal) :
        /\ \A r \in ReaderSerials : r >= n
        /\ journal' = {e \in journal : e.serial > n}
        /\ UNCHANGED <<scenario, rows, status, files, export, mirror, run, boundVars>>

-----------------------------------------------------------------------------
(* SourceExportRunner *)

\* The scheduler starts an export whatever has changed; one that would write the
\* same files again is left out.
ExportSerial ==
    /\ export = None
    /\ files # [data |-> rows, serial |-> IF status.seen = 0 THEN None ELSE status.seen]
    /\ export' = [stage |-> "objects", serial |-> status.seen, data |-> NoObjects]
    /\ UNCHANGED <<scenario, sourceVars, files, mirror, run, boundVars>>

ExportObjects ==
    /\ export # None /\ export.stage = "objects"
    /\ export' = [export EXCEPT !.stage = "unlink", !.data = rows]
    /\ UNCHANGED <<scenario, sourceVars, files, mirror, run, boundVars>>

ExportUnlink ==
    /\ export # None /\ export.stage \in {"unlink", "unlink serial"}
    /\ IF export.stage = "unlink"
       THEN /\ files' = [files EXCEPT !.data = None]
            /\ export' = [export EXCEPT !.stage = "unlink serial"]
       ELSE /\ files' = [files EXCEPT !.serial = None]
            /\ export' = [export EXCEPT !.stage = "move"]
    /\ UNCHANGED <<scenario, sourceVars, mirror, run, boundVars>>

ExportMove ==
    /\ export # None /\ export.stage = "move"
    /\ files' = [files EXCEPT !.data = export.data]
    /\ export' = [export EXCEPT !.stage = "serial"]
    /\ UNCHANGED <<scenario, sourceVars, mirror, run, boundVars>>

\* Mutant: the serial is read when it is written.
SerialNow == status.seen

\* What is written to the file with the serial; nothing for a source without one.
SerialToWrite == export.serial

ExportWriteSerial ==
    /\ export # None /\ export.stage = "serial"
    /\ files' = [files EXCEPT !.serial = IF SerialToWrite = 0 THEN None ELSE SerialToWrite]
    /\ export' = None
    /\ UNCHANGED <<scenario, sourceVars, mirror, run, boundVars>>

ExportFail ==
    /\ export # None
    /\ failures < MaxFailures
    /\ failures' = failures + 1
    /\ export' = None
    /\ UNCHANGED <<scenario, sourceVars, files, mirror, run, forces>>

Export == ExportSerial \/ ExportObjects \/ ExportUnlink \/ ExportMove \/ ExportWriteSerial

-----------------------------------------------------------------------------
(* RPSLMirrorImportUpdateRunner. What a run has read and written so far is in  *)
(* run; changed tells whether its commit updates the status of the source.      *)

\* What the parsers make of a file: the objects that are accepted.
Accepted(data) == [o \in Objects |-> IF o \in Ignored THEN None ELSE data[o]]

\* NRTMOperation.save() ignores operations on other objects.
AcceptedOps(ops) == {e \in ops : e.obj \notin Ignored}

FullReload == mirror.force \/ mirror.newest = 0 \/ "nrtm" \notin scenario.with

Start ==
    /\ run = None
    /\ run' = [stage |-> IF FullReload THEN "serial" ELSE "query",
               newest |-> mirror.newest, force |-> mirror.force, data |-> mirror.data,
               serials |-> mirror.serials, last |-> 0, changed |-> FALSE]
    /\ UNCHANGED <<scenario, sourceVars, files, export, mirror, boundVars>>

EndRun ==
    /\ run' = None
    /\ UNCHANGED <<scenario, sourceVars, files, export, mirror, forces>>

\* A download or a connection fails, or the process is killed.
Fail ==
    /\ run # None
    /\ failures < MaxFailures
    /\ failures' = failures + 1
    /\ EndRun

\* Mutant: an import is cancelled when the serial is one ahead.
CancelledNear(serial) == ~run.force /\ run.newest # 0 /\ serial <= run.newest + 1

\* An import is cancelled when it would not bring anything new.
Cancelled(serial) == ~run.force /\ run.newest # 0 /\ serial <= run.newest

\* RPSLMirrorFullImportRunner retrieves the serial, deletes all objects, the
\* journal and the status, and retrieves the objects after that.
RetrieveSerial ==
    /\ run # None /\ run.stage = "serial"
    /\ files.serial # None
    /\ run' = IF Cancelled(files.serial) THEN [run EXCEPT !.stage = "commit"]
              ELSE [run EXCEPT !.stage = "objects", !.last = files.serial, !.data = NoObjects,
                               !.serials = {}, !.changed = TRUE]
    /\ UNCHANGED <<scenario, sourceVars, files, export, mirror, boundVars>>

RetrieveObjects ==
    /\ run # None /\ run.stage = "objects"
    /\ files.data # None
    /\ run' = [run EXCEPT !.stage = "commit", !.data = Accepted(files.data)]
    /\ UNCHANGED <<scenario, sourceVars, files, export, mirror, boundVars>>

\* A file that does not exist is an OSError.
RetrieveMissing ==
    /\ run # None
    /\ \/ run.stage = "serial" /\ files.serial = None
       \/ run.stage = "objects" /\ files.data = None
    /\ EndRun
    /\ UNCHANGED failures

\* NRTMGenerator reads the status. It answers with an error or a warning instead
\* of operations when there is nothing to serve, or not what is asked for; both
\* end the run without an error.
Refused(start) ==
    \/ status.newest = 0
    \/ start < status.oldest
    \/ start > status.newest
    \/ scenario.rangeLimit # 0 /\ status.newest - start > scenario.rangeLimit

GenerateStart ==
    /\ run # None /\ run.stage = "query"
    /\ run' = IF Refused(run.newest + 1) THEN [run EXCEPT !.stage = "commit"]
              ELSE [run EXCEPT !.stage = "stream", !.last = status.newest]
    /\ UNCHANGED <<scenario, sourceVars, files, export, mirror, boundVars>>

\* The operations that are read after the status: up to LAST, which may be past
\* the end that START announced.
Stream == {e \in journal : e.serial >= run.newest + 1}

\* What arrives of it: all and the %END line, or what comes before some operation.
Arrivals ==
    {[ops |-> Stream, ended |-> TRUE]} \union
    {[ops |-> {e \in Stream : e.serial <= n}, ended |-> FALSE] : n \in {0} \union SerialsOf(Stream)}

\* NRTMStreamParser accepts a stream only with its %END line.
Complete(received) == received.ended

\* With synchronised serials the journal of the mirror gets the serial of every
\* operation. A deletion of an object that does not exist is not recorded.
Recorded(data, ops) ==
    LET Before(e) == After(data, {f \in ops : f.serial < e.serial})
    IN  SerialsOf({e \in ops : e.op = "DEL" => Before(e)[e.obj] # None})

\* The stream may be cut off after any operation, and before its end line. A serial
\* that is recorded must be new, else the run fails.
ReceiveStream ==
    /\ run # None /\ run.stage = "stream"
    /\ \E received \in Arrivals :
        LET ops == AcceptedOps(received.ops)
            recorded == IF "sync" \in scenario.with THEN Recorded(run.data, ops) ELSE {}
        IN  /\ ~received.ended => failures < MaxFailures
            /\ failures' = IF received.ended THEN failures ELSE failures + 1
            /\ run' = IF Complete(received) /\ recorded \intersect run.serials = {}
                      THEN [run EXCEPT !.stage = "commit", !.data = After(run.data, ops),
                                       !.serials = @ \union recorded, !.changed = TRUE]
                      ELSE None
    /\ UNCHANGED <<scenario, sourceVars, files, export, mirror, forces>>

\* finalise_transaction() resets force_reload of the sources the run has seen.
Commit ==
    /\ run # None /\ run.stage = "commit"
    /\ run' = None
    /\ mirror' = IF ~run.changed THEN mirror
                 ELSE [data |-> run.data, serials |-> run.serials, newest |-> run.last,
                       force |-> FALSE]
    /\ UNCHANGED <<scenario, sourceVars, files, export, boundVars>>

\* irrd_mirror_force_reload updates the status row, if there is one.
SetForceReload ==
    /\ "force" \in scenario.with
    /\ forces < MaxForces
    /\ forces' = forces + 1
    /\ mirror.newest # 0
    /\ mirror' = [mirror EXCEPT !.force = TRUE]
    /\ UNCHANGED <<scenario, sourceVars, files, export, run, failures>>

\* An export by the mirror records the exported serial in the status of the
\* source, which resets force_reload too.
RecordSerialExported ==
    /\ "reexport" \in scenario.with
    /\ mirror.newest # 0
    /\ mirror' = [mirror EXCEPT !.force = FALSE]
    /\ UNCHANGED <<scenario, sourceVars, files, export, run, boundVars>>

Run ==
    \/ Start \/ RetrieveSerial \/ RetrieveObjects \/ RetrieveMissing
    \/ GenerateStart \/ ReceiveStream \/ Commit

-----------------------------------------------------------------------------

\* The source was loaded with irrd_load_database, which keeps no journal and sees
\* the serial it is given. Nobody mirrors it yet.
Init ==
    /\ scenario \in Scenarios
    /\ rows \in Data
    /\ journal = {}
    /\ status = [oldest |-> 0, newest |-> 0, seen |-> scenario.loaded]
    /\ files = [data |-> None, serial |-> None]
    /\ export = None
    /\ mirror = [data |-> NoObjects, serials |-> {}, newest |-> 0, force |-> FALSE]
    /\ run = None
    /\ failures = 0 /\ forces = 0

Next ==
    \/ Change \/ UpdateDatabase \/ ExpireJournal
    \/ Export \/ ExportFail
    \/ Run \/ Fail \/ SetForceReload \/ RecordSerialExported

Spec == Init /\ [][Next]_vars

\* The schedulers of both instances start a run whenever a timer expires.
FairSpec == Spec /\ WF_vars(Export) /\ WF_vars(Run)

-----------------------------------------------------------------------------
(* Properties *)

\* What the mirror will have once it has followed the journal from its serial.
Followed == After(mirror.data, AcceptedOps({e \in journal : e.serial > mirror.newest}))

\* A mirror misses nothing: whatever is exported, downloaded and streamed while the
\* source changes, the objects of the mirror and the operations after the serial
\* it has recorded make up the objects of the source
\* (mirror_runners_export.py 58-104, nrtm_generator.py 16-134, parsers.py 328-366).
MissesNothing == mirror.newest # 0 => Followed = Accepted(rows)

\* A mirror catches up: once the source has a serial and no longer changes, the
\* mirror gets its objects and keeps them. A server that refuses long ranges leaves
\* a mirror behind, and one with synchronised serials that was sent an operation
\* past the end of a stream is stuck (mirror_runners_import.py 81-100, 143-160).
CatchesUp ==
    <>[](status.seen # 0 /\ scenario.rangeLimit = 0 /\ "sync" \notin scenario.with =>
            mirror.data = Accepted(rows))
=============================================================================
