-------------------------- MODULE DatabaseHandler --------------------------
(***************************************************************************)
(* Transactions of irrd.storage.database_handler.DatabaseHandler and of   *)
(* its DatabaseStatusTracker and SessionChangedObjectsTracker, running    *)
(* concurrently in several processes against one PostgreSQL database at   *)
(* isolation level READ COMMITTED.                                        *)
(*                                                                        *)
(* Every handler buffers upserts, flushes them in one INSERT, records     *)
(* each visible change in the journal under an EXCLUSIVE table lock,      *)
(* writes the per-source status row just before it commits, and runs the  *)
(* route preference evaluation between that and the commit.               *)
(*                                                                        *)
(* Uncommitted writes are an overlay per handler; an overlay entry is the *)
(* row lock PostgreSQL holds for it until the transaction ends.           *)
(***************************************************************************)
EXTENDS Integers, FiniteSets, FiniteSetsExt

CONSTANTS
    Handlers,      \* processes that each own one writing DatabaseHandler
    Sources,       \* configured IRR sources
    Objects,       \* (rpsl_pk, object_class, source) composite keys, all of them routes
    SourceOf,      \* the source of each object
    Texts,         \* object texts that tell versions of one object apart
    KeepJournal,   \* sources with keep_journal set
    SyncSources,   \* sources for which is_serial_synchronised holds
    SourceSerials, \* the serials an NRTM source may assign to its operations
    Suppressed,    \* objects that are RPKI invalid or out of scope
    Preference,    \* route_object_preference of each source, 0 when not set
    Overlapping,   \* pairs of objects whose prefixes overlap
    Recorded,      \* sources whose status is also written by itself: exports, errors, forced reloads
    Operations,    \* the optional callers that run beside plain changes
    MaxBuffer,     \* MAX_RECORDS_BUFFER_BEFORE_INSERT
    MaxSerial,     \* bound on the serial_global sequence
    None,          \* absent row or text
    Untouched      \* no uncommitted write by this handler

ASSUME SourceOfAssumption == SourceOf \in [Objects -> Sources]
ASSUME SettingsAssumption ==
    /\ KeepJournal \subseteq Sources
    /\ SyncSources \subseteq Sources
    /\ SourceSerials \subseteq Nat \ {0}
    /\ Suppressed \subseteq Objects
    /\ Preference \in [Sources -> Nat]
    /\ \A s \in SyncSources : Preference[s] = 0
    /\ Overlapping \subseteq Objects \X Objects
    /\ MaxBuffer \in Nat
    /\ MaxSerial \in Nat
VARIABLES
    \* the committed database
    rows,         \* table rpsl_objects
    journal,      \* table rpsl_database_journal
    status,       \* table database_status
    sequence,     \* the serial_global sequence, which no rollback undoes
    \* the open transaction of each handler
    stage,        \* how far the transaction is
    journaling,   \* journaling_enabled
    buffer,       \* _rpsl_upsert_buffer
    pending,      \* operations of the running call still to be recorded
    rowWrites,    \* uncommitted writes to rows
    inserts,      \* uncommitted journal entries
    deletes,      \* committed journal entries deleted in this transaction
    statusWrites, \* uncommitted writes to status
    tableLock,    \* the lock held on the journal table
    newSerials,   \* _new_serials_per_source
    seen,         \* _sources_seen
    changed,      \* _prefixes_for_routepref, as the objects with those prefixes
    flips,        \* route preference statuses that are to be changed
    wiped,        \* the sources reloaded in this transaction
    \* observers
    mirror,       \* what a mirror that follows the committed journal holds
    highest       \* highest serial committed per source since its last reload was
                  \* done or ordered

databaseVars == <<rows, journal, status, sequence>>
txVars == <<stage, journaling, buffer, pending, rowWrites, inserts, deletes,
            statusWrites, tableLock, newSerials, seen, changed, flips, wiped>>
ghostVars == <<mirror, highest>>
vars == <<databaseVars, txVars, ghostVars>>

-----------------------------------------------------------------------------
(* The tables. *)

Row == [text : Texts, preferred : BOOLEAN]

Entry == [source : Sources, serial : Nat, glob : Nat, op : {"ADD", "DEL"},
          obj : Objects, text : Texts]

Status == [exists : BOOLEAN, force : BOOLEAN, oldestSeen : Nat, newestSeen : Nat,
           oldestJournal : Nat, newestJournal : Nat]

\* SQL NULL is 0: serials start at 1.
NoStatus == [exists |-> FALSE, force |-> FALSE, oldestSeen |-> 0, newestSeen |-> 0,
             oldestJournal |-> 0, newestJournal |-> 0]

BufferItem == [obj : Objects, text : Texts, serial : Nat]
Operation == [op : {"ADD", "DEL"}, obj : Objects, text : Texts, serial : Nat]
Flip == [obj : Objects, visible : BOOLEAN]
Stages == {"idle", "open", "wipe", "closing", "finalised", "precommit",
           "enrich", "routepref", "runnerEnrich", "runnerRoutepref", "commit"}

ASSUME MarkerAssumption ==
    /\ None \notin Texts
    /\ None # Untouched
    /\ Row \intersect {None, Untouched} = {}
    /\ Untouched \notin Status

Of(s) == {o \in Objects : SourceOf[o] = s}
EntriesOf(J, s) == {e \in J : e.source = s}
Serials(J, s) == {e.serial : e \in EntriesOf(J, s)}
OrZero(S, f(_)) == IF S = {} THEN 0 ELSE f(S)

\* object_is_visible(): RPKI, scope filter and route preference all allow it.
ObjectIsVisible(o, row) == row # None /\ o \notin Suppressed /\ row.preferred

-----------------------------------------------------------------------------
(* What a statement of handler h sees (READ COMMITTED), and locks. *)

RowView(h, o) == IF rowWrites[h][o] = Untouched THEN rows[o] ELSE rowWrites[h][o]
JournalView(h) == (journal \ deletes[h]) \union inserts[h]
StatusView(h, s) == IF statusWrites[h][s] = Untouched THEN status[s] ELSE statusWrites[h][s]

Others(h) == Handlers \ {h}
RowFree(h, o) == \A g \in Others(h) : rowWrites[g][o] = Untouched
StatusFree(h, s) == \A g \in Others(h) : statusWrites[g][s] = Untouched

\* Mutant: the journal table is not locked.
NeverLocked(h) == TRUE

\* LOCK TABLE ... IN EXCLUSIVE MODE conflicts with every other writer.
ExclusiveFree(h) == \A g \in Others(h) : tableLock[g] = "none"

\* DELETE takes ROW EXCLUSIVE: it conflicts with EXCLUSIVE only, and with row
\* locks on the entries to delete.
DeleteFree(h, D) ==
    \A g \in Others(h) : tableLock[g] # "exclusive" /\ deletes[g] \intersect D = {}

-----------------------------------------------------------------------------
(* Initial state: an empty database, and handlers that have just started *)
(* their first transaction.                                              *)

NoRowWrites == [o \in Objects |-> Untouched]
NoStatusWrites == [s \in Sources |-> Untouched]
NoSerials == [s \in Sources |-> {}]

Init ==
    /\ rows = [o \in Objects |-> None]
    /\ journal = {}
    /\ status = [s \in Sources |-> NoStatus]
    /\ sequence = 0
    /\ stage = [h \in Handlers |-> "idle"]
    /\ journaling = [h \in Handlers |-> TRUE]
    /\ buffer = [h \in Handlers |-> {}]
    /\ pending = [h \in Handlers |-> {}]
    /\ rowWrites = [h \in Handlers |-> NoRowWrites]
    /\ inserts = [h \in Handlers |-> {}]
    /\ deletes = [h \in Handlers |-> {}]
    /\ statusWrites = [h \in Handlers |-> NoStatusWrites]
    /\ tableLock = [h \in Handlers |-> "none"]
    /\ newSerials = [h \in Handlers |-> NoSerials]
    /\ seen = [h \in Handlers |-> {}]
    /\ changed = [h \in Handlers |-> {}]
    /\ flips = [h \in Handlers |-> {}]
    /\ wiped = [h \in Handlers |-> {}]
    /\ mirror = [o \in Objects |-> None]
    /\ highest = [s \in Sources |-> 0]

-----------------------------------------------------------------------------
(* Calls that change objects. *)

\* The handler is between two calls of its user.
Ready(h) == stage[h] \in {"idle", "open"} /\ pending[h] = {}

SerialFor(s) == IF s \in SyncSources THEN SourceSerials ELSE {0}

\* upsert_rpsl_object(): an object that is already in the buffer, or a buffer
\* over its limit, has to be flushed first.
UpsertRpslObject(h, o, t, n) ==
    /\ Ready(h)
    /\ Cardinality(buffer[h]) <= MaxBuffer
    /\ \A b \in buffer[h] : b.obj # o
    /\ wiped[h] # {} => SourceOf[o] \in wiped[h]
    /\ stage' = [stage EXCEPT ![h] = "open"]
    /\ buffer' = [buffer EXCEPT ![h] = @ \union {[obj |-> o, text |-> t, serial |-> n]}]
    /\ changed' = [changed EXCEPT ![h] = @ \union {o}]
    /\ UNCHANGED <<databaseVars, journaling, pending, rowWrites, inserts, deletes,
                   statusWrites, tableLock, newSerials, seen, flips, wiped, ghostVars>>

\* Mutant: suppressed objects are recorded as well.
AllBuffered(h) == buffer[h]

\* "Suppressed objects [...] should not generate an NRTM entry".
VisibleBuffered(h) == {b \in buffer[h] : b.obj \notin Suppressed}

\* _flush_rpsl_object_writing_buffer(): one INSERT .. ON CONFLICT DO UPDATE that
\* waits for every row another transaction has written, then one
\* record_operation() per object that is not suppressed.
FlushRpslObjectWritingBuffer(h) ==
    /\ stage[h] = "open"
    /\ pending[h] = {}
    /\ buffer[h] # {}
    /\ \A b \in buffer[h] : RowFree(h, b.obj)
    /\ rowWrites' = [rowWrites EXCEPT ![h] = [o \in Objects |->
          IF \E b \in buffer[h] : b.obj = o
          THEN [text |-> (CHOOSE b \in buffer[h] : b.obj = o).text, preferred |-> TRUE]
          ELSE @[o]]]
    /\ pending' = [pending EXCEPT ![h] =
          {[op |-> "ADD", obj |-> b.obj, text |-> b.text, serial |-> b.serial] :
             b \in VisibleBuffered(h)}]
    /\ buffer' = [buffer EXCEPT ![h] = {}]
    /\ UNCHANGED <<databaseVars, stage, journaling, inserts, deletes, statusWrites,
                   tableLock, newSerials, seen, changed, flips, wiped, ghostVars>>

\* What DELETE .. RETURNING object_text returns.
ReturningText(h, o) == RowView(h, o).text

\* delete_rpsl_object() and suspend_rpsl_object(): a row that is not there is
\* only logged, every row that is gets a journal record.
DeleteRpslObject(h, o, n) ==
    /\ Ready(h)
    /\ buffer[h] = {}
    /\ wiped[h] = {}
    /\ RowView(h, o) # None
    /\ RowFree(h, o)
    /\ stage' = [stage EXCEPT ![h] = "open"]
    /\ rowWrites' = [rowWrites EXCEPT ![h][o] = None]
    /\ pending' = [pending EXCEPT ![h] =
          {[op |-> "DEL", obj |-> o, text |-> ReturningText(h, o), serial |-> n]}]
    /\ changed' = [changed EXCEPT ![h] = @ \union {o}]
    /\ UNCHANGED <<databaseVars, journaling, buffer, inserts, deletes, statusWrites,
                   tableLock, newSerials, seen, flips, wiped, ghostVars>>

-----------------------------------------------------------------------------
(* DatabaseStatusTracker.record_operation() *)

\* Mutant: the serials last seen are not considered.
NextSerialFromJournal(h, s, sourceSerial) ==
    IF s \in SyncSources THEN sourceSerial
    ELSE OrZero(newSerials[h][s] \union Serials(JournalView(h), s), Max) + 1

\* A synchronised source keeps the serial of its NRTM source. Otherwise the
\* serials of this transaction continue, or those of the journal, or those
\* last seen. The journal is joined through the status row of the source.
NextSerial(h, s, sourceSerial) ==
    IF s \in SyncSources THEN sourceSerial
    ELSE IF newSerials[h][s] # {} THEN Max(newSerials[h][s]) + 1
    ELSE IF ~StatusView(h, s).exists THEN 1
    ELSE IF Serials(JournalView(h), s) # {} THEN Max(Serials(JournalView(h), s)) + 1
    ELSE StatusView(h, s).newestSeen + 1

\* The INSERT into the journal, under the EXCLUSIVE table lock. The unique
\* constraint on (serial_nrtm, source) raises an error, which ends in Rollback.
InsertEntry(h, i) ==
    LET s == SourceOf[i.obj]
        n == NextSerial(h, s, i.serial)
    IN  /\ ExclusiveFree(h)
        /\ sequence < MaxSerial
        /\ n \notin Serials(JournalView(h), s)
        /\ tableLock' = [tableLock EXCEPT ![h] = "exclusive"]
        /\ sequence' = sequence + 1
        /\ inserts' = [inserts EXCEPT ![h] = @ \union
              {[source |-> s, serial |-> n, glob |-> sequence + 1, op |-> i.op,
                obj |-> i.obj, text |-> i.text]}]
        /\ newSerials' = [newSerials EXCEPT ![h][s] = @ \union {n}]

RecordOperation(h, i) ==
    LET s == SourceOf[i.obj]
    IN  /\ seen' = [seen EXCEPT ![h] = @ \union {s}]
        /\ pending' = [pending EXCEPT ![h] = @ \ {i}]
        /\ IF journaling[h] /\ s \in KeepJournal
           THEN InsertEntry(h, i)
           ELSE UNCHANGED <<tableLock, sequence, inserts, newSerials>>
        /\ UNCHANGED <<rows, journal, status, stage, journaling, buffer, rowWrites, deletes,
                       statusWrites, changed, flips, wiped, ghostVars>>

-----------------------------------------------------------------------------
(* Reload of a source, and the administrative calls. *)

\* delete_all_rpsl_objects_with_journal(), first statement: DELETE the rows this
\* statement sees. A reload then runs with journaling disabled.
DeleteAllRpslObjects(h, s) ==
    /\ "reload" \in Operations
    /\ stage[h] = "idle"
    /\ \A o \in Of(s) : rows[o] # None => RowFree(h, o)
    /\ stage' = [stage EXCEPT ![h] = "wipe"]
    /\ wiped' = [wiped EXCEPT ![h] = {s}]
    /\ rowWrites' = [rowWrites EXCEPT ![h] = [o \in Objects |->
          IF o \in Of(s) /\ rows[o] # None THEN None ELSE Untouched]]
    /\ UNCHANGED <<databaseVars, journaling, buffer, pending, inserts, deletes,
                   statusWrites, tableLock, newSerials, seen, changed, flips, ghostVars>>

\* The rest of it: DELETE the journal and the status row of the source, and
\* disable_journaling().
DeleteAllJournalEntries(h) ==
    /\ stage[h] = "wipe"
    /\ \E s \in wiped[h] :
         /\ DeleteFree(h, EntriesOf(journal, s))
         /\ status[s].exists => StatusFree(h, s)
         /\ deletes' = [deletes EXCEPT ![h] = EntriesOf(journal, s)]
         /\ statusWrites' = IF status[s].exists
                            THEN [statusWrites EXCEPT ![h][s] = NoStatus]
                            ELSE statusWrites
    /\ stage' = [stage EXCEPT ![h] = "open"]
    /\ tableLock' = [tableLock EXCEPT ![h] = "rowExclusive"]
    /\ journaling' = [journaling EXCEPT ![h] = FALSE]
    /\ UNCHANGED <<databaseVars, buffer, pending, rowWrites, inserts, newSerials, seen,
                   changed, flips, wiped, ghostVars>>

\* enable_journaling() of the NRTMv4 client, when the snapshot has been read.
EnableJournaling(h) ==
    /\ Ready(h)
    /\ ~journaling[h]
    /\ wiped[h] \intersect SyncSources = {}
    /\ journaling' = [journaling EXCEPT ![h] = TRUE]
    /\ stage' = [stage EXCEPT ![h] = "open"]
    /\ UNCHANGED <<databaseVars, buffer, pending, rowWrites, inserts, deletes, statusWrites,
                   tableLock, newSerials, seen, changed, flips, wiped, ghostVars>>

\* record_serial_seen(), at the end of loading a file with a known serial.
RecordSerialSeen(h, s, n) ==
    /\ Ready(h)
    /\ s \in wiped[h]
    /\ ~journaling[h]
    /\ newSerials[h][s] = {}
    /\ newSerials' = [newSerials EXCEPT ![h][s] = {n}]
    /\ seen' = [seen EXCEPT ![h] = @ \union {s}]
    /\ UNCHANGED <<databaseVars, stage, journaling, buffer, pending, rowWrites, inserts,
                   deletes, statusWrites, tableLock, changed, flips, wiped, ghostVars>>

\* record_serial_newest_mirror(), record_mirror_error(), record_serial_exported()
\* and the NRTMv4 status calls: the source is seen, whatever is recorded.
RecordStatus(h, s) ==
    /\ s \in Recorded
    /\ Ready(h)
    /\ s \notin seen[h]
    /\ stage' = [stage EXCEPT ![h] = "open"]
    /\ seen' = [seen EXCEPT ![h] = @ \union {s}]
    /\ UNCHANGED <<databaseVars, journaling, buffer, pending, rowWrites, inserts, deletes,
                   statusWrites, tableLock, newSerials, changed, flips, wiped, ghostVars>>

\* Mutant: the comparison is inverted, the newest entries expire.
ExpiredAfter(s, g) == {e \in EntriesOf(journal, s) : e.glob >= g}

\* The entries of a source up to a moment, which is a point in the order of
\* serial_global.
Expired(s, g) == {e \in EntriesOf(journal, s) : e.glob <= g}

\* delete_journal_entries_before_date(), as expire_journal calls it, which gives
\* up when there is nothing to expire.
DeleteJournalEntriesBeforeDate(h, s, g) ==
    /\ "expire" \in Operations
    /\ stage[h] = "idle"
    /\ Expired(s, g) # {}
    /\ DeleteFree(h, Expired(s, g))
    /\ stage' = [stage EXCEPT ![h] = "closing"]
    /\ tableLock' = [tableLock EXCEPT ![h] = "rowExclusive"]
    /\ deletes' = [deletes EXCEPT ![h] = Expired(s, g)]
    /\ UNCHANGED <<databaseVars, journaling, buffer, pending, rowWrites, inserts,
                   statusWrites, newSerials, seen, changed, flips, wiped, ghostVars>>

\* set_force_reload(), as the mirror_force_reload script calls it: an UPDATE,
\* without effect for a source that has no status row.
SetForceReload(h, s) ==
    /\ s \in Recorded
    /\ stage[h] = "idle"
    /\ status[s].exists
    /\ StatusFree(h, s)
    /\ stage' = [stage EXCEPT ![h] = "closing"]
    /\ statusWrites' = [statusWrites EXCEPT ![h][s] =
          [status[s] EXCEPT !.force = TRUE, !.oldestSeen = 0, !.newestSeen = 0]]
    /\ UNCHANGED <<databaseVars, journaling, buffer, pending, rowWrites, inserts, deletes,
                   tableLock, newSerials, seen, changed, flips, wiped, ghostVars>>

-----------------------------------------------------------------------------
(* DatabaseHandler.commit() *)

\* Mutant: the range is read without the entries of this transaction.
CommittedRange(h, s) == Serials(journal \ deletes[h], s)

\* The serials of which finalise_transaction() selects MIN and MAX.
JournalRange(h, s) == Serials(JournalView(h), s)

\* The status row finalise_transaction() leaves for a source it has seen. LEAST
\* and GREATEST skip NULL.
FinalisedStatus(h, s) ==
    LET row == [StatusView(h, s) EXCEPT !.exists = TRUE, !.force = FALSE]
        oldest == OrZero(JournalRange(h, s), Min)
        newest == OrZero(JournalRange(h, s), Max)
    IN  IF newSerials[h][s] = {} THEN row
        ELSE [row EXCEPT
                !.oldestSeen = OrZero({row.oldestSeen, oldest, Min(newSerials[h][s])} \ {0}, Min),
                !.newestSeen = Max({row.newestSeen, newest, Max(newSerials[h][s])}),
                !.oldestJournal = oldest,
                !.newestJournal = newest]

\* The buffer is flushed, then finalise_transaction() writes the status of every
\* source seen, and resets force_reload in each.
FinaliseTransaction(h) ==
    /\ stage[h] \in {"open", "closing"}
    /\ pending[h] = {}
    /\ buffer[h] = {}
    /\ \A s \in seen[h] : StatusFree(h, s)
    /\ stage' = [stage EXCEPT ![h] = IF journaling[h] THEN "precommit" ELSE "finalised"]
    /\ statusWrites' = [statusWrites EXCEPT ![h] = [s \in Sources |->
          IF s \in seen[h] THEN FinalisedStatus(h, s) ELSE @[s]]]
    /\ UNCHANGED <<databaseVars, journaling, buffer, pending, rowWrites, inserts, deletes,
                   tableLock, newSerials, seen, changed, flips, wiped, ghostVars>>

\* What a mirror holds once it has followed the journal of this transaction; a
\* source that was reloaded is reloaded by its mirrors too.
MirrorAfter(h) ==
    [o \in Objects |->
        LET E == {e \in inserts[h] : e.obj = o}
            last == CHOOSE e \in E : \A f \in E : f.glob <= e.glob
        IN  IF SourceOf[o] \in wiped[h]
            THEN IF ObjectIsVisible(o, RowView(h, o)) THEN RowView(h, o).text ELSE None
            ELSE IF E = {} THEN mirror[o]
            ELSE IF last.op = "ADD" THEN last.text ELSE None]

\* The highest serial starts again when the source is reloaded, or has to be.
HighestKept(h, s) ==
    IF s \in wiped[h] \/ StatusView(h, s).force THEN 0 ELSE highest[s]

\* Transaction.commit() of SQLAlchemy: all writes become visible at once and all
\* locks are released.
CommitTransaction(h) ==
    /\ rows' = [o \in Objects |-> RowView(h, o)]
    /\ journal' = JournalView(h)
    /\ status' = [s \in Sources |-> StatusView(h, s)]
    /\ mirror' = MirrorAfter(h)
    /\ highest' = [s \in Sources |-> Max(Serials(inserts[h], s) \union {HighestKept(h, s)})]
    /\ rowWrites' = [rowWrites EXCEPT ![h] = NoRowWrites]
    /\ inserts' = [inserts EXCEPT ![h] = {}]
    /\ deletes' = [deletes EXCEPT ![h] = {}]
    /\ statusWrites' = [statusWrites EXCEPT ![h] = NoStatusWrites]
    /\ tableLock' = [tableLock EXCEPT ![h] = "none"]
    /\ wiped' = [wiped EXCEPT ![h] = {}]
    /\ UNCHANGED sequence

\* With journaling disabled, commit() does an intermediate commit before the
\* route preference evaluation.
IntermediateCommit(h) ==
    /\ stage[h] = "finalised"
    /\ CommitTransaction(h)
    /\ stage' = [stage EXCEPT ![h] = "precommit"]
    /\ UNCHANGED <<journaling, buffer, pending, newSerials, seen, changed, flips>>

-----------------------------------------------------------------------------
(* Route preference, from SessionChangedObjectsTracker.pre_commit() and from *)
(* the periodic RoutePreferenceUpdateRunner.                                 *)

PreferenceEnabled == \E s \in Sources : Preference[s] # 0
Overlap(x, y) == x = y \/ <<x, y>> \in Overlapping \/ <<y, x>> \in Overlapping

\* Mutant: only routes for exactly these prefixes.
RoutesExact(h, filter) == {x \in filter : RowView(h, x) # None}

\* build_validator(): the routes that overlap a prefix of the filter.
RoutesOverlapping(h, filter) ==
    {x \in Objects : RowView(h, x) # None /\ \E c \in filter : Overlap(x, c)}

\* _evaluate_route(): a route yields to a loaded, overlapping route of a source
\* with a higher preference; sources without preference are left out.
EvaluateRoute(x, routes) ==
    \/ Preference[SourceOf[x]] = 0
    \/ \A y \in routes : Overlap(x, y) => Preference[SourceOf[y]] <= Preference[SourceOf[x]]

\* validate_known_routes() and excluded_currently_suppressed.
ValidateKnownRoutes(h, filter) ==
    LET routes == RoutesOverlapping(h, filter)
    IN  {[obj |-> x, visible |-> EvaluateRoute(x, routes)] :
            x \in {y \in routes : RowView(h, y).preferred # EvaluateRoute(y, routes)}}

PreCommit(h) ==
    /\ stage[h] = "precommit"
    /\ IF changed[h] # {} /\ PreferenceEnabled
       THEN /\ flips' = [flips EXCEPT ![h] = ValidateKnownRoutes(h, changed[h])]
            /\ stage' = [stage EXCEPT ![h] = "enrich"]
       ELSE /\ stage' = [stage EXCEPT ![h] = "commit"]
            /\ UNCHANGED flips
    /\ UNCHANGED <<databaseVars, journaling, buffer, pending, rowWrites, inserts, deletes,
                   statusWrites, tableLock, newSerials, seen, changed, wiped, ghostVars>>

\* RoutePreferenceUpdateRunner.run(): the same for all routes, then commit().
RoutePreferenceUpdateRunner(h) ==
    /\ "runner" \in Operations
    /\ stage[h] = "idle"
    /\ PreferenceEnabled
    /\ flips' = [flips EXCEPT ![h] = ValidateKnownRoutes(h, Objects)]
    /\ stage' = [stage EXCEPT ![h] = "runnerEnrich"]
    /\ UNCHANGED <<databaseVars, journaling, buffer, pending, rowWrites, inserts, deletes,
                   statusWrites, tableLock, newSerials, seen, changed, wiped, ghostVars>>

\* The journal operation for a route whose status changes.
FlipOperation(f) == IF f.visible THEN "ADD" ELSE "DEL"

\* enrich_pks(): a second query for what the journal needs. Rows that are gone
\* by now are not found; every other one that is not suppressed for another
\* reason is recorded.
EnrichPks(h) ==
    LET found == {f \in flips[h] : RowView(h, f.obj) # None}
    IN  /\ stage[h] \in {"enrich", "runnerEnrich"}
        /\ stage' = [stage EXCEPT ![h] = IF @ = "enrich" THEN "routepref" ELSE "runnerRoutepref"]
        /\ flips' = [flips EXCEPT ![h] = found]
        /\ pending' = [pending EXCEPT ![h] =
              {[op |-> FlipOperation(f), obj |-> f.obj, text |-> RowView(h, f.obj).text,
                serial |-> 0] :
                 f \in {g \in found : g.obj \notin Suppressed}}]
        /\ UNCHANGED <<databaseVars, journaling, buffer, rowWrites, inserts, deletes,
                       statusWrites, tableLock, newSerials, seen, changed, wiped, ghostVars>>

\* The UPDATE statements of update_route_preference_status(), after all journal
\* records: they wait for locked rows and pass over deleted ones.
UpdateRoutePreferenceStatus(h) ==
    /\ stage[h] \in {"routepref", "runnerRoutepref"}
    /\ pending[h] = {}
    /\ \A f \in flips[h] : RowView(h, f.obj) # None => RowFree(h, f.obj)
    /\ rowWrites' = [rowWrites EXCEPT ![h] = [o \in Objects |->
          IF RowView(h, o) # None /\ \E f \in flips[h] : f.obj = o
          THEN [RowView(h, o) EXCEPT !.preferred = (CHOOSE f \in flips[h] : f.obj = o).visible]
          ELSE @[o]]]
    /\ flips' = [flips EXCEPT ![h] = {}]
    /\ stage' = [stage EXCEPT ![h] = IF @ = "routepref" THEN "commit" ELSE "closing"]
    /\ UNCHANGED <<databaseVars, journaling, buffer, pending, inserts, deletes, statusWrites,
                   tableLock, newSerials, seen, changed, wiped, ghostVars>>

-----------------------------------------------------------------------------
(* The end of a transaction. *)

\* status_tracker.reset(), changed_objects_tracker.reset(), _start_transaction().
\* Every caller makes a new handler for its next run, with journaling enabled.
Reset(h) ==
    /\ stage' = [stage EXCEPT ![h] = "idle"]
    /\ journaling' = [journaling EXCEPT ![h] = TRUE]
    /\ buffer' = [buffer EXCEPT ![h] = {}]
    /\ pending' = [pending EXCEPT ![h] = {}]
    /\ newSerials' = [newSerials EXCEPT ![h] = NoSerials]
    /\ seen' = [seen EXCEPT ![h] = {}]
    /\ changed' = [changed EXCEPT ![h] = {}]
    /\ flips' = [flips EXCEPT ![h] = {}]

Commit(h) ==
    /\ stage[h] = "commit"
    /\ CommitTransaction(h)
    /\ Reset(h)

\* rollback(), an exception in any statement (a lock timeout, the victim of a
\* deadlock, a violated constraint), or the end of the process.
Rollback(h) ==
    /\ stage[h] # "idle"
    /\ rowWrites' = [rowWrites EXCEPT ![h] = NoRowWrites]
    /\ inserts' = [inserts EXCEPT ![h] = {}]
    /\ deletes' = [deletes EXCEPT ![h] = {}]
    /\ statusWrites' = [statusWrites EXCEPT ![h] = NoStatusWrites]
    /\ tableLock' = [tableLock EXCEPT ![h] = "none"]
    /\ wiped' = [wiped EXCEPT ![h] = {}]
    /\ Reset(h)
    /\ UNCHANGED <<databaseVars, ghostVars>>

Change(h) ==
    \/ \E o \in Objects, t \in Texts : \E n \in SerialFor(SourceOf[o]) :
          UpsertRpslObject(h, o, t, n)
    \/ \E o \in Objects : \E n \in SerialFor(SourceOf[o]) : DeleteRpslObject(h, o, n)
    \/ FlushRpslObjectWritingBuffer(h)
    \/ \E i \in pending[h] : RecordOperation(h, i)

Administer(h) ==
    \/ \E s \in Sources : DeleteAllRpslObjects(h, s)
    \/ DeleteAllJournalEntries(h)
    \/ EnableJournaling(h)
    \/ \E s \in Sources, n \in SourceSerials : RecordSerialSeen(h, s, n)
    \/ \E s \in Sources : RecordStatus(h, s)
    \/ \E s \in Sources, g \in {e.glob : e \in journal} : DeleteJournalEntriesBeforeDate(h, s, g)
    \/ \E s \in Sources : SetForceReload(h, s)

Finish(h) ==
    \/ FinaliseTransaction(h)
    \/ IntermediateCommit(h)
    \/ PreCommit(h)
    \/ RoutePreferenceUpdateRunner(h)
    \/ EnrichPks(h)
    \/ UpdateRoutePreferenceStatus(h)
    \/ Commit(h)
    \/ Rollback(h)

Next == \E h \in Handlers : Change(h) \/ Administer(h) \/ Finish(h)

Spec == Init /\ [][Next]_vars

-----------------------------------------------------------------------------
(* Properties. *)

\* Every variable has its type.
TypeOK ==
    /\ rows \in [Objects -> Row \union {None}]
    /\ journal \subseteq Entry
    /\ status \in [Sources -> Status]
    /\ sequence \in Nat
    /\ stage \in [Handlers -> Stages]
    /\ journaling \in [Handlers -> BOOLEAN]
    /\ buffer \in [Handlers -> SUBSET BufferItem]
    /\ pending \in [Handlers -> SUBSET Operation]
    /\ rowWrites \in [Handlers -> [Objects -> Row \union {None, Untouched}]]
    /\ inserts \in [Handlers -> SUBSET Entry]
    /\ deletes \in [Handlers -> SUBSET Entry]
    /\ statusWrites \in [Handlers -> [Sources -> Status \union {Untouched}]]
    /\ tableLock \in [Handlers -> {"none", "rowExclusive", "exclusive"}]
    /\ newSerials \in [Handlers -> [Sources -> SUBSET Nat]]
    /\ seen \in [Handlers -> SUBSET Sources]
    /\ changed \in [Handlers -> SUBSET Objects]
    /\ flips \in [Handlers -> SUBSET Flip]
    /\ wiped \in [Handlers -> SUBSET Sources]
    /\ mirror \in [Objects -> Texts \union {None}]
    /\ highest \in [Sources -> Nat]

\* The sources that number their own journal.
OwnSerials == Sources \ SyncSources

\* Locking the journal table is there "to guarantee serial_global in order": an
\* entry that becomes visible is newer than all entries readers have seen, so
\* that a reader that remembers the highest serial_global misses nothing.
GlobalSerialsInOrder ==
    [][\A e \in journal' \ journal, f \in journal : f.glob < e.glob]_vars

\* However transactions interleave, fail, expire and reload, the journal is, to its
\* readers (NRTM servers, exports, the event stream), the log JournalLog specifies:
\* record_operation() "locks the journal table for writing to ensure a gapless set
\* of NRTM serials".
JournalReader == INSTANCE JournalLog
    WITH journal <- journal, Sources <- Sources, SyncSources <- SyncSources
JournalRefinement == JournalReader!Spec

\* The journal reflects every change of a visible object: a mirror that follows
\* it holds exactly what queries show here.
MirrorFollows ==
    \A o \in Objects : SourceOf[o] \in KeepJournal =>
        mirror[o] = IF ObjectIsVisible(o, rows[o]) THEN rows[o].text ELSE None

\* finalise_transaction() leaves a status row whose journal range covers every
\* journal entry: NRTM queries outside that range are refused.
StatusCoversJournal ==
    \A s \in Sources, e \in journal : e.source = s =>
        /\ status[s].oldestJournal <= e.serial
        /\ e.serial <= status[s].newestJournal

\* The evaluation for the prefixes a transaction changed leaves every route with
\* the status that an evaluation of all routes would give it.
RoutesConsistent ==
    \A o \in Objects : rows[o] # None =>
        rows[o].preferred = EvaluateRoute(o, {x \in Objects : rows[x] # None})

\* A serial that was visible once is not given to another operation, even when
\* the journal has expired, unless the source is reloaded or a reload is ordered.
SerialsNotReused ==
    [][\A e \in journal' \ journal : e.source \in OwnSerials =>
          \/ e.serial > highest[e.source]
          \/ \E h \in Handlers : e.source \in wiped[h] /\ wiped'[h] = {}]_vars
=============================================================================
