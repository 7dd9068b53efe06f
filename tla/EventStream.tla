---------------------------- MODULE EventStream ----------------------------
(***************************************************************************)
(* The event stream: the initial download over HTTP, the WebSocket that    *)
(* sends new journal entries, and the Redis stream that wakes it up        *)
(* (irrd.server.http.event_stream, irrd.storage.event_stream). Each        *)
(* statement reads the database at its own time, as transactions commit    *)
(* and publish what they did after that. The client is not part of IRRd:   *)
(* it does what docs/users/queries/event-stream.rst tells it to.           *)
(* Transactions are those of DatabaseHandler, one step each here; rows are *)
(* the visible objects, and the serials of a source grow with              *)
(* serial_global, as JournalLog has it.                                    *)
(***************************************************************************)
EXTENDS Integers, Sequences, FiniteSetsExt, Functions

CONSTANTS
    None,
    Objects,       \* primary keys
    Texts,         \* texts of objects
    Sources,       \* the sources with a journal, in the order of their names
    SourceOf,      \* the source of an object
    StreamMaxLen,  \* REDIS_STREAM_MAX_LEN
    Setup          \* what happens, by the name of a scenario

ASSUME StreamAssumption ==
    /\ None \notin Nat
    /\ Sources \in Seq({SourceOf[o] : o \in Objects}) /\ IsInjective(Sources)
    /\ \A o \in Objects : SourceOf[o] \in Range(Sources)
    /\ StreamMaxLen \in Nat \ {0}
    /\ \A n \in DOMAIN Setup :
          /\ Setup[n].objects \subseteq Objects     \* those that change
          /\ Setup[n].copies \in BOOLEAN            \* the client keeps a copy
          /\ Setup[n].serials \in Nat               \* bound on serial_global
          /\ Setup[n].imports \subseteq Range(Sources)  \* fully imported, once
          /\ Setup[n].drops \in Nat                 \* bound on lost connections

VARIABLES
    scenario,
    rows,        \* the committed objects: text or None
    journal,     \* the committed journal entries
    sequence,    \* the last serial_global
    created,     \* when the status row of each source was created
    reloads,     \* number of full imports of each source
    importing,   \* a full import that has not committed yet, or None
    clock,       \* timestamps that were taken
    unpublished, \* what committed transactions have yet to publish
    stream,      \* all events ever added to the Redis stream
    client,      \* the client and its copy of the objects
    follower,    \* the AsyncEventStreamFollower of its connection, or None
    drops        \* number of lost connections

databaseVars == <<rows, journal, sequence, created, reloads, importing>>
streamVars == <<unpublished, stream>>
vars == <<scenario, databaseVars, clock, streamVars, client, follower, drops>>

SourceSet == Range(Sources)

Copies == [Objects -> Texts \union {None}]
Entries == [glob : Nat, source : SourceSet, obj : Objects, text : Texts \union {None}]
Followers ==
    [pc : {"query", "send", "wait", "ended"},
     after : Nat \union {None},   \* the serial after which the journal is read
     batch : SUBSET Entries,      \* the rest of the result of a query
     lastId : Nat \union {None},  \* the last event that was read
     block : Nat]                 \* the event after which XREAD waits

ASSUME MarkerAssumption == None \notin Followers

-----------------------------------------------------------------------------
(* Transactions *)

\* DatabaseHandler.commit(): the transaction is visible first, and published by
\* DatabaseStatusTracker.publish_event_stream() after that.
Commit(o, t) ==
    /\ o \in Setup[scenario].objects
    /\ t # rows[o]
    /\ sequence < Setup[scenario].serials
    /\ sequence' = sequence + 1
    /\ rows' = [rows EXCEPT ![o] = t]
    /\ journal' = journal \union {[glob |-> sequence + 1, source |-> SourceOf[o], obj |-> o, text |-> t]}
    /\ unpublished' = unpublished \union {[source |-> SourceOf[o], operation |-> "journal_extended"]}
    /\ UNCHANGED <<scenario, created, reloads, importing, clock, stream, client, follower, drops>>

\* A full import starts its transaction. now() is the time it started, also for
\* what it inserts later.
StartImport(s) ==
    /\ importing = None
    /\ s \in Setup[scenario].imports /\ reloads[s] = 0
    /\ importing' = [source |-> s, started |-> clock + 1]
    /\ clock' = clock + 1
    /\ UNCHANGED <<scenario, rows, journal, sequence, created, reloads, streamVars, client, follower, drops>>

\* RPSLMirrorImportUpdateRunner commits: objects, journal and status of the
\* source are replaced, without journal entries.
CommitImport(data) ==
    LET s == importing.source
    IN  /\ importing # None
        /\ importing' = None
        /\ rows' = [o \in Objects |-> IF SourceOf[o] = s THEN data[o] ELSE rows[o]]
        /\ journal' = {e \in journal : e.source # s}
        /\ created' = [created EXCEPT ![s] = importing.started]
        /\ reloads' = [reloads EXCEPT ![s] = @ + 1]
        /\ unpublished' = unpublished \union {[source |-> s, operation |-> "full_reload"]}
        /\ UNCHANGED <<scenario, sequence, clock, stream, client, follower, drops>>

\* EventStreamPublisher.publish_update(), publish_rpsl_full_reload().
Publish(event) ==
    /\ stream' = Append(stream, event)
    /\ unpublished' = unpublished \ {event}
    /\ UNCHANGED <<scenario, databaseVars, clock, client, follower, drops>>

\* The process ends after the commit, or Redis does not answer.
NotPublished(event) ==
    /\ unpublished' = unpublished \ {event}
    /\ UNCHANGED <<scenario, databaseVars, clock, stream, client, follower, drops>>

-----------------------------------------------------------------------------
(* EventStreamInitialDownloadGenerator. The transaction is READ COMMITTED: its  *)
(* two statements do not read the same state.                                   *)

MaxSerialGlobal == IF journal = {} THEN None ELSE Max({e.glob : e \in journal})

\* The time and the highest serial come first. A client without a copy, or one
\* that has noticed a reload, asks for it.
GenerateHeader ==
    /\ client.stage = "none"
    /\ Setup[scenario].copies
    /\ client.imported = 0 \/ client.noticed
    /\ client' = [client EXCEPT !.stage = "rows", !.serial = MaxSerialGlobal, !.imported = clock + 1]
    /\ clock' = clock + 1
    /\ UNCHANGED <<scenario, databaseVars, streamVars, follower, drops>>

\* The objects replace the copy of the client.
GenerateRows ==
    /\ client.stage = "rows"
    /\ client' = [client EXCEPT !.stage = "none", !.data = rows, !.reloads = reloads,
                                !.noticed = FALSE, !.torn = FALSE]
    /\ UNCHANGED <<scenario, databaseVars, clock, streamVars, follower, drops>>

-----------------------------------------------------------------------------
(* EventStreamEndpoint and AsyncEventStreamFollower *)

\* on_connect() sends the time each source was created. The client compares it
\* with the time of its copy.
OnConnect ==
    /\ client.stage = "none"
    /\ Setup[scenario].copies => client.imported # 0 /\ ~client.noticed
    /\ client' = IF client.imported # 0 /\ \E s \in SourceSet : created[s] > client.imported
                 THEN [client EXCEPT !.noticed = TRUE]
                 ELSE [client EXCEPT !.stage = "connected"]
    /\ UNCHANGED <<scenario, databaseVars, clock, streamVars, follower, drops>>

\* Mutant: always from the last serial.
FromNow(serial) == MaxSerialGlobal

\* create(): after_global_serial is what the client asks for, or the last serial.
AfterGlobalSerial(serial) == IF serial # None THEN serial ELSE MaxSerialGlobal

Follower(after) == [pc |-> "query", after |-> after, batch |-> {}, lastId |-> None, block |-> 0]

\* The client asks for what follows its copy or the last message it has got, or
\* for everything if its copy was made with an empty journal.
LastSerial == IF client.serial = None THEN 0 ELSE client.serial

\* on_receive(). Without journal entries the highest serial is None, which can
\* not be compared with the serial of the client.
OnReceive ==
    /\ client.stage = "connected"
    /\ client.imported # 0
    /\ IF MaxSerialGlobal = None \/ LastSerial > MaxSerialGlobal
       THEN /\ client' = [client EXCEPT !.stage = "none"]
            /\ UNCHANGED follower
       ELSE /\ client' = [client EXCEPT !.stage = "following"]
            /\ follower' = Follower(AfterGlobalSerial(LastSerial))
    /\ UNCHANGED <<scenario, databaseVars, clock, streamVars, drops>>

\* A client that has no copy and gives no serial gets changes from now on: what
\* it gets is measured from the current objects. With an empty journal
\* _run_monitor() ends with an error, which nobody sees.
OnReceiveWithoutSerial ==
    /\ client.stage = "connected"
    /\ client.imported = 0
    /\ client' = [client EXCEPT !.stage = "following", !.data = rows, !.reloads = reloads]
    /\ follower' = [Follower(AfterGlobalSerial(None)) EXCEPT
                       !.pc = IF MaxSerialGlobal = None THEN "ended" ELSE "query"]
    /\ UNCHANGED <<scenario, databaseVars, clock, streamVars, drops>>

\* _send_new_journal_entries(): the query sorts by source, then by serial.
Precedes(e, f) ==
    LET rank(s) == CHOOSE i \in DOMAIN Sources : Sources[i] = s
    IN  rank(e.source) < rank(f.source) \/ (e.source = f.source /\ e.glob < f.glob)

QueryJournal ==
    /\ follower # None /\ follower.pc = "query"
    /\ follower' = [follower EXCEPT !.pc = "send", !.batch = {e \in journal : e.glob > follower.after}]
    /\ UNCHANGED <<scenario, databaseVars, clock, streamVars, client, drops>>

\* The callback sends the next entry of the result, which the client applies.
SendEntry ==
    /\ follower # None /\ follower.pc = "send"
    /\ \E e \in follower.batch :
        /\ \A f \in follower.batch \ {e} : Precedes(e, f)
        /\ follower' = [follower EXCEPT !.batch = @ \ {e}, !.after = Max({@, e.glob})]
        /\ client' = [client EXCEPT !.data[e.obj] = e.text, !.serial = e.glob]
    /\ UNCHANGED <<scenario, databaseVars, clock, streamVars, drops>>

\* get_entries(): without an identifier, XREAD returns what is added after the call.
GetEntries ==
    /\ follower # None /\ follower.pc = "send" /\ follower.batch = {}
    /\ follower' = [follower EXCEPT !.pc = "wait",
                       !.block = IF follower.lastId = None THEN Len(stream) ELSE follower.lastId]
    /\ UNCHANGED <<scenario, databaseVars, clock, streamVars, client, drops>>

\* The identifiers of events after the one given that are still in the stream.
NewEvents == {i \in DOMAIN stream : i > follower.block /\ i > Len(stream) - StreamMaxLen}

\* Events are sent to the client, which notices a reload.
ReadEvents ==
    /\ follower # None /\ follower.pc = "wait"
    /\ NewEvents # {}
    /\ follower' = [follower EXCEPT !.pc = "query", !.lastId = Max(NewEvents)]
    /\ client' = [client EXCEPT !.noticed = @ \/ \E i \in NewEvents : stream[i].operation = "full_reload"]
    /\ UNCHANGED <<scenario, databaseVars, clock, streamVars, drops>>

\* Mutant: without events, the journal is not read again.
ReadAgain == [follower EXCEPT !.pc = "send"]

\* After EVENT_STREAM_MAX_WAIT_MS without events, the journal is read all the same.
AfterTimeout == [follower EXCEPT !.pc = "query"]

ReadTimesOut ==
    /\ follower # None /\ follower.pc = "wait"
    /\ NewEvents = {}
    /\ follower' = AfterTimeout
    /\ UNCHANGED <<scenario, databaseVars, clock, streamVars, client, drops>>

\* The client has got an entry before one of another source with a lower serial.
Torn == follower # None /\ \E e \in follower.batch : e.glob < LastSerial

\* The client goes away. It has processed what it got.
Disconnected ==
    /\ follower' = None
    /\ client' = [client EXCEPT !.stage = "none", !.torn = @ \/ Torn]

\* The client starts over with a new copy once it has noticed a reload.
Leave ==
    /\ follower # None /\ client.noticed
    /\ Setup[scenario].copies
    /\ Disconnected
    /\ UNCHANGED <<scenario, databaseVars, clock, streamVars, drops>>

\* on_disconnect(): the connection is lost.
OnDisconnect ==
    /\ client.stage \in {"connected", "following"}
    /\ drops < Setup[scenario].drops
    /\ drops' = drops + 1
    /\ Disconnected
    /\ UNCHANGED <<scenario, databaseVars, clock, streamVars>>

-----------------------------------------------------------------------------

\* Objects may have been loaded without a journal.
Init ==
    /\ scenario \in DOMAIN Setup
    /\ rows \in Copies
    /\ journal = {}
    /\ sequence = 0
    /\ created = [s \in SourceSet |-> 0]
    /\ reloads = [s \in SourceSet |-> 0]
    /\ importing = None
    /\ clock = 0
    /\ unpublished = {}
    /\ stream = << >>
    /\ client = [stage |-> "none", data |-> [o \in Objects |-> None], serial |-> None, imported |-> 0,
                 reloads |-> [s \in SourceSet |-> 0], noticed |-> FALSE, torn |-> FALSE]
    /\ follower = None
    /\ drops = 0

Transactions ==
    \/ \E o \in Objects, t \in Texts \union {None} : Commit(o, t)
    \/ \E s \in SourceSet : StartImport(s)
    \/ \E data \in Copies : CommitImport(data)
    \/ \E event \in unpublished : Publish(event) \/ NotPublished(event)

Follow == QueryJournal \/ SendEntry \/ GetEntries \/ ReadEvents \/ ReadTimesOut

Client == GenerateHeader \/ GenerateRows \/ OnConnect \/ OnReceive \/ OnReceiveWithoutSerial \/ Leave

Next == Transactions \/ Follow \/ Client \/ OnDisconnect

Spec == Init /\ [][Next]_vars

\* The server answers, and a client that keeps a copy comes back.
FairSpec == Spec /\ WF_vars(Follow) /\ WF_vars(Client)

-----------------------------------------------------------------------------
(* Properties *)

\* What the client will get: the rest of a result, and what the journal has after it.
\* The last entry about an object counts.
Ahead ==
    IF follower = None THEN {e \in journal : e.glob > LastSerial}
    ELSE follower.batch \union
            {e \in journal : e.glob > follower.after /\ \A f \in follower.batch : f.glob < e.glob}
About(E, o) == {e \in E : e.obj = o}
Latest(E) == CHOOSE e \in E : \A f \in E : f.glob <= e.glob

\* What the client will have once it has followed the journal.
Followed ==
    [o \in Objects |->
        IF About(Ahead, o) # {} THEN Latest(About(Ahead, o)).text ELSE client.data[o]]

\* The source was not reloaded since the client made its copy.
SameCopy(o) == client.reloads[SourceOf[o]] = reloads[SourceOf[o]]

\* The client has a copy, and no connection was lost before the entries of one
\* source when it had got later ones of another.
HasCopy ==
    /\ client.stage # "rows"
    /\ client.imported # 0 \/ client.stage = "following"
    /\ ~client.torn

\* A client misses no change: what it has got and what it will get from the serial
\* that it or its follower remembers makes up the objects, although the header and
\* the objects of its copy are read at different times and messages of sources
\* are not in the order of their serials (event_stream.py 67-105, 269-307). Left
\* out are sources that were reloaded since, and followers that ended.
StreamMissesNothing ==
    HasCopy /\ (follower # None => follower.pc # "ended") =>
        \A o \in Objects : SameCopy(o) => Followed[o] = rows[o]

\* A client catches up without being told: whether transactions manage to publish
\* their events or not, the follower reads the journal again (event_stream.py 249-267).
StreamCatchesUp ==
    <>[](\/ follower # None /\ follower.pc = "ended"
         \/ client.torn
         \/ \A o \in Objects : SameCopy(o) => client.data[o] = rows[o])
=============================================================================
