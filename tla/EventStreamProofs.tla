------------------------- MODULE EventStreamProofs -------------------------
(***************************************************************************)
(* A client of the event stream misses no change, for any number of        *)
(* sources, objects, transactions, full imports and lost connections.      *)
(***************************************************************************)
EXTENDS EventStream, TLAPS, WellFoundedInduction

-----------------------------------------------------------------------------
(* The inductive invariant *)

Events == [source : SourceSet, operation : {"journal_extended", "full_reload"}]

ClientTypes ==
    [stage : {"none", "rows", "connected", "following"}, data : Copies, serial : Nat \union {None},
     imported : Nat, reloads : [SourceSet -> Nat], noticed : BOOLEAN, torn : BOOLEAN]

DatabaseTypes ==
    /\ rows \in Copies
    /\ journal \subseteq Entries
    /\ sequence \in Nat
    /\ reloads \in [SourceSet -> Nat]
    /\ importing # None => importing \in [source : SourceSet, started : Nat]
    /\ clock \in Nat
    /\ unpublished \subseteq Events
    /\ stream \in Seq(Events)

TypeInv ==
    /\ DatabaseTypes
    /\ client \in ClientTypes
    /\ follower # None => follower \in Followers

\* What entries lead to for an object: the last entry about it has its text, or there is
\* none and the copy has it.
Leads(E, R, data, o) ==
    \/ (\A e \in E : e.obj # o) /\ data[o] = R[o]
    \/ \E g \in E : g.obj = o /\ g.text = R[o] /\ \A f \in E : f.obj = o => f.glob <= g.glob

\* Entries are from the sequence, none has the number of another, and the last one
\* about an object made it what it is.
JournalInv ==
    /\ \A e \in journal : e.glob <= sequence /\ e.source = SourceOf[e.obj]
    /\ \A e, f \in journal : e.glob = f.glob => e = f
    /\ \A o \in Objects : Leads(journal, rows, rows, o)

\* A client does not know of reloads and entries that have not happened. It has a
\* follower only while it is connected to it.
ClientInv ==
    /\ follower # None => client.stage = "following"
    /\ client.serial # None => client.serial <= sequence
    /\ \A s \in SourceSet : client.reloads[s] <= reloads[s]

\* What is left to send of the result of a query. Entries of one source are sent in the
\* order of their numbers, and those of sources that were not reloaded are still there.
BatchInv ==
    /\ follower.after \in Nat /\ follower.after <= sequence
    /\ follower.pc # "send" => follower.batch = {}
    /\ \A e \in follower.batch :
          /\ e.glob <= sequence /\ e.source = SourceOf[e.obj]
          /\ SameCopy(e.obj) => e \in journal
    /\ \A e, f \in follower.batch : e.glob = f.glob => e = f
    /\ client.imported # 0 =>
          /\ LastSerial <= follower.after
          /\ \A e \in follower.batch : e.glob # LastSerial

FollowerInv ==
    follower # None =>
        IF follower.pc = "ended" THEN client.imported = 0 ELSE BatchInv

\* What the client has and what lies ahead of it lead to the objects.
Running == HasCopy /\ (follower # None => follower.pc # "ended")
CopyInv == Running => \A o \in Objects : SameCopy(o) => Leads(Ahead, rows, client.data, o)

StreamSafe == TypeInv /\ JournalInv /\ ClientInv /\ FollowerInv /\ CopyInv
-----------------------------------------------------------------------------
(* Types *)

\* A set of naturals that is not empty has a least element.
LEMMA MinExists ==
    ASSUME NEW S, S \subseteq Nat, S # {}
    PROVE  Min(S) \in S /\ \A x \in S : Min(S) <= x
<1>1. PICK m \in S : \A y \in S : <<y, m>> \notin OpToRel(<, Nat)
  BY NatLessThanWellFounded, WFMin
<1>2. \A y \in S : ~(y < m)
  BY <1>1 DEF OpToRel
<1>3. \A y \in S : m =< y
  BY <1>2
<1> QED
  BY <1>3 DEF Min

\* A set of naturals that is not empty and has an upper bound has a greatest
\* element.
LEMMA MaxExists ==
    ASSUME NEW S, S \subseteq Nat, S # {}, NEW b \in Nat, \A x \in S : x <= b
    PROVE  Max(S) \in S /\ \A x \in S : x <= Max(S)
<1> DEFINE T == {b - x : x \in S}
<1>0. \A x \in S : x \in Nat /\ b - x \in Nat
  OBVIOUS
<1>1. T \subseteq Nat /\ T # {}
  BY <1>0
<1>2. Min(T) \in T /\ \A y \in T : Min(T) <= y
  BY <1>1, MinExists
<1>3. PICK m \in S : Min(T) = b - m
  BY <1>2
<1>4. \A x \in S : b - m <= b - x
  BY <1>2, <1>3
<1>5. \A x \in S : m >= x
  BY <1>4
<1> QED
  BY <1>5 DEF Max

LEMMA EntryType ==
    ASSUME DatabaseTypes
    PROVE  \A e \in journal : e.glob \in Nat /\ e.obj \in Objects /\ e.source \in SourceSet
  BY DEF DatabaseTypes, Entries

\* The highest serial is one of the journal, if there is any.
LEMMA MaxSerialType ==
    ASSUME DatabaseTypes, JournalInv
    PROVE  MaxSerialGlobal # None => MaxSerialGlobal \in Nat /\ MaxSerialGlobal <= sequence
<1> SUFFICES ASSUME MaxSerialGlobal # None
             PROVE  MaxSerialGlobal \in Nat /\ MaxSerialGlobal <= sequence
  OBVIOUS
<1> DEFINE S == {e.glob : e \in journal}
<1>1. journal # {} /\ MaxSerialGlobal = Max(S)
  BY DEF MaxSerialGlobal
<1>2. S \subseteq Nat /\ S # {}
  BY <1>1, EntryType
<1>3. sequence \in Nat /\ \A x \in S : x <= sequence
  BY DEF DatabaseTypes, JournalInv
<1>4. Max(S) \in S
  BY <1>2, <1>3, MaxExists
<1> QED
  BY <1>1, <1>2, <1>3, <1>4

\* The last event that is read is one of the stream.
LEMMA NewEventsType ==
    ASSUME DatabaseTypes, NewEvents # {}
    PROVE  Max(NewEvents) \in Nat
<1>1. Len(stream) \in Nat /\ DOMAIN stream = 1 .. Len(stream)
  BY DEF DatabaseTypes
<1>2. NewEvents \subseteq Nat /\ \A i \in NewEvents : i <= Len(stream)
  BY <1>1 DEF NewEvents
<1>3. Max(NewEvents) \in NewEvents
  BY <1>1, <1>2, MaxExists
<1> QED
  BY <1>2, <1>3

LEMMA MaxOfTwo ==
    ASSUME NEW a \in Nat, NEW b \in Nat
    PROVE  /\ Max({a, b}) \in Nat
           /\ a <= Max({a, b}) /\ b <= Max({a, b})
           /\ Max({a, b}) \in {a, b}
<1>1. \E m \in Nat : a <= m /\ b <= m
  OBVIOUS
<1>2. Max({a, b}) \in {a, b} /\ \A x \in {a, b} : x <= Max({a, b})
  BY <1>1, MaxExists
<1> QED
  BY <1>2

\* Every source of an object is one of the sources.
LEMMA SourceType == \A o \in Objects : SourceOf[o] \in SourceSet
  BY StreamAssumption DEF SourceSet

LEMMA LastSerialType ==
    ASSUME TypeInv
    PROVE  LastSerial \in Nat
  BY DEF TypeInv, ClientTypes, LastSerial

\* Transactions change the database, and nothing of the client.
LEMMA TransactionsType ==
    ASSUME TypeInv, Transactions
    PROVE  DatabaseTypes' /\ UNCHANGED <<client, follower>>
<1>1. DatabaseTypes
  BY DEF TypeInv
<1>2. ASSUME NEW o \in Objects, NEW t \in Texts \union {None}, Commit(o, t)
      PROVE  DatabaseTypes' /\ UNCHANGED <<client, follower>>
  <2> DEFINE e == [glob |-> sequence + 1, source |-> SourceOf[o], obj |-> o, text |-> t]
  <2>1. /\ rows' = [rows EXCEPT ![o] = t]
        /\ journal' = journal \union {e}
        /\ unpublished' = unpublished \union {[source |-> SourceOf[o], operation |-> "journal_extended"]}
        /\ sequence' = sequence + 1
        /\ UNCHANGED <<reloads, importing, clock, stream, client, follower>>
    BY <1>2 DEF Commit
  <2>2. e \in Entries /\ [source |-> SourceOf[o], operation |-> "journal_extended"] \in Events
    BY <1>1, SourceType DEF DatabaseTypes, Entries, Events
  <2>3. rows' \in Copies
    BY <1>1, <2>1 DEF DatabaseTypes, Copies
  <2> HIDE DEF e
  <2> QED
    BY <1>1, <2>1, <2>2, <2>3 DEF DatabaseTypes
<1>3. ASSUME NEW s \in SourceSet, StartImport(s)
      PROVE  DatabaseTypes' /\ UNCHANGED <<client, follower>>
  <2>1. /\ importing' = [source |-> s, started |-> clock + 1]
        /\ clock' = clock + 1
        /\ UNCHANGED <<rows, journal, sequence, reloads, unpublished, stream, client, follower>>
    BY <1>3 DEF StartImport, streamVars
  <2>2. clock \in Nat
    BY <1>1 DEF DatabaseTypes
  <2>3. clock' \in Nat /\ importing' \in [source : SourceSet, started : Nat]
    BY <2>1, <2>2
  <2> QED
    BY <1>1, <2>1, <2>3 DEF DatabaseTypes
<1>4. ASSUME NEW data \in Copies, CommitImport(data)
      PROVE  DatabaseTypes' /\ UNCHANGED <<client, follower>>
  <2> DEFINE s == importing.source
  <2>1. /\ importing # None /\ importing' = None
        /\ rows' = [o \in Objects |-> IF SourceOf[o] = s THEN data[o] ELSE rows[o]]
        /\ journal' = {e \in journal : e.source # s}
        /\ reloads' = [reloads EXCEPT ![s] = @ + 1]
        /\ unpublished' = unpublished \union {[source |-> s, operation |-> "full_reload"]}
        /\ UNCHANGED <<sequence, clock, stream, client, follower>>
    BY <1>4 DEF CommitImport
  <2>2. s \in SourceSet
    BY <1>1, <2>1 DEF DatabaseTypes
  <2> HIDE DEF s
  <2>3. rows' \in Copies
    BY <1>1, <2>1 DEF DatabaseTypes, Copies
  <2>4. reloads' \in [SourceSet -> Nat]
    BY <1>1, <2>1, <2>2 DEF DatabaseTypes
  <2>5. unpublished' \subseteq Events
    BY <1>1, <2>1, <2>2 DEF DatabaseTypes, Events
  <2> QED
    BY <1>1, <2>1, <2>3, <2>4, <2>5 DEF DatabaseTypes
<1>5. ASSUME NEW event \in unpublished, Publish(event) \/ NotPublished(event)
      PROVE  DatabaseTypes' /\ UNCHANGED <<client, follower>>
  <2>1. /\ UNCHANGED <<rows, journal, sequence, reloads, importing, clock, client, follower>>
        /\ unpublished' = unpublished \ {event}
        /\ stream' = Append(stream, event) \/ stream' = stream
    BY <1>5 DEF Publish, NotPublished, databaseVars
  <2>2. event \in Events /\ stream \in Seq(Events)
    BY <1>1 DEF DatabaseTypes
  <2>3. stream' \in Seq(Events)
    BY <2>1, <2>2
  <2> QED
    BY <1>1, <2>1, <2>3 DEF DatabaseTypes
<1> QED
  BY <1>2, <1>3, <1>4, <1>5 DEF Transactions

\* The client and its follower change nothing of the database but the clock.
LEMMA DatabaseKept ==
    ASSUME TypeInv, Client \/ Follow \/ OnDisconnect
    PROVE  /\ UNCHANGED <<rows, journal, sequence, reloads>>
           /\ DatabaseTypes'
<1>1. UNCHANGED databaseVars /\ UNCHANGED streamVars /\ clock' \in {clock, clock + 1}
  BY DEF Client, Follow, OnDisconnect, GenerateHeader, GenerateRows, OnConnect, OnReceive,
         OnReceiveWithoutSerial, Leave, QueryJournal, SendEntry, GetEntries, ReadEvents, ReadTimesOut
<1>2. UNCHANGED <<rows, journal, sequence, reloads, importing, unpublished, stream>>
  BY <1>1 DEF databaseVars, streamVars
<1>3. DatabaseTypes /\ clock' \in Nat
  BY <1>1 DEF TypeInv, DatabaseTypes
<1> QED
  BY <1>2, <1>3 DEF DatabaseTypes

-----------------------------------------------------------------------------
(* What lies ahead *)

\* What lies ahead of a client that is not connected, or has an idle follower.
Beyond(serial) == {e \in journal : e.glob > serial}

\* Any end of the journal leads to the objects, for a copy that has what it does not
\* mention.
LEMMA BeyondLeads ==
    ASSUME DatabaseTypes, JournalInv, NEW serial \in Nat, NEW data, NEW o \in Objects,
           (\A e \in Beyond(serial) : e.obj # o) => data[o] = rows[o]
    PROVE  Leads(Beyond(serial), rows, data, o)
<1>1. CASE \A e \in Beyond(serial) : e.obj # o
  BY <1>1 DEF Leads
<1>2. CASE \E e \in Beyond(serial) : e.obj = o
  <2>1. PICK e \in journal : e.obj = o /\ e.glob > serial
    BY <1>2 DEF Beyond
  <2>2. PICK g \in journal : g.obj = o /\ g.text = rows[o] /\ \A f \in journal : f.obj = o => f.glob <= g.glob
    BY <2>1 DEF JournalInv, Leads
  <2>3. e.glob \in Nat /\ g.glob \in Nat /\ e.glob <= g.glob
    BY <2>1, <2>2, EntryType
  <2>4. g \in Beyond(serial)
    BY <2>1, <2>2, <2>3 DEF Beyond
  <2> QED
    BY <2>2, <2>4 DEF Leads, Beyond
<1> QED
  BY <1>1, <1>2

\* Without a result that is under way, what lies ahead is the end of the journal.
LEMMA AheadIs ==
    /\ follower = None => Ahead = Beyond(LastSerial)
    /\ follower # None /\ follower.batch = {} => Ahead = Beyond(follower.after)
  BY DEF Ahead, Beyond

\* A new entry is the last one.
LEMMA LeadsAdd ==
    ASSUME NEW E, NEW R \in Copies, NEW data, NEW e, NEW p \in Objects,
           e.obj \in Objects, e.glob \in Nat,
           \A f \in E : f.glob <= e.glob,
           Leads(E, R, data, p)
    PROVE  Leads(E \union {e}, [R EXCEPT ![e.obj] = e.text], data, p)
<1> DEFINE R2 == [R EXCEPT ![e.obj] = e.text]
<1>1. CASE p = e.obj
  <2>1. e.text = R2[p] /\ e.glob <= e.glob
    BY <1>1 DEF Copies
  <2> QED
    BY <1>1, <2>1 DEF Leads
<1>2. CASE p # e.obj
  <2>1. R2[p] = R[p]
    BY <1>2 DEF Copies
  <2> HIDE DEF R2
  <2>2. Leads(E \union {e}, R2, data, p)
    BY <1>2, <2>1 DEF Leads
  <2> QED
    BY <2>2 DEF R2
<1> QED
  BY <1>1, <1>2

\* What lies ahead has happened: its numbers are from the sequence and different, and what
\* is said of objects of sources that were not reloaded is in the journal.
LEMMA AheadType ==
    ASSUME StreamSafe, Running
    PROVE  /\ \A e \in Ahead : e.glob \in Nat /\ e.glob <= sequence
           /\ \A e, f \in Ahead : e.glob = f.glob => e = f
           /\ \A e \in Ahead : SameCopy(e.obj) => e \in journal
<1>1. DatabaseTypes /\ JournalInv
  BY DEF StreamSafe, TypeInv
<1>2. CASE follower = None
  BY <1>1, <1>2, EntryType DEF Ahead, JournalInv
<1>3. CASE follower # None
  <2>1. BatchInv
    BY <1>3 DEF StreamSafe, FollowerInv, Running
  <2>2. follower.batch \subseteq Entries
    BY <1>3 DEF StreamSafe, TypeInv, Followers
  <2>3. \A e \in follower.batch : e.glob \in Nat
    BY <2>2 DEF Entries
  <2>4. \A e \in Ahead : \/ e \in follower.batch
                         \/ e \in journal /\ \A f \in follower.batch : f.glob < e.glob
    BY <1>3 DEF Ahead
  <2>5. \A e \in Ahead : e.glob \in Nat /\ e.glob <= sequence
    BY <1>1, <2>1, <2>3, <2>4, EntryType DEF JournalInv, BatchInv
  <2>6. \A e, f \in Ahead : e.glob = f.glob => e = f
    BY <1>1, <2>1, <2>3, <2>4, EntryType DEF JournalInv, BatchInv
  <2> QED
    BY <2>1, <2>4, <2>5, <2>6 DEF BatchInv
<1> QED
  BY <1>2, <1>3

-----------------------------------------------------------------------------
(* Transactions *)

LEMMA CommitSafe ==
    ASSUME StreamSafe, NEW o \in Objects, NEW t \in Texts \union {None}, Commit(o, t)
    PROVE  StreamSafe'
<1> DEFINE e == [glob |-> sequence + 1, source |-> SourceOf[o], obj |-> o, text |-> t]
<1>1. /\ rows' = [rows EXCEPT ![o] = t]
      /\ journal' = journal \union {e}
      /\ sequence' = sequence + 1
      /\ UNCHANGED <<reloads, client, follower>>
  BY DEF Commit
<1>2. /\ TypeInv /\ DatabaseTypes /\ JournalInv
      /\ sequence \in Nat /\ rows \in Copies
  BY DEF StreamSafe, TypeInv, DatabaseTypes
<1>3. TypeInv'
  <2>1. Transactions
    BY DEF Transactions
  <2> QED
    BY <1>2, <2>1, TransactionsType DEF TypeInv
<1>4. e.glob = sequence + 1 /\ e.source = SourceOf[e.obj] /\ e.obj = o /\ e.text = t
  OBVIOUS
<1> HIDE DEF e
<1>5. \A f \in journal : f.glob \in Nat /\ f.glob <= sequence /\ f.glob # e.glob
  BY <1>2, <1>4, EntryType DEF JournalInv
<1>50. e.obj \in Objects /\ e.glob \in Nat /\ rows' = [rows EXCEPT ![e.obj] = e.text]
  BY <1>1, <1>2, <1>4
<1>6. JournalInv'
  <2>1. \A f \in journal' : f.glob <= sequence' /\ f.source = SourceOf[f.obj]
    BY <1>1, <1>2, <1>4, <1>5 DEF JournalInv
  <2>2. \A f, g \in journal' : f.glob = g.glob => f = g
    BY <1>1, <1>2, <1>5 DEF JournalInv
  <2>3. ASSUME NEW p \in Objects
        PROVE  Leads(journal', rows', rows', p)
    <3>1. Leads(journal, rows, rows, p)
      BY <1>2 DEF JournalInv
    <3>2. \A f \in journal : f.glob <= e.glob
      BY <1>2, <1>4, <1>5
    <3>3. Leads(journal \union {e}, [rows EXCEPT ![e.obj] = e.text], rows, p)
      BY <1>2, <1>50, <3>1, <3>2, LeadsAdd
    <3>4. Leads(journal', rows', rows, p)
      BY <1>1, <1>50, <3>3
    <3> QED
      BY <3>4 DEF Leads
  <2> QED
    BY <2>1, <2>2, <2>3 DEF JournalInv
<1>7. ClientInv'
  <2>1. client.serial # None => client.serial \in Nat
    BY <1>2 DEF TypeInv, ClientTypes
  <2> QED
    BY <1>1, <1>2, <2>1 DEF StreamSafe, ClientInv
<1>8. FollowerInv'
  <2>1. ASSUME follower # None, follower.pc # "ended" PROVE BatchInv'
    <3>1. BatchInv /\ follower.batch \subseteq Entries
      BY <2>1 DEF StreamSafe, FollowerInv, TypeInv, Followers
    <3>2. \A f \in follower.batch : f.glob \in Nat /\ f.glob <= sequence'
      BY <1>1, <1>2, <3>1 DEF BatchInv, Entries
    <3>3. follower.after <= sequence'
      BY <1>1, <1>2, <3>1 DEF BatchInv
    <3> QED
      BY <1>1, <3>1, <3>2, <3>3 DEF BatchInv, SameCopy, LastSerial
  <2> QED
    BY <1>1, <2>1 DEF StreamSafe, FollowerInv
<1>9. CopyInv'
  <2> SUFFICES ASSUME Running, NEW p \in Objects, SameCopy(p)
               PROVE  Leads(Ahead', rows', client.data, p)
    BY <1>1 DEF CopyInv, Running, HasCopy, SameCopy
  <2>1. \A f \in Ahead : f.glob \in Nat /\ f.glob <= sequence
    BY AheadType
  <2>2. Leads(Ahead, rows, client.data, p)
    BY DEF StreamSafe, CopyInv
  <2>3. Ahead' = Ahead \union {e}
    <3>1. CASE follower = None
      <4>1. LastSerial \in Nat /\ LastSerial <= sequence
        BY <1>2, LastSerialType DEF StreamSafe, ClientInv, LastSerial
      <4> QED
        BY <1>1, <1>2, <1>4, <3>1, <4>1 DEF Ahead, LastSerial
    <3>2. CASE follower # None
      <4>1. BatchInv /\ follower.batch \subseteq Entries
        BY <3>2 DEF StreamSafe, FollowerInv, Running, TypeInv, Followers
      <4>2. e.glob > follower.after /\ \A f \in follower.batch : f.glob < e.glob
        BY <1>2, <1>4, <4>1 DEF BatchInv, Entries
      <4> QED
        BY <1>1, <3>2, <4>2 DEF Ahead
    <3> QED
      BY <3>1, <3>2
  <2>4. Leads(Ahead', rows', client.data, p)
    <3>1. \A f \in Ahead : f.glob <= e.glob
      BY <1>2, <1>4, <2>1
    <3>2. Leads(Ahead \union {e}, [rows EXCEPT ![e.obj] = e.text], client.data, p)
      BY <1>2, <1>50, <2>2, <3>1, LeadsAdd
    <3> QED
      BY <1>50, <2>3, <3>2
  <2> QED
    BY <2>4
<1> QED
  BY <1>3, <1>6, <1>7, <1>8, <1>9 DEF StreamSafe

\* A full import takes away the entries of its source, and the client's copy of it does
\* not count any more. Nothing changes for other sources.
LEMMA CommitImportSafe ==
    ASSUME StreamSafe, NEW data \in Copies, CommitImport(data)
    PROVE  StreamSafe'
<1> DEFINE s == importing.source
<1>1. /\ importing # None
      /\ rows' = [o \in Objects |-> IF SourceOf[o] = s THEN data[o] ELSE rows[o]]
      /\ journal' = {e \in journal : e.source # s}
      /\ reloads' = [reloads EXCEPT ![s] = @ + 1]
      /\ UNCHANGED <<sequence, client, follower>>
  BY DEF CommitImport
<1>2. /\ TypeInv /\ DatabaseTypes /\ JournalInv /\ ClientInv
      /\ sequence \in Nat /\ rows \in Copies /\ s \in SourceSet /\ reloads \in [SourceSet -> Nat]
      /\ client.reloads \in [SourceSet -> Nat]
  BY <1>1 DEF StreamSafe, TypeInv, DatabaseTypes, ClientTypes
<1> HIDE DEF s
<1>3. TypeInv'
  <2>1. Transactions
    BY DEF Transactions
  <2> QED
    BY <1>2, <2>1, TransactionsType DEF TypeInv
<1>4. /\ \A x \in SourceSet : client.reloads[x] <= reloads'[x]
      /\ client.reloads[s] # reloads'[s]
      /\ \A x \in SourceSet : x # s => reloads'[x] = reloads[x]
  BY <1>1, <1>2 DEF ClientInv
<1>5. ASSUME NEW p \in Objects, SameCopy(p)'
      PROVE  SourceOf[p] # s /\ SameCopy(p) /\ rows'[p] = rows[p]
  BY <1>1, <1>4, <1>5, SourceType DEF SameCopy
<1>6. \A e \in journal : e.source = SourceOf[e.obj]
  BY <1>2 DEF JournalInv
<1>7. JournalInv'
  <2>1. ASSUME NEW p \in Objects
        PROVE  Leads(journal', rows', rows', p)
    <3>1. CASE SourceOf[p] = s
      BY <1>1, <1>6, <3>1 DEF Leads
    <3>2. CASE SourceOf[p] # s
      <4>1. Leads(journal, rows, rows, p) /\ rows'[p] = rows[p]
        BY <1>1, <1>2, <3>2 DEF JournalInv
      <4>2. \A e \in journal : e.obj = p => e \in journal'
        BY <1>1, <1>6, <3>2
      <4>3. journal' \subseteq journal
        BY <1>1
      <4> QED
        BY <4>1, <4>2, <4>3 DEF Leads
    <3> QED
      BY <3>1, <3>2
  <2> QED
    BY <1>1, <1>2, <2>1 DEF JournalInv
<1>8. ClientInv'
  BY <1>1, <1>2, <1>4 DEF ClientInv
<1>9. FollowerInv'
  <2>1. ASSUME follower # None, follower.pc # "ended" PROVE BatchInv'
    <3>1. BatchInv /\ follower.batch \subseteq Entries
      BY <2>1 DEF StreamSafe, FollowerInv, TypeInv, Followers
    <3>2. ASSUME NEW e \in follower.batch, SameCopy(e.obj)'
          PROVE  e \in journal'
      <4>1. e.obj \in Objects
        BY <3>1 DEF Entries
      <4>2. SourceOf[e.obj] # s /\ SameCopy(e.obj)
        BY <3>2, <4>1, <1>5
      <4> QED
        BY <1>1, <3>1, <4>2 DEF BatchInv
    <3> QED
      BY <1>1, <3>1, <3>2 DEF BatchInv, LastSerial
  <2> QED
    BY <1>1, <2>1 DEF StreamSafe, FollowerInv
<1>10. CopyInv'
  <2> SUFFICES ASSUME Running, NEW p \in Objects, SameCopy(p)'
               PROVE  Leads(Ahead', rows', client.data, p)
    BY <1>1 DEF CopyInv, Running, HasCopy
  <2>1. SourceOf[p] # s /\ SameCopy(p) /\ rows'[p] = rows[p]
    BY <1>5
  <2>2. Leads(Ahead, rows, client.data, p)
    BY <2>1 DEF StreamSafe, CopyInv
  <2>3. Ahead' \subseteq Ahead /\ \A e \in Ahead : e.obj = p => e \in Ahead'
    BY <1>1, <1>6, <2>1 DEF Ahead, LastSerial
  <2> QED
    BY <2>1, <2>2, <2>3 DEF Leads
<1> QED
  BY <1>3, <1>7, <1>8, <1>9, <1>10 DEF StreamSafe

\* The rest of the database matters to nobody here.
LEMMA NothingChanged ==
    ASSUME StreamSafe, DatabaseTypes', UNCHANGED <<rows, journal, sequence, reloads, client, follower>>
    PROVE  StreamSafe'
<1>1. TypeInv'
  BY DEF StreamSafe, TypeInv
<1>2. JournalInv' /\ ClientInv'
  BY DEF StreamSafe, JournalInv, ClientInv
<1>3. FollowerInv' /\ CopyInv'
  BY DEF StreamSafe, FollowerInv, BatchInv, CopyInv, Running, HasCopy, SameCopy, Ahead, LastSerial
<1> QED
  BY <1>1, <1>2, <1>3 DEF StreamSafe

LEMMA TransactionsSafe ==
    ASSUME StreamSafe, Transactions
    PROVE  StreamSafe'
<1>1. CASE \E s \in SourceSet : StartImport(s)
  <2>1. DatabaseTypes' /\ UNCHANGED <<rows, journal, sequence, reloads, client, follower>>
    BY <1>1, TransactionsType DEF StartImport, StreamSafe
  <2> QED
    BY <2>1, NothingChanged
<1>2. CASE \E event \in unpublished : Publish(event) \/ NotPublished(event)
  <2>1. DatabaseTypes' /\ UNCHANGED <<rows, journal, sequence, reloads, client, follower>>
    BY <1>2, TransactionsType DEF Publish, NotPublished, StreamSafe, databaseVars
  <2> QED
    BY <2>1, NothingChanged
<1> QED
  BY <1>1, <1>2, CommitSafe, CommitImportSafe DEF Transactions

-----------------------------------------------------------------------------
(* The client *)

LEMMA ClientStep ==
    ASSUME StreamSafe, Client \/ Follow \/ OnDisconnect,
           client' \in ClientTypes, follower' # None => follower' \in Followers,
           ClientInv', FollowerInv', CopyInv'
    PROVE  StreamSafe'
<1>1. UNCHANGED <<rows, journal, sequence, reloads>> /\ DatabaseTypes'
  BY DatabaseKept DEF StreamSafe
<1>2. TypeInv'
  BY <1>1 DEF TypeInv
<1>3. JournalInv'
  BY <1>1 DEF StreamSafe, JournalInv
<1> QED
  BY <1>2, <1>3 DEF StreamSafe

LEMMA HeaderSafe ==
    ASSUME StreamSafe, GenerateHeader
    PROVE  StreamSafe'
<1>1. /\ client.stage = "none" /\ UNCHANGED follower
      /\ client' = [client EXCEPT !.stage = "rows", !.serial = MaxSerialGlobal, !.imported = clock + 1]
  BY DEF GenerateHeader
<1>2. Client /\ UNCHANGED <<rows, journal, sequence, reloads>>
  BY DatabaseKept DEF Client, StreamSafe
<1>3. client \in ClientTypes /\ clock \in Nat /\ DatabaseTypes /\ JournalInv /\ ClientInv
  BY DEF StreamSafe, TypeInv, DatabaseTypes
<1>4. MaxSerialGlobal # None => MaxSerialGlobal \in Nat /\ MaxSerialGlobal <= sequence
  BY <1>3, MaxSerialType
<1>5. /\ client' \in ClientTypes
      /\ client'.stage = "rows" /\ client'.serial = MaxSerialGlobal /\ client'.reloads = client.reloads
  <2>1. MaxSerialGlobal \in Nat \union {None} /\ clock + 1 \in Nat
    BY <1>3, <1>4
  <2> QED
    BY <1>1, <1>3, <2>1 DEF ClientTypes
<1>6. follower = None
  BY <1>1, <1>3 DEF ClientInv
<1>7. ClientInv' /\ FollowerInv'
  BY <1>1, <1>2, <1>3, <1>4, <1>5, <1>6 DEF ClientInv, FollowerInv
<1>8. CopyInv'
  BY <1>5 DEF CopyInv, Running, HasCopy
<1> QED
  BY <1>1, <1>2, <1>5, <1>6, <1>7, <1>8, ClientStep

\* The copy is made of all objects; what the header said does not matter to it.
LEMMA RowsSafe ==
    ASSUME StreamSafe, GenerateRows
    PROVE  StreamSafe'
<1>1. /\ client.stage = "rows" /\ UNCHANGED follower
      /\ client' = [client EXCEPT !.stage = "none", !.data = rows, !.reloads = reloads,
                                  !.noticed = FALSE, !.torn = FALSE]
  BY DEF GenerateRows
<1>2. Client /\ UNCHANGED <<rows, journal, sequence, reloads>>
  BY DatabaseKept DEF Client, StreamSafe
<1>3. /\ TypeInv /\ client \in ClientTypes /\ DatabaseTypes /\ JournalInv /\ ClientInv
      /\ rows \in Copies /\ reloads \in [SourceSet -> Nat]
  BY DEF StreamSafe, TypeInv, DatabaseTypes
<1>4. /\ client' \in ClientTypes
      /\ client'.stage = "none" /\ client'.serial = client.serial /\ client'.reloads = reloads
      /\ client'.data = rows
  BY <1>1, <1>3 DEF ClientTypes
<1>5. follower = None /\ follower' = None
  BY <1>1, <1>3 DEF ClientInv
<1>6. ClientInv' /\ FollowerInv'
  BY <1>2, <1>3, <1>4, <1>5 DEF ClientInv, FollowerInv
<1>7. CopyInv'
  <2> SUFFICES ASSUME NEW o \in Objects PROVE Leads(Ahead', rows, rows, o)
    BY <1>2, <1>4 DEF CopyInv
  <2>1. Ahead' = Beyond(LastSerial)
    BY <1>2, <1>4, <1>5 DEF Ahead, Beyond, LastSerial
  <2> QED
    BY <1>3, <2>1, LastSerialType, BeyondLeads
<1> QED
  BY <1>2, <1>4, <1>5, <1>6, <1>7, ClientStep

LEMMA OnConnectSafe ==
    ASSUME StreamSafe, OnConnect
    PROVE  StreamSafe'
<1>1. /\ client.stage = "none" /\ UNCHANGED follower
      /\ \/ client' = [client EXCEPT !.noticed = TRUE]
         \/ client' = [client EXCEPT !.stage = "connected"]
  BY DEF OnConnect
<1>2. Client /\ UNCHANGED <<rows, journal, sequence, reloads>>
  BY DatabaseKept DEF Client, StreamSafe
<1>3. client \in ClientTypes /\ ClientInv /\ CopyInv
  BY DEF StreamSafe, TypeInv
<1>4. /\ client' \in ClientTypes
      /\ client'.stage \in {"none", "connected"}
      /\ client'.serial = client.serial /\ client'.reloads = client.reloads
      /\ client'.data = client.data /\ client'.imported = client.imported /\ client'.torn = client.torn
  BY <1>1, <1>3 DEF ClientTypes
<1>5. follower = None /\ follower' = None
  BY <1>1, <1>3 DEF ClientInv
<1>6. ClientInv' /\ FollowerInv'
  BY <1>2, <1>3, <1>4, <1>5 DEF ClientInv, FollowerInv
<1>7. CopyInv'
  <2>1. Running' => Running
    BY <1>1, <1>4, <1>5 DEF Running, HasCopy
  <2>2. Ahead' = Ahead
    BY <1>2, <1>4, <1>5 DEF Ahead, LastSerial
  <2> QED
    BY <1>2, <1>3, <1>4, <2>1, <2>2 DEF CopyInv, SameCopy
<1> QED
  BY <1>2, <1>4, <1>5, <1>6, <1>7, ClientStep

LEMMA FollowerType ==
    ASSUME NEW after \in Nat
    PROVE  Follower(after) \in Followers /\ Follower(after) # None
<1>1. Follower(after) \in Followers
  BY DEF Follower, Followers
<1> QED
  BY <1>1, MarkerAssumption

\* A follower starts from where the client is.
LEMMA OnReceiveSafe ==
    ASSUME StreamSafe, OnReceive
    PROVE  StreamSafe'
<1>1. client.stage = "connected" /\ client.imported # 0
  BY DEF OnReceive
<1>2. Client /\ UNCHANGED <<rows, journal, sequence, reloads>>
  BY DatabaseKept DEF Client, StreamSafe
<1>3. TypeInv /\ client \in ClientTypes /\ ClientInv /\ CopyInv /\ LastSerial \in Nat
  BY LastSerialType DEF StreamSafe, TypeInv
<1>4. follower = None
  BY <1>1, <1>3 DEF ClientInv
<1>5. CASE client' = [client EXCEPT !.stage = "none"] /\ follower' = follower
  <2>1. /\ client' \in ClientTypes
        /\ client'.stage = "none"
        /\ client'.serial = client.serial /\ client'.reloads = client.reloads
        /\ client'.data = client.data /\ client'.imported = client.imported /\ client'.torn = client.torn
    BY <1>5, <1>3 DEF ClientTypes
  <2>2. ClientInv' /\ FollowerInv'
    BY <1>2, <1>3, <1>4, <1>5, <2>1 DEF ClientInv, FollowerInv
  <2>3. (Running' => Running) /\ Ahead' = Ahead
    BY <1>1, <1>2, <1>4, <1>5, <2>1 DEF Running, HasCopy, Ahead, LastSerial
  <2>4. CopyInv'
    BY <1>2, <1>3, <2>1, <2>3 DEF CopyInv, SameCopy
  <2> QED
    BY <1>2, <1>4, <1>5, <2>1, <2>2, <2>4, ClientStep
<1>6. CASE client' = [client EXCEPT !.stage = "following"] /\ follower' = Follower(LastSerial)
  <2>1. /\ client' \in ClientTypes
        /\ client'.stage = "following"
        /\ client'.serial = client.serial /\ client'.reloads = client.reloads
        /\ client'.data = client.data /\ client'.imported = client.imported /\ client'.torn = client.torn
    BY <1>6, <1>3 DEF ClientTypes
  <2>2. /\ follower' \in Followers /\ follower' # None
        /\ follower'.pc = "query" /\ follower'.after = LastSerial /\ follower'.batch = {}
    BY <1>3, <1>6, FollowerType DEF Follower
  <2>3. ClientInv'
    BY <1>2, <1>3, <2>1, <2>2 DEF ClientInv
  <2>4. sequence \in Nat /\ LastSerial <= sequence /\ LastSerial' = LastSerial
    BY <1>3, <2>1 DEF TypeInv, DatabaseTypes, ClientInv, LastSerial
  <2>5. FollowerInv'
    BY <1>2, <1>3, <2>1, <2>2, <2>4 DEF FollowerInv, BatchInv
  <2>6. Ahead' = Ahead
    BY <1>2, <1>4, <2>2 DEF Ahead
  <2>7. Running' => Running
    BY <1>1, <1>4, <2>1 DEF Running, HasCopy
  <2>8. CopyInv'
    BY <1>2, <1>3, <2>1, <2>6, <2>7 DEF CopyInv, SameCopy
  <2> QED
    BY <1>2, <2>1, <2>2, <2>3, <2>5, <2>8, ClientStep
<1>7. AfterGlobalSerial(LastSerial) = LastSerial
  BY <1>3, StreamAssumption DEF AfterGlobalSerial
<1> QED
  BY <1>5, <1>6, <1>7 DEF OnReceive

\* Without a serial, the follower starts from the last entry, and the client from the
\* objects as they are.
LEMMA OnReceiveWithoutSerialSafe ==
    ASSUME StreamSafe, OnReceiveWithoutSerial
    PROVE  StreamSafe'
<1>1. /\ client.stage = "connected" /\ client.imported = 0
      /\ client' = [client EXCEPT !.stage = "following", !.data = rows, !.reloads = reloads]
      /\ follower' = [Follower(AfterGlobalSerial(None)) EXCEPT
                         !.pc = IF MaxSerialGlobal = None THEN "ended" ELSE "query"]
  BY DEF OnReceiveWithoutSerial
<1>2. Client /\ UNCHANGED <<rows, journal, sequence, reloads>>
  BY DatabaseKept DEF Client, StreamSafe
<1>3. /\ TypeInv /\ client \in ClientTypes /\ DatabaseTypes /\ JournalInv /\ ClientInv
      /\ rows \in Copies /\ reloads \in [SourceSet -> Nat]
  BY DEF StreamSafe, TypeInv, DatabaseTypes
<1>4. MaxSerialGlobal # None => MaxSerialGlobal \in Nat /\ MaxSerialGlobal <= sequence
  BY <1>3, MaxSerialType
<1>5. /\ client' \in ClientTypes
      /\ client'.stage = "following" /\ client'.serial = client.serial /\ client'.reloads = reloads
      /\ client'.data = rows /\ client'.imported = 0
  BY <1>1, <1>3 DEF ClientTypes
<1>6. /\ follower' \in Followers /\ follower' # None
      /\ follower'.pc = IF MaxSerialGlobal = None THEN "ended" ELSE "query"
      /\ follower'.after = MaxSerialGlobal /\ follower'.batch = {}
  <2>1. AfterGlobalSerial(None) = MaxSerialGlobal /\ MaxSerialGlobal \in Nat \union {None}
    BY <1>4 DEF AfterGlobalSerial
  <2>2. follower' = [pc |-> IF MaxSerialGlobal = None THEN "ended" ELSE "query",
                     after |-> MaxSerialGlobal, batch |-> {}, lastId |-> None, block |-> 0]
    BY <1>1, <2>1 DEF Follower
  <2>3. follower' \in Followers
    BY <2>1, <2>2 DEF Followers
  <2> QED
    BY <2>2, <2>3, MarkerAssumption
<1>7. ClientInv'
  BY <1>2, <1>3, <1>5, <1>6 DEF ClientInv
<1>8. FollowerInv'
  BY <1>2, <1>4, <1>5, <1>6 DEF FollowerInv, BatchInv
<1>9. CopyInv'
  <2> SUFFICES ASSUME Running', NEW o \in Objects PROVE Leads(Ahead', rows, rows, o)
    BY <1>2, <1>5 DEF CopyInv
  <2>1. MaxSerialGlobal # None
    BY <1>6 DEF Running
  <2>2. Ahead' = Beyond(MaxSerialGlobal)
    BY <1>2, <1>6 DEF Ahead, Beyond
  <2> QED
    BY <1>3, <1>4, <2>1, <2>2, BeyondLeads
<1> QED
  BY <1>2, <1>5, <1>6, <1>7, <1>8, <1>9, ClientStep

\* A client that goes away has processed what it got. What it will ask for then has all
\* that it has not got, unless an entry with a lower serial is left in the result.
LEMMA DisconnectedSafe ==
    ASSUME StreamSafe, Leave \/ OnDisconnect
    PROVE  StreamSafe'
<1>1. /\ follower' = None
      /\ client' = [client EXCEPT !.stage = "none", !.torn = @ \/ Torn]
      /\ client.stage \in {"connected", "following"}
  BY DEF Leave, OnDisconnect, Disconnected, StreamSafe, ClientInv
<1>2. (Client \/ OnDisconnect) /\ UNCHANGED <<rows, journal, sequence, reloads>>
  BY DatabaseKept DEF Client, StreamSafe
<1>3. TypeInv /\ client \in ClientTypes /\ DatabaseTypes /\ JournalInv /\ ClientInv /\ LastSerial \in Nat
  BY LastSerialType DEF StreamSafe, TypeInv
<1>4. /\ client' \in ClientTypes
      /\ client'.stage = "none" /\ client'.serial = client.serial /\ client'.reloads = client.reloads
      /\ client'.data = client.data /\ client'.imported = client.imported
      /\ client'.torn = (client.torn \/ Torn)
  BY <1>1, <1>3 DEF ClientTypes
<1>5. ClientInv' /\ FollowerInv'
  BY <1>1, <1>2, <1>3, <1>4 DEF ClientInv, FollowerInv
<1>6. CopyInv'
  <2> SUFFICES ASSUME Running', NEW o \in Objects, SameCopy(o)
               PROVE  Leads(Ahead', rows, client.data, o)
    BY <1>2, <1>4 DEF CopyInv, SameCopy
  <2>1. client.imported # 0 /\ ~client.torn /\ ~Torn
    BY <1>1, <1>4 DEF Running, HasCopy
  <2>2. Ahead' = Beyond(LastSerial)
    BY <1>1, <1>2, <1>4 DEF Ahead, Beyond, LastSerial
  <2>3. Running
    BY <1>1, <2>1 DEF Running, HasCopy, StreamSafe, FollowerInv
  <2>4. Leads(Ahead, rows, client.data, o)
    BY <2>3 DEF StreamSafe, CopyInv
  <2>5. \A e \in Ahead : SameCopy(e.obj) => e \in Beyond(LastSerial)
    <3>1. CASE follower = None
      BY <3>1, AheadIs
    <3>2. CASE follower # None
      <4>1. BatchInv /\ follower.batch \subseteq Entries
        BY <2>3, <3>2 DEF StreamSafe, FollowerInv, Running, TypeInv, Followers
      <4>2. \A e \in follower.batch : e.glob \in Nat /\ e.glob > LastSerial
        BY <1>3, <2>1, <3>2, <4>1 DEF Torn, BatchInv, Entries
      <4>3. \A e \in journal : e.glob > follower.after => e.glob > LastSerial
        BY <1>3, <2>1, <4>1, EntryType DEF BatchInv
      <4> QED
        BY <3>2, <4>1, <4>2, <4>3 DEF Ahead, Beyond, BatchInv
    <3> QED
      BY <3>1, <3>2
  <2> QED
    BY <1>3, <2>2, <2>4, <2>5, BeyondLeads DEF Leads
<1> QED
  BY <1>1, <1>2, <1>4, <1>5, <1>6, ClientStep

-----------------------------------------------------------------------------
(* The follower *)

\* What is known when the follower does anything.
LEMMA FollowFacts ==
    ASSUME StreamSafe, Follow
    PROVE  /\ follower # None /\ follower \in Followers /\ follower.pc # "ended" /\ BatchInv
           /\ client \in ClientTypes /\ client.stage = "following"
           /\ UNCHANGED <<rows, journal, sequence, reloads>>
           /\ TypeInv /\ DatabaseTypes /\ JournalInv /\ ClientInv
<1>1. follower # None /\ follower.pc \in {"query", "send", "wait"}
  BY DEF Follow, QueryJournal, SendEntry, GetEntries, ReadEvents, ReadTimesOut
<1>2. TypeInv /\ DatabaseTypes /\ JournalInv /\ ClientInv /\ FollowerInv
  BY DEF StreamSafe, TypeInv
<1>3. follower \in Followers /\ client \in ClientTypes /\ client.stage = "following"
  BY <1>1, <1>2 DEF TypeInv, ClientInv
<1>4. follower.pc # "ended" /\ BatchInv
  BY <1>1, <1>2 DEF FollowerInv
<1>5. UNCHANGED <<rows, journal, sequence, reloads>>
  BY <1>2, DatabaseKept
<1> QED
  BY <1>1, <1>2, <1>3, <1>4, <1>5

\* The follower goes on without a result that is under way.
LEMMA IdleSafe ==
    ASSUME StreamSafe, Follow, follower.batch = {},
           follower' \in Followers, follower' # None, follower'.pc \in {"query", "wait"},
           follower'.after = follower.after, follower'.batch = {},
           client' \in ClientTypes,
           \E b \in BOOLEAN : client' = [client EXCEPT !.noticed = b]
    PROVE  StreamSafe'
<1>1. /\ client'.stage = client.stage /\ client'.serial = client.serial
      /\ client'.reloads = client.reloads /\ client'.data = client.data
      /\ client'.imported = client.imported /\ client'.torn = client.torn
  BY FollowFacts DEF ClientTypes
<1>2. ClientInv' /\ LastSerial' = LastSerial
  BY <1>1, FollowFacts DEF ClientInv, LastSerial
<1>3. FollowerInv'
  BY <1>1, <1>2, FollowFacts DEF FollowerInv, BatchInv
<1>4. Ahead' = Ahead
  BY FollowFacts DEF Ahead
<1>5. CopyInv'
  BY <1>1, <1>4, FollowFacts DEF StreamSafe, CopyInv, Running, HasCopy, SameCopy
<1> QED
  BY <1>2, <1>3, <1>5, ClientStep

\* The result has what lay ahead, and nothing more lies ahead yet.
LEMMA QueryJournalSafe ==
    ASSUME StreamSafe, QueryJournal
    PROVE  StreamSafe'
<1>1. /\ follower.pc = "query" /\ UNCHANGED client
      /\ follower' = [follower EXCEPT !.pc = "send", !.batch = {e \in journal : e.glob > follower.after}]
  BY DEF QueryJournal
<1>2. Follow
  BY DEF Follow
<1> DEFINE B == Beyond(follower.after)
<1>3. B \subseteq Entries /\ B \subseteq journal /\ \A e \in B : e.glob \in Nat /\ e.glob > follower.after
  BY <1>2, FollowFacts, EntryType DEF Beyond, DatabaseTypes
<1>4. /\ follower' \in Followers /\ follower' # None
      /\ follower'.pc = "send" /\ follower'.batch = B /\ follower'.after = follower.after
  <2>1. follower' = [follower EXCEPT !.pc = "send", !.batch = B]
    BY <1>1 DEF Beyond
  <2> HIDE DEF B
  <2>2. /\ follower' \in Followers
        /\ follower'.pc = "send" /\ follower'.batch = B /\ follower'.after = follower.after
    BY <2>1, <1>2, <1>3, FollowFacts DEF Followers
  <2> QED
    BY <2>2, MarkerAssumption
<1> HIDE DEF B
<1>5. follower.batch = {} /\ follower.after \in Nat /\ follower.after <= sequence
  BY <1>1, <1>2, FollowFacts DEF BatchInv
<1>6. ClientInv'
  BY <1>1, <1>2, FollowFacts DEF ClientInv
<1>7. FollowerInv'
  <2>1. \A e \in B : e.glob <= sequence /\ e.source = SourceOf[e.obj]
    BY <1>2, <1>3, FollowFacts DEF JournalInv
  <2>2. \A e, f \in B : e.glob = f.glob => e = f
    BY <1>2, <1>3, FollowFacts DEF JournalInv
  <2>3. client.imported # 0 => LastSerial <= follower.after /\ \A e \in B : e.glob # LastSerial
    <3>1. client.imported # 0 => LastSerial <= follower.after
      BY <1>2, FollowFacts DEF BatchInv
    <3>2. LastSerial \in Nat
      BY <1>2, FollowFacts, LastSerialType
    <3> QED
      BY <1>3, <1>5, <3>1, <3>2
  <2>4. LastSerial' = LastSerial
    BY <1>1 DEF LastSerial
  <2> QED
    BY <1>1, <1>2, <1>3, <1>4, <1>5, <2>1, <2>2, <2>3, <2>4, FollowFacts DEF FollowerInv, BatchInv
<1>8. CopyInv'
  <2>1. Ahead = B
    BY <1>2, <1>5, AheadIs, FollowFacts DEF B
  <2>2. Ahead' = B \union {e \in journal : e.glob > follower.after /\ \A f \in B : f.glob < e.glob}
    BY <1>2, <1>4, FollowFacts DEF Ahead
  <2>3. \A e \in journal : e.glob > follower.after => e \in B /\ ~(e.glob < e.glob)
    BY <1>2, FollowFacts, EntryType DEF B, Beyond
  <2>4. Ahead' = Ahead
    BY <2>1, <2>2, <2>3
  <2>5. Running' => Running
    BY <1>1, <1>2, FollowFacts DEF Running, HasCopy
  <2> QED
    BY <1>1, <1>2, <2>4, <2>5, FollowFacts DEF StreamSafe, CopyInv, SameCopy
<1>9. client' \in ClientTypes
  BY <1>1, <1>2, FollowFacts
<1> QED
  BY <1>2, <1>4, <1>6, <1>7, <1>8, <1>9, ClientStep

LEMMA WaitSafe ==
    ASSUME StreamSafe, GetEntries \/ ReadEvents \/ ReadTimesOut
    PROVE  StreamSafe'
<1>1. Follow
  BY DEF Follow
<1>2. follower \in Followers /\ client \in ClientTypes
  BY <1>1, FollowFacts
<1>3. CASE GetEntries
  <2>1. /\ follower.batch = {} /\ UNCHANGED client
        /\ follower' = [follower EXCEPT !.pc = "wait",
                           !.block = IF follower.lastId = None THEN Len(stream) ELSE follower.lastId]
    BY <1>3 DEF GetEntries
  <2>2. (IF follower.lastId = None THEN Len(stream) ELSE follower.lastId) \in Nat
    BY <1>1, <1>2, FollowFacts DEF Followers, DatabaseTypes
  <2>3. /\ follower' \in Followers /\ follower'.pc = "wait"
        /\ follower'.after = follower.after /\ follower'.batch = {}
    BY <1>2, <2>1, <2>2 DEF Followers
  <2>4. \E b \in BOOLEAN : client' = [client EXCEPT !.noticed = b]
    BY <1>2, <2>1 DEF ClientTypes
  <2> QED
    BY <1>1, <1>2, <2>1, <2>3, <2>4, IdleSafe, MarkerAssumption
<1>4. CASE ReadEvents
  <2> DEFINE seen == client.noticed \/ \E i \in NewEvents : stream[i].operation = "full_reload"
  <2>1. /\ follower.pc = "wait" /\ NewEvents # {}
        /\ follower' = [follower EXCEPT !.pc = "query", !.lastId = Max(NewEvents)]
        /\ client' = [client EXCEPT !.noticed = seen]
    BY <1>4 DEF ReadEvents
  <2>2. Max(NewEvents) \in Nat /\ seen \in BOOLEAN /\ follower.batch = {}
    BY <1>1, <2>1, FollowFacts, NewEventsType DEF BatchInv
  <2> HIDE DEF seen
  <2>3. /\ follower' \in Followers /\ follower'.pc = "query"
        /\ follower'.after = follower.after /\ follower'.batch = {}
    BY <1>2, <2>1, <2>2 DEF Followers
  <2>4. client' \in ClientTypes
    BY <1>2, <2>1, <2>2 DEF ClientTypes
  <2> QED
    BY <1>1, <2>1, <2>2, <2>3, <2>4, IdleSafe, MarkerAssumption
<1>5. CASE ReadTimesOut
  <2>1. /\ follower.pc = "wait" /\ UNCHANGED client
        /\ follower' = [follower EXCEPT !.pc = "query"]
    BY <1>5 DEF ReadTimesOut, AfterTimeout
  <2>2. follower.batch = {}
    BY <1>1, <2>1, FollowFacts DEF BatchInv
  <2>3. /\ follower' \in Followers /\ follower'.pc = "query"
        /\ follower'.after = follower.after /\ follower'.batch = {}
    BY <1>2, <2>1, <2>2 DEF Followers
  <2>4. \E b \in BOOLEAN : client' = [client EXCEPT !.noticed = b]
    BY <1>2, <2>1 DEF ClientTypes
  <2> QED
    BY <1>1, <1>2, <2>1, <2>2, <2>3, <2>4, IdleSafe, MarkerAssumption
<1> QED
  BY <1>3, <1>4, <1>5

\* The query sorts the entries of one source by their numbers.
LEMMA PrecedesSource ==
    ASSUME NEW e \in Entries, NEW f \in Entries, e.source = f.source, Precedes(e, f)
    PROVE  e.glob < f.glob
<1> DEFINE rank == CHOOSE i \in DOMAIN Sources : Sources[i] = e.source
<1>1. e.source \in Range(Sources)
  BY DEF Entries, SourceSet
<1>2. \E i \in DOMAIN Sources : Sources[i] = e.source
  BY <1>1 DEF Range
<1>3. rank \in DOMAIN Sources
  BY <1>2
<1>4. DOMAIN Sources \subseteq Nat
  BY StreamAssumption
<1>5. rank \in Nat
  BY <1>3, <1>4
<1>6. rank < rank \/ e.glob < f.glob
  BY DEF Precedes
<1> HIDE DEF rank
<1> QED
  BY <1>5, <1>6

\* An entry that is sent is the first one about its object of all that lie ahead. What
\* lies ahead after that is the rest of it.
LEMMA SendEntrySafe ==
    ASSUME StreamSafe, SendEntry
    PROVE  StreamSafe'
<1>1. PICK e \in follower.batch :
        /\ \A f \in follower.batch \ {e} : Precedes(e, f)
        /\ follower' = [follower EXCEPT !.batch = @ \ {e}, !.after = Max({@, e.glob})]
        /\ client' = [client EXCEPT !.data[e.obj] = e.text, !.serial = e.glob]
  BY DEF SendEntry
<1>2. follower.pc = "send" /\ Follow
  BY DEF SendEntry, Follow
<1>3. /\ follower \in Followers /\ client \in ClientTypes /\ client.stage = "following"
      /\ BatchInv /\ sequence \in Nat /\ follower.batch \subseteq Entries
      /\ client.data \in Copies
      /\ ClientInv /\ UNCHANGED <<rows, journal, sequence, reloads>>
  BY <1>2, FollowFacts DEF DatabaseTypes, Followers, ClientTypes
<1>4. /\ e \in Entries /\ e.glob \in Nat /\ e.obj \in Objects /\ e.text \in Texts \union {None}
      /\ e.glob <= sequence /\ follower.after \in Nat /\ follower.after <= sequence
  BY <1>3 DEF Entries, BatchInv
<1> DEFINE after == Max({follower.after, e.glob})
           data == [client.data EXCEPT ![e.obj] = e.text]
<1>5. after \in Nat /\ follower.after <= after /\ e.glob <= after /\ after \in {follower.after, e.glob}
  BY <1>4, MaxOfTwo
<1>6. data \in Copies
  BY <1>3, <1>4 DEF Copies
<1>7. /\ follower' = [follower EXCEPT !.batch = follower.batch \ {e}, !.after = after]
      /\ client' = [client EXCEPT !.data = data, !.serial = e.glob]
  BY <1>1, <1>3 DEF Followers, ClientTypes
<1> HIDE DEF after, data
<1>8. /\ follower' \in Followers /\ follower' # None
      /\ follower'.pc = "send" /\ follower'.batch = follower.batch \ {e} /\ follower'.after = after
  <2>1. /\ follower' \in Followers
        /\ follower'.pc = "send" /\ follower'.batch = follower.batch \ {e} /\ follower'.after = after
    BY <1>2, <1>3, <1>5, <1>7 DEF Followers
  <2> QED
    BY <2>1, MarkerAssumption
<1>9. /\ client' \in ClientTypes
      /\ client'.stage = "following" /\ client'.serial = e.glob /\ client'.reloads = client.reloads
      /\ client'.data = data /\ client'.imported = client.imported /\ client'.torn = client.torn
  BY <1>3, <1>4, <1>6, <1>7 DEF ClientTypes
<1>10. ClientInv'
  BY <1>3, <1>4, <1>8, <1>9 DEF ClientInv
<1>11. LastSerial' = e.glob
  BY <1>4, <1>9, StreamAssumption DEF LastSerial
<1>12. FollowerInv'
  <2>1. after <= sequence
    BY <1>4, <1>5
  <2>2. \A f \in follower.batch \ {e} : f.glob # e.glob
    BY <1>3 DEF BatchInv
  <2> QED
    BY <1>3, <1>5, <1>8, <1>9, <1>11, <2>1, <2>2 DEF FollowerInv, BatchInv, SameCopy
<1>13. CopyInv'
  <2> SUFFICES ASSUME Running', NEW o \in Objects, SameCopy(o)
               PROVE  Leads(Ahead', rows, data, o)
    BY <1>3, <1>9 DEF CopyInv, SameCopy
  <2>1. Running
    BY <1>2, <1>3, <1>8, <1>9 DEF Running, HasCopy
  <2>2. /\ Leads(Ahead, rows, client.data, o)
        /\ \A f \in Ahead : f.glob \in Nat
        /\ \A f, g \in Ahead : f.glob = g.glob => f = g
    BY <2>1, AheadType DEF StreamSafe, CopyInv
  <2>3. /\ Ahead = follower.batch \union
                     {f \in journal : f.glob > follower.after /\ \A g \in follower.batch : g.glob < f.glob}
        /\ Ahead' = (follower.batch \ {e}) \union
                     {f \in journal : f.glob > after /\ \A g \in follower.batch \ {e} : g.glob < f.glob}
    BY <1>2, <1>3, <1>8, FollowFacts DEF Ahead
  <2>4. \A f \in journal : f.glob \in Nat
    BY <1>2, FollowFacts, EntryType
  <2>5. \A f \in journal : f.glob > after <=> f.glob > follower.after /\ f.glob > e.glob
    BY <1>4, <1>5, <2>4
  <2>6. Ahead' = Ahead \ {e}
    <3>1. ASSUME NEW f \in Ahead' PROVE f \in Ahead /\ f # e
      <4>1. CASE f \in follower.batch \ {e}
        BY <2>3, <4>1
      <4>2. CASE f \in journal /\ f.glob > after /\ \A g \in follower.batch \ {e} : g.glob < f.glob
        BY <1>4, <2>3, <2>4, <2>5, <4>2
      <4> QED
        BY <2>3, <4>1, <4>2
    <3>2. ASSUME NEW f \in Ahead, f # e PROVE f \in Ahead'
      BY <1>1, <2>3, <2>5, <3>2
    <3> QED
      BY <1>1, <2>3, <3>1, <3>2
  <2>7. CASE o # e.obj
    <3>1. data[o] = client.data[o]
      BY <1>3, <1>4, <2>7 DEF data, Copies
    <3> QED
      BY <2>2, <2>6, <2>7, <3>1 DEF Leads
  <2>8. CASE o = e.obj
    <3>1. data[o] = e.text
      BY <1>3, <1>4, <2>8 DEF data, Copies
    <3>2. e \in Ahead
      BY <2>3
    <3>3. PICK g \in Ahead : g.obj = o /\ g.text = rows[o] /\ \A f \in Ahead : f.obj = o => f.glob <= g.glob
      BY <2>2, <2>8, <3>2 DEF Leads
    <3>4. CASE g = e
      <4>1. ASSUME NEW f \in Ahead, f.obj = o, f # e PROVE FALSE
        <5>1. f.glob < e.glob
          BY <1>4, <2>2, <3>2, <3>3, <3>4, <4>1
        <5>2. f \in follower.batch
          BY <1>1, <1>4, <2>2, <2>3, <4>1, <5>1
        <5>3. e.source = SourceOf[o] /\ f.source = SourceOf[o]
          BY <1>3, <2>8, <4>1, <5>2 DEF BatchInv
        <5>4. Precedes(e, f) /\ f \in Entries
          BY <1>1, <1>3, <4>1, <5>2
        <5>5. e.glob < f.glob
          BY <1>4, <5>3, <5>4, PrecedesSource
        <5> QED
          BY <1>4, <2>2, <4>1, <5>1, <5>5
      <4>2. \A f \in Ahead' : f.obj # o
        BY <2>6, <4>1
      <4> QED
        BY <3>1, <3>3, <3>4, <4>2 DEF Leads
    <3>5. CASE g # e
      BY <2>6, <3>3, <3>5 DEF Leads
    <3> QED
      BY <3>4, <3>5
  <2> QED
    BY <2>7, <2>8
<1> QED
  BY <1>2, <1>8, <1>9, <1>10, <1>12, <1>13, ClientStep

-----------------------------------------------------------------------------

LEMMA StreamSafeInit == Init => StreamSafe
<1> SUFFICES ASSUME Init PROVE StreamSafe
  OBVIOUS
<1>1. DatabaseTypes
  BY DEF Init, DatabaseTypes, Copies
<1>2. /\ client = [stage |-> "none", data |-> [o \in Objects |-> None], serial |-> None, imported |-> 0,
                   reloads |-> [s \in SourceSet |-> 0], noticed |-> FALSE, torn |-> FALSE]
      /\ follower = None /\ journal = {} /\ reloads = [s \in SourceSet |-> 0] /\ rows \in Copies
  BY DEF Init, Copies
<1>3. TypeInv
  BY <1>1, <1>2 DEF TypeInv, ClientTypes, Copies
<1>4. JournalInv
  BY <1>2 DEF JournalInv, Leads
<1>5. ClientInv /\ FollowerInv
  BY <1>2 DEF ClientInv, FollowerInv
<1>6. CopyInv
  BY <1>2 DEF CopyInv, Running, HasCopy
<1> QED
  BY <1>3, <1>4, <1>5, <1>6 DEF StreamSafe

LEMMA StreamSafeNext == StreamSafe /\ [Next]_vars => StreamSafe'
<1> SUFFICES ASSUME StreamSafe, [Next]_vars PROVE StreamSafe'
  OBVIOUS
<1>1. CASE Transactions
  BY <1>1, TransactionsSafe
<1>2. CASE Follow
  BY <1>2, QueryJournalSafe, SendEntrySafe, WaitSafe DEF Follow
<1>3. CASE Client \/ OnDisconnect
  BY <1>3, HeaderSafe, RowsSafe, OnConnectSafe, OnReceiveSafe, OnReceiveWithoutSerialSafe, DisconnectedSafe
  DEF Client
<1>4. CASE UNCHANGED vars
  <2>1. UNCHANGED <<rows, journal, sequence, reloads, importing, clock, unpublished, stream, client, follower>>
    BY <1>4 DEF vars, databaseVars, streamVars
  <2>2. DatabaseTypes'
    BY <2>1 DEF StreamSafe, TypeInv, DatabaseTypes
  <2> QED
    BY <2>1, <2>2, NothingChanged
<1> QED
  BY <1>1, <1>2, <1>3, <1>4 DEF Next

\* The client's copy and what its follower or its next one will send lead to the
\* objects of every source that was not reloaded since, whatever transactions commit
\* meanwhile and wherever connections are lost (event_stream.py).
THEOREM StreamInvariant == Spec => []StreamSafe
  BY StreamSafeInit, StreamSafeNext, PTL DEF Spec

\* A client misses no change, for any number of sources, objects, transactions, imports
\* and lost connections.
THEOREM ClientsMissNothing == Spec => []StreamMissesNothing
<1>1. StreamSafe => StreamMissesNothing
  <2> SUFFICES ASSUME StreamSafe, Running, NEW o \in Objects, SameCopy(o)
               PROVE  Followed[o] = rows[o]
    BY DEF StreamMissesNothing, Running
  <2>1. Leads(Ahead, rows, client.data, o)
    BY DEF StreamSafe, CopyInv
  <2>2. /\ \A e \in Ahead : e.glob \in Nat
        /\ \A e, f \in Ahead : e.glob = f.glob => e = f
    BY AheadType
  <2>3. CASE About(Ahead, o) = {}
    <3>1. \A e \in Ahead : e.obj # o
      BY <2>3 DEF About
    <3> QED
      BY <2>1, <2>3, <3>1 DEF Leads, Followed
  <2>4. CASE About(Ahead, o) # {}
    <3>1. PICK g \in Ahead : g.obj = o /\ g.text = rows[o] /\ \A f \in Ahead : f.obj = o => f.glob <= g.glob
      BY <2>1, <2>4 DEF Leads, About
    <3>2. g \in About(Ahead, o) /\ \A f \in About(Ahead, o) : f \in Ahead /\ f.glob <= g.glob
      BY <3>1 DEF About
    <3>3. Latest(About(Ahead, o)) \in About(Ahead, o)
          /\ \A f \in About(Ahead, o) : f.glob <= Latest(About(Ahead, o)).glob
      BY <3>2 DEF Latest
    <3>4. Latest(About(Ahead, o)) = g
      BY <2>2, <3>2, <3>3
    <3> QED
      BY <2>4, <3>1, <3>4 DEF Followed
  <2> QED
    BY <2>3, <2>4
<1> QED
  BY <1>1, StreamInvariant, PTL
=============================================================================
