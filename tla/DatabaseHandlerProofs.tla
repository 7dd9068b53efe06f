----------------------- MODULE DatabaseHandlerProofs -----------------------
(***************************************************************************)
(* Theorems about DatabaseHandler, for any number of handlers, sources,    *)
(* objects and texts, and any length of the journal. Types, the journal    *)
(* lock and serial_global come first and need no assumption. The theorems  *)
(* about the journal after that are for databases without route object     *)
(* preference: the status row of a source covers its journal, the journal  *)
(* implements JournalLog, serials are not reused, and a mirror that        *)
(* follows the journal holds what queries show. The evaluation of route    *)
(* preference records entries after the status rows are written, and       *)
(* without the journal lock for sources that keep no journal, so that none *)
(* of them holds with it in general.                                       *)
(***************************************************************************)
EXTENDS DatabaseHandler, TLAPS, WellFoundedInduction

\* A set of naturals that is not empty has a least element.
LEMMA MinExists ==
    ASSUME NEW S, S \subseteq Nat, S # {}
    PROVE  Min(S) \in S /\ \A x \in S : Min(S) <= x
<1>1. PICK m \in S : \A y \in S : <<y, m>> \notin OpToRel(<, Nat)
  BY NatLessThanWellFounded, WFMin
<1>2. \A y \in S : ~(y < m)
  BY <1>1 DEF OpToRel
<1>3. \A y \in S : m =< y
  BY <1>2
<1> QED
  BY <1>3 DEF Min

\* A set of naturals that is not empty and has an upper bound has a greatest
\* element.
LEMMA MaxExists ==
    ASSUME NEW S, S \subseteq Nat, S # {}, NEW b \in Nat, \A x \in S : x <= b
    PROVE  Max(S) \in S /\ \A x \in S : x <= Max(S)
<1> DEFINE T == {b - x : x \in S}
<1>0. \A x \in S : x \in Nat /\ b - x \in Nat
  OBVIOUS
<1>1. T \subseteq Nat /\ T # {}
  BY <1>0
<1>2. Min(T) \in T /\ \A y \in T : Min(T) <= y
  BY <1>1, MinExists
<1>3. PICK m \in S : Min(T) = b - m
  BY <1>2
<1>4. \A x \in S : b - m <= b - x
  BY <1>2, <1>3
<1>5. \A x \in S : m >= x
  BY <1>4
<1> QED
  BY <1>5 DEF Max

-----------------------------------------------------------------------------
(* Type correctness. The status row and the next serial are minima and     *)
(* maxima of sets of serials, so that their types need a bound on serials. *)

\* All serials in the journal, committed or not, have an upper bound.
Bounded ==
    \E b \in Nat :
        /\ \A e \in journal : e.serial <= b
        /\ \A h \in Handlers : \A e \in inserts[h] : e.serial <= b
        /\ \A h \in Handlers, s \in Sources : \A n \in newSerials[h][s] : n <= b

\* Entries of an open transaction took their serial_global from the sequence.
FromSequence == \A h \in Handlers : \A e \in inserts[h] : e.glob <= sequence

TypeInv == TypeOK /\ Bounded /\ FromSequence

\* What a statement of a handler sees of the tables has the type of the tables.
LEMMA ViewTypes ==
    ASSUME TypeOK, NEW h \in Handlers
    PROVE  /\ JournalView(h) \subseteq Entry
           /\ \A o \in Objects : RowView(h, o) \in Row \union {None}
           /\ \A s \in Sources : StatusView(h, s) \in Status
<1>1. JournalView(h) \subseteq Entry
  BY DEF TypeOK, JournalView
<1>2. \A o \in Objects : RowView(h, o) \in Row \union {None}
  BY MarkerAssumption DEF TypeOK, RowView
<1>3. \A s \in Sources : StatusView(h, s) \in Status
  BY DEF TypeOK, StatusView
<1> QED
  BY <1>1, <1>2, <1>3

\* The greatest serial of a source, as one handler sees the journal.
LEMMA JournalMax ==
    ASSUME TypeInv, NEW h \in Handlers, NEW s \in Sources,
           Serials(JournalView(h), s) # {}
    PROVE  /\ Serials(JournalView(h), s) \subseteq Nat
           /\ Max(Serials(JournalView(h), s)) \in Serials(JournalView(h), s)
           /\ \A n \in Serials(JournalView(h), s) : n <= Max(Serials(JournalView(h), s))
<1>1. Serials(JournalView(h), s) \subseteq Nat
  BY ViewTypes DEF TypeInv, Serials, EntriesOf, Entry
<1>2. PICK b \in Nat : /\ \A e \in journal : e.serial <= b
                       /\ \A e \in inserts[h] : e.serial <= b
  BY DEF TypeInv, Bounded
<1>3. \A n \in Serials(JournalView(h), s) : n <= b
  BY <1>2 DEF Serials, EntriesOf, JournalView
<1> QED
  BY <1>1, <1>3, MaxExists

\* The greatest serial a transaction has recorded for a source.
LEMMA NewSerialsMax ==
    ASSUME TypeInv, NEW h \in Handlers, NEW s \in Sources, newSerials[h][s] # {}
    PROVE  /\ newSerials[h][s] \subseteq Nat
           /\ Max(newSerials[h][s]) \in newSerials[h][s]
           /\ \A n \in newSerials[h][s] : n <= Max(newSerials[h][s])
<1>1. newSerials[h][s] \subseteq Nat
  BY DEF TypeInv, TypeOK
<1>2. PICK b \in Nat : \A n \in newSerials[h][s] : n <= b
  BY DEF TypeInv, Bounded
<1> QED
  BY <1>1, <1>2, MaxExists

\* The serial record_operation() computes is a natural number: whenever it takes
\* a MAX, there is one.
LEMMA NextSerialType ==
    ASSUME TypeInv, NEW h \in Handlers, NEW s \in Sources, NEW n \in Nat
    PROVE  NextSerial(h, s, n) \in Nat
<1>1. StatusView(h, s).newestSeen \in Nat
  BY ViewTypes DEF TypeInv, Status
<1>2. newSerials[h][s] # {} => Max(newSerials[h][s]) \in Nat
  BY NewSerialsMax
<1>3. Serials(JournalView(h), s) # {} => Max(Serials(JournalView(h), s)) \in Nat
  BY JournalMax
<1> QED
  BY <1>1, <1>2, <1>3 DEF NextSerial

\* LEAST and GREATEST of three serials, as finalise_transaction() uses them.
LEMMA LeastGreatestType ==
    ASSUME NEW a \in Nat, NEW b \in Nat, NEW c \in Nat
    PROVE  OrZero({a, b, c} \ {0}, Min) \in Nat /\ Max({a, b, c}) \in Nat
<1>1. \A x \in {a, b, c} : x \in Nat /\ x <= a + b + c
  OBVIOUS
<1>2. Max({a, b, c}) \in {a, b, c}
  BY <1>1, MaxExists
<1>3. {a, b, c} \ {0} # {} => Min({a, b, c} \ {0}) \in Nat
  BY MinExists
<1> QED
  BY <1>2, <1>3 DEF OrZero

\* finalise_transaction() writes a row of the status table.
LEMMA FinalisedStatusType ==
    ASSUME TypeInv, NEW h \in Handlers, NEW s \in Sources
    PROVE  FinalisedStatus(h, s) \in Status
<1> DEFINE row == [StatusView(h, s) EXCEPT !.exists = TRUE, !.force = FALSE]
           oldest == OrZero(JournalRange(h, s), Min)
           newest == OrZero(JournalRange(h, s), Max)
<1>1. row \in Status
  BY ViewTypes DEF TypeInv, Status
<1>2. oldest \in Nat /\ newest \in Nat
  <2>1. CASE JournalRange(h, s) = {}
    BY <2>1 DEF OrZero
  <2>2. CASE JournalRange(h, s) # {}
    BY <2>2, JournalMax, MinExists DEF OrZero, JournalRange
  <2> QED
    BY <2>1, <2>2
<1>3. CASE newSerials[h][s] = {}
  BY <1>1, <1>3 DEF FinalisedStatus
<1>4. CASE newSerials[h][s] # {}
  <2>1. Min(newSerials[h][s]) \in Nat /\ Max(newSerials[h][s]) \in Nat
    BY <1>4, NewSerialsMax, MinExists
  <2>2. row.oldestSeen \in Nat /\ row.newestSeen \in Nat
    BY <1>1 DEF Status
  <2>3. /\ OrZero({row.oldestSeen, oldest, Min(newSerials[h][s])} \ {0}, Min) \in Nat
        /\ Max({row.newestSeen, newest, Max(newSerials[h][s])}) \in Nat
    <3> HIDE DEF row, oldest, newest
    <3> QED
      BY <1>2, <2>1, <2>2, LeastGreatestType
  <2> QED
    BY <1>1, <1>2, <1>4, <2>3 DEF FinalisedStatus, Status
<1> QED
  BY <1>3, <1>4

\* The empty database and handlers that have just started satisfy TypeInv.
THEOREM TypeInit == Init => TypeInv
<1> SUFFICES ASSUME Init PROVE TypeInv
  OBVIOUS
<1>1. TypeOK
  BY DEF Init, TypeOK, Status, NoStatus, Stages, NoRowWrites, NoStatusWrites, NoSerials
<1>2. Bounded
  <2>1. 0 \in Nat
    OBVIOUS
  <2> QED
    BY <2>1 DEF Init, Bounded, NoSerials
<1>3. FromSequence
  BY DEF Init, FromSequence
<1> QED
  BY <1>1, <1>2, <1>3 DEF TypeInv

\* Everything but the serials: actions that add none.
LEMMA NoNewSerials ==
    ASSUME TypeInv, TypeOK',
           UNCHANGED <<journal, sequence, inserts, newSerials>>
    PROVE  TypeInv'
BY DEF TypeInv, Bounded, FromSequence

\* upsert_rpsl_object(), delete_rpsl_object(), the flush of the buffer and
\* record_operation() keep TypeInv.
LEMMA ChangeType ==
    ASSUME TypeInv, NEW h \in Handlers, Change(h)
    PROVE  TypeInv'
<1> USE DEF TypeInv
<1>1. ASSUME NEW o \in Objects, NEW t \in Texts, NEW n \in SerialFor(SourceOf[o]),
             UpsertRpslObject(h, o, t, n)
      PROVE  TypeInv'
  <2>1. n \in Nat
    BY SourceOfAssumption, SettingsAssumption DEF SerialFor
  <2>2. TypeOK'
    BY <1>1, <2>1 DEF TypeOK, UpsertRpslObject, databaseVars, ghostVars, BufferItem, Stages
  <2> QED
    BY <1>1, <2>2, NoNewSerials DEF UpsertRpslObject, databaseVars
<1>2. ASSUME NEW o \in Objects, NEW n \in SerialFor(SourceOf[o]), DeleteRpslObject(h, o, n)
      PROVE  TypeInv'
  <2>1. n \in Nat
    BY SourceOfAssumption, SettingsAssumption DEF SerialFor
  <2>2. RowView(h, o).text \in Texts
    BY <1>2, ViewTypes DEF DeleteRpslObject, Row
  <2>3. TypeOK'
    BY <1>2, <2>1, <2>2 DEF TypeOK, DeleteRpslObject, ReturningText, databaseVars, ghostVars,
       Operation, Stages
  <2> QED
    BY <1>2, <2>3, NoNewSerials DEF DeleteRpslObject, databaseVars
<1>3. CASE FlushRpslObjectWritingBuffer(h)
  <2>1. \A o \in Objects : (\E b \in buffer[h] : b.obj = o) =>
            [text |-> (CHOOSE b \in buffer[h] : b.obj = o).text, preferred |-> TRUE] \in Row
    BY DEF TypeOK, Row, BufferItem
  <2>2. rowWrites' \in [Handlers -> [Objects -> Row \union {None, Untouched}]]
    BY <1>3, <2>1 DEF TypeOK, FlushRpslObjectWritingBuffer
  <2>3. pending' \in [Handlers -> SUBSET Operation]
    <3>1. \A b \in buffer[h] :
             [op |-> "ADD", obj |-> b.obj, text |-> b.text, serial |-> b.serial] \in Operation
      BY DEF TypeOK, BufferItem, Operation
    <3> QED
      BY <1>3, <3>1 DEF TypeOK, FlushRpslObjectWritingBuffer, VisibleBuffered
  <2>4. TypeOK'
    BY <1>3, <2>2, <2>3 DEF TypeOK, FlushRpslObjectWritingBuffer, databaseVars, ghostVars
  <2> QED
    BY <1>3, <2>4, NoNewSerials DEF FlushRpslObjectWritingBuffer, databaseVars
<1>4. ASSUME NEW i \in pending[h], RecordOperation(h, i)
      PROVE  TypeInv'
  <2> DEFINE s == SourceOf[i.obj]
             n == NextSerial(h, s, i.serial)
             new == [source |-> s, serial |-> n, glob |-> sequence + 1, op |-> i.op,
                     obj |-> i.obj, text |-> i.text]
  <2>1. i \in Operation /\ s \in Sources /\ n \in Nat
    <3>1. i \in Operation
      BY DEF TypeOK
    <3>2. s \in Sources
      BY <3>1, SourceOfAssumption DEF Operation
    <3> QED
      BY <3>1, <3>2, NextSerialType DEF Operation
  <2>2. CASE ~(journaling[h] /\ s \in KeepJournal)
    <3>1. TypeOK'
      BY <1>4, <2>1, <2>2 DEF TypeOK, RecordOperation, ghostVars
    <3> QED
      BY <1>4, <2>2, <3>1, NoNewSerials DEF RecordOperation
  <2>3. CASE journaling[h] /\ s \in KeepJournal
    <3>1. InsertEntry(h, i)
      BY <1>4, <2>3 DEF RecordOperation
    <3>2. new \in Entry
      BY <2>1 DEF Entry, Operation, TypeOK
    <3>3. /\ inserts' = [inserts EXCEPT ![h] = @ \union {new}]
          /\ newSerials' = [newSerials EXCEPT ![h][s] = @ \union {n}]
          /\ sequence' = sequence + 1
          /\ journal' = journal
          /\ tableLock' = [tableLock EXCEPT ![h] = "exclusive"]
      BY <1>4, <3>1 DEF InsertEntry, RecordOperation
    <3>4. TypeOK'
      <4> HIDE DEF new, n, s
      <4>1. inserts' \in [Handlers -> SUBSET Entry]
        BY <3>2, <3>3 DEF TypeOK
      <4>2. newSerials' \in [Handlers -> [Sources -> SUBSET Nat]]
        BY <2>1, <3>3 DEF TypeOK
      <4>3. seen' \in [Handlers -> SUBSET Sources] /\ pending' \in [Handlers -> SUBSET Operation]
        BY <1>4, <2>1 DEF TypeOK, RecordOperation, s
      <4> QED
        BY <1>4, <3>3, <4>1, <4>2, <4>3 DEF TypeOK, RecordOperation, ghostVars
    <3>5. Bounded'
      <4>1. PICK b \in Nat :
               /\ \A e \in journal : e.serial <= b
               /\ \A g \in Handlers : \A e \in inserts[g] : e.serial <= b
               /\ \A g \in Handlers, t \in Sources : \A k \in newSerials[g][t] : k <= b
        BY DEF Bounded
      <4> DEFINE c == b + n
      <4>2. c \in Nat /\ b <= c /\ n <= c
        BY <2>1
      <4>3. new.serial = n
        OBVIOUS
      <4> HIDE DEF c, n, s, new
      <4>4. \A e \in journal' : e.serial <= c
        <5> TAKE e \in journal'
        <5>1. e.serial \in Nat /\ e.serial <= b
          BY <3>3, <4>1 DEF TypeOK, Entry
        <5> QED
          BY <4>1, <4>2, <5>1
      <4>5. \A g \in Handlers : \A e \in inserts'[g] : e.serial <= c
        <5> TAKE g \in Handlers
        <5> TAKE e \in inserts'[g]
        <5>1. e \in inserts[g] \/ e = new
          BY <3>3 DEF TypeOK
        <5>2. CASE e \in inserts[g]
          <6>1. e.serial \in Nat /\ e.serial <= b
            BY <5>2, <4>1 DEF TypeOK, Entry
          <6> QED
            BY <4>1, <4>2, <6>1
        <5> QED
          BY <5>1, <5>2, <4>2, <4>3
      <4>6. \A g \in Handlers, t \in Sources : \A k \in newSerials'[g][t] : k <= c
        <5> TAKE g \in Handlers, t \in Sources
        <5> TAKE k \in newSerials'[g][t]
        <5>1. k \in newSerials[g][t] \/ k = n
          BY <2>1, <3>3 DEF TypeOK
        <5>2. CASE k \in newSerials[g][t]
          <6>1. k \in Nat /\ k <= b
            BY <5>2, <4>1 DEF TypeOK
          <6> QED
            BY <4>1, <4>2, <6>1
        <5> QED
          BY <5>1, <5>2, <4>2
      <4> QED
        BY <4>2, <4>4, <4>5, <4>6 DEF Bounded
    <3>6. FromSequence'
      <4>1. sequence \in Nat /\ new.glob = sequence + 1
        BY DEF TypeOK
      <4> HIDE DEF new
      <4> SUFFICES ASSUME NEW g \in Handlers, NEW e \in inserts'[g]
                   PROVE  e.glob <= sequence'
        BY DEF FromSequence
      <4>2. e \in inserts[g] \/ e = new
        BY <3>3 DEF TypeOK
      <4>3. CASE e \in inserts[g]
        <5>1. e.glob \in Nat /\ e.glob <= sequence
          BY <4>3 DEF TypeOK, Entry, FromSequence
        <5> QED
          BY <3>3, <4>1, <5>1
      <4> QED
        BY <3>3, <4>1, <4>2, <4>3
    <3> QED
      BY <3>4, <3>5, <3>6
  <2> QED
    BY <2>2, <2>3
<1> QED
  BY <1>1, <1>2, <1>3, <1>4 DEF Change

\* Reloads, the records of the status row, expiry and force_reload keep TypeInv.
LEMMA AdministerType ==
    ASSUME TypeInv, NEW h \in Handlers, Administer(h)
    PROVE  TypeInv'
<1> USE DEF TypeInv
<1>1. ASSUME NEW s \in Sources, DeleteAllRpslObjects(h, s)
      PROVE  TypeInv'
  <2>1. TypeOK'
    BY <1>1 DEF TypeOK, DeleteAllRpslObjects, databaseVars, ghostVars, Stages
  <2> QED
    BY <1>1, <2>1, NoNewSerials DEF DeleteAllRpslObjects, databaseVars
<1>2. CASE DeleteAllJournalEntries(h)
  <2>1. PICK s \in wiped[h] :
          /\ deletes' = [deletes EXCEPT ![h] = EntriesOf(journal, s)]
          /\ statusWrites' = IF status[s].exists
                             THEN [statusWrites EXCEPT ![h][s] = NoStatus]
                             ELSE statusWrites
    BY <1>2 DEF DeleteAllJournalEntries
  <2>2. s \in Sources /\ NoStatus \in Status
    BY DEF TypeOK, NoStatus, Status
  <2>3. deletes' \in [Handlers -> SUBSET Entry]
    BY <2>1 DEF TypeOK, EntriesOf
  <2>4. statusWrites' \in [Handlers -> [Sources -> Status \union {Untouched}]]
    BY <2>1, <2>2 DEF TypeOK
  <2>5. TypeOK'
    BY <1>2, <2>3, <2>4 DEF TypeOK, DeleteAllJournalEntries, databaseVars, ghostVars, Stages
  <2> QED
    BY <1>2, <2>5, NoNewSerials DEF DeleteAllJournalEntries, databaseVars
<1>3. CASE EnableJournaling(h)
  <2>1. TypeOK'
    BY <1>3 DEF TypeOK, EnableJournaling, databaseVars, ghostVars, Stages
  <2> QED
    BY <1>3, <2>1, NoNewSerials DEF EnableJournaling, databaseVars
<1>4. ASSUME NEW s \in Sources, NEW n \in SourceSerials, RecordSerialSeen(h, s, n)
      PROVE  TypeInv'
  <2>1. n \in Nat
    BY SettingsAssumption
  <2>2. TypeOK'
    BY <1>4, <2>1 DEF TypeOK, RecordSerialSeen, databaseVars, ghostVars
  <2>3. Bounded'
    <3>1. PICK b \in Nat :
             /\ \A e \in journal : e.serial <= b
             /\ \A g \in Handlers : \A e \in inserts[g] : e.serial <= b
             /\ \A g \in Handlers, t \in Sources : \A k \in newSerials[g][t] : k <= b
      BY DEF Bounded
    <3> DEFINE c == b + n
    <3>2. c \in Nat /\ n <= c /\ \A k \in Nat : k <= b => k <= c
      BY <2>1
    <3> HIDE DEF c
    <3>3. journal' = journal /\ inserts' = inserts
      BY <1>4 DEF RecordSerialSeen, databaseVars
    <3>4. \A e \in journal' : e.serial <= c
      BY <3>1, <3>2, <3>3 DEF TypeOK, Entry
    <3>5. \A g \in Handlers : \A e \in inserts'[g] : e.serial <= c
      <4>1. \A g \in Handlers : \A e \in inserts[g] : e.serial \in Nat
        BY DEF TypeOK, Entry
      <4> QED
        BY <3>1, <3>2, <3>3, <4>1
    <3>6. \A g \in Handlers, t \in Sources : \A k \in newSerials'[g][t] : k <= c
      <4> TAKE g \in Handlers, t \in Sources
      <4> TAKE k \in newSerials'[g][t]
      <4>1. k \in newSerials[g][t] \/ k = n
        BY <1>4 DEF RecordSerialSeen, TypeOK
      <4> QED
        BY <3>1, <3>2, <4>1 DEF TypeOK
    <3> QED
      BY <3>2, <3>4, <3>5, <3>6 DEF Bounded
  <2>4. FromSequence'
    BY <1>4 DEF FromSequence, RecordSerialSeen, databaseVars
  <2> QED
    BY <2>2, <2>3, <2>4
<1>5. ASSUME NEW s \in Sources, RecordStatus(h, s)
      PROVE  TypeInv'
  <2>1. TypeOK'
    BY <1>5 DEF TypeOK, RecordStatus, databaseVars, ghostVars, Stages
  <2> QED
    BY <1>5, <2>1, NoNewSerials DEF RecordStatus, databaseVars
<1>6. ASSUME NEW s \in Sources, NEW g \in {e.glob : e \in journal},
             DeleteJournalEntriesBeforeDate(h, s, g)
      PROVE  TypeInv'
  <2>1. TypeOK'
    BY <1>6 DEF TypeOK, DeleteJournalEntriesBeforeDate, Expired, EntriesOf, databaseVars,
       ghostVars, Stages
  <2> QED
    BY <1>6, <2>1, NoNewSerials DEF DeleteJournalEntriesBeforeDate, databaseVars
<1>7. ASSUME NEW s \in Sources, SetForceReload(h, s)
      PROVE  TypeInv'
  <2>0. status[s] \in Status
    BY DEF TypeOK
  <2>1. [status[s] EXCEPT !.force = TRUE, !.oldestSeen = 0, !.newestSeen = 0] \in Status
    BY <2>0 DEF Status
  <2>2. TypeOK'
    BY <1>7, <2>1 DEF TypeOK, SetForceReload, databaseVars, ghostVars, Stages
  <2> QED
    BY <1>7, <2>2, NoNewSerials DEF SetForceReload, databaseVars
<1> QED
  BY <1>1, <1>2, <1>3, <1>4, <1>5, <1>6, <1>7 DEF Administer

\* What a commit leaves of the types: the database, the overlay and the observers.
LEMMA CommitType ==
    ASSUME TypeInv, NEW h \in Handlers, CommitTransaction(h)
    PROVE  /\ rows' \in [Objects -> Row \union {None}]
           /\ journal' \subseteq Entry
           /\ status' \in [Sources -> Status]
           /\ sequence' \in Nat
           /\ rowWrites' \in [Handlers -> [Objects -> Row \union {None, Untouched}]]
           /\ inserts' \in [Handlers -> SUBSET Entry]
           /\ deletes' \in [Handlers -> SUBSET Entry]
           /\ statusWrites' \in [Handlers -> [Sources -> Status \union {Untouched}]]
           /\ tableLock' \in [Handlers -> {"none", "rowExclusive", "exclusive"}]
           /\ wiped' \in [Handlers -> SUBSET Sources]
           /\ mirror' \in [Objects -> Texts \union {None}]
           /\ highest' \in [Sources -> Nat]
           /\ FromSequence'
           /\ \E b \in Nat :
                 /\ \A e \in journal' : e.serial <= b
                 /\ \A g \in Handlers : \A e \in inserts'[g] : e.serial <= b
                 /\ \A g \in Handlers, s \in Sources : \A n \in newSerials[g][s] : n <= b
<1> USE DEF TypeInv
<1>1. rows' \in [Objects -> Row \union {None}]
  BY ViewTypes DEF CommitTransaction
<1>2. journal' \subseteq Entry /\ status' \in [Sources -> Status] /\ sequence' \in Nat
  BY ViewTypes DEF CommitTransaction, TypeOK
<1>3. /\ rowWrites' \in [Handlers -> [Objects -> Row \union {None, Untouched}]]
      /\ statusWrites' \in [Handlers -> [Sources -> Status \union {Untouched}]]
  BY DEF CommitTransaction, TypeOK, NoRowWrites, NoStatusWrites
<1>4. /\ inserts' \in [Handlers -> SUBSET Entry]
      /\ deletes' \in [Handlers -> SUBSET Entry]
      /\ tableLock' \in [Handlers -> {"none", "rowExclusive", "exclusive"}]
      /\ wiped' \in [Handlers -> SUBSET Sources]
  BY DEF CommitTransaction, TypeOK
<1>5. mirror' \in [Objects -> Texts \union {None}]
  <2> SUFFICES ASSUME NEW o \in Objects
               PROVE  MirrorAfter(h)[o] \in Texts \union {None}
    BY DEF CommitTransaction, MirrorAfter
  <2> DEFINE E == {e \in inserts[h] : e.obj = o}
             last == CHOOSE e \in E : \A f \in E : f.glob <= e.glob
  <2>1. E # {} => last \in E
    <3> SUFFICES ASSUME E # {} PROVE \E e \in E : \A f \in E : f.glob <= e.glob
      OBVIOUS
    <3> DEFINE G == {e.glob : e \in E}
    <3>1. G \subseteq Nat /\ G # {} /\ \A x \in G : x <= sequence
      BY DEF TypeOK, Entry, FromSequence
    <3>2. Max(G) \in G /\ \A x \in G : x <= Max(G)
      <4> HIDE DEF G
      <4> QED
        BY <3>1, MaxExists DEF TypeOK
    <3>3. PICK e \in E : e.glob = Max(G)
      BY <3>2
    <3> QED
      BY <3>2, <3>3
  <2>2. E # {} => last.text \in Texts
    <3> HIDE DEF last
    <3> QED
      BY <2>1 DEF TypeOK, Entry
  <2>3. ObjectIsVisible(o, RowView(h, o)) => RowView(h, o).text \in Texts
    BY ViewTypes DEF ObjectIsVisible, Row
  <2>4. mirror[o] \in Texts \union {None}
    BY DEF TypeOK
  <2> QED
    BY <2>2, <2>3, <2>4 DEF MirrorAfter
<1>6. highest' \in [Sources -> Nat]
  <2> SUFFICES ASSUME NEW s \in Sources
               PROVE  Max(Serials(inserts[h], s) \union {HighestKept(h, s)}) \in Nat
    BY DEF CommitTransaction
  <2> DEFINE base == HighestKept(h, s)
             S == Serials(inserts[h], s) \union {base}
  <2>1. base \in Nat
    BY DEF TypeOK, HighestKept
  <2>2. PICK b \in Nat : \A e \in inserts[h] : e.serial <= b
    BY DEF Bounded
  <2> HIDE DEF base
  <2>3. S \subseteq Nat /\ S # {}
    BY <2>1 DEF Serials, EntriesOf, TypeOK, Entry
  <2>4. \A n \in Serials(inserts[h], s) : n \in Nat /\ n <= b
    BY <2>2 DEF Serials, EntriesOf, TypeOK, Entry
  <2>5. \A n \in S : n <= b + base
    BY <2>1, <2>2, <2>4
  <2>6. b + base \in Nat
    BY <2>1, <2>2
  <2>7. Max(S) \in Nat
    <3> HIDE DEF S
    <3> QED
      BY <2>3, <2>5, <2>6, MaxExists
  <2> QED
    BY <2>7 DEF base
<1>7. FromSequence'
  BY DEF CommitTransaction, FromSequence, TypeOK
<1>8. \E b \in Nat :
         /\ \A e \in journal' : e.serial <= b
         /\ \A g \in Handlers : \A e \in inserts'[g] : e.serial <= b
         /\ \A g \in Handlers, s \in Sources : \A n \in newSerials[g][s] : n <= b
  <2>1. PICK b \in Nat :
           /\ \A e \in journal : e.serial <= b
           /\ \A g \in Handlers : \A e \in inserts[g] : e.serial <= b
           /\ \A g \in Handlers, s \in Sources : \A n \in newSerials[g][s] : n <= b
    BY DEF Bounded
  <2>2. \A e \in journal' : e.serial <= b
    BY <2>1 DEF CommitTransaction, JournalView
  <2>3. \A g \in Handlers : \A e \in inserts'[g] : e.serial <= b
    BY <2>1 DEF CommitTransaction, TypeOK
  <2> QED
    BY <2>1, <2>2, <2>3
<1> QED
  BY <1>1, <1>2, <1>3, <1>4, <1>5, <1>6, <1>7, <1>8

\* validate_known_routes() returns changes of known objects.
LEMMA FlipsType ==
    ASSUME NEW h, NEW filter
    PROVE  ValidateKnownRoutes(h, filter) \subseteq Flip
<1> DEFINE routes == RoutesOverlapping(h, filter)
<1>1. \A x : EvaluateRoute(x, routes) \in BOOLEAN
  BY DEF EvaluateRoute
<1>2. routes \subseteq Objects
  BY DEF RoutesOverlapping
<1> HIDE DEF routes
<1>3. \A x \in routes : [obj |-> x, visible |-> EvaluateRoute(x, routes)] \in Flip
  BY <1>1, <1>2 DEF Flip
<1> QED
  BY <1>3 DEF ValidateKnownRoutes, routes

\* Every step of commit(), of the route preference runner and of rollback() keeps
\* TypeInv.
LEMMA FinishType ==
    ASSUME TypeInv, NEW h \in Handlers, Finish(h)
    PROVE  TypeInv'
<1> USE DEF TypeInv
<1>1. CASE FinaliseTransaction(h)
  <2>1. statusWrites' \in [Handlers -> [Sources -> Status \union {Untouched}]]
    BY <1>1, FinalisedStatusType DEF FinaliseTransaction, TypeOK
  <2>2. TypeOK'
    BY <1>1, <2>1 DEF TypeOK, FinaliseTransaction, databaseVars, ghostVars, Stages
  <2> QED
    BY <1>1, <2>2, NoNewSerials DEF FinaliseTransaction, databaseVars
<1>2. CASE IntermediateCommit(h)
  <2>1. CommitTransaction(h)
    BY <1>2 DEF IntermediateCommit
  <2>2. TypeOK'
    BY <1>2, <2>1, CommitType DEF TypeOK, IntermediateCommit, Stages
  <2>3. Bounded'
    BY <1>2, <2>1, CommitType DEF Bounded, IntermediateCommit
  <2> QED
    BY <2>1, <2>2, <2>3, CommitType
<1>3. CASE PreCommit(h)
  <2>1. ValidateKnownRoutes(h, changed[h]) \subseteq Flip
    BY FlipsType
  <2>2. flips' \in [Handlers -> SUBSET Flip] /\ stage' \in [Handlers -> Stages]
    <3>1. CASE changed[h] # {} /\ PreferenceEnabled
      <4>1. /\ flips' = [flips EXCEPT ![h] = ValidateKnownRoutes(h, changed[h])]
            /\ stage' = [stage EXCEPT ![h] = "enrich"]
        BY <1>3, <3>1, Zenon DEF PreCommit
      <4> QED
        BY <2>1, <4>1 DEF TypeOK, Stages
    <3>2. CASE ~(changed[h] # {} /\ PreferenceEnabled)
      <4>1. flips' = flips /\ stage' = [stage EXCEPT ![h] = "commit"]
        BY <1>3, <3>2, Zenon DEF PreCommit
      <4> QED
        BY <4>1 DEF TypeOK, Stages
    <3> QED
      BY <3>1, <3>2
  <2>3. TypeOK'
    BY <1>3, <2>2 DEF TypeOK, PreCommit, databaseVars, ghostVars
  <2> QED
    BY <1>3, <2>3, NoNewSerials DEF PreCommit, databaseVars
<1>4. CASE RoutePreferenceUpdateRunner(h)
  <2>1. ValidateKnownRoutes(h, Objects) \subseteq Flip
    BY FlipsType
  <2>2. TypeOK'
    BY <1>4, <2>1 DEF TypeOK, RoutePreferenceUpdateRunner, databaseVars, ghostVars, Stages
  <2> QED
    BY <1>4, <2>2, NoNewSerials DEF RoutePreferenceUpdateRunner, databaseVars
<1>5. CASE EnrichPks(h)
  <2>1. \A f \in flips[h] : RowView(h, f.obj) # None =>
           [op |-> FlipOperation(f), obj |-> f.obj, text |-> RowView(h, f.obj).text,
            serial |-> 0] \in Operation
    BY ViewTypes DEF TypeOK, Flip, Operation, FlipOperation, Row
  <2>2. pending' \in [Handlers -> SUBSET Operation]
    BY <1>5, <2>1 DEF TypeOK, EnrichPks
  <2>3. flips' \in [Handlers -> SUBSET Flip]
    BY <1>5 DEF TypeOK, EnrichPks
  <2>4. TypeOK'
    BY <1>5, <2>2, <2>3 DEF TypeOK, EnrichPks, databaseVars, ghostVars, Stages
  <2> QED
    BY <1>5, <2>4, NoNewSerials DEF EnrichPks, databaseVars
<1>6. CASE UpdateRoutePreferenceStatus(h)
  <2>1. \A o \in Objects : RowView(h, o) # None /\ (\E f \in flips[h] : f.obj = o) =>
           [RowView(h, o) EXCEPT
               !.preferred = (CHOOSE f \in flips[h] : f.obj = o).visible] \in Row
    <3> TAKE o \in Objects
    <3> HAVE RowView(h, o) # None /\ \E f \in flips[h] : f.obj = o
    <3>1. (CHOOSE f \in flips[h] : f.obj = o).visible \in BOOLEAN
      BY DEF TypeOK, Flip
    <3>2. RowView(h, o) \in Row
      BY ViewTypes
    <3> QED
      BY <3>1, <3>2 DEF Row
  <2>2. rowWrites' \in [Handlers -> [Objects -> Row \union {None, Untouched}]]
    BY <1>6, <2>1 DEF TypeOK, UpdateRoutePreferenceStatus
  <2>3. TypeOK'
    BY <1>6, <2>2 DEF TypeOK, UpdateRoutePreferenceStatus, databaseVars, ghostVars, Stages
  <2> QED
    BY <1>6, <2>3, NoNewSerials DEF UpdateRoutePreferenceStatus, databaseVars
<1>7. CASE Commit(h)
  <2>1. CommitTransaction(h)
    BY <1>7 DEF Commit
  <2>2. TypeOK'
    BY <1>7, <2>1, CommitType DEF TypeOK, Commit, Reset, NoSerials, Stages
  <2>3. Bounded'
    <3>1. \A g \in Handlers, s \in Sources : newSerials'[g][s] \subseteq newSerials[g][s]
      BY <1>7 DEF Commit, Reset, NoSerials, TypeOK
    <3> QED
      BY <2>1, <3>1, CommitType DEF Bounded
  <2> QED
    BY <2>1, <2>2, <2>3, CommitType
<1>8. CASE Rollback(h)
  <2>1. TypeOK'
    BY <1>8 DEF TypeOK, Rollback, Reset, NoRowWrites, NoStatusWrites, NoSerials, Stages,
       databaseVars, ghostVars
  <2>2. /\ journal' = journal /\ sequence' = sequence
        /\ \A g \in Handlers : inserts'[g] \subseteq inserts[g]
        /\ \A g \in Handlers, s \in Sources : newSerials'[g][s] \subseteq newSerials[g][s]
    BY <1>8 DEF Rollback, Reset, NoSerials, TypeOK, databaseVars
  <2>3. Bounded' /\ FromSequence'
    BY <2>2 DEF Bounded, FromSequence
  <2> QED
    BY <2>1, <2>3
<1> QED
  BY <1>1, <1>2, <1>3, <1>4, <1>5, <1>6, <1>7, <1>8 DEF Finish

\* The types, a bound on the serials each set can hold and serial_global numbers
\* that come from the sequence are together an inductive invariant of all
\* transactions of DatabaseHandler.
THEOREM TypeInvariant == Spec => []TypeInv
<1>1. TypeInv /\ [Next]_vars => TypeInv'
  <2> SUFFICES ASSUME TypeInv, [Next]_vars PROVE TypeInv'
    OBVIOUS
  <2>1. CASE Next
    BY <2>1, ChangeType, AdministerType, FinishType DEF Next
  <2>2. CASE UNCHANGED vars
    BY <2>2 DEF TypeInv, TypeOK, Bounded, FromSequence, vars, databaseVars, txVars, ghostVars
  <2> QED
    BY <2>1, <2>2
<1> QED
  BY TypeInit, <1>1, PTL DEF Spec

\* Every variable of the handlers and of the database keeps its type; in
\* particular NextSerial always finds a greatest serial and the status row only
\* gets serials.
THEOREM TypeCorrect == Spec => []TypeOK
BY TypeInvariant, PTL DEF TypeInv

-----------------------------------------------------------------------------
(* The journal lock. What makes serial_global appear in order is that only *)
(* one transaction at a time has journal entries to commit, and that all   *)
(* of them are newer than every committed entry.                           *)

\* A transaction that has not done anything but the deletion of rows.
Fresh(h) ==
    /\ inserts[h] = {} /\ deletes[h] = {} /\ pending[h] = {}
    /\ tableLock[h] = "none" /\ journaling[h]
    /\ newSerials[h] = NoSerials
    /\ statusWrites[h] = NoStatusWrites

FreshInv == \A h \in Handlers : stage[h] \in {"idle", "wipe"} => Fresh(h)

ExclusionInv ==
    /\ \A h, g \in Handlers :
          h # g /\ tableLock[h] = "exclusive" => tableLock[g] = "none"
    /\ \A h \in Handlers : inserts[h] # {} => tableLock[h] = "exclusive"
    /\ \A h \in Handlers : deletes[h] # {} => tableLock[h] # "none"

NewestInv ==
    /\ \A e \in journal : e.glob <= sequence
    /\ \A h \in Handlers : \A e \in inserts[h], f \in journal : f.glob < e.glob

\* What a transaction deletes is what is oldest, and is deleted by no other.
OldestInv ==
    /\ \A h, g \in Handlers : h # g => deletes[h] \intersect deletes[g] = {}
    /\ \A h \in Handlers : \A d \in deletes[h], e \in journal :
          e.source = d.source /\ e.glob <= d.glob => e \in deletes[h]

LockInv == FreshInv /\ ExclusionInv /\ NewestInv /\ OldestInv

\* A step of one handler leaves the transactions of all others alone.
Frame(h) ==
    \A g \in Handlers \ {h} :
        /\ stage'[g] = stage[g] /\ journaling'[g] = journaling[g]
        /\ pending'[g] = pending[g] /\ seen'[g] = seen[g] /\ wiped'[g] = wiped[g]
        /\ inserts'[g] = inserts[g] /\ deletes'[g] = deletes[g]
        /\ tableLock'[g] = tableLock[g] /\ newSerials'[g] = newSerials[g]
        /\ statusWrites'[g] = statusWrites[g]
        /\ buffer'[g] = buffer[g] /\ rowWrites'[g] = rowWrites[g]

\* A step of one handler leaves the transactions of the others alone.
LEMMA FrameStep ==
    ASSUME TypeOK, NEW h \in Handlers, Change(h) \/ Administer(h) \/ Finish(h)
    PROVE  Frame(h)
<1> USE DEF TypeOK, Frame
<1>1. ASSUME NEW o, NEW t, NEW n, UpsertRpslObject(h, o, t, n) PROVE Frame(h)
  BY <1>1 DEF UpsertRpslObject
<1>2. ASSUME NEW o, NEW n, DeleteRpslObject(h, o, n) PROVE Frame(h)
  BY <1>2 DEF DeleteRpslObject
<1>3. CASE FlushRpslObjectWritingBuffer(h)
  BY <1>3 DEF FlushRpslObjectWritingBuffer
<1>4. ASSUME NEW i, RecordOperation(h, i) PROVE Frame(h)
  <2>1. CASE journaling[h] /\ SourceOf[i.obj] \in KeepJournal
    BY <1>4, <2>1 DEF RecordOperation, InsertEntry
  <2>2. CASE ~(journaling[h] /\ SourceOf[i.obj] \in KeepJournal)
    BY <1>4, <2>2 DEF RecordOperation
  <2> QED
    BY <2>1, <2>2
<1>5. ASSUME NEW s, DeleteAllRpslObjects(h, s) PROVE Frame(h)
  BY <1>5 DEF DeleteAllRpslObjects
<1>6. CASE DeleteAllJournalEntries(h)
  BY <1>6 DEF DeleteAllJournalEntries
<1>7. CASE EnableJournaling(h)
  BY <1>7 DEF EnableJournaling
<1>8. ASSUME NEW s, NEW n, RecordSerialSeen(h, s, n) PROVE Frame(h)
  BY <1>8 DEF RecordSerialSeen
<1>9. ASSUME NEW s, RecordStatus(h, s) PROVE Frame(h)
  BY <1>9 DEF RecordStatus
<1>10. ASSUME NEW s, NEW g, DeleteJournalEntriesBeforeDate(h, s, g) PROVE Frame(h)
  BY <1>10 DEF DeleteJournalEntriesBeforeDate
<1>11. ASSUME NEW s, SetForceReload(h, s) PROVE Frame(h)
  BY <1>11 DEF SetForceReload
<1>12. CASE FinaliseTransaction(h)
  BY <1>12 DEF FinaliseTransaction
<1>13. CASE IntermediateCommit(h)
  BY <1>13 DEF IntermediateCommit, CommitTransaction
<1>14. CASE PreCommit(h)
  <2>1. CASE changed[h] # {} /\ PreferenceEnabled
    <3>1. stage' = [stage EXCEPT ![h] = "enrich"]
      BY <1>14, <2>1, Zenon DEF PreCommit
    <3> QED
      BY <1>14, <3>1 DEF PreCommit
  <2>2. CASE ~(changed[h] # {} /\ PreferenceEnabled)
    <3>1. stage' = [stage EXCEPT ![h] = "commit"]
      BY <1>14, <2>2, Zenon DEF PreCommit
    <3> QED
      BY <1>14, <3>1 DEF PreCommit
  <2> QED
    BY <2>1, <2>2
<1>15. CASE RoutePreferenceUpdateRunner(h)
  BY <1>15 DEF RoutePreferenceUpdateRunner
<1>16. CASE EnrichPks(h)
  BY <1>16 DEF EnrichPks
<1>17. CASE UpdateRoutePreferenceStatus(h)
  BY <1>17 DEF UpdateRoutePreferenceStatus
<1>18. CASE Commit(h)
  BY <1>18 DEF Commit, CommitTransaction, Reset
<1>19. CASE Rollback(h)
  BY <1>19 DEF Rollback, Reset
<1> HIDE DEF TypeOK, Frame
<1> QED
  BY <1>1, <1>2, <1>3, <1>4, <1>5, <1>6, <1>7, <1>8, <1>9, <1>10, <1>11, <1>12, <1>13, <1>14,
     <1>15, <1>16, <1>17, <1>18, <1>19 DEF Change, Administer, Finish

\* No transaction holds a lock or has journal entries at the start.
LEMMA LockInit == Init => LockInv
<1> SUFFICES ASSUME Init PROVE LockInv
  OBVIOUS
<1>1. FreshInv
  BY DEF Init, FreshInv, Fresh
<1>2. ExclusionInv
  BY DEF Init, ExclusionInv
<1>3. NewestInv /\ OldestInv
  BY DEF Init, NewestInv, OldestInv
<1> QED
  BY <1>1, <1>2, <1>3 DEF LockInv

\* Actions that touch neither the journal nor its lock.
Quiet(h) ==
    /\ UNCHANGED <<journal, sequence, inserts, deletes, tableLock>>
    /\ stage'[h] \in {"idle", "wipe"} => Fresh(h)'

\* A step that touches neither the journal nor its lock keeps LockInv.
LEMMA QuietLock ==
    ASSUME LockInv, NEW h \in Handlers, Frame(h), Quiet(h)
    PROVE  LockInv'
<1>1. FreshInv'
  BY DEF LockInv, FreshInv, Fresh, Frame, Quiet
<1>2. ExclusionInv'
  BY DEF LockInv, ExclusionInv, Quiet
<1>3. NewestInv'
  BY DEF LockInv, NewestInv, Quiet
<1>4. OldestInv'
  BY DEF LockInv, OldestInv, Quiet
<1> QED
  BY <1>1, <1>2, <1>3, <1>4 DEF LockInv

\* An operation is only recorded by a transaction that is past its beginning.
LEMMA RecordingStage ==
    ASSUME LockInv, NEW h \in Handlers, NEW i \in pending[h]
    PROVE  stage[h] \notin {"idle", "wipe"}
BY DEF LockInv, FreshInv, Fresh

\* record_operation() with an INSERT into the journal keeps LockInv: the new entry
\* is the newest one, and its transaction the only one with entries.
LEMMA InsertLock ==
    ASSUME TypeInv, LockInv, NEW h \in Handlers, NEW i \in pending[h],
           RecordOperation(h, i), Frame(h), journaling[h] /\ SourceOf[i.obj] \in KeepJournal
    PROVE  LockInv'
<1> USE DEF TypeInv
<1> DEFINE new == [source |-> SourceOf[i.obj],
                   serial |-> NextSerial(h, SourceOf[i.obj], i.serial),
                   glob |-> sequence + 1, op |-> i.op, obj |-> i.obj, text |-> i.text]
<1>1. /\ ExclusiveFree(h)
      /\ tableLock' = [tableLock EXCEPT ![h] = "exclusive"]
      /\ sequence' = sequence + 1
      /\ inserts' = [inserts EXCEPT ![h] = @ \union {new}]
      /\ journal' = journal /\ deletes' = deletes /\ stage' = stage
  BY DEF RecordOperation, InsertEntry
<1>2. new.glob = sequence + 1
  OBVIOUS
<1> HIDE DEF new
<1>3. FreshInv'
  BY <1>1, RecordingStage DEF LockInv, FreshInv, Fresh, Frame
<1>4. ExclusionInv'
  <2>1. \A g \in Handlers \ {h} : tableLock[g] = "none" /\ inserts[g] = {} /\ deletes[g] = {}
    BY <1>1 DEF ExclusiveFree, Others, LockInv, ExclusionInv
  <2>2. tableLock'[h] = "exclusive"
    BY <1>1 DEF TypeOK
  <2>3. \A g \in Handlers \ {h} : tableLock'[g] = "none" /\ inserts'[g] = {} /\ deletes'[g] = {}
    BY <2>1 DEF Frame
  <2> QED
    BY <2>2, <2>3 DEF ExclusionInv
<1>5. NewestInv'
  <2>1. \A e \in journal : e.glob \in Nat /\ e.glob <= sequence
    BY DEF LockInv, NewestInv, TypeOK, Entry
  <2>2. sequence \in Nat
    BY DEF TypeOK
  <2>3. \A e \in journal' : e.glob <= sequence'
    BY <1>1, <2>1, <2>2
  <2>4. ASSUME NEW g \in Handlers, NEW e \in inserts'[g], NEW f \in journal'
        PROVE  f.glob < e.glob
    <3>1. e \in inserts[g] \/ e = new
      BY <1>1 DEF TypeOK
    <3>2. CASE e \in inserts[g]
      BY <1>1, <3>2 DEF LockInv, NewestInv
    <3>3. CASE e = new
      BY <1>1, <1>2, <2>1, <2>2, <3>3
    <3> QED
      BY <3>1, <3>2, <3>3
  <2> QED
    BY <2>3, <2>4 DEF NewestInv
<1>6. OldestInv'
  BY <1>1 DEF LockInv, OldestInv
<1> QED
  BY <1>3, <1>4, <1>5, <1>6 DEF LockInv

\* A DELETE of the oldest entries of a source, under ROW EXCLUSIVE.
LEMMA DeleteLock ==
    ASSUME TypeInv, LockInv, NEW h \in Handlers, NEW D \in SUBSET journal, Frame(h),
           stage[h] \in {"idle", "wipe"}, stage'[h] \notin {"idle", "wipe"},
           DeleteFree(h, D),
           \A d \in D, e \in journal : e.source = d.source /\ e.glob <= d.glob => e \in D,
           deletes' = [deletes EXCEPT ![h] = D],
           tableLock' = [tableLock EXCEPT ![h] = "rowExclusive"],
           UNCHANGED <<journal, sequence, inserts>>
    PROVE  LockInv'
<1>1. inserts[h] = {} /\ tableLock'[h] = "rowExclusive" /\ deletes'[h] = D
  BY DEF LockInv, FreshInv, Fresh, TypeInv, TypeOK
<1>2. FreshInv'
  BY DEF LockInv, FreshInv, Fresh, Frame
<1>3. ExclusionInv'
  <2>1. \A g \in Handlers \ {h} : tableLock[g] # "exclusive"
    BY DEF DeleteFree, Others
  <2>2. \A g \in Handlers : tableLock'[g] # "exclusive" /\ inserts'[g] = {}
    BY <1>1, <2>1 DEF Frame, LockInv, ExclusionInv
  <2>3. \A g \in Handlers : deletes'[g] # {} => tableLock'[g] # "none"
    BY <1>1 DEF Frame, LockInv, ExclusionInv
  <2> QED
    BY <2>2, <2>3 DEF ExclusionInv
<1>4. NewestInv'
  BY DEF LockInv, NewestInv
<1>5. OldestInv'
  <2>1. ASSUME NEW f \in Handlers, NEW g \in Handlers, f # g
        PROVE  deletes'[f] \intersect deletes'[g] = {}
    <3>1. \A k \in Handlers \ {h} : deletes'[k] = deletes[k] /\ deletes[k] \intersect D = {}
      BY DEF Frame, DeleteFree, Others
    <3>2. CASE f = h
      BY <1>1, <2>1, <3>1, <3>2
    <3>3. CASE g = h
      BY <1>1, <2>1, <3>1, <3>3
    <3>4. CASE f # h /\ g # h
      BY <2>1, <3>1, <3>4 DEF LockInv, OldestInv
    <3> QED
      BY <3>2, <3>3, <3>4
  <2>2. ASSUME NEW g \in Handlers, NEW d \in deletes'[g], NEW e \in journal',
               e.source = d.source, e.glob <= d.glob
        PROVE  e \in deletes'[g]
    <3>1. CASE g = h
      BY <1>1, <2>2, <3>1
    <3>2. CASE g # h
      BY <2>2, <3>2 DEF Frame, LockInv, OldestInv
    <3> QED
      BY <3>1, <3>2
  <2> QED
    BY <2>1, <2>2 DEF OldestInv
<1> QED
  BY <1>2, <1>3, <1>4, <1>5 DEF LockInv

\* The end of a transaction, committed or not.
LEMMA EndLock ==
    ASSUME TypeInv, LockInv, NEW h \in Handlers, Frame(h),
           stage'[h] \in {"idle", "wipe"} => Fresh(h)',
           journal' \subseteq journal \union inserts[h],
           inserts' = [inserts EXCEPT ![h] = {}],
           deletes' = [deletes EXCEPT ![h] = {}],
           tableLock' = [tableLock EXCEPT ![h] = "none"],
           sequence' = sequence
    PROVE  LockInv'
<1>1. inserts'[h] = {} /\ deletes'[h] = {} /\ tableLock'[h] = "none"
  BY DEF TypeInv, TypeOK
<1>2. FreshInv'
  BY DEF LockInv, FreshInv, Fresh, Frame
<1>3. ExclusionInv'
  BY <1>1 DEF Frame, LockInv, ExclusionInv
<1>4. \A g \in Handlers \ {h} : inserts[g] # {} \/ deletes[g] # {} => inserts[h] = {}
  BY DEF LockInv, ExclusionInv
<1>5. NewestInv'
  <2>1. \A e \in journal' : e.glob <= sequence'
    BY DEF LockInv, NewestInv, TypeInv, FromSequence
  <2>2. \A g \in Handlers : \A e \in inserts'[g], f \in journal' : f.glob < e.glob
    BY <1>1, <1>4 DEF Frame, LockInv, NewestInv
  <2> QED
    BY <2>1, <2>2 DEF NewestInv
<1>6. OldestInv'
  <2>1. \A f, g \in Handlers : f # g => deletes'[f] \intersect deletes'[g] = {}
    BY <1>1 DEF Frame, LockInv, OldestInv
  <2>2. \A g \in Handlers : \A d \in deletes'[g], e \in journal' :
           e.source = d.source /\ e.glob <= d.glob => e \in deletes'[g]
    BY <1>1, <1>4 DEF Frame, LockInv, OldestInv
  <2> QED
    BY <2>1, <2>2 DEF OldestInv
<1> QED
  BY <1>2, <1>3, <1>5, <1>6 DEF LockInv

\* Only the entries of the committing transaction become visible.
LEMMA CommitJournal ==
    ASSUME NEW h, CommitTransaction(h)
    PROVE  /\ journal' \subseteq journal \union inserts[h]
           /\ inserts' = [inserts EXCEPT ![h] = {}]
           /\ deletes' = [deletes EXCEPT ![h] = {}]
           /\ tableLock' = [tableLock EXCEPT ![h] = "none"]
           /\ sequence' = sequence
BY DEF CommitTransaction, JournalView

\* LockInv is kept by every step of every handler.
LEMMA LockStep ==
    ASSUME TypeInv, LockInv, NEW h \in Handlers, Change(h) \/ Administer(h) \/ Finish(h)
    PROVE  LockInv'
<1>0. Frame(h) /\ TypeOK
  BY FrameStep DEF TypeInv
<1>1. ASSUME NEW o, NEW t, NEW n, UpsertRpslObject(h, o, t, n) PROVE LockInv'
  <2>1. Quiet(h)
    BY <1>0, <1>1 DEF UpsertRpslObject, databaseVars, Quiet, TypeOK
  <2> QED
    BY <1>0, <2>1, QuietLock
<1>2. ASSUME NEW o, NEW n, DeleteRpslObject(h, o, n) PROVE LockInv'
  <2>1. Quiet(h)
    BY <1>0, <1>2 DEF DeleteRpslObject, databaseVars, Quiet, TypeOK
  <2> QED
    BY <1>0, <2>1, QuietLock
<1>3. CASE FlushRpslObjectWritingBuffer(h)
  <2>1. Quiet(h)
    BY <1>0, <1>3 DEF FlushRpslObjectWritingBuffer, databaseVars, Quiet, TypeOK
  <2> QED
    BY <1>0, <2>1, QuietLock
<1>4. ASSUME NEW i \in pending[h], RecordOperation(h, i) PROVE LockInv'
  <2>1. CASE journaling[h] /\ SourceOf[i.obj] \in KeepJournal
    BY <1>0, <1>4, <2>1, InsertLock
  <2>2. CASE ~(journaling[h] /\ SourceOf[i.obj] \in KeepJournal)
    <3>1. Quiet(h)
      BY <1>0, <1>4, <2>2, RecordingStage DEF RecordOperation, Quiet, TypeOK
    <3> QED
      BY <1>0, <3>1, QuietLock
  <2> QED
    BY <2>1, <2>2
<1>5. ASSUME NEW s, DeleteAllRpslObjects(h, s) PROVE LockInv'
  <2>1. stage[h] = "idle"
    BY <1>5 DEF DeleteAllRpslObjects
  <2>2. Quiet(h)
    BY <1>0, <1>5, <2>1 DEF DeleteAllRpslObjects, databaseVars, Quiet, TypeOK, LockInv, FreshInv,
       Fresh
  <2> QED
    BY <1>0, <2>2, QuietLock
<1>6. CASE DeleteAllJournalEntries(h)
  <2>1. PICK s \in wiped[h] : /\ DeleteFree(h, EntriesOf(journal, s))
                              /\ deletes' = [deletes EXCEPT ![h] = EntriesOf(journal, s)]
    BY <1>6 DEF DeleteAllJournalEntries
  <2>2. /\ EntriesOf(journal, s) \in SUBSET journal
        /\ \A d \in EntriesOf(journal, s), e \in journal :
              e.source = d.source /\ e.glob <= d.glob => e \in EntriesOf(journal, s)
    BY DEF EntriesOf
  <2>3. /\ stage[h] \in {"idle", "wipe"} /\ stage'[h] \notin {"idle", "wipe"}
        /\ tableLock' = [tableLock EXCEPT ![h] = "rowExclusive"]
        /\ UNCHANGED <<journal, sequence, inserts>>
    BY <1>0, <1>6 DEF DeleteAllJournalEntries, databaseVars, TypeOK
  <2> QED
    BY <1>0, <2>1, <2>2, <2>3, DeleteLock
<1>7. CASE EnableJournaling(h)
  <2>1. Quiet(h)
    BY <1>0, <1>7 DEF EnableJournaling, databaseVars, Quiet, TypeOK
  <2> QED
    BY <1>0, <2>1, QuietLock
<1>8. ASSUME NEW s, NEW n, RecordSerialSeen(h, s, n) PROVE LockInv'
  <2>1. stage[h] \notin {"idle", "wipe"}
    BY <1>8 DEF RecordSerialSeen, Ready, LockInv, FreshInv, Fresh
  <2>2. Quiet(h)
    BY <1>0, <1>8, <2>1 DEF RecordSerialSeen, databaseVars, Quiet, TypeOK
  <2> QED
    BY <1>0, <2>2, QuietLock
<1>9. ASSUME NEW s, RecordStatus(h, s) PROVE LockInv'
  <2>1. Quiet(h)
    BY <1>0, <1>9 DEF RecordStatus, databaseVars, Quiet, TypeOK
  <2> QED
    BY <1>0, <2>1, QuietLock
<1>10. ASSUME NEW s, NEW g \in {e.glob : e \in journal}, DeleteJournalEntriesBeforeDate(h, s, g)
       PROVE  LockInv'
  <2>1. /\ Expired(s, g) \in SUBSET journal
        /\ \A d \in Expired(s, g), e \in journal :
              e.source = d.source /\ e.glob <= d.glob => e \in Expired(s, g)
    <3>1. g \in Nat /\ \A e \in journal : e.glob \in Nat
      BY <1>0 DEF TypeOK, Entry
    <3> QED
      BY <3>1 DEF Expired, EntriesOf
  <2>2. /\ DeleteFree(h, Expired(s, g))
        /\ stage[h] \in {"idle", "wipe"} /\ stage'[h] \notin {"idle", "wipe"}
        /\ deletes' = [deletes EXCEPT ![h] = Expired(s, g)]
        /\ tableLock' = [tableLock EXCEPT ![h] = "rowExclusive"]
        /\ UNCHANGED <<journal, sequence, inserts>>
    BY <1>0, <1>10 DEF DeleteJournalEntriesBeforeDate, databaseVars, TypeOK
  <2> QED
    BY <1>0, <2>1, <2>2, DeleteLock
<1>11. ASSUME NEW s, SetForceReload(h, s) PROVE LockInv'
  <2>1. Quiet(h)
    BY <1>0, <1>11 DEF SetForceReload, databaseVars, Quiet, TypeOK
  <2> QED
    BY <1>0, <2>1, QuietLock
<1>12. CASE FinaliseTransaction(h)
  <2>1. Quiet(h)
    BY <1>0, <1>12 DEF FinaliseTransaction, databaseVars, Quiet, TypeOK
  <2> QED
    BY <1>0, <2>1, QuietLock
<1>13. CASE IntermediateCommit(h)
  <2>1. CommitTransaction(h) /\ stage'[h] \notin {"idle", "wipe"}
    BY <1>0, <1>13 DEF IntermediateCommit, TypeOK
  <2> QED
    BY <1>0, <2>1, CommitJournal, EndLock
<1>14. CASE PreCommit(h)
  <2>1. stage'[h] \in {"enrich", "commit"}
    <3>1. stage' = [stage EXCEPT ![h] = "enrich"] \/ stage' = [stage EXCEPT ![h] = "commit"]
      BY <1>14, Zenon DEF PreCommit
    <3> QED
      BY <1>0, <3>1 DEF TypeOK
  <2>2. Quiet(h)
    BY <1>0, <1>14, <2>1 DEF PreCommit, databaseVars, Quiet
  <2> QED
    BY <1>0, <2>2, QuietLock
<1>15. CASE RoutePreferenceUpdateRunner(h)
  <2>1. Quiet(h)
    BY <1>0, <1>15 DEF RoutePreferenceUpdateRunner, databaseVars, Quiet, TypeOK
  <2> QED
    BY <1>0, <2>1, QuietLock
<1>16. CASE EnrichPks(h)
  <2>1. Quiet(h)
    BY <1>0, <1>16 DEF EnrichPks, databaseVars, Quiet, TypeOK
  <2> QED
    BY <1>0, <2>1, QuietLock
<1>17. CASE UpdateRoutePreferenceStatus(h)
  <2>1. Quiet(h)
    BY <1>0, <1>17 DEF UpdateRoutePreferenceStatus, databaseVars, Quiet, TypeOK
  <2> QED
    BY <1>0, <2>1, QuietLock
<1>18. CASE Commit(h)
  <2>1. Fresh(h)'
    BY <1>0, <1>18 DEF Commit, CommitTransaction, Reset, Fresh, TypeOK
  <2>2. CommitTransaction(h)
    BY <1>18 DEF Commit
  <2> QED
    BY <1>0, <2>1, <2>2, CommitJournal, EndLock
<1>19. CASE Rollback(h)
  <2>1. Fresh(h)'
    BY <1>0, <1>19 DEF Rollback, Reset, Fresh, TypeOK
  <2> QED
    BY <1>0, <1>19, <2>1, EndLock DEF Rollback, databaseVars
<1> QED
  BY <1>1, <1>2, <1>3, <1>4, <1>5, <1>6, <1>7, <1>8, <1>9, <1>10, <1>11, <1>12, <1>13, <1>14,
     <1>15, <1>16, <1>17, <1>18, <1>19 DEF Change, Administer, Finish

\* The lock discipline of the journal table is an invariant.
THEOREM LockInvariant == Spec => []LockInv
<1>1. TypeInv /\ LockInv /\ [Next]_vars => LockInv'
  <2> SUFFICES ASSUME TypeInv, LockInv, [Next]_vars PROVE LockInv'
    OBVIOUS
  <2>1. CASE Next
    BY <2>1, LockStep DEF Next
  <2>2. CASE UNCHANGED vars
    BY <2>2 DEF LockInv, FreshInv, Fresh, ExclusionInv, NewestInv, OldestInv, vars,
       databaseVars, txVars
  <2> QED
    BY <2>1, <2>2
<1> QED
  BY TypeInvariant, LockInit, <1>1, PTL DEF Spec

\* Steps that do not commit leave the journal as it is.
LEMMA JournalStep ==
    ASSUME NEW h \in Handlers, Change(h) \/ Administer(h) \/ Finish(h)
    PROVE  journal' = journal \/ CommitTransaction(h)
<1> USE DEF databaseVars
<1>1. ASSUME Change(h) PROVE journal' = journal
  BY <1>1 DEF Change, UpsertRpslObject, DeleteRpslObject, FlushRpslObjectWritingBuffer,
     RecordOperation
<1>2. ASSUME Administer(h) PROVE journal' = journal
  BY <1>2 DEF Administer, DeleteAllRpslObjects, DeleteAllJournalEntries, EnableJournaling,
     RecordSerialSeen, RecordStatus, DeleteJournalEntriesBeforeDate, SetForceReload
<1>3. ASSUME Finish(h) PROVE journal' = journal \/ CommitTransaction(h)
  <2>1. CASE IntermediateCommit(h) \/ Commit(h)
    BY <2>1 DEF IntermediateCommit, Commit
  <2>2. CASE ~(IntermediateCommit(h) \/ Commit(h))
    BY <1>3, <2>2 DEF Finish, FinaliseTransaction, PreCommit, RoutePreferenceUpdateRunner,
       EnrichPks, UpdateRoutePreferenceStatus, Rollback
  <2> QED
    BY <2>1, <2>2
<1> QED
  BY <1>1, <1>2, <1>3

\* Whatever the transactions, an entry that becomes visible in the journal has a
\* higher serial_global than all entries that were visible before: the LOCK TABLE
\* of record_operation() is enough for a reader that remembers the last one.
THEOREM GlobalOrder == Spec => GlobalSerialsInOrder
<1>1. LockInv /\ [Next]_vars =>
         [\A e \in journal' \ journal, f \in journal : f.glob < e.glob]_vars
  <2> SUFFICES ASSUME LockInv, Next, NEW e \in journal' \ journal, NEW f \in journal
               PROVE  f.glob < e.glob
    BY DEF vars, databaseVars
  <2>1. PICK h \in Handlers : Change(h) \/ Administer(h) \/ Finish(h)
    BY DEF Next
  <2>2. CommitTransaction(h)
    BY <2>1, JournalStep
  <2>3. e \in inserts[h]
    BY <2>2, CommitJournal
  <2> QED
    BY <2>3 DEF LockInv, NewestInv
<1> QED
  BY LockInvariant, <1>1, PTL DEF Spec, GlobalSerialsInOrder

-----------------------------------------------------------------------------
(* The journal: the inductive invariant *)

\* The stages in which the status rows of a transaction have been written.
Final == {"finalised", "precommit", "commit"}

\* How far a transaction without route preference can be, and what it has done by
\* then: what is recorded is seen, the status row of what it recorded is locked
\* once it is finalised, and a reload has deleted all that is in the journal.
StageOK(h) ==
    /\ stage[h] \in Final \union {"idle", "open", "wipe", "closing"}
    /\ stage[h] \in Final \union {"closing"} => pending[h] = {}
    /\ stage[h] = "idle" => wiped[h] = {}
    /\ wiped[h] # {} => stage[h] = "wipe" \/ tableLock[h] # "none"
    /\ \A s, r \in wiped[h] : s = r
    /\ \A s \in Sources :
          EntriesOf(inserts[h], s) # {} => s \in seen[h] /\ newSerials[h][s] # {}
    /\ \A s \in Sources :
          EntriesOf(inserts[h], s) # {} /\ stage[h] \in Final => statusWrites[h][s] # Untouched
    /\ \A s \in wiped[h] : stage[h] # "wipe" => EntriesOf(journal, s) \subseteq deletes[h]
    /\ \A s \in Sources : newSerials[h][s] # {} /\ stage[h] \notin Final =>
          tableLock[h] = "exclusive" \/ (s \in wiped[h] /\ tableLock[h] = "rowExclusive")

\* The status row of a source covers the entries of a journal.
CoversIn(row, J, s) ==
    \A e \in J : e.source = s =>
        row.exists /\ row.oldestJournal <= e.serial /\ e.serial <= row.newestJournal

\* The status rows a transaction has written cover what it sees of the journal,
\* except for entries it has recorded since.
CoverOK(h) ==
    \A s \in Sources :
        statusWrites[h][s] # Untouched /\ (stage[h] \in Final \/ EntriesOf(inserts[h], s) = {})
        => CoversIn(statusWrites[h][s], JournalView(h), s)

\* The serials a transaction continues end with those it sees in the journal.
TopOK(h) ==
    \A s \in OwnSerials :
        tableLock[h] = "exclusive" /\ newSerials[h][s] # {} /\ EntriesOf(JournalView(h), s) # {} =>
            /\ \A e \in EntriesOf(JournalView(h), s) : \E n \in newSerials[h][s] : e.serial <= n
            /\ \E e \in EntriesOf(JournalView(h), s) : \A n \in newSerials[h][s] : n <= e.serial

\* Serials have no gaps and grow with serial_global.
Numbered(J) ==
    \A e, f \in J : e.source = f.source /\ e.source \in OwnSerials =>
        /\ e.serial < f.serial <=> e.glob < f.glob
        /\ \A n \in e.serial .. f.serial : n \in Serials(J, e.source)

NumberOK(h) == inserts[h] # {} => Numbered(JournalView(h))

HandlerOK(h) == StageOK(h) /\ CoverOK(h) /\ TopOK(h) /\ NumberOK(h)

CommittedOK == Numbered(journal) /\ \A s \in Sources : CoversIn(status[s], journal, s)

\* A status row is locked by one transaction at a time.
RowLockInv ==
    \A h, g \in Handlers : \A s \in Sources :
        h # g /\ statusWrites[h][s] # Untouched => statusWrites[g][s] = Untouched

JournalInv ==
    /\ CommittedOK
    /\ RowLockInv
    /\ \A h \in Handlers : HandlerOK(h)

-----------------------------------------------------------------------------
(* Lemmas *)

\* Fewer entries are covered as well.
LEMMA CoversLess ==
    ASSUME NEW row, NEW J, NEW K, NEW s, CoversIn(row, J, s),
           EntriesOf(K, s) \subseteq EntriesOf(J, s)
    PROVE  CoversIn(row, K, s)
  BY DEF CoversIn, EntriesOf

\* The numbering stays when the oldest entries of sources are removed.
LEMMA NumberedWithout ==
    ASSUME NEW J, J \subseteq Entry, Numbered(J), NEW D,
           \A d \in D, e \in J : e.source = d.source /\ e.glob <= d.glob => e \in D
    PROVE  Numbered(J \ D)
<1> SUFFICES ASSUME NEW e \in J \ D, NEW f \in J \ D, e.source = f.source, e.source \in OwnSerials
             PROVE  /\ e.serial < f.serial <=> e.glob < f.glob
                    /\ \A n \in e.serial .. f.serial : n \in Serials(J \ D, e.source)
  BY DEF Numbered
<1>1. e.serial < f.serial <=> e.glob < f.glob
  BY DEF Numbered
<1>2. ASSUME NEW n \in e.serial .. f.serial
      PROVE  n \in Serials(J \ D, e.source)
  <2>1. n \in Serials(J, e.source)
    BY DEF Numbered
  <2>2. PICK x \in J : x.source = e.source /\ x.serial = n
    BY <2>1 DEF Serials, EntriesOf
  <2>3. e \in Entry /\ x \in Entry
    OBVIOUS
  <2>4. /\ e.serial \in Nat /\ x.serial \in Nat
        /\ e.glob \in Nat /\ x.glob \in Nat
    BY <2>3 DEF Entry
  <2>5. CASE n = e.serial
    BY <2>5 DEF Serials, EntriesOf
  <2>6. CASE n # e.serial
    <3>1. e.serial < x.serial
      BY <2>2, <2>4, <2>6
    <3>2. e.glob < x.glob
      BY <2>2, <3>1 DEF Numbered
    <3>3. x \notin D
      BY <2>2, <2>4, <3>2
    <3> QED
      BY <2>2, <3>3 DEF Serials, EntriesOf
  <2> QED
    BY <2>5, <2>6
<1> QED
  BY <1>1, <1>2

\* The numbering stays when an entry follows the newest one.
LEMMA NumberedWith ==
    ASSUME NEW J, J \subseteq Entry, Numbered(J), NEW x \in Entry,
           \A e \in J : e.glob < x.glob,
           x.source \in OwnSerials /\ EntriesOf(J, x.source) # {} =>
               \E e \in EntriesOf(J, x.source) :
                   x.serial = e.serial + 1 /\ \A f \in EntriesOf(J, x.source) : f.serial <= e.serial
    PROVE  Numbered(J \union {x})
<1> DEFINE K == J \union {x}
<1>0. \A e \in K : e.serial \in Nat /\ e.glob \in Nat
  BY DEF Entry
<1> SUFFICES ASSUME NEW e \in K, NEW f \in K, e.source = f.source, e.source \in OwnSerials
             PROVE  /\ e.serial < f.serial <=> e.glob < f.glob
                    /\ \A n \in e.serial .. f.serial : n \in Serials(K, e.source)
  BY DEF Numbered
<1>1. CASE e \in J /\ f \in J
  BY <1>1 DEF Numbered, Serials, EntriesOf
<1>2. CASE e = x /\ f = x
  <2>1. \A n \in e.serial .. f.serial : n = x.serial
    BY <1>0, <1>2
  <2> QED
    BY <1>0, <1>2, <2>1 DEF Serials, EntriesOf
<1>3. CASE e \in J /\ f = x
  <2>1. PICK t \in EntriesOf(J, x.source) :
            x.serial = t.serial + 1 /\ \A y \in EntriesOf(J, x.source) : y.serial <= t.serial
    BY <1>3 DEF EntriesOf
  <2>2. t \in J /\ t.source = x.source /\ e.serial <= t.serial
    BY <1>3, <2>1 DEF EntriesOf
  <2>3. e.serial < x.serial /\ e.glob < x.glob
    BY <1>0, <1>3, <2>1, <2>2
  <2>4. ASSUME NEW n \in e.serial .. x.serial
        PROVE  n \in Serials(K, e.source)
    <3>1. CASE n = x.serial
      BY <1>3, <3>1 DEF Serials, EntriesOf
    <3>2. CASE n # x.serial
      <4>1. n \in e.serial .. t.serial
        BY <1>0, <2>1, <2>2, <3>2
      <4>2. n \in Serials(J, e.source)
        BY <1>3, <2>2, <4>1 DEF Numbered
      <4> QED
        BY <4>2 DEF Serials, EntriesOf
    <3> QED
      BY <3>1, <3>2
  <2> QED
    BY <1>3, <2>3, <2>4
<1>4. CASE e = x /\ f \in J
  <2>1. PICK t \in EntriesOf(J, x.source) :
            x.serial = t.serial + 1 /\ \A y \in EntriesOf(J, x.source) : y.serial <= t.serial
    BY <1>4 DEF EntriesOf
  <2>2. t \in J /\ f.serial <= t.serial
    BY <1>4, <2>1 DEF EntriesOf
  <2>3. f.serial < x.serial /\ f.glob < x.glob
    BY <1>0, <1>4, <2>1, <2>2
  <2>4. ~(e.serial < f.serial) /\ ~(e.glob < f.glob)
    BY <1>0, <1>4, <2>3
  <2>5. e.serial .. f.serial = {}
    BY <1>0, <1>4, <2>3
  <2> QED
    BY <2>4, <2>5
<1> QED
  BY <1>1, <1>2, <1>3, <1>4

\* A step of one handler that leaves the journal alone does not disturb the others.
LEMMA OthersKept ==
    ASSUME JournalInv, NEW h \in Handlers, Frame(h), journal' = journal,
           NEW g \in Handlers \ {h}
    PROVE  HandlerOK(g)'
<1>0. /\ stage'[g] = stage[g] /\ pending'[g] = pending[g] /\ seen'[g] = seen[g]
      /\ wiped'[g] = wiped[g] /\ inserts'[g] = inserts[g] /\ deletes'[g] = deletes[g]
      /\ tableLock'[g] = tableLock[g] /\ newSerials'[g] = newSerials[g]
      /\ statusWrites'[g] = statusWrites[g]
  BY DEF Frame
<1>1. HandlerOK(g)
  BY DEF JournalInv
<1>2. JournalView(g)' = JournalView(g)
  BY <1>0 DEF JournalView
<1>3. StageOK(g)'
  BY <1>0, <1>1 DEF HandlerOK, StageOK
<1>4. CoverOK(g)'
  BY <1>0, <1>1, <1>2 DEF HandlerOK, CoverOK
<1>5. TopOK(g)'
  BY <1>0, <1>1, <1>2 DEF HandlerOK, TopOK
<1>6. NumberOK(g)'
  BY <1>0, <1>1, <1>2 DEF HandlerOK, NumberOK
<1> QED
  BY <1>3, <1>4, <1>5, <1>6 DEF HandlerOK

\* The invariant after a step of one handler that does not commit.
LEMMA OwnStep ==
    ASSUME JournalInv, NEW h \in Handlers, Frame(h), journal' = journal, status' = status,
           HandlerOK(h)',
           \A s \in Sources : statusWrites'[h][s] # Untouched =>
               statusWrites[h][s] # Untouched \/ StatusFree(h, s)
    PROVE  JournalInv'
<1>1. \A g \in Handlers : HandlerOK(g)'
  BY OthersKept
<1>2. CommittedOK'
  BY DEF JournalInv, CommittedOK
<1>3. RowLockInv'
  <2> SUFFICES ASSUME NEW f \in Handlers, NEW g \in Handlers, NEW s \in Sources, f # g,
                      statusWrites'[f][s] # Untouched
               PROVE  statusWrites'[g][s] = Untouched
    BY DEF RowLockInv
  <2>0. \A k \in Handlers \ {h} : statusWrites'[k] = statusWrites[k]
    BY DEF Frame
  <2>1. \A j, k \in Handlers : j # k /\ statusWrites[j][s] # Untouched =>
            statusWrites[k][s] = Untouched
    BY DEF JournalInv, RowLockInv
  <2>2. CASE f = h
    BY <2>0, <2>1, <2>2 DEF StatusFree, Others
  <2>3. CASE g = h
    <3>1. statusWrites[f][s] # Untouched
      BY <2>0, <2>3
    <3>2. statusWrites[h][s] = Untouched
      BY <2>1, <2>3, <3>1
    <3>3. ~StatusFree(h, s)
      BY <2>3, <3>1 DEF StatusFree, Others
    <3> QED
      BY <2>3, <3>2, <3>3
  <2>4. CASE f # h /\ g # h
    BY <2>0, <2>1, <2>4
  <2> QED
    BY <2>2, <2>3, <2>4
<1> QED
  BY <1>1, <1>2, <1>3 DEF JournalInv

\* Steps that touch neither the journal, its lock, nor the status rows.
Plain(h) ==
    /\ UNCHANGED <<journal, status, inserts, deletes, tableLock, newSerials, statusWrites, wiped>>
    /\ seen[h] \subseteq seen'[h]
    /\ \/ stage'[h] = stage[h] /\ (pending[h] = {} => pending'[h] = {})
       \/ stage[h] \in {"idle", "open"} /\ stage'[h] = "open"
       \/ stage[h] \in Final /\ stage'[h] \in Final /\ pending'[h] = pending[h]

\* They keep JournalInv.
LEMMA PlainStep ==
    ASSUME JournalInv, NEW h \in Handlers, Frame(h), Plain(h)
    PROVE  JournalInv'
<1>0. /\ UNCHANGED <<journal, status>>
      /\ inserts'[h] = inserts[h] /\ deletes'[h] = deletes[h] /\ tableLock'[h] = tableLock[h]
      /\ newSerials'[h] = newSerials[h] /\ statusWrites'[h] = statusWrites[h]
      /\ wiped'[h] = wiped[h]
      /\ seen[h] \subseteq seen'[h]
  BY DEF Plain
<1>1. HandlerOK(h)
  BY DEF JournalInv
<1>2. JournalView(h)' = JournalView(h)
  BY <1>0 DEF JournalView
<1>3. stage'[h] \in Final <=> stage[h] \in Final
  BY DEF Plain, Final
<1>4. StageOK(h)'
  <2>1. StageOK(h)
    BY <1>1 DEF HandlerOK
  <2>2. CASE stage'[h] = stage[h] /\ (pending[h] = {} => pending'[h] = {})
    BY <1>0, <2>1, <2>2 DEF StageOK
  <2>3. CASE stage[h] \in {"idle", "open"} /\ stage'[h] = "open"
    BY <1>0, <2>1, <2>3 DEF StageOK, Final
  <2>4. CASE stage[h] \in Final /\ stage'[h] \in Final /\ pending'[h] = pending[h]
    BY <1>0, <2>1, <2>4 DEF StageOK, Final
  <2> QED
    BY <2>2, <2>3, <2>4 DEF Plain
<1>5. CoverOK(h)'
  BY <1>0, <1>1, <1>2, <1>3 DEF HandlerOK, CoverOK
<1>6. TopOK(h)'
  BY <1>0, <1>1, <1>2 DEF HandlerOK, TopOK
<1>7. NumberOK(h)'
  BY <1>0, <1>1, <1>2 DEF HandlerOK, NumberOK
<1>8. HandlerOK(h)'
  BY <1>4, <1>5, <1>6, <1>7 DEF HandlerOK
<1>9. \A s \in Sources : statusWrites'[h][s] # Untouched =>
          statusWrites[h][s] # Untouched \/ StatusFree(h, s)
  BY <1>0
<1> QED
  BY <1>0, <1>8, <1>9, OwnStep

\* A transaction that has done nothing yet, or has just ended.
LEMMA FreshOK ==
    ASSUME TypeOK', NEW h \in Handlers, Fresh(h)', stage'[h] = "idle", wiped'[h] = {}
    PROVE  HandlerOK(h)'
<1>1. /\ inserts'[h] = {} /\ deletes'[h] = {} /\ pending'[h] = {} /\ tableLock'[h] = "none"
      /\ newSerials'[h] = NoSerials /\ statusWrites'[h] = NoStatusWrites
  BY DEF Fresh
<1>2. \A s \in Sources : newSerials'[h][s] = {} /\ statusWrites'[h][s] = Untouched
                         /\ EntriesOf(inserts'[h], s) = {}
  BY <1>1 DEF NoSerials, NoStatusWrites, EntriesOf
<1>3. StageOK(h)'
  BY <1>1, <1>2 DEF StageOK, Final
<1>4. CoverOK(h)'
  BY <1>2 DEF CoverOK
<1>5. TopOK(h)'
  BY <1>1 DEF TopOK
<1>6. NumberOK(h)'
  BY <1>1 DEF NumberOK
<1> QED
  BY <1>3, <1>4, <1>5, <1>6 DEF HandlerOK

-----------------------------------------------------------------------------
(* Reloads, expiry and forced reloads *)

\* A transaction that is idle, or has only deleted rows, has nothing in the journal.
LEMMA FreshFields ==
    ASSUME LockInv, NEW h \in Handlers, stage[h] \in {"idle", "wipe"}
    PROVE  /\ inserts[h] = {} /\ deletes[h] = {} /\ pending[h] = {} /\ tableLock[h] = "none"
           /\ \A s \in Sources : newSerials[h][s] = {} /\ statusWrites[h][s] = Untouched
                                 /\ EntriesOf(inserts[h], s) = {}
  BY DEF LockInv, FreshInv, Fresh, NoSerials, NoStatusWrites, EntriesOf

\* delete_all_rpsl_objects_with_journal(), the deletion of the rows.
LEMMA WipeStep ==
    ASSUME TypeOK, LockInv, JournalInv, NEW h \in Handlers, Frame(h), NEW s \in Sources,
           DeleteAllRpslObjects(h, s)
    PROVE  JournalInv'
<1>1. stage[h] = "idle" /\ stage'[h] = "wipe" /\ wiped'[h] = {s}
  BY DEF DeleteAllRpslObjects, TypeOK
<1>2. UNCHANGED <<journal, status, pending, inserts, deletes, statusWrites, tableLock, newSerials,
                  seen>>
  BY DEF DeleteAllRpslObjects, databaseVars
<1>3. /\ inserts[h] = {} /\ deletes[h] = {} /\ pending[h] = {} /\ tableLock[h] = "none"
      /\ \A r \in Sources : newSerials[h][r] = {} /\ statusWrites[h][r] = Untouched
                            /\ EntriesOf(inserts[h], r) = {}
  BY <1>1, FreshFields
<1>4. StageOK(h)'
  BY <1>1, <1>2, <1>3 DEF StageOK, Final
<1>5. CoverOK(h)' /\ TopOK(h)' /\ NumberOK(h)'
  BY <1>2, <1>3 DEF CoverOK, TopOK, NumberOK
<1>6. HandlerOK(h)'
  BY <1>4, <1>5 DEF HandlerOK
<1> QED
  BY <1>2, <1>6, OwnStep

\* delete_all_rpsl_objects_with_journal(), the deletion of the journal and the status row.
LEMMA WipeJournalStep ==
    ASSUME TypeOK, LockInv, JournalInv, NEW h \in Handlers, Frame(h), DeleteAllJournalEntries(h)
    PROVE  JournalInv'
<1>1. PICK s \in wiped[h] :
         /\ status[s].exists => StatusFree(h, s)
         /\ deletes' = [deletes EXCEPT ![h] = EntriesOf(journal, s)]
         /\ statusWrites' = IF status[s].exists
                            THEN [statusWrites EXCEPT ![h][s] = NoStatus]
                            ELSE statusWrites
  BY DEF DeleteAllJournalEntries
<1>2. /\ stage[h] = "wipe" /\ stage'[h] = "open" /\ tableLock'[h] = "rowExclusive"
      /\ wiped' = wiped
  BY DEF DeleteAllJournalEntries, TypeOK
<1>3. UNCHANGED <<journal, status, pending, inserts, newSerials, seen>>
  BY DEF DeleteAllJournalEntries, databaseVars
<1>4. /\ inserts[h] = {} /\ pending[h] = {}
      /\ \A r \in Sources : newSerials[h][r] = {} /\ statusWrites[h][r] = Untouched
                            /\ EntriesOf(inserts[h], r) = {}
  BY <1>2, FreshFields
<1>5. deletes'[h] = EntriesOf(journal, s) /\ s \in Sources
  BY <1>1 DEF TypeOK
<1>6. \A r \in wiped[h] : r = s
  BY DEF JournalInv, HandlerOK, StageOK
<1>7. StageOK(h)'
  BY <1>2, <1>3, <1>4, <1>5, <1>6 DEF StageOK, Final
<1>8. \A r \in Sources : statusWrites'[h][r] # Untouched => r = s /\ status[s].exists
  BY <1>1, <1>4, <1>5 DEF TypeOK
<1>9. CoversIn(statusWrites'[h][s], JournalView(h)', s)
  BY <1>3, <1>4, <1>5 DEF JournalView, CoversIn, EntriesOf
<1>10. CoverOK(h)'
  BY <1>8, <1>9 DEF CoverOK
<1>11. TopOK(h)' /\ NumberOK(h)'
  BY <1>2, <1>3, <1>4 DEF TopOK, NumberOK
<1>12. HandlerOK(h)'
  BY <1>7, <1>10, <1>11 DEF HandlerOK
<1> QED
  BY <1>1, <1>3, <1>8, <1>12, OwnStep

\* record_serial_seen(), at the end of a reload.
LEMMA SerialSeenStep ==
    ASSUME TypeOK, LockInv, JournalInv, NEW h \in Handlers, Frame(h), NEW s \in Sources, NEW n,
           RecordSerialSeen(h, s, n)
    PROVE  JournalInv'
<1>1. /\ s \in wiped[h] /\ newSerials[h][s] = {} /\ stage[h] \in {"idle", "open"}
      /\ newSerials' = [newSerials EXCEPT ![h][s] = {n}]
      /\ seen' = [seen EXCEPT ![h] = @ \union {s}]
  BY DEF RecordSerialSeen, Ready
<1>2. UNCHANGED <<journal, status, stage, pending, inserts, deletes, statusWrites, tableLock, wiped>>
  BY DEF RecordSerialSeen, databaseVars
<1>3. HandlerOK(h)
  BY DEF JournalInv
<1>4. JournalView(h)' = JournalView(h)
  BY <1>2 DEF JournalView
<1>5. /\ \A r \in Sources : newSerials'[h][r] = IF r = s THEN {n} ELSE newSerials[h][r]
      /\ seen'[h] = seen[h] \union {s}
  BY <1>1 DEF TypeOK
<1>6. stage[h] = "open" /\ tableLock[h] # "none"
  BY <1>1, <1>3 DEF HandlerOK, StageOK, Final
<1>7. tableLock[h] \in {"rowExclusive", "exclusive"}
  BY <1>6 DEF TypeOK
<1>8. StageOK(h)'
  BY <1>1, <1>2, <1>3, <1>5, <1>6, <1>7 DEF HandlerOK, StageOK, Final
<1>9. CoverOK(h)'
  BY <1>2, <1>3, <1>4 DEF HandlerOK, CoverOK
<1>10. TopOK(h)'
  <2>1. EntriesOf(inserts[h], s) = {} /\ EntriesOf(journal, s) \subseteq deletes[h]
    BY <1>1, <1>3, <1>6 DEF HandlerOK, StageOK
  <2>2. EntriesOf(JournalView(h), s) = {}
    BY <2>1 DEF JournalView, EntriesOf
  <2> QED
    BY <1>2, <1>3, <1>4, <1>5, <2>2 DEF HandlerOK, TopOK, OwnSerials
<1>11. NumberOK(h)'
  BY <1>2, <1>3, <1>4 DEF HandlerOK, NumberOK
<1>12. HandlerOK(h)'
  BY <1>8, <1>9, <1>10, <1>11 DEF HandlerOK
<1> QED
  BY <1>2, <1>12, OwnStep

\* expire_journal: the status rows still cover what is left.
LEMMA ExpireStep ==
    ASSUME TypeOK, LockInv, JournalInv, NEW h \in Handlers, Frame(h), NEW s, NEW x,
           DeleteJournalEntriesBeforeDate(h, s, x)
    PROVE  JournalInv'
<1>1. /\ stage[h] = "idle" /\ stage'[h] = "closing" /\ tableLock'[h] = "rowExclusive"
  BY DEF DeleteJournalEntriesBeforeDate, TypeOK
<1>2. UNCHANGED <<journal, status, pending, inserts, statusWrites, newSerials, seen, wiped>>
  BY DEF DeleteJournalEntriesBeforeDate, databaseVars
<1>3. /\ inserts[h] = {} /\ pending[h] = {}
      /\ \A r \in Sources : newSerials[h][r] = {} /\ statusWrites[h][r] = Untouched
                            /\ EntriesOf(inserts[h], r) = {}
  BY <1>1, FreshFields
<1>4. wiped[h] = {}
  BY <1>1 DEF JournalInv, HandlerOK, StageOK
<1>5. StageOK(h)'
  BY <1>1, <1>2, <1>3, <1>4 DEF StageOK, Final
<1>6. CoverOK(h)' /\ TopOK(h)' /\ NumberOK(h)'
  BY <1>1, <1>2, <1>3 DEF CoverOK, TopOK, NumberOK
<1>7. HandlerOK(h)'
  BY <1>5, <1>6 DEF HandlerOK
<1> QED
  BY <1>2, <1>7, OwnStep

\* set_force_reload(): the row keeps its journal range.
LEMMA ForceReloadStep ==
    ASSUME TypeOK, LockInv, JournalInv, NEW h \in Handlers, Frame(h), NEW s \in Sources,
           SetForceReload(h, s)
    PROVE  JournalInv'
<1> DEFINE row == [status[s] EXCEPT !.force = TRUE, !.oldestSeen = 0, !.newestSeen = 0]
<1>1. /\ stage[h] = "idle" /\ stage'[h] = "closing" /\ StatusFree(h, s)
      /\ statusWrites' = [statusWrites EXCEPT ![h][s] = row]
  BY DEF SetForceReload, TypeOK
<1>2. UNCHANGED <<journal, status, pending, inserts, deletes, newSerials, seen, wiped, tableLock>>
  BY DEF SetForceReload, databaseVars
<1>3. /\ inserts[h] = {} /\ deletes[h] = {} /\ pending[h] = {} /\ tableLock[h] = "none"
      /\ \A r \in Sources : newSerials[h][r] = {} /\ statusWrites[h][r] = Untouched
                            /\ EntriesOf(inserts[h], r) = {}
  BY <1>1, FreshFields
<1>4. wiped[h] = {}
  BY <1>1 DEF JournalInv, HandlerOK, StageOK
<1>5. StageOK(h)'
  BY <1>1, <1>2, <1>3, <1>4 DEF StageOK, Final
<1>6. CoversIn(row, journal, s)
  <2>1. CoversIn(status[s], journal, s) /\ status[s] \in Status
    BY DEF JournalInv, CommittedOK, TypeOK
  <2>2. /\ row.exists = status[s].exists /\ row.oldestJournal = status[s].oldestJournal
        /\ row.newestJournal = status[s].newestJournal
    BY <2>1 DEF Status
  <2> QED
    BY <2>1, <2>2 DEF CoversIn
<1> HIDE DEF row
<1>7. JournalView(h)' = journal
  BY <1>2, <1>3 DEF JournalView
<1>8. \A r \in Sources : statusWrites'[h][r] = IF r = s THEN row ELSE statusWrites[h][r]
  BY <1>1 DEF TypeOK
<1>9. CoverOK(h)'
  BY <1>3, <1>6, <1>7, <1>8 DEF CoverOK
<1>10. TopOK(h)' /\ NumberOK(h)'
  BY <1>2, <1>3 DEF TopOK, NumberOK
<1>11. HandlerOK(h)'
  BY <1>5, <1>9, <1>10 DEF HandlerOK
<1> QED
  BY <1>1, <1>2, <1>3, <1>8, <1>11, OwnStep

-----------------------------------------------------------------------------
(* Journal entries *)

\* The serial record_operation() gives a new entry of a source that numbers its own
\* operations continues those that the transaction sees in the journal.
LEMMA NextSerialContinues ==
    ASSUME TypeInv, LockInv, JournalInv, NEW h \in Handlers, NEW s \in OwnSerials, NEW m,
           stage[h] \notin Final
    PROVE  /\ \A k \in newSerials[h][s] : k < NextSerial(h, s, m)
           /\ EntriesOf(JournalView(h), s) # {} =>
                  \E e \in EntriesOf(JournalView(h), s) :
                      /\ NextSerial(h, s, m) = e.serial + 1
                      /\ \A f \in EntriesOf(JournalView(h), s) : f.serial <= e.serial
<1> DEFINE n == NextSerial(h, s, m)
           V == EntriesOf(JournalView(h), s)
<1>0. s \in Sources /\ s \notin SyncSources
  BY DEF OwnSerials
<1>1. StageOK(h) /\ CoverOK(h) /\ TopOK(h)
  BY DEF JournalInv, HandlerOK
<1>2. \A e \in V : e.serial \in Nat
  BY ViewTypes DEF TypeInv, EntriesOf, Entry
<1>3. CASE newSerials[h][s] # {}
  <2>1. /\ newSerials[h][s] \subseteq Nat
        /\ Max(newSerials[h][s]) \in newSerials[h][s]
        /\ \A k \in newSerials[h][s] : k <= Max(newSerials[h][s])
    BY <1>0, <1>3, NewSerialsMax
  <2>2. n = Max(newSerials[h][s]) + 1
    BY <1>0, <1>3 DEF NextSerial
  <2>3. \A k \in newSerials[h][s] : k < n
    BY <2>1, <2>2
  <2>4. ASSUME V # {}
        PROVE  \E e \in V : n = e.serial + 1 /\ \A f \in V : f.serial <= e.serial
    <3>1. tableLock[h] = "exclusive"
      <4>1. SUFFICES ASSUME s \in wiped[h], tableLock[h] = "rowExclusive"
                     PROVE  V = {}
        BY <1>0, <1>1, <1>3, <2>4 DEF StageOK
      <4>2. inserts[h] = {}
        BY <4>1 DEF LockInv, ExclusionInv
      <4>3. stage[h] # "wipe"
        BY <4>1 DEF LockInv, FreshInv, Fresh
      <4>4. EntriesOf(journal, s) \subseteq deletes[h]
        BY <1>1, <4>1, <4>3 DEF StageOK
      <4> QED
        BY <4>2, <4>4 DEF JournalView, EntriesOf
    <3>2. /\ \A e \in V : \E k \in newSerials[h][s] : e.serial <= k
          /\ \E e \in V : \A k \in newSerials[h][s] : k <= e.serial
      BY <1>1, <1>3, <2>4, <3>1 DEF TopOK
    <3>3. PICK e \in V : \A k \in newSerials[h][s] : k <= e.serial
      BY <3>2
    <3>4. \A f \in V : f.serial <= Max(newSerials[h][s])
      <4> SUFFICES ASSUME NEW f \in V PROVE f.serial <= Max(newSerials[h][s])
        OBVIOUS
      <4>1. PICK k \in newSerials[h][s] : f.serial <= k
        BY <3>2
      <4>2. k \in Nat /\ f.serial \in Nat /\ Max(newSerials[h][s]) \in Nat
            /\ k <= Max(newSerials[h][s])
        BY <1>2, <2>1
      <4> QED
        BY <4>1, <4>2
    <3>5. e.serial = Max(newSerials[h][s])
      <4>1. Max(newSerials[h][s]) <= e.serial /\ e.serial <= Max(newSerials[h][s])
        BY <2>1, <3>3, <3>4
      <4>2. e.serial \in Nat /\ Max(newSerials[h][s]) \in Nat
        BY <1>2, <2>1
      <4> QED
        BY <4>1, <4>2
    <3> HIDE DEF V, n
    <3> QED
      BY <2>2, <3>4, <3>5
  <2> QED
    BY <2>3, <2>4
<1>4. CASE newSerials[h][s] = {}
  <2>1. EntriesOf(inserts[h], s) = {}
    BY <1>0, <1>1, <1>4 DEF StageOK
  <2>2. V # {} => StatusView(h, s).exists
    <3>1. CASE statusWrites[h][s] = Untouched
      <4>1. CoversIn(status[s], journal, s)
        BY <1>0 DEF JournalInv, CommittedOK
      <4>2. V \subseteq EntriesOf(journal, s)
        BY <2>1 DEF JournalView, EntriesOf
      <4> QED
        BY <3>1, <4>1, <4>2 DEF CoversIn, StatusView, EntriesOf
    <3>2. CASE statusWrites[h][s] # Untouched
      <4>1. CoversIn(statusWrites[h][s], JournalView(h), s)
        BY <1>0, <1>1, <2>1, <3>2 DEF CoverOK
      <4> QED
        BY <3>2, <4>1 DEF CoversIn, StatusView, EntriesOf
    <3> QED
      BY <3>1, <3>2
  <2>3. ASSUME V # {}
        PROVE  \E e \in V : n = e.serial + 1 /\ \A f \in V : f.serial <= e.serial
    <3>1. Serials(JournalView(h), s) # {}
      BY <2>3 DEF Serials
    <3>2. n = Max(Serials(JournalView(h), s)) + 1
      BY <1>0, <1>4, <2>2, <2>3, <3>1 DEF NextSerial
    <3>3. /\ Max(Serials(JournalView(h), s)) \in Serials(JournalView(h), s)
          /\ \A k \in Serials(JournalView(h), s) : k <= Max(Serials(JournalView(h), s))
      BY <1>0, <3>1, JournalMax
    <3>4. PICK e \in V : e.serial = Max(Serials(JournalView(h), s))
      BY <3>3 DEF Serials
    <3>5. \A f \in V : f.serial \in Serials(JournalView(h), s)
      BY DEF Serials
    <3> HIDE DEF V, n
    <3> QED
      BY <3>2, <3>3, <3>4, <3>5
  <2> QED
    BY <1>4, <2>3
<1> QED
  BY <1>3, <1>4

\* A reload sees nothing of the journal of its source, before it records something.
LEMMA WipedEmpty ==
    ASSUME LockInv, JournalInv, NEW h \in Handlers, NEW s \in wiped[h],
           tableLock[h] = "rowExclusive"
    PROVE  EntriesOf(JournalView(h), s) = {}
<1>1. inserts[h] = {} /\ stage[h] # "wipe"
  BY DEF LockInv, ExclusionInv, FreshInv, Fresh
<1>2. EntriesOf(journal, s) \subseteq deletes[h]
  BY <1>1 DEF JournalInv, HandlerOK, StageOK
<1> QED
  BY <1>1, <1>2 DEF JournalView, EntriesOf

\* What a transaction sees of the journal is numbered.
LEMMA ViewNumbered ==
    ASSUME TypeOK, LockInv, JournalInv, NEW h \in Handlers
    PROVE  Numbered(JournalView(h))
<1>1. CASE inserts[h] # {}
  BY <1>1 DEF JournalInv, HandlerOK, NumberOK
<1>2. CASE inserts[h] = {}
  <2>1. JournalView(h) = journal \ deletes[h]
    BY <1>2 DEF JournalView
  <2>2. Numbered(journal) /\ journal \subseteq Entry
    BY DEF JournalInv, CommittedOK, TypeOK
  <2>3. \A d \in deletes[h], e \in journal : e.source = d.source /\ e.glob <= d.glob => e \in deletes[h]
    BY DEF LockInv, OldestInv
  <2> QED
    BY <2>1, <2>2, <2>3, NumberedWithout
<1> QED
  BY <1>1, <1>2

\* record_operation() with a journal entry: it continues the numbering, and its status row
\* is written later.
LEMMA InsertStep ==
    ASSUME TypeInv, LockInv, JournalInv, NEW h \in Handlers, Frame(h), NEW i \in pending[h],
           RecordOperation(h, i), journaling[h] /\ SourceOf[i.obj] \in KeepJournal
    PROVE  JournalInv'
<1> DEFINE s == SourceOf[i.obj]
           n == NextSerial(h, s, i.serial)
           x == [source |-> s, serial |-> n, glob |-> sequence + 1, op |-> i.op,
                 obj |-> i.obj, text |-> i.text]
<1>0. TypeOK
  BY DEF TypeInv
<1>1. /\ tableLock'[h] = "exclusive"
      /\ inserts'[h] = inserts[h] \union {x}
      /\ newSerials' = [newSerials EXCEPT ![h][s] = @ \union {n}]
      /\ seen'[h] = seen[h] \union {s}
      /\ pending'[h] = pending[h] \ {i}
  BY <1>0 DEF RecordOperation, InsertEntry, TypeOK
<1>2. UNCHANGED <<journal, status, stage, deletes, statusWrites, wiped>>
  BY DEF RecordOperation
<1>3. i \in Operation /\ s \in Sources /\ n \in Nat
  <2>1. i \in Operation
    BY <1>0 DEF TypeOK
  <2>2. s \in Sources
    BY <2>1, SourceOfAssumption DEF Operation
  <2> QED
    BY <2>1, <2>2, NextSerialType DEF Operation
<1>4. x \in Entry /\ x.source = s /\ x.serial = n /\ x.glob = sequence + 1
  BY <1>0, <1>3 DEF Entry, Operation, TypeOK
<1>5. stage[h] = "open" /\ HandlerOK(h)
  <2>1. HandlerOK(h) /\ pending[h] # {}
    BY DEF JournalInv
  <2> QED
    BY <2>1, RecordingStage DEF HandlerOK, StageOK
<1>6. stage[h] \notin Final
  BY <1>5 DEF Final
<1>7. s \in OwnSerials =>
         /\ \A k \in newSerials[h][s] : k < n
         /\ EntriesOf(JournalView(h), s) # {} =>
                \E e \in EntriesOf(JournalView(h), s) :
                    n = e.serial + 1 /\ \A f \in EntriesOf(JournalView(h), s) : f.serial <= e.serial
  BY <1>6, NextSerialContinues
<1>8. \A e \in JournalView(h) : e.glob < sequence + 1
  <2>1. \A e \in JournalView(h) : e \in Entry /\ e.glob <= sequence
    BY <1>0, ViewTypes DEF JournalView, TypeInv, FromSequence, LockInv, NewestInv
  <2>2. sequence \in Nat
    BY <1>0 DEF TypeOK
  <2> QED
    BY <2>1, <2>2 DEF Entry
<1> HIDE DEF x, n, s
<1>9. JournalView(h)' = JournalView(h) \union {x}
  BY <1>1, <1>2 DEF JournalView
<1>10. \A r \in Sources : newSerials'[h][r] = IF r = s THEN newSerials[h][r] \union {n}
                                              ELSE newSerials[h][r]
  BY <1>0, <1>1, <1>3 DEF TypeOK
<1>11. \A r \in Sources : r # s =>
          /\ EntriesOf(inserts'[h], r) = EntriesOf(inserts[h], r)
          /\ EntriesOf(JournalView(h)', r) = EntriesOf(JournalView(h), r)
  BY <1>1, <1>4, <1>9 DEF EntriesOf
<1>12. EntriesOf(JournalView(h)', s) = EntriesOf(JournalView(h), s) \union {x}
  BY <1>4, <1>9 DEF EntriesOf
<1>13. StageOK(h)'
  <2>1. StageOK(h)
    BY <1>5 DEF HandlerOK
  <2>2. \A r \in Sources :
           EntriesOf(inserts'[h], r) # {} => r \in seen'[h] /\ newSerials'[h][r] # {}
    <3> SUFFICES ASSUME NEW r \in Sources, EntriesOf(inserts'[h], r) # {}
                 PROVE  r \in seen'[h] /\ newSerials'[h][r] # {}
      OBVIOUS
    <3>1. CASE r = s
      <4>1. newSerials'[h][r] = newSerials[h][r] \union {n}
        BY <1>10, <3>1
      <4> QED
        BY <1>1, <3>1, <4>1
    <3>2. CASE r # s
      <4>1. newSerials'[h][r] = newSerials[h][r] /\ EntriesOf(inserts[h], r) # {}
        BY <1>10, <1>11, <3>2
      <4> QED
        BY <1>1, <2>1, <4>1 DEF StageOK
    <3> QED
      BY <3>1, <3>2
  <2> QED
    BY <1>1, <1>2, <1>5, <1>6, <2>1, <2>2 DEF StageOK
<1>14. CoverOK(h)'
  <2> SUFFICES ASSUME NEW r \in Sources, statusWrites'[h][r] # Untouched,
                      EntriesOf(inserts'[h], r) = {}
               PROVE  CoversIn(statusWrites'[h][r], JournalView(h)', r)
    BY <1>2, <1>6 DEF CoverOK
  <2>1. r # s
    BY <1>1, <1>4 DEF EntriesOf
  <2>2. CoversIn(statusWrites[h][r], JournalView(h), r)
    BY <1>2, <1>5, <1>11, <2>1 DEF HandlerOK, CoverOK
  <2> QED
    BY <1>2, <1>11, <2>1, <2>2, CoversLess
<1>15. TopOK(h)'
  <2> SUFFICES ASSUME NEW r \in OwnSerials, newSerials'[h][r] # {},
                      EntriesOf(JournalView(h)', r) # {}
               PROVE  /\ \A e \in EntriesOf(JournalView(h)', r) :
                             \E k \in newSerials'[h][r] : e.serial <= k
                      /\ \E e \in EntriesOf(JournalView(h)', r) :
                             \A k \in newSerials'[h][r] : k <= e.serial
    BY DEF TopOK
  <2>0. r \in Sources
    BY DEF OwnSerials
  <2>1. CASE r = s
    <3>1. \A f \in EntriesOf(JournalView(h), s) : f.serial \in Nat /\ f.serial <= n
      <4>1. \A f \in EntriesOf(JournalView(h), s) : f.serial \in Nat
        BY <1>0, ViewTypes DEF EntriesOf, Entry
      <4> QED
        BY <1>3, <1>7, <2>1, <4>1
    <3>2. newSerials[h][s] \subseteq Nat
      BY <1>0, <1>3 DEF TypeOK
    <3>3. newSerials'[h][s] = newSerials[h][s] \union {n}
      BY <1>3, <1>10
    <3>4. \A e \in EntriesOf(JournalView(h)', s) : e.serial <= n
      BY <1>3, <1>4, <1>12, <3>1
    <3>5. \A k \in newSerials'[h][s] : k <= x.serial
      BY <1>3, <1>4, <1>7, <2>1, <3>2, <3>3
    <3> QED
      BY <1>12, <2>1, <3>3, <3>4, <3>5
  <2>2. CASE r # s
    <3>1. newSerials[h][r] # {} /\ EntriesOf(JournalView(h), r) # {}
      BY <1>10, <1>11, <2>0, <2>2
    <3>2. tableLock[h] = "exclusive" \/ (r \in wiped[h] /\ tableLock[h] = "rowExclusive")
      BY <1>5, <1>6, <2>0, <3>1 DEF HandlerOK, StageOK
    <3>3. tableLock[h] = "exclusive"
      BY <3>1, <3>2, WipedEmpty
    <3> QED
      BY <1>5, <1>10, <1>11, <2>0, <2>2, <3>1, <3>3 DEF HandlerOK, TopOK
  <2> QED
    BY <2>1, <2>2
<1>16. NumberOK(h)'
  <2>1. Numbered(JournalView(h)) /\ JournalView(h) \subseteq Entry
    BY <1>0, ViewNumbered, ViewTypes
  <2>2. Numbered(JournalView(h) \union {x})
    BY <1>4, <1>7, <1>8, <2>1, NumberedWith
  <2> QED
    BY <1>9, <2>2 DEF NumberOK
<1>17. HandlerOK(h)'
  BY <1>13, <1>14, <1>15, <1>16 DEF HandlerOK
<1> QED
  BY <1>2, <1>17, OwnStep

-----------------------------------------------------------------------------
(* The end of a transaction *)

\* finalise_transaction() writes status rows that cover what the transaction sees.
LEMMA FinalisedCovers ==
    ASSUME TypeInv, JournalInv, NEW h \in Handlers, NEW s \in Sources, stage[h] \notin Final
    PROVE  CoversIn(FinalisedStatus(h, s), JournalView(h), s)
<1> DEFINE row == [StatusView(h, s) EXCEPT !.exists = TRUE, !.force = FALSE]
           oldest == OrZero(JournalRange(h, s), Min)
           newest == OrZero(JournalRange(h, s), Max)
<1>0. TypeOK
  BY DEF TypeInv
<1>1. row \in Status /\ row.exists /\ row.oldestJournal = StatusView(h, s).oldestJournal
      /\ row.newestJournal = StatusView(h, s).newestJournal
  BY <1>0, ViewTypes DEF Status
<1>2. CASE newSerials[h][s] = {}
  <2>1. EntriesOf(inserts[h], s) = {}
    BY <1>2 DEF JournalInv, HandlerOK, StageOK
  <2>2. CoversIn(StatusView(h, s), JournalView(h), s)
    <3>1. CASE statusWrites[h][s] = Untouched
      <4>1. CoversIn(status[s], journal, s)
        BY DEF JournalInv, CommittedOK
      <4>2. EntriesOf(JournalView(h), s) \subseteq EntriesOf(journal, s)
        BY <2>1 DEF JournalView, EntriesOf
      <4> QED
        BY <3>1, <4>1, <4>2, CoversLess DEF StatusView
    <3>2. CASE statusWrites[h][s] # Untouched
      BY <2>1, <3>2 DEF JournalInv, HandlerOK, CoverOK, StatusView
    <3> QED
      BY <3>1, <3>2
  <2>3. FinalisedStatus(h, s) = row
    BY <1>2 DEF FinalisedStatus
  <2> HIDE DEF row
  <2> QED
    BY <1>1, <2>2, <2>3 DEF CoversIn
<1>3. CASE newSerials[h][s] # {}
  <2> SUFFICES ASSUME NEW e \in JournalView(h), e.source = s
               PROVE  LET f == FinalisedStatus(h, s)
                      IN  f.exists /\ f.oldestJournal <= e.serial /\ e.serial <= f.newestJournal
    BY DEF CoversIn
  <2>1. e.serial \in Serials(JournalView(h), s)
    BY DEF Serials, EntriesOf
  <2>2. /\ Serials(JournalView(h), s) \subseteq Nat
        /\ \A n \in Serials(JournalView(h), s) : n <= Max(Serials(JournalView(h), s))
        /\ \A n \in Serials(JournalView(h), s) : Min(Serials(JournalView(h), s)) <= n
    BY <2>1, JournalMax, MinExists
  <2>3. oldest <= e.serial /\ e.serial <= newest
    BY <2>1, <2>2 DEF OrZero, JournalRange
  <2>4. /\ FinalisedStatus(h, s).exists /\ FinalisedStatus(h, s).oldestJournal = oldest
        /\ FinalisedStatus(h, s).newestJournal = newest
    <3> DEFINE a == OrZero({row.oldestSeen, oldest, Min(newSerials[h][s])} \ {0}, Min)
               b == Max({row.newestSeen, newest, Max(newSerials[h][s])})
    <3>1. FinalisedStatus(h, s) = [row EXCEPT !.oldestSeen = a, !.newestSeen = b,
                                              !.oldestJournal = oldest, !.newestJournal = newest]
      BY <1>3 DEF FinalisedStatus
    <3> HIDE DEF row, a, b, oldest, newest
    <3> QED
      BY <1>1, <3>1 DEF Status
  <2> QED
    BY <2>3, <2>4
<1> QED
  BY <1>2, <1>3

\* finalise_transaction(), which locks the status rows it writes.
LEMMA FinaliseStep ==
    ASSUME TypeInv, JournalInv, NEW h \in Handlers, Frame(h), FinaliseTransaction(h)
    PROVE  JournalInv'
<1>0. TypeOK
  BY DEF TypeInv
<1>1. /\ stage[h] \in {"open", "closing"} /\ pending[h] = {}
      /\ \A s \in seen[h] : StatusFree(h, s)
      /\ stage'[h] \in {"precommit", "finalised"}
      /\ \A s \in Sources : statusWrites'[h][s] = IF s \in seen[h] THEN FinalisedStatus(h, s)
                                                  ELSE statusWrites[h][s]
  BY <1>0 DEF FinaliseTransaction, TypeOK
<1>2. UNCHANGED <<journal, status, pending, inserts, deletes, newSerials, seen, wiped, tableLock>>
  BY DEF FinaliseTransaction, databaseVars
<1>3. HandlerOK(h) /\ stage[h] \notin Final /\ stage'[h] \in Final
  BY <1>1 DEF JournalInv, Final
<1>4. \A s \in Sources : FinalisedStatus(h, s) # Untouched
  BY FinalisedStatusType, MarkerAssumption
<1>5. JournalView(h)' = JournalView(h)
  BY <1>2 DEF JournalView
<1>6. StageOK(h)'
  <2>1. StageOK(h)
    BY <1>3 DEF HandlerOK
  <2>2. \A s \in Sources : EntriesOf(inserts[h], s) # {} => statusWrites'[h][s] # Untouched
    BY <1>1, <1>4, <2>1 DEF StageOK
  <2> QED
    BY <1>1, <1>2, <1>3, <2>1, <2>2 DEF StageOK, Final
<1>7. CoverOK(h)'
  <2> SUFFICES ASSUME NEW s \in Sources, statusWrites'[h][s] # Untouched
               PROVE  CoversIn(statusWrites'[h][s], JournalView(h)', s)
    BY DEF CoverOK
  <2>1. CASE s \in seen[h]
    BY <1>1, <1>3, <1>5, <2>1, FinalisedCovers
  <2>2. CASE s \notin seen[h]
    <3>1. EntriesOf(inserts[h], s) = {}
      BY <1>3, <2>2 DEF HandlerOK, StageOK
    <3> QED
      BY <1>1, <1>3, <1>5, <2>2, <3>1 DEF HandlerOK, CoverOK
  <2> QED
    BY <2>1, <2>2
<1>8. TopOK(h)' /\ NumberOK(h)'
  BY <1>2, <1>3, <1>5 DEF HandlerOK, TopOK, NumberOK
<1>9. HandlerOK(h)'
  BY <1>6, <1>7, <1>8 DEF HandlerOK
<1>10. \A s \in Sources : statusWrites'[h][s] # Untouched =>
          statusWrites[h][s] # Untouched \/ StatusFree(h, s)
  BY <1>1
<1> QED
  BY <1>2, <1>9, <1>10, OwnStep

\* What is committed was covered, and numbered, in the transaction.
LEMMA CommitCommitted ==
    ASSUME TypeInv, LockInv, JournalInv, NEW h \in Handlers, CommitTransaction(h),
           stage[h] \in Final
    PROVE  CommittedOK'
<1>1. journal' = JournalView(h) /\ \A s \in Sources : status'[s] = StatusView(h, s)
  BY DEF CommitTransaction
<1>2. Numbered(journal')
  BY <1>1, ViewNumbered DEF TypeInv
<1>3. ASSUME NEW s \in Sources
      PROVE  CoversIn(status'[s], journal', s)
  <2>1. CASE statusWrites[h][s] = Untouched
    <3>1. EntriesOf(inserts[h], s) = {}
      BY <2>1 DEF JournalInv, HandlerOK, StageOK
    <3>2. CoversIn(status[s], journal, s)
      BY DEF JournalInv, CommittedOK
    <3>3. EntriesOf(journal', s) \subseteq EntriesOf(journal, s)
      BY <1>1, <3>1 DEF JournalView, EntriesOf
    <3> QED
      BY <1>1, <2>1, <3>2, <3>3, CoversLess DEF StatusView
  <2>2. CASE statusWrites[h][s] # Untouched
    BY <1>1, <2>2 DEF JournalInv, HandlerOK, CoverOK, StatusView
  <2> QED
    BY <2>1, <2>2
<1> QED
  BY <1>2, <1>3 DEF CommittedOK

\* A commit does not disturb the other transactions: those that hold a lock on the
\* journal keep others from adding to it.
LEMMA CommitOthers ==
    ASSUME TypeInv, LockInv, JournalInv, NEW h \in Handlers, CommitTransaction(h),
           stage[h] \in Final, Frame(h), NEW g \in Handlers \ {h}
    PROVE  HandlerOK(g)'
<1>0. /\ stage'[g] = stage[g] /\ pending'[g] = pending[g] /\ seen'[g] = seen[g]
      /\ wiped'[g] = wiped[g] /\ inserts'[g] = inserts[g] /\ deletes'[g] = deletes[g]
      /\ tableLock'[g] = tableLock[g] /\ newSerials'[g] = newSerials[g]
      /\ statusWrites'[g] = statusWrites[g]
  BY DEF Frame
<1>1. HandlerOK(g) /\ HandlerOK(h)
  BY DEF JournalInv
<1>2. journal' = (journal \ deletes[h]) \union inserts[h]
  BY DEF CommitTransaction, JournalView
<1>3. tableLock[g] # "none" => journal' \subseteq journal
  <2>1. tableLock[g] # "none" => inserts[h] = {}
    BY DEF LockInv, ExclusionInv
  <2> QED
    BY <1>2, <2>1
<1>4. tableLock[g] = "exclusive" => journal' = journal
  <2>1. tableLock[g] = "exclusive" => inserts[h] = {} /\ deletes[h] = {}
    BY DEF LockInv, ExclusionInv
  <2> QED
    BY <1>2, <2>1
<1>5. tableLock[g] = "exclusive" => JournalView(g)' = JournalView(g)
  BY <1>0, <1>4 DEF JournalView
<1>6. StageOK(g)'
  <2>1. StageOK(g)
    BY <1>1 DEF HandlerOK
  <2>2. \A s \in wiped[g] : stage[g] # "wipe" => EntriesOf(journal', s) \subseteq deletes[g]
    <3> SUFFICES ASSUME NEW s \in wiped[g], stage[g] # "wipe"
                 PROVE  EntriesOf(journal', s) \subseteq deletes[g]
      OBVIOUS
    <3>1. tableLock[g] # "none" /\ EntriesOf(journal, s) \subseteq deletes[g]
      BY <2>1 DEF StageOK
    <3> QED
      BY <1>3, <3>1 DEF EntriesOf
  <2> QED
    BY <1>0, <2>1, <2>2 DEF StageOK
<1>7. CoverOK(g)'
  <2> SUFFICES ASSUME NEW s \in Sources, statusWrites[g][s] # Untouched,
                      stage[g] \in Final \/ EntriesOf(inserts[g], s) = {}
               PROVE  CoversIn(statusWrites[g][s], JournalView(g)', s)
    BY <1>0 DEF CoverOK
  <2>1. statusWrites[h][s] = Untouched
    BY DEF JournalInv, RowLockInv
  <2>2. EntriesOf(inserts[h], s) = {}
    BY <1>1, <2>1 DEF HandlerOK, StageOK
  <2>3. EntriesOf(JournalView(g)', s) \subseteq EntriesOf(JournalView(g), s)
    BY <1>0, <1>2, <2>2 DEF JournalView, EntriesOf
  <2>4. CoversIn(statusWrites[g][s], JournalView(g), s)
    BY <1>1 DEF HandlerOK, CoverOK
  <2> QED
    BY <2>3, <2>4, CoversLess
<1>8. TopOK(g)'
  BY <1>0, <1>1, <1>5 DEF HandlerOK, TopOK
<1>9. NumberOK(g)'
  BY <1>0, <1>1, <1>5 DEF HandlerOK, NumberOK, LockInv, ExclusionInv
<1> QED
  BY <1>6, <1>7, <1>8, <1>9 DEF HandlerOK

\* The handler that commits, or rolls back, has released its locks.
LEMMA CommitStep ==
    ASSUME TypeInv, LockInv, JournalInv, NEW h \in Handlers, Frame(h), CommitTransaction(h),
           stage[h] \in Final, HandlerOK(h)'
    PROVE  JournalInv'
<1>1. CommittedOK' /\ \A g \in Handlers : HandlerOK(g)'
  BY CommitCommitted, CommitOthers
<1>2. \A s \in Sources : statusWrites'[h][s] = Untouched
  BY DEF CommitTransaction, TypeInv, TypeOK, NoStatusWrites
<1>3. RowLockInv'
  BY <1>2 DEF JournalInv, RowLockInv, Frame
<1> QED
  BY <1>1, <1>3 DEF JournalInv

\* The commit of an import before its evaluation.
LEMMA IntermediateStep ==
    ASSUME TypeInv, LockInv, JournalInv, NEW h \in Handlers, Frame(h), IntermediateCommit(h)
    PROVE  JournalInv'
<1>1. /\ CommitTransaction(h) /\ stage[h] \in Final /\ stage'[h] = "precommit"
      /\ UNCHANGED <<pending, newSerials, seen>>
  BY DEF IntermediateCommit, Final, TypeInv, TypeOK
<1>2. /\ inserts'[h] = {} /\ deletes'[h] = {} /\ tableLock'[h] = "none" /\ wiped'[h] = {}
      /\ \A s \in Sources : statusWrites'[h][s] = Untouched
  BY <1>1 DEF CommitTransaction, TypeInv, TypeOK, NoStatusWrites
<1>3. pending[h] = {}
  BY <1>1 DEF JournalInv, HandlerOK, StageOK
<1>4. \A s \in Sources : EntriesOf(inserts'[h], s) = {}
  BY <1>2 DEF EntriesOf
<1>5. StageOK(h)'
  BY <1>1, <1>2, <1>3, <1>4 DEF StageOK, Final
<1>6. CoverOK(h)' /\ TopOK(h)' /\ NumberOK(h)'
  BY <1>2 DEF CoverOK, TopOK, NumberOK
<1>7. HandlerOK(h)'
  BY <1>5, <1>6 DEF HandlerOK
<1> QED
  BY <1>1, <1>7, CommitStep

\* commit() and rollback().
LEMMA EndStep ==
    ASSUME TypeInv, TypeOK', LockInv, JournalInv, NEW h \in Handlers, Frame(h),
           Commit(h) \/ Rollback(h)
    PROVE  JournalInv'
<1>1. stage'[h] = "idle" /\ wiped'[h] = {} /\ Fresh(h)'
  <2>1. CASE Commit(h)
    BY <2>1 DEF Commit, CommitTransaction, Reset, Fresh, TypeInv, TypeOK
  <2>2. CASE Rollback(h)
    BY <2>2 DEF Rollback, Reset, Fresh, TypeInv, TypeOK
  <2> QED
    BY <2>1, <2>2
<1>2. HandlerOK(h)'
  BY <1>1, FreshOK
<1>3. CASE Commit(h)
  <2>1. CommitTransaction(h) /\ stage[h] \in Final
    BY <1>3 DEF Commit, Final
  <2> QED
    BY <1>2, <2>1, CommitStep
<1>4. CASE Rollback(h)
  <2>1. journal' = journal /\ status' = status
    BY <1>4 DEF Rollback, databaseVars
  <2>2. \A s \in Sources : statusWrites'[h][s] = Untouched
    BY <1>1 DEF Fresh, NoStatusWrites
  <2> QED
    BY <1>2, <2>1, <2>2, OwnStep
<1> QED
  BY <1>3, <1>4

-----------------------------------------------------------------------------
(* The invariant *)

\* There is no journal at first.
LEMMA JournalInit == Init => JournalInv
<1> SUFFICES ASSUME Init PROVE JournalInv
  OBVIOUS
<1>1. /\ journal = {}
      /\ \A h \in Handlers :
            /\ stage[h] = "idle" /\ pending[h] = {} /\ wiped[h] = {} /\ inserts[h] = {}
            /\ tableLock[h] = "none"
            /\ \A s \in Sources : newSerials[h][s] = {} /\ statusWrites[h][s] = Untouched
  BY DEF Init, NoSerials, NoStatusWrites
<1>2. CommittedOK /\ RowLockInv
  BY <1>1 DEF CommittedOK, RowLockInv, Numbered, CoversIn
<1>3. ASSUME NEW h \in Handlers PROVE HandlerOK(h)
  <2>1. StageOK(h)
    BY <1>1 DEF StageOK, Final, EntriesOf
  <2>2. CoverOK(h) /\ TopOK(h) /\ NumberOK(h)
    BY <1>1 DEF CoverOK, TopOK, NumberOK
  <2> QED
    BY <2>1, <2>2 DEF HandlerOK
<1> QED
  BY <1>2, <1>3 DEF JournalInv

\* Without route preference, pre_commit() goes straight on to the commit.
LEMMA NoEvaluation ==
    ASSUME ~PreferenceEnabled, TypeOK, JournalInv, NEW h \in Handlers
    PROVE  /\ PreCommit(h) => stage'[h] = "commit"
           /\ ~RoutePreferenceUpdateRunner(h) /\ ~EnrichPks(h) /\ ~UpdateRoutePreferenceStatus(h)
<1>1. ASSUME PreCommit(h) PROVE stage'[h] = "commit"
  <2>1. stage' = [stage EXCEPT ![h] = "commit"]
    BY <1>1, Zenon DEF PreCommit
  <2> QED
    BY <2>1 DEF TypeOK
<1>2. ~RoutePreferenceUpdateRunner(h)
  BY DEF RoutePreferenceUpdateRunner
<1>3. StageOK(h)
  BY DEF JournalInv, HandlerOK
<1>4. ~EnrichPks(h) /\ ~UpdateRoutePreferenceStatus(h)
  BY <1>3 DEF StageOK, Final, EnrichPks, UpdateRoutePreferenceStatus
<1> QED
  BY <1>1, <1>2, <1>4

\* Every step keeps JournalInv, if there is no route preference.
LEMMA JournalNext ==
    ASSUME ~PreferenceEnabled, TypeInv, TypeOK', LockInv, JournalInv, NEW h \in Handlers,
           Change(h) \/ Administer(h) \/ Finish(h)
    PROVE  JournalInv'
<1>0. Frame(h) /\ TypeOK
  BY FrameStep DEF TypeInv
<1>1. ASSUME NEW o, NEW t, NEW n, UpsertRpslObject(h, o, t, n) PROVE JournalInv'
  <2>1. Plain(h)
    BY <1>0, <1>1 DEF UpsertRpslObject, Ready, databaseVars, Plain, TypeOK
  <2> QED
    BY <1>0, <2>1, PlainStep
<1>2. ASSUME NEW o, NEW n, DeleteRpslObject(h, o, n) PROVE JournalInv'
  <2>1. Plain(h)
    BY <1>0, <1>2 DEF DeleteRpslObject, Ready, databaseVars, Plain, TypeOK
  <2> QED
    BY <1>0, <2>1, PlainStep
<1>3. CASE FlushRpslObjectWritingBuffer(h)
  <2>1. stage[h] = "open" /\ stage' = stage
        /\ UNCHANGED <<journal, status, inserts, deletes, tableLock, newSerials, statusWrites, wiped,
                       seen>>
    BY <1>3 DEF FlushRpslObjectWritingBuffer, databaseVars
  <2>2. Plain(h)
    BY <2>1 DEF Plain
  <2> QED
    BY <1>0, <2>2, PlainStep
<1>4. ASSUME NEW i \in pending[h], RecordOperation(h, i) PROVE JournalInv'
  <2>1. CASE journaling[h] /\ SourceOf[i.obj] \in KeepJournal
    BY <1>0, <1>4, <2>1, InsertStep
  <2>2. CASE ~(journaling[h] /\ SourceOf[i.obj] \in KeepJournal)
    <3>1. Plain(h)
      BY <1>0, <1>4, <2>2 DEF RecordOperation, Plain, TypeOK
    <3> QED
      BY <1>0, <3>1, PlainStep
  <2> QED
    BY <2>1, <2>2
<1>5. ASSUME NEW s \in Sources, DeleteAllRpslObjects(h, s) PROVE JournalInv'
  BY <1>0, <1>5, WipeStep
<1>6. CASE DeleteAllJournalEntries(h)
  BY <1>0, <1>6, WipeJournalStep
<1>7. CASE EnableJournaling(h)
  <2>1. Plain(h)
    BY <1>0, <1>7 DEF EnableJournaling, Ready, databaseVars, Plain, TypeOK
  <2> QED
    BY <1>0, <2>1, PlainStep
<1>8. ASSUME NEW s \in Sources, NEW n, RecordSerialSeen(h, s, n) PROVE JournalInv'
  BY <1>0, <1>8, SerialSeenStep
<1>9. ASSUME NEW s, RecordStatus(h, s) PROVE JournalInv'
  <2>1. Plain(h)
    BY <1>0, <1>9 DEF RecordStatus, Ready, databaseVars, Plain, TypeOK
  <2> QED
    BY <1>0, <2>1, PlainStep
<1>10. ASSUME NEW s, NEW g, DeleteJournalEntriesBeforeDate(h, s, g) PROVE JournalInv'
  BY <1>0, <1>10, ExpireStep
<1>11. ASSUME NEW s \in Sources, SetForceReload(h, s) PROVE JournalInv'
  BY <1>0, <1>11, ForceReloadStep
<1>12. CASE FinaliseTransaction(h)
  BY <1>0, <1>12, FinaliseStep
<1>13. CASE IntermediateCommit(h)
  BY <1>0, <1>13, IntermediateStep
<1>14. CASE PreCommit(h)
  <2>1. stage[h] \in Final /\ stage'[h] \in Final
    BY <1>0, <1>14, NoEvaluation DEF PreCommit, Final
  <2>2. UNCHANGED <<journal, status, inserts, deletes, tableLock, newSerials, statusWrites, wiped,
                    seen, pending>>
    BY <1>14 DEF PreCommit, databaseVars
  <2>3. Plain(h)
    BY <2>1, <2>2 DEF Plain
  <2> QED
    BY <1>0, <2>3, PlainStep
<1>15. CASE Commit(h) \/ Rollback(h)
  BY <1>0, <1>15, EndStep
<1>16. ~RoutePreferenceUpdateRunner(h) /\ ~EnrichPks(h) /\ ~UpdateRoutePreferenceStatus(h)
  BY <1>0, NoEvaluation
<1> QED
  BY <1>1, <1>2, <1>3, <1>4, <1>5, <1>6, <1>7, <1>8, <1>9, <1>10, <1>11, <1>12, <1>13, <1>14,
     <1>15, <1>16 DEF Change, Administer, Finish

\* Without route preference, the journal and its status rows keep JournalInv
\* whatever transactions do.
THEOREM JournalInvariant == ASSUME ~PreferenceEnabled PROVE Spec => []JournalInv
<1>1. TypeInv /\ TypeInv' /\ LockInv /\ JournalInv /\ [Next]_vars => JournalInv'
  <2> SUFFICES ASSUME TypeInv, TypeInv', LockInv, JournalInv, [Next]_vars PROVE JournalInv'
    OBVIOUS
  <2>1. CASE Next
    <3>1. TypeOK'
      BY DEF TypeInv
    <3>2. PICK h \in Handlers : Change(h) \/ Administer(h) \/ Finish(h)
      BY <2>1 DEF Next
    <3> QED
      BY <3>1, <3>2, JournalNext
  <2>2. CASE UNCHANGED vars
    <3>1. UNCHANGED <<journal, status, stage, pending, inserts, deletes, statusWrites, tableLock,
                      newSerials, seen, wiped>>
      BY <2>2 DEF vars, databaseVars, txVars
    <3>2. \A h \in Handlers : JournalView(h)' = JournalView(h)
      BY <3>1 DEF JournalView
    <3>3. \A h \in Handlers : HandlerOK(h)'
      BY <3>1, <3>2 DEF JournalInv, HandlerOK, StageOK, CoverOK, TopOK, NumberOK
    <3> QED
      BY <3>1, <3>3 DEF JournalInv, CommittedOK, RowLockInv
  <2> QED
    BY <2>1, <2>2
<1> QED
  BY TypeInvariant, LockInvariant, JournalInit, <1>1, PTL DEF Spec

\* The status row that finalise_transaction() leaves covers every entry of the journal,
\* whatever commits, expires or fails meanwhile.
THEOREM StatusCovers == ASSUME ~PreferenceEnabled PROVE Spec => []StatusCoversJournal
<1>1. JournalInv => StatusCoversJournal
  BY DEF JournalInv, CommittedOK, CoversIn, StatusCoversJournal
<1> QED
  BY JournalInvariant, <1>1, PTL

\* A commit is a step of JournalLog: it adds what is newest, under the lock, removes what
\* is oldest, and keeps the numbering.
LEMMA LogStep ==
    ASSUME TypeOK, TypeOK', LockInv, JournalInv', NEW h \in Handlers, CommitTransaction(h)
    PROVE  JournalReader!Next
<1>1. journal' = (journal \ deletes[h]) \union inserts[h]
  BY DEF CommitTransaction, JournalView
<1>2. JournalReader!AppendsNewest
  <2>1. \A e \in inserts[h], f \in journal : f.glob < e.glob
    BY DEF LockInv, NewestInv
  <2>2. \A e \in inserts[h], f \in journal : e.glob > f.glob
    BY <2>1
  <2> QED
    BY <1>1, <2>2 DEF JournalReader!AppendsNewest, JournalReader!Newer
<1>3. JournalReader!RemovesOldest
  <2> SUFFICES ASSUME NEW e \in journal \ journal', NEW f \in journal', e.source = f.source
               PROVE  f.glob > e.glob
    BY DEF JournalReader!RemovesOldest, JournalReader!Newer
  <2>1. e \in deletes[h]
    BY <1>1
  <2>2. CASE f \in inserts[h]
    BY <2>2 DEF LockInv, NewestInv
  <2>3. CASE f \in journal \ deletes[h]
    <3>1. e.glob \in Nat /\ f.glob \in Nat
      BY <2>3 DEF TypeOK, Entry
    <3>2. ~(f.glob <= e.glob)
      BY <2>1, <2>3 DEF LockInv, OldestInv
    <3> QED
      BY <3>1, <3>2
  <2> QED
    BY <1>1, <2>2, <2>3
<1>4. JournalReader!KeepsNumbering
  <2>1. Numbered(journal)'
    BY DEF JournalInv, CommittedOK
  <2> SUFFICES ASSUME NEW e \in journal', NEW f \in journal', e.source = f.source,
                      e.source \notin SyncSources
               PROVE  /\ e.serial < f.serial <=> f.glob > e.glob
                      /\ \A n \in e.serial .. f.serial :
                             n \in JournalReader!SerialsIn(journal', e.source)
    BY DEF JournalReader!KeepsNumbering, JournalReader!Newer
  <2>2. /\ e.source \in OwnSerials /\ e.glob \in Nat /\ f.glob \in Nat
    BY DEF TypeOK, Entry, OwnSerials
  <2> QED
    BY <2>1, <2>2 DEF Numbered, Serials, EntriesOf, JournalReader!SerialsIn
<1> QED
  BY <1>2, <1>3, <1>4 DEF JournalReader!Next

\* Without route preference, the journal implements JournalLog, whatever transactions do:
\* its serials have no gaps and follow serial_global, and readers that remember the
\* highest of either miss nothing.
THEOREM JournalImplementsLog == ASSUME ~PreferenceEnabled PROVE Spec => JournalRefinement
<1>1. Init => JournalReader!Init
  BY DEF Init, JournalReader!Init
<1>2. TypeInv /\ TypeInv' /\ LockInv /\ JournalInv' /\ [Next]_vars => [JournalReader!Next]_journal
  <2> SUFFICES ASSUME TypeInv, TypeInv', LockInv, JournalInv', Next, journal' # journal
               PROVE  JournalReader!Next
    BY DEF vars, databaseVars
  <2>1. PICK h \in Handlers : Change(h) \/ Administer(h) \/ Finish(h)
    BY DEF Next
  <2> QED
    BY <2>1, JournalStep, LogStep DEF TypeInv
<1> QED
  BY TypeInvariant, LockInvariant, JournalInvariant, <1>1, <1>2, PTL
     DEF Spec, JournalRefinement, JournalReader!Spec

-----------------------------------------------------------------------------
(* Serials are not reused. What was visible last is remembered by the       *)
(* journal, and by the status row once the journal has expired.              *)

HighCommitted ==
    \A s \in Sources :
        /\ ~status[s].exists => status[s].newestSeen = 0
        /\ s \in OwnSerials => highest[s] <= status[s].newestSeen
        /\ s \in OwnSerials /\ EntriesOf(journal, s) # {} =>
               \E e \in EntriesOf(journal, s) : highest[s] <= e.serial

\* A status row that is not committed forgets the serials last seen only for a
\* reload, which is done in the same transaction or is ordered by it.
HighRow(h, s) ==
    statusWrites[h][s] # Untouched =>
        /\ ~statusWrites[h][s].exists => statusWrites[h][s].newestSeen = 0
        /\ stage[h] \notin Final => s \in wiped[h] \/ stage[h] = "closing"
        /\ s \in OwnSerials =>
              s \in wiped[h] \/ statusWrites[h][s].force \/ highest[s] <= statusWrites[h][s].newestSeen
        /\ s \in OwnSerials /\ stage[h] \in Final =>
              \A e \in inserts[h] : e.source = s => e.serial <= statusWrites[h][s].newestSeen

HighSerials(h, s) ==
    s \in OwnSerials \ wiped[h] =>
        /\ \A e \in inserts[h] : e.source = s => highest[s] < e.serial
        /\ stage[h] \notin Final => \A n \in newSerials[h][s] : highest[s] < n

HighHandler(h) ==
    /\ stage[h] \in {"idle", "wipe", "closing"} => seen[h] = {}
    /\ \A s \in Sources : HighRow(h, s) /\ HighSerials(h, s)

HighInv == HighCommitted /\ \A h \in Handlers : HighHandler(h)

\* No serial is visible at first.
LEMMA HighInit == Init => HighInv
<1> SUFFICES ASSUME Init PROVE HighInv
  OBVIOUS
<1>1. /\ journal = {}
      /\ \A s \in Sources : status[s] = NoStatus /\ highest[s] = 0
      /\ \A h \in Handlers :
            /\ seen[h] = {} /\ inserts[h] = {}
            /\ \A s \in Sources : newSerials[h][s] = {} /\ statusWrites[h][s] = Untouched
  BY DEF Init, NoSerials, NoStatusWrites
<1>2. HighCommitted
  BY <1>1 DEF HighCommitted, NoStatus, EntriesOf
<1>3. \A h \in Handlers : HighHandler(h)
  BY <1>1 DEF HighHandler, HighRow, HighSerials
<1> QED
  BY <1>2, <1>3 DEF HighInv

\* A step that does not commit leaves the other handlers and the database alone.
LEMMA HighOwn ==
    ASSUME HighInv, NEW h \in Handlers, Frame(h), UNCHANGED <<journal, status, highest>>,
           HighHandler(h)'
    PROVE  HighInv'
<1>1. HighCommitted'
  BY DEF HighInv, HighCommitted
<1>2. ASSUME NEW g \in Handlers \ {h} PROVE HighHandler(g)'
  <2>1. /\ stage'[g] = stage[g] /\ seen'[g] = seen[g] /\ wiped'[g] = wiped[g]
        /\ inserts'[g] = inserts[g] /\ newSerials'[g] = newSerials[g]
        /\ statusWrites'[g] = statusWrites[g]
    BY DEF Frame
  <2>2. HighHandler(g)
    BY DEF HighInv
  <2> QED
    BY <2>1, <2>2 DEF HighHandler, HighRow, HighSerials
<1> QED
  BY <1>1, <1>2 DEF HighInv

\* Steps that touch neither the journal nor the status rows.
LEMMA HighPlain ==
    ASSUME LockInv, HighInv, NEW h \in Handlers, Frame(h), Plain(h), highest' = highest,
           seen'[h] = seen[h] \/ stage'[h] = "open"
    PROVE  HighInv'
<1>0. /\ UNCHANGED <<journal, status>>
      /\ inserts'[h] = inserts[h] /\ newSerials'[h] = newSerials[h]
      /\ statusWrites'[h] = statusWrites[h] /\ wiped'[h] = wiped[h]
  BY DEF Plain
<1>1. HighHandler(h)
  BY DEF HighInv
<1>2. /\ stage'[h] \in Final <=> stage[h] \in Final
      /\ stage[h] = "closing" => stage'[h] = "closing"
      /\ stage'[h] \in {"idle", "wipe", "closing"} => stage'[h] = stage[h]
  BY DEF Plain, Final
<1>3. stage'[h] \in {"idle", "wipe", "closing"} => seen'[h] = {}
  BY <1>1, <1>2 DEF HighHandler
<1>4. ASSUME NEW s \in Sources PROVE HighRow(h, s)' /\ HighSerials(h, s)'
  BY <1>0, <1>1, <1>2 DEF HighHandler, HighRow, HighSerials
<1>5. HighHandler(h)'
  BY <1>3, <1>4 DEF HighHandler
<1> QED
  BY <1>0, <1>5, HighOwn

\* The steps of a transaction that has recorded nothing.
LEMMA HighFresh ==
    ASSUME HighInv, NEW h \in Handlers, Frame(h), UNCHANGED <<journal, status, highest>>,
           inserts'[h] = {}, stage'[h] \in {"idle", "wipe", "closing"} => seen'[h] = {},
           \A s \in Sources : newSerials'[h][s] = {} /\ HighRow(h, s)'
    PROVE  HighInv'
<1>1. HighHandler(h)'
  BY DEF HighHandler, HighSerials
<1> QED
  BY <1>1, HighOwn

\* Deletions of the journal, and set_force_reload().
LEMMA HighAdminister ==
    ASSUME TypeOK, LockInv, JournalInv, HighInv, NEW h \in Handlers, Frame(h),
           \/ \E s \in Sources : DeleteAllRpslObjects(h, s)
           \/ DeleteAllJournalEntries(h)
           \/ \E s, g : DeleteJournalEntriesBeforeDate(h, s, g)
           \/ \E s \in Sources : SetForceReload(h, s)
    PROVE  HighInv'
<1>0. HighHandler(h)
  BY DEF HighInv
<1>1. ASSUME NEW s \in Sources, DeleteAllRpslObjects(h, s) PROVE HighInv'
  <2>1. stage[h] = "idle" /\ stage'[h] = "wipe"
        /\ UNCHANGED <<journal, status, highest, inserts, statusWrites, newSerials, seen>>
    BY <1>1 DEF DeleteAllRpslObjects, databaseVars, ghostVars, TypeOK
  <2>2. inserts[h] = {} /\ \A r \in Sources : newSerials[h][r] = {} /\ statusWrites[h][r] = Untouched
    BY <2>1, FreshFields
  <2> QED
    BY <1>0, <2>1, <2>2, HighFresh DEF HighHandler, HighRow
<1>2. CASE DeleteAllJournalEntries(h)
  <2>1. PICK s \in wiped[h] :
           /\ statusWrites' = IF status[s].exists
                              THEN [statusWrites EXCEPT ![h][s] = NoStatus]
                              ELSE statusWrites
    BY <1>2 DEF DeleteAllJournalEntries
  <2>2. stage[h] = "wipe" /\ stage'[h] = "open"
        /\ UNCHANGED <<journal, status, highest, inserts, newSerials, seen, wiped>>
    BY <1>2 DEF DeleteAllJournalEntries, databaseVars, ghostVars, TypeOK
  <2>3. inserts[h] = {} /\ \A r \in Sources : newSerials[h][r] = {} /\ statusWrites[h][r] = Untouched
    BY <2>2, FreshFields
  <2>4. \A r \in Sources : statusWrites'[h][r] # Untouched => r = s /\ statusWrites'[h][r] = NoStatus
    BY <2>1, <2>3 DEF TypeOK
  <2>5. \A r \in Sources : HighRow(h, r)'
    BY <2>2, <2>3, <2>4 DEF HighRow, NoStatus
  <2> QED
    BY <2>2, <2>3, <2>5, HighFresh
<1>3. ASSUME NEW s, NEW g, DeleteJournalEntriesBeforeDate(h, s, g) PROVE HighInv'
  <2>1. stage[h] = "idle" /\ stage'[h] = "closing"
        /\ UNCHANGED <<journal, status, highest, inserts, statusWrites, newSerials, seen>>
    BY <1>3 DEF DeleteJournalEntriesBeforeDate, databaseVars, ghostVars, TypeOK
  <2>2. inserts[h] = {} /\ \A r \in Sources : newSerials[h][r] = {} /\ statusWrites[h][r] = Untouched
    BY <2>1, FreshFields
  <2> QED
    BY <1>0, <2>1, <2>2, HighFresh DEF HighHandler, HighRow
<1>4. ASSUME NEW s \in Sources, SetForceReload(h, s) PROVE HighInv'
  <2> DEFINE row == [status[s] EXCEPT !.force = TRUE, !.oldestSeen = 0, !.newestSeen = 0]
  <2>1. stage[h] = "idle" /\ stage'[h] = "closing"
        /\ statusWrites' = [statusWrites EXCEPT ![h][s] = row]
        /\ UNCHANGED <<journal, status, highest, inserts, newSerials, seen>>
    BY <1>4 DEF SetForceReload, databaseVars, ghostVars, TypeOK
  <2>2. inserts[h] = {} /\ \A r \in Sources : newSerials[h][r] = {} /\ statusWrites[h][r] = Untouched
    BY <2>1, FreshFields
  <2>3. row.force /\ row.newestSeen = 0
    BY DEF TypeOK, Status
  <2> HIDE DEF row
  <2>4. \A r \in Sources : statusWrites'[h][r] # Untouched => r = s /\ statusWrites'[h][r] = row
    BY <2>1, <2>2 DEF TypeOK
  <2>5. \A r \in Sources : HighRow(h, r)'
    BY <2>1, <2>2, <2>3, <2>4 DEF HighRow, Final
  <2> QED
    BY <1>0, <2>1, <2>2, <2>5, HighFresh DEF HighHandler
<1> QED
  BY <1>1, <1>2, <1>3, <1>4

\* record_serial_seen() is for sources that are reloaded.
LEMMA HighSerialSeen ==
    ASSUME TypeOK, LockInv, HighInv, NEW h \in Handlers, Frame(h), NEW s \in Sources, NEW n,
           RecordSerialSeen(h, s, n)
    PROVE  HighInv'
<1>1. /\ s \in wiped[h] /\ ~journaling[h] /\ stage[h] \in {"idle", "open"}
      /\ newSerials' = [newSerials EXCEPT ![h][s] = {n}]
      /\ UNCHANGED <<journal, status, highest, stage, inserts, statusWrites, wiped>>
  BY DEF RecordSerialSeen, Ready, databaseVars, ghostVars
<1>2. \A r \in Sources \ wiped[h] : newSerials'[h][r] = newSerials[h][r]
  BY <1>1 DEF TypeOK
<1>3. stage[h] = "open"
  BY <1>1 DEF LockInv, FreshInv, Fresh
<1>4. HighHandler(h)
  BY DEF HighInv
<1>5. ASSUME NEW r \in Sources PROVE HighRow(h, r)' /\ HighSerials(h, r)'
  BY <1>1, <1>2, <1>4 DEF HighHandler, HighRow, HighSerials
<1>6. HighHandler(h)'
  BY <1>1, <1>3, <1>5 DEF HighHandler
<1> QED
  BY <1>1, <1>6, HighOwn

\* Expiry and reloads leave the newest entries of what they do not empty.
LEMMA HighestStays ==
    ASSUME TypeOK, LockInv, JournalInv, NEW h \in Handlers, NEW s \in OwnSerials,
           NEW e \in EntriesOf(journal, s), NEW f \in EntriesOf(journal \ deletes[h], s)
    PROVE  \E x \in EntriesOf(journal \ deletes[h], s) : e.serial <= x.serial
<1>1. /\ e \in journal /\ f \in journal /\ e.source = s /\ f.source = s /\ f \notin deletes[h]
      /\ e.serial \in Nat /\ f.serial \in Nat /\ e.glob \in Nat /\ f.glob \in Nat
  BY DEF TypeOK, Entry, EntriesOf
<1>2. CASE e \notin deletes[h]
  BY <1>1, <1>2 DEF EntriesOf
<1>3. CASE e \in deletes[h]
  <2>1. ~(f.glob <= e.glob)
    BY <1>1, <1>3 DEF LockInv, OldestInv
  <2>2. e.glob < f.glob
    BY <1>1, <2>1
  <2>3. e.serial < f.serial
    BY <1>1, <2>2 DEF JournalInv, CommittedOK, Numbered
  <2> QED
    BY <1>1, <2>3
<1> QED
  BY <1>2, <1>3

\* The serial that record_operation() gives is higher than all that were visible.
LEMMA NextSerialHigh ==
    ASSUME TypeInv, LockInv, JournalInv, HighInv, NEW h \in Handlers, stage[h] = "open",
           NEW s \in OwnSerials \ wiped[h], NEW m
    PROVE  highest[s] < NextSerial(h, s, m)
<1>0. /\ s \in Sources /\ s \notin SyncSources /\ s \in OwnSerials /\ TypeOK
      /\ stage[h] \notin Final /\ highest[s] \in Nat
  BY DEF OwnSerials, TypeInv, TypeOK, Final
<1>1. HighHandler(h) /\ StageOK(h)
  BY DEF HighInv, JournalInv, HandlerOK
<1>2. CASE newSerials[h][s] # {}
  <2>1. newSerials[h][s] \subseteq Nat /\ Max(newSerials[h][s]) \in newSerials[h][s]
    BY <1>0, <1>2, NewSerialsMax
  <2>2. highest[s] < Max(newSerials[h][s])
    BY <1>0, <1>1, <2>1 DEF HighHandler, HighSerials
  <2>3. NextSerial(h, s, m) = Max(newSerials[h][s]) + 1
    BY <1>0, <1>2 DEF NextSerial
  <2>4. Max(newSerials[h][s]) \in Nat
    BY <2>1
  <2> QED
    BY <1>0, <2>2, <2>3, <2>4
<1>3. CASE newSerials[h][s] = {}
  <2>1. StatusView(h, s) = status[s]
    BY <1>0, <1>1 DEF HighHandler, HighRow, StatusView
  <2>2. /\ status[s].newestSeen \in Nat
        /\ ~status[s].exists => status[s].newestSeen = 0
        /\ highest[s] <= status[s].newestSeen
    BY <1>0 DEF HighInv, HighCommitted, TypeOK, Status
  <2>3. CASE ~status[s].exists
    <3>1. NextSerial(h, s, m) = 1
      BY <1>0, <1>3, <2>1, <2>3 DEF NextSerial
    <3> QED
      BY <1>0, <2>2, <2>3, <3>1
  <2>4. CASE status[s].exists /\ Serials(JournalView(h), s) # {}
    <3>1. NextSerial(h, s, m) = Max(Serials(JournalView(h), s)) + 1
      BY <1>0, <1>3, <2>1, <2>4 DEF NextSerial
    <3>2. EntriesOf(inserts[h], s) = {}
      BY <1>0, <1>1, <1>3 DEF StageOK
    <3>3. EntriesOf(JournalView(h), s) = EntriesOf(journal \ deletes[h], s)
      BY <3>2 DEF JournalView, EntriesOf
    <3>4. PICK f \in EntriesOf(journal \ deletes[h], s) : TRUE
      BY <2>4, <3>3 DEF Serials
    <3>5. PICK e \in EntriesOf(journal, s) : highest[s] <= e.serial
      BY <1>0, <3>4 DEF HighInv, HighCommitted, EntriesOf
    <3>6. PICK x \in EntriesOf(journal \ deletes[h], s) : e.serial <= x.serial
      BY <1>0, HighestStays
    <3>7. x.serial \in Serials(JournalView(h), s)
      BY <3>3 DEF Serials
    <3>8. /\ Max(Serials(JournalView(h), s)) \in Nat
          /\ x.serial <= Max(Serials(JournalView(h), s))
      BY <1>0, <3>7, JournalMax
    <3>9. e.serial \in Nat /\ x.serial \in Nat
      BY <1>0 DEF TypeOK, Entry, EntriesOf
    <3> QED
      BY <1>0, <3>1, <3>5, <3>6, <3>8, <3>9
  <2>5. CASE status[s].exists /\ Serials(JournalView(h), s) = {}
    <3>1. NextSerial(h, s, m) = status[s].newestSeen + 1
      BY <1>0, <1>3, <2>1, <2>5 DEF NextSerial
    <3> QED
      BY <1>0, <2>2, <3>1
  <2> QED
    BY <2>3, <2>4, <2>5
<1> QED
  BY <1>2, <1>3

\* record_operation() with a journal entry.
LEMMA HighInsert ==
    ASSUME TypeInv, LockInv, JournalInv, HighInv, NEW h \in Handlers, Frame(h),
           NEW i \in pending[h], RecordOperation(h, i),
           journaling[h] /\ SourceOf[i.obj] \in KeepJournal
    PROVE  HighInv'
<1> DEFINE s == SourceOf[i.obj]
           n == NextSerial(h, s, i.serial)
           x == [source |-> s, serial |-> n, glob |-> sequence + 1, op |-> i.op,
                 obj |-> i.obj, text |-> i.text]
<1>0. TypeOK
  BY DEF TypeInv
<1>1. /\ inserts'[h] = inserts[h] \union {x}
      /\ newSerials' = [newSerials EXCEPT ![h][s] = @ \union {n}]
      /\ UNCHANGED <<journal, status, highest, stage, statusWrites, wiped>>
  BY <1>0 DEF RecordOperation, InsertEntry, TypeOK, ghostVars
<1>2. x.source = s /\ x.serial = n
  OBVIOUS
<1>3. stage[h] = "open" /\ HighHandler(h)
  <2>1. HandlerOK(h) /\ pending[h] # {}
    BY DEF JournalInv
  <2> QED
    BY <2>1, RecordingStage DEF HandlerOK, StageOK, HighInv
<1>4. s \in OwnSerials \ wiped[h] => highest[s] < n
  BY <1>3, NextSerialHigh
<1> HIDE DEF x, n, s
<1>5. \A r \in Sources : newSerials'[h][r] \subseteq newSerials[h][r] \union {n}
                         /\ (r # s => newSerials'[h][r] = newSerials[h][r])
  BY <1>0, <1>1 DEF TypeOK
<1>6. ASSUME NEW r \in Sources PROVE HighSerials(h, r)'
  <2>1. HighSerials(h, r)
    BY <1>3 DEF HighHandler
  <2>2. CASE r = s
    BY <1>1, <1>2, <1>4, <1>5, <2>1, <2>2 DEF HighSerials
  <2>3. CASE r # s
    BY <1>1, <1>2, <1>5, <2>1, <2>3 DEF HighSerials
  <2> QED
    BY <2>2, <2>3
<1>7. \A r \in Sources : HighRow(h, r)'
  BY <1>1, <1>3 DEF HighHandler, HighRow, Final
<1>8. HighHandler(h)'
  BY <1>1, <1>3, <1>6, <1>7 DEF HighHandler
<1> QED
  BY <1>1, <1>8, HighOwn

\* finalise_transaction() leaves the serials last seen at least as high as they were,
\* and as those of the transaction.
LEMMA FinalisedSeen ==
    ASSUME TypeInv, JournalInv, NEW h \in Handlers, NEW s \in Sources, stage[h] \notin Final
    PROVE  /\ FinalisedStatus(h, s).exists
           /\ StatusView(h, s).newestSeen <= FinalisedStatus(h, s).newestSeen
           /\ \A e \in inserts[h] : e.source = s => e.serial <= FinalisedStatus(h, s).newestSeen
<1> DEFINE row == [StatusView(h, s) EXCEPT !.exists = TRUE, !.force = FALSE]
           oldest == OrZero(JournalRange(h, s), Min)
           newest == OrZero(JournalRange(h, s), Max)
<1>0. TypeOK
  BY DEF TypeInv
<1>1. row \in Status /\ row.exists /\ row.newestSeen = StatusView(h, s).newestSeen
      /\ StatusView(h, s).newestSeen \in Nat
  BY <1>0, ViewTypes DEF Status
<1>2. CASE newSerials[h][s] = {}
  <2>1. EntriesOf(inserts[h], s) = {}
    BY <1>2 DEF JournalInv, HandlerOK, StageOK
  <2>2. FinalisedStatus(h, s) = row
    BY <1>2 DEF FinalisedStatus
  <2> HIDE DEF row
  <2> QED
    BY <1>1, <2>1, <2>2 DEF EntriesOf
<1>3. CASE newSerials[h][s] # {}
  <2> DEFINE a == OrZero({row.oldestSeen, oldest, Min(newSerials[h][s])} \ {0}, Min)
             b == Max({row.newestSeen, newest, Max(newSerials[h][s])})
  <2>1. FinalisedStatus(h, s) = [row EXCEPT !.oldestSeen = a, !.newestSeen = b,
                                            !.oldestJournal = oldest, !.newestJournal = newest]
    BY <1>3 DEF FinalisedStatus
  <2>2. Max(newSerials[h][s]) \in Nat
    BY <1>3, NewSerialsMax
  <2>3. newest \in Nat /\ \A e \in inserts[h] : e.source = s => e.serial <= newest
    <3>1. \A e \in inserts[h] : e.source = s => e.serial \in Serials(JournalView(h), s)
      BY DEF Serials, EntriesOf, JournalView
    <3>2. Serials(JournalView(h), s) # {} =>
             /\ Max(Serials(JournalView(h), s)) \in Nat
             /\ \A k \in Serials(JournalView(h), s) : k <= Max(Serials(JournalView(h), s))
      BY JournalMax
    <3> QED
      BY <3>1, <3>2 DEF OrZero, JournalRange
  <2>4. row.newestSeen \in Nat
    BY <1>1
  <2> HIDE DEF row, newest, oldest, a
  <2>5. row.newestSeen <= b /\ newest <= b /\ b \in Nat
    <3> DEFINE S == {row.newestSeen, newest, Max(newSerials[h][s])}
    <3>1. \A x \in S : x \in Nat /\ x <= row.newestSeen + newest + Max(newSerials[h][s])
      BY <2>2, <2>3, <2>4
    <3>2. row.newestSeen + newest + Max(newSerials[h][s]) \in Nat
      BY <2>2, <2>3, <2>4
    <3>3. Max(S) \in S /\ \A x \in S : x <= Max(S)
      BY <3>1, <3>2, MaxExists
    <3> QED
      BY <3>1, <3>3
  <2> HIDE DEF b
  <2>6. FinalisedStatus(h, s).exists /\ FinalisedStatus(h, s).newestSeen = b
    BY <1>1, <2>1 DEF Status
  <2>7. \A e \in inserts[h] : e.serial \in Nat
    BY <1>0 DEF TypeOK, Entry
  <2> QED
    BY <1>1, <2>3, <2>5, <2>6, <2>7
<1> QED
  BY <1>2, <1>3

\* finalise_transaction() remembers the serials of the transaction.
LEMMA HighFinalise ==
    ASSUME TypeInv, LockInv, JournalInv, HighInv, NEW h \in Handlers, Frame(h),
           FinaliseTransaction(h)
    PROVE  HighInv'
<1>0. TypeOK
  BY DEF TypeInv
<1>1. /\ stage[h] \in {"open", "closing"} /\ stage'[h] \in {"precommit", "finalised"}
      /\ \A s \in Sources : statusWrites'[h][s] = IF s \in seen[h] THEN FinalisedStatus(h, s)
                                                  ELSE statusWrites[h][s]
  BY <1>0 DEF FinaliseTransaction, TypeOK
<1>2. UNCHANGED <<journal, status, highest, inserts, newSerials, seen, wiped>>
  BY DEF FinaliseTransaction, databaseVars, ghostVars
<1>3. stage[h] \notin Final /\ stage'[h] \in Final /\ HighHandler(h) /\ StageOK(h)
  BY <1>1 DEF Final, HighInv, JournalInv, HandlerOK
<1>4. ASSUME NEW s \in Sources PROVE HighSerials(h, s)'
  BY <1>2, <1>3 DEF HighHandler, HighSerials
<1>5. ASSUME NEW s \in Sources, s \in seen[h] PROVE HighRow(h, s)'
  <2>1. /\ FinalisedStatus(h, s).exists
        /\ StatusView(h, s).newestSeen <= FinalisedStatus(h, s).newestSeen
        /\ \A e \in inserts[h] : e.source = s => e.serial <= FinalisedStatus(h, s).newestSeen
    BY <1>3, FinalisedSeen
  <2>2. s \in OwnSerials /\ s \notin wiped[h] => highest[s] <= FinalisedStatus(h, s).newestSeen
    <3> SUFFICES ASSUME s \in OwnSerials, s \notin wiped[h]
                 PROVE  highest[s] <= FinalisedStatus(h, s).newestSeen
      OBVIOUS
    <3>1. stage[h] = "open"
      BY <1>1, <1>3, <1>5 DEF HighHandler
    <3>2. StatusView(h, s) = status[s]
      BY <1>3, <3>1 DEF HighHandler, HighRow, StatusView
    <3>3. highest[s] <= status[s].newestSeen
      BY DEF HighInv, HighCommitted
    <3>4. highest[s] \in Nat /\ status[s].newestSeen \in Nat
      BY <1>0 DEF TypeOK, Status
    <3>5. FinalisedStatus(h, s).newestSeen \in Nat
      BY FinalisedStatusType DEF Status
    <3> QED
      BY <2>1, <3>2, <3>3, <3>4, <3>5
  <2> QED
    BY <1>1, <1>2, <1>3, <1>5, <2>1, <2>2 DEF HighRow
<1>6. ASSUME NEW s \in Sources, s \notin seen[h] PROVE HighRow(h, s)'
  <2>1. \A e \in inserts[h] : e.source # s
    BY <1>3, <1>6 DEF StageOK, EntriesOf
  <2>2. HighRow(h, s) /\ statusWrites'[h][s] = statusWrites[h][s]
    BY <1>1, <1>3, <1>6 DEF HighHandler
  <2> QED
    BY <1>2, <1>3, <2>1, <2>2 DEF HighRow
<1>7. HighHandler(h)'
  BY <1>1, <1>4, <1>5, <1>6 DEF HighHandler
<1> QED
  BY <1>2, <1>7, HighOwn

\* The highest serial after a commit.
LEMMA HighestAfter ==
    ASSUME TypeInv, NEW h \in Handlers, CommitTransaction(h), NEW s \in Sources
    PROVE  /\ highest'[s] \in Nat
           /\ highest'[s] \in Serials(inserts[h], s) \union {HighestKept(h, s)}
<1> DEFINE S == Serials(inserts[h], s) \union {HighestKept(h, s)}
<1>1. PICK b \in Nat : \A e \in inserts[h] : e.serial <= b
  BY DEF TypeInv, Bounded
<1>2. HighestKept(h, s) \in Nat
  BY DEF HighestKept, TypeInv, TypeOK
<1>3. \A n \in Serials(inserts[h], s) : n \in Nat /\ n <= b
  BY <1>1 DEF Serials, EntriesOf, TypeInv, TypeOK, Entry
<1>4. S \subseteq Nat /\ S # {} /\ b + HighestKept(h, s) \in Nat
  BY <1>1, <1>2, <1>3
<1>5. \A n \in S : n <= b + HighestKept(h, s)
  BY <1>1, <1>2, <1>3
<1>6. Max(S) \in S
  BY <1>4, <1>5, MaxExists
<1>7. highest'[s] = Max(S)
  BY DEF CommitTransaction
<1> QED
  BY <1>4, <1>6, <1>7

\* A commit leaves the highest serial in the status row, and in what is left of the journal.
LEMMA HighCommitSource ==
    ASSUME TypeInv, LockInv, JournalInv, HighInv, NEW h \in Handlers, CommitTransaction(h),
           stage[h] \in Final, NEW s \in OwnSerials
    PROVE  /\ highest'[s] <= status'[s].newestSeen
           /\ EntriesOf(journal', s) # {} =>
                  \E e \in EntriesOf(journal', s) : highest'[s] <= e.serial
<1>0. s \in Sources /\ TypeOK
  BY DEF OwnSerials, TypeInv
<1>1. /\ journal' = JournalView(h) /\ status'[s] = StatusView(h, s)
      /\ highest'[s] \in Nat
      /\ highest'[s] \in Serials(inserts[h], s) \union {HighestKept(h, s)}
  BY <1>0, HighestAfter DEF CommitTransaction
<1>2. HighHandler(h) /\ StageOK(h)
  BY DEF HighInv, JournalInv, HandlerOK
<1>3. highest[s] \in Nat /\ StatusView(h, s) \in Status /\ StatusView(h, s).newestSeen \in Nat
  BY <1>0, ViewTypes DEF TypeOK, Status
<1>4. HighestKept(h, s) = 0 \/ (HighestKept(h, s) = highest[s] /\ s \notin wiped[h]
                                /\ ~StatusView(h, s).force)
  BY DEF HighestKept
<1>5. highest'[s] <= status'[s].newestSeen
  <2>1. ASSUME NEW e \in inserts[h], e.source = s PROVE e.serial <= StatusView(h, s).newestSeen
    <3>1. statusWrites[h][s] # Untouched
      BY <1>0, <1>2, <2>1 DEF StageOK, EntriesOf
    <3> QED
      BY <1>0, <1>2, <2>1, <3>1 DEF HighHandler, HighRow, StatusView
  <2>2. HighestKept(h, s) <= StatusView(h, s).newestSeen
    <3>1. CASE HighestKept(h, s) = 0
      BY <1>3, <3>1
    <3>2. CASE HighestKept(h, s) = highest[s] /\ s \notin wiped[h] /\ ~StatusView(h, s).force
      <4>1. CASE statusWrites[h][s] = Untouched
        BY <1>0, <3>2, <4>1 DEF HighInv, HighCommitted, StatusView
      <4>2. CASE statusWrites[h][s] # Untouched
        BY <1>0, <1>2, <3>2, <4>2 DEF HighHandler, HighRow, StatusView
      <4> QED
        BY <4>1, <4>2
    <3> QED
      BY <1>4, <3>1, <3>2
  <2> QED
    BY <1>1, <2>1, <2>2 DEF Serials, EntriesOf
<1>6. ASSUME EntriesOf(journal', s) # {}
      PROVE  \E e \in EntriesOf(journal', s) : highest'[s] <= e.serial
  <2>1. CASE highest'[s] \in Serials(inserts[h], s)
    <3>1. PICK e \in inserts[h] : e.source = s /\ highest'[s] = e.serial
      BY <2>1 DEF Serials, EntriesOf
    <3>2. e \in EntriesOf(journal', s)
      BY <1>1, <3>1 DEF JournalView, EntriesOf
    <3> QED
      BY <1>1, <3>1, <3>2
  <2>2. CASE highest'[s] = 0
    <3>1. \A e \in EntriesOf(journal', s) : e.serial \in Nat
      BY <1>0, <1>1, ViewTypes DEF EntriesOf, Entry
    <3> QED
      BY <1>6, <2>2, <3>1
  <2>3. CASE highest'[s] = highest[s] /\ s \notin wiped[h]
    <3>1. CASE EntriesOf(inserts[h], s) = {}
      <4>1. EntriesOf(journal', s) = EntriesOf(journal \ deletes[h], s)
        BY <1>1, <3>1 DEF JournalView, EntriesOf
      <4>2. PICK f \in EntriesOf(journal \ deletes[h], s) : TRUE
        BY <1>6, <4>1
      <4>3. PICK e \in EntriesOf(journal, s) : highest[s] <= e.serial
        BY <1>0, <4>2 DEF HighInv, HighCommitted, EntriesOf
      <4>4. PICK x \in EntriesOf(journal \ deletes[h], s) : e.serial <= x.serial
        BY <1>0, HighestStays
      <4>5. e.serial \in Nat /\ x.serial \in Nat
        BY <1>0 DEF TypeOK, Entry, EntriesOf
      <4>6. highest'[s] <= x.serial
        BY <1>3, <2>3, <4>3, <4>4, <4>5
      <4> QED
        BY <4>1, <4>6
    <3>2. CASE EntriesOf(inserts[h], s) # {}
      <4>1. PICK e \in inserts[h] : e.source = s
        BY <3>2 DEF EntriesOf
      <4>2. highest[s] < e.serial /\ e.serial \in Nat
        BY <1>0, <1>2, <2>3, <4>1 DEF HighHandler, HighSerials, TypeOK, Entry
      <4>3. e \in EntriesOf(journal', s)
        BY <1>1, <4>1 DEF JournalView, EntriesOf
      <4>4. highest'[s] <= e.serial
        BY <1>3, <2>3, <4>2
      <4> QED
        BY <4>3, <4>4
    <3> QED
      BY <3>1, <3>2
  <2> QED
    BY <1>1, <1>4, <2>1, <2>2, <2>3
<1> QED
  BY <1>5, <1>6

\* A commit; other transactions have no entries, or not for the same sources.
LEMMA HighCommit ==
    ASSUME TypeInv, LockInv, JournalInv, HighInv, NEW h \in Handlers, Frame(h),
           CommitTransaction(h), stage[h] \in Final, HighHandler(h)'
    PROVE  HighInv'
<1>1. HighCommitted'
  <2>1. ASSUME NEW s \in Sources PROVE ~status'[s].exists => status'[s].newestSeen = 0
    <3>1. status'[s] = StatusView(h, s)
      BY DEF CommitTransaction
    <3>2. HighRow(h, s) /\ (~status[s].exists => status[s].newestSeen = 0)
      BY DEF HighInv, HighHandler, HighCommitted
    <3> QED
      BY <3>1, <3>2 DEF HighRow, StatusView
  <2> QED
    BY <2>1, HighCommitSource DEF HighCommitted
<1>2. ASSUME NEW g \in Handlers \ {h} PROVE HighHandler(g)'
  <2>1. /\ stage'[g] = stage[g] /\ seen'[g] = seen[g] /\ wiped'[g] = wiped[g]
        /\ inserts'[g] = inserts[g] /\ newSerials'[g] = newSerials[g]
        /\ statusWrites'[g] = statusWrites[g]
    BY DEF Frame
  <2>2. HighHandler(g) /\ StageOK(g) /\ StageOK(h)
    BY DEF HighInv, JournalInv, HandlerOK
  <2>3. ASSUME NEW s \in Sources, EntriesOf(inserts[h], s) = {} PROVE highest'[s] <= highest[s]
    <3>1. highest'[s] = HighestKept(h, s)
      BY <2>3, HighestAfter DEF Serials
    <3>2. highest[s] \in Nat
      BY DEF TypeInv, TypeOK
    <3> QED
      BY <3>1, <3>2 DEF HighestKept
  <2>4. \A s \in Sources : highest[s] \in Nat /\ highest'[s] \in Nat
    BY HighestAfter DEF TypeInv, TypeOK
  <2>5. ASSUME NEW s \in Sources PROVE HighRow(g, s)'
    <3> SUFFICES ASSUME statusWrites[g][s] # Untouched PROVE HighRow(g, s)'
      BY <2>1 DEF HighRow
    <3>1. statusWrites[h][s] = Untouched
      BY DEF JournalInv, RowLockInv
    <3>2. EntriesOf(inserts[h], s) = {}
      BY <2>2, <3>1 DEF StageOK
    <3>3. highest'[s] <= highest[s]
      BY <2>3, <3>2
    <3>4. statusWrites[g][s].newestSeen \in Nat
      BY DEF TypeInv, TypeOK, Status
    <3>5. highest[s] <= statusWrites[g][s].newestSeen => highest'[s] <= statusWrites[g][s].newestSeen
      BY <2>4, <3>3, <3>4
    <3> QED
      BY <2>1, <2>2, <3>5 DEF HighHandler, HighRow
  <2>6. ASSUME NEW s \in Sources PROVE HighSerials(g, s)'
    <3> SUFFICES ASSUME s \in OwnSerials \ wiped[g]
                 PROVE  /\ \A e \in inserts[g] : e.source = s => highest'[s] < e.serial
                        /\ stage[g] \notin Final => \A n \in newSerials[g][s] : highest'[s] < n
      BY <2>1 DEF HighSerials
    <3>1. HighSerials(g, s)
      BY <2>2 DEF HighHandler
    <3>2. tableLock[g] = "exclusive" => highest'[s] <= highest[s]
      <4>1. tableLock[g] = "exclusive" => EntriesOf(inserts[h], s) = {}
        BY DEF LockInv, ExclusionInv, EntriesOf
      <4> QED
        BY <2>3, <4>1
    <3>3. ASSUME NEW e \in inserts[g], e.source = s PROVE highest'[s] < e.serial
      <4>1. tableLock[g] = "exclusive" /\ e.serial \in Nat
        BY <3>3 DEF LockInv, ExclusionInv, TypeInv, TypeOK, Entry
      <4>2. highest[s] < e.serial
        BY <3>1, <3>3 DEF HighSerials
      <4> QED
        BY <2>4, <3>2, <4>1, <4>2
    <3>4. ASSUME stage[g] \notin Final, NEW n \in newSerials[g][s] PROVE highest'[s] < n
      <4>1. tableLock[g] = "exclusive" /\ n \in Nat
        BY <2>2, <3>4 DEF StageOK, TypeInv, TypeOK
      <4>2. highest[s] < n
        BY <3>1, <3>4 DEF HighSerials
      <4> QED
        BY <2>4, <3>2, <4>1, <4>2
    <3> QED
      BY <3>3, <3>4
  <2> QED
    BY <2>1, <2>2, <2>5, <2>6 DEF HighHandler
<1> QED
  BY <1>1, <1>2 DEF HighInv

\* The commit of an import before its evaluation.
LEMMA HighIntermediate ==
    ASSUME TypeInv, LockInv, JournalInv, HighInv, NEW h \in Handlers, Frame(h),
           IntermediateCommit(h)
    PROVE  HighInv'
<1>1. CommitTransaction(h) /\ stage[h] \in Final /\ stage'[h] = "precommit"
  BY DEF IntermediateCommit, Final, TypeInv, TypeOK
<1>2. inserts'[h] = {} /\ \A s \in Sources : statusWrites'[h][s] = Untouched
  BY <1>1 DEF CommitTransaction, TypeInv, TypeOK, NoStatusWrites
<1>3. HighHandler(h)'
  BY <1>1, <1>2 DEF HighHandler, HighRow, HighSerials, Final
<1> QED
  BY <1>1, <1>3, HighCommit

\* commit() and rollback().
LEMMA HighEnd ==
    ASSUME TypeInv, LockInv, JournalInv, HighInv, NEW h \in Handlers, Frame(h),
           Commit(h) \/ Rollback(h)
    PROVE  HighInv'
<1>1. inserts'[h] = {} /\ seen'[h] = {} /\ newSerials'[h] = NoSerials
      /\ statusWrites'[h] = NoStatusWrites
  <2>1. CASE Commit(h)
    BY <2>1 DEF Commit, CommitTransaction, Reset, TypeInv, TypeOK
  <2>2. CASE Rollback(h)
    BY <2>2 DEF Rollback, Reset, TypeInv, TypeOK
  <2> QED
    BY <2>1, <2>2
<1>2. HighHandler(h)'
  BY <1>1 DEF HighHandler, HighRow, HighSerials, NoSerials, NoStatusWrites
<1>3. CASE Commit(h)
  <2>1. CommitTransaction(h) /\ stage[h] \in Final
    BY <1>3 DEF Commit, Final
  <2> QED
    BY <1>2, <2>1, HighCommit
<1>4. CASE Rollback(h)
  BY <1>2, <1>4, HighOwn DEF Rollback, databaseVars, ghostVars
<1> QED
  BY <1>3, <1>4

\* Every step keeps HighInv, if there is no route preference.
LEMMA HighNext ==
    ASSUME ~PreferenceEnabled, TypeInv, LockInv, JournalInv, HighInv, NEW h \in Handlers,
           Change(h) \/ Administer(h) \/ Finish(h)
    PROVE  HighInv'
<1>0. Frame(h) /\ TypeOK
  BY FrameStep DEF TypeInv
<1>1. ASSUME NEW o, NEW t, NEW n, UpsertRpslObject(h, o, t, n) PROVE HighInv'
  <2>1. Plain(h) /\ highest' = highest /\ seen' = seen
    BY <1>0, <1>1 DEF UpsertRpslObject, Ready, databaseVars, ghostVars, Plain, TypeOK
  <2> QED
    BY <1>0, <2>1, HighPlain
<1>2. ASSUME NEW o, NEW n, DeleteRpslObject(h, o, n) PROVE HighInv'
  <2>1. Plain(h) /\ highest' = highest /\ seen' = seen
    BY <1>0, <1>2 DEF DeleteRpslObject, Ready, databaseVars, ghostVars, Plain, TypeOK
  <2> QED
    BY <1>0, <2>1, HighPlain
<1>3. CASE FlushRpslObjectWritingBuffer(h)
  <2>1. stage[h] = "open" /\ stage' = stage
        /\ UNCHANGED <<journal, status, inserts, deletes, tableLock, newSerials, statusWrites, wiped,
                       seen, highest>>
    BY <1>3 DEF FlushRpslObjectWritingBuffer, databaseVars, ghostVars
  <2>2. Plain(h)
    BY <2>1 DEF Plain
  <2> QED
    BY <1>0, <2>1, <2>2, HighPlain
<1>4. ASSUME NEW i \in pending[h], RecordOperation(h, i) PROVE HighInv'
  <2>1. CASE journaling[h] /\ SourceOf[i.obj] \in KeepJournal
    BY <1>0, <1>4, <2>1, HighInsert
  <2>2. CASE ~(journaling[h] /\ SourceOf[i.obj] \in KeepJournal)
    <3>1. Plain(h) /\ highest' = highest /\ stage' = stage
      BY <1>0, <1>4, <2>2 DEF RecordOperation, ghostVars, Plain, TypeOK
    <3>2. StageOK(h) /\ pending[h] # {}
      BY DEF JournalInv, HandlerOK
    <3>3. stage[h] = "open"
      BY <3>2, RecordingStage DEF StageOK
    <3> QED
      BY <1>0, <3>1, <3>3, HighPlain
  <2> QED
    BY <2>1, <2>2
<1>5. CASE \/ \E s \in Sources : DeleteAllRpslObjects(h, s)
           \/ DeleteAllJournalEntries(h)
           \/ \E s \in Sources, g \in {e.glob : e \in journal} : DeleteJournalEntriesBeforeDate(h, s, g)
           \/ \E s \in Sources : SetForceReload(h, s)
  BY <1>0, <1>5, HighAdminister
<1>6. CASE EnableJournaling(h)
  <2>1. Plain(h) /\ highest' = highest /\ seen' = seen
    BY <1>0, <1>6 DEF EnableJournaling, Ready, databaseVars, ghostVars, Plain, TypeOK
  <2> QED
    BY <1>0, <2>1, HighPlain
<1>7. ASSUME NEW s \in Sources, NEW n, RecordSerialSeen(h, s, n) PROVE HighInv'
  BY <1>0, <1>7, HighSerialSeen
<1>8. ASSUME NEW s, RecordStatus(h, s) PROVE HighInv'
  <2>1. Plain(h) /\ highest' = highest /\ stage'[h] = "open"
    BY <1>0, <1>8 DEF RecordStatus, Ready, databaseVars, ghostVars, Plain, TypeOK
  <2> QED
    BY <1>0, <2>1, HighPlain
<1>9. CASE FinaliseTransaction(h)
  BY <1>0, <1>9, HighFinalise
<1>10. CASE IntermediateCommit(h)
  BY <1>0, <1>10, HighIntermediate
<1>11. CASE PreCommit(h)
  <2>1. stage[h] \in Final /\ stage'[h] \in Final
    BY <1>0, <1>11, NoEvaluation DEF PreCommit, Final
  <2>2. UNCHANGED <<journal, status, inserts, deletes, tableLock, newSerials, statusWrites, wiped,
                    seen, pending, highest>>
    BY <1>11 DEF PreCommit, databaseVars, ghostVars
  <2>3. Plain(h)
    BY <2>1, <2>2 DEF Plain
  <2> QED
    BY <1>0, <2>2, <2>3, HighPlain
<1>12. CASE Commit(h) \/ Rollback(h)
  BY <1>0, <1>12, HighEnd
<1>13. ~RoutePreferenceUpdateRunner(h) /\ ~EnrichPks(h) /\ ~UpdateRoutePreferenceStatus(h)
  BY <1>0, NoEvaluation
<1> QED
  BY <1>1, <1>2, <1>3, <1>4, <1>5, <1>6, <1>7, <1>8, <1>9, <1>10, <1>11, <1>12, <1>13
     DEF Change, Administer, Finish

\* Without route preference, a serial that was visible in the journal is not given to
\* another operation, even after the journal has expired, unless the source is reloaded
\* or a reload of it is ordered.
THEOREM SerialsFresh == ASSUME ~PreferenceEnabled PROVE Spec => SerialsNotReused
<1> DEFINE A == \A e \in journal' \ journal : e.source \in OwnSerials =>
                    \/ e.serial > highest[e.source]
                    \/ \E h \in Handlers : e.source \in wiped[h] /\ wiped'[h] = {}
<1>1. TypeInv /\ LockInv /\ JournalInv /\ HighInv /\ [Next]_vars => HighInv'
  <2> SUFFICES ASSUME TypeInv, LockInv, JournalInv, HighInv, [Next]_vars PROVE HighInv'
    OBVIOUS
  <2>1. CASE Next
    BY <2>1, HighNext DEF Next
  <2>2. CASE UNCHANGED vars
    BY <2>2 DEF HighInv, HighCommitted, HighHandler, HighRow, HighSerials, vars, databaseVars,
       txVars, ghostVars
  <2> QED
    BY <2>1, <2>2
<1>2. TypeInv /\ HighInv /\ [Next]_vars => [A]_vars
  <2> SUFFICES ASSUME TypeInv, HighInv, Next, NEW e \in journal' \ journal, e.source \in OwnSerials
               PROVE  \/ e.serial > highest[e.source]
                      \/ \E h \in Handlers : e.source \in wiped[h] /\ wiped'[h] = {}
    BY DEF vars, databaseVars
  <2>1. PICK h \in Handlers : Change(h) \/ Administer(h) \/ Finish(h)
    BY DEF Next
  <2>2. CommitTransaction(h)
    BY <2>1, JournalStep
  <2>3. e \in inserts[h] /\ wiped'[h] = {}
    BY <2>2, CommitJournal DEF CommitTransaction, TypeInv, TypeOK
  <2>4. CASE e.source \in wiped[h]
    BY <2>3, <2>4
  <2>5. CASE e.source \notin wiped[h]
    <3>1. e.source \in Sources /\ e.serial \in Nat /\ highest[e.source] \in Nat
      BY <2>3 DEF TypeInv, TypeOK, Entry
    <3>2. highest[e.source] < e.serial
      BY <2>3, <2>5, <3>1 DEF HighInv, HighHandler, HighSerials
    <3> QED
      BY <3>1, <3>2
  <2> QED
    BY <2>4, <2>5
<1> HIDE DEF A
<1>3. Spec => [][A]_vars
  BY TypeInvariant, LockInvariant, JournalInvariant, HighInit, <1>1, <1>2, PTL DEF Spec
<1> QED
  BY <1>3 DEF A, SerialsNotReused

-----------------------------------------------------------------------------
(* A mirror that follows the journal. For every row a transaction has       *)
(* written, the journal record that tells its mirrors is still pending, or  *)
(* is the last entry of the transaction for that object.                    *)

\* What queries show of a row, and what an operation leaves at a mirror.
Shown(o, row) == IF ObjectIsVisible(o, row) THEN row.text ELSE None
Told(x) == IF x.op = "ADD" THEN x.text ELSE None

Preferred(row) == row \in Row => row.preferred

EntriesFor(h, o) == {e \in inserts[h] : e.obj = o}

\* What the transaction has recorded so far leaves v at a mirror.
LeavesMirror(h, o, v) ==
    IF EntriesFor(h, o) = {} THEN mirror[o] = v
    ELSE \E e \in EntriesFor(h, o) :
            Told(e) = v /\ \A f \in EntriesFor(h, o) : f # e => f.glob < e.glob

Following(h, o) ==
    SourceOf[o] \in KeepJournal \ wiped[h] =>
        /\ \A i \in pending[h] : i.obj = o => Told(i) = Shown(o, rowWrites[h][o])
        /\ (\A i \in pending[h] : i.obj # o) => LeavesMirror(h, o, Shown(o, rowWrites[h][o]))

\* A reload writes rows of its own source only, and tells mirrors at its commit.
RowOK(h, o) ==
    /\ Preferred(rowWrites[h][o])
    /\ rowWrites[h][o] = Untouched => \A x \in pending[h] \union inserts[h] : x.obj # o
    /\ rowWrites[h][o] # Untouched =>
          /\ wiped[h] # {} => SourceOf[o] \in wiped[h]
          /\ Following(h, o)

BufferOK(h) ==
    /\ stage[h] # "open" => buffer[h] = {}
    /\ \A b, c \in buffer[h] : b.obj = c.obj => b = c
    /\ wiped[h] # {} => \A b \in buffer[h] : SourceOf[b.obj] \in wiped[h]
    /\ stage[h] = "idle" => rowWrites[h] = NoRowWrites
    /\ stage[h] = "open" /\ ~journaling[h] => wiped[h] # {}

\* An object row is locked by one transaction at a time.
ObjectLockInv ==
    \A h, g \in Handlers : \A o \in Objects :
        h # g /\ rowWrites[h][o] # Untouched => rowWrites[g][o] = Untouched

FollowHandler(h) == BufferOK(h) /\ \A o \in Objects : RowOK(h, o)

FollowInv ==
    /\ MirrorFollows
    /\ \A o \in Objects : Preferred(rows[o])
    /\ ObjectLockInv
    /\ \A h \in Handlers : FollowHandler(h)

\* There are no objects at first.
LEMMA FollowInit == Init => FollowInv
<1> SUFFICES ASSUME Init PROVE FollowInv
  OBVIOUS
<1>1. /\ \A o \in Objects : rows[o] = None /\ mirror[o] = None
      /\ \A h \in Handlers :
            /\ stage[h] = "idle" /\ buffer[h] = {} /\ pending[h] = {} /\ inserts[h] = {}
            /\ rowWrites[h] = NoRowWrites
            /\ \A o \in Objects : rowWrites[h][o] = Untouched
  BY DEF Init, NoRowWrites
<1>2. MirrorFollows
  BY <1>1 DEF MirrorFollows, ObjectIsVisible
<1>3. \A o \in Objects : Preferred(rows[o])
  BY <1>1, MarkerAssumption DEF Preferred
<1>4. ASSUME NEW h \in Handlers PROVE FollowHandler(h)
  BY <1>1, MarkerAssumption DEF FollowHandler, BufferOK, RowOK, Preferred
<1> QED
  BY <1>1, <1>2, <1>3, <1>4 DEF FollowInv, ObjectLockInv

\* A step that does not commit leaves the other handlers and the mirrors alone.
LEMMA FollowOwn ==
    ASSUME FollowInv, NEW h \in Handlers, Frame(h), UNCHANGED <<rows, mirror>>,
           FollowHandler(h)',
           \A o \in Objects : rowWrites'[h][o] # Untouched =>
               rowWrites[h][o] # Untouched \/ RowFree(h, o)
    PROVE  FollowInv'
<1>1. MirrorFollows' /\ \A o \in Objects : Preferred(rows'[o])
  BY DEF FollowInv, MirrorFollows
<1>0. \A g \in Handlers \ {h} :
        /\ stage'[g] = stage[g] /\ journaling'[g] = journaling[g] /\ wiped'[g] = wiped[g]
        /\ pending'[g] = pending[g] /\ inserts'[g] = inserts[g]
        /\ buffer'[g] = buffer[g] /\ rowWrites'[g] = rowWrites[g]
  BY DEF Frame
<1>2. ASSUME NEW g \in Handlers \ {h} PROVE FollowHandler(g)'
  <2>1. FollowHandler(g)
    BY DEF FollowInv
  <2>2. BufferOK(g)'
    BY <1>0, <2>1 DEF FollowHandler, BufferOK
  <2>3. ASSUME NEW o \in Objects PROVE RowOK(g, o)'
    <3>1. RowOK(g, o)
      BY <2>1 DEF FollowHandler
    <3> QED
      BY <1>0, <3>1 DEF RowOK, Following, LeavesMirror, EntriesFor
  <2> QED
    BY <2>2, <2>3 DEF FollowHandler
<1>3. ObjectLockInv'
  <2> SUFFICES ASSUME NEW f \in Handlers, NEW g \in Handlers, NEW o \in Objects, f # g,
                      rowWrites'[f][o] # Untouched
               PROVE  rowWrites'[g][o] = Untouched
    BY DEF ObjectLockInv
  <2>1. \A j, k \in Handlers : j # k /\ rowWrites[j][o] # Untouched => rowWrites[k][o] = Untouched
    BY DEF FollowInv, ObjectLockInv
  <2>2. CASE f = h
    BY <1>0, <2>1, <2>2 DEF RowFree, Others
  <2>3. CASE g = h
    <3>1. rowWrites[f][o] # Untouched
      BY <1>0, <2>3
    <3>2. rowWrites[h][o] = Untouched
      BY <2>1, <2>3, <3>1
    <3>3. ~RowFree(h, o)
      BY <2>3, <3>1 DEF RowFree, Others
    <3> QED
      BY <2>3, <3>2, <3>3
  <2>4. CASE f # h /\ g # h
    BY <1>0, <2>1, <2>4
  <2> QED
    BY <2>2, <2>3, <2>4
<1> QED
  BY <1>1, <1>2, <1>3 DEF FollowInv

\* Steps that write no object row and record nothing.
Silent(h) ==
    /\ UNCHANGED <<rows, mirror, rowWrites, inserts, pending, wiped>>
    /\ BufferOK(h)'

\* They keep FollowInv.
LEMMA FollowSilent ==
    ASSUME FollowInv, NEW h \in Handlers, Frame(h), Silent(h)
    PROVE  FollowInv'
<1>1. ASSUME NEW o \in Objects PROVE RowOK(h, o)'
  <2>1. RowOK(h, o)
    BY DEF FollowInv, FollowHandler
  <2> QED
    BY <2>1 DEF Silent, RowOK, Following, LeavesMirror, EntriesFor
<1>2. FollowHandler(h)'
  BY <1>1 DEF Silent, FollowHandler
<1> QED
  BY <1>2, FollowOwn DEF Silent

\* upsert_rpsl_object() only fills the buffer.
LEMMA FollowUpsert ==
    ASSUME TypeOK, LockInv, FollowInv, NEW h \in Handlers, Frame(h), NEW o, NEW t, NEW n,
           UpsertRpslObject(h, o, t, n)
    PROVE  FollowInv'
<1> DEFINE new == [obj |-> o, text |-> t, serial |-> n]
<1>1. /\ stage[h] \in {"idle", "open"} /\ stage'[h] = "open"
      /\ \A b \in buffer[h] : b.obj # o
      /\ wiped[h] # {} => SourceOf[o] \in wiped[h]
      /\ buffer'[h] = buffer[h] \union {new}
      /\ UNCHANGED <<rows, mirror, rowWrites, inserts, pending, wiped, journaling>>
  BY DEF UpsertRpslObject, Ready, databaseVars, ghostVars, TypeOK
<1>2. new.obj = o
  OBVIOUS
<1> HIDE DEF new
<1>3. BufferOK(h)
  BY DEF FollowInv, FollowHandler
<1>4. ~journaling[h] => wiped[h] # {}
  BY <1>1, <1>3 DEF BufferOK, LockInv, FreshInv, Fresh
<1>5. BufferOK(h)'
  BY <1>1, <1>2, <1>3, <1>4 DEF BufferOK
<1> QED
  BY <1>1, <1>5, FollowSilent DEF Silent

\* Flushing the buffer leaves one record pending for every row that is visible.
LEMMA FollowFlush ==
    ASSUME TypeOK, LockInv, FollowInv, NEW h \in Handlers, Frame(h),
           FlushRpslObjectWritingBuffer(h)
    PROVE  FollowInv'
<1> DEFINE T(o) == (CHOOSE b \in buffer[h] : b.obj = o).text
           B(o) == \E b \in buffer[h] : b.obj = o
<1>1. /\ stage[h] = "open" /\ pending[h] = {} /\ \A b \in buffer[h] : RowFree(h, b.obj)
      /\ \A o \in Objects : rowWrites'[h][o] = IF B(o) THEN [text |-> T(o), preferred |-> TRUE]
                                               ELSE rowWrites[h][o]
      /\ pending'[h] = {[op |-> "ADD", obj |-> b.obj, text |-> b.text, serial |-> b.serial] :
                           b \in VisibleBuffered(h)}
      /\ buffer'[h] = {}
      /\ UNCHANGED <<rows, mirror, stage, journaling, inserts, wiped>>
  BY DEF FlushRpslObjectWritingBuffer, databaseVars, ghostVars, TypeOK
<1>2. BufferOK(h) /\ \A o \in Objects : RowOK(h, o)
  BY DEF FollowInv, FollowHandler
<1>3. BufferOK(h)'
  BY <1>1, <1>2 DEF BufferOK
<1>4. \A b \in buffer[h] : B(b.obj) /\ T(b.obj) = b.text /\ b.obj \in Objects /\ b.text \in Texts
  BY <1>2 DEF BufferOK, TypeOK, BufferItem
<1>5. \A i \in pending'[h] : \E b \in VisibleBuffered(h) :
         i.op = "ADD" /\ i.obj = b.obj /\ i.text = b.text /\ b \in buffer[h]
  <2> SUFFICES ASSUME NEW i \in pending'[h]
               PROVE  \E b \in VisibleBuffered(h) :
                          i.op = "ADD" /\ i.obj = b.obj /\ i.text = b.text /\ b \in buffer[h]
    OBVIOUS
  <2>1. PICK b \in VisibleBuffered(h) :
           i = [op |-> "ADD", obj |-> b.obj, text |-> b.text, serial |-> b.serial]
    BY <1>1
  <2>2. b \in buffer[h]
    BY DEF VisibleBuffered
  <2> QED
    BY <2>1, <2>2
<1>6. \A b \in buffer[h] : b.obj \notin Suppressed => \E i \in pending'[h] : i.obj = b.obj
  <2> SUFFICES ASSUME NEW b \in buffer[h], b.obj \notin Suppressed
               PROVE  \E i \in pending'[h] : i.obj = b.obj
    OBVIOUS
  <2>1. b \in VisibleBuffered(h)
    BY DEF VisibleBuffered
  <2>2. [op |-> "ADD", obj |-> b.obj, text |-> b.text, serial |-> b.serial] \in pending'[h]
    BY <1>1, <2>1
  <2> QED
    BY <2>2
<1>7. ASSUME NEW o \in Objects, B(o) PROVE RowOK(h, o)'
  <2>1. PICK b \in buffer[h] : b.obj = o
    BY <1>7
  <2> DEFINE row == [text |-> b.text, preferred |-> TRUE]
  <2>2. rowWrites'[h][o] = row /\ b.text \in Texts
    BY <1>1, <1>4, <1>7, <2>1
  <2>3. row \in Row /\ row # Untouched /\ row # None
    BY <2>2, MarkerAssumption DEF Row
  <2>4. Shown(o, row) = IF o \in Suppressed THEN None ELSE b.text
    BY <2>3 DEF Shown, ObjectIsVisible
  <2>5. row.preferred
    OBVIOUS
  <2> HIDE DEF row
  <2>6. wiped[h] # {} => SourceOf[o] \in wiped[h]
    BY <1>2, <2>1 DEF BufferOK
  <2>7. ASSUME NEW i \in pending'[h], i.obj = o PROVE Told(i) = Shown(o, row)
    <3>1. PICK c \in VisibleBuffered(h) :
             i.op = "ADD" /\ i.obj = c.obj /\ i.text = c.text /\ c \in buffer[h]
      BY <1>5
    <3>2. c = b /\ o \notin Suppressed
      BY <1>2, <2>1, <2>7, <3>1 DEF BufferOK, VisibleBuffered
    <3> QED
      BY <2>4, <3>1, <3>2 DEF Told
  <2>8. ASSUME SourceOf[o] \in KeepJournal \ wiped[h], \A i \in pending'[h] : i.obj # o
        PROVE  LeavesMirror(h, o, Shown(o, row))
    <3>1. o \in Suppressed
      BY <1>6, <2>1, <2>8
    <3>2. \A r : Shown(o, r) = None
      BY <3>1 DEF Shown, ObjectIsVisible
    <3>3. CASE rowWrites[h][o] = Untouched
      <4>1. EntriesFor(h, o) = {}
        BY <1>2, <3>3 DEF RowOK, EntriesFor
      <4>2. mirror[o] = None
        BY <2>8, <3>1 DEF FollowInv, MirrorFollows, ObjectIsVisible
      <4> QED
        BY <3>2, <4>1, <4>2 DEF LeavesMirror
    <3>4. CASE rowWrites[h][o] # Untouched
      <4>1. LeavesMirror(h, o, Shown(o, rowWrites[h][o]))
        BY <1>1, <1>2, <2>8, <3>4 DEF RowOK, Following
      <4> QED
        BY <3>2, <4>1
    <3> QED
      BY <3>3, <3>4
  <2>9. LeavesMirror(h, o, Shown(o, rowWrites[h][o]))' <=> LeavesMirror(h, o, Shown(o, row))
    BY <1>1, <2>2 DEF LeavesMirror, EntriesFor
  <2>10. Following(h, o)'
    BY <1>1, <2>2, <2>7, <2>8, <2>9 DEF Following
  <2> QED
    BY <1>1, <2>2, <2>3, <2>5, <2>6, <2>10 DEF RowOK, Preferred
<1>8. ASSUME NEW o \in Objects, ~B(o) PROVE RowOK(h, o)'
  <2>1. rowWrites'[h][o] = rowWrites[h][o] /\ \A i \in pending'[h] : i.obj # o
    <3>1. \A i \in pending'[h] : i.obj # o
      BY <1>5, <1>8
    <3> HIDE DEF B, T
    <3> QED
      BY <1>1, <1>8, <3>1
  <2>2. RowOK(h, o)
    BY <1>2
  <2>3. LeavesMirror(h, o, Shown(o, rowWrites[h][o]))' <=> LeavesMirror(h, o, Shown(o, rowWrites[h][o]))
    BY <1>1, <2>1 DEF LeavesMirror, EntriesFor
  <2> HIDE DEF B, T
  <2>4. rowWrites[h][o] # Untouched => Following(h, o)'
    BY <1>1, <2>1, <2>2, <2>3 DEF RowOK, Following
  <2> QED
    BY <1>1, <2>1, <2>2, <2>4 DEF RowOK
<1>9. FollowHandler(h)'
  BY <1>3, <1>7, <1>8 DEF FollowHandler
<1>10. \A o \in Objects : rowWrites'[h][o] # Untouched => rowWrites[h][o] # Untouched \/ RowFree(h, o)
  <2> SUFFICES ASSUME NEW o \in Objects, rowWrites[h][o] = Untouched, rowWrites'[h][o] # Untouched
               PROVE  RowFree(h, o)
    OBVIOUS
  <2>1. B(o)
    BY <1>1
  <2> QED
    BY <1>1, <2>1
<1> QED
  BY <1>1, <1>9, <1>10, FollowOwn

\* delete_rpsl_object() leaves a record pending.
LEMMA FollowDelete ==
    ASSUME TypeOK, LockInv, FollowInv, NEW h \in Handlers, Frame(h), NEW x \in Objects, NEW n,
           DeleteRpslObject(h, x, n)
    PROVE  FollowInv'
<1> DEFINE op == [op |-> "DEL", obj |-> x, text |-> ReturningText(h, x), serial |-> n]
<1>1. /\ stage[h] \in {"idle", "open"} /\ stage'[h] = "open" /\ pending[h] = {} /\ buffer[h] = {}
      /\ wiped[h] = {} /\ RowFree(h, x)
      /\ rowWrites' = [rowWrites EXCEPT ![h][x] = None]
      /\ pending'[h] = {op}
      /\ UNCHANGED <<rows, mirror, buffer, journaling, inserts, wiped>>
  BY DEF DeleteRpslObject, Ready, databaseVars, ghostVars, TypeOK
<1>2. op.obj = x /\ Told(op) = None
  BY DEF Told
<1> HIDE DEF op
<1>3. BufferOK(h) /\ \A o \in Objects : RowOK(h, o)
  BY DEF FollowInv, FollowHandler
<1>4. BufferOK(h)'
  BY <1>1, <1>3 DEF BufferOK, LockInv, FreshInv, Fresh
<1>5. \A o \in Objects : rowWrites'[h][o] = IF o = x THEN None ELSE rowWrites[h][o]
  BY <1>1 DEF TypeOK
<1>6. RowOK(h, x)'
  <2>1. rowWrites'[h][x] = None /\ None # Untouched /\ None \notin Row
    BY <1>5, MarkerAssumption
  <2>2. Shown(x, None) = None
    BY DEF Shown, ObjectIsVisible
  <2>3. Following(h, x)'
    BY <1>1, <1>2, <2>1, <2>2 DEF Following
  <2> QED
    BY <1>1, <2>1, <2>3 DEF RowOK, Preferred
<1>7. ASSUME NEW o \in Objects, o # x PROVE RowOK(h, o)'
  <2>1. rowWrites'[h][o] = rowWrites[h][o] /\ \A i \in pending'[h] : i.obj # o
    BY <1>1, <1>2, <1>5, <1>7
  <2>2. RowOK(h, o)
    BY <1>3
  <2>3. LeavesMirror(h, o, Shown(o, rowWrites[h][o]))' <=> LeavesMirror(h, o, Shown(o, rowWrites[h][o]))
    BY <1>1, <2>1 DEF LeavesMirror, EntriesFor
  <2>4. rowWrites[h][o] # Untouched => Following(h, o)'
    BY <1>1, <2>1, <2>2, <2>3 DEF RowOK, Following
  <2> QED
    BY <1>1, <2>1, <2>2, <2>4 DEF RowOK
<1>8. FollowHandler(h)'
  BY <1>4, <1>6, <1>7 DEF FollowHandler
<1>9. \A o \in Objects : rowWrites'[h][o] # Untouched => rowWrites[h][o] # Untouched \/ RowFree(h, o)
  BY <1>1, <1>5
<1> QED
  BY <1>1, <1>8, <1>9, FollowOwn

\* record_operation(): what was pending becomes the last entry for its object.
LEMMA FollowInsert ==
    ASSUME TypeInv, LockInv, JournalInv, FollowInv, NEW h \in Handlers, Frame(h),
           NEW i \in pending[h], RecordOperation(h, i),
           journaling[h] /\ SourceOf[i.obj] \in KeepJournal
    PROVE  FollowInv'
<1> DEFINE x == [source |-> SourceOf[i.obj],
                 serial |-> NextSerial(h, SourceOf[i.obj], i.serial),
                 glob |-> sequence + 1, op |-> i.op, obj |-> i.obj, text |-> i.text]
<1>0. TypeOK
  BY DEF TypeInv
<1>1. /\ inserts'[h] = inserts[h] \union {x}
      /\ pending'[h] = pending[h] \ {i}
      /\ UNCHANGED <<rows, mirror, stage, journaling, buffer, rowWrites, wiped>>
  BY <1>0 DEF RecordOperation, InsertEntry, TypeOK, ghostVars
<1>2. x.obj = i.obj /\ Told(x) = Told(i) /\ x.glob = sequence + 1
  BY DEF Told
<1> HIDE DEF x
<1>3. BufferOK(h) /\ \A o \in Objects : RowOK(h, o)
  BY DEF FollowInv, FollowHandler
<1>4. BufferOK(h)'
  BY <1>1, <1>3 DEF BufferOK
<1>5. \A e \in inserts[h] : e.glob < sequence + 1
  <2>1. \A e \in inserts[h] : e.glob \in Nat /\ e.glob <= sequence /\ sequence \in Nat
    BY <1>0 DEF TypeInv, FromSequence, TypeOK, Entry
  <2> QED
    BY <2>1
<1>6. ASSUME NEW o \in Objects PROVE RowOK(h, o)'
  <2>1. RowOK(h, o)
    BY <1>3
  <2>2. CASE o = i.obj
    <3>1. rowWrites[h][o] # Untouched
      BY <2>1, <2>2 DEF RowOK
    <3>2. SourceOf[o] \in KeepJournal \ wiped[h] => Told(x) = Shown(o, rowWrites[h][o])
      BY <1>2, <2>1, <2>2, <3>1 DEF RowOK, Following
    <3>3. x \in EntriesFor(h, o)' /\ \A f \in EntriesFor(h, o)' : f # x => f.glob < x.glob
      BY <1>1, <1>2, <1>5, <2>2 DEF EntriesFor
    <3>4. SourceOf[o] \in KeepJournal \ wiped[h] =>
             LeavesMirror(h, o, Shown(o, rowWrites[h][o]))'
      BY <1>1, <3>2, <3>3 DEF LeavesMirror
    <3>5. Following(h, o)'
      BY <1>1, <2>1, <3>1, <3>4 DEF RowOK, Following
    <3> QED
      BY <1>1, <2>1, <3>1, <3>5 DEF RowOK
  <2>3. CASE o # i.obj
    <3>1. EntriesFor(h, o)' = EntriesFor(h, o)
      BY <1>1, <1>2, <2>3 DEF EntriesFor
    <3>2. LeavesMirror(h, o, Shown(o, rowWrites[h][o]))' <=> LeavesMirror(h, o, Shown(o, rowWrites[h][o]))
      BY <1>1, <3>1 DEF LeavesMirror
    <3>3. (\A j \in pending'[h] : j.obj # o) <=> (\A j \in pending[h] : j.obj # o)
      BY <1>1, <2>3
    <3>4. rowWrites[h][o] # Untouched => Following(h, o)'
      BY <1>1, <2>1, <3>2, <3>3 DEF RowOK, Following
    <3>5. rowWrites[h][o] = Untouched => \A y \in pending'[h] \union inserts'[h] : y.obj # o
      BY <1>1, <1>2, <2>1, <2>3 DEF RowOK
    <3> QED
      BY <1>1, <2>1, <3>4, <3>5 DEF RowOK
  <2> QED
    BY <2>2, <2>3
<1>7. FollowHandler(h)'
  BY <1>4, <1>6 DEF FollowHandler
<1> QED
  BY <1>1, <1>7, FollowOwn

\* An operation that is not journaled is one of a reload, or of a source without journal.
LEMMA FollowRecord ==
    ASSUME TypeOK, LockInv, JournalInv, FollowInv, NEW h \in Handlers, Frame(h),
           NEW i \in pending[h], RecordOperation(h, i),
           ~(journaling[h] /\ SourceOf[i.obj] \in KeepJournal)
    PROVE  FollowInv'
<1>1. /\ pending'[h] = pending[h] \ {i}
      /\ UNCHANGED <<rows, mirror, stage, journaling, buffer, rowWrites, wiped, inserts>>
  BY DEF RecordOperation, TypeOK, ghostVars
<1>2. BufferOK(h) /\ StageOK(h) /\ \A o \in Objects : RowOK(h, o)
  BY DEF FollowInv, FollowHandler, JournalInv, HandlerOK
<1>3. BufferOK(h)'
  BY <1>1, <1>2 DEF BufferOK
<1>4. stage[h] = "open"
  BY <1>2, RecordingStage DEF StageOK
<1>5. ASSUME NEW o \in Objects PROVE RowOK(h, o)'
  <2>1. RowOK(h, o)
    BY <1>2
  <2>2. CASE o = i.obj
    <3>1. rowWrites[h][o] # Untouched
      BY <2>1, <2>2 DEF RowOK
    <3>2. SourceOf[o] \notin KeepJournal \ wiped[h]
      BY <1>2, <1>4, <2>1, <2>2, <3>1 DEF BufferOK, RowOK
    <3> QED
      BY <1>1, <2>1, <3>1, <3>2 DEF RowOK, Following
  <2>3. CASE o # i.obj
    <3>1. LeavesMirror(h, o, Shown(o, rowWrites[h][o]))' <=> LeavesMirror(h, o, Shown(o, rowWrites[h][o]))
      BY <1>1 DEF LeavesMirror, EntriesFor
    <3>2. (\A j \in pending'[h] : j.obj # o) <=> (\A j \in pending[h] : j.obj # o)
      BY <1>1, <2>3
    <3>3. rowWrites[h][o] # Untouched => Following(h, o)'
      BY <1>1, <2>1, <3>1, <3>2 DEF RowOK, Following
    <3> QED
      BY <1>1, <2>1, <3>3 DEF RowOK
  <2> QED
    BY <2>2, <2>3
<1>6. FollowHandler(h)'
  BY <1>3, <1>5 DEF FollowHandler
<1> QED
  BY <1>1, <1>6, FollowOwn

\* A reload locks the rows it deletes.
LEMMA FollowWipe ==
    ASSUME TypeOK, LockInv, FollowInv, NEW h \in Handlers, Frame(h), NEW s \in Sources,
           DeleteAllRpslObjects(h, s)
    PROVE  FollowInv'
<1>1. /\ stage[h] = "idle" /\ stage'[h] = "wipe" /\ wiped'[h] = {s}
      /\ \A o \in Of(s) : rows[o] # None => RowFree(h, o)
      /\ \A o \in Objects :
            rowWrites'[h][o] = IF o \in Of(s) /\ rows[o] # None THEN None ELSE Untouched
      /\ UNCHANGED <<rows, mirror, journaling, buffer, pending, inserts>>
  BY DEF DeleteAllRpslObjects, databaseVars, ghostVars, TypeOK
<1>2. BufferOK(h) /\ pending[h] = {} /\ inserts[h] = {}
  BY <1>1, FreshFields DEF FollowInv, FollowHandler
<1>3. BufferOK(h)'
  BY <1>1, <1>2 DEF BufferOK
<1>4. ASSUME NEW o \in Objects PROVE RowOK(h, o)'
  <2>1. CASE o \in Of(s) /\ rows[o] # None
    <3>1. rowWrites'[h][o] = None /\ SourceOf[o] = s
      BY <1>1, <2>1 DEF Of
    <3> QED
      BY <1>1, <3>1, MarkerAssumption DEF RowOK, Preferred, Following
  <2>2. CASE ~(o \in Of(s) /\ rows[o] # None)
    <3>1. rowWrites'[h][o] = Untouched
      BY <1>1, <2>2
    <3> QED
      BY <1>1, <1>2, <3>1, MarkerAssumption DEF RowOK, Preferred
  <2> QED
    BY <2>1, <2>2
<1>5. FollowHandler(h)'
  BY <1>3, <1>4 DEF FollowHandler
<1>6. \A o \in Objects : rowWrites'[h][o] # Untouched => rowWrites[h][o] # Untouched \/ RowFree(h, o)
  BY <1>1
<1> QED
  BY <1>1, <1>5, <1>6, FollowOwn

\* What a mirror holds of an object after a commit.
LEMMA MirrorAfterCommit ==
    ASSUME TypeOK, FollowInv, NEW h \in Handlers, CommitTransaction(h), pending[h] = {},
           NEW o \in Objects, SourceOf[o] \in KeepJournal
    PROVE  mirror'[o] = Shown(o, RowView(h, o))
<1> DEFINE E == {e \in inserts[h] : e.obj = o}
           last == CHOOSE e \in E : \A f \in E : f.glob <= e.glob
<1>1. mirror'[o] = IF SourceOf[o] \in wiped[h]
                   THEN IF ObjectIsVisible(o, RowView(h, o)) THEN RowView(h, o).text ELSE None
                   ELSE IF E = {} THEN mirror[o]
                   ELSE IF last.op = "ADD" THEN last.text ELSE None
  BY DEF CommitTransaction, MirrorAfter
<1>2. RowOK(h, o)
  BY DEF FollowInv, FollowHandler
<1>3. CASE SourceOf[o] \in wiped[h]
  BY <1>1, <1>3 DEF Shown
<1>4. CASE SourceOf[o] \notin wiped[h] /\ rowWrites[h][o] = Untouched
  <2>1. E = {}
    BY <1>2, <1>4 DEF RowOK
  <2>2. mirror[o] = Shown(o, rows[o]) /\ RowView(h, o) = rows[o]
    BY <1>4 DEF FollowInv, MirrorFollows, Shown, RowView
  <2> QED
    BY <1>1, <1>4, <2>1, <2>2
<1>5. CASE SourceOf[o] \notin wiped[h] /\ rowWrites[h][o] # Untouched
  <2>1. LeavesMirror(h, o, Shown(o, RowView(h, o)))
    BY <1>2, <1>5 DEF RowOK, Following, RowView
  <2>2. CASE E = {}
    BY <1>1, <1>5, <2>1, <2>2 DEF LeavesMirror, EntriesFor
  <2>3. CASE E # {}
    <3>1. PICK e \in E : Told(e) = Shown(o, RowView(h, o)) /\ \A f \in E : f # e => f.glob < e.glob
      BY <2>1, <2>3 DEF LeavesMirror, EntriesFor
    <3>2. \A f \in E : f.glob \in Nat
      BY DEF TypeOK, Entry
    <3>3. \A f \in E : f.glob <= e.glob
      BY <3>1, <3>2
    <3>4. last \in E /\ \A f \in E : f.glob <= last.glob
      BY <3>3
    <3> HIDE DEF last
    <3>5. last = e
      BY <3>1, <3>2, <3>4
    <3> QED
      BY <1>1, <1>5, <2>3, <3>1, <3>5 DEF Told
  <2> QED
    BY <2>2, <2>3
<1> QED
  BY <1>3, <1>4, <1>5

\* A commit makes rows and journal entries visible together.
LEMMA FollowCommit ==
    ASSUME TypeOK, FollowInv, NEW h \in Handlers, Frame(h), CommitTransaction(h),
           pending[h] = {}, pending'[h] = {}, BufferOK(h)'
    PROVE  FollowInv'
<1>1. /\ inserts'[h] = {}
      /\ \A o \in Objects : rows'[o] = RowView(h, o) /\ rowWrites'[h][o] = Untouched
  BY DEF CommitTransaction, TypeOK, NoRowWrites
<1>2. MirrorFollows'
  BY <1>1, MirrorAfterCommit DEF MirrorFollows, Shown
<1>3. \A o \in Objects : Preferred(rows'[o])
  <2> SUFFICES ASSUME NEW o \in Objects PROVE Preferred(rows'[o])
    OBVIOUS
  <2>1. Preferred(rows[o]) /\ Preferred(rowWrites[h][o])
    BY DEF FollowInv, FollowHandler, RowOK
  <2> QED
    BY <1>1, <2>1 DEF RowView
<1>4. FollowHandler(h)'
  BY <1>1, MarkerAssumption DEF FollowHandler, RowOK, Preferred
<1>5. ASSUME NEW g \in Handlers \ {h} PROVE FollowHandler(g)'
  <2>0. /\ stage'[g] = stage[g] /\ journaling'[g] = journaling[g] /\ wiped'[g] = wiped[g]
        /\ pending'[g] = pending[g] /\ inserts'[g] = inserts[g]
        /\ buffer'[g] = buffer[g] /\ rowWrites'[g] = rowWrites[g]
    BY DEF Frame
  <2>1. FollowHandler(g)
    BY DEF FollowInv
  <2>2. BufferOK(g)'
    BY <2>0, <2>1 DEF FollowHandler, BufferOK
  <2>3. ASSUME NEW o \in Objects PROVE RowOK(g, o)'
    <3>1. RowOK(g, o)
      BY <2>1 DEF FollowHandler
    <3>2. CASE rowWrites[g][o] = Untouched
      BY <2>0, <3>1, <3>2 DEF RowOK
    <3>3. CASE rowWrites[g][o] # Untouched /\ SourceOf[o] \in KeepJournal
      <4>1. rowWrites[h][o] = Untouched
        BY <3>3 DEF FollowInv, ObjectLockInv
      <4>2. mirror'[o] = mirror[o]
        BY <3>3, <4>1, MirrorAfterCommit DEF RowView, FollowInv, MirrorFollows, Shown
      <4>3. LeavesMirror(g, o, Shown(o, rowWrites[g][o]))' <=>
               LeavesMirror(g, o, Shown(o, rowWrites[g][o]))
        BY <2>0, <4>2 DEF LeavesMirror, EntriesFor
      <4>4. Following(g, o)'
        BY <2>0, <3>1, <3>3, <4>3 DEF RowOK, Following
      <4> QED
        BY <2>0, <3>1, <4>4 DEF RowOK
    <3>4. CASE rowWrites[g][o] # Untouched /\ SourceOf[o] \notin KeepJournal
      BY <2>0, <3>1, <3>4 DEF RowOK, Following
    <3> QED
      BY <3>2, <3>3, <3>4
  <2> QED
    BY <2>2, <2>3 DEF FollowHandler
<1>6. ObjectLockInv'
  BY <1>1 DEF FollowInv, ObjectLockInv, Frame
<1> QED
  BY <1>2, <1>3, <1>4, <1>5, <1>6 DEF FollowInv

\* Every step keeps FollowInv, if there is no route preference.
LEMMA FollowNext ==
    ASSUME ~PreferenceEnabled, TypeInv, LockInv, JournalInv, FollowInv, NEW h \in Handlers,
           Change(h) \/ Administer(h) \/ Finish(h)
    PROVE  FollowInv'
<1>0. Frame(h) /\ TypeOK /\ BufferOK(h) /\ StageOK(h)
  BY FrameStep DEF TypeInv, FollowInv, FollowHandler, JournalInv, HandlerOK
<1>1. stage[h] = "idle" => journaling[h]
  BY DEF LockInv, FreshInv, Fresh
<1>2. CASE Change(h)
  BY <1>0, <1>2, FollowUpsert, FollowFlush, FollowDelete, FollowInsert, FollowRecord DEF Change
<1>3. ASSUME NEW s \in Sources, DeleteAllRpslObjects(h, s) PROVE FollowInv'
  BY <1>0, <1>3, FollowWipe
<1>4. CASE DeleteAllJournalEntries(h)
  <2>1. /\ wiped[h] # {} /\ stage'[h] = "open"
        /\ UNCHANGED <<rows, mirror, rowWrites, buffer, inserts, pending, wiped>>
    BY <1>0, <1>4 DEF DeleteAllJournalEntries, databaseVars, ghostVars, TypeOK
  <2>2. BufferOK(h)'
    BY <1>0, <2>1 DEF BufferOK
  <2> QED
    BY <1>0, <2>1, <2>2, FollowSilent DEF Silent
<1>5. CASE EnableJournaling(h)
  <2>1. /\ stage'[h] = "open" /\ journaling'[h]
        /\ UNCHANGED <<rows, mirror, rowWrites, buffer, inserts, pending, wiped>>
    BY <1>0, <1>5 DEF EnableJournaling, databaseVars, ghostVars, TypeOK
  <2>2. BufferOK(h)'
    BY <1>0, <2>1 DEF BufferOK
  <2> QED
    BY <1>0, <2>1, <2>2, FollowSilent DEF Silent
<1>6. ASSUME NEW s, NEW n, RecordSerialSeen(h, s, n) PROVE FollowInv'
  <2>1. UNCHANGED <<rows, mirror, rowWrites, buffer, inserts, pending, wiped, stage, journaling>>
    BY <1>6 DEF RecordSerialSeen, databaseVars, ghostVars
  <2>2. BufferOK(h)'
    BY <1>0, <2>1 DEF BufferOK
  <2> QED
    BY <1>0, <2>1, <2>2, FollowSilent DEF Silent
<1>7. ASSUME NEW s, RecordStatus(h, s) PROVE FollowInv'
  <2>1. /\ stage'[h] = "open" /\ stage[h] \in {"idle", "open"}
        /\ UNCHANGED <<rows, mirror, rowWrites, buffer, inserts, pending, wiped, journaling>>
    BY <1>0, <1>7 DEF RecordStatus, Ready, databaseVars, ghostVars, TypeOK
  <2>2. BufferOK(h)'
    BY <1>0, <1>1, <2>1 DEF BufferOK
  <2> QED
    BY <1>0, <2>1, <2>2, FollowSilent DEF Silent
<1>8. ASSUME NEW s, NEW g, DeleteJournalEntriesBeforeDate(h, s, g) \/ SetForceReload(h, s)
      PROVE  FollowInv'
  <2>1. /\ stage'[h] = "closing" /\ stage[h] = "idle"
        /\ UNCHANGED <<rows, mirror, rowWrites, buffer, inserts, pending, wiped, journaling>>
    BY <1>0, <1>8 DEF DeleteJournalEntriesBeforeDate, SetForceReload, databaseVars, ghostVars, TypeOK
  <2>2. BufferOK(h)'
    BY <1>0, <2>1 DEF BufferOK
  <2> QED
    BY <1>0, <2>1, <2>2, FollowSilent DEF Silent
<1>9. CASE FinaliseTransaction(h)
  <2>1. /\ stage'[h] \in {"precommit", "finalised"} /\ buffer[h] = {}
        /\ UNCHANGED <<rows, mirror, rowWrites, buffer, inserts, pending, wiped, journaling>>
    BY <1>0, <1>9 DEF FinaliseTransaction, databaseVars, ghostVars, TypeOK
  <2>2. BufferOK(h)'
    BY <1>0, <2>1 DEF BufferOK
  <2> QED
    BY <1>0, <2>1, <2>2, FollowSilent DEF Silent
<1>10. CASE PreCommit(h)
  <2>1. stage'[h] = "commit" /\ stage[h] = "precommit"
    BY <1>0, <1>10, NoEvaluation DEF PreCommit
  <2>2. UNCHANGED <<rows, mirror, rowWrites, buffer, inserts, pending, wiped, journaling>>
    BY <1>10 DEF PreCommit, databaseVars, ghostVars
  <2>3. BufferOK(h)'
    BY <1>0, <2>1, <2>2 DEF BufferOK
  <2> QED
    BY <1>0, <2>2, <2>3, FollowSilent DEF Silent
<1>11. CASE IntermediateCommit(h)
  <2>1. /\ CommitTransaction(h) /\ stage[h] = "finalised" /\ stage'[h] = "precommit"
        /\ UNCHANGED <<journaling, buffer, pending>> /\ wiped'[h] = {}
    BY <1>0, <1>11 DEF IntermediateCommit, CommitTransaction, TypeOK
  <2>2. pending[h] = {}
    BY <1>0, <2>1 DEF StageOK, Final
  <2>3. BufferOK(h)'
    BY <1>0, <2>1 DEF BufferOK
  <2> QED
    BY <1>0, <2>1, <2>2, <2>3, FollowCommit
<1>12. CASE Commit(h)
  <2>1. /\ CommitTransaction(h) /\ stage[h] = "commit" /\ stage'[h] = "idle"
        /\ buffer'[h] = {} /\ pending'[h] = {} /\ wiped'[h] = {} /\ rowWrites'[h] = NoRowWrites
    BY <1>0, <1>12 DEF Commit, CommitTransaction, Reset, TypeOK
  <2>2. pending[h] = {}
    BY <1>0, <2>1 DEF StageOK, Final
  <2>3. BufferOK(h)'
    BY <2>1 DEF BufferOK
  <2> QED
    BY <1>0, <2>1, <2>2, <2>3, FollowCommit
<1>13. CASE Rollback(h)
  <2>1. /\ stage'[h] = "idle" /\ buffer'[h] = {} /\ pending'[h] = {} /\ wiped'[h] = {}
        /\ inserts'[h] = {} /\ rowWrites'[h] = NoRowWrites /\ UNCHANGED <<rows, mirror>>
    BY <1>0, <1>13 DEF Rollback, Reset, databaseVars, ghostVars, TypeOK
  <2>2. \A o \in Objects : rowWrites'[h][o] = Untouched
    BY <2>1 DEF NoRowWrites
  <2>3. FollowHandler(h)'
    BY <2>1, <2>2, MarkerAssumption DEF FollowHandler, BufferOK, RowOK, Preferred
  <2> QED
    BY <1>0, <2>1, <2>2, <2>3, FollowOwn
<1>14. ~RoutePreferenceUpdateRunner(h) /\ ~EnrichPks(h) /\ ~UpdateRoutePreferenceStatus(h)
  BY <1>0, NoEvaluation
<1> QED
  BY <1>2, <1>3, <1>4, <1>5, <1>6, <1>7, <1>8, <1>9, <1>10, <1>11, <1>12, <1>13, <1>14
     DEF Administer, Finish

\* Without route preference, a mirror that follows the committed journal holds what queries
\* show here, whatever transactions interleave, fail or reload a source.
THEOREM MirrorInvariant == ASSUME ~PreferenceEnabled PROVE Spec => []MirrorFollows
<1>1. TypeInv /\ LockInv /\ JournalInv /\ FollowInv /\ [Next]_vars => FollowInv'
  <2> SUFFICES ASSUME TypeInv, LockInv, JournalInv, FollowInv, [Next]_vars PROVE FollowInv'
    OBVIOUS
  <2>1. CASE Next
    BY <2>1, FollowNext DEF Next
  <2>2. CASE UNCHANGED vars
    <3>1. UNCHANGED <<rows, mirror, stage, journaling, buffer, pending, rowWrites, inserts, wiped>>
      BY <2>2 DEF vars, databaseVars, txVars, ghostVars
    <3>2. MirrorFollows' /\ ObjectLockInv' /\ \A o \in Objects : Preferred(rows'[o])
      BY <3>1 DEF FollowInv, MirrorFollows, ObjectLockInv
    <3>3. ASSUME NEW h \in Handlers PROVE FollowHandler(h)'
      <4>1. FollowHandler(h)
        BY DEF FollowInv
      <4> QED
        BY <3>1, <4>1 DEF FollowHandler, BufferOK, RowOK, Following, LeavesMirror, EntriesFor
    <3> QED
      BY <3>2, <3>3 DEF FollowInv
  <2> QED
    BY <2>1, <2>2
<1>2. FollowInv => MirrorFollows
  BY DEF FollowInv
<1> QED
  BY TypeInvariant, LockInvariant, JournalInvariant, FollowInit, <1>1, <1>2, PTL DEF Spec

=============================================================================
