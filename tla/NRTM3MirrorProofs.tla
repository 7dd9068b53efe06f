------------------------- MODULE NRTM3MirrorProofs -------------------------
(***************************************************************************)
(* A mirror by export files and NRTMv3 misses nothing, for any objects,    *)
(* any length of the journal, any scenario and any number of failures.     *)
(***************************************************************************)
EXTENDS NRTM3Mirror, TLAPS

-----------------------------------------------------------------------------
(* The inductive invariant *)

\* A database has this copy of the objects and a serial: what the copy lacks follows
\* in the journal after the serial. Nothing is said of objects that are not accepted.
CoversIn(J, R, data, serial) ==
    \A o \in Objects \ Ignored :
        (\E e \in J : e.obj = o /\ e.serial > serial) \/ data[o] = R[o]

Covers(data, serial) == CoversIn(journal, rows, data, serial)

NoneIgnored(data) == \A o \in Ignored : data[o] = None

TypeInv ==
    /\ rows \in Data
    /\ journal \subseteq [serial : Nat, op : {"ADD", "DEL"}, obj : Objects, text : Texts]
    /\ status.newest \in Nat /\ status.seen \in Nat
    /\ files \in [data : Data \union {None}, serial : Nat \union {None}]
    /\ export # None => export \in
          [stage : {"objects", "unlink", "unlink serial", "move", "serial"}, serial : Nat, data : Data]
    /\ mirror \in [data : Data, serials : SUBSET Nat, newest : Nat, force : BOOLEAN]
    /\ run # None => run \in
          [stage : {"serial", "objects", "query", "stream", "commit"}, newest : Nat, force : BOOLEAN,
           data : Data, serials : SUBSET Nat, last : Nat, changed : BOOLEAN]

\* An entry is the last one about its object, and made the object what it is.
Settles(J, R, g) ==
    g \in J /\ Effect(g) = R[g.obj] /\ \A f \in J : f.obj = g.obj => f.serial <= g.serial

\* The journal ends with the serial in the status row, no serial is used twice, and
\* the last entry about an object made it what it is.
JournalInv ==
    /\ status.newest <= status.seen
    /\ \A e \in journal : e.serial <= status.seen
    /\ journal # {} => \E e \in journal : e.serial = status.seen
    /\ \A e, f \in journal : e.serial = f.serial => e = f
    /\ \A e \in journal : \E g \in journal : g.obj = e.obj /\ Settles(journal, rows, g)

\* The files belong together whenever both are there; so does what the exporter has read,
\* although it read the serial first.
FilesInv ==
    /\ files.serial # None =>
          /\ files.serial # 0 /\ files.serial <= status.seen
          /\ files.data # None => Covers(files.data, files.serial)
    /\ export # None =>
          /\ export.serial <= status.seen
          /\ files.serial # None => files.serial <= export.serial
          /\ export.stage # "objects" => Covers(export.data, export.serial)
          /\ export.stage \in {"unlink serial", "move"} => files.data = None
          /\ export.stage \in {"move", "serial"} => files.serial = None
          /\ export.stage = "serial" => Covers(files.data, export.serial)

MirrorInv ==
    /\ mirror.newest <= status.seen
    /\ NoneIgnored(mirror.data)
    /\ mirror.newest # 0 => Covers(mirror.data, mirror.newest)

\* What a run has by each stage. The objects that it will retrieve are not older than
\* the serial it has retrieved, whichever export has written them.
RunInv ==
    run # None =>
        /\ run.last <= status.seen
        /\ run.newest = mirror.newest
        /\ NoneIgnored(run.data)
        /\ run.stage \in {"query", "stream"} => run.data = mirror.data /\ run.newest # 0
        /\ run.stage \in {"serial", "query", "stream"} => run.changed = FALSE
        /\ run.stage = "stream" => run.last # 0
        /\ run.stage = "objects" =>
              /\ run.last # 0
              /\ export # None => run.last <= export.serial
              /\ files.data # None => Covers(files.data, run.last)
        /\ run.stage = "commit" /\ run.changed => run.last # 0 /\ Covers(run.data, run.last)

MirrorSafe == TypeInv /\ JournalInv /\ FilesInv /\ MirrorInv /\ RunInv

-----------------------------------------------------------------------------
(* The source *)

\* The last of a set of entries with different serials is found by Latest.
LEMMA LatestIs ==
    ASSUME NEW E, NEW g \in E,
           \A e, f \in E : e.serial = f.serial => e = f,
           \A e \in E : e.serial \in Nat,
           \A e \in E : e.serial <= g.serial
    PROVE  Latest(E) = g
<1>1. Latest(E) \in E /\ \A f \in E : f.serial <= Latest(E).serial
  BY DEF Latest
<1> QED
  BY <1>1

\* A set with a greatest number has that as its maximum.
LEMMA MaxIs ==
    ASSUME NEW S, S \subseteq Nat, NEW m \in S, \A x \in S : x <= m
    PROVE  Max(S) = m
<1>1. \A y \in S : m >= y
  OBVIOUS
<1>2. Max(S) \in S /\ \A y \in S : Max(S) >= y
  BY <1>1 DEF Max
<1>3. Max(S) \in Nat /\ m \in Nat /\ Max(S) >= m /\ Max(S) <= m
  BY <1>2
<1> QED
  BY <1>3

LEMMA EntryType ==
    ASSUME TypeInv
    PROVE  \A e \in journal : e.serial \in Nat /\ e.obj \in Objects /\ Effect(e) \in Texts \union {None}
  BY DEF TypeInv, Effect

\* The journal continues where the status row ends.
LEMMA LastIsSeen ==
    ASSUME TypeInv, JournalInv
    PROVE  LastSerial = status.seen
<1>1. CASE journal = {}
  BY <1>1 DEF LastSerial
<1>2. CASE journal # {}
  <2>1. SerialsOf(journal) \subseteq Nat
    BY EntryType DEF SerialsOf
  <2>2. status.seen \in SerialsOf(journal)
    BY <1>2 DEF SerialsOf, JournalInv
  <2>3. \A x \in SerialsOf(journal) : x <= status.seen
    BY DEF SerialsOf, JournalInv
  <2>4. Max(SerialsOf(journal)) = status.seen
    BY <2>1, <2>2, <2>3, MaxIs
  <2> QED
    BY <1>2, <2>4 DEF LastSerial
<1> QED
  BY <1>1, <1>2

\* What follows a copy in the journal turns it into the objects: the last entry
\* about each object is among what follows, or the object is as in the copy.
LEMMA FollowedCopy ==
    ASSUME TypeInv, JournalInv, NEW data \in Data, NEW serial \in Nat,
           NoneIgnored(data), Covers(data, serial)
    PROVE  After(data, AcceptedOps({e \in journal : e.serial > serial})) = Accepted(rows)
<1> DEFINE E == AcceptedOps({e \in journal : e.serial > serial})
<1>1. \A e : e \in E <=> e \in journal /\ e.serial > serial /\ e.obj \notin Ignored
  BY DEF AcceptedOps
<1> HIDE DEF E
<1>2. ASSUME NEW o \in Objects
      PROVE  After(data, E)[o] = Accepted(rows)[o]
  <2>1. CASE About(E, o) # {}
    <3>1. PICK e \in E : e.obj = o
      BY <2>1 DEF About
    <3>2. PICK g \in journal : g.obj = o /\ Settles(journal, rows, g)
      BY <3>1, <1>1 DEF JournalInv
    <3>3. g \in E /\ g.obj = o
      <4>1. e \in journal /\ e.serial <= g.serial /\ e.serial > serial
        BY <3>1, <3>2, <1>1 DEF Settles
      <4> QED
        BY <4>1, <3>1, <3>2, <1>1, EntryType
    <3>4. /\ g \in About(E, o)
          /\ \A f \in About(E, o) : f \in journal /\ f.obj = o
      BY <3>3, <1>1 DEF About
    <3>40. /\ \A f \in About(E, o) : f.serial <= g.serial /\ f.serial \in Nat
          /\ \A f, h \in About(E, o) : f.serial = h.serial => f = h
      BY <3>2, <3>4, EntryType DEF Settles, JournalInv
    <3>5. Latest(About(E, o)) = g
      BY <3>4, <3>40, LatestIs
    <3>6. o \notin Ignored
      BY <3>1, <1>1
    <3> QED
      BY <2>1, <3>2, <3>5, <3>6 DEF After, Accepted, Settles
  <2>2. CASE About(E, o) = {}
    <3>1. o \notin Ignored => ~\E e \in journal : e.obj = o /\ e.serial > serial
      BY <2>2, <1>1 DEF About
    <3> QED
      BY <2>2, <3>1 DEF After, Accepted, Covers, CoversIn, NoneIgnored
  <2> QED
    BY <2>1, <2>2
<1> QED
  BY <1>2 DEF After, Accepted, E
\* What a transaction records: different operations on different objects, with the
\* serials from the one after the status row to the one it writes there.
Numbered(entries, n) ==
    /\ n \in Nat \ {0}
    /\ entries \subseteq [serial : Nat, op : {"ADD", "DEL"}, obj : Objects, text : Texts]
    /\ \A e \in entries : status.seen < e.serial /\ e.serial <= status.seen + n
    /\ \E e \in entries : e.serial = status.seen + n
    /\ \A e, f \in entries : e.serial = f.serial \/ e.obj = f.obj => e = f

\* After a transaction, copies still lead to the objects: what they lack now is recorded
\* with new serials.
LEMMA TransactionKeeps ==
    ASSUME TypeInv, JournalInv, NEW entries, NEW n, Numbered(entries, n), Transaction(entries, n)
    PROVE  /\ rows' \in Data
           /\ journal' \subseteq [serial : Nat, op : {"ADD", "DEL"}, obj : Objects, text : Texts]
           /\ status'.newest \in Nat /\ status'.seen \in Nat /\ status'.seen >= status.seen
           /\ JournalInv'
           /\ \A data, serial : serial \in Nat /\ serial <= status.seen /\ CoversIn(journal, rows, data, serial)
                 => CoversIn(journal', rows', data, serial)
<1>1. LastSerial = status.seen
  BY LastIsSeen
<1>2. /\ rows' = After(rows, entries)
      /\ journal' = journal \union entries
      /\ status'.newest = status.seen + n /\ status'.seen = status.seen + n
  BY <1>1 DEF Transaction
<1>30. status.seen \in Nat /\ n \in Nat \ {0} /\ rows \in Data
  BY DEF TypeInv, Numbered
<1>3. /\ status.seen \in Nat /\ n \in Nat \ {0} /\ rows \in Data
      /\ status'.newest \in Nat /\ status'.seen \in Nat /\ status'.seen >= status.seen
  BY <1>2, <1>30
<1>4. /\ \A e \in entries : e.serial \in Nat /\ e.obj \in Objects /\ Effect(e) \in Texts \union {None}
      /\ \A e \in journal : e.serial \in Nat /\ e.obj \in Objects /\ Effect(e) \in Texts \union {None}
  BY EntryType DEF Numbered, Effect
<1>5. ASSUME NEW e \in entries
      PROVE  About(entries, e.obj) # {} /\ Latest(About(entries, e.obj)) = e
  <2>1. /\ e \in About(entries, e.obj)
        /\ \A f \in About(entries, e.obj) : f = e
    BY DEF About, Numbered
  <2>2. e.serial \in Nat
    BY <1>4
  <2>3. Latest(About(entries, e.obj)) = e
    BY <2>1, <2>2, LatestIs
  <2> QED
    BY <2>1, <2>3
<1>6. \A e \in entries : rows'[e.obj] = Effect(e)
  BY <1>2, <1>4, <1>5 DEF After
<1>7. \A o \in Objects : (\A e \in entries : e.obj # o) => rows'[o] = rows[o]
  BY <1>2 DEF After, About
<1>8. rows' \in Data
  <2>1. ASSUME NEW o \in Objects
        PROVE  rows'[o] \in Texts \union {None}
    BY <1>3, <1>4, <1>6, <1>7 DEF Data
  <2> QED
    BY <1>2, <2>1 DEF After, Data
<1>9. JournalInv'
  <2>1. /\ status'.newest <= status'.seen
        /\ \A e \in journal' : e.serial <= status'.seen
        /\ \E e \in journal' : e.serial = status'.seen
    BY <1>2, <1>3, <1>4 DEF JournalInv, Numbered
  <2>2. \A e \in journal, f \in entries : e.serial # f.serial
    BY <1>3, <1>4 DEF JournalInv, Numbered
  <2>3. \A e, f \in journal' : e.serial = f.serial => e = f
    BY <1>2, <2>2 DEF JournalInv, Numbered
  <2>4. ASSUME NEW e \in journal'
        PROVE  \E g \in journal' : g.obj = e.obj /\ Settles(journal', rows', g)
    <3>1. CASE \E g \in entries : g.obj = e.obj
      <4>1. PICK g \in entries : g.obj = e.obj
        BY <3>1
      <4>2. \A f \in journal' : f.obj = g.obj => f.serial <= g.serial
        BY <1>2, <1>3, <1>4 DEF JournalInv, Numbered
      <4> QED
        BY <4>1, <4>2, <1>2, <1>6 DEF Settles
    <3>2. CASE ~\E g \in entries : g.obj = e.obj
      <4>1. PICK g \in journal : g.obj = e.obj /\ Settles(journal, rows, g)
        BY <1>2, <3>2 DEF JournalInv
      <4>2. rows'[g.obj] = rows[g.obj]
        BY <1>4, <1>7, <3>2, <4>1
      <4> QED
        BY <4>1, <4>2, <1>2, <3>2 DEF Settles
    <3> QED
      BY <3>1, <3>2
  <2> QED
    BY <2>1, <2>3, <2>4 DEF JournalInv
<1>10. ASSUME NEW data, NEW serial \in Nat, serial <= status.seen, CoversIn(journal, rows, data, serial)
       PROVE  CoversIn(journal', rows', data, serial)
  <2> SUFFICES ASSUME NEW o \in Objects \ Ignored
               PROVE  (\E e \in journal' : e.obj = o /\ e.serial > serial) \/ data[o] = rows'[o]
    BY DEF CoversIn
  <2>1. CASE \E e \in entries : e.obj = o
    BY <2>1, <1>2, <1>3, <1>4, <1>10 DEF Numbered
  <2>2. CASE ~\E e \in entries : e.obj = o
    BY <2>2, <1>2, <1>7, <1>10 DEF CoversIn
  <2> QED
    BY <2>1, <2>2
<1>11. journal' \subseteq [serial : Nat, op : {"ADD", "DEL"}, obj : Objects, text : Texts]
  BY <1>2 DEF TypeInv, Numbered
<1> QED
  BY <1>3, <1>8, <1>9, <1>10, <1>11
\* A change has one operation, with the next serial.
LEMMA ChangeNumbered ==
    ASSUME TypeInv, JournalInv, Change
    PROVE  \E entries, n : Numbered(entries, n) /\ Transaction(entries, n)
<1>1. PICK op \in Operation : Transaction({Entry(op, LastSerial + 1)}, 1)
  BY DEF Change
<1>2. LastSerial = status.seen /\ status.seen \in Nat
  BY LastIsSeen DEF TypeInv
<1> DEFINE e == Entry(op, LastSerial + 1)
<1>3. /\ e \in [serial : Nat, op : {"ADD", "DEL"}, obj : Objects, text : Texts]
      /\ e.serial = status.seen + 1
  BY <1>2 DEF Entry, Operation
<1> HIDE DEF e
<1>4. Numbered({e}, 1)
  BY <1>2, <1>3 DEF Numbered
<1> QED
  BY <1>1, <1>4 DEF e

\* An update file has one for each object that it changes, in the order of place.
LEMMA UpdateNumbered ==
    ASSUME TypeInv, JournalInv, UpdateDatabase
    PROVE  \E entries, n : Numbered(entries, n) /\ Transaction(entries, n)
<1>1. PICK file \in Data, n \in 2 .. MaxSerial :
        \E place \in Bijection({o \in Objects : file[o] # rows[o]}, 1 .. n) :
            Transaction({Entry(FileOperation(file, o), LastSerial + place[o]) :
                            o \in {p \in Objects : file[p] # rows[p]}}, n)
  BY DEF UpdateDatabase
<1> DEFINE Changed == {o \in Objects : file[o] # rows[o]}
<1>2. PICK place \in Bijection(Changed, 1 .. n) :
        Transaction({Entry(FileOperation(file, o), LastSerial + place[o]) : o \in Changed}, n)
  BY <1>1
<1>3. LastSerial = status.seen /\ status.seen \in Nat /\ rows \in Data
  BY LastIsSeen DEF TypeInv
<1>4. n \in Nat \ {0}
  BY MirrorAssumption
<1>5. /\ \A o \in Changed : place[o] \in 1 .. n
      /\ \A o, p \in Changed : place[o] = place[p] => o = p
      /\ \E o \in Changed : place[o] = n
  BY <1>4 DEF Bijection, Injection, Surjection, IsInjective
<1> DEFINE E(o) == Entry(FileOperation(file, o), LastSerial + place[o])
           entries == {E(o) : o \in Changed}
<1>6. ASSUME NEW o \in Changed
      PROVE  /\ E(o) \in [serial : Nat, op : {"ADD", "DEL"}, obj : Objects, text : Texts]
             /\ E(o).serial = status.seen + place[o] /\ E(o).obj = o
  <2>1. FileOperation(file, o) \in Operation /\ FileOperation(file, o).obj = o
    BY <1>3 DEF FileOperation, Operation, Data
  <2>2. LastSerial + place[o] \in Nat
    BY <1>3, <1>5
  <2> QED
    BY <2>1, <2>2, <1>3 DEF Entry, Operation
<1> HIDE DEF E, Changed
<1>7. Numbered(entries, n)
  <2>1. entries \subseteq [serial : Nat, op : {"ADD", "DEL"}, obj : Objects, text : Texts]
    BY <1>6
  <2>2. \A e \in entries : status.seen < e.serial /\ e.serial <= status.seen + n
    BY <1>3, <1>4, <1>5, <1>6
  <2>3. \E e \in entries : e.serial = status.seen + n
    BY <1>5, <1>6
  <2>4. \A e, f \in entries : e.serial = f.serial \/ e.obj = f.obj => e = f
    BY <1>3, <1>4, <1>5, <1>6
  <2> QED
    BY <1>4, <2>1, <2>2, <2>3, <2>4 DEF Numbered
<1> QED
  BY <1>2, <1>7 DEF E, Changed

\* Expiry removes the oldest entries, up to a serial that no reader has still to go past.
LEMMA ExpiryKeeps ==
    ASSUME TypeInv, JournalInv, NEW n \in SerialsOf(journal),
           journal' = {e \in journal : e.serial > n}, UNCHANGED <<rows, status>>
    PROVE  /\ JournalInv'
           /\ \A data, serial : serial \in Nat /\ n <= serial /\ CoversIn(journal, rows, data, serial)
                 => CoversIn(journal', rows', data, serial)
<1>1. n \in Nat /\ status.seen \in Nat
  BY EntryType DEF SerialsOf, TypeInv
<1>2. \A e \in journal : e.serial \in Nat
  BY EntryType
<1>3. journal' # {} => \E e \in journal' : e.serial = status'.seen
  BY <1>1, <1>2 DEF JournalInv
<1>4. ASSUME NEW e \in journal'
      PROVE  \E g \in journal' : g.obj = e.obj /\ Settles(journal', rows', g)
  <2>1. PICK g \in journal : g.obj = e.obj /\ Settles(journal, rows, g)
    BY DEF JournalInv
  <2>2. e \in journal /\ e.serial > n /\ e.serial <= g.serial
    BY <2>1 DEF Settles
  <2>3. g \in journal'
    BY <1>1, <1>2, <2>2
  <2> QED
    BY <2>1, <2>3 DEF Settles
<1>5. JournalInv'
  BY <1>3, <1>4 DEF JournalInv
<1>6. ASSUME NEW data, NEW serial \in Nat, n <= serial, CoversIn(journal, rows, data, serial)
      PROVE  CoversIn(journal', rows', data, serial)
  BY <1>1, <1>2, <1>6 DEF CoversIn
<1> QED
  BY <1>5, <1>6
-----------------------------------------------------------------------------
(* The steps *)

\* A copy with a serial is one with a lower serial too.
LEMMA CoversLess ==
    ASSUME TypeInv, NEW data, NEW s \in Nat, NEW t \in Nat, t <= s, Covers(data, s)
    PROVE  Covers(data, t)
  BY EntryType DEF Covers, CoversIn

\* The source changes, and what readers have stays a copy from which they can go on.
LEMMA SourceStep ==
    ASSUME MirrorSafe, UNCHANGED <<files, export, mirror, run>>,
           rows' \in Data,
           journal' \subseteq [serial : Nat, op : {"ADD", "DEL"}, obj : Objects, text : Texts],
           status'.newest \in Nat /\ status'.seen \in Nat /\ status'.seen >= status.seen,
           JournalInv',
           \A data, serial :
              serial \in ReaderSerials /\ serial \in Nat /\ serial <= status.seen
                /\ CoversIn(journal, rows, data, serial) => CoversIn(journal', rows', data, serial)
    PROVE  MirrorSafe'
<1>1. TypeInv'
  BY DEF MirrorSafe, TypeInv
<1>2. /\ status.seen \in Nat
      /\ files.serial # None => files.serial \in Nat /\ files.serial \in ReaderSerials
      /\ export # None => export.serial \in Nat /\ export.serial \in ReaderSerials
      /\ mirror.newest \in Nat
      /\ mirror.newest # 0 => mirror.newest \in ReaderSerials
      /\ run # None => run.last \in Nat /\ (run.last # 0 => run.last \in ReaderSerials)
  <2>1. /\ status.seen \in Nat
        /\ files.serial # None => files.serial \in Nat
        /\ export # None => export.serial \in Nat
        /\ mirror.newest \in Nat
        /\ run # None => run.last \in Nat
    BY DEF MirrorSafe, TypeInv
  <2>2. \A r : r \in ReaderSerials <=>
           \/ r = mirror.newest /\ r # 0
           \/ r = files.serial /\ r # None
           \/ export # None /\ r = export.serial
           \/ run # None /\ r \in {run.newest, run.last} /\ r # 0
    BY DEF ReaderSerials
  <2> QED
    BY <2>1, <2>2
<1> DEFINE Still(data, serial) == CoversIn(journal', rows', data, serial)
<1>3. FilesInv'
  <2>1. ASSUME files.serial # None
        PROVE  /\ files.serial # 0 /\ files.serial <= status'.seen
               /\ files.data # None => Still(files.data, files.serial)
    <3>1. /\ files.serial # 0 /\ files.serial <= status.seen
          /\ files.data # None => CoversIn(journal, rows, files.data, files.serial)
      BY <2>1 DEF MirrorSafe, FilesInv, Covers
    <3> QED
      BY <2>1, <3>1, <1>2
  <2>2. ASSUME export # None
        PROVE  /\ export.serial <= status'.seen
               /\ export.stage # "objects" => Still(export.data, export.serial)
               /\ export.stage = "serial" => Still(files.data, export.serial)
    <3>1. /\ export.serial <= status.seen
          /\ export.stage # "objects" => CoversIn(journal, rows, export.data, export.serial)
          /\ export.stage = "serial" => CoversIn(journal, rows, files.data, export.serial)
      BY <2>2 DEF MirrorSafe, FilesInv, Covers
    <3> QED
      BY <2>2, <3>1, <1>2
  <2> QED
    BY <2>1, <2>2 DEF MirrorSafe, FilesInv, Covers
<1>4. MirrorInv'
  <2>1. mirror.newest <= status'.seen /\ (mirror.newest # 0 => Still(mirror.data, mirror.newest))
    BY <1>2 DEF MirrorSafe, MirrorInv, Covers
  <2> QED
    BY <2>1 DEF MirrorSafe, MirrorInv, Covers, NoneIgnored
<1>5. RunInv'
  <2>1. run # None =>
          /\ run.last <= status'.seen
          /\ run.stage = "objects" /\ files.data # None => Still(files.data, run.last)
          /\ run.stage = "commit" /\ run.changed => Still(run.data, run.last)
    BY <1>2 DEF MirrorSafe, RunInv, Covers
  <2> QED
    BY <2>1 DEF MirrorSafe, RunInv, Covers, NoneIgnored
<1> QED
  BY <1>1, <1>3, <1>4, <1>5 DEF MirrorSafe

LEMMA ChangeSafe ==
    ASSUME MirrorSafe, Change \/ UpdateDatabase
    PROVE  MirrorSafe'
<1>1. PICK entries, n : Numbered(entries, n) /\ Transaction(entries, n)
  BY ChangeNumbered, UpdateNumbered DEF MirrorSafe
<1>2. TypeInv /\ JournalInv
  BY DEF MirrorSafe
<1>3. UNCHANGED <<files, export, mirror, run>>
  BY <1>1 DEF Transaction
<1> QED
  BY <1>1, <1>2, <1>3, TransactionKeeps, SourceStep

LEMMA ExpirySafe ==
    ASSUME MirrorSafe, ExpireJournal
    PROVE  MirrorSafe'
<1>1. PICK n \in SerialsOf(journal) :
        /\ \A r \in ReaderSerials : r >= n
        /\ journal' = {e \in journal : e.serial > n}
        /\ UNCHANGED <<rows, status, files, export, mirror, run>>
  BY DEF ExpireJournal
<1>2. TypeInv /\ JournalInv
  BY DEF MirrorSafe
<1>3. n \in Nat /\ status.seen \in Nat /\ status.newest \in Nat
  BY <1>2, EntryType DEF SerialsOf, TypeInv
<1>4. /\ JournalInv'
      /\ \A data, serial : serial \in Nat /\ n <= serial /\ CoversIn(journal, rows, data, serial)
            => CoversIn(journal', rows', data, serial)
  BY <1>1, <1>2, ExpiryKeeps
<1>5. \A data, serial :
         serial \in ReaderSerials /\ serial \in Nat /\ serial <= status.seen
           /\ CoversIn(journal, rows, data, serial) => CoversIn(journal', rows', data, serial)
  BY <1>1, <1>3, <1>4
<1>6. /\ rows' \in Data
      /\ journal' \subseteq [serial : Nat, op : {"ADD", "DEL"}, obj : Objects, text : Texts]
  BY <1>1, <1>2 DEF TypeInv
<1>7. status'.newest \in Nat /\ status'.seen \in Nat /\ status'.seen >= status.seen
  BY <1>1, <1>3
<1>8. UNCHANGED <<files, export, mirror, run>>
  BY <1>1
<1> QED
  BY <1>4, <1>5, <1>6, <1>7, <1>8, SourceStep

\* The source stands still: copies stay what they are.
LEMMA SourceKept ==
    ASSUME MirrorSafe, UNCHANGED <<rows, journal, status>>
    PROVE  /\ JournalInv'
           /\ \A data, serial : CoversIn(journal', rows', data, serial) <=> Covers(data, serial)
<1>1. JournalInv
  BY DEF MirrorSafe
<1> QED
  BY <1>1 DEF JournalInv, Covers

\* The exporter reads the serial before the objects and writes it after them. The new
\* serial is not lower than the one in the file, nor than what a run has retrieved.
LEMMA ExportSerialSafe ==
    ASSUME MirrorSafe, ExportSerial
    PROVE  MirrorSafe'
<1>1. /\ export = None
      /\ export' = [stage |-> "objects", serial |-> status.seen, data |-> NoObjects]
      /\ UNCHANGED <<rows, journal, status, files, mirror, run>>
  BY DEF ExportSerial, sourceVars
<1>2. TypeInv /\ status.seen \in Nat
  BY DEF MirrorSafe, TypeInv
<1>3. TypeInv'
  BY <1>1, <1>2 DEF TypeInv, NoObjects, Data
<1>4. FilesInv'
  <2>1. /\ export'.serial <= status'.seen /\ export'.stage = "objects"
        /\ files'.serial # None => files'.serial <= export'.serial
    BY <1>1, <1>2 DEF MirrorSafe, FilesInv
  <2>2. files'.serial # None =>
          /\ files'.serial # 0 /\ files'.serial <= status'.seen
          /\ files'.data # None => CoversIn(journal', rows', files'.data, files'.serial)
    BY <1>1 DEF MirrorSafe, FilesInv, Covers
  <2> QED
    BY <2>1, <2>2 DEF FilesInv, Covers
<1>5. MirrorInv'
  BY <1>1 DEF MirrorSafe, MirrorInv, Covers, NoneIgnored
<1>6. RunInv'
  BY <1>1 DEF MirrorSafe, RunInv, Covers, NoneIgnored
<1> QED
  BY <1>1, <1>3, <1>4, <1>5, <1>6, SourceKept DEF MirrorSafe

LEMMA ExportObjectsSafe ==
    ASSUME MirrorSafe, ExportObjects
    PROVE  MirrorSafe'
<1>1. /\ export # None /\ export.stage = "objects"
      /\ export' = [export EXCEPT !.stage = "unlink", !.data = rows]
      /\ UNCHANGED <<rows, journal, status, files, mirror, run>>
  BY DEF ExportObjects, sourceVars
<1>2. /\ TypeInv /\ rows \in Data
      /\ export \in [stage : {"objects", "unlink", "unlink serial", "move", "serial"},
                     serial : Nat, data : Data]
  BY <1>1 DEF MirrorSafe, TypeInv
<1>3. /\ export'.stage = "unlink" /\ export'.serial = export.serial /\ export'.data = rows
      /\ export' \in [stage : {"objects", "unlink", "unlink serial", "move", "serial"},
                      serial : Nat, data : Data]
  BY <1>1, <1>2
<1>4. TypeInv'
  BY <1>1, <1>2, <1>3 DEF TypeInv
<1>5. FilesInv'
  <2>1. CoversIn(journal', rows', export'.data, export'.serial)
    BY <1>1, <1>3 DEF CoversIn
  <2> QED
    BY <1>1, <1>3, <2>1 DEF MirrorSafe, FilesInv, Covers
<1>6. MirrorInv'
  BY <1>1 DEF MirrorSafe, MirrorInv, Covers, NoneIgnored
<1>7. RunInv'
  BY <1>1, <1>3 DEF MirrorSafe, RunInv, Covers, NoneIgnored
<1> QED
  BY <1>1, <1>4, <1>5, <1>6, <1>7, SourceKept DEF MirrorSafe

LEMMA ExportUnlinkSafe ==
    ASSUME MirrorSafe, ExportUnlink
    PROVE  MirrorSafe'
<1>1. /\ export # None /\ export.stage \in {"unlink", "unlink serial"}
      /\ UNCHANGED <<rows, journal, status, mirror, run>>
      /\ IF export.stage = "unlink"
         THEN /\ files' = [files EXCEPT !.data = None]
              /\ export' = [export EXCEPT !.stage = "unlink serial"]
         ELSE /\ files' = [files EXCEPT !.serial = None]
              /\ export' = [export EXCEPT !.stage = "move"]
  BY DEF ExportUnlink, sourceVars
<1>2. /\ TypeInv
      /\ files \in [data : Data \union {None}, serial : Nat \union {None}]
      /\ export \in [stage : {"objects", "unlink", "unlink serial", "move", "serial"},
                     serial : Nat, data : Data]
  BY <1>1 DEF MirrorSafe, TypeInv
<1>3. /\ export'.serial = export.serial /\ export'.data = export.data
      /\ export' \in [stage : {"objects", "unlink", "unlink serial", "move", "serial"},
                      serial : Nat, data : Data]
      /\ files' \in [data : Data \union {None}, serial : Nat \union {None}]
      /\ \/ /\ export.stage = "unlink" /\ export'.stage = "unlink serial"
            /\ files'.data = None /\ files'.serial = files.serial
         \/ /\ export.stage = "unlink serial" /\ export'.stage = "move"
            /\ files'.data = files.data /\ files'.serial = None
  BY <1>1, <1>2
<1>4. TypeInv'
  BY <1>1, <1>2, <1>3 DEF TypeInv
<1>5. FilesInv'
  BY <1>1, <1>3 DEF MirrorSafe, FilesInv, Covers
<1>6. MirrorInv'
  BY <1>1 DEF MirrorSafe, MirrorInv, Covers, NoneIgnored
<1>7. RunInv'
  BY <1>1, <1>3 DEF MirrorSafe, RunInv, Covers, NoneIgnored
<1> QED
  BY <1>1, <1>4, <1>5, <1>6, <1>7, SourceKept DEF MirrorSafe

\* The new objects are a copy for the serial that a run has retrieved before, which is
\* not higher than the one the exporter has read.
LEMMA ExportMoveSafe ==
    ASSUME MirrorSafe, ExportMove
    PROVE  MirrorSafe'
<1>1. /\ export # None /\ export.stage = "move"
      /\ files' = [files EXCEPT !.data = export.data]
      /\ export' = [export EXCEPT !.stage = "serial"]
      /\ UNCHANGED <<rows, journal, status, mirror, run>>
  BY DEF ExportMove, sourceVars
<1>2. /\ TypeInv
      /\ files \in [data : Data \union {None}, serial : Nat \union {None}]
      /\ export \in [stage : {"objects", "unlink", "unlink serial", "move", "serial"},
                     serial : Nat, data : Data]
  BY <1>1 DEF MirrorSafe, TypeInv
<1>3. /\ export'.stage = "serial" /\ export'.serial = export.serial /\ export'.data = export.data
      /\ files'.data = export.data /\ files'.serial = files.serial
      /\ export' \in [stage : {"objects", "unlink", "unlink serial", "move", "serial"},
                      serial : Nat, data : Data]
      /\ files' \in [data : Data \union {None}, serial : Nat \union {None}]
  BY <1>1, <1>2
<1>4. TypeInv'
  BY <1>1, <1>2, <1>3 DEF TypeInv
<1>5. FilesInv'
  BY <1>1, <1>3 DEF MirrorSafe, FilesInv, Covers
<1>6. MirrorInv'
  BY <1>1 DEF MirrorSafe, MirrorInv, Covers, NoneIgnored
<1>7. RunInv'
  <2>1. ASSUME run # None, run.stage = "objects"
        PROVE  CoversIn(journal', rows', files'.data, run.last)
    <3>1. run.last \in Nat /\ export.serial \in Nat /\ run.last <= export.serial
      BY <1>1, <1>2, <2>1 DEF TypeInv, MirrorSafe, RunInv
    <3>2. Covers(export.data, export.serial)
      BY <1>1 DEF MirrorSafe, FilesInv
    <3>3. Covers(export.data, run.last)
      BY <1>2, <3>1, <3>2, CoversLess
    <3> QED
      BY <1>1, <1>3, <3>3 DEF Covers
  <2> QED
    BY <1>1, <1>3, <2>1 DEF MirrorSafe, RunInv, Covers, NoneIgnored
<1> QED
  BY <1>1, <1>4, <1>5, <1>6, <1>7, SourceKept DEF MirrorSafe

LEMMA ExportWriteSerialSafe ==
    ASSUME MirrorSafe, ExportWriteSerial
    PROVE  MirrorSafe'
<1>1. /\ export # None /\ export.stage = "serial"
      /\ files' = [files EXCEPT !.serial = IF export.serial = 0 THEN None ELSE export.serial]
      /\ export' = None
      /\ UNCHANGED <<rows, journal, status, mirror, run>>
  BY DEF ExportWriteSerial, SerialToWrite, sourceVars
<1>2. /\ TypeInv
      /\ files \in [data : Data \union {None}, serial : Nat \union {None}]
      /\ export.serial \in Nat
  BY <1>1 DEF MirrorSafe, TypeInv
<1>3. /\ files'.data = files.data
      /\ files'.serial = IF export.serial = 0 THEN None ELSE export.serial
      /\ files' \in [data : Data \union {None}, serial : Nat \union {None}]
  BY <1>1, <1>2
<1>4. TypeInv'
  BY <1>1, <1>2, <1>3 DEF TypeInv
<1>5. FilesInv'
  BY <1>1, <1>2, <1>3 DEF MirrorSafe, FilesInv, Covers
<1>6. MirrorInv'
  BY <1>1 DEF MirrorSafe, MirrorInv, Covers, NoneIgnored
<1>7. RunInv'
  BY <1>1, <1>3 DEF MirrorSafe, RunInv, Covers, NoneIgnored
<1> QED
  BY <1>1, <1>4, <1>5, <1>6, <1>7, SourceKept DEF MirrorSafe

\* An export that fails leaves what it has written; without a serial, if it has moved
\* the objects.
LEMMA ExportFailSafe ==
    ASSUME MirrorSafe, ExportFail
    PROVE  MirrorSafe'
<1>1. /\ export' = None
      /\ UNCHANGED <<rows, journal, status, files, mirror, run>>
  BY DEF ExportFail, sourceVars
<1>2. TypeInv'
  BY <1>1 DEF MirrorSafe, TypeInv
<1>3. FilesInv'
  BY <1>1 DEF MirrorSafe, FilesInv, Covers
<1>4. MirrorInv'
  BY <1>1 DEF MirrorSafe, MirrorInv, Covers, NoneIgnored
<1>5. RunInv'
  BY <1>1 DEF MirrorSafe, RunInv, Covers, NoneIgnored
<1> QED
  BY <1>1, <1>2, <1>3, <1>4, <1>5, SourceKept DEF MirrorSafe

-----------------------------------------------------------------------------
(* The steps of the mirror *)

RunTypes ==
    [stage : {"serial", "objects", "query", "stream", "commit"}, newest : Nat, force : BOOLEAN,
     data : Data, serials : SUBSET Nat, last : Nat, changed : BOOLEAN]

\* While the mirror has a run, nothing else changes its objects; what has to be shown
\* of a step is what the run has then.
LEMMA RunStep ==
    ASSUME MirrorSafe, UNCHANGED <<rows, journal, status, files, export, mirror>>,
           run' # None => run' \in RunTypes, RunInv'
    PROVE  MirrorSafe'
<1>1. TypeInv'
  BY DEF MirrorSafe, TypeInv, RunTypes
<1>2. FilesInv'
  BY DEF MirrorSafe, FilesInv, Covers
<1>3. MirrorInv'
  BY DEF MirrorSafe, MirrorInv, Covers, NoneIgnored
<1> QED
  BY <1>1, <1>2, <1>3, SourceKept DEF MirrorSafe

LEMMA StartSafe ==
    ASSUME MirrorSafe, Start
    PROVE  MirrorSafe'
<1>1. /\ run' = [stage |-> IF FullReload THEN "serial" ELSE "query",
                 newest |-> mirror.newest, force |-> mirror.force, data |-> mirror.data,
                 serials |-> mirror.serials, last |-> 0, changed |-> FALSE]
      /\ UNCHANGED <<rows, journal, status, files, export, mirror>>
  BY DEF Start, sourceVars
<1>2. /\ mirror \in [data : Data, serials : SUBSET Nat, newest : Nat, force : BOOLEAN]
      /\ status.seen \in Nat
  BY DEF MirrorSafe, TypeInv
<1>3. run' \in RunTypes
  BY <1>1, <1>2 DEF RunTypes
<1>4. /\ run'.last = 0 /\ run'.newest = mirror.newest /\ run'.data = mirror.data
      /\ run'.changed = FALSE
      /\ run'.stage = IF FullReload THEN "serial" ELSE "query"
  BY <1>1
<1>5. RunInv'
  BY <1>1, <1>2, <1>4 DEF RunInv, MirrorSafe, MirrorInv, NoneIgnored, FullReload
<1> QED
  BY <1>1, <1>3, <1>5, RunStep

\* A run that ends leaves the mirror as it was.
LEMMA EndSafe ==
    ASSUME MirrorSafe, run' = None, UNCHANGED <<rows, journal, status, files, export, mirror>>
    PROVE  MirrorSafe'
  BY RunStep DEF RunInv

\* The serial is not higher than that of the objects in the file, now and later.
LEMMA RetrieveSerialSafe ==
    ASSUME MirrorSafe, RetrieveSerial
    PROVE  MirrorSafe'
<1>1. /\ run # None /\ run.stage = "serial" /\ files.serial # None
      /\ run' = IF Cancelled(files.serial) THEN [run EXCEPT !.stage = "commit"]
                ELSE [run EXCEPT !.stage = "objects", !.last = files.serial, !.data = NoObjects,
                                 !.serials = {}, !.changed = TRUE]
      /\ UNCHANGED <<rows, journal, status, files, export, mirror>>
  BY DEF RetrieveSerial, sourceVars
<1>2. run \in RunTypes /\ files.serial \in Nat
  BY <1>1 DEF MirrorSafe, TypeInv, RunTypes
<1>3. NoObjects \in Data /\ NoneIgnored(NoObjects)
  BY MirrorAssumption DEF NoObjects, Data, NoneIgnored
<1>4. CASE Cancelled(files.serial)
  <2>1. run' = [run EXCEPT !.stage = "commit"]
    BY <1>1, <1>4
  <2>2. /\ run' \in RunTypes
        /\ run'.stage = "commit" /\ run'.last = run.last /\ run'.newest = run.newest
        /\ run'.data = run.data /\ run'.changed = run.changed
    BY <2>1, <1>2 DEF RunTypes
  <2>3. RunInv'
    BY <1>1, <2>2 DEF RunInv, MirrorSafe, NoneIgnored
  <2> QED
    BY <1>1, <2>2, <2>3, RunStep
<1>5. CASE ~Cancelled(files.serial)
  <2>1. run' = [run EXCEPT !.stage = "objects", !.last = files.serial, !.data = NoObjects,
                           !.serials = {}, !.changed = TRUE]
    BY <1>1, <1>5
  <2>2. /\ run' \in RunTypes
        /\ run'.stage = "objects" /\ run'.last = files.serial /\ run'.newest = run.newest
        /\ run'.data = NoObjects
    BY <2>1, <1>2, <1>3 DEF RunTypes
  <2>3. RunInv'
    BY <1>1, <1>3, <2>2 DEF RunInv, MirrorSafe, FilesInv, Covers, NoneIgnored
  <2> QED
    BY <1>1, <2>2, <2>3, RunStep
<1> QED
  BY <1>4, <1>5

LEMMA RetrieveObjectsSafe ==
    ASSUME MirrorSafe, RetrieveObjects
    PROVE  MirrorSafe'
<1>1. /\ run # None /\ run.stage = "objects" /\ files.data # None
      /\ run' = [run EXCEPT !.stage = "commit", !.data = Accepted(files.data)]
      /\ UNCHANGED <<rows, journal, status, files, export, mirror>>
  BY DEF RetrieveObjects, sourceVars
<1>2. run \in RunTypes /\ files.data \in Data
  BY <1>1 DEF MirrorSafe, TypeInv, RunTypes
<1>3. Accepted(files.data) \in Data /\ NoneIgnored(Accepted(files.data))
  BY <1>2, MirrorAssumption DEF Accepted, Data, NoneIgnored
<1>4. Covers(Accepted(files.data), run.last) /\ run.last # 0
  BY <1>1 DEF MirrorSafe, RunInv, Covers, CoversIn, Accepted
<1>5. /\ run' \in RunTypes
      /\ run'.stage = "commit" /\ run'.last = run.last /\ run'.newest = run.newest
      /\ run'.data = Accepted(files.data)
  BY <1>1, <1>2, <1>3 DEF RunTypes
<1>6. RunInv'
  BY <1>1, <1>3, <1>4, <1>5 DEF RunInv, MirrorSafe, Covers, NoneIgnored
<1> QED
  BY <1>1, <1>5, <1>6, RunStep

LEMMA GenerateStartSafe ==
    ASSUME MirrorSafe, GenerateStart
    PROVE  MirrorSafe'
<1>1. /\ run # None /\ run.stage = "query"
      /\ run' = IF Refused(run.newest + 1) THEN [run EXCEPT !.stage = "commit"]
                ELSE [run EXCEPT !.stage = "stream", !.last = status.newest]
      /\ UNCHANGED <<rows, journal, status, files, export, mirror>>
  BY DEF GenerateStart, sourceVars
<1>2. run \in RunTypes /\ status.newest \in Nat /\ status.newest <= status.seen
  BY <1>1 DEF MirrorSafe, TypeInv, JournalInv, RunTypes
<1>3. CASE Refused(run.newest + 1)
  <2>1. /\ run' \in RunTypes
        /\ run'.stage = "commit" /\ run'.last = run.last /\ run'.newest = run.newest
        /\ run'.data = run.data /\ run'.changed = run.changed
    BY <1>1, <1>2, <1>3 DEF RunTypes
  <2>2. RunInv'
    BY <1>1, <2>1 DEF RunInv, MirrorSafe, NoneIgnored
  <2> QED
    BY <1>1, <2>1, <2>2, RunStep
<1>4. CASE ~Refused(run.newest + 1)
  <2>1. /\ run' \in RunTypes
        /\ run'.stage = "stream" /\ run'.last = status.newest /\ run'.newest = run.newest
        /\ run'.data = run.data /\ run'.changed = run.changed
    BY <1>1, <1>2, <1>4 DEF RunTypes
  <2>2. status.newest # 0
    BY <1>4 DEF Refused
  <2>3. RunInv'
    BY <1>1, <1>2, <2>1, <2>2 DEF RunInv, MirrorSafe, NoneIgnored
  <2> QED
    BY <1>1, <2>1, <2>3, RunStep
<1> QED
  BY <1>3, <1>4

\* A complete stream has all operations after the serial of the mirror, also those that
\* were committed after the status was read: the run then has the objects of the source,
\* and a serial from which the later operations come again.
LEMMA ReceiveStreamSafe ==
    ASSUME MirrorSafe, ReceiveStream
    PROVE  MirrorSafe'
<1>1. /\ run # None /\ run.stage = "stream"
      /\ UNCHANGED <<rows, journal, status, files, export, mirror>>
  BY DEF ReceiveStream, sourceVars
<1>2. run \in RunTypes
  BY <1>1 DEF MirrorSafe, TypeInv, RunTypes
<1>3. PICK received \in Arrivals :
        \E recorded \in {Recorded(run.data, AcceptedOps(received.ops)), {}} :
            run' = IF Complete(received) /\ recorded \intersect run.serials = {}
                   THEN [run EXCEPT !.stage = "commit", !.data = After(run.data, AcceptedOps(received.ops)),
                                    !.serials = @ \union recorded, !.changed = TRUE]
                   ELSE None
  BY DEF ReceiveStream
<1>4. CASE run' = None
  BY <1>1, <1>4, EndSafe
<1>5. CASE run' # None
  <2>1. received.ops = Stream
    BY <1>3, <1>5 DEF Complete, Arrivals
  <2>2. PICK recorded \in {Recorded(run.data, AcceptedOps(Stream)), {}} :
          run' = [run EXCEPT !.stage = "commit", !.data = After(run.data, AcceptedOps(Stream)),
                             !.serials = @ \union recorded, !.changed = TRUE]
    BY <1>3, <1>5, <2>1
  <2>3. recorded \subseteq Nat
    <3>1. AcceptedOps(Stream) \subseteq journal
      BY DEF AcceptedOps, Stream
    <3>2. \A x \in Recorded(run.data, AcceptedOps(Stream)) : \E e \in AcceptedOps(Stream) : x = e.serial
      BY DEF Recorded, SerialsOf
    <3> QED
      BY <2>2, <3>1, <3>2, EntryType DEF MirrorSafe
  <2>4. /\ TypeInv /\ JournalInv
        /\ run.newest \in Nat /\ run.newest # 0 /\ run.newest = mirror.newest
        /\ run.data = mirror.data /\ run.data \in Data
        /\ NoneIgnored(run.data) /\ Covers(run.data, run.newest)
        /\ run.last # 0
    BY <1>1, <1>2 DEF MirrorSafe, RunInv, MirrorInv, RunTypes
  <2>5. Stream = {e \in journal : e.serial > run.newest}
    BY <2>4, EntryType DEF Stream
  <2>6. After(run.data, AcceptedOps(Stream)) = Accepted(rows)
    BY <2>4, <2>5, FollowedCopy
  <2>7. Accepted(rows) \in Data /\ NoneIgnored(Accepted(rows)) /\ Covers(Accepted(rows), run.last)
    BY <2>4, MirrorAssumption DEF TypeInv, Accepted, Data, NoneIgnored, Covers, CoversIn
  <2>8. /\ run' \in RunTypes
        /\ run'.stage = "commit" /\ run'.last = run.last /\ run'.newest = run.newest
        /\ run'.data = Accepted(rows)
    BY <1>2, <2>2, <2>3, <2>6, <2>7 DEF RunTypes
  <2>9. RunInv'
    BY <1>1, <2>4, <2>7, <2>8 DEF RunInv, MirrorSafe, Covers, NoneIgnored
  <2> QED
    BY <1>1, <2>8, <2>9, RunStep
<1> QED
  BY <1>4, <1>5

\* The mirror becomes what the run has.
LEMMA CommitSafe ==
    ASSUME MirrorSafe, Commit
    PROVE  MirrorSafe'
<1>1. /\ run # None /\ run.stage = "commit" /\ run' = None
      /\ mirror' = IF ~run.changed THEN mirror
                   ELSE [data |-> run.data, serials |-> run.serials, newest |-> run.last, force |-> FALSE]
      /\ UNCHANGED <<rows, journal, status, files, export>>
  BY DEF Commit, sourceVars
<1>2. CASE run.changed
  <2>1. mirror' = [data |-> run.data, serials |-> run.serials, newest |-> run.last, force |-> FALSE]
    BY <1>1, <1>2
  <2>2. run \in RunTypes
    BY <1>1 DEF MirrorSafe, TypeInv, RunTypes
  <2>3. TypeInv'
    <3>1. mirror' \in [data : Data, serials : SUBSET Nat, newest : Nat, force : BOOLEAN]
      BY <2>1, <2>2 DEF RunTypes
    <3> QED
      BY <1>1, <3>1 DEF MirrorSafe, TypeInv
  <2>4. FilesInv'
    BY <1>1 DEF MirrorSafe, FilesInv, Covers
  <2>5. MirrorInv'
    BY <1>1, <1>2, <2>1 DEF MirrorSafe, MirrorInv, RunInv, Covers, NoneIgnored
  <2>6. RunInv'
    BY <1>1 DEF RunInv
  <2> QED
    BY <1>1, <2>3, <2>4, <2>5, <2>6, SourceKept DEF MirrorSafe
<1>3. CASE ~run.changed
  BY <1>1, <1>3, EndSafe
<1> QED
  BY <1>2, <1>3

\* Ordering a reload and exporting the mirrored source only set the flag.
LEMMA ForceSafe ==
    ASSUME MirrorSafe, SetForceReload \/ RecordSerialExported
    PROVE  MirrorSafe'
<1>1. /\ \E b \in BOOLEAN : mirror' = [mirror EXCEPT !.force = b]
      /\ UNCHANGED <<rows, journal, status, files, export, run>>
  BY DEF SetForceReload, RecordSerialExported, sourceVars
<1>2. mirror \in [data : Data, serials : SUBSET Nat, newest : Nat, force : BOOLEAN]
  BY DEF MirrorSafe, TypeInv
<1>3. /\ mirror' \in [data : Data, serials : SUBSET Nat, newest : Nat, force : BOOLEAN]
      /\ mirror'.data = mirror.data /\ mirror'.newest = mirror.newest
  BY <1>1, <1>2
<1>4. TypeInv'
  BY <1>1, <1>3 DEF MirrorSafe, TypeInv
<1>5. FilesInv'
  BY <1>1 DEF MirrorSafe, FilesInv, Covers
<1>6. MirrorInv'
  BY <1>1, <1>3 DEF MirrorSafe, MirrorInv, Covers, NoneIgnored
<1>7. RunInv'
  BY <1>1, <1>3 DEF MirrorSafe, RunInv, Covers, NoneIgnored
<1> QED
  BY <1>1, <1>4, <1>5, <1>6, <1>7, SourceKept DEF MirrorSafe

-----------------------------------------------------------------------------

LEMMA MirrorSafeInit == Init => MirrorSafe
<1> SUFFICES ASSUME Init PROVE MirrorSafe
  OBVIOUS
<1>1. scenario.loaded \in Nat
  BY MirrorAssumption DEF Init
<1>2. NoObjects \in Data /\ NoneIgnored(NoObjects)
  BY MirrorAssumption DEF NoObjects, Data, NoneIgnored
<1>3. status.newest = 0 /\ status.seen = scenario.loaded
  BY DEF Init
<1>4. /\ mirror = [data |-> NoObjects, serials |-> {}, newest |-> 0, force |-> FALSE]
      /\ files = [data |-> None, serial |-> None]
      /\ rows \in Data /\ journal = {} /\ export = None /\ run = None
  BY DEF Init
<1>5. TypeInv
  BY <1>1, <1>2, <1>3, <1>4 DEF TypeInv
<1>6. JournalInv
  BY <1>1, <1>3, <1>4 DEF JournalInv
<1>7. FilesInv /\ RunInv
  BY <1>4 DEF FilesInv, RunInv
<1>8. MirrorInv
  BY <1>1, <1>2, <1>3, <1>4 DEF MirrorInv
<1> QED
  BY <1>5, <1>6, <1>7, <1>8 DEF MirrorSafe

LEMMA MirrorSafeNext == MirrorSafe /\ [Next]_vars => MirrorSafe'
<1> SUFFICES ASSUME MirrorSafe, [Next]_vars PROVE MirrorSafe'
  OBVIOUS
<1>1. CASE Change \/ UpdateDatabase \/ ExpireJournal
  BY <1>1, ChangeSafe, ExpirySafe
<1>2. CASE Export
  BY <1>2, ExportSerialSafe, ExportObjectsSafe, ExportUnlinkSafe, ExportMoveSafe, ExportWriteSerialSafe
  DEF Export
<1>3. CASE ExportFail
  BY <1>3, ExportFailSafe
<1>4. CASE Run
  <2>1. CASE RetrieveMissing
    <3>1. run' = None /\ UNCHANGED <<rows, journal, status, files, export, mirror>>
      BY <2>1 DEF RetrieveMissing, EndRun, sourceVars
    <3> QED
      BY <3>1, EndSafe
  <2> QED
    BY <1>4, <2>1, StartSafe, RetrieveSerialSafe, RetrieveObjectsSafe, GenerateStartSafe,
       ReceiveStreamSafe, CommitSafe DEF Run
<1>5. CASE Fail
  <2>1. run' = None /\ UNCHANGED <<rows, journal, status, files, export, mirror>>
    BY <1>5 DEF Fail, EndRun, sourceVars
  <2> QED
    BY <2>1, EndSafe
<1>6. CASE SetForceReload \/ RecordSerialExported
  BY <1>6, ForceSafe
<1>7. CASE UNCHANGED vars
  <2>1. UNCHANGED <<rows, journal, status, files, export, mirror, run>>
    BY <1>7 DEF vars, sourceVars
  <2>2. TypeInv' /\ RunInv'
    BY <2>1 DEF MirrorSafe, TypeInv, RunInv, Covers, NoneIgnored
  <2> QED
    BY <2>1, <2>2, RunStep DEF TypeInv, RunTypes
<1> QED
  BY <1>1, <1>2, <1>3, <1>4, <1>5, <1>6, <1>7 DEF Next

\* Every copy of the source that is exported, downloaded or held by the mirror has a
\* serial from which the journal leads to the objects of the source (_export of the
\* exporter, the runners of the import, NRTMGenerator.generate).
THEOREM MirrorInvariant == Spec => []MirrorSafe
  BY MirrorSafeInit, MirrorSafeNext, PTL DEF Spec

\* A mirror misses nothing, for any objects and scenarios: whatever is exported,
\* downloaded, streamed and expired in whatever order while the source changes, its
\* objects and the operations after its serial make up the objects of the source.
THEOREM MirrorMissesNothing == Spec => []MissesNothing
<1>1. MirrorSafe => MissesNothing
  <2> SUFFICES ASSUME MirrorSafe, mirror.newest # 0
               PROVE  Followed = Accepted(rows)
    BY DEF MissesNothing
  <2>1. /\ TypeInv /\ JournalInv
        /\ mirror.data \in Data /\ mirror.newest \in Nat
        /\ NoneIgnored(mirror.data) /\ Covers(mirror.data, mirror.newest)
    BY DEF MirrorSafe, TypeInv, MirrorInv
  <2> QED
    BY <2>1, FollowedCopy DEF Followed
<1> QED
  BY <1>1, MirrorInvariant, PTL
=============================================================================
