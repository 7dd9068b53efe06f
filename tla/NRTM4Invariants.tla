-------------------------- MODULE NRTM4Invariants ---------------------------
(***************************************************************************)
(* The inductive invariants of NRTM4Proofs and the words they are stated   *)
(* in: what holds of the runs of the server and of the client between any  *)
(* two steps, beside the properties of NRTM4Server, NRTM4Mirror and        *)
(* NRTM4Keys that follow from it.                                          *)
(***************************************************************************)
EXTENDS NRTM4Mirror, NRTM4Keys

-----------------------------------------------------------------------------
(* Who has the lock files, and which version is published *)

\* The status of a source, as far as its fields matter here.
Shaped(st) ==
    /\ st = [force |-> st.force, session |-> st.session, version |-> st.version,
             snapVersion |-> st.snapVersion, snapSerial |-> st.snapSerial,
             snapFile |-> st.snapFile, deltas |-> st.deltas]
    /\ st.session \in Nat /\ st.version \in Nat

\* Where a run can be.
Places == {"idle", "start", "delta", "expire", "unf", "snapshots", "commit", "decide",
           "snapshot", "relock"}

\* A status row that a run can work with.
StatusOK == Shaped(status) /\ status.session <= sessions

\* What the variables hold, and sessions are numbered as they start.
ShapeInv ==
    /\ scenario \in DOMAIN Setup
    /\ pc \in [Servers -> Places]
    /\ initialising \in [Servers -> BOOLEAN]
    /\ local = [p \in Servers |-> local[p]]
    /\ sessions \in Nat /\ crashes \in Nat
    /\ overtaken \in BOOLEAN
    /\ \A p \in Servers : Shaped(local[p]) /\ local[p].session <= sessions
    /\ status # None => StatusOK
    /\ \A p \in Servers : pc[p] \notin {"idle", "start"} => StatusOK
    /\ unf # None => /\ unf.session \in Nat \ {0} /\ unf.version \in Nat
                     /\ unf.session <= sessions

\* A run that has read the status and not committed, or that starts a session, has
\* the status lock.
Holds(p) ==
    \/ pc[p] \in {"delta", "expire", "unf", "snapshots", "commit"}
    \/ pc[p] \in {"decide", "snapshot"} /\ initialising[p]

\* Who has the lock files, and that a session starts with a snapshot: without it
\* the run does not get as far as its notification file.
LockOK(p) ==
    /\ Holds(p) <=> statusLock = p
    /\ pc[p] \in {"snapshot", "relock"} => snapshotLock = p
    /\ pc[p] # "idle" => p \in Setup[scenario].servers
    /\ initialising[p] => pc[p] \in {"decide", "snapshot", "expire", "unf", "snapshots", "commit"}
    /\ initialising[p] /\ pc[p] \in {"snapshots", "commit"} => snapshotLock = p
    /\ initialising[p] /\ snapshotLock # p => local[p].snapVersion = 0

LockInv == \A p \in Servers : LockOK(p)

\* The notification file of a session is ahead of the status row: a run that has
\* published it has not committed, or has ended before.
Ahead == unf # None /\ Shaped(status) /\ unf.session = status.session /\ unf.version > status.version

\* Then it is ahead by a delta, and the next run will make this delta again.
AheadOK == Ahead => unf.version = status.version + 1 /\ DeltaEntries(status) # {}

\* What a run has in hand, compared with the status row and the notification file.
FromStatus(st) ==
    /\ st.session = status.session /\ st.version = status.version
    /\ st.deltas = status.deltas /\ st.snapSerial = status.snapSerial

RunOK(p) ==
    /\ pc[p] = "delta" => FromStatus(local[p])
    /\ pc[p] \in {"expire", "unf", "snapshots", "commit"} /\ ~initialising[p] =>
          /\ local[p].session = status.session
          /\ \/ local[p].version = status.version
             \/ local[p].version = status.version + 1 /\ DeltaEntries(status) # {}
    /\ initialising[p] => status.session < local[p].session
    /\ initialising[p] /\ pc[p] \in {"decide", "snapshot", "expire", "unf"} /\ unf # None =>
          unf.session < local[p].session
    /\ pc[p] \in {"expire", "unf"} /\ ~initialising[p] /\ unf # None
          /\ unf.session = local[p].session => unf.version <= local[p].version
    /\ pc[p] \in {"snapshots", "commit"} =>
          unf.session = local[p].session /\ unf.version = local[p].version
    /\ pc[p] \in {"decide", "snapshot", "relock"} /\ ~initialising[p] /\ Ahead =>
          \E q \in Servers : q # p /\ pc[q] \in {"snapshots", "commit"}

VersionInv == ~overtaken => AheadOK /\ \A p \in Servers : RunOK(p)

\* What a run that steps writes: its own place, its own status, and no one else's.
Moves(p) ==
    /\ pc' = [pc EXCEPT ![p] = pc'[p]]
    /\ local' = [local EXCEPT ![p] = local'[p]]
    /\ initialising' = [initialising EXCEPT ![p] = initialising'[p]]

\* A step of a run changes nothing of the others.
Others(p) ==
    \A q \in Servers : q # p =>
        pc'[q] = pc[q] /\ local'[q] = local[q] /\ initialising'[q] = initialising[q]

\* Runs do not end early, or there is one server.
Undisturbed ==
    \A n \in DOMAIN Setup : Setup[n].crashes = 0 \/ \A p, q \in Setup[n].servers : p = q

\* What a step may do to the version that clients see.
NotBack == unf # None /\ unf'.session = unf.session /\ ~overtaken => unf'.version >= unf.version

-----------------------------------------------------------------------------
(* Types *)

\* Serials and files are numbered as they are made; runs that are past their start
\* have a status row.
TypeInv ==
    /\ TypeOK
    /\ \A e \in journal : e.glob <= sequence
    /\ \A p \in Servers : maxSerial[p] <= sequence /\ snapshot[p] <= created
    /\ status = None => \A p \in Servers : pc[p] \in {"idle", "start"}

\* A status with other values in some of its fields.
AsVersion(st, v, d) == [st EXCEPT !.version = v, !.deltas = d]
AsKept(st, d) == [st EXCEPT !.deltas = d]
AsForced(st, f) == [st EXCEPT !.force = f]
AsSnapshot(st, file, v, n) == [st EXCEPT !.snapFile = file, !.snapVersion = v, !.snapSerial = n]
AsSession(st, n) == [st EXCEPT !.session = n, !.version = 1, !.snapVersion = 0,
                                          !.snapSerial = 0, !.deltas = {}]

-----------------------------------------------------------------------------
(* Nothing is lost *)

DeltaFile == [file : Nat, session : Nat, version : Nat, entries : SUBSET Entry]
Copies == [Objects -> Texts \union {None}]
SnapshotFile == [file : Nat, session : Nat, version : Nat, objects : Copies]

\* The database and the files, as values.
World ==
    [journal |-> journal, rows |-> rows, sequence |-> sequence,
     deltas |-> deltaFiles, snapshots |-> snapshotFiles, created |-> created]

Numbered(E) == \A e, f \in E : e.glob = f.glob => e = f
HasEntry(E, o) == \E e \in E : e.obj = o

\* The last entry about an object has this text.
LastText(E, o, t) ==
    \E e \in E : e.obj = o /\ e.text = t /\ \A f \in E : f.obj = o => f.glob <= e.glob

\* The last entry about an object is the visible object; files have numbers of their own.
WorldOK(w) ==
    /\ w.journal \subseteq Entry /\ Numbered(w.journal)
    /\ w.sequence \in Nat /\ w.created \in Nat
    /\ w.rows \in Copies
    /\ w.deltas \subseteq DeltaFile
    /\ w.snapshots \subseteq SnapshotFile
    /\ \A e \in w.journal : e.glob <= w.sequence
    /\ \A o \in Objects : HasEntry(w.journal, o) => LastText(w.journal, o, w.rows[o])
    /\ \A d \in w.deltas : d.file <= w.created /\ Numbered(d.entries)
    /\ \A s \in w.snapshots : s.file <= w.created
    /\ \A d, f \in w.deltas : d.file = f.file => d = f
    /\ \A s, f \in w.snapshots : s.file = f.file => s = f

\* The deltas of a status are in order, the last one is that of its version.
RefsOK(st, w) ==
    /\ st \in StatusType
    /\ st.snapSerial <= w.sequence
    /\ st.snapFile <= w.created
    /\ \A r \in st.deltas : r.version <= st.version /\ r.file <= w.created /\ r.end <= w.sequence
    /\ \A r, q \in st.deltas : r.version = q.version => r = q
    /\ \A r, q \in st.deltas : r.version < q.version => r.file < q.file
    /\ st.deltas # {} => \E r \in st.deltas : r.version = st.version

AllThere(st, w) == \A r \in st.deltas : \E d \in w.deltas : d.file = r.file
Mentions(r, o, w) == \E d \in w.deltas : d.file = r.file /\ HasEntry(d.entries, o)

\* The next delta will have an entry about the object.
Coming(o, st, w) == \E e \in w.journal : e.obj = o /\ e.glob >= DeltaStart(st)

\* What the deltas say last about an object is true, unless there is more to come.
DeltasTrue(st, w) ==
    AllThere(st, w) =>
        \A o \in Objects, r \in st.deltas, d \in w.deltas :
            d.file = r.file /\ HasEntry(d.entries, o)
            /\ (\A q \in st.deltas : q.version > r.version => ~Mentions(q, o, w))
            => Coming(o, st, w) \/ LastText(d.entries, o, w.rows[o])

\* These objects and the entries after this serial make up the rows.
FromSerial(objects, n, w) ==
    \A o \in Objects : (\E e \in w.journal : e.obj = o /\ e.glob > n) \/ objects[o] = w.rows[o]

\* So do these objects, the deltas after this version and what is to come.
Covered(objects, version, st, w) ==
    AllThere(st, w) /\ st.deltas # {} /\ Connected(st, version) =>
        \A o \in Objects :
            \/ Coming(o, st, w)
            \/ \E r \in st.deltas : r.version > version /\ Mentions(r, o, w)
            \/ objects[o] = w.rows[o]

SnapshotOK(st, w) ==
    st.snapVersion # 0 =>
        \A s \in w.snapshots : s.file = st.snapFile /\ s.session = st.session =>
            /\ st.snapVersion <= st.version
            /\ FromSerial(s.objects, st.snapSerial, w)
            /\ Covered(s.objects, st.snapVersion, st, w)

StateOK(st, w) == RefsOK(st, w) /\ DeltasTrue(st, w) /\ SnapshotOK(st, w)

\* A snapshot that has been written for a status, which others have replaced.
PendingOK(file, session, version, serial, st, w) ==
    st.session = session =>
        \A s \in w.snapshots : s.file = file =>
            /\ FromSerial(s.objects, serial, w)
            /\ FromSerial(s.objects, st.snapSerial, w)
            /\ Covered(s.objects, version, st, w)

Pending(p, st) == PendingOK(snapshot[p], local[p].session, local[p].version, maxSerial[p], st, World)

\* A run that has committed and goes on with a snapshot.
Lingers(p) == pc[p] \in {"decide", "snapshot", "relock"} /\ ~initialising[p]

HandsOK(p) ==
    /\ Holds(p) => StateOK(local[p], World)
    /\ Holds(p) /\ ~initialising[p] =>
          local[p].session = status.session /\ status.version <= local[p].version
    /\ Lingers(p) /\ local[p].session = status.session => local[p].version <= status.version
    /\ pc[p] = "relock" =>
          /\ \A s \in snapshotFiles : s.file = snapshot[p] => s.session = local[p].session
          /\ Pending(p, status)
          /\ \A q \in Servers : q # p /\ Holds(q) /\ ~initialising[q] => Pending(p, local[q])
    /\ initialising[p] => \A q \in Servers : q # p => local[q].session < local[p].session

LossInv ==
    /\ WorldOK(World)
    /\ ~overtaken =>
          /\ status # None => StateOK(status, World)
          /\ \A p \in Servers : HandsOK(p)

\* Runs make and delete files.
FilesStep(w, x) ==
    /\ x.journal = w.journal /\ x.rows = w.rows /\ x.sequence = w.sequence
    /\ x.created \in Nat /\ w.created <= x.created
    /\ \A d \in x.deltas : d \in w.deltas \/ d.file > w.created
    /\ \A s \in x.snapshots : s \in w.snapshots \/ s.file > w.created

\* Transactions add an entry to the journal.
JournalStep(w, x) ==
    /\ x.deltas = w.deltas /\ x.snapshots = w.snapshots /\ x.created = w.created
    /\ x.sequence = w.sequence + 1
    /\ x.rows \in Copies
    /\ \E e \in Entry :
          /\ e.glob = x.sequence
          /\ x.journal = w.journal \union {e}
          /\ \A o \in Objects : IF e.obj = o THEN x.rows[o] = e.text ELSE x.rows[o] = w.rows[o]

\* A run adds a delta: st becomes new, with the delta file d.
DeltaStep(st, new, w, x, d, ref) ==
    /\ d \in DeltaFile /\ d.file = w.created + 1 /\ Numbered(d.entries)
    /\ d.entries = {e \in Own(w.journal) : e.glob >= DeltaStart(st)}
    /\ ref \in DeltaRef /\ ref.version = st.version + 1 /\ ref.file = d.file
    /\ ref.end <= w.sequence
    /\ new \in StatusType
    /\ new.session = st.session /\ new.version = st.version + 1
    /\ new.snapVersion = st.snapVersion /\ new.snapSerial = st.snapSerial
    /\ new.snapFile = st.snapFile
    /\ new.deltas = st.deltas \union {ref}
    /\ x.journal = w.journal /\ x.rows = w.rows /\ x.sequence = w.sequence
    /\ x.created = w.created + 1 /\ x.snapshots = w.snapshots
    /\ x.deltas = w.deltas \union {d}

\* A run deletes deltas that have expired, which are the first ones.
ExpiryStep(st, new, w, x, h) ==
    /\ h \in Nat
    /\ new \in StatusType
    /\ new.session = st.session /\ new.version = st.version
    /\ new.snapVersion = st.snapVersion /\ new.snapSerial = st.snapSerial
    /\ new.snapFile = st.snapFile
    /\ new.deltas = {r \in st.deltas : r.file > h}
    /\ \A r \in st.deltas : r.file <= h => \E d \in w.deltas : d.file = r.file
    /\ x.journal = w.journal /\ x.rows = w.rows /\ x.sequence = w.sequence
    /\ x.created = w.created /\ x.snapshots = w.snapshots
    /\ x.deltas \subseteq w.deltas

\* A status row with the same session, version, deltas and snapshot.
SameRow(new, st) ==
    /\ new \in StatusType /\ new.session = st.session /\ new.version = st.version
    /\ new.deltas = st.deltas /\ new.snapVersion = st.snapVersion
    /\ new.snapSerial = st.snapSerial /\ new.snapFile = st.snapFile

\* The later deltas, and the entries that are to come, lead to the rows.
Reaches(objects, v, st, w) ==
    \A o \in Objects :
        \/ Coming(o, st, w)
        \/ \E r \in st.deltas : r.version > v /\ Mentions(r, o, w)
        \/ objects[o] = w.rows[o]

\* What has been published and recorded has a snapshot.
SnapshotInv ==
    /\ \A p \in Servers : pc[p] \in {"snapshots", "commit"} => local[p].snapVersion # 0
    /\ status # None /\ status.session # 0 => status.snapVersion # 0

-----------------------------------------------------------------------------
(* What is published is there *)

\* No run has ended early, was overtaken by a reload or took a day.
Calm == crashes = 0 /\ ~overtaken /\ "outage" \notin Operations

\* Deltas that have expired are older than the snapshot.
Young(st, n, v) == \A r \in st.deltas : r.file <= n => r.version <= v

\* Deltas without a gap.
Gapless(refs) == \A v, w \in Versions(refs) : v..w \subseteq Versions(refs)

\* A status that a run can publish.
Ready(st, n) ==
    /\ st.session # 0 /\ st.snapVersion # 0 /\ st.snapVersion <= st.version
    /\ st.deltas = {} => st.snapVersion = st.version
    /\ Gapless(st.deltas)
    /\ Young(st, n, st.snapVersion)

\* Its files are there.
There(st, D, S) ==
    /\ \E s \in S : s.file = st.snapFile
    /\ \A r \in st.deltas : \E d \in D : d.file = r.file

\* A snapshot of this version can still be put in the status.
Fits(st, n, v) ==
    /\ st.deltas = {} => v = st.version
    /\ Young(st, n, v)

IntactRun(p) ==
    /\ pc[p] # "idle" => horizon[p] = aged
    /\ pc[p] \notin {"idle", "start"} /\ ~initialising[p] =>
          status.session = local[p].session /\ status.session # 0
    /\ initialising[p] => status.session = 0
    /\ initialising[p] /\ pc[p] \in {"decide", "snapshot"} =>
          local[p].session # 0 /\ local[p].version = 1 /\ local[p].deltas = {}
    /\ snapshotLock = p => pc[p] \in {"snapshot", "relock", "expire", "unf", "snapshots", "commit"}
    /\ pc[p] \in {"delta", "expire", "unf", "snapshots", "commit"} =>
          Ready(local[p], aged) /\ There(local[p], deltaFiles, snapshotFiles)
    /\ pc[p] \in {"snapshots", "commit"} => unf = UnfOf(local[p])
    /\ pc[p] = "relock" => snapshot[p] > aged /\ \E s \in snapshotFiles : s.file = snapshot[p]
    /\ Lingers(p) =>
          /\ local[p].version # 0
          /\ Fits(status, aged, local[p].version)
          /\ \A q \in Servers : Holds(q) /\ ~initialising[q] => Fits(local[q], aged, local[p].version)

\* The status row when no run has it in hand, and the notification file when no run
\* is about to write it.
IntactRow ==
    status # None /\ status.session # 0 /\ statusLock = None =>
        Ready(status, aged) /\ There(status, deltaFiles, snapshotFiles)
IntactUnf == unf # None /\ (\A p \in Servers : pc[p] # "unf") => Complete(unf)

Intact == aged <= created /\ (\A p \in Servers : IntactRun(p)) /\ IntactRow /\ IntactUnf
CalmInv == Calm => Intact

-----------------------------------------------------------------------------
(* History is not rewritten *)

\* Runs do not overlap, and none has ended early.
InTurn == crashes = 0 /\ \A p, q \in Setup[scenario].servers : p = q

\* Deltas of different versions, up to that of the status.
Distinct(st) ==
    /\ \A r \in st.deltas : r.version <= st.version
    /\ \A r, q \in st.deltas : r.version = q.version => r = q

\* A notification file that can be followed by one with this status.
Agree(u, st) ==
    u.session = st.session =>
        /\ u.version <= st.version
        /\ \A ref \in u.deltas : ref.version <= u.version
        /\ \A ref \in u.deltas, r \in st.deltas : ref.version = r.version => ref.file = r.file
        /\ u.snapshot.version = st.snapVersion => u.snapshot.file = st.snapFile

HistoryRun(p) ==
    /\ Distinct(local[p])
    /\ pc[p] \in {"snapshots", "commit"} \/ Lingers(p) =>
          unf = UnfOf(local[p]) /\ local[p].snapVersion # 0
    /\ pc[p] \in {"snapshot", "relock"} /\ ~initialising[p] => local[p].snapVersion # local[p].version
    /\ unf # None /\ pc[p] \in {"delta", "expire", "unf"} => Agree(unf, local[p])
    /\ unf # None /\ initialising[p] /\ pc[p] \in {"decide", "snapshot"} =>
          unf.session # local[p].session

\* A run that has published has not yet committed, or the status row agrees too.
HistoryRow ==
    /\ status # None => Distinct(status)
    /\ status # None /\ unf # None /\ (\A p \in Servers : pc[p] \notin {"snapshots", "commit"}) =>
          Agree(unf, status)

History == (\A p \in Servers : HistoryRun(p)) /\ HistoryRow
HistoryInv == InTurn => History

-----------------------------------------------------------------------------
(* A client misses nothing *)

\* A session of which no delta has expired, with all files.
Whole(st, w) ==
    /\ st.session # 0 /\ st.version # 0
    /\ Versions(st.deltas) = 2..st.version
    /\ st.deltas = {} => st.snapVersion = st.version
    /\ AllThere(st, w)

\* A copy of the objects at a version, and the deltas that led or would lead to it.
Copy(session, version, objects, refs) ==
    [session |-> session, version |-> version, objects |-> objects, refs |-> refs]

DeltasOf(hashes) == {[version |-> h.version, file |-> h.file] : h \in {g \in hashes : g.kind = "delta"}}

SnapshotCopies == {Copy(s.session, s.version, s.objects, {}) : s \in snapshotFiles}
ClientCopy ==
    Copy(clientStatus.session, clientStatus.version, data, DeltasOf(clientStatus.hashes))
RunCopies ==
    IF run # None /\ run.next # 0 /\ Client!HistoryKept(clientStatus, run.unf)
    THEN {Copy(run.unf.session, run.next - 1, run.data, run.unf.deltas)}
    ELSE {}

\* The copies there are, and the notification files that a client has or can get.
Around == SnapshotCopies \union {ClientCopy} \union RunCopies
Offered == {u \in {unf} : u # None} \union {r.unf : r \in {q \in {run} : q # None}}

\* The status names the same files for the versions up to that of the copy.
Agrees(c, st) ==
    \A r \in c.refs, q \in st.deltas :
        r.version = q.version /\ r.version <= c.version => r.file = q.file

\* A copy that is ahead of the status has a delta that the status does not have, from
\* a run that ended early.
Sound(c, st, w) ==
    IF c.version <= st.version
    THEN Agrees(c, st) => Reaches(c.objects, c.version, st, w)
    ELSE \E r \in c.refs : r.version = c.version

Lists(u) == 2..u.version \subseteq Versions(u.deltas)

\* What a status that is whole has to do with the copies and the notification files of
\* its session. The first version has no delta.
Informs(st, w, C, U) ==
    /\ \A r \in st.deltas : r.version > 1
    /\ Whole(st, w) =>
          /\ \A c \in C : c.session = st.session => Sound(c, st, w)
          /\ \A u \in U : u.session = st.session => Lists(u)

Ref == [version : Nat, file : Nat]
OfferType ==
    [session : Nat, version : Nat, snapshot : [version : Nat, file : Nat], deltas : SUBSET Ref]

\* Sessions and files have been started and made; a client follows its file.
ClientTypes ==
    /\ clientStatus = [force |-> clientStatus.force, session |-> clientStatus.session,
                       version |-> clientStatus.version, hashes |-> clientStatus.hashes]
    /\ clientStatus.session \in Nat /\ clientStatus.version \in Nat
    /\ \A h \in clientStatus.hashes :
          h = [kind |-> h.kind, version |-> h.version, file |-> h.file]
          /\ h.version \in Nat /\ h.file \in Nat
    /\ \A c \in Around : c.session <= sessions /\ \A r \in c.refs : overtaken \/ r.file <= created
    /\ \A u \in Offered :
          /\ u \in OfferType /\ u.session <= sessions
          /\ \A r \in u.deltas : r.version <= u.version /\ (overtaken \/ r.file <= created)
    /\ run # None =>
          /\ run = [unf |-> run.unf, data |-> run.data, deferred |-> run.deferred, next |-> run.next]
          /\ run.next \in Nat /\ run.deferred \in BOOLEAN
          /\ run.deferred => run.next = run.unf.snapshot.version + 1
          /\ ~run.deferred /\ run.next # 0 => run.next > 1 /\ run.next <= run.unf.version + 1

\* A status that has been published has a snapshot of one of its versions.
Snapped(st) == st.snapVersion # 0 /\ st.snapVersion <= st.version

\* A run adds at most one delta, which has not expired for it.
Grown(p) ==
    \/ local[p].version = status.version
    \/ /\ local[p].version = status.version + 1
       /\ \E r \in local[p].deltas : r.version = local[p].version /\ r.file > horizon[p]

\* What a run has in hand.
HandsKnown(p) ==
    /\ horizon[p] <= created
    /\ Holds(p) => Informs(local[p], World, Around, Offered)
    /\ initialising[p] => status.session < local[p].session
    /\ initialising[p] /\ pc[p] \in {"decide", "snapshot"} =>
          /\ \A c \in Around : c.session < local[p].session
          /\ \A u \in Offered : u.session < local[p].session
    /\ pc[p] \in {"delta", "snapshots", "commit"} \/ Lingers(p) => Snapped(local[p])
    /\ pc[p] \in {"snapshot", "relock"} /\ ~initialising[p] => local[p].version > 1
    /\ pc[p] = "delta" =>
          local[p].version = status.version /\ local[p].deltas = status.deltas
    /\ pc[p] \in {"expire", "unf"} /\ ~initialising[p] =>
          /\ Grown(p)
          /\ \A r \in status.deltas :
                \/ r \in local[p].deltas
                \/ pc[p] = "unf" /\ \A d \in deltaFiles : d.file # r.file

ClientInv ==
    /\ ClientTypes
    /\ aged <= created
    /\ ~overtaken =>
          /\ status # None =>
                /\ Informs(status, World, Around, Offered)
                /\ status.session # 0 => Snapped(status)
          /\ \A p \in Servers : HandsKnown(p)

NoneExpired == Versions(status.deltas) = 2..status.version

-----------------------------------------------------------------------------
(* The rotation of signing keys *)

\* What a client will accept that stores a signature and the key it announces.
Accepts(x, k) == k = x.key \/ k = x.next

\* The file is empty just while a server run has signed it and not written it; no key
\* is announced to a client without a current one.
SignedInv ==
    /\ writer # NoKey /\ writer.key # NoKey <=> signedUnf = NoKey
    /\ known.next # NoKey => known.current # NoKey

\* A client that has no keys yet, or not any more, starts with the right one.
InitialInv ==
    ~missed /\ known.current = NoKey => initial = settings.key

\* What the client has stored leads to what the server has written and will sign.
KnownInv ==
    ~missed /\ known.current # NoKey =>
        /\ settings.key \in {known.current, known.next}
        /\ signedUnf # NoKey => signedUnf.key \in {known.current, known.next}
        /\ writer # NoKey /\ writer.key # NoKey => writer.key \in {known.current, known.next}

\* So does what a run of the client is about to store.
RunInv ==
    ~missed /\ keyRun # NoKey =>
        /\ Accepts(keyRun, settings.key)
        /\ signedUnf # NoKey => Accepts(keyRun, signedUnf.key)
        /\ writer # NoKey /\ writer.key # NoKey => Accepts(keyRun, writer.key)

\* So does what the next run of the client may retrieve.
FileInv ==
    ~missed /\ (known.current # NoKey \/ keyRun # NoKey) =>
        /\ signedUnf # NoKey => Accepts(signedUnf, settings.key)
        /\ writer # NoKey /\ writer.key # NoKey => Accepts(writer, settings.key)

RotationInv == KeysTypeOK /\ SignedInv /\ InitialInv /\ KnownInv /\ RunInv /\ FileInv

\* No key that was replaced is among those that the client expects.
RetiredInv ==
    /\ KeysTypeOK
    /\ known.current = NoKey => retired = {} /\ known.next = NoKey
    /\ known.current \notin retired /\ known.next \notin retired
=============================================================================
