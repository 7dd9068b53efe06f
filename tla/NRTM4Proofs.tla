---------------------------- MODULE NRTM4Proofs -----------------------------
(***************************************************************************)
(* Proofs about NRTMv4. The runs of the server, for any number of servers  *)
(* that overlap, objects, changes, reloads and outages, with a client that *)
(* reads what they publish: who holds the lock files, that sessions are    *)
(* new, that the version of a session does not go back, and that the       *)
(* snapshot, the deltas and the journal never lose a change; that no run   *)
(* deletes a file that is published; that what was published of a version  *)
(* does not change; that a client misses nothing of a session of which no  *)
(* delta has expired. The rotation of signing keys, for any number of keys *)
(* and of changes. The invariants are in NRTM4Invariants.                  *)
(***************************************************************************)
EXTENDS NRTM4Invariants, TLAPS, WellFoundedInduction

-----------------------------------------------------------------------------
(* Steps *)

\* The status without a session.
LEMMA EmptyShaped == Shaped(EmptyStatus) /\ EmptyStatus.session = 0 /\ EmptyStatus.snapVersion = 0
  BY DEF Shaped, EmptyStatus

\* Expiry changes the deltas of a status only.
LEMMA DeltasChanged ==
    ASSUME NEW st, Shaped(st), NEW d, NEW new, new = [st EXCEPT !.deltas = d]
    PROVE  /\ Shaped(new) /\ new.session = st.session /\ new.version = st.version
           /\ new.snapVersion = st.snapVersion
  BY DEF Shaped

\* The force_reload flag matters to nothing else.
LEMMA ForceChanged ==
    ASSUME NEW st, Shaped(st), NEW f, NEW new, new = [st EXCEPT !.force = f]
    PROVE  /\ Shaped(new) /\ new.session = st.session /\ new.version = st.version
           /\ new.deltas = st.deltas /\ new.snapSerial = st.snapSerial
           /\ new.snapVersion = st.snapVersion
  BY DEF Shaped

\* A snapshot is of the session and of the version there is.
LEMMA SnapshotChanged ==
    ASSUME NEW st, Shaped(st), NEW p, NEW file, NEW new, new = WithSnapshot(p, st, file)
    PROVE  Shaped(new) /\ new.session = st.session /\ new.version = st.version
  BY DEF Shaped, WithSnapshot

\* The invariants hold at the start.
LEMMA ServerInit == Init => ShapeInv /\ LockInv /\ VersionInv
<1> SUFFICES ASSUME Init PROVE ShapeInv /\ LockInv /\ VersionInv
  OBVIOUS
<1>1. ShapeInv
  <2>1. \A p \in Servers : local[p] = EmptyStatus
    BY DEF Init
  <2>2. local = [p \in Servers |-> local[p]]
    BY DEF Init
  <2>3. sessions = 0 /\ status = None /\ unf = None /\ crashes = 0 /\ overtaken = FALSE
    BY DEF Init
  <2>4. \A p \in Servers : Shaped(local[p]) /\ local[p].session <= sessions
    BY <2>1, <2>3, EmptyShaped
  <2>5. scenario \in DOMAIN Setup
    BY DEF Init
  <2>6. pc \in [Servers -> Places]
    BY DEF Init, Places
  <2>7. initialising \in [Servers -> BOOLEAN]
    BY DEF Init
  <2>8. \A p \in Servers : pc[p] = "idle"
    BY DEF Init
  <2> QED
    BY <2>2, <2>3, <2>4, <2>5, <2>6, <2>7, <2>8 DEF ShapeInv
<1>2. LockInv
  BY NoneAssumption DEF Init, LockInv, LockOK, Holds
<1>3. VersionInv
  BY DEF Init, VersionInv, AheadOK, Ahead, RunOK
<1> QED
  BY <1>1, <1>2, <1>3

-----------------------------------------------------------------------------
(* What it takes for a step of a run to keep the invariants *)

\* A step of one run is not a step of another.
LEMMA MovesOthers ==
    ASSUME ShapeInv, NEW p \in Servers, Moves(p)
    PROVE  Others(p)
<1>1. DOMAIN pc = Servers /\ DOMAIN local = Servers /\ DOMAIN initialising = Servers
  BY DEF ShapeInv
<1> QED
  BY <1>1 DEF Moves, Others

\* The variables keep their shape when the run's own values have it.
LEMMA ShapeKept ==
    ASSUME ShapeInv, NEW p \in Servers, Moves(p), scenario' = scenario, overtaken' = overtaken,
           pc'[p] \in Places,
           initialising'[p] \in BOOLEAN,
           sessions' \in Nat, sessions <= sessions', crashes' \in Nat,
           Shaped(local'[p]), local'[p].session <= sessions',
           pc'[p] \in {"idle", "start"} \/ pc[p] \notin {"idle", "start"} \/ status # None,
           status' = status \/ (Shaped(status') /\ status'.session <= sessions'),
           unf' = unf \/ (/\ unf'.session \in Nat \ {0} /\ unf'.version \in Nat
                          /\ unf'.session <= sessions')
    PROVE  ShapeInv'
<1>1. pc' \in [Servers -> Places]
  BY DEF ShapeInv, Moves
<1>2. initialising' \in [Servers -> BOOLEAN]
  BY DEF ShapeInv, Moves
<1>3. local' = [q \in Servers |-> local'[q]]
  BY DEF ShapeInv, Moves
<1>4. Others(p)
  BY MovesOthers
<1>5. ASSUME NEW q \in Servers PROVE Shaped(local'[q]) /\ local'[q].session <= sessions'
  <2>1. CASE q = p
    BY <2>1
  <2>2. CASE q # p
    <3>1. local'[q] = local[q]
      BY <1>4, <2>2 DEF Others
    <3>2. Shaped(local[q]) /\ local[q].session <= sessions
      BY DEF ShapeInv
    <3>3. local[q].session \in Nat /\ sessions \in Nat
      BY <3>2 DEF Shaped, ShapeInv
    <3> QED
      BY <3>1, <3>2, <3>3
  <2> QED
    BY <2>1, <2>2
<1>6. StatusOK \/ status' # status => Shaped(status') /\ status'.session <= sessions'
  <2>1. CASE StatusOK /\ status' = status
    <3>1. status.session \in Nat /\ sessions \in Nat
      BY <2>1 DEF StatusOK, Shaped, ShapeInv
    <3> QED
      BY <2>1, <3>1 DEF StatusOK
  <2> QED
    BY <2>1
<1>7. unf' # None => /\ unf'.session \in Nat \ {0} /\ unf'.version \in Nat
                     /\ unf'.session <= sessions'
  BY DEF ShapeInv
<1>8. scenario' \in DOMAIN Setup /\ overtaken' \in BOOLEAN
  BY DEF ShapeInv
<1>9. \A q \in Servers : Shaped(local[q])' /\ (local[q].session <= sessions)'
  BY <1>5 DEF Shaped
<1>10. StatusOK \/ status' # status => StatusOK'
  BY <1>6 DEF Shaped, StatusOK
<1>11. (status # None => StatusOK)'
  BY <1>10 DEF ShapeInv
<1>12. \A q \in Servers : (pc[q] \notin {"idle", "start"} => StatusOK)'
  BY <1>4, <1>10 DEF Others, ShapeInv
<1> QED
  BY <1>1, <1>2, <1>3, <1>7, <1>8, <1>9, <1>11, <1>12 DEF ShapeInv

\* The other runs keep the locks they have.
LEMMA LocksKept ==
    ASSUME ShapeInv, LockInv, NEW p \in Servers, Others(p), scenario' = scenario, LockOK(p)',
           \A q \in Servers : q # p => (statusLock' = q <=> statusLock = q)
                                       /\ (snapshotLock = q => snapshotLock' = q)
    PROVE  LockInv'
<1> SUFFICES ASSUME NEW q \in Servers, q # p PROVE LockOK(q)'
  BY DEF LockInv
<1>1. pc'[q] = pc[q] /\ local'[q] = local[q] /\ initialising'[q] = initialising[q]
  BY DEF Others
<1>2. LockOK(q)
  BY DEF LockInv
<1> QED
  BY <1>1, <1>2 DEF LockOK, Holds

\* A step that neither commits nor publishes keeps what the others know; it may
\* not leave a publication without its commit while another run is under way.
LEMMA VersionsKept ==
    ASSUME ShapeInv, LockInv, VersionInv, NEW p \in Servers, Others(p),
           status' = status, unf' = unf, journal' = journal, overtaken' = overtaken,
           ~overtaken => RunOK(p)',
           \/ pc[p] \notin {"snapshots", "commit"}
           \/ pc'[p] \in {"snapshots", "commit"}
           \/ \A q \in Servers : q # p => pc[q] = "idle"
    PROVE  VersionInv'
<1> SUFFICES ASSUME ~overtaken PROVE AheadOK' /\ \A q \in Servers : RunOK(q)'
  BY DEF VersionInv
<1>1. AheadOK /\ \A q \in Servers : RunOK(q)
  BY DEF VersionInv
<1>2. DeltaEntries(status)' = DeltaEntries(status)
  BY DEF DeltaEntries, DeltaStart, Own
<1>3. Ahead' <=> Ahead
  BY DEF Ahead, Shaped
<1>4. AheadOK'
  BY <1>1, <1>2, <1>3 DEF AheadOK
<1>5. ASSUME NEW q \in Servers, q # p PROVE RunOK(q)'
  <2>1. pc'[q] = pc[q] /\ local'[q] = local[q] /\ initialising'[q] = initialising[q]
    BY <1>5 DEF Others
  <2>2. RunOK(q)
    BY <1>1
  <2>3. pc[q] \in {"decide", "snapshot", "relock"} /\ ~initialising[q] /\ Ahead =>
          \E r \in Servers : r # q /\ pc'[r] \in {"snapshots", "commit"}
    <3> SUFFICES ASSUME pc[q] \in {"decide", "snapshot", "relock"}, ~initialising[q], Ahead
                 PROVE  \E r \in Servers : r # q /\ pc'[r] \in {"snapshots", "commit"}
      OBVIOUS
    <3>1. PICK r \in Servers : r # q /\ pc[r] \in {"snapshots", "commit"}
      BY <2>2 DEF RunOK
    <3>2. r # p => pc'[r] = pc[r]
      BY DEF Others
    <3>3. pc[q] # "idle"
      OBVIOUS
    <3> QED
      BY <1>5, <3>1, <3>2, <3>3
  <2>4. FromStatus(local[q])' <=> FromStatus(local[q])
    BY <2>1 DEF FromStatus
  <2> QED
    BY <1>2, <1>3, <2>1, <2>2, <2>3, <2>4 DEF RunOK
<1> QED
  BY <1>4, <1>5

\* The end of a run, whatever it has committed before.
LEMMA EndKeeps ==
    ASSUME ShapeInv, LockInv, NEW p \in Servers, EndRun(p), scenario' = scenario,
           overtaken' = overtaken, sessions' = sessions, crashes' \in Nat, unf' = unf,
           status' = status \/ (Shaped(status') /\ status'.session <= sessions)
    PROVE  /\ ShapeInv' /\ LockInv' /\ Others(p)
           /\ pc'[p] = "idle" /\ ~initialising'[p]
<1>1. p \in DOMAIN pc /\ p \in DOMAIN local /\ p \in DOMAIN initialising
  BY DEF ShapeInv
<1>2. pc'[p] = "idle" /\ local'[p] = EmptyStatus /\ initialising'[p] = FALSE
  BY <1>1 DEF EndRun
<1>3. Moves(p)
  BY <1>2 DEF EndRun, Moves
<1>4. Others(p)
  BY <1>3, MovesOthers
<1>5. sessions \in Nat
  BY DEF ShapeInv
<1>6. Shaped(local'[p]) /\ local'[p].session <= sessions'
  BY <1>2, <1>5, EmptyShaped
<1>7. ShapeInv'
  <2>1. pc'[p] \in Places /\ initialising'[p] \in BOOLEAN
    BY <1>2 DEF Places
  <2>2. sessions' \in Nat /\ sessions <= sessions'
    BY <1>5
  <2>3. status' = status \/ (Shaped(status') /\ status'.session <= sessions')
    OBVIOUS
  <2>4. pc'[p] \in {"idle", "start"}
    BY <1>2
  <2> QED
    BY <1>3, <1>6, <2>1, <2>2, <2>3, <2>4, ShapeKept
<1>8. p # None
  BY NoneAssumption
<1>9. statusLock' # p /\ snapshotLock' # p
  BY <1>8 DEF EndRun
<1>10. LockOK(p)'
  BY <1>2, <1>9 DEF LockOK, Holds
<1>11. ASSUME NEW q \in Servers, q # p
       PROVE (statusLock' = q <=> statusLock = q) /\ (snapshotLock = q => snapshotLock' = q)
  <2>1. q # None
    BY NoneAssumption
  <2> QED
    BY <1>11, <2>1 DEF EndRun
<1>12. LockInv'
  BY <1>4, <1>10, <1>11, LocksKept
<1> QED
  BY <1>2, <1>4, <1>7, <1>12

\* A step that goes on, and neither commits nor publishes.
LEMMA StepKeeps ==
    ASSUME ShapeInv, LockInv, NEW p \in Servers, Moves(p), scenario' = scenario,
           overtaken' = overtaken, sessions' \in Nat, sessions <= sessions', crashes' = crashes,
           status' = status, unf' = unf, journal' = journal,
           pc'[p] \in Places, initialising'[p] \in BOOLEAN,
           Shaped(local'[p]), local'[p].session <= sessions', LockOK(p)',
           pc'[p] \in {"idle", "start"} \/ pc[p] \notin {"idle", "start"} \/ status # None,
           \A q \in Servers : q # p => (statusLock' = q <=> statusLock = q)
                                       /\ (snapshotLock = q => snapshotLock' = q),
           pc[p] \in {"snapshots", "commit"} => pc'[p] \in {"snapshots", "commit"},
           VersionInv /\ ~overtaken => RunOK(p)'
    PROVE  ShapeInv' /\ LockInv' /\ (VersionInv => VersionInv')
<1>1. Others(p)
  BY MovesOthers
<1>2. crashes' \in Nat
  BY DEF ShapeInv
<1>3. ShapeInv'
  BY <1>2, ShapeKept
<1>4. LockInv'
  BY <1>1, LocksKept
<1>5. ASSUME VersionInv PROVE VersionInv'
  BY <1>1, <1>5, VersionsKept
<1> QED
  BY <1>3, <1>4, <1>5

\* A run that ends is at no place at which it could have anything in hand.
LEMMA IdleOK ==
    ASSUME NEW p \in Servers, pc'[p] \in {"idle", "start"}, ~initialising'[p]
    PROVE  RunOK(p)'
  BY DEF RunOK

\* A run ends before its publication, or after its commit, or there is no other.
LEMMA EndKeepsAll ==
    ASSUME ShapeInv, LockInv, NEW p \in Servers, EndRun(p), scenario' = scenario,
           overtaken' = overtaken, sessions' = sessions, crashes' \in Nat, unf' = unf,
           status' = status, journal' = journal
    PROVE  /\ ShapeInv' /\ LockInv'
           /\ VersionInv /\ (\/ pc[p] \notin {"snapshots", "commit"}
                             \/ \A q \in Servers : q # p => pc[q] = "idle") => VersionInv'
<1>1. ShapeInv' /\ LockInv' /\ Others(p) /\ pc'[p] = "idle" /\ ~initialising'[p]
  BY EndKeeps
<1>2. RunOK(p)'
  BY <1>1, IdleOK
<1>3. ASSUME VersionInv, \/ pc[p] \notin {"snapshots", "commit"}
                         \/ \A q \in Servers : q # p => pc[q] = "idle"
      PROVE  VersionInv'
  BY <1>1, <1>2, <1>3, VersionsKept
<1> QED
  BY <1>1, <1>3

\* A step that moves a run and leaves the status it has in hand alone.
LEMMA Moved ==
    ASSUME ShapeInv, NEW p \in Servers, NEW x \in Places, pc' = [pc EXCEPT ![p] = x],
           local' = local, initialising' = initialising
    PROVE  /\ Moves(p) /\ pc'[p] = x /\ pc'[p] \in Places
           /\ local'[p] = local[p] /\ initialising'[p] = initialising[p]
           /\ initialising'[p] \in BOOLEAN
           /\ Shaped(local'[p]) /\ local'[p].session <= sessions
<1>1. pc'[p] = x
  BY DEF ShapeInv
<1>2. local = [local EXCEPT ![p] = local[p]] /\ initialising = [initialising EXCEPT ![p] = initialising[p]]
  BY DEF ShapeInv
<1>3. Shaped(local[p]) /\ local[p].session <= sessions /\ initialising[p] \in BOOLEAN
  BY DEF ShapeInv
<1> QED
  BY <1>1, <1>2, <1>3 DEF Moves

-----------------------------------------------------------------------------
(* The steps of a run *)

\* __init__() takes no lock.
LEMMA StartKeeps ==
    ASSUME ShapeInv, LockInv, NEW p \in Setup[scenario].servers, p \in Servers,
           Start(p), scenario' = scenario
    PROVE  ShapeInv' /\ LockInv' /\ (VersionInv => VersionInv')
<1>1. /\ pc[p] = "idle" /\ pc' = [pc EXCEPT ![p] = "start"] /\ local' = local
      /\ initialising' = initialising /\ overtaken' = overtaken /\ sessions' = sessions
      /\ crashes' = crashes /\ status' = status /\ unf' = unf /\ journal' = journal
      /\ statusLock' = statusLock /\ snapshotLock' = snapshotLock
  BY DEF Start, databaseVars, diskVars, boundVars
<1>2. "start" \in Places
  BY DEF Places
<1>3. /\ Moves(p) /\ pc'[p] = "start" /\ pc'[p] \in Places
      /\ local'[p] = local[p] /\ initialising'[p] = initialising[p]
      /\ initialising'[p] \in BOOLEAN
      /\ Shaped(local'[p]) /\ local'[p].session <= sessions
  BY <1>1, <1>2, Moved
<1>4. LockOK(p)
  BY DEF LockInv
<1>5. LockOK(p)' /\ ~initialising'[p]
  BY <1>1, <1>3, <1>4 DEF LockOK, Holds
<1>6. RunOK(p)'
  BY <1>3, <1>5, IdleOK
<1>7. sessions \in Nat
  BY DEF ShapeInv
<1> QED
  BY <1>1, <1>3, <1>5, <1>6, <1>7, StepKeeps

\* A run that is cancelled, fails or skips the snapshot has not published anything
\* that it has not committed.
LEMMA EndsKeep ==
    ASSUME ShapeInv, LockInv, NEW p \in Servers, scenario' = scenario,
           \/ Cancel(p) \/ Fail(p) \/ SkipSnapshot(p) \/ (SnapshotLocked(p) /\ statusLock # p)
    PROVE  ShapeInv' /\ LockInv' /\ (VersionInv => VersionInv')
<1>1. /\ EndRun(p) /\ overtaken' = overtaken /\ sessions' = sessions /\ crashes' = crashes
      /\ unf' = unf /\ status' = status /\ journal' = journal
  BY DEF Cancel, Fail, SkipSnapshot, SnapshotLocked, databaseVars, diskVars, boundVars
<1>2. pc[p] \notin {"snapshots", "commit"}
  BY DEF Cancel, Fail, SkipSnapshot, SnapshotLocked
<1>3. crashes' \in Nat
  BY <1>1 DEF ShapeInv
<1> QED
  BY <1>1, <1>2, <1>3, EndKeepsAll

\* A process that ends early leaves its publication behind, without the commit.
LEMMA CrashKeeps ==
    ASSUME ShapeInv, LockInv, NEW p \in Servers, scenario' = scenario, Crash(p)
    PROVE  /\ ShapeInv' /\ LockInv'
           /\ VersionInv /\ (\A q \in Servers : q # p => pc[q] = "idle") => VersionInv'
<1>1. /\ EndRun(p) /\ overtaken' = overtaken /\ sessions' = sessions /\ crashes' = crashes + 1
      /\ unf' = unf /\ status' = status /\ journal' = journal
  BY DEF Crash, databaseVars, diskVars
<1>2. crashes' \in Nat
  BY <1>1 DEF ShapeInv
<1> QED
  BY <1>1, <1>2, EndKeepsAll

\* The snapshot lock is free, and taken.
LEMMA LockSnapshotKeeps ==
    ASSUME ShapeInv, LockInv, NEW p \in Servers, LockSnapshot(p), scenario' = scenario
    PROVE  ShapeInv' /\ LockInv' /\ (VersionInv => VersionInv')
<1>1. /\ pc[p] = "decide" /\ pc' = [pc EXCEPT ![p] = "snapshot"] /\ local' = local
      /\ initialising' = initialising /\ overtaken' = overtaken /\ sessions' = sessions
      /\ crashes' = crashes /\ status' = status /\ unf' = unf /\ journal' = journal
      /\ statusLock' = statusLock /\ snapshotLock = None /\ snapshotLock' = p
  BY DEF LockSnapshot, databaseVars, diskVars, boundVars
<1>2. "snapshot" \in Places
  BY DEF Places
<1>3. /\ Moves(p) /\ pc'[p] = "snapshot" /\ pc'[p] \in Places
      /\ local'[p] = local[p] /\ initialising'[p] = initialising[p]
      /\ initialising'[p] \in BOOLEAN
      /\ Shaped(local'[p]) /\ local'[p].session <= sessions
  BY <1>1, <1>2, Moved
<1>4. LockOK(p)
  BY DEF LockInv
<1>5. LockOK(p)'
  BY <1>1, <1>3, <1>4 DEF LockOK, Holds
<1>6. ASSUME VersionInv, ~overtaken PROVE RunOK(p)'
  <2>1. RunOK(p)
    BY <1>6 DEF VersionInv
  <2>2. Ahead' <=> Ahead
    BY <1>1 DEF Ahead, Shaped
  <2>3. \A q \in Servers : q # p => pc'[q] = pc[q]
    BY <1>3, MovesOthers DEF Others
  <2> QED
    BY <1>1, <1>3, <2>1, <2>2, <2>3 DEF RunOK
<1>7. sessions \in Nat
  BY DEF ShapeInv
<1>8. \A q \in Servers : q # None
  BY NoneAssumption
<1> QED
  BY <1>1, <1>3, <1>5, <1>6, <1>7, <1>8, StepKeeps

\* A run that starts a session goes on without its snapshot.
LEMMA SnapshotLockedKeeps ==
    ASSUME ShapeInv, LockInv, NEW p \in Servers, SnapshotLocked(p), statusLock = p,
           scenario' = scenario
    PROVE  ShapeInv' /\ LockInv' /\ (VersionInv => VersionInv')
<1>1. /\ pc[p] = "decide" /\ pc' = [pc EXCEPT ![p] = "expire"] /\ local' = local
      /\ initialising' = initialising /\ overtaken' = overtaken /\ sessions' = sessions
      /\ crashes' = crashes /\ status' = status /\ unf' = unf /\ journal' = journal
      /\ statusLock' = statusLock /\ snapshotLock' = snapshotLock
  BY DEF SnapshotLocked, databaseVars, diskVars, boundVars
<1>2. "expire" \in Places
  BY DEF Places
<1>3. /\ Moves(p) /\ pc'[p] = "expire" /\ pc'[p] \in Places
      /\ local'[p] = local[p] /\ initialising'[p] = initialising[p]
      /\ initialising'[p] \in BOOLEAN
      /\ Shaped(local'[p]) /\ local'[p].session <= sessions
  BY <1>1, <1>2, Moved
<1>4. LockOK(p)
  BY DEF LockInv
<1>5. LockOK(p)' /\ initialising[p]
  BY <1>1, <1>3, <1>4 DEF LockOK, Holds
<1>6. ASSUME VersionInv, ~overtaken PROVE RunOK(p)'
  <2>1. RunOK(p)
    BY <1>6 DEF VersionInv
  <2> QED
    BY <1>1, <1>3, <1>5, <2>1 DEF RunOK
<1>7. sessions' \in Nat /\ sessions <= sessions' /\ local'[p].session <= sessions'
  BY <1>1, <1>3 DEF ShapeInv
<1>8. LockOK(p)'
  BY <1>5
<1>9. pc[p] \notin {"snapshots", "commit"}
  BY <1>1
<1> QED
  BY <1>1, <1>3, <1>6, <1>7, <1>8, <1>9, StepKeeps

\* _expire_snapshots()
LEMMA ExpireSnapshotsKeeps ==
    ASSUME ShapeInv, LockInv, NEW p \in Servers, ExpireSnapshots(p), scenario' = scenario
    PROVE  ShapeInv' /\ LockInv' /\ (VersionInv => VersionInv')
<1>1. /\ pc[p] = "snapshots" /\ pc' = [pc EXCEPT ![p] = "commit"] /\ local' = local
      /\ initialising' = initialising /\ overtaken' = overtaken /\ sessions' = sessions
      /\ crashes' = crashes /\ status' = status /\ unf' = unf /\ journal' = journal
      /\ statusLock' = statusLock /\ snapshotLock' = snapshotLock
  BY DEF ExpireSnapshots, databaseVars, diskVars, boundVars
<1>2. "commit" \in Places
  BY DEF Places
<1>3. /\ Moves(p) /\ pc'[p] = "commit" /\ pc'[p] \in Places
      /\ local'[p] = local[p] /\ initialising'[p] = initialising[p]
      /\ initialising'[p] \in BOOLEAN
      /\ Shaped(local'[p]) /\ local'[p].session <= sessions
  BY <1>1, <1>2, Moved
<1>4. LockOK(p)
  BY DEF LockInv
<1>5. LockOK(p)'
  BY <1>1, <1>3, <1>4 DEF LockOK, Holds
<1>6. ASSUME VersionInv, ~overtaken PROVE RunOK(p)'
  <2>1. RunOK(p)
    BY <1>6 DEF VersionInv
  <2>2. DeltaEntries(status)' = DeltaEntries(status)
    BY <1>1 DEF DeltaEntries, DeltaStart, Own
  <2> QED
    BY <1>1, <1>3, <2>1, <2>2 DEF RunOK
<1>7. sessions \in Nat
  BY DEF ShapeInv
<1> QED
  BY <1>1, <1>3, <1>5, <1>6, <1>7, StepKeeps

\* The run steps, and has another status in hand.
LEMMA Replaced ==
    ASSUME ShapeInv, NEW p \in Servers, NEW x, pc' = [pc EXCEPT ![p] = x],
           NEW st, local' = [local EXCEPT ![p] = st]
    PROVE  pc'[p] = x /\ local'[p] = st
<1>1. p \in DOMAIN pc /\ p \in DOMAIN local
  BY DEF ShapeInv
<1> QED
  BY <1>1

\* _expire_deltas()
LEMMA ExpireDeltasKeeps ==
    ASSUME ShapeInv, LockInv, NEW p \in Servers, ExpireDeltas(p), scenario' = scenario
    PROVE  ShapeInv' /\ LockInv' /\ (VersionInv => VersionInv')
<1>1. /\ pc[p] = "expire" /\ pc' = [pc EXCEPT ![p] = "unf"]
      /\ initialising' = initialising /\ overtaken' = overtaken /\ sessions' = sessions
      /\ crashes' = crashes /\ status' = status /\ unf' = unf /\ journal' = journal
      /\ statusLock' = statusLock /\ snapshotLock' = snapshotLock
  BY DEF ExpireDeltas, databaseVars, diskVars, boundVars
<1>2. PICK kept : local' = [local EXCEPT ![p].deltas = kept]
  BY DEF ExpireDeltas
<1>3. local' = [local EXCEPT ![p] = [local[p] EXCEPT !.deltas = kept]]
  BY <1>2
<1>4. pc'[p] = "unf" /\ local'[p] = [local[p] EXCEPT !.deltas = kept]
  BY <1>1, <1>3, Replaced
<1>5. Shaped(local[p]) /\ local[p].session <= sessions /\ initialising[p] \in BOOLEAN
  BY DEF ShapeInv
<1>6. /\ Shaped(local'[p]) /\ local'[p].session = local[p].session
      /\ local'[p].version = local[p].version /\ local'[p].snapVersion = local[p].snapVersion
  BY <1>4, <1>5, DeltasChanged
<1>7. Moves(p)
  <2>1. initialising = [initialising EXCEPT ![p] = initialising[p]]
    BY DEF ShapeInv
  <2> QED
    BY <1>1, <1>3, <1>4, <2>1 DEF Moves
<1>8. pc'[p] \in Places
  BY <1>4 DEF Places
<1>9. LockOK(p)
  BY DEF LockInv
<1>10. LockOK(p)'
  BY <1>1, <1>4, <1>6, <1>9 DEF LockOK, Holds
<1>11. ASSUME VersionInv, ~overtaken PROVE RunOK(p)'
  <2>1. RunOK(p)
    BY <1>11 DEF VersionInv
  <2>2. DeltaEntries(status)' = DeltaEntries(status)
    BY <1>1 DEF DeltaEntries, DeltaStart, Own
  <2> QED
    BY <1>1, <1>4, <1>6, <2>1, <2>2 DEF RunOK
<1>12. sessions' \in Nat /\ sessions <= sessions' /\ local'[p].session <= sessions'
  BY <1>1, <1>5, <1>6 DEF ShapeInv
<1>13. pc[p] \notin {"snapshots", "commit"} /\ initialising'[p] \in BOOLEAN /\ Shaped(local'[p])
  BY <1>1, <1>5, <1>6
<1> QED
  BY <1>1, <1>7, <1>8, <1>10, <1>11, <1>12, <1>13, StepKeeps

\* _write_snapshot(): a new session goes on to its notification file, other runs
\* have to wait for the status lock.
LEMMA WriteSnapshotKeeps ==
    ASSUME ShapeInv, LockInv, NEW p \in Servers, WriteSnapshot(p), scenario' = scenario
    PROVE  ShapeInv' /\ LockInv' /\ (VersionInv => VersionInv')
<1>1. /\ pc[p] = "snapshot"
      /\ initialising' = initialising /\ overtaken' = overtaken /\ sessions' = sessions
      /\ crashes' = crashes /\ status' = status /\ unf' = unf /\ journal' = journal
      /\ statusLock' = statusLock /\ snapshotLock' = snapshotLock
  BY DEF WriteSnapshot, databaseVars, diskVars, boundVars
<1>2. Shaped(local[p]) /\ local[p].session <= sessions /\ initialising[p] \in BOOLEAN
  BY DEF ShapeInv
<1>3. LockOK(p) /\ snapshotLock = p
  BY <1>1 DEF LockInv, LockOK
<1>4. sessions' \in Nat /\ sessions <= sessions' /\ pc[p] \notin {"snapshots", "commit"}
      /\ initialising'[p] \in BOOLEAN
  BY <1>1, <1>2 DEF ShapeInv
<1>5. initialising = [initialising EXCEPT ![p] = initialising[p]]
  BY DEF ShapeInv
<1>6. CASE initialising[p]
  <2>1. /\ pc' = [pc EXCEPT ![p] = "expire"]
        /\ local' = [local EXCEPT ![p] = WithSnapshot(p, local[p], created + 1)]
    BY <1>6 DEF WriteSnapshot
  <2>2. pc'[p] = "expire" /\ local'[p] = WithSnapshot(p, local[p], created + 1)
    BY <2>1, Replaced
  <2>3. /\ Shaped(local'[p]) /\ local'[p].session = local[p].session
        /\ local'[p].version = local[p].version
    BY <1>2, <2>2, SnapshotChanged
  <2>4. Moves(p)
    BY <1>1, <1>5, <2>1, <2>2 DEF Moves
  <2>5. LockOK(p)'
    BY <1>1, <1>3, <1>6, <2>2 DEF LockOK, Holds
  <2>6. ASSUME VersionInv, ~overtaken PROVE RunOK(p)'
    <3>1. RunOK(p)
      BY <2>6 DEF VersionInv
    <3> QED
      BY <1>1, <1>6, <2>2, <2>3, <3>1 DEF RunOK
  <2>7. pc'[p] \in Places
    BY <2>2 DEF Places
  <2>8. local'[p].session <= sessions'
    BY <1>1, <1>2, <2>3
  <2> QED
    BY <1>1, <1>4, <2>3, <2>4, <2>5, <2>6, <2>7, <2>8, StepKeeps
<1>7. CASE ~initialising[p]
  <2>1. pc' = [pc EXCEPT ![p] = "relock"] /\ local' = local
    BY <1>7 DEF WriteSnapshot
  <2>2. "relock" \in Places
    BY DEF Places
  <2>3. /\ Moves(p) /\ pc'[p] = "relock" /\ pc'[p] \in Places
        /\ local'[p] = local[p] /\ initialising'[p] = initialising[p]
        /\ initialising'[p] \in BOOLEAN
        /\ Shaped(local'[p]) /\ local'[p].session <= sessions
    BY <1>1, <2>1, <2>2, Moved
  <2>4. LockOK(p)'
    BY <1>1, <1>3, <1>7, <2>3 DEF LockOK, Holds
  <2>5. ASSUME VersionInv, ~overtaken PROVE RunOK(p)'
    <3>1. RunOK(p)
      BY <2>5 DEF VersionInv
    <3>2. Ahead' <=> Ahead
      BY <1>1 DEF Ahead, Shaped
    <3>3. \A q \in Servers : q # p => pc'[q] = pc[q]
      BY <2>3, MovesOthers DEF Others
    <3> QED
      BY <1>1, <1>7, <2>3, <3>1, <3>2, <3>3 DEF RunOK
  <2>6. local'[p].session <= sessions'
    BY <1>1, <2>3
  <2> QED
    BY <1>1, <1>4, <2>3, <2>4, <2>5, <2>6, StepKeeps
<1> QED
  BY <1>6, <1>7

\* _write_delta(): a version that has been published without a commit is made again.
LEMMA WriteDeltaKeeps ==
    ASSUME ShapeInv, LockInv, NEW p \in Servers, WriteDelta(p), scenario' = scenario
    PROVE  ShapeInv' /\ LockInv' /\ (VersionInv => VersionInv')
<1>1. /\ pc[p] = "delta" /\ pc' = [pc EXCEPT ![p] = "expire"]
      /\ initialising' = initialising /\ overtaken' = overtaken /\ sessions' = sessions
      /\ crashes' = crashes /\ status' = status /\ unf' = unf /\ journal' = journal
      /\ statusLock' = statusLock /\ snapshotLock' = snapshotLock
  BY DEF WriteDelta, databaseVars, diskVars, boundVars
<1>2. Shaped(local[p]) /\ local[p].session <= sessions /\ initialising[p] \in BOOLEAN
  BY DEF ShapeInv
<1>3. LockOK(p) /\ ~initialising[p]
  BY <1>1 DEF LockInv, LockOK
<1>4. /\ sessions' \in Nat /\ sessions <= sessions' /\ pc[p] \notin {"snapshots", "commit"}
      /\ initialising'[p] \in BOOLEAN
  BY <1>1, <1>2 DEF ShapeInv
<1>5. initialising = [initialising EXCEPT ![p] = initialising[p]]
  BY DEF ShapeInv
<1>6. /\ local' = [local EXCEPT ![p] = local'[p]]
      /\ Shaped(local'[p]) /\ local'[p].session = local[p].session
      /\ local'[p].snapVersion = local[p].snapVersion
      /\ local'[p].version = IF DeltaEntries(local[p]) = {} THEN local[p].version ELSE local[p].version + 1
  <2>1. CASE DeltaEntries(local[p]) = {}
    <3>1. local' = local
      BY <2>1 DEF WriteDelta
    <3>2. local = [local EXCEPT ![p] = local[p]]
      BY DEF ShapeInv
    <3> QED
      BY <1>2, <2>1, <3>1, <3>2
  <2>2. CASE DeltaEntries(local[p]) # {}
    <3>1. PICK new : local' = [local EXCEPT ![p].version = local[p].version + 1,
                                            ![p].deltas = @ \union {new}]
      BY <2>2 DEF WriteDelta
    <3>2. local' = [local EXCEPT ![p] = [local[p] EXCEPT !.version = local[p].version + 1,
                                            !.deltas = local[p].deltas \union {new}]]
      BY <1>2, <3>1 DEF Shaped, ShapeInv
    <3>3. local'[p] = [local[p] EXCEPT !.version = local[p].version + 1,
                                       !.deltas = local[p].deltas \union {new}]
      BY <1>1, <3>2, Replaced
    <3>4. local[p].version + 1 \in Nat
      BY <1>2 DEF Shaped
    <3>5. /\ Shaped(local'[p]) /\ local'[p].session = local[p].session
          /\ local'[p].version = local[p].version + 1
          /\ local'[p].snapVersion = local[p].snapVersion
      BY <1>2, <3>3, <3>4 DEF Shaped
    <3> QED
      BY <2>2, <3>2, <3>3, <3>5
  <2> QED
    BY <2>1, <2>2
<1>7. pc'[p] = "expire" /\ pc'[p] \in Places
  BY <1>1 DEF ShapeInv, Places
<1>8. Moves(p)
  BY <1>1, <1>5, <1>6, <1>7 DEF Moves
<1>9. LockOK(p)'
  BY <1>1, <1>3, <1>6, <1>7 DEF LockOK, Holds
<1>10. ASSUME VersionInv, ~overtaken PROVE RunOK(p)'
  <2>1. RunOK(p) /\ AheadOK
    BY <1>10 DEF VersionInv
  <2>2. Shaped(status) /\ FromStatus(local[p])
    BY <1>1, <2>1 DEF RunOK, ShapeInv, StatusOK
  <2>3. DeltaEntries(local[p]) = DeltaEntries(status)
    BY <2>2 DEF FromStatus, DeltaEntries, DeltaStart
  <2>4. DeltaEntries(status)' = DeltaEntries(status)
    BY <1>1 DEF DeltaEntries, DeltaStart, Own
  <2>5. /\ local'[p].session = status.session
        /\ \/ local'[p].version = status.version
           \/ local'[p].version = status.version + 1 /\ DeltaEntries(status) # {}
    BY <1>6, <2>2, <2>3 DEF FromStatus
  <2>6. unf # None /\ unf.session = local'[p].session => unf.version <= local'[p].version
    <3> SUFFICES ASSUME unf # None, unf.session = local'[p].session
                 PROVE  unf.version <= local'[p].version
      OBVIOUS
    <3>1. unf.version \in Nat /\ status.version \in Nat
      BY <2>2 DEF ShapeInv, Shaped
    <3>2. local[p].version = status.version
      BY <2>2 DEF FromStatus
    <3>3. CASE unf.version > status.version
      <4>1. Ahead
        BY <2>2, <2>5, <3>3 DEF Ahead
      <4>2. unf.version = status.version + 1 /\ DeltaEntries(status) # {}
        BY <2>1, <4>1 DEF AheadOK
      <4> QED
        BY <1>6, <2>3, <3>1, <3>2, <4>2
    <3>4. CASE ~ (unf.version > status.version)
      BY <2>5, <3>1, <3>4
    <3> QED
      BY <3>3, <3>4
  <2> QED
    BY <1>1, <1>3, <1>7, <2>2, <2>4, <2>5, <2>6 DEF RunOK
<1>11. local'[p].session <= sessions' /\ Shaped(local'[p])
  BY <1>1, <1>2, <1>6
<1> QED
  BY <1>1, <1>4, <1>7, <1>8, <1>9, <1>10, <1>11, StepKeeps

\* The status lock is free for one run at a time.
LEMMA LockTaken ==
    ASSUME LockInv, NEW p \in Servers, statusLock = None, statusLock' = p,
           snapshotLock' = snapshotLock
    PROVE  /\ \A q \in Servers : ~ Holds(q)
           /\ \A q \in Servers : q # p => (statusLock' = q <=> statusLock = q)
                                          /\ (snapshotLock = q => snapshotLock' = q)
<1>1. \A q \in Servers : q # None
  BY NoneAssumption
<1> QED
  BY <1>1 DEF LockInv, LockOK

\* A new session has a number that no status and no notification file has.
LEMMA InitialiseKeeps ==
    ASSUME ShapeInv, LockInv, NEW p \in Setup[scenario].servers, p \in Servers,
           Initialise(p), scenario' = scenario
    PROVE  ShapeInv' /\ LockInv' /\ (VersionInv => VersionInv')
<1>1. /\ pc[p] = "start" /\ pc' = [pc EXCEPT ![p] = "decide"]
      /\ initialising' = [initialising EXCEPT ![p] = TRUE]
      /\ overtaken' = overtaken /\ sessions' = sessions + 1
      /\ crashes' = crashes /\ status # None /\ status' = status /\ unf' = unf /\ journal' = journal
      /\ statusLock = None /\ statusLock' = p /\ snapshotLock' = snapshotLock
  BY DEF Initialise, Locked, databaseVars, diskVars
<1>2. local' = [local EXCEPT ![p] = [status EXCEPT !.session = sessions + 1, !.version = 1,
                    !.snapVersion = 0, !.snapSerial = 0, !.deltas = {}]]
  BY DEF Initialise
<1>3. /\ pc'[p] = "decide"
      /\ local'[p] = [status EXCEPT !.session = sessions + 1, !.version = 1,
                    !.snapVersion = 0, !.snapSerial = 0, !.deltas = {}]
  BY <1>1, <1>2, Replaced
<1>4. Shaped(status) /\ status.session <= sessions /\ sessions \in Nat
  BY <1>1 DEF ShapeInv, StatusOK
<1>5. Shaped(local'[p]) /\ local'[p].session = sessions + 1 /\ local'[p].snapVersion = 0
  <2>1. local'[p] = [force |-> status.force, session |-> sessions + 1, version |-> 1,
                     snapVersion |-> 0, snapSerial |-> 0, snapFile |-> status.snapFile,
                     deltas |-> {}]
    BY <1>3, <1>4 DEF Shaped
  <2> QED
    BY <1>4, <2>1 DEF Shaped
<1>6. initialising'[p] = TRUE
  BY <1>1 DEF ShapeInv
<1>7. Moves(p)
  BY <1>1, <1>2, <1>3, <1>6 DEF Moves
<1>8. /\ sessions' \in Nat /\ sessions <= sessions' /\ pc[p] \notin {"snapshots", "commit"}
      /\ initialising'[p] \in BOOLEAN /\ local'[p].session <= sessions'
  <2>1. local'[p].session = sessions'
    BY <1>1, <1>5
  <2>2. sessions' \in Nat /\ sessions <= sessions' /\ local'[p].session <= sessions'
    BY <1>1, <1>4, <2>1
  <2> QED
    BY <1>1, <1>6, <2>2
<1>9. pc'[p] \in Places
  BY <1>3 DEF Places
<1>10. LockOK(p)'
  BY <1>1, <1>3, <1>5, <1>6 DEF LockOK, Holds
<1>11. \A q \in Servers : q # p => (statusLock' = q <=> statusLock = q)
                                   /\ (snapshotLock = q => snapshotLock' = q)
  BY <1>1, LockTaken
<1>12. RunOK(p)'
  <2>1. status.session < local'[p].session
    BY <1>4, <1>5 DEF Shaped
  <2>2. unf # None => unf.session < local'[p].session
    BY <1>4, <1>5 DEF ShapeInv
  <2> QED
    BY <1>1, <1>3, <1>6, <2>1, <2>2 DEF RunOK
<1> QED
  BY <1>1, <1>5, <1>7, <1>8, <1>9, <1>10, <1>11, <1>12, StepKeeps

\* A run that goes on with a session has the status row in hand.
LEMMA ResumeKeeps ==
    ASSUME ShapeInv, LockInv, NEW p \in Setup[scenario].servers, p \in Servers,
           Resume(p), scenario' = scenario
    PROVE  ShapeInv' /\ LockInv' /\ (VersionInv => VersionInv')
<1>1. /\ pc[p] = "start" /\ pc' = [pc EXCEPT ![p] = "delta"]
      /\ local' = [local EXCEPT ![p] = status]
      /\ initialising' = initialising /\ overtaken' = overtaken /\ sessions' = sessions
      /\ crashes' = crashes /\ status # None /\ status' = status /\ unf' = unf /\ journal' = journal
      /\ statusLock = None /\ statusLock' = p /\ snapshotLock' = snapshotLock
  BY DEF Resume, Locked, databaseVars, diskVars, boundVars
<1>2. pc'[p] = "delta" /\ local'[p] = status
  BY <1>1, Replaced
<1>3. LockOK(p)
  BY DEF LockInv
<1>4. ~initialising[p] /\ initialising'[p] = initialising[p]
  BY <1>1, <1>3 DEF LockOK
<1>5. initialising = [initialising EXCEPT ![p] = initialising[p]]
  BY DEF ShapeInv
<1>6. Moves(p)
  BY <1>1, <1>2, <1>5 DEF Moves
<1>7. Shaped(local'[p]) /\ local'[p].session <= sessions'
  BY <1>1, <1>2 DEF ShapeInv, StatusOK
<1>8. /\ sessions' \in Nat /\ sessions <= sessions' /\ pc[p] \notin {"snapshots", "commit"}
      /\ initialising'[p] \in BOOLEAN
  BY <1>1, <1>4 DEF ShapeInv
<1>9. pc'[p] \in Places
  BY <1>2 DEF Places
<1>10. LockOK(p)'
  BY <1>1, <1>2, <1>4 DEF LockOK, Holds
<1>11. \A q \in Servers : q # p => (statusLock' = q <=> statusLock = q)
                                   /\ (snapshotLock = q => snapshotLock' = q)
  BY <1>1, LockTaken
<1>12. RunOK(p)'
  <2>1. FromStatus(local[p])'
    BY <1>1, <1>2 DEF FromStatus
  <2> QED
    BY <1>1, <1>2, <1>4, <2>1 DEF RunOK
<1> QED
  BY <1>1, <1>6, <1>7, <1>8, <1>9, <1>10, <1>11, <1>12, StepKeeps

\* The status that is read anew is not behind the notification file: nobody can
\* be between its publication and its commit.
LEMMA RelockKeeps ==
    ASSUME ShapeInv, LockInv, NEW p \in Servers, Relock(p), scenario' = scenario
    PROVE  ShapeInv' /\ LockInv' /\ (VersionInv => VersionInv')
<1>1. /\ pc[p] = "relock" /\ pc' = [pc EXCEPT ![p] = "expire"]
      /\ local' = [local EXCEPT ![p] = WithSnapshot(p, status, snapshot[p])]
      /\ initialising' = initialising /\ overtaken' = overtaken /\ sessions' = sessions
      /\ crashes' = crashes /\ status' = status /\ unf' = unf /\ journal' = journal
      /\ statusLock = None /\ statusLock' = p /\ snapshotLock' = snapshotLock
  BY DEF Relock, databaseVars, diskVars, boundVars
<1>2. pc'[p] = "expire" /\ local'[p] = WithSnapshot(p, status, snapshot[p])
  BY <1>1, Replaced
<1>3. LockOK(p)
  BY DEF LockInv
<1>4. ~initialising[p] /\ initialising'[p] = initialising[p] /\ snapshotLock = p
  BY <1>1, <1>3 DEF LockOK
<1>5. initialising = [initialising EXCEPT ![p] = initialising[p]]
  BY DEF ShapeInv
<1>6. Moves(p)
  BY <1>1, <1>2, <1>5 DEF Moves
<1>7. Shaped(status) /\ status.session <= sessions
  BY <1>1 DEF ShapeInv, StatusOK
<1>8. /\ Shaped(local'[p]) /\ local'[p].session = status.session
      /\ local'[p].version = status.version
  BY <1>2, <1>7, SnapshotChanged
<1>9. /\ sessions' \in Nat /\ sessions <= sessions' /\ pc[p] \notin {"snapshots", "commit"}
      /\ initialising'[p] \in BOOLEAN /\ local'[p].session <= sessions'
  BY <1>1, <1>4, <1>7, <1>8 DEF ShapeInv
<1>10. pc'[p] \in Places
  BY <1>2 DEF Places
<1>11. LockOK(p)'
  BY <1>1, <1>2, <1>3, <1>4 DEF LockOK, Holds
<1>12. /\ \A q \in Servers : ~ Holds(q)
       /\ \A q \in Servers : q # p => (statusLock' = q <=> statusLock = q)
                                      /\ (snapshotLock = q => snapshotLock' = q)
  BY <1>1, LockTaken
<1>13. ASSUME VersionInv, ~overtaken PROVE RunOK(p)'
  <2>1. RunOK(p)
    BY <1>13 DEF VersionInv
  <2>2. ~ Ahead
    BY <1>1, <1>4, <1>12, <2>1 DEF RunOK, Holds
  <2>3. unf # None /\ unf.session = status.session => unf.version <= status.version
    <3>1. status.version \in Nat /\ (unf # None => unf.version \in Nat)
      BY <1>7 DEF Shaped, ShapeInv
    <3> QED
      BY <1>7, <2>2, <3>1 DEF Ahead
  <2> QED
    BY <1>1, <1>2, <1>4, <1>8, <2>3 DEF RunOK
<1> QED
  BY <1>1, <1>6, <1>8, <1>9, <1>10, <1>11, <1>12, <1>13, StepKeeps

\* The version that is published is not older than the one before, in one session.
LEMMA WriteUnfKeeps ==
    ASSUME ShapeInv, LockInv, NEW p \in Servers, WriteUnf(p), scenario' = scenario
    PROVE  /\ ShapeInv' /\ LockInv' /\ (VersionInv => VersionInv')
           /\ VersionInv /\ ~overtaken /\ unf # None /\ unf'.session = unf.session =>
                 unf'.version >= unf.version
<1>1. /\ pc[p] = "unf" /\ pc' = [pc EXCEPT ![p] = "snapshots"] /\ local' = local
      /\ initialising' = initialising /\ overtaken' = overtaken /\ sessions' = sessions
      /\ crashes' = crashes /\ status' = status /\ journal' = journal
      /\ statusLock' = statusLock /\ snapshotLock' = snapshotLock
      /\ local[p].session # 0 /\ local[p].snapVersion # 0
  BY DEF WriteUnf, Valid, databaseVars, boundVars
<1>2. unf'.session = local[p].session /\ unf'.version = local[p].version
  BY DEF WriteUnf, UnfOf
<1>3. "snapshots" \in Places
  BY DEF Places
<1>4. /\ Moves(p) /\ pc'[p] = "snapshots" /\ pc'[p] \in Places
      /\ local'[p] = local[p] /\ initialising'[p] = initialising[p]
      /\ initialising'[p] \in BOOLEAN
      /\ Shaped(local'[p]) /\ local'[p].session <= sessions
  BY <1>1, <1>3, Moved
<1>5. LockOK(p)
  BY DEF LockInv
<1>6. LockOK(p)' /\ statusLock = p
  BY <1>1, <1>4, <1>5 DEF LockOK, Holds
<1>7. Others(p)
  BY <1>4, MovesOthers
<1>8. local[p].session \in Nat \ {0} /\ local[p].version \in Nat
  BY <1>1, <1>4 DEF Shaped
<1>9. ShapeInv'
  <2>1. /\ unf'.session \in Nat \ {0} /\ unf'.version \in Nat /\ unf'.session <= sessions'
    BY <1>1, <1>2, <1>4, <1>8
  <2>2. sessions' \in Nat /\ sessions <= sessions' /\ crashes' \in Nat /\ local'[p].session <= sessions'
    BY <1>1, <1>4 DEF ShapeInv
  <2>3. pc[p] \notin {"idle", "start"}
    BY <1>1
  <2> QED
    BY <1>1, <1>4, <2>1, <2>2, <2>3, ShapeKept
<1>10. LockInv'
  BY <1>1, <1>6, <1>7, LocksKept
<1>11. ASSUME VersionInv, ~overtaken, unf # None, unf'.session = unf.session
       PROVE  unf'.version >= unf.version
  <2>1. RunOK(p)
    BY <1>11 DEF VersionInv
  <2>2. unf.session = local[p].session /\ unf.version \in Nat
    BY <1>2, <1>11 DEF ShapeInv
  <2>3. ~initialising[p]
    BY <1>1, <1>8, <1>11, <2>1, <2>2 DEF RunOK
  <2>4. unf.version <= local[p].version
    BY <1>1, <1>11, <2>1, <2>2, <2>3 DEF RunOK
  <2> QED
    BY <1>2, <1>8, <2>2, <2>4
<1>12. ASSUME VersionInv PROVE VersionInv'
  <2> SUFFICES ASSUME ~overtaken PROVE AheadOK' /\ \A q \in Servers : RunOK(q)'
    BY <1>1 DEF VersionInv
  <2>1. \A q \in Servers : RunOK(q)
    BY <1>12 DEF VersionInv
  <2>2. DeltaEntries(status)' = DeltaEntries(status)
    BY <1>1 DEF DeltaEntries, DeltaStart, Own
  <2>3. status.session \in Nat /\ status.version \in Nat
    BY <1>1 DEF ShapeInv, StatusOK, Shaped
  <2>4. AheadOK'
    <3> SUFFICES ASSUME Ahead' PROVE unf'.version = status.version + 1 /\ DeltaEntries(status) # {}
      BY <1>1, <2>2 DEF AheadOK
    <3>1. local[p].session = status.session /\ local[p].version > status.version
      BY <1>1, <1>2 DEF Ahead
    <3>2. ~initialising[p]
      BY <2>1, <2>3, <3>1 DEF RunOK
    <3> QED
      BY <1>1, <1>2, <2>1, <2>3, <3>1, <3>2 DEF RunOK
  <2>5. RunOK(p)'
    BY <1>1, <1>2, <1>4, <2>1, <2>2 DEF RunOK
  <2>6. ASSUME NEW q \in Servers, q # p PROVE RunOK(q)'
    <3>1. pc'[q] = pc[q] /\ local'[q] = local[q] /\ initialising'[q] = initialising[q]
      BY <1>7, <2>6 DEF Others
    <3>2. ~Holds(q) /\ LockOK(q)
      BY <1>6, <2>6 DEF LockInv, LockOK
    <3>3. pc[q] \in {"idle", "start", "decide", "snapshot", "relock"} /\ ~initialising[q]
      <4>1. pc[q] \in Places
        BY DEF ShapeInv
      <4> QED
        BY <3>2, <4>1 DEF Holds, LockOK, Places
    <3>4. p # q /\ pc'[p] \in {"snapshots", "commit"}
      BY <1>4, <2>6
    <3> QED
      BY <3>1, <3>3, <3>4 DEF RunOK
  <2> QED
    BY <2>4, <2>5, <2>6
<1> QED
  BY <1>9, <1>10, <1>11, <1>12

\* The commit makes the status row what has been published.
LEMMA Committed ==
    ASSUME ShapeInv, LockInv, NEW p \in Servers, Others(p), Record(p), pc[p] = "commit",
           unf' = unf, overtaken' = overtaken, pc'[p] \in {"idle", "decide"}, ~initialising'[p]
    PROVE  VersionInv => VersionInv'
<1> SUFFICES ASSUME VersionInv, ~overtaken PROVE AheadOK' /\ \A q \in Servers : RunOK(q)'
  BY DEF VersionInv
<1>1. \A q \in Servers : RunOK(q)
  BY DEF VersionInv
<1>2. Shaped(local[p])
  BY DEF ShapeInv
<1>3. status' = [local[p] EXCEPT !.force = FALSE]
  BY DEF Record
<1>4. status'.session = local[p].session /\ status'.version = local[p].version
  BY <1>2, <1>3, ForceChanged
<1>5. unf.version = local[p].version /\ local[p].version \in Nat
  BY <1>1, <1>2 DEF RunOK, Shaped
<1>6. ~ Ahead'
  BY <1>4, <1>5 DEF Ahead
<1>7. statusLock = p
  BY DEF LockInv, LockOK, Holds
<1>8. ASSUME NEW q \in Servers PROVE RunOK(q)'
  <2>1. CASE q = p
    BY <1>6, <2>1 DEF RunOK
  <2>2. CASE q # p
    <3>1. pc'[q] = pc[q] /\ local'[q] = local[q] /\ initialising'[q] = initialising[q]
      BY <2>2 DEF Others
    <3>2. ~Holds(q) /\ LockOK(q)
      BY <1>7, <2>2 DEF LockInv, LockOK
    <3>3. pc[q] \in {"idle", "start", "decide", "snapshot", "relock"} /\ ~initialising[q]
      <4>1. pc[q] \in Places
        BY DEF ShapeInv
      <4> QED
        BY <3>2, <4>1 DEF Holds, LockOK, Places
    <3> QED
      BY <1>6, <3>1, <3>3 DEF RunOK
  <2> QED
    BY <2>1, <2>2
<1> QED
  BY <1>6, <1>8 DEF AheadOK

\* The commit after the delta, which is not that of a new session.
LEMMA CommitDeltaKeeps ==
    ASSUME ShapeInv, LockInv, NEW p \in Servers, CommitDelta(p), scenario' = scenario
    PROVE  ShapeInv' /\ LockInv' /\ (VersionInv => VersionInv')
<1>1. /\ pc[p] = "commit" /\ pc' = [pc EXCEPT ![p] = "decide"] /\ local' = local
      /\ initialising' = initialising /\ overtaken' = overtaken /\ sessions' = sessions
      /\ crashes' = crashes /\ unf' = unf /\ Record(p)
      /\ statusLock' = None /\ snapshotLock' = snapshotLock /\ snapshotLock # p
  BY DEF CommitDelta, diskVars, boundVars
<1>2. "decide" \in Places
  BY DEF Places
<1>3. /\ Moves(p) /\ pc'[p] = "decide" /\ pc'[p] \in Places
      /\ local'[p] = local[p] /\ initialising'[p] = initialising[p]
      /\ initialising'[p] \in BOOLEAN
      /\ Shaped(local'[p]) /\ local'[p].session <= sessions
  BY <1>1, <1>2, Moved
<1>4. LockOK(p)
  BY DEF LockInv
<1>5. ~initialising[p] /\ statusLock = p
  BY <1>1, <1>4 DEF LockOK, Holds
<1>6. \A q \in Servers : q # None
  BY NoneAssumption
<1>7. LockOK(p)'
  BY <1>1, <1>3, <1>4, <1>5, <1>6 DEF LockOK, Holds
<1>8. Others(p)
  BY <1>3, MovesOthers
<1>9. Shaped(status') /\ status'.session <= sessions'
  <2>1. status' = [local[p] EXCEPT !.force = FALSE] /\ Shaped(local[p])
    BY <1>1, <1>3 DEF Record
  <2>2. Shaped(status') /\ status'.session = local[p].session
    BY <2>1, ForceChanged
  <2> QED
    BY <1>1, <1>3, <2>2
<1>10. ShapeInv'
  <2>1. /\ sessions' \in Nat /\ sessions <= sessions' /\ crashes' \in Nat
        /\ local'[p].session <= sessions'
    BY <1>1, <1>3 DEF ShapeInv
  <2>2. pc[p] \notin {"idle", "start"}
    BY <1>1
  <2> QED
    BY <1>1, <1>3, <1>9, <2>1, <2>2, ShapeKept
<1>11. LockInv'
  BY <1>1, <1>5, <1>6, <1>7, <1>8, LocksKept
<1>12. VersionInv => VersionInv'
  <2>1. pc'[p] \in {"idle", "decide"} /\ ~initialising'[p]
    BY <1>3, <1>5
  <2> QED
    BY <1>1, <1>8, <2>1, Committed
<1> QED
  BY <1>10, <1>11, <1>12

\* The commit after the snapshot.
LEMMA CommitSnapshotKeeps ==
    ASSUME ShapeInv, LockInv, NEW p \in Servers, CommitSnapshot(p), scenario' = scenario
    PROVE  ShapeInv' /\ LockInv' /\ (VersionInv => VersionInv')
<1>1. /\ pc[p] = "commit" /\ EndRun(p) /\ Record(p) /\ overtaken' = overtaken
      /\ sessions' = sessions /\ crashes' = crashes /\ unf' = unf
  BY DEF CommitSnapshot, diskVars, boundVars
<1>2. Shaped(status') /\ status'.session <= sessions
  <2>1. status' = [local[p] EXCEPT !.force = FALSE]
    BY <1>1 DEF Record
  <2>2. Shaped(local[p]) /\ local[p].session <= sessions
    BY DEF ShapeInv
  <2>3. Shaped(status') /\ status'.session = local[p].session
    BY <2>1, <2>2, ForceChanged
  <2> QED
    BY <2>2, <2>3
<1>3. crashes' \in Nat
  BY <1>1 DEF ShapeInv
<1>4. ShapeInv' /\ LockInv' /\ Others(p) /\ pc'[p] = "idle" /\ ~initialising'[p]
  BY <1>1, <1>2, <1>3, EndKeeps
<1>5. VersionInv => VersionInv'
  <2>1. pc'[p] \in {"idle", "decide"}
    BY <1>4
  <2> QED
    BY <1>1, <1>4, <2>1, Committed
<1> QED
  BY <1>4, <1>5

-----------------------------------------------------------------------------
(* Types *)

\* The status of a source in full.
LEMMA StatusFields ==
    ASSUME NEW st \in StatusType
    PROVE  /\ st = [force |-> st.force, session |-> st.session, version |-> st.version,
                    snapVersion |-> st.snapVersion, snapSerial |-> st.snapSerial,
                    snapFile |-> st.snapFile, deltas |-> st.deltas]
           /\ st.force \in BOOLEAN /\ st.session \in Nat /\ st.version \in Nat
           /\ st.snapVersion \in Nat /\ st.snapSerial \in Nat /\ st.snapFile \in Nat
           /\ st.deltas \subseteq DeltaRef
           /\ st # None
<1>1. st # None
  BY StatusAssumption
<1> QED
  BY <1>1 DEF StatusType

\* A status with other deltas.
LEMMA WithDeltas ==
    ASSUME NEW st \in StatusType, NEW d \in SUBSET DeltaRef, NEW v \in Nat
    PROVE  /\ AsVersion(st, v, d) \in StatusType
           /\ AsVersion(st, v, d).force = st.force
           /\ AsVersion(st, v, d).session = st.session
           /\ AsVersion(st, v, d).version = v
           /\ AsVersion(st, v, d).snapVersion = st.snapVersion
           /\ AsVersion(st, v, d).snapSerial = st.snapSerial
           /\ AsVersion(st, v, d).snapFile = st.snapFile
           /\ AsVersion(st, v, d).deltas = d
<1>1. st = [force |-> st.force, session |-> st.session, version |-> st.version,
            snapVersion |-> st.snapVersion, snapSerial |-> st.snapSerial,
            snapFile |-> st.snapFile, deltas |-> st.deltas]
  BY StatusFields
<1>2. PICK new : new = [st EXCEPT !.version = v, !.deltas = d]
  OBVIOUS
<1>3. new = [force |-> st.force, session |-> st.session, version |-> v,
             snapVersion |-> st.snapVersion, snapSerial |-> st.snapSerial,
             snapFile |-> st.snapFile, deltas |-> d]
  BY <1>1, <1>2
<1>4. /\ st.force \in BOOLEAN /\ st.session \in Nat
      /\ st.snapVersion \in Nat /\ st.snapSerial \in Nat /\ st.snapFile \in Nat
  BY StatusFields
<1>5. new \in StatusType
  BY <1>3, <1>4 DEF StatusType
<1>6. AsVersion(st, v, d) = new
  BY <1>2 DEF AsVersion
<1> QED
  BY <1>3, <1>5, <1>6

\* A status with expired deltas left out.
LEMMA WithKept ==
    ASSUME NEW st \in StatusType, NEW d \in SUBSET DeltaRef
    PROVE  /\ AsKept(st, d) \in StatusType
           /\ AsKept(st, d).force = st.force
           /\ AsKept(st, d).session = st.session
           /\ AsKept(st, d).version = st.version
           /\ AsKept(st, d).snapVersion = st.snapVersion
           /\ AsKept(st, d).snapSerial = st.snapSerial
           /\ AsKept(st, d).snapFile = st.snapFile
           /\ AsKept(st, d).deltas = d
<1>1. st = [force |-> st.force, session |-> st.session, version |-> st.version,
            snapVersion |-> st.snapVersion, snapSerial |-> st.snapSerial,
            snapFile |-> st.snapFile, deltas |-> st.deltas]
  BY StatusFields
<1>2. PICK new : new = [st EXCEPT !.deltas = d]
  OBVIOUS
<1>3. new = [force |-> st.force, session |-> st.session, version |-> st.version,
             snapVersion |-> st.snapVersion, snapSerial |-> st.snapSerial,
             snapFile |-> st.snapFile, deltas |-> d]
  BY <1>1, <1>2
<1>4. /\ st.force \in BOOLEAN /\ st.session \in Nat /\ st.version \in Nat
      /\ st.snapVersion \in Nat /\ st.snapSerial \in Nat /\ st.snapFile \in Nat
  BY StatusFields
<1>5. new \in StatusType
  BY <1>3, <1>4 DEF StatusType
<1>6. AsKept(st, d) = new
  BY <1>2 DEF AsKept
<1> QED
  BY <1>3, <1>5, <1>6

\* A status with another flag.
LEMMA WithForce ==
    ASSUME NEW st \in StatusType, NEW f \in BOOLEAN
    PROVE  /\ AsForced(st, f) \in StatusType
           /\ AsForced(st, f).force = f
           /\ AsForced(st, f).session = st.session
           /\ AsForced(st, f).version = st.version
           /\ AsForced(st, f).snapVersion = st.snapVersion
           /\ AsForced(st, f).snapSerial = st.snapSerial
           /\ AsForced(st, f).snapFile = st.snapFile
           /\ AsForced(st, f).deltas = st.deltas
<1>1. st = [force |-> st.force, session |-> st.session, version |-> st.version,
            snapVersion |-> st.snapVersion, snapSerial |-> st.snapSerial,
            snapFile |-> st.snapFile, deltas |-> st.deltas]
  BY StatusFields
<1>2. PICK new : new = [st EXCEPT !.force = f]
  OBVIOUS
<1>3. new = [force |-> f, session |-> st.session, version |-> st.version,
             snapVersion |-> st.snapVersion, snapSerial |-> st.snapSerial,
             snapFile |-> st.snapFile, deltas |-> st.deltas]
  BY <1>1, <1>2
<1>4. /\ st.session \in Nat /\ st.version \in Nat /\ st.deltas \subseteq DeltaRef
      /\ st.snapVersion \in Nat /\ st.snapSerial \in Nat /\ st.snapFile \in Nat
  BY StatusFields
<1>5. new \in StatusType
  BY <1>3, <1>4 DEF StatusType
<1>6. AsForced(st, f) = new
  BY <1>2 DEF AsForced
<1> QED
  BY <1>3, <1>5, <1>6

\* A status with another snapshot.
LEMMA WithSnapshotFields ==
    ASSUME NEW st \in StatusType, NEW file \in Nat, NEW v \in Nat, NEW n \in Nat
    PROVE  /\ AsSnapshot(st, file, v, n) \in StatusType
           /\ AsSnapshot(st, file, v, n).force = st.force
           /\ AsSnapshot(st, file, v, n).session = st.session
           /\ AsSnapshot(st, file, v, n).version = st.version
           /\ AsSnapshot(st, file, v, n).snapVersion = v
           /\ AsSnapshot(st, file, v, n).snapSerial = n
           /\ AsSnapshot(st, file, v, n).snapFile = file
           /\ AsSnapshot(st, file, v, n).deltas = st.deltas
<1>1. st = [force |-> st.force, session |-> st.session, version |-> st.version,
            snapVersion |-> st.snapVersion, snapSerial |-> st.snapSerial,
            snapFile |-> st.snapFile, deltas |-> st.deltas]
  BY StatusFields
<1>2. PICK new : new = [st EXCEPT !.snapFile = file, !.snapVersion = v, !.snapSerial = n]
  OBVIOUS
<1>3. new = [force |-> st.force, session |-> st.session, version |-> st.version,
             snapVersion |-> v, snapSerial |-> n,
             snapFile |-> file, deltas |-> st.deltas]
  BY <1>1, <1>2
<1>4. /\ st.force \in BOOLEAN /\ st.session \in Nat /\ st.version \in Nat
      /\ st.deltas \subseteq DeltaRef
  BY StatusFields
<1>5. new \in StatusType
  BY <1>3, <1>4 DEF StatusType
<1>6. AsSnapshot(st, file, v, n) = new
  BY <1>2 DEF AsSnapshot
<1> QED
  BY <1>3, <1>5, <1>6

\* A new session.
LEMMA WithSession ==
    ASSUME NEW st \in StatusType, NEW n \in Nat
    PROVE  /\ AsSession(st, n) \in StatusType
           /\ AsSession(st, n).force = st.force
           /\ AsSession(st, n).session = n
           /\ AsSession(st, n).version = 1
           /\ AsSession(st, n).snapVersion = 0
           /\ AsSession(st, n).snapSerial = 0
           /\ AsSession(st, n).snapFile = st.snapFile
           /\ AsSession(st, n).deltas = {}
<1>1. st = [force |-> st.force, session |-> st.session, version |-> st.version,
            snapVersion |-> st.snapVersion, snapSerial |-> st.snapSerial,
            snapFile |-> st.snapFile, deltas |-> st.deltas]
  BY StatusFields
<1>2. PICK new : new = [st EXCEPT !.session = n, !.version = 1, !.snapVersion = 0,
                                  !.snapSerial = 0, !.deltas = {}]
  OBVIOUS
<1>3. new = [force |-> st.force, session |-> n, version |-> 1,
             snapVersion |-> 0, snapSerial |-> 0,
             snapFile |-> st.snapFile, deltas |-> {}]
  BY <1>1, <1>2
<1>4. st.force \in BOOLEAN /\ st.snapFile \in Nat
  BY StatusFields
<1>5. new \in StatusType
  BY <1>3, <1>4 DEF StatusType
<1>6. AsSession(st, n) = new
  BY <1>2 DEF AsSession
<1> QED
  BY <1>3, <1>5, <1>6

\* No session.
LEMMA EmptyFields ==
    /\ EmptyStatus \in StatusType /\ EmptyStatus # None
    /\ EmptyStatus.session = 0 /\ EmptyStatus.version = 0 /\ EmptyStatus.deltas = {}
    /\ EmptyStatus.snapVersion = 0 /\ EmptyStatus.snapSerial = 0 /\ EmptyStatus.snapFile = 0
<1>1. EmptyStatus \in StatusType
  BY DEF EmptyStatus, StatusType
<1> QED
  BY <1>1, StatusFields DEF EmptyStatus

\* A set of naturals that is not empty has a least element.
LEMMA MinExists ==
    ASSUME NEW S, S \subseteq Nat, S # {}
    PROVE  Min(S) \in S /\ \A x \in S : Min(S) <= x
<1>1. PICK m \in S : \A y \in S : <<y, m>> \notin OpToRel(<, Nat)
  BY NatLessThanWellFounded, WFMin
<1>2. \A y \in S : ~(y < m)
  BY <1>1 DEF OpToRel
<1>3. \A y \in S : m =< y
  BY <1>2
<1> QED
  BY <1>3 DEF Min

\* A set of naturals that is not empty and has an upper bound has a greatest
\* element.
LEMMA MaxExists ==
    ASSUME NEW S, S \subseteq Nat, S # {}, NEW b \in Nat, \A x \in S : x <= b
    PROVE  Max(S) \in S /\ \A x \in S : x <= Max(S)
<1> DEFINE T == {b - x : x \in S}
<1>0. \A x \in S : x \in Nat /\ b - x \in Nat
  OBVIOUS
<1>1. T \subseteq Nat /\ T # {}
  BY <1>0
<1>2. Min(T) \in T /\ \A y \in T : Min(T) <= y
  BY <1>1, MinExists
<1>3. PICK m \in S : Min(T) = b - m
  BY <1>2
<1>4. \A x \in S : b - m <= b - x
  BY <1>2, <1>3
<1>5. \A x \in S : m >= x
  BY <1>4
<1> QED
  BY <1>5 DEF Max

\* __init__() reads a serial that has been given out.
LEMMA MaxSerialGlobalType ==
    ASSUME TypeInv
    PROVE  MaxSerialGlobal \in Nat /\ MaxSerialGlobal <= sequence
<1> DEFINE S == {e.glob : e \in journal}
<1>1. sequence \in Nat
  BY DEF TypeInv, TypeOK
<1>2. \A e \in journal : e.glob \in Nat /\ e.glob <= sequence
  BY DEF TypeInv, TypeOK, Entry
<1>3. CASE journal = {}
  BY <1>1, <1>3 DEF MaxSerialGlobal
<1>4. CASE journal # {}
  <2>1. S \subseteq Nat /\ S # {} /\ \A n \in S : n <= sequence
    BY <1>2, <1>4
  <2>2. Max(S) \in S
    BY <1>1, <2>1, MaxExists
  <2>3. MaxSerialGlobal = Max(S)
    BY <1>4 DEF MaxSerialGlobal
  <2> QED
    BY <1>1, <2>1, <2>2, <2>3
<1> QED
  BY <1>3, <1>4

\* The types of the variables, one by one.
LEMMA TypeFacts ==
    ASSUME TypeInv
    PROVE  /\ sequence \in Nat /\ created \in Nat /\ aged \in Nat
           /\ sessions \in Nat /\ crashes \in Nat /\ reloads \in Nat
           /\ rows \in [Objects -> Texts \union {None}] /\ journal \subseteq Entry
           /\ status # None => status \in StatusType
           /\ pc \in [Servers -> Places] /\ initialising \in [Servers -> BOOLEAN]
           /\ maxSerial \in [Servers -> Nat] /\ horizon \in [Servers -> Nat]
           /\ local \in [Servers -> StatusType] /\ snapshot \in [Servers -> Nat]
           /\ \A p \in Servers : local[p] \in StatusType /\ maxSerial[p] \in Nat
                                 /\ horizon[p] \in Nat /\ snapshot[p] \in Nat
                                 /\ maxSerial[p] <= sequence /\ snapshot[p] <= created
           /\ \A e \in journal : e.glob <= sequence
  BY DEF TypeInv, TypeOK, Places

\* What a run writes has the types of its variables.
LEMMA RunTyped ==
    ASSUME TypeInv, NEW p \in Servers, NEW x \in Places, NEW st \in StatusType,
           pc' = [pc EXCEPT ![p] = x], local' = [local EXCEPT ![p] = st],
           initialising' \in [Servers -> BOOLEAN],
           rows' = rows, journal' = journal, sequence' = sequence, aged' = aged, reloads' = reloads,
           created' \in Nat, created <= created', sessions' \in Nat, crashes' \in Nat,
           status' = status \/ status' \in StatusType,
           statusLock' \in Servers \union {None}, snapshotLock' \in Servers \union {None},
           \E n \in Nat : n <= sequence /\ maxSerial' = [maxSerial EXCEPT ![p] = n],
           \E n \in Nat : n <= created' /\ snapshot' = [snapshot EXCEPT ![p] = n],
           \E n \in Nat : horizon' = [horizon EXCEPT ![p] = n],
           x \in {"idle", "start"} \/ status # None
    PROVE  TypeInv'
<1>1. pc' \in [Servers -> Places] /\ local' \in [Servers -> StatusType]
  BY TypeFacts
<1>2. maxSerial' \in [Servers -> Nat] /\ snapshot' \in [Servers -> Nat] /\ horizon' \in [Servers -> Nat]
  BY TypeFacts
<1>3. \A q \in Servers : maxSerial'[q] <= sequence'
  BY TypeFacts
<1>4. \A q \in Servers : snapshot'[q] <= created'
  <2>1. PICK n \in Nat : n <= created' /\ snapshot' = [snapshot EXCEPT ![p] = n]
    OBVIOUS
  <2> QED
    BY <2>1, TypeFacts
<1>5. status' # None => status' \in StatusType
  BY TypeFacts
<1>6. status' = None => \A q \in Servers : pc'[q] \in {"idle", "start"}
  <2>1. status' = None => status = None
    BY StatusAssumption
  <2>2. status = None => \A q \in Servers : pc[q] \in {"idle", "start"}
    BY DEF TypeInv
  <2> QED
    BY <2>1, <2>2, TypeFacts
<1>7. TypeOK'
  <2>1. /\ rows' \in [Objects -> Texts \union {None}] /\ journal' \subseteq Entry
        /\ sequence' \in Nat /\ aged' \in Nat /\ reloads' \in Nat
    BY TypeFacts
  <2> QED
    BY <1>1, <1>2, <1>5, <2>1 DEF TypeOK, Places
<1>8. \A e \in journal' : e.glob <= sequence'
  BY TypeFacts
<1> QED
  BY <1>3, <1>4, <1>6, <1>7, <1>8 DEF TypeInv

\* What a step of a run may leave as it is.
LEMMA Unmoved ==
    ASSUME TypeInv, NEW p \in Servers
    PROVE  /\ local = [local EXCEPT ![p] = local[p]] /\ local[p] \in StatusType
           /\ \E n \in Nat : n <= sequence /\ maxSerial = [maxSerial EXCEPT ![p] = n]
           /\ \E n \in Nat : n <= created /\ snapshot = [snapshot EXCEPT ![p] = n]
           /\ \E n \in Nat : horizon = [horizon EXCEPT ![p] = n]
           /\ initialising \in [Servers -> BOOLEAN]
           /\ statusLock \in Servers \union {None} /\ snapshotLock \in Servers \union {None}
           /\ sequence \in Nat /\ created \in Nat /\ sessions \in Nat /\ crashes \in Nat
           /\ created <= created
<1>1. maxSerial = [maxSerial EXCEPT ![p] = maxSerial[p]] /\ maxSerial[p] \in Nat
  BY TypeFacts
<1>2. snapshot = [snapshot EXCEPT ![p] = snapshot[p]] /\ snapshot[p] \in Nat
  BY TypeFacts
<1>3. horizon = [horizon EXCEPT ![p] = horizon[p]] /\ horizon[p] \in Nat
  BY TypeFacts
<1>4. statusLock \in Servers \union {None} /\ snapshotLock \in Servers \union {None}
  BY DEF TypeInv, TypeOK
<1>5. \E n \in Nat : n <= sequence /\ maxSerial = [maxSerial EXCEPT ![p] = n]
  BY <1>1, TypeFacts
<1>6. \E n \in Nat : n <= created /\ snapshot = [snapshot EXCEPT ![p] = n]
  BY <1>2, TypeFacts
<1>7. \E n \in Nat : horizon = [horizon EXCEPT ![p] = n]
  BY <1>3
<1> QED
  BY <1>4, <1>5, <1>6, <1>7, TypeFacts

\* The end of a run.
LEMMA EndTyped ==
    ASSUME TypeInv, NEW p \in Servers, EndRun(p),
           rows' = rows, journal' = journal, sequence' = sequence, created' = created,
           aged' = aged, reloads' = reloads, sessions' = sessions, crashes' \in Nat,
           status' = status \/ status' \in StatusType
    PROVE  TypeInv'
<1>1. "idle" \in Places /\ EmptyStatus \in StatusType /\ 0 \in Nat
  BY EmptyFields DEF Places
<1>2. /\ pc' = [pc EXCEPT ![p] = "idle"] /\ local' = [local EXCEPT ![p] = EmptyStatus]
      /\ maxSerial' = [maxSerial EXCEPT ![p] = 0] /\ horizon' = [horizon EXCEPT ![p] = 0]
      /\ snapshot' = [snapshot EXCEPT ![p] = 0]
      /\ initialising' = [initialising EXCEPT ![p] = FALSE]
  BY DEF EndRun
<1>3. /\ statusLock' \in Servers \union {None} /\ snapshotLock' \in Servers \union {None}
      /\ initialising' \in [Servers -> BOOLEAN]
      /\ created' \in Nat /\ created <= created' /\ sessions' \in Nat
  BY <1>2, Unmoved DEF EndRun
<1>4. /\ \E n \in Nat : n <= sequence /\ maxSerial' = [maxSerial EXCEPT ![p] = n]
      /\ \E n \in Nat : n <= created' /\ snapshot' = [snapshot EXCEPT ![p] = n]
      /\ \E n \in Nat : horizon' = [horizon EXCEPT ![p] = n]
  <2>1. 0 <= sequence /\ 0 <= created'
    BY TypeFacts
  <2> QED
    BY <1>2, <2>1
<1> QED
  BY <1>1, <1>2, <1>3, <1>4, RunTyped

\* _write_delta()
LEMMA WriteDeltaTyped ==
    ASSUME TypeInv, NEW p \in Servers, WriteDelta(p)
    PROVE  /\ TypeInv'
           /\ \/ /\ DeltaEntries(local[p]) = {} /\ local' = local
                 /\ deltaFiles' = deltaFiles /\ created' = created
              \/ /\ DeltaEntries(local[p]) # {} /\ created' = created + 1
                 /\ deltaFiles' = deltaFiles \union
                      {[file |-> created + 1, session |-> local[p].session,
                        version |-> local[p].version + 1, entries |-> DeltaEntries(local[p])]}
                 /\ local'[p] = [local[p] EXCEPT !.version = local[p].version + 1,
                      !.deltas = local[p].deltas \union
                         {[version |-> local[p].version + 1, file |-> created + 1, end |-> maxSerial[p]]}]
<1> DEFINE new == [version |-> local[p].version + 1, file |-> created + 1, end |-> maxSerial[p]]
<1>1. /\ pc[p] = "delta" /\ pc' = [pc EXCEPT ![p] = "expire"]
      /\ UNCHANGED <<databaseVars, unf, snapshotFiles, statusLock, snapshotLock, maxSerial,
                       horizon, initialising, snapshot, boundVars>>
  BY DEF WriteDelta
<1>2. "expire" \in Places /\ status # None
  BY <1>1 DEF Places, TypeInv
<1>3. local[p] \in StatusType /\ local[p].version \in Nat /\ local[p].deltas \subseteq DeltaRef
  BY TypeFacts, StatusFields
<1>4. new \in DeltaRef
  BY <1>3, TypeFacts DEF DeltaRef
<1>5. CASE DeltaEntries(local[p]) = {}
  <2>1. local' = local /\ deltaFiles' = deltaFiles /\ created' = created
    BY <1>5 DEF WriteDelta
  <2>2. TypeInv'
    <3>1. /\ rows' = rows /\ journal' = journal /\ sequence' = sequence /\ aged' = aged
          /\ reloads' = reloads /\ sessions' = sessions /\ crashes' = crashes
          /\ status' = status /\ statusLock' = statusLock /\ snapshotLock' = snapshotLock
          /\ initialising' = initialising /\ maxSerial' = maxSerial /\ snapshot' = snapshot
          /\ horizon' = horizon
      BY <1>1 DEF databaseVars, boundVars
    <3>2. local' = [local EXCEPT ![p] = local[p]]
      BY <2>1, Unmoved
    <3>3. /\ created' \in Nat /\ created <= created' /\ sessions' \in Nat /\ crashes' \in Nat
          /\ statusLock' \in Servers \union {None} /\ snapshotLock' \in Servers \union {None}
          /\ initialising' \in [Servers -> BOOLEAN]
      BY <2>1, <3>1, Unmoved
    <3>4. /\ \E n \in Nat : n <= sequence /\ maxSerial' = [maxSerial EXCEPT ![p] = n]
          /\ \E n \in Nat : n <= created' /\ snapshot' = [snapshot EXCEPT ![p] = n]
          /\ \E n \in Nat : horizon' = [horizon EXCEPT ![p] = n]
      BY <2>1, <3>1, Unmoved
    <3> QED
      BY <1>1, <1>2, <1>3, <3>1, <3>2, <3>3, <3>4, RunTyped
  <2> QED
    BY <1>5, <2>1, <2>2
<1>6. CASE DeltaEntries(local[p]) # {}
  <2>1. local' = [local EXCEPT ![p].version = local[p].version + 1, ![p].deltas = @ \union {new}]
    BY <1>6 DEF WriteDelta
  <2>2. local' = [local EXCEPT ![p] = [local[p] EXCEPT !.version = local[p].version + 1,
                                          !.deltas = local[p].deltas \union {new}]]
    <3>1. local \in [Servers -> StatusType]
      BY TypeFacts
    <3>2. local[p] = [force |-> local[p].force, session |-> local[p].session,
                      version |-> local[p].version, snapVersion |-> local[p].snapVersion,
                      snapSerial |-> local[p].snapSerial, snapFile |-> local[p].snapFile,
                      deltas |-> local[p].deltas]
      BY <1>3, StatusFields
    <3> HIDE DEF new
    <3> QED
      BY <2>1, <3>1, <3>2
  <2>3. [local[p] EXCEPT !.version = local[p].version + 1,
                         !.deltas = local[p].deltas \union {new}] \in StatusType
    <3>1. local[p].version + 1 \in Nat /\ local[p].deltas \union {new} \in SUBSET DeltaRef
      BY <1>3, <1>4
    <3> HIDE DEF new
    <3> QED
      BY <1>3, <3>1, WithDeltas DEF AsVersion
  <2>4. local'[p] = [local[p] EXCEPT !.version = local[p].version + 1,
                                     !.deltas = local[p].deltas \union {new}]
    <3>1. DOMAIN local = Servers
      BY TypeFacts
    <3> HIDE DEF new
    <3> QED
      BY <2>2, <3>1
  <2>5. created' = created + 1 /\ created' \in Nat /\ created <= created'
    BY <1>6, TypeFacts DEF WriteDelta
  <2>6. /\ \E n \in Nat : n <= sequence /\ maxSerial' = [maxSerial EXCEPT ![p] = n]
        /\ \E n \in Nat : n <= created' /\ snapshot' = [snapshot EXCEPT ![p] = n]
        /\ \E n \in Nat : horizon' = [horizon EXCEPT ![p] = n]
    <3>1. \A n \in Nat : n <= created => n <= created'
      BY <2>5, TypeFacts
    <3> QED
      BY <1>1, <3>1, Unmoved
  <2>7. TypeInv'
    <3>1. /\ rows' = rows /\ journal' = journal /\ sequence' = sequence /\ aged' = aged
          /\ reloads' = reloads /\ sessions' \in Nat /\ crashes' \in Nat /\ status' = status
          /\ statusLock' \in Servers \union {None} /\ snapshotLock' \in Servers \union {None}
          /\ initialising' \in [Servers -> BOOLEAN]
      BY <1>1, Unmoved DEF databaseVars, boundVars
    <3> HIDE DEF new
    <3> QED
      BY <1>1, <1>2, <2>2, <2>3, <2>5, <2>6, <3>1, RunTyped
  <2>8. deltaFiles' = deltaFiles \union
                      {[file |-> created + 1, session |-> local[p].session,
                        version |-> local[p].version + 1, entries |-> DeltaEntries(local[p])]}
    BY <1>6 DEF WriteDelta
  <2> QED
    BY <1>6, <2>4, <2>5, <2>7, <2>8
<1> QED
  BY <1>5, <1>6

\* _write_snapshot()
LEMMA WriteSnapshotTyped ==
    ASSUME TypeInv, NEW p \in Servers, WriteSnapshot(p)
    PROVE  TypeInv'
<1>1. /\ pc[p] = "snapshot"
      /\ rows' = rows /\ journal' = journal /\ sequence' = sequence /\ aged' = aged
      /\ reloads' = reloads /\ sessions' = sessions /\ crashes' = crashes
      /\ status' = status /\ statusLock' = statusLock /\ snapshotLock' = snapshotLock
      /\ initialising' = initialising /\ maxSerial' = maxSerial /\ horizon' = horizon
      /\ created' = created + 1 /\ snapshot' = [snapshot EXCEPT ![p] = created + 1]
  BY DEF WriteSnapshot, databaseVars, boundVars
<1>2. status # None /\ "expire" \in Places /\ "relock" \in Places
  BY <1>1 DEF Places, TypeInv
<1>3. created' \in Nat /\ created <= created'
  BY <1>1, TypeFacts
<1>4. \E x \in Places, st \in StatusType : pc' = [pc EXCEPT ![p] = x] /\ local' = [local EXCEPT ![p] = st]
  <2>1. CASE initialising[p]
    <3>1. pc' = [pc EXCEPT ![p] = "expire"] /\ local' = [local EXCEPT ![p] = WithSnapshot(p, local[p], created + 1)]
      BY <2>1 DEF WriteSnapshot
    <3>2. local[p] \in StatusType /\ local[p].version \in Nat /\ maxSerial[p] \in Nat /\ created + 1 \in Nat
      BY TypeFacts, StatusFields
    <3>3. WithSnapshot(p, local[p], created + 1) \in StatusType
      BY <3>2, WithSnapshotFields DEF WithSnapshot, AsSnapshot
    <3> QED
      BY <1>2, <3>1, <3>3
  <2>2. CASE ~initialising[p]
    <3>1. pc' = [pc EXCEPT ![p] = "relock"] /\ local' = local
      BY <2>2 DEF WriteSnapshot
    <3> QED
      BY <1>2, <3>1, Unmoved
  <2> QED
    BY <2>1, <2>2
<1>5. PICK x \in Places, st \in StatusType : pc' = [pc EXCEPT ![p] = x] /\ local' = [local EXCEPT ![p] = st]
  BY <1>4
<1>6. /\ \E n \in Nat : n <= sequence /\ maxSerial' = [maxSerial EXCEPT ![p] = n]
      /\ \E n \in Nat : n <= created' /\ snapshot' = [snapshot EXCEPT ![p] = n]
      /\ \E n \in Nat : horizon' = [horizon EXCEPT ![p] = n]
  <2>1. \E n \in Nat : n <= created' /\ snapshot' = [snapshot EXCEPT ![p] = n]
    <3>1. created + 1 \in Nat /\ created + 1 <= created'
      BY <1>1, TypeFacts
    <3> QED
      BY <1>1, <3>1
  <2> QED
    BY <1>1, <2>1, Unmoved
<1>7. /\ statusLock' \in Servers \union {None} /\ snapshotLock' \in Servers \union {None}
      /\ initialising' \in [Servers -> BOOLEAN] /\ sessions' \in Nat /\ crashes' \in Nat
  BY <1>1, Unmoved
<1> QED
  BY <1>1, <1>2, <1>3, <1>5, <1>6, <1>7, RunTyped

\* The other steps that go on.
LEMMA StepTyped ==
    ASSUME TypeInv, NEW p \in Servers,
           \/ Start(p) \/ Initialise(p) \/ Resume(p) \/ ExpireDeltas(p) \/ WriteUnf(p)
           \/ ExpireSnapshots(p) \/ CommitDelta(p) \/ LockSnapshot(p) \/ Relock(p)
           \/ (SnapshotLocked(p) /\ statusLock = p)
    PROVE  TypeInv'
<1>1. /\ rows' = rows /\ journal' = journal /\ sequence' = sequence /\ aged' = aged
      /\ reloads' = reloads /\ crashes' = crashes /\ created' = created /\ snapshot' = snapshot
      /\ sessions' = sessions \/ sessions' = sessions + 1
  BY DEF Start, Initialise, Resume, ExpireDeltas, WriteUnf, ExpireSnapshots, CommitDelta,
         LockSnapshot, Relock, SnapshotLocked, databaseVars, diskVars, boundVars
<1>2. /\ horizon' = horizon \/ horizon' = [horizon EXCEPT ![p] = aged]
      /\ maxSerial' = maxSerial \/ maxSerial' = [maxSerial EXCEPT ![p] = MaxSerialGlobal]
      /\ initialising' = initialising \/ initialising' = [initialising EXCEPT ![p] = TRUE]
      /\ statusLock' \in {statusLock, p, None} /\ snapshotLock' \in {snapshotLock, p}
  BY DEF Start, Initialise, Resume, Locked, ExpireDeltas, WriteUnf, ExpireSnapshots, CommitDelta,
         LockSnapshot, Relock, SnapshotLocked
<1>3. status' = status \/ (local' = local /\ status' = [local[p] EXCEPT !.force = FALSE])
  BY DEF Start, Initialise, Resume, ExpireDeltas, WriteUnf, ExpireSnapshots, CommitDelta, Record,
         LockSnapshot, Relock, SnapshotLocked, databaseVars
<1>4. local[p] \in StatusType /\ local[p].deltas \subseteq DeltaRef /\ local[p].version \in Nat
      /\ snapshot[p] \in Nat /\ maxSerial[p] \in Nat
  BY TypeFacts, StatusFields
<1>5. status' = status \/ status' \in StatusType
  BY <1>3, <1>4, WithForce DEF AsForced
<1>6. PICK x \in Places : pc' = [pc EXCEPT ![p] = x] /\ (x = "start" \/ status # None)
  <2>1. pc[p] \notin {"idle", "start"} => status # None
    BY DEF TypeInv
  <2> QED
    BY <2>1 DEF Start, Initialise, Resume, Locked, ExpireDeltas, WriteUnf, ExpireSnapshots, CommitDelta,
         LockSnapshot, Relock, SnapshotLocked, Places
<1>7. \E st \in StatusType : local' = [local EXCEPT ![p] = st]
  <2>1. CASE local' = local
    BY <2>1, Unmoved
  <2>2. CASE Initialise(p)
    <3>1. status \in StatusType /\ sessions + 1 \in Nat
      BY <2>2, TypeFacts DEF Initialise, Locked
    <3>2. [status EXCEPT !.session = sessions + 1, !.version = 1,
                    !.snapVersion = 0, !.snapSerial = 0, !.deltas = {}] \in StatusType
      BY <3>1, WithSession DEF AsSession
    <3> QED
      BY <2>2, <3>2 DEF Initialise
  <2>3. CASE Resume(p)
    BY <2>3, TypeFacts DEF Resume, Locked
  <2>4. CASE ExpireDeltas(p)
    <3>1. PICK kept \in SUBSET local[p].deltas : local' = [local EXCEPT ![p].deltas = kept]
      BY <2>4 DEF ExpireDeltas
    <3>2. [local[p] EXCEPT !.deltas = kept] \in StatusType
      BY <1>4, <3>1, WithKept DEF AsKept
    <3>3. local' = [local EXCEPT ![p] = [local[p] EXCEPT !.deltas = kept]]
      BY <3>1
    <3> QED
      BY <3>2, <3>3
  <2>5. CASE Relock(p)
    <3>1. status \in StatusType
      <4>1. status # None
        BY <2>5 DEF Relock, TypeInv
      <4> QED
        BY <4>1, TypeFacts
    <3>2. WithSnapshot(p, status, snapshot[p]) \in StatusType
      BY <1>4, <3>1, WithSnapshotFields DEF WithSnapshot, AsSnapshot
    <3> QED
      BY <2>5, <3>2 DEF Relock
  <2>6. local' = local \/ Initialise(p) \/ Resume(p) \/ ExpireDeltas(p) \/ Relock(p)
    BY DEF Start, WriteUnf, ExpireSnapshots, CommitDelta, LockSnapshot, SnapshotLocked
  <2> QED
    BY <2>1, <2>2, <2>3, <2>4, <2>5, <2>6
<1>8. PICK st \in StatusType : local' = [local EXCEPT ![p] = st]
  BY <1>7
<1>9. /\ statusLock' \in Servers \union {None} /\ snapshotLock' \in Servers \union {None}
      /\ initialising' \in [Servers -> BOOLEAN] /\ sessions' \in Nat /\ crashes' \in Nat
      /\ created' \in Nat /\ created <= created'
  <2>1. sessions' \in Nat /\ crashes' \in Nat /\ created' \in Nat /\ created <= created'
    BY <1>1, TypeFacts
  <2>2. initialising' \in [Servers -> BOOLEAN]
    BY <1>2, TypeFacts
  <2> QED
    BY <1>2, <2>1, <2>2, Unmoved
<1>10. /\ \E n \in Nat : n <= sequence /\ maxSerial' = [maxSerial EXCEPT ![p] = n]
       /\ \E n \in Nat : n <= created' /\ snapshot' = [snapshot EXCEPT ![p] = n]
       /\ \E n \in Nat : horizon' = [horizon EXCEPT ![p] = n]
  <2>1. MaxSerialGlobal \in Nat /\ MaxSerialGlobal <= sequence /\ aged \in Nat
    BY MaxSerialGlobalType, TypeFacts
  <2>2. \E n \in Nat : n <= sequence /\ maxSerial' = [maxSerial EXCEPT ![p] = n]
    BY <1>2, <2>1, Unmoved
  <2>3. \E n \in Nat : n <= created' /\ snapshot' = [snapshot EXCEPT ![p] = n]
    BY <1>1, Unmoved
  <2>4. \E n \in Nat : horizon' = [horizon EXCEPT ![p] = n]
    BY <1>2, <2>1, Unmoved
  <2> QED
    BY <2>2, <2>3, <2>4
<1> QED
  BY <1>1, <1>5, <1>6, <1>8, <1>9, <1>10, RunTyped

\* Every step of a run.
LEMMA RunTypes ==
    ASSUME TypeInv, NEW p \in Servers, Run(p) \/ Crash(p)
    PROVE  TypeInv'
<1>1. CASE WriteDelta(p)
  BY <1>1, WriteDeltaTyped
<1>2. CASE WriteSnapshot(p)
  BY <1>2, WriteSnapshotTyped
<1>3. CASE \/ Start(p) \/ Initialise(p) \/ Resume(p) \/ ExpireDeltas(p) \/ WriteUnf(p)
           \/ ExpireSnapshots(p) \/ CommitDelta(p) \/ LockSnapshot(p) \/ Relock(p)
           \/ (SnapshotLocked(p) /\ statusLock = p)
  BY <1>3, StepTyped
<1>4. CASE \/ Cancel(p) \/ Fail(p) \/ CommitSnapshot(p) \/ SkipSnapshot(p)
           \/ (SnapshotLocked(p) /\ statusLock # p) \/ Crash(p)
  <2>1. /\ EndRun(p) /\ rows' = rows /\ journal' = journal /\ sequence' = sequence
        /\ created' = created /\ aged' = aged /\ reloads' = reloads /\ sessions' = sessions
        /\ crashes' = crashes \/ crashes' = crashes + 1
        /\ status' = status \/ status' = [local[p] EXCEPT !.force = FALSE]
    BY <1>4 DEF Cancel, Fail, CommitSnapshot, Record, SkipSnapshot, SnapshotLocked, Crash,
       databaseVars, diskVars, boundVars
  <2>2. status' = status \/ status' \in StatusType
    BY <2>1, TypeFacts, WithForce DEF AsForced
  <2>3. crashes' \in Nat
    BY <2>1, TypeFacts
  <2> QED
    BY <2>1, <2>2, <2>3, EndTyped
<1> QED
  BY <1>1, <1>2, <1>3, <1>4 DEF Run

\* The other processes.
LEMMA EnvironmentTypes ==
    ASSUME TypeInv, Environment
    PROVE  TypeInv'
<1>1. /\ pc' = pc /\ local' = local /\ initialising' = initialising /\ maxSerial' = maxSerial
      /\ horizon' = horizon /\ snapshot' = snapshot /\ statusLock' = statusLock
      /\ snapshotLock' = snapshotLock /\ created' = created /\ sessions' = sessions
      /\ crashes' = crashes
  BY DEF Environment, Change, ChangeElsewhere, Reload, SetForceReload, DayPasses, databaseVars,
     diskVars, runVars, boundVars
<1>2. aged' \in {aged, created} /\ reloads' \in {reloads, reloads + 1}
  BY DEF Environment, Change, ChangeElsewhere, Reload, SetForceReload, DayPasses, boundVars
<1>3. rows' \in [Objects -> Texts \union {None}]
  BY TypeFacts DEF Environment, Change, ChangeElsewhere, Reload, SetForceReload, DayPasses, databaseVars
<1>4. \/ journal' \subseteq journal /\ sequence' = sequence
      \/ \E o \in Objects \union {None}, t \in Texts \union {None} :
            /\ journal' = journal \union {[glob |-> sequence + 1, obj |-> o, text |-> t]}
            /\ sequence' = sequence + 1
  BY DEF Environment, Change, ChangeElsewhere, Reload, Own, SetForceReload, DayPasses, databaseVars
<1>5. sequence' \in Nat /\ sequence <= sequence'
  BY <1>4, TypeFacts
<1>6. journal' \subseteq Entry /\ \A e \in journal' : e.glob <= sequence'
  <2>1. CASE journal' \subseteq journal /\ sequence' = sequence
    BY <2>1, TypeFacts
  <2>2. ASSUME NEW o \in Objects \union {None}, NEW t \in Texts \union {None},
               journal' = journal \union {[glob |-> sequence + 1, obj |-> o, text |-> t]},
               sequence' = sequence + 1
        PROVE  journal' \subseteq Entry /\ \A e \in journal' : e.glob <= sequence'
    <3>1. journal \subseteq Entry /\ sequence + 1 \in Nat
      BY TypeFacts
    <3>2. [glob |-> sequence + 1, obj |-> o, text |-> t] \in Entry
      BY <3>1 DEF Entry
    <3>3. \A e \in journal : e.glob <= sequence /\ e.glob \in Nat
      BY TypeFacts DEF Entry
    <3> QED
      BY <2>2, <3>1, <3>2, <3>3, TypeFacts
  <2> QED
    BY <1>4, <2>1, <2>2
<1>7. status' \in StatusType \/ status' = status
  <2>1. EmptyStatus \in StatusType
    BY EmptyFields
  <2>2. CASE SetForceReload
    BY <2>2, TypeFacts, WithForce DEF SetForceReload, AsForced
  <2>3. status' \in {status, EmptyStatus} \/ SetForceReload
    BY DEF Environment, Change, StatusKept, ChangeElsewhere, Reload, DayPasses, databaseVars
  <2> QED
    BY <2>1, <2>2, <2>3
<1>8. status' = None => \A p \in Servers : pc'[p] \in {"idle", "start"}
  BY <1>1, <1>7, StatusAssumption DEF TypeInv
<1>9. status' \in StatusType \union {None}
  BY <1>7, TypeFacts
<1>10. /\ {created', aged', sessions', crashes', reloads'} \subseteq Nat
       /\ \A p \in Servers : maxSerial'[p] <= sequence' /\ snapshot'[p] <= created'
  <2>1. created' \in Nat /\ aged' \in Nat /\ sessions' \in Nat /\ crashes' \in Nat /\ reloads' \in Nat
    BY <1>1, <1>2, TypeFacts
  <2>2. ASSUME NEW p \in Servers PROVE maxSerial'[p] <= sequence' /\ snapshot'[p] <= created'
    BY <1>1, <1>5, TypeFacts
  <2> QED
    BY <2>1, <2>2
<1>11. {statusLock', snapshotLock'} \subseteq Servers \union {None}
  BY <1>1 DEF TypeInv, TypeOK
<1>12. TypeOK'
  <2>1. /\ pc' \in [Servers -> Places] /\ local' \in [Servers -> StatusType]
        /\ initialising' \in [Servers -> BOOLEAN] /\ maxSerial' \in [Servers -> Nat]
        /\ horizon' \in [Servers -> Nat] /\ snapshot' \in [Servers -> Nat]
    BY <1>1, TypeFacts
  <2> QED
    BY <1>3, <1>5, <1>6, <1>9, <1>10, <1>11, <2>1 DEF TypeOK, Places
<1> QED
  BY <1>6, <1>8, <1>10, <1>12 DEF TypeInv

\* A step that changes nothing the server works with.
LEMMA UntouchedTypes ==
    ASSUME TypeInv, UNCHANGED <<databaseVars, created, statusLock, snapshotLock, runVars>>,
           UNCHANGED <<aged, sessions, reloads, overtaken>>, crashes' \in Nat
    PROVE  TypeInv'
<1>1. /\ pc' = pc /\ local' = local /\ initialising' = initialising /\ maxSerial' = maxSerial
      /\ horizon' = horizon /\ snapshot' = snapshot /\ rows' = rows /\ journal' = journal
      /\ sequence' = sequence /\ status' = status
  BY DEF databaseVars, runVars
<1>2. TypeOK'
  BY <1>1 DEF TypeInv, TypeOK
<1> QED
  BY <1>1, <1>2 DEF TypeInv

\* Every step.
LEMMA TypesNext == TypeInv /\ scenario \in DOMAIN Setup /\ [MirrorNext]_<<scenario, mirrorVars>> => TypeInv'
<1> SUFFICES ASSUME TypeInv, scenario \in DOMAIN Setup, [MirrorNext]_<<scenario, mirrorVars>>
             PROVE  TypeInv'
  OBVIOUS
<1>1. CASE UNCHANGED <<scenario, mirrorVars>> \/ ClientStep \/ ClientForceReload \/ ClientAbort
  <2>1. /\ UNCHANGED <<databaseVars, created, statusLock, snapshotLock, runVars>>
        /\ UNCHANGED <<aged, sessions, reloads, overtaken>>
        /\ crashes' = crashes \/ crashes' = crashes + 1
    BY <1>1 DEF mirrorVars, serverVars, diskVars, boundVars, ClientStep, ClientForceReload,
       ClientAbort, OnServer
  <2>2. crashes' \in Nat
    BY <2>1, TypeFacts
  <2> QED
    BY <2>1, <2>2, UntouchedTypes
<1>2. CASE Environment
  BY <1>2, EnvironmentTypes
<1>3. ASSUME NEW p \in Setup[scenario].servers, Run(p) \/ Crash(p)
      PROVE  TypeInv'
  <2>1. p \in Servers
    BY SetupAssumption
  <2> QED
    BY <1>3, <2>1, RunTypes
<1> QED
  BY <1>1, <1>2, <1>3 DEF MirrorNext, ServerStep, Next

\* The types hold at the start.
LEMMA TypesInit == Init => TypeInv
<1> SUFFICES ASSUME Init PROVE TypeInv
  OBVIOUS
<1>1. \A p \in Servers : maxSerial[p] = 0 /\ snapshot[p] = 0 /\ pc[p] = "idle"
  BY DEF Init
<1>2. rows \in [Objects -> Texts \union {None}] /\ journal = {} /\ sequence = 0 /\ created = 0
  BY DEF Init
<1>3. local \in [Servers -> StatusType]
  BY EmptyFields DEF Init
<1>4. TypeOK
  BY <1>2, <1>3 DEF Init, TypeOK
<1> QED
  BY <1>1, <1>2, <1>4 DEF TypeInv

-----------------------------------------------------------------------------
(* The other processes *)

\* Nothing of a run changes.
LEMMA RunsUntouched ==
    ASSUME ShapeInv, LockInv, scenario' = scenario, pc' = pc, local' = local,
           initialising' = initialising, unf' = unf, sessions' = sessions, crashes' \in Nat,
           statusLock' = statusLock, snapshotLock' = snapshotLock, overtaken' \in BOOLEAN,
           status' = status \/ (Shaped(status') /\ status'.session <= sessions)
    PROVE  ShapeInv' /\ LockInv'
<1>1. StatusOK \/ status' # status => StatusOK'
  BY DEF StatusOK, Shaped
<1>2. \A q \in Servers : Shaped(local[q])' /\ (local[q].session <= sessions)'
  BY DEF ShapeInv, Shaped
<1>3. (status # None => StatusOK)'
  BY <1>1 DEF ShapeInv
<1>4. \A q \in Servers : (pc[q] \notin {"idle", "start"} => StatusOK)'
  BY <1>1 DEF ShapeInv
<1>5. (unf # None => /\ unf.session \in Nat \ {0} /\ unf.version \in Nat
                     /\ unf.session <= sessions)'
  BY DEF ShapeInv
<1>6. ShapeInv'
  BY <1>2, <1>3, <1>4, <1>5 DEF ShapeInv
<1>7. LockInv'
  BY DEF LockInv, LockOK, Holds
<1> QED
  BY <1>6, <1>7

\* More entries in the journal, and a flag in the status row, change no version.
LEMMA JournalGrows ==
    ASSUME ShapeInv, VersionInv, pc' = pc, local' = local, initialising' = initialising,
           unf' = unf, overtaken' = overtaken, journal \subseteq journal',
           \/ status' = status
           \/ /\ Shaped(status) /\ status'.session = status.session
              /\ status'.version = status.version /\ status'.deltas = status.deltas
              /\ status'.snapSerial = status.snapSerial
    PROVE  VersionInv'
<1> SUFFICES ASSUME ~overtaken PROVE AheadOK' /\ \A q \in Servers : RunOK(q)'
  BY DEF VersionInv
<1>1. AheadOK /\ \A q \in Servers : RunOK(q)
  BY DEF VersionInv
<1>2. /\ status'.session = status.session /\ status'.version = status.version
      /\ status'.deltas = status.deltas /\ status'.snapSerial = status.snapSerial
  OBVIOUS
<1>3. DeltaEntries(status) \subseteq DeltaEntries(status)'
  <2>1. DeltaStart(status)' = DeltaStart(status)
    BY <1>2 DEF DeltaStart
  <2> QED
    BY <2>1 DEF DeltaEntries, Own
<1>4. Ahead' => Ahead
  BY <1>2 DEF Ahead, Shaped
<1>5. AheadOK'
  BY <1>1, <1>2, <1>3, <1>4 DEF AheadOK
<1>6. ASSUME NEW q \in Servers PROVE RunOK(q)'
  <2>1. RunOK(q)
    BY <1>1
  <2>2. FromStatus(local[q])' <=> FromStatus(local[q])
    BY <1>2 DEF FromStatus
  <2> QED
    BY <1>2, <1>3, <1>4, <2>1, <2>2 DEF RunOK
<1> QED
  BY <1>5, <1>6

\* While no run has read the status, the row may be made anew.
LEMMA RowMade ==
    ASSUME ShapeInv, LockInv, VersionInv, pc' = pc, initialising' = initialising, unf' = unf,
           \A q \in Servers : pc[q] \in {"idle", "start"}, status' = EmptyStatus
    PROVE  VersionInv'
<1>1. \A q \in Servers : ~initialising[q]
  BY DEF LockInv, LockOK
<1>2. \A q \in Servers : RunOK(q)'
  BY <1>1, IdleOK
<1>3. ~ Ahead'
  BY EmptyShaped DEF Ahead, ShapeInv
<1> QED
  BY <1>2, <1>3 DEF VersionInv, AheadOK

\* What other processes do to the database.
LEMMA EnvironmentKeeps ==
    ASSUME ShapeInv, LockInv, Environment, scenario' = scenario
    PROVE  /\ ShapeInv' /\ LockInv' /\ (TypeInv /\ VersionInv => VersionInv')
           /\ unf' = unf
<1>1. /\ pc' = pc /\ local' = local /\ initialising' = initialising /\ unf' = unf
      /\ sessions' = sessions /\ crashes' = crashes /\ statusLock' = statusLock
      /\ snapshotLock' = snapshotLock
  BY DEF Environment, Change, ChangeElsewhere, Reload, SetForceReload, DayPasses,
         databaseVars, diskVars, runVars, boundVars
<1>2. sessions \in Nat /\ overtaken \in BOOLEAN /\ crashes' \in Nat
  BY <1>1 DEF ShapeInv
<1>3. Shaped(EmptyStatus) /\ EmptyStatus.session <= sessions
  BY <1>2, EmptyShaped
<1>4. ASSUME NEW o \in Objects, NEW t \in Texts \union {None}, Change(o, t)
      PROVE  ShapeInv' /\ LockInv' /\ (TypeInv /\ VersionInv => VersionInv')
  <2>1. /\ overtaken' = overtaken /\ journal \subseteq journal'
        /\ status' = IF status = None THEN EmptyStatus ELSE status
    BY <1>4 DEF Change, StatusKept, boundVars
  <2>2. ShapeInv' /\ LockInv'
    BY <1>1, <1>2, <1>3, <2>1, RunsUntouched
  <2>3. ASSUME TypeInv, VersionInv PROVE VersionInv'
    <3>1. CASE status = None
      <4>1. \A q \in Servers : pc[q] \in {"idle", "start"}
        BY <2>3, <3>1 DEF TypeInv
      <4> QED
        BY <1>1, <2>1, <2>3, <3>1, <4>1, RowMade
    <3>2. CASE status # None
      BY <1>1, <2>1, <2>3, <3>2, JournalGrows
    <3> QED
      BY <3>1, <3>2
  <2> QED
    BY <2>2, <2>3
<1>5. ASSUME ChangeElsewhere \/ DayPasses
      PROVE  ShapeInv' /\ LockInv' /\ (TypeInv /\ VersionInv => VersionInv')
  <2>1. overtaken' = overtaken /\ journal \subseteq journal' /\ status' = status
    BY <1>5 DEF ChangeElsewhere, DayPasses, boundVars, databaseVars
  <2>2. ShapeInv' /\ LockInv'
    BY <1>1, <1>2, <2>1, RunsUntouched
  <2> QED
    BY <1>1, <2>1, <2>2, JournalGrows
<1>6. ASSUME SetForceReload
      PROVE  ShapeInv' /\ LockInv' /\ (TypeInv /\ VersionInv => VersionInv')
  <2>1. /\ overtaken' = overtaken /\ journal \subseteq journal' /\ status # None
        /\ status' = [status EXCEPT !.force = TRUE]
    BY <1>6 DEF SetForceReload, boundVars
  <2>2. Shaped(status) /\ status.session <= sessions
    BY <2>1 DEF ShapeInv, StatusOK
  <2>3. /\ Shaped(status') /\ status'.session = status.session
        /\ status'.version = status.version /\ status'.deltas = status.deltas
        /\ status'.snapSerial = status.snapSerial
    BY <2>1, <2>2, ForceChanged
  <2>4. ShapeInv' /\ LockInv'
    BY <1>1, <1>2, <2>1, <2>2, <2>3, RunsUntouched
  <2> QED
    BY <1>1, <2>1, <2>2, <2>3, <2>4, JournalGrows
<1>7. ASSUME NEW objects \in [Objects -> Texts \union {None}], Reload(objects)
      PROVE  ShapeInv' /\ LockInv' /\ (TypeInv /\ VersionInv => VersionInv')
  <2>1. /\ overtaken' = (overtaken \/ \E p \in Servers : pc[p] # "idle")
        /\ status' = EmptyStatus
    BY <1>7 DEF Reload
  <2>2. overtaken' \in BOOLEAN
    BY <1>2, <2>1
  <2>3. ShapeInv' /\ LockInv'
    BY <1>1, <1>2, <1>3, <2>1, <2>2, RunsUntouched
  <2>4. ASSUME VersionInv PROVE VersionInv'
    <3>1. CASE overtaken'
      BY <3>1 DEF VersionInv
    <3>2. CASE ~overtaken'
      <4>1. \A q \in Servers : pc[q] \in {"idle", "start"}
        BY <2>1, <3>2
      <4> QED
        BY <1>1, <2>1, <2>4, <4>1, RowMade
    <3> QED
      BY <3>1, <3>2
  <2> QED
    BY <2>3, <2>4
<1> QED
  BY <1>1, <1>4, <1>5, <1>6, <1>7 DEF Environment

-----------------------------------------------------------------------------
(* Theorems *)

\* The steps of one run.
LEMMA RunKeeps ==
    ASSUME ShapeInv, LockInv, NEW p \in Setup[scenario].servers, p \in Servers, Run(p),
           scenario' = scenario
    PROVE  /\ ShapeInv' /\ LockInv' /\ (VersionInv => VersionInv')
           /\ VersionInv => (unf' = unf \/ NotBack)
<1>1. CASE WriteUnf(p)
  BY <1>1, WriteUnfKeeps DEF NotBack
<1>2. CASE \/ Start(p) \/ Cancel(p) \/ Initialise(p) \/ Resume(p) \/ WriteDelta(p)
           \/ ExpireDeltas(p) \/ Fail(p) \/ ExpireSnapshots(p) \/ CommitDelta(p)
           \/ CommitSnapshot(p) \/ SkipSnapshot(p) \/ LockSnapshot(p) \/ SnapshotLocked(p)
           \/ WriteSnapshot(p) \/ Relock(p)
  <2>1. ShapeInv' /\ LockInv' /\ (VersionInv => VersionInv')
    <3>1. CASE Start(p)
      BY <3>1, StartKeeps
    <3>2. CASE Initialise(p)
      BY <3>2, InitialiseKeeps
    <3>3. CASE Resume(p)
      BY <3>3, ResumeKeeps
    <3>4. CASE WriteDelta(p)
      BY <3>4, WriteDeltaKeeps
    <3>5. CASE ExpireDeltas(p)
      BY <3>5, ExpireDeltasKeeps
    <3>6. CASE ExpireSnapshots(p)
      BY <3>6, ExpireSnapshotsKeeps
    <3>7. CASE CommitDelta(p)
      BY <3>7, CommitDeltaKeeps
    <3>8. CASE CommitSnapshot(p)
      BY <3>8, CommitSnapshotKeeps
    <3>9. CASE LockSnapshot(p)
      BY <3>9, LockSnapshotKeeps
    <3>10. CASE WriteSnapshot(p)
      BY <3>10, WriteSnapshotKeeps
    <3>11. CASE Relock(p)
      BY <3>11, RelockKeeps
    <3>12. CASE SnapshotLocked(p) /\ statusLock = p
      BY <3>12, SnapshotLockedKeeps
    <3>13. CASE Cancel(p) \/ Fail(p) \/ SkipSnapshot(p) \/ (SnapshotLocked(p) /\ statusLock # p)
      BY <3>13, EndsKeep
    <3> QED
      BY <1>2, <3>1, <3>2, <3>3, <3>4, <3>5, <3>6, <3>7, <3>8, <3>9, <3>10, <3>11, <3>12, <3>13
  <2>2. unf' = unf
    BY <1>2 DEF Start, Cancel, Initialise, Resume, WriteDelta, ExpireDeltas, Fail,
       ExpireSnapshots, CommitDelta, CommitSnapshot, SkipSnapshot, LockSnapshot,
       SnapshotLocked, WriteSnapshot, Relock, diskVars
  <2> QED
    BY <2>1, <2>2
<1> QED
  BY <1>1, <1>2 DEF Run

\* A step that changes nothing the server works with.
LEMMA ServerUntouched ==
    ASSUME ShapeInv, LockInv, scenario' = scenario, UNCHANGED <<databaseVars, unf, runVars>>,
           UNCHANGED <<statusLock, snapshotLock, sessions, overtaken>>, crashes' \in Nat
    PROVE  ShapeInv' /\ LockInv' /\ (VersionInv => VersionInv')
<1>1. /\ pc' = pc /\ local' = local /\ initialising' = initialising /\ unf' = unf
      /\ status' = status /\ journal' = journal /\ overtaken' \in BOOLEAN
  BY DEF databaseVars, runVars, ShapeInv
<1>2. ShapeInv' /\ LockInv'
  BY <1>1, RunsUntouched
<1>3. VersionInv => VersionInv'
  BY <1>1, JournalGrows
<1> QED
  BY <1>2, <1>3

\* Every step.
LEMMA ServerNext ==
    ASSUME ShapeInv, LockInv, [MirrorNext]_<<scenario, mirrorVars>>
    PROVE  /\ ShapeInv' /\ LockInv'
           /\ TypeInv /\ Undisturbed /\ VersionInv => VersionInv' /\ (unf' = unf \/ NotBack)
<1>1. ASSUME UNCHANGED <<scenario, mirrorVars>> \/ ClientStep \/ ClientForceReload \/ ClientAbort
      PROVE  ShapeInv' /\ LockInv' /\ (VersionInv => VersionInv') /\ unf' = unf
  <2>1. /\ scenario' = scenario /\ UNCHANGED <<databaseVars, unf, runVars>>
        /\ UNCHANGED <<statusLock, snapshotLock, sessions, overtaken>>
        /\ crashes' = crashes \/ crashes' = crashes + 1
    BY <1>1 DEF mirrorVars, serverVars, diskVars, boundVars, ClientStep, ClientForceReload,
       ClientAbort, OnServer, Client!ClientRun, Client!RetrieveUnf, Client!LoadSnapshot,
       Client!LoadDelta, Client!Finish, Client!Refuse, Client!ForceReload, Client!Abort, Client!files
  <2>2. crashes' \in Nat
    BY <2>1 DEF ShapeInv
  <2> QED
    BY <2>1, <2>2, ServerUntouched
<1>2. CASE Environment /\ UNCHANGED scenario
  BY <1>2, EnvironmentKeeps
<1>3. ASSUME NEW p \in Setup[scenario].servers, (Run(p) \/ Crash(p)) /\ UNCHANGED scenario
      PROVE  /\ ShapeInv' /\ LockInv'
             /\ Undisturbed /\ VersionInv => VersionInv' /\ (unf' = unf \/ NotBack)
  <2>1. scenario \in DOMAIN Setup /\ p \in Servers
    BY SetupAssumption DEF ShapeInv
  <2>2. CASE Run(p)
    BY <1>3, <2>1, <2>2, RunKeeps
  <2>3. CASE Crash(p)
    <3>1. /\ ShapeInv' /\ LockInv'
          /\ VersionInv /\ (\A q \in Servers : q # p => pc[q] = "idle") => VersionInv'
      BY <1>3, <2>1, <2>3, CrashKeeps
    <3>2. unf' = unf /\ crashes < Setup[scenario].crashes
      BY <2>3 DEF Crash, diskVars, MaxCrashes
    <3>3. ASSUME Undisturbed PROVE \A q \in Servers : q # p => pc[q] = "idle"
      <4>1. Setup[scenario].crashes # 0
        BY <2>1, <3>2, SetupAssumption DEF ShapeInv
      <4>2. \A q \in Setup[scenario].servers : p = q
        BY <2>1, <3>3, <4>1 DEF Undisturbed
      <4> QED
        BY <4>2 DEF LockInv, LockOK
    <3> QED
      BY <3>1, <3>2, <3>3
  <2> QED
    BY <1>3, <2>2, <2>3
<1> QED
  BY <1>1, <1>2, <1>3 DEF MirrorNext, ServerStep, Next

\* The lock files keep the runs of all servers apart, with any number of early ends
\* and reloads: whoever has read the status and not committed has the status lock, and
\* nobody else; a new session is not published without a snapshot
\* (nrtm4_server.py 109-117, 186-221).
THEOREM LocksHeld == MirrorSpec => [](ShapeInv /\ LockInv)
<1>1. MirrorInit => ShapeInv /\ LockInv
  BY ServerInit DEF MirrorInit
<1>2. ShapeInv /\ LockInv /\ [MirrorNext]_<<scenario, mirrorVars>> => ShapeInv' /\ LockInv'
  BY ServerNext
<1> QED
  BY <1>1, <1>2, PTL DEF MirrorSpec

\* The version of a session does not go back in the update notification file
\* (nrtm4_server.py 109-266), for any number of servers that overlap, objects,
\* changes, reloads, outages and forced reloads, if no run ends early; and with one
\* server wherever its runs end.
THEOREM VersionsAdvance ==
    ASSUME Undisturbed
    PROVE  MirrorSpec => VersionAdvances
<1>1. MirrorInit => TypeInv /\ ShapeInv /\ LockInv /\ VersionInv
  BY ServerInit, TypesInit DEF MirrorInit
<1>2. TypeInv /\ ShapeInv /\ LockInv /\ VersionInv /\ [MirrorNext]_<<scenario, mirrorVars>> =>
          TypeInv' /\ ShapeInv' /\ LockInv' /\ VersionInv'
  BY ServerNext, TypesNext DEF ShapeInv
<1>3. TypeInv /\ ShapeInv /\ LockInv /\ VersionInv /\ [MirrorNext]_<<scenario, mirrorVars>> =>
          [unf # None /\ unf'.session = unf.session /\ ~overtaken => unf'.version >= unf.version]_unf
  BY ServerNext DEF NotBack
<1> QED
  BY <1>1, <1>2, <1>3, PTL DEF MirrorSpec, VersionAdvances

-----------------------------------------------------------------------------
(* Nothing is lost: the database and the files *)

\* The newest delta is that of the version of the status, and the next one starts
\* with a serial that has been given out or is the next.
LEMMA StartBounds ==
    ASSUME NEW st, NEW w, RefsOK(st, w), WorldOK(w)
    PROVE  /\ DeltaStart(st) \in Nat /\ DeltaStart(st) <= w.sequence + 1
           /\ st.deltas = {} => DeltaStart(st) = st.snapSerial + 1
           /\ st.snapSerial \in Nat /\ st.snapSerial <= w.sequence
<1>1. st \in StatusType /\ st.snapSerial \in Nat /\ st.deltas \subseteq DeltaRef
  BY StatusFields DEF RefsOK
<1>2. w.sequence \in Nat /\ st.snapSerial <= w.sequence
  BY DEF WorldOK, RefsOK
<1>3. CASE st.deltas = {}
  BY <1>1, <1>2, <1>3 DEF DeltaStart
<1>4. CASE st.deltas # {}
  <2>1. PICK r \in st.deltas : r.version = st.version
    BY <1>4 DEF RefsOK
  <2>2. \A q \in st.deltas : q.version <= r.version
    BY <2>1 DEF RefsOK
  <2>3. Newest(st.deltas) \in st.deltas
    BY <2>1, <2>2 DEF Newest
  <2>4. Newest(st.deltas).end \in Nat /\ Newest(st.deltas).end <= w.sequence
    BY <1>1, <2>3 DEF RefsOK, DeltaRef
  <2> QED
    BY <1>1, <1>2, <1>4, <2>4 DEF DeltaStart
<1> QED
  BY <1>3, <1>4

\* The newest delta decides where the next one starts.
LEMMA NewestIs ==
    ASSUME NEW st, NEW w, RefsOK(st, w), NEW r \in st.deltas, r.version = st.version
    PROVE  Newest(st.deltas) = r /\ DeltaStart(st) = r.end + 1
<1>1. st.deltas \subseteq DeltaRef
  BY StatusFields DEF RefsOK
<1>2. \A q \in st.deltas : q.version <= r.version /\ (q.version = r.version => q = r)
  BY DEF RefsOK
<1>3. \A m \in st.deltas : (\A q \in st.deltas : q.version <= m.version) => m = r
  <2> SUFFICES ASSUME NEW m \in st.deltas, \A q \in st.deltas : q.version <= m.version PROVE m = r
    OBVIOUS
  <2>1. m.version \in Nat /\ r.version \in Nat
    BY <1>1 DEF DeltaRef
  <2>2. m.version = r.version
    BY <1>2, <2>1
  <2> QED
    BY <1>2, <2>2
<1>4. Newest(st.deltas) = r
  BY <1>2, <1>3 DEF Newest
<1> QED
  BY <1>4 DEF DeltaStart

\* The files of a status that are there now were there before.
LEMMA FilesKept ==
    ASSUME NEW st, NEW w, NEW x, RefsOK(st, w), WorldOK(w), FilesStep(w, x)
    PROVE  /\ RefsOK(st, x)
           /\ \A r \in st.deltas, d \in x.deltas : d.file = r.file => d \in w.deltas
           /\ AllThere(st, x) =>
                 /\ AllThere(st, w)
                 /\ \A r \in st.deltas, o \in Objects : Mentions(r, o, x) <=> Mentions(r, o, w)
           /\ \A o \in Objects : Coming(o, st, x) <=> Coming(o, st, w)
<1>1. st \in StatusType /\ st.deltas \subseteq DeltaRef
      /\ st.snapFile \in Nat /\ w.created \in Nat /\ x.created \in Nat /\ w.created <= x.created
  BY StatusFields DEF RefsOK, WorldOK, FilesStep
<1>2. \A r \in st.deltas : r.file \in Nat /\ r.file <= w.created
  BY <1>1 DEF RefsOK, DeltaRef
<1>3. RefsOK(st, x)
  <2>1. st.snapFile <= x.created /\ st.snapSerial <= x.sequence
    BY <1>1 DEF RefsOK, FilesStep
  <2>2. \A r \in st.deltas : r.version <= st.version /\ r.file <= x.created /\ r.end <= x.sequence
    BY <1>1, <1>2 DEF RefsOK, FilesStep
  <2> QED
    BY <2>1, <2>2 DEF RefsOK
<1>4. ASSUME NEW r \in st.deltas, NEW d \in x.deltas, d.file = r.file PROVE d \in w.deltas
  BY <1>1, <1>2, <1>4 DEF FilesStep
<1>5. ASSUME AllThere(st, x)
      PROVE  /\ AllThere(st, w)
             /\ \A r \in st.deltas, o \in Objects : Mentions(r, o, x) <=> Mentions(r, o, w)
  <2>1. \A r \in st.deltas : \E d \in x.deltas : d.file = r.file /\ d \in w.deltas
    BY <1>4, <1>5 DEF AllThere
  <2>2. \A d, f \in w.deltas : d.file = f.file => d = f
    BY DEF WorldOK
  <2> QED
    BY <1>4, <2>1, <2>2 DEF AllThere, Mentions
<1>6. \A o \in Objects : Coming(o, st, x) <=> Coming(o, st, w)
  BY DEF Coming, FilesStep
<1> QED
  BY <1>3, <1>4, <1>5, <1>6

\* What a status says about copies stays true when runs make and delete files.
LEMMA FilesKeepCovered ==
    ASSUME NEW st, NEW w, NEW x, RefsOK(st, w), WorldOK(w), FilesStep(w, x), NEW objects, NEW v, NEW n
    PROVE  /\ FromSerial(objects, n, w) => FromSerial(objects, n, x)
           /\ Covered(objects, v, st, w) => Covered(objects, v, st, x)
<1>1. FromSerial(objects, n, w) => FromSerial(objects, n, x)
  BY DEF FromSerial, FilesStep
<1>2. x.rows = w.rows
  BY DEF FilesStep
<1> QED
  BY <1>1, <1>2, FilesKept DEF Covered

\* So does what it says about its own snapshot and deltas.
LEMMA FilesKeepState ==
    ASSUME NEW st, NEW w, NEW x, StateOK(st, w), WorldOK(w), FilesStep(w, x)
    PROVE  StateOK(st, x)
<1>1. RefsOK(st, w) /\ st.snapFile \in Nat /\ st.snapFile <= w.created /\ w.created \in Nat
  BY StatusFields DEF StateOK, RefsOK, WorldOK
<1>2. RefsOK(st, x)
  BY <1>1, FilesKept
<1>3. DeltasTrue(st, x)
  <2>1. DeltasTrue(st, w) /\ x.rows = w.rows
    BY DEF StateOK, FilesStep
  <2> QED
    BY <1>1, <2>1, FilesKept DEF DeltasTrue
<1>4. SnapshotOK(st, x)
  <2>1. \A s \in x.snapshots : s.file = st.snapFile => s \in w.snapshots
    BY <1>1 DEF FilesStep
  <2>2. SnapshotOK(st, w)
    BY DEF StateOK
  <2> QED
    BY <1>1, <2>1, <2>2, FilesKeepCovered DEF SnapshotOK
<1> QED
  BY <1>2, <1>3, <1>4 DEF StateOK

\* So does what a run says about the snapshot it has written.
LEMMA FilesKeepPending ==
    ASSUME NEW st, NEW w, NEW x, RefsOK(st, w), WorldOK(w), FilesStep(w, x),
           NEW file \in Nat, file <= w.created, NEW session, NEW v, NEW n,
           PendingOK(file, session, v, n, st, w)
    PROVE  PendingOK(file, session, v, n, st, x)
<1>1. w.created \in Nat
  BY DEF WorldOK
<1>2. \A s \in x.snapshots : s.file = file => s \in w.snapshots
  BY <1>1 DEF FilesStep
<1> QED
  BY <1>2, FilesKeepCovered DEF PendingOK

\* A new entry comes after what the status has covered.
LEMMA EntryComing ==
    ASSUME NEW st, NEW w, NEW x, RefsOK(st, w), WorldOK(w), JournalStep(w, x)
    PROVE  /\ RefsOK(st, x)
           /\ \A o \in Objects : \/ Coming(o, st, x)
                                 \/ x.rows[o] = w.rows[o] /\ ~Coming(o, st, w)
<1>1. /\ st \in StatusType /\ DeltaStart(st) \in Nat /\ DeltaStart(st) <= w.sequence + 1
      /\ w.sequence \in Nat /\ st.deltas \subseteq DeltaRef /\ st.snapSerial \in Nat
  BY StartBounds, StatusFields DEF RefsOK, WorldOK
<1>2. PICK e \in Entry :
          /\ e.glob = x.sequence
          /\ x.journal = w.journal \union {e}
          /\ \A o \in Objects : IF e.obj = o THEN x.rows[o] = e.text ELSE x.rows[o] = w.rows[o]
  BY DEF JournalStep
<1>3. RefsOK(st, x)
  <2>1. x.sequence = w.sequence + 1 /\ x.created = w.created
    BY DEF JournalStep
  <2>2. \A r \in st.deltas : r.end \in Nat /\ r.end <= w.sequence
    BY <1>1 DEF RefsOK, DeltaRef
  <2>3. \A r \in st.deltas : r.end <= x.sequence
    BY <1>1, <2>1, <2>2
  <2>4. st.snapSerial <= x.sequence
    BY <1>1, <2>1 DEF RefsOK
  <2> QED
    BY <2>1, <2>3, <2>4 DEF RefsOK
<1>4. ASSUME NEW o \in Objects, ~Coming(o, st, x)
      PROVE  x.rows[o] = w.rows[o] /\ ~Coming(o, st, w)
  <2>1. x.sequence = w.sequence + 1
    BY DEF JournalStep
  <2>2. e.obj # o
    BY <1>1, <1>2, <1>4, <2>1 DEF Coming
  <2> QED
    BY <1>2, <1>4, <2>2 DEF Coming
<1> QED
  BY <1>3, <1>4

\* What a status says about copies stays true as the journal grows.
LEMMA JournalKeepsCovered ==
    ASSUME NEW st, NEW w, NEW x, RefsOK(st, w), WorldOK(w), JournalStep(w, x), NEW objects, NEW v,
           NEW n \in Nat, n <= w.sequence
    PROVE  /\ FromSerial(objects, n, w) => FromSerial(objects, n, x)
           /\ Covered(objects, v, st, w) => Covered(objects, v, st, x)
<1>1. PICK e \in Entry :
          /\ e.glob = x.sequence
          /\ x.journal = w.journal \union {e}
          /\ \A o \in Objects : IF e.obj = o THEN x.rows[o] = e.text ELSE x.rows[o] = w.rows[o]
  BY DEF JournalStep
<1>2. e.glob > n
  <2>1. x.sequence = w.sequence + 1 /\ w.sequence \in Nat
    BY DEF JournalStep, WorldOK
  <2> QED
    BY <1>1, <2>1
<1>3. FromSerial(objects, n, w) => FromSerial(objects, n, x)
  BY <1>1, <1>2 DEF FromSerial
<1>4. \A o \in Objects : Coming(o, st, x) \/ (x.rows[o] = w.rows[o] /\ ~Coming(o, st, w))
  BY EntryComing
<1>5. Covered(objects, v, st, w) => Covered(objects, v, st, x)
  <2>1. x.deltas = w.deltas
    BY DEF JournalStep
  <2> QED
    BY <1>4, <2>1 DEF Covered, AllThere, Mentions
<1> QED
  BY <1>3, <1>5

\* So does what it says about its own snapshot and deltas.
LEMMA JournalKeepsState ==
    ASSUME NEW st, NEW w, NEW x, StateOK(st, w), WorldOK(w), JournalStep(w, x)
    PROVE  StateOK(st, x)
<1>1. RefsOK(st, w) /\ st.snapSerial \in Nat /\ st.snapSerial <= w.sequence
  BY StatusFields DEF StateOK, RefsOK
<1>2. RefsOK(st, x)
  BY <1>1, EntryComing
<1>3. DeltasTrue(st, x)
  <2>1. DeltasTrue(st, w)
    BY DEF StateOK
  <2>2. x.deltas = w.deltas
    BY DEF JournalStep
  <2>3. \A o \in Objects : Coming(o, st, x) \/ (x.rows[o] = w.rows[o] /\ ~Coming(o, st, w))
    BY <1>1, EntryComing
  <2> QED
    BY <2>1, <2>2, <2>3 DEF DeltasTrue, AllThere, Mentions
<1>4. SnapshotOK(st, x)
  <2>1. x.snapshots = w.snapshots
    BY DEF JournalStep
  <2>2. SnapshotOK(st, w)
    BY DEF StateOK
  <2> QED
    BY <1>1, <2>1, <2>2, JournalKeepsCovered DEF SnapshotOK
<1> QED
  BY <1>2, <1>3, <1>4 DEF StateOK

\* So does what a run says about the snapshot it has written.
LEMMA JournalKeepsPending ==
    ASSUME NEW st, NEW w, NEW x, RefsOK(st, w), WorldOK(w), JournalStep(w, x),
           NEW file, NEW session, NEW v, NEW n \in Nat, n <= w.sequence,
           PendingOK(file, session, v, n, st, w)
    PROVE  PendingOK(file, session, v, n, st, x)
<1>1. x.snapshots = w.snapshots
  BY DEF JournalStep
<1>2. st.snapSerial \in Nat /\ st.snapSerial <= w.sequence
  BY StatusFields DEF RefsOK
<1> QED
  BY <1>1, <1>2, JournalKeepsCovered DEF PendingOK

\* The journal stays in order.
LEMMA JournalKeepsWorld ==
    ASSUME NEW w, NEW x, WorldOK(w), JournalStep(w, x)
    PROVE  WorldOK(x)
<1>1. PICK e \in Entry :
          /\ e.glob = x.sequence
          /\ x.journal = w.journal \union {e}
          /\ \A o \in Objects : IF e.obj = o THEN x.rows[o] = e.text ELSE x.rows[o] = w.rows[o]
  BY DEF JournalStep
<1>2. x.sequence = w.sequence + 1 /\ w.sequence \in Nat /\ w.journal \subseteq Entry
  BY DEF JournalStep, WorldOK
<1>3. \A f \in w.journal : f.glob \in Nat /\ f.glob <= w.sequence
  BY <1>2 DEF WorldOK, Entry
<1>4. \A f \in w.journal : f.glob < e.glob
  BY <1>1, <1>2, <1>3
<1>5. \A f \in x.journal : f.glob <= x.sequence
  BY <1>1, <1>2, <1>3
<1>6. Numbered(x.journal)
  <2>1. Numbered(w.journal)
    BY DEF WorldOK
  <2>2. \A f \in w.journal : f.glob # e.glob
    BY <1>1, <1>2, <1>3
  <2> QED
    BY <1>1, <2>1, <2>2 DEF Numbered
<1>7. ASSUME NEW o \in Objects, HasEntry(x.journal, o) PROVE LastText(x.journal, o, x.rows[o])
  <2>1. CASE e.obj = o
    <3>1. \A f \in x.journal : f.glob <= e.glob
      BY <1>1, <1>5
    <3> QED
      BY <1>1, <2>1, <3>1 DEF LastText
  <2>2. CASE e.obj # o
    <3>1. HasEntry(w.journal, o)
      BY <1>1, <1>7, <2>2 DEF HasEntry
    <3>2. LastText(w.journal, o, w.rows[o]) /\ x.rows[o] = w.rows[o]
      BY <1>1, <2>2, <3>1 DEF WorldOK
    <3> QED
      BY <1>1, <2>2, <3>2 DEF LastText
  <2> QED
    BY <2>1, <2>2
<1>8. x.journal \subseteq Entry /\ x.sequence \in Nat
  BY <1>1, <1>2
<1>9. /\ x.deltas = w.deltas /\ x.snapshots = w.snapshots /\ x.created = w.created
      /\ x.rows \in Copies
  BY DEF JournalStep
<1> QED
  BY <1>5, <1>6, <1>7, <1>8, <1>9 DEF WorldOK

\* Runs give every file a number of its own.
LEMMA FilesKeepWorld ==
    ASSUME NEW w, NEW x, WorldOK(w), FilesStep(w, x),
           x.deltas \subseteq DeltaFile, x.snapshots \subseteq SnapshotFile,
           \A d \in x.deltas : d \in w.deltas \/ (d.file <= x.created /\ Numbered(d.entries)),
           \A s \in x.snapshots : s \in w.snapshots \/ s.file <= x.created,
           \A d, f \in x.deltas : d \notin w.deltas /\ f \notin w.deltas => d = f,
           \A s, f \in x.snapshots : s \notin w.snapshots /\ f \notin w.snapshots => s = f
    PROVE  WorldOK(x)
<1>1. /\ x.journal = w.journal /\ x.rows = w.rows /\ x.sequence = w.sequence
      /\ x.created \in Nat /\ w.created \in Nat /\ w.created <= x.created
  BY DEF WorldOK, FilesStep
<1>2. \A d \in x.deltas : d.file \in Nat
  BY DEF DeltaFile
<1>3. \A s \in x.snapshots : s.file \in Nat
  BY DEF SnapshotFile
<1>4. \A d \in w.deltas : d.file <= w.created /\ Numbered(d.entries)
  BY DEF WorldOK
<1>5. \A s \in w.snapshots : s.file <= w.created
  BY DEF WorldOK
<1>6. \A d \in x.deltas : d.file <= x.created /\ Numbered(d.entries)
  BY <1>1, <1>2, <1>4
<1>7. \A s \in x.snapshots : s.file <= x.created
  BY <1>1, <1>3, <1>5
<1>8. ASSUME NEW d \in x.deltas, NEW f \in x.deltas, d.file = f.file PROVE d = f
  <2>1. d \in w.deltas <=> f \in w.deltas
    BY <1>1, <1>2, <1>4, <1>8 DEF FilesStep
  <2> QED
    BY <1>8, <2>1 DEF WorldOK
<1>9. ASSUME NEW s \in x.snapshots, NEW f \in x.snapshots, s.file = f.file PROVE s = f
  <2>1. s \in w.snapshots <=> f \in w.snapshots
    BY <1>1, <1>3, <1>5, <1>9 DEF FilesStep
  <2> QED
    BY <1>9, <2>1 DEF WorldOK
<1> QED
  BY <1>1, <1>6, <1>7, <1>8, <1>9 DEF WorldOK

\* The new delta comes after the others.
LEMMA DeltaAdded ==
    ASSUME NEW st, NEW new, NEW w, NEW x, NEW d, NEW ref,
           RefsOK(st, w), WorldOK(w), DeltaStep(st, new, w, x, d, ref)
    PROVE  /\ FilesStep(w, x) /\ WorldOK(x) /\ RefsOK(new, x)
           /\ \A r \in st.deltas : r.version <= st.version /\ r.version < ref.version
           /\ ref \notin st.deltas
           /\ st.version \in Nat
<1>1. /\ st \in StatusType /\ st.version \in Nat /\ st.deltas \subseteq DeltaRef
      /\ st.snapSerial \in Nat /\ st.snapFile \in Nat
  BY StatusFields DEF RefsOK
<1>2. w.created \in Nat /\ w.sequence \in Nat
  BY DEF WorldOK
<1>3. \A r \in st.deltas : r.version \in Nat /\ r.file \in Nat /\ r.end \in Nat
  BY <1>1 DEF DeltaRef
<1>4. \A r \in st.deltas : r.version <= st.version /\ r.file <= w.created /\ r.end <= w.sequence
  BY DEF RefsOK
<1>5. FilesStep(w, x)
  <2>1. x.created \in Nat /\ w.created <= x.created /\ d.file > w.created
    BY <1>2 DEF DeltaStep
  <2> QED
    BY <2>1 DEF FilesStep, DeltaStep
<1>6. WorldOK(x)
  <2>1. d.file <= x.created
    BY <1>2 DEF DeltaStep
  <2>2. x.deltas \subseteq DeltaFile /\ x.snapshots \subseteq SnapshotFile
    BY DEF DeltaStep, WorldOK
  <2> QED
    BY <1>5, <2>1, <2>2, FilesKeepWorld DEF DeltaStep
<1>7. \A r \in st.deltas : r.version <= st.version /\ r.version < ref.version /\ r.file < ref.file
  BY <1>1, <1>2, <1>3, <1>4 DEF DeltaStep
<1>8. RefsOK(new, x)
  <2>1. new.snapSerial <= x.sequence /\ new.snapFile <= x.created
    BY <1>1, <1>2 DEF RefsOK, DeltaStep
  <2>2. \A r \in st.deltas : r.version <= new.version /\ r.file <= x.created /\ r.end <= x.sequence
    BY <1>1, <1>2, <1>3, <1>4 DEF DeltaStep
  <2>3. ref.version <= new.version /\ ref.file <= x.created /\ ref.end <= x.sequence
    BY <1>1, <1>2 DEF DeltaStep
  <2>4. \A r, q \in st.deltas : r.version = q.version => r = q
    BY DEF RefsOK
  <2>5. \A r, q \in st.deltas : r.version < q.version => r.file < q.file
    BY DEF RefsOK
  <2>6. \A r \in st.deltas : ~(ref.version < r.version) /\ r.version # ref.version
    <3>1. ref.version \in Nat
      BY DEF DeltaStep, DeltaRef
    <3> QED
      BY <1>3, <1>7, <3>1
  <2>7. new.deltas = st.deltas \union {ref}
    BY DEF DeltaStep
  <2>8. \A r, q \in new.deltas : r.version = q.version => r = q
    BY <2>4, <2>6, <2>7
  <2>9. ~(ref.version < ref.version)
    BY DEF DeltaStep, DeltaRef
  <2>10. \A r, q \in new.deltas : r.version < q.version => r.file < q.file
    BY <1>7, <2>5, <2>6, <2>7, <2>9
  <2>11. \E r \in new.deltas : r.version = new.version
    BY <2>7 DEF DeltaStep
  <2>12. new \in StatusType
    BY DEF DeltaStep
  <2>13. \A r \in new.deltas : r.version <= new.version /\ r.file <= x.created /\ r.end <= x.sequence
    BY <2>2, <2>3, <2>7
  <2> QED
    BY <2>1, <2>8, <2>10, <2>11, <2>12, <2>13 DEF RefsOK
<1>9. ref \notin st.deltas
  <2>1. ~(ref.version < ref.version)
    BY DEF DeltaStep, DeltaRef
  <2> QED
    BY <1>7, <2>1
<1> QED
  BY <1>1, <1>5, <1>6, <1>7, <1>8, <1>9

\* The new delta has what was to come, and the others have what they had.
LEMMA DeltaHas ==
    ASSUME NEW st, NEW new, NEW w, NEW x, NEW d, NEW ref,
           RefsOK(st, w), WorldOK(w), DeltaStep(st, new, w, x, d, ref)
    PROVE  /\ \A o \in Objects : Coming(o, st, w) => Mentions(ref, o, x)
           /\ \A o \in Objects : HasEntry(d.entries, o) => Coming(o, st, w)
           /\ AllThere(new, x) => AllThere(st, x)
           /\ AllThere(st, x) => /\ AllThere(st, w)
                                 /\ \A r \in st.deltas, o \in Objects : Mentions(r, o, x) <=> Mentions(r, o, w)
           /\ \A f \in x.deltas : f.file = ref.file => f = d
<1>1. \A o \in Objects : o # None
  BY NoneAssumption
<1>2. \A o \in Objects : Coming(o, st, w) => HasEntry(d.entries, o)
  BY <1>1 DEF Coming, HasEntry, DeltaStep, Own
<1>3. \A o \in Objects : HasEntry(d.entries, o) => Coming(o, st, w)
  BY DEF Coming, HasEntry, DeltaStep, Own
<1>4. \A o \in Objects : Coming(o, st, w) => Mentions(ref, o, x)
  BY <1>2 DEF Mentions, DeltaStep
<1>5. AllThere(new, x) => AllThere(st, x)
  BY DEF AllThere, DeltaStep
<1>6. FilesStep(w, x) /\ WorldOK(x)
  BY DeltaAdded
<1>7. \A f \in x.deltas : f.file = ref.file => f = d
  BY <1>6 DEF WorldOK, DeltaStep
<1> QED
  BY <1>3, <1>4, <1>5, <1>6, <1>7, FilesKept

\* Copies get to the rows with the new delta.
LEMMA DeltaKeepsCovered ==
    ASSUME NEW st, NEW new, NEW w, NEW x, NEW d, NEW ref,
           RefsOK(st, w), WorldOK(w), DeltaStep(st, new, w, x, d, ref),
           NEW objects, NEW v \in Nat, v <= st.version,
           FromSerial(objects, st.snapSerial, w), Covered(objects, v, st, w)
    PROVE  Covered(objects, v, new, x)
<1> SUFFICES ASSUME AllThere(new, x), Connected(new, v), NEW o \in Objects,
                    ~ \E r \in new.deltas : r.version > v /\ Mentions(r, o, x)
             PROVE  objects[o] = x.rows[o]
  BY DEF Covered
<1>1. st.version \in Nat /\ new.deltas = st.deltas \union {ref} /\ ref.version > v /\ x.rows = w.rows
  <2>1. st.version \in Nat
    BY DeltaAdded
  <2>2. ref.version = st.version + 1 /\ new.deltas = st.deltas \union {ref} /\ x.rows = w.rows
    BY DEF DeltaStep
  <2> QED
    BY <2>1, <2>2
<1>2. ~ Mentions(ref, o, x)
  BY <1>1
<1>3. ~ Coming(o, st, w)
  BY <1>2, DeltaHas
<1>4. AllThere(st, w) /\ ~ \E r \in st.deltas : r.version > v /\ Mentions(r, o, w)
  BY <1>1, DeltaHas
<1>5. CASE st.deltas = {}
  <2>1. DeltaStart(st) = st.snapSerial + 1 /\ st.snapSerial \in Nat
    BY <1>5, StartBounds
  <2>2. \A e \in w.journal : e.glob \in Nat
    BY DEF WorldOK, Entry
  <2>3. ~ \E e \in w.journal : e.obj = o /\ e.glob > st.snapSerial
    BY <1>3, <2>1, <2>2 DEF Coming
  <2> QED
    BY <1>1, <2>3 DEF FromSerial
<1>6. CASE st.deltas # {}
  <2>1. Connected(st, v)
    <3>1. CASE \E r \in st.deltas : r.version <= v + 1
      BY <3>1 DEF Connected
    <3>2. CASE ~ \E r \in st.deltas : r.version <= v + 1
      <4>1. v = new.version \/ ref.version <= v + 1
        BY <1>1, <3>2 DEF Connected
      <4>2. v = st.version
        BY <1>1, <4>1 DEF DeltaStep
      <4> QED
        BY <4>2 DEF Connected
    <3> QED
      BY <3>1, <3>2
  <2> QED
    BY <1>1, <1>3, <1>4, <1>6, <2>1 DEF Covered
<1> QED
  BY <1>5, <1>6

\* What the new delta says is true.
LEMMA DeltaKeepsState ==
    ASSUME NEW st, NEW new, NEW w, NEW x, NEW d, NEW ref,
           StateOK(st, w), WorldOK(w), DeltaStep(st, new, w, x, d, ref)
    PROVE  StateOK(new, x)
<1>1. RefsOK(st, w) /\ st \in StatusType /\ st.version \in Nat /\ st.snapVersion \in Nat
  BY StatusFields DEF StateOK, RefsOK
<1>2. FilesStep(w, x) /\ WorldOK(x) /\ RefsOK(new, x)
      /\ \A r \in st.deltas : r.version < ref.version
  BY <1>1, DeltaAdded
<1>3. DeltasTrue(new, x)
  <2> SUFFICES ASSUME AllThere(new, x), NEW o \in Objects, NEW r \in new.deltas, NEW f \in x.deltas,
                      f.file = r.file, HasEntry(f.entries, o),
                      \A q \in new.deltas : q.version > r.version => ~Mentions(q, o, x)
               PROVE  LastText(f.entries, o, x.rows[o])
    BY DEF DeltasTrue
  <2>1. CASE r = ref
    <3>1. f = d
      BY <1>1, <2>1, DeltaHas
    <3>2. PICK a \in d.entries : a.obj = o
      BY <3>1 DEF HasEntry
    <3>3. a \in w.journal /\ a.glob >= DeltaStart(st) /\ DeltaStart(st) \in Nat
          /\ w.journal \subseteq Entry
      BY <1>1, <3>2, StartBounds DEF DeltaStep, Own, WorldOK
    <3>4. LastText(w.journal, o, w.rows[o])
      BY <3>2, <3>3 DEF WorldOK, HasEntry
    <3>5. PICK e \in w.journal : /\ e.obj = o /\ e.text = w.rows[o]
                                 /\ \A g \in w.journal : g.obj = o => g.glob <= e.glob
      BY <3>4 DEF LastText
    <3>6. e.glob >= DeltaStart(st)
      <4>1. a.glob <= e.glob
        BY <3>2, <3>3, <3>5
      <4>2. a.glob \in Nat /\ e.glob \in Nat
        BY <3>3, <3>5 DEF Entry
      <4> QED
        BY <3>3, <4>1, <4>2
    <3>7. e \in d.entries /\ d.entries \subseteq w.journal
      BY <3>5, <3>6, NoneAssumption DEF DeltaStep, Own
    <3>8. x.rows = w.rows
      BY DEF DeltaStep
    <3> QED
      BY <3>1, <3>5, <3>7, <3>8 DEF LastText
  <2>2. CASE r # ref
    <3>1. r \in st.deltas /\ ref \in new.deltas /\ st.deltas \subseteq new.deltas
      BY <2>2 DEF DeltaStep
    <3>2. ref.version > r.version
      <4>1. r.version < ref.version
        BY <1>2, <3>1
      <4> QED
        BY <4>1
    <3>3. ~ Coming(o, st, w)
      BY <1>1, <3>1, <3>2, DeltaHas
    <3>4. AllThere(st, w) /\ \A q \in st.deltas : q.version > r.version => ~Mentions(q, o, w)
      BY <1>1, <3>1, DeltaHas
    <3>5. f \in w.deltas
      BY <1>1, <1>2, <3>1, FilesKept
    <3>6. LastText(f.entries, o, w.rows[o])
      BY <3>1, <3>3, <3>4, <3>5 DEF StateOK, DeltasTrue
    <3> QED
      BY <3>6 DEF DeltaStep
  <2> QED
    BY <2>1, <2>2
<1>4. SnapshotOK(new, x)
  <2> SUFFICES ASSUME st.snapVersion # 0, NEW s \in x.snapshots, s.file = st.snapFile, s.session = st.session
               PROVE  /\ new.snapVersion <= new.version
                      /\ FromSerial(s.objects, st.snapSerial, x)
                      /\ Covered(s.objects, st.snapVersion, new, x)
    BY DEF SnapshotOK, DeltaStep
  <2>1. s \in w.snapshots
    BY DEF DeltaStep
  <2>2. /\ st.snapVersion <= st.version
        /\ FromSerial(s.objects, st.snapSerial, w)
        /\ Covered(s.objects, st.snapVersion, st, w)
    BY <2>1 DEF StateOK, SnapshotOK
  <2>3. Covered(s.objects, st.snapVersion, new, x)
    BY <1>1, <2>2, DeltaKeepsCovered
  <2>4. FromSerial(s.objects, st.snapSerial, x)
    BY <2>2 DEF FromSerial, DeltaStep
  <2>5. new.snapVersion <= new.version
    BY <1>1, <2>2 DEF DeltaStep
  <2> QED
    BY <2>3, <2>4, <2>5
<1> QED
  BY <1>2, <1>3, <1>4 DEF StateOK

\* So is what another run says about the snapshot it has written.
LEMMA DeltaKeepsPending ==
    ASSUME NEW st, NEW new, NEW w, NEW x, NEW d, NEW ref,
           RefsOK(st, w), WorldOK(w), DeltaStep(st, new, w, x, d, ref),
           NEW file, NEW session, NEW v \in Nat, NEW n,
           st.session = session => v <= st.version,
           PendingOK(file, session, v, n, st, w)
    PROVE  PendingOK(file, session, v, n, new, x)
<1> SUFFICES ASSUME new.session = session, NEW s \in x.snapshots, s.file = file
             PROVE  /\ FromSerial(s.objects, n, x)
                    /\ FromSerial(s.objects, new.snapSerial, x)
                    /\ Covered(s.objects, v, new, x)
  BY DEF PendingOK
<1>1. st.session = session /\ s \in w.snapshots /\ new.snapSerial = st.snapSerial
  BY DEF DeltaStep
<1>2. /\ FromSerial(s.objects, n, w)
      /\ FromSerial(s.objects, st.snapSerial, w)
      /\ Covered(s.objects, v, st, w)
  BY <1>1 DEF PendingOK
<1>3. Covered(s.objects, v, new, x)
  BY <1>1, <1>2, DeltaKeepsCovered
<1>4. FromSerial(s.objects, n, x) /\ FromSerial(s.objects, st.snapSerial, x)
  BY <1>2 DEF FromSerial, DeltaStep
<1> QED
  BY <1>1, <1>3, <1>4

\* Newer deltas are kept with each one, and so is the newest one.
LEMMA DeltasKept ==
    ASSUME NEW st, NEW new, NEW w, NEW x, NEW h,
           RefsOK(st, w), WorldOK(w), ExpiryStep(st, new, w, x, h)
    PROVE  /\ FilesStep(w, x) /\ WorldOK(x) /\ RefsOK(new, x)
           /\ \A r \in new.deltas, q \in st.deltas : q.version > r.version => q \in new.deltas
           /\ new.deltas # {} => DeltaStart(new) = DeltaStart(st)
           /\ AllThere(new, x) =>
                 /\ AllThere(st, w)
                 /\ \A r \in new.deltas, o \in Objects : Mentions(r, o, x) <=> Mentions(r, o, w)
<1>1. st.deltas \subseteq DeltaRef /\ h \in Nat /\ st.version \in Nat
  BY StatusFields DEF RefsOK, ExpiryStep
<1>2. \A r \in st.deltas : r.version \in Nat /\ r.file \in Nat
  BY <1>1 DEF DeltaRef
<1>3. ASSUME NEW r \in new.deltas, NEW q \in st.deltas, q.version > r.version PROVE q \in new.deltas
  <2>1. r \in st.deltas /\ r.file > h
    BY DEF ExpiryStep
  <2>2. r.file < q.file
    <3>1. r.version < q.version
      BY <1>3
    <3> QED
      BY <2>1, <3>1 DEF RefsOK
  <2>3. q.file > h
    BY <1>1, <1>2, <2>1, <2>2
  <2> QED
    BY <2>3 DEF ExpiryStep
<1>4. new.deltas # {} => \E r \in new.deltas : r.version = new.version /\ r.version = st.version
  <2> SUFFICES ASSUME NEW r \in new.deltas PROVE \E q \in new.deltas : q.version = st.version
    BY DEF ExpiryStep
  <2>1. r \in st.deltas
    BY DEF ExpiryStep
  <2>2. PICK q \in st.deltas : q.version = st.version
    BY <2>1 DEF RefsOK
  <2>3. CASE r.version = st.version
    BY <2>3
  <2>4. CASE r.version # st.version
    <3>1. q.version > r.version
      BY <1>2, <2>1, <2>2, <2>4 DEF RefsOK
    <3> QED
      BY <1>3, <2>2, <3>1
  <2> QED
    BY <2>3, <2>4
<1>5. FilesStep(w, x)
  BY DEF FilesStep, ExpiryStep, WorldOK
<1>6. WorldOK(x)
  <2>1. x.deltas \subseteq DeltaFile /\ x.snapshots \subseteq SnapshotFile
    BY DEF ExpiryStep, WorldOK
  <2> QED
    BY <1>5, <2>1, FilesKeepWorld DEF ExpiryStep
<1>7. RefsOK(new, x)
  <2>1. new.deltas \subseteq st.deltas
    BY DEF ExpiryStep
  <2>2. new \in StatusType /\ new.snapSerial <= x.sequence /\ new.snapFile <= x.created
    BY DEF ExpiryStep, RefsOK
  <2>3. \A r \in new.deltas : r.version <= new.version /\ r.file <= x.created /\ r.end <= x.sequence
    BY <2>1 DEF ExpiryStep, RefsOK
  <2>4. \A r, q \in new.deltas : r.version = q.version => r = q
    BY <2>1 DEF RefsOK
  <2>5. \A r, q \in new.deltas : r.version < q.version => r.file < q.file
    BY <2>1 DEF RefsOK
  <2> QED
    BY <1>4, <2>2, <2>3, <2>4, <2>5 DEF RefsOK
<1>8. ASSUME new.deltas # {} PROVE DeltaStart(new) = DeltaStart(st)
  <2>1. PICK r \in new.deltas : r.version = new.version /\ r.version = st.version
    BY <1>4, <1>8
  <2>2. r \in st.deltas
    BY DEF ExpiryStep
  <2>3. DeltaStart(new) = r.end + 1
    BY <1>7, <2>1, NewestIs
  <2>4. DeltaStart(st) = r.end + 1
    BY <2>1, <2>2, NewestIs
  <2> QED
    BY <2>3, <2>4
<1>9. ASSUME AllThere(new, x)
      PROVE  /\ AllThere(st, w)
             /\ \A r \in new.deltas, o \in Objects : Mentions(r, o, x) <=> Mentions(r, o, w)
  <2>1. \A r \in new.deltas : \E d \in x.deltas : d.file = r.file /\ d \in w.deltas
    BY <1>9 DEF AllThere, ExpiryStep
  <2>2. ASSUME NEW r \in st.deltas PROVE \E d \in w.deltas : d.file = r.file
    <3>1. CASE r.file <= h
      BY <3>1 DEF ExpiryStep
    <3>2. CASE ~(r.file <= h)
      <4>1. r.file > h
        BY <1>1, <1>2, <3>2
      <4> QED
        BY <2>1, <4>1 DEF ExpiryStep
    <3> QED
      BY <3>1, <3>2
  <2>3. \A d, f \in w.deltas : d.file = f.file => d = f
    BY DEF WorldOK
  <2>4. x.deltas \subseteq w.deltas
    BY DEF ExpiryStep
  <2> QED
    BY <2>1, <2>2, <2>3, <2>4 DEF AllThere, Mentions
<1> QED
  BY <1>3, <1>5, <1>6, <1>7, <1>8, <1>9

\* Copies get to the rows with the deltas that are kept.
LEMMA ExpiryKeepsCovered ==
    ASSUME NEW st, NEW new, NEW w, NEW x, NEW h,
           RefsOK(st, w), WorldOK(w), ExpiryStep(st, new, w, x, h),
           NEW objects, NEW v \in Nat, Covered(objects, v, st, w)
    PROVE  Covered(objects, v, new, x)
<1> SUFFICES ASSUME AllThere(new, x), new.deltas # {}, Connected(new, v), NEW o \in Objects,
                    ~ Coming(o, new, x), ~ \E r \in new.deltas : r.version > v /\ Mentions(r, o, x)
             PROVE  objects[o] = x.rows[o]
  BY DEF Covered
<1>1. /\ new.deltas \subseteq st.deltas /\ new.version = st.version /\ x.journal = w.journal
      /\ x.rows = w.rows
  BY DEF ExpiryStep
<1>2. ~ Coming(o, st, w)
  BY <1>1, DeltasKept DEF Coming
<1>3. \A r \in st.deltas : r.version \in Nat /\ r.version <= st.version
  BY StatusFields DEF RefsOK, DeltaRef
<1>4. Connected(st, v)
  BY <1>1 DEF Connected
<1>5. ASSUME NEW r \in st.deltas, r.version > v PROVE r \in new.deltas
  <2>1. v # new.version
    <3>1. st.version \in Nat
      BY StatusFields DEF RefsOK
    <3> QED
      BY <1>1, <1>3, <1>5, <3>1
  <2>2. PICK k \in new.deltas : k.version <= v + 1
    BY <2>1 DEF Connected
  <2>3. k \in st.deltas
    BY <1>1
  <2>4. CASE r.version > k.version
    BY <2>4, DeltasKept
  <2>5. CASE ~(r.version > k.version)
    <3>1. r.version = k.version
      BY <1>3, <1>5, <2>2, <2>3, <2>5
    <3>2. r = k
      BY <2>3, <3>1 DEF RefsOK
    <3> QED
      BY <3>2
  <2> QED
    BY <2>4, <2>5
<1>6. AllThere(st, w) /\ ~ \E r \in st.deltas : r.version > v /\ Mentions(r, o, w)
  BY <1>5, DeltasKept
<1> QED
  BY <1>1, <1>2, <1>4, <1>6 DEF Covered

\* What the deltas that are kept say is true.
LEMMA ExpiryKeepsState ==
    ASSUME NEW st, NEW new, NEW w, NEW x, NEW h,
           StateOK(st, w), WorldOK(w), ExpiryStep(st, new, w, x, h)
    PROVE  StateOK(new, x)
<1>1. RefsOK(st, w) /\ st \in StatusType /\ st.snapVersion \in Nat
  BY StatusFields DEF StateOK, RefsOK
<1>2. FilesStep(w, x) /\ RefsOK(new, x)
  BY <1>1, DeltasKept
<1>3. DeltasTrue(new, x)
  <2> SUFFICES ASSUME AllThere(new, x), NEW o \in Objects, NEW r \in new.deltas, NEW f \in x.deltas,
                      f.file = r.file, HasEntry(f.entries, o),
                      \A q \in new.deltas : q.version > r.version => ~Mentions(q, o, x),
                      ~ Coming(o, new, x)
               PROVE  LastText(f.entries, o, x.rows[o])
    BY DEF DeltasTrue
  <2>1. r \in st.deltas /\ f \in w.deltas /\ x.journal = w.journal /\ x.rows = w.rows
    BY DEF ExpiryStep
  <2>2. ~ Coming(o, st, w)
    BY <1>1, <2>1, DeltasKept DEF Coming
  <2>3. AllThere(st, w) /\ \A q \in st.deltas : q.version > r.version => ~Mentions(q, o, w)
    BY <1>1, DeltasKept
  <2> QED
    BY <2>1, <2>2, <2>3 DEF StateOK, DeltasTrue
<1>4. SnapshotOK(new, x)
  <2> SUFFICES ASSUME st.snapVersion # 0, NEW s \in x.snapshots, s.file = st.snapFile, s.session = st.session
               PROVE  /\ new.snapVersion <= new.version
                      /\ FromSerial(s.objects, st.snapSerial, x)
                      /\ Covered(s.objects, st.snapVersion, new, x)
    BY DEF SnapshotOK, ExpiryStep
  <2>1. s \in w.snapshots
    BY DEF ExpiryStep
  <2>2. /\ st.snapVersion <= st.version
        /\ FromSerial(s.objects, st.snapSerial, w)
        /\ Covered(s.objects, st.snapVersion, st, w)
    BY <2>1 DEF StateOK, SnapshotOK
  <2>3. Covered(s.objects, st.snapVersion, new, x)
    BY <1>1, <2>2, ExpiryKeepsCovered
  <2>4. FromSerial(s.objects, st.snapSerial, x)
    BY <2>2 DEF FromSerial, ExpiryStep
  <2>5. new.snapVersion <= new.version
    BY <2>2 DEF ExpiryStep
  <2> QED
    BY <2>3, <2>4, <2>5
<1> QED
  BY <1>2, <1>3, <1>4 DEF StateOK

\* So is what another run says about the snapshot it has written.
LEMMA ExpiryKeepsPending ==
    ASSUME NEW st, NEW new, NEW w, NEW x, NEW h,
           RefsOK(st, w), WorldOK(w), ExpiryStep(st, new, w, x, h),
           NEW file, NEW session, NEW v \in Nat, NEW n,
           PendingOK(file, session, v, n, st, w)
    PROVE  PendingOK(file, session, v, n, new, x)
<1> SUFFICES ASSUME new.session = session, NEW s \in x.snapshots, s.file = file
             PROVE  /\ FromSerial(s.objects, n, x)
                    /\ FromSerial(s.objects, new.snapSerial, x)
                    /\ Covered(s.objects, v, new, x)
  BY DEF PendingOK
<1>1. st.session = session /\ s \in w.snapshots /\ new.snapSerial = st.snapSerial
  BY DEF ExpiryStep
<1>2. /\ FromSerial(s.objects, n, w)
      /\ FromSerial(s.objects, st.snapSerial, w)
      /\ Covered(s.objects, v, st, w)
  BY <1>1 DEF PendingOK
<1>3. Covered(s.objects, v, new, x)
  BY <1>2, ExpiryKeepsCovered
<1>4. FromSerial(s.objects, n, x) /\ FromSerial(s.objects, st.snapSerial, x)
  BY <1>2 DEF FromSerial, ExpiryStep
<1> QED
  BY <1>1, <1>3, <1>4

\* Neither a snapshot of the rows nor one that others have replaced the status of
\* loses anything.
LEMMA SnapshotPut ==
    ASSUME NEW st, NEW new, NEW w, RefsOK(st, w), DeltasTrue(st, w), WorldOK(w),
           NEW file \in Nat, file <= w.created, NEW v \in Nat, NEW n \in Nat, n <= w.sequence,
           new \in StatusType,
           new.session = st.session, new.version = st.version, new.deltas = st.deltas,
           new.snapVersion = v, new.snapSerial = n, new.snapFile = file,
           \A s \in w.snapshots : s.file = file /\ s.session = st.session =>
              /\ v <= st.version
              /\ FromSerial(s.objects, n, w)
              /\ Covered(s.objects, v, st, w)
    PROVE  StateOK(new, w)
<1>1. st.deltas # {} => DeltaStart(new) = DeltaStart(st)
  BY DEF DeltaStart
<1>2. RefsOK(new, w)
  BY DEF RefsOK
<1>3. DeltasTrue(new, w)
  BY <1>1 DEF DeltasTrue, AllThere, Coming
<1>4. ASSUME NEW objects, Covered(objects, v, st, w) PROVE Covered(objects, v, new, w)
  BY <1>1, <1>4 DEF Covered, AllThere, Coming, Connected
<1>5. SnapshotOK(new, w)
  BY <1>4 DEF SnapshotOK
<1> QED
  BY <1>2, <1>3, <1>5 DEF StateOK

\* A snapshot of all objects has them all.
LEMMA RowsCover ==
    ASSUME NEW st, NEW w, NEW v, NEW n
    PROVE  FromSerial(w.rows, n, w) /\ Covered(w.rows, v, st, w)
  BY DEF FromSerial, Covered

\* The flag to force a reload says nothing about files.
LEMMA SameButForce ==
    ASSUME NEW st, NEW new, NEW w, new \in StatusType,
           new.session = st.session, new.version = st.version, new.deltas = st.deltas,
           new.snapVersion = st.snapVersion, new.snapSerial = st.snapSerial,
           new.snapFile = st.snapFile
    PROVE  /\ StateOK(st, w) => StateOK(new, w)
           /\ \A file, session, v, n : PendingOK(file, session, v, n, st, w)
                                           => PendingOK(file, session, v, n, new, w)
<1>1. DeltaStart(new) = DeltaStart(st)
  BY DEF DeltaStart
<1>2. ASSUME NEW objects, NEW v, Covered(objects, v, st, w) PROVE Covered(objects, v, new, w)
  BY <1>1, <1>2 DEF Covered, AllThere, Coming, Connected
<1>3. \A file, session, v, n : PendingOK(file, session, v, n, st, w)
                                   => PendingOK(file, session, v, n, new, w)
  BY <1>2 DEF PendingOK
<1>4. ASSUME StateOK(st, w) PROVE StateOK(new, w)
  <2>1. RefsOK(new, w)
    BY <1>4 DEF StateOK, RefsOK
  <2>2. DeltasTrue(new, w)
    BY <1>1, <1>4 DEF StateOK, DeltasTrue, AllThere, Coming
  <2>3. SnapshotOK(new, w)
    BY <1>2, <1>4 DEF StateOK, SnapshotOK
  <2> QED
    BY <2>1, <2>2, <2>3 DEF StateOK
<1> QED
  BY <1>3, <1>4

\* A status without deltas and without a snapshot promises nothing.
LEMMA EmptyState ==
    ASSUME NEW st \in StatusType, NEW w, WorldOK(w), st.deltas = {}, st.snapVersion = 0,
           st.snapSerial = 0, st.snapFile <= w.created
    PROVE  StateOK(st, w)
<1>1. RefsOK(st, w)
  BY DEF RefsOK, WorldOK
<1> QED
  BY <1>1 DEF StateOK, DeltasTrue, SnapshotOK

-----------------------------------------------------------------------------
(* Nothing is lost: the steps *)

\* The fields of the world.
LEMMA WorldFields ==
    /\ World.journal = journal /\ World.rows = rows /\ World.sequence = sequence
    /\ World.deltas = deltaFiles /\ World.snapshots = snapshotFiles /\ World.created = created
  BY DEF World

\* The same after a step.
LEMMA WorldFieldsNext ==
    /\ World'.journal = journal' /\ World'.rows = rows' /\ World'.sequence = sequence'
    /\ World'.deltas = deltaFiles' /\ World'.snapshots = snapshotFiles' /\ World'.created = created'
  BY DEF World

\* A step that makes no file.
LEMMA FilesLeft ==
    ASSUME TypeInv, LossInv, UNCHANGED databaseVars, created' = created,
           deltaFiles' \subseteq deltaFiles, snapshotFiles' \subseteq snapshotFiles
    PROVE  FilesStep(World, World') /\ WorldOK(World')
<1>1. /\ World'.journal = World.journal /\ World'.rows = World.rows
      /\ World'.sequence = World.sequence /\ World'.created = World.created
      /\ World'.deltas \subseteq World.deltas /\ World'.snapshots \subseteq World.snapshots
  BY WorldFields, WorldFieldsNext DEF databaseVars
<1>2. World.created \in Nat /\ WorldOK(World)
  BY DEF LossInv, WorldOK
<1>3. FilesStep(World, World')
  BY <1>1, <1>2 DEF FilesStep
<1>4. World'.deltas \subseteq DeltaFile /\ World'.snapshots \subseteq SnapshotFile
  BY <1>1, <1>2 DEF WorldOK
<1> QED
  BY <1>1, <1>2, <1>3, <1>4, FilesKeepWorld

\* A step of a run that does not commit keeps what the others know.
LEMMA LossKept ==
    ASSUME TypeInv, LockInv, LossInv, NEW p \in Servers, Others(p),
           status' = status, overtaken' = overtaken,
           \A q \in Servers : q # p => snapshot'[q] = snapshot[q] /\ maxSerial'[q] = maxSerial[q],
           FilesStep(World, World'), WorldOK(World'),
           ~overtaken => HandsOK(p)',
           ~overtaken => \A q \in Servers :
               q # p /\ pc[q] = "relock" /\ Holds(p)' /\ ~initialising'[p] =>
                   PendingOK(snapshot[q], local[q].session, local[q].version, maxSerial[q],
                             local'[p], World'),
           \A q \in Servers : q # p /\ initialising[q] => local'[p].session < local[q].session
    PROVE  LossInv'
<1> SUFFICES ASSUME ~overtaken
             PROVE  /\ status' # None => StateOK(status', World')
                    /\ \A q \in Servers : HandsOK(q)'
  BY DEF LossInv
<1>1. WorldOK(World) /\ (status # None => StateOK(status, World)) /\ \A q \in Servers : HandsOK(q)
  BY DEF LossInv
<1>2. status' # None => StateOK(status', World')
  BY <1>1, FilesKeepState
<1>3. ASSUME NEW q \in Servers, q # p PROVE HandsOK(q)'
  <2>1. /\ pc'[q] = pc[q] /\ local'[q] = local[q] /\ initialising'[q] = initialising[q]
        /\ snapshot'[q] = snapshot[q] /\ maxSerial'[q] = maxSerial[q]
    BY <1>3 DEF Others
  <2>2. HandsOK(q)
    BY <1>1
  <2>3. (Holds(q)' <=> Holds(q)) /\ (Lingers(q)' <=> Lingers(q))
    BY <2>1 DEF Holds, Lingers
  <2>4. Holds(q)' => StateOK(local'[q], World')
    BY <1>1, <2>1, <2>2, <2>3, FilesKeepState DEF HandsOK
  <2>5. snapshot[q] \in Nat /\ snapshot[q] <= World.created
    BY TypeFacts, WorldFields
  <2>6. ASSUME pc[q] = "relock"
        PROVE  /\ \A s \in snapshotFiles' : s.file = snapshot'[q] => s.session = local'[q].session
               /\ PendingOK(snapshot[q], local[q].session, local[q].version, maxSerial[q], status, World')
               /\ \A r \in Servers : r # q /\ Holds(r)' /\ ~initialising'[r] =>
                     PendingOK(snapshot[q], local[q].session, local[q].version, maxSerial[q], local'[r], World')
    <3>1. /\ \A s \in snapshotFiles : s.file = snapshot[q] => s.session = local[q].session
          /\ PendingOK(snapshot[q], local[q].session, local[q].version, maxSerial[q], status, World)
          /\ \A r \in Servers : r # q /\ Holds(r) /\ ~initialising[r] =>
                     PendingOK(snapshot[q], local[q].session, local[q].version, maxSerial[q], local[r], World)
      BY <2>2, <2>6 DEF HandsOK, Pending
    <3>2. \A s \in snapshotFiles' : s.file = snapshot[q] => s \in snapshotFiles
      <4>1. \A s \in World'.snapshots : s \in World.snapshots \/ s.file > World.created
        BY DEF FilesStep
      <4>2. World.created \in Nat
        BY <1>1 DEF WorldOK
      <4> QED
        BY <2>5, <4>1, <4>2, WorldFields, WorldFieldsNext
    <3>3. status # None
      BY <2>6 DEF TypeInv
    <3>4. PendingOK(snapshot[q], local[q].session, local[q].version, maxSerial[q], status, World')
      <4>1. RefsOK(status, World)
        BY <1>1, <3>3 DEF StateOK
      <4> QED
        BY <1>1, <2>5, <3>1, <4>1, FilesKeepPending
    <3>5. ASSUME NEW r \in Servers, r # q, Holds(r)', ~initialising'[r]
          PROVE  PendingOK(snapshot[q], local[q].session, local[q].version, maxSerial[q], local'[r], World')
      <4>1. CASE r = p
        BY <1>3, <2>6, <3>5, <4>1
      <4>2. CASE r # p
        <5>1. /\ pc'[r] = pc[r] /\ local'[r] = local[r] /\ initialising'[r] = initialising[r]
          BY <4>2 DEF Others
        <5>2. Holds(r) /\ ~initialising[r]
          BY <3>5, <5>1 DEF Holds
        <5>3. RefsOK(local[r], World)
          BY <1>1, <5>2 DEF HandsOK, StateOK
        <5>4. PendingOK(snapshot[q], local[q].session, local[q].version, maxSerial[q], local[r], World)
          BY <3>1, <3>5, <5>2
        <5> QED
          BY <1>1, <2>5, <5>1, <5>3, <5>4, FilesKeepPending
      <4> QED
        BY <4>1, <4>2
    <3> QED
      BY <2>1, <3>1, <3>2, <3>4, <3>5
  <2>7. pc'[q] = "relock" =>
               /\ \A s \in snapshotFiles' : s.file = snapshot'[q] => s.session = local'[q].session
               /\ Pending(q, status)'
               /\ \A r \in Servers : r # q /\ Holds(r)' /\ ~initialising'[r] => Pending(q, local[r])'
    BY <2>1, <2>6 DEF Pending
  <2>8. initialising'[q] => \A r \in Servers : r # q => local'[r].session < local'[q].session
    BY <1>3, <2>1, <2>2 DEF HandsOK, Others
  <2> QED
    BY <2>1, <2>2, <2>3, <2>4, <2>7, <2>8 DEF HandsOK
<1> QED
  BY <1>2, <1>3

\* A run that has begun a session is the only one that has a status in hand.
LEMMA OthersBehind ==
    ASSUME LossInv, ~overtaken, NEW p \in Servers, NEW q \in Servers, q # p, initialising[q]
    PROVE  local[p].session < local[q].session
  BY DEF LossInv, HandsOK

\* A step of a run with another status in hand.
LEMMA StepOthers ==
    ASSUME ShapeInv, NEW p \in Servers, NEW x, pc' = [pc EXCEPT ![p] = x],
           initialising' = initialising,
           local' = local \/ \E st : local' = [local EXCEPT ![p] = st]
    PROVE  Others(p) /\ pc'[p] = x
<1>1. DOMAIN pc = Servers /\ DOMAIN local = Servers
  BY DEF ShapeInv
<1>2. ASSUME NEW q \in Servers, q # p PROVE pc'[q] = pc[q] /\ local'[q] = local[q]
  BY <1>1, <1>2
<1> QED
  BY <1>1, <1>2 DEF Others

\* A run ends.
LEMMA EndsLossless ==
    ASSUME TypeInv, ShapeInv, LockInv, LossInv, NEW p \in Servers, EndRun(p),
           UNCHANGED databaseVars, created' = created, overtaken' = overtaken,
           deltaFiles' \subseteq deltaFiles, snapshotFiles' \subseteq snapshotFiles
    PROVE  LossInv'
<1>1. /\ pc'[p] = "idle" /\ local'[p] = EmptyStatus /\ initialising'[p] = FALSE
      /\ Others(p)
      /\ \A q \in Servers : q # p => snapshot'[q] = snapshot[q] /\ maxSerial'[q] = maxSerial[q]
  BY TypeFacts DEF EndRun, Others
<1>2. status' = status
  BY DEF databaseVars
<1>3. FilesStep(World, World') /\ WorldOK(World')
  BY FilesLeft
<1>4. HandsOK(p)' /\ ~Holds(p)'
  BY <1>1 DEF HandsOK, Holds, Lingers
<1>5. CASE overtaken
  BY <1>2, <1>3, <1>5 DEF LossInv
<1>6. CASE ~overtaken
  <2>1. ASSUME NEW q \in Servers, q # p, initialising[q] PROVE local'[p].session < local[q].session
    <3>1. local[p].session < local[q].session
      BY <1>6, <2>1, OthersBehind
    <3>2. local[p].session \in Nat /\ local[q].session \in Nat
      BY TypeFacts, StatusFields
    <3> QED
      BY <1>1, <3>1, <3>2, EmptyFields
  <2> QED
    BY <1>1, <1>2, <1>3, <1>4, <2>1, LossKept
<1> QED
  BY <1>5, <1>6

\* A step with the status it has in hand, which goes on.
LEMMA GoesOnLossless ==
    ASSUME TypeInv, ShapeInv, LockInv, LossInv, NEW p \in Servers, NEW x, pc' = [pc EXCEPT ![p] = x],
           initialising' = initialising, local' = local, snapshot' = snapshot,
           \A q \in Servers : q # p => maxSerial'[q] = maxSerial[q],
           UNCHANGED databaseVars, created' = created, overtaken' = overtaken,
           deltaFiles' \subseteq deltaFiles, snapshotFiles' \subseteq snapshotFiles,
           Holds(p)' => Holds(p), Lingers(p)' => Lingers(p), x # "relock"
    PROVE  LossInv'
<1>1. /\ Others(p) /\ pc'[p] = x
      /\ \A q \in Servers : q # p => snapshot'[q] = snapshot[q] /\ maxSerial'[q] = maxSerial[q]
  BY StepOthers
<1>2. status' = status
  BY DEF databaseVars
<1>3. FilesStep(World, World') /\ WorldOK(World')
  BY FilesLeft
<1>4. CASE overtaken
  BY <1>2, <1>3, <1>4 DEF LossInv
<1>5. CASE ~overtaken
  <2>1. HandsOK(p) /\ WorldOK(World)
    BY <1>5 DEF LossInv
  <2>2. Holds(p)' => StateOK(local'[p], World')
    BY <1>3, <2>1, FilesKeepState DEF HandsOK
  <2>3. HandsOK(p)'
    BY <1>1, <1>2, <2>1, <2>2 DEF HandsOK
  <2>4. ASSUME NEW q \in Servers, q # p, pc[q] = "relock", Holds(p)', ~initialising'[p]
        PROVE  PendingOK(snapshot[q], local[q].session, local[q].version, maxSerial[q],
                         local'[p], World')
    <3>1. HandsOK(q)
      BY <1>5 DEF LossInv
    <3>2. PendingOK(snapshot[q], local[q].session, local[q].version, maxSerial[q], local[p], World)
      BY <2>4, <3>1 DEF HandsOK, Pending
    <3>3. RefsOK(local[p], World)
      BY <2>1, <2>4 DEF HandsOK, StateOK
    <3>4. snapshot[q] \in Nat /\ snapshot[q] <= World.created
      BY TypeFacts, WorldFields
    <3> QED
      BY <1>3, <2>1, <3>2, <3>3, <3>4, FilesKeepPending
  <2>5. \A q \in Servers : q # p /\ initialising[q] => local'[p].session < local[q].session
    BY <1>5, OthersBehind
  <2> QED
    BY <1>1, <1>2, <1>3, <2>3, <2>4, <2>5, LossKept
<1> QED
  BY <1>4, <1>5

\* The steps that change neither the status in hand nor the status row.
LEMMA PlainLossless ==
    ASSUME TypeInv, ShapeInv, LockInv, LossInv, NEW p \in Servers,
           \/ Start(p) \/ LockSnapshot(p) \/ (SnapshotLocked(p) /\ statusLock = p)
           \/ ExpireSnapshots(p) \/ WriteUnf(p)
    PROVE  LossInv'
<1>1. /\ initialising' = initialising /\ local' = local /\ snapshot' = snapshot
      /\ UNCHANGED databaseVars /\ created' = created /\ overtaken' = overtaken
      /\ deltaFiles' = deltaFiles /\ snapshotFiles' \subseteq snapshotFiles
  BY DEF Start, LockSnapshot, SnapshotLocked, ExpireSnapshots, WriteUnf, diskVars, boundVars
<1>2. \A q \in Servers : q # p => maxSerial'[q] = maxSerial[q]
  BY TypeFacts DEF Start, LockSnapshot, SnapshotLocked, ExpireSnapshots, WriteUnf
<1>3. PICK x : /\ pc' = [pc EXCEPT ![p] = x]
               /\ \/ pc[p] = "idle" /\ x = "start"
                  \/ pc[p] = "decide" /\ x = "snapshot"
                  \/ pc[p] = "decide" /\ x = "expire" /\ statusLock = p
                  \/ pc[p] = "snapshots" /\ x = "commit"
                  \/ pc[p] = "unf" /\ x = "snapshots"
  BY DEF Start, LockSnapshot, SnapshotLocked, ExpireSnapshots, WriteUnf
<1>4. pc'[p] = x
  BY <1>3, TypeFacts
<1>5. LockOK(p)
  BY DEF LockInv
<1>6. (Holds(p)' => Holds(p)) /\ (Lingers(p)' => Lingers(p)) /\ x # "relock"
  BY <1>1, <1>3, <1>4, <1>5 DEF Holds, Lingers, LockOK
<1> QED
  BY <1>1, <1>2, <1>3, <1>6, GoesOnLossless

\* A run takes the status row in hand.
LEMMA ResumeLossless ==
    ASSUME TypeInv, ShapeInv, LockInv, LossInv, NEW p \in Servers, Resume(p)
    PROVE  LossInv'
<1>1. /\ pc[p] = "start" /\ pc' = [pc EXCEPT ![p] = "delta"]
      /\ local' = [local EXCEPT ![p] = status] /\ initialising' = initialising
      /\ snapshot' = snapshot /\ maxSerial' = maxSerial /\ UNCHANGED databaseVars
      /\ created' = created /\ overtaken' = overtaken /\ deltaFiles' = deltaFiles
      /\ snapshotFiles' = snapshotFiles /\ statusLock = None /\ status # None
      /\ statusLock' = p /\ snapshotLock' = snapshotLock /\ status' = status
  BY DEF Resume, Locked, databaseVars, diskVars, boundVars
<1>2. Others(p) /\ pc'[p] = "delta" /\ local'[p] = status
  BY <1>1, StepOthers, Replaced
<1>3. FilesStep(World, World') /\ WorldOK(World')
  BY <1>1, FilesLeft
<1>4. CASE overtaken
  BY <1>1, <1>3, <1>4 DEF LossInv
<1>5. CASE ~overtaken
  <2>1. StateOK(status, World) /\ WorldOK(World)
    BY <1>1, <1>5 DEF LossInv
  <2>2. StateOK(status, World')
    BY <1>3, <2>1, FilesKeepState
  <2>3. ~initialising'[p]
    BY <1>1 DEF LockInv, LockOK
  <2>4. \A q \in Servers : ~Holds(q) /\ ~initialising[q]
    <3>1. \A q \in Servers : ~Holds(q)
      BY <1>1, LockTaken
    <3> QED
      BY <3>1 DEF LockInv, LockOK, Holds
  <2>5. status.version <= status.version
    BY <1>1, TypeFacts, StatusFields
  <2>6. HandsOK(p)'
    BY <1>1, <1>2, <2>2, <2>3, <2>5 DEF HandsOK, Lingers
  <2>7. ASSUME NEW q \in Servers, q # p, pc[q] = "relock"
        PROVE  PendingOK(snapshot[q], local[q].session, local[q].version, maxSerial[q],
                         local'[p], World')
    <3>1. PendingOK(snapshot[q], local[q].session, local[q].version, maxSerial[q], status, World)
      BY <1>5, <2>7 DEF LossInv, HandsOK, Pending
    <3>2. RefsOK(status, World)
      BY <2>1 DEF StateOK
    <3>3. snapshot[q] \in Nat /\ snapshot[q] <= World.created
      BY TypeFacts, WorldFields
    <3> QED
      BY <1>2, <1>3, <2>1, <3>1, <3>2, <3>3, FilesKeepPending
  <2> QED
    BY <1>1, <1>2, <1>3, <2>4, <2>6, <2>7, LossKept
<1> QED
  BY <1>4, <1>5

\* A run begins a session.
LEMMA InitialiseLossless ==
    ASSUME TypeInv, ShapeInv, LockInv, LossInv, NEW p \in Servers, Initialise(p)
    PROVE  LossInv'
<1>1. /\ pc[p] = "start" /\ pc' = [pc EXCEPT ![p] = "decide"]
      /\ initialising' = [initialising EXCEPT ![p] = TRUE]
      /\ snapshot' = snapshot /\ maxSerial' = maxSerial /\ UNCHANGED databaseVars
      /\ created' = created /\ overtaken' = overtaken /\ deltaFiles' = deltaFiles
      /\ snapshotFiles' = snapshotFiles /\ statusLock = None /\ status # None
      /\ statusLock' = p /\ snapshotLock' = snapshotLock /\ status' = status
      /\ local' = [local EXCEPT ![p] = [status EXCEPT !.session = sessions + 1, !.version = 1,
                    !.snapVersion = 0, !.snapSerial = 0, !.deltas = {}]]
  BY DEF Initialise, Locked, databaseVars, diskVars, boundVars
<1>2. /\ Others(p) /\ pc'[p] = "decide" /\ initialising'[p] = TRUE
      /\ local'[p] = [status EXCEPT !.session = sessions + 1, !.version = 1,
                    !.snapVersion = 0, !.snapSerial = 0, !.deltas = {}]
  <2>1. p \in DOMAIN pc /\ p \in DOMAIN local /\ p \in DOMAIN initialising
    BY TypeFacts
  <2> QED
    BY <1>1, <2>1 DEF Others
<1>3. FilesStep(World, World') /\ WorldOK(World')
  BY <1>1, FilesLeft
<1>4. CASE overtaken
  BY <1>1, <1>3, <1>4 DEF LossInv
<1>5. CASE ~overtaken
  <2>1. StateOK(status, World) /\ WorldOK(World)
    BY <1>1, <1>5 DEF LossInv
  <2>2. status \in StatusType /\ sessions \in Nat /\ sessions + 1 \in Nat
    BY <1>1, TypeFacts
  <2>3. /\ local'[p] \in StatusType /\ local'[p].session = sessions + 1
        /\ local'[p].deltas = {} /\ local'[p].snapVersion = 0
        /\ local'[p].snapSerial = 0 /\ local'[p].snapFile = status.snapFile
    <3>1. local'[p] = AsSession(status, sessions + 1)
      BY <1>2 DEF AsSession
    <3> QED
      BY <2>2, <3>1, WithSession
  <2>4. StateOK(local'[p], World')
    <3>1. status.snapFile <= World'.created
      BY <1>1, <2>1, WorldFields, WorldFieldsNext DEF StateOK, RefsOK
    <3> QED
      BY <1>3, <2>3, <3>1, EmptyState
  <2>5. \A q \in Servers : ~Holds(q) /\ ~initialising[q]
    <3>1. \A q \in Servers : ~Holds(q)
      BY <1>1, LockTaken
    <3> QED
      BY <3>1 DEF LockInv, LockOK, Holds
  <2>6. ASSUME NEW q \in Servers, q # p PROVE local'[q].session < local'[p].session
    <3>1. local[q].session \in Nat /\ local[q].session <= sessions
      BY TypeFacts, StatusFields DEF ShapeInv
    <3>2. local'[q] = local[q]
      BY <1>2, <2>6 DEF Others
    <3> QED
      BY <2>2, <2>3, <3>1, <3>2
  <2>7. HandsOK(p)'
    BY <1>2, <2>4, <2>6 DEF HandsOK, Lingers
  <2> QED
    BY <1>1, <1>2, <1>3, <2>5, <2>7, LossKept
<1> QED
  BY <1>4, <1>5

\* Where runs of others are while one has the status lock.
LEMMA Alone ==
    ASSUME LockInv, NEW p \in Servers, Holds(p)
    PROVE  \A q \in Servers : q # p => ~Holds(q) /\ ~initialising[q]
<1>1. statusLock = p
  BY DEF LockInv, LockOK
<1> QED
  BY <1>1 DEF LockInv, LockOK, Holds

\* A run that has entries makes a delta.
LEMMA DeltaMade ==
    ASSUME TypeInv, ShapeInv, WorldOK(World), NEW p \in Servers, WriteDelta(p),
           DeltaEntries(local[p]) # {}
    PROVE  /\ Others(p)
           /\ \E d, ref : DeltaStep(local[p], local'[p], World, World', d, ref)
<1> DEFINE ref == [version |-> local[p].version + 1, file |-> created + 1, end |-> maxSerial[p]]
           d == [file |-> created + 1, session |-> local[p].session,
                 version |-> local[p].version + 1, entries |-> DeltaEntries(local[p])]
           new == AsVersion(local[p], local[p].version + 1, local[p].deltas \union {ref})
<1>1. /\ pc' = [pc EXCEPT ![p] = "expire"] /\ initialising' = initialising
      /\ UNCHANGED databaseVars /\ snapshotFiles' = snapshotFiles
      /\ local' = [local EXCEPT ![p].version = local[p].version + 1,
                                ![p].deltas = @ \union {ref}]
      /\ created' = created + 1 /\ deltaFiles' = deltaFiles \union {d}
  BY DEF WriteDelta
<1>2. /\ local[p] \in StatusType /\ local[p].version \in Nat /\ local[p].session \in Nat
      /\ local[p].deltas \subseteq DeltaRef /\ maxSerial[p] \in Nat /\ maxSerial[p] <= sequence
      /\ created \in Nat
  BY TypeFacts, StatusFields
<1>3. /\ ref \in DeltaRef /\ ref.version = local[p].version + 1 /\ ref.file = created + 1
      /\ ref.end = maxSerial[p] /\ local[p].version + 1 \in Nat
  BY <1>2 DEF DeltaRef
<1>4. d.file = ref.file /\ d.entries = DeltaEntries(local[p])
  OBVIOUS
<1>5. d \in DeltaFile /\ Numbered(d.entries)
  <2>1. DeltaEntries(local[p]) \subseteq journal
    BY DEF DeltaEntries, Own
  <2>2. journal \subseteq Entry /\ Numbered(journal)
    BY WorldFields DEF WorldOK
  <2>3. DeltaEntries(local[p]) \in SUBSET Entry /\ Numbered(DeltaEntries(local[p]))
    BY <2>1, <2>2 DEF Numbered
  <2> QED
    BY <1>2, <1>3, <2>3 DEF DeltaFile
<1> HIDE DEF ref
<1>6. local' = [local EXCEPT ![p] = [local[p] EXCEPT !.version = local[p].version + 1,
                                        !.deltas = local[p].deltas \union {ref}]]
  <2>1. local = [q \in Servers |-> local[q]] /\ Shaped(local[p])
    BY DEF ShapeInv
  <2> QED
    BY <1>1, <2>1 DEF Shaped
<1>7. local' = [local EXCEPT ![p] = new]
  BY <1>6 DEF AsVersion
<1>8. /\ new \in StatusType /\ new.session = local[p].session /\ new.version = local[p].version + 1
      /\ new.snapVersion = local[p].snapVersion /\ new.snapSerial = local[p].snapSerial
      /\ new.snapFile = local[p].snapFile /\ new.deltas = local[p].deltas \union {ref}
  <2>1. local[p].deltas \union {ref} \in SUBSET DeltaRef
    BY <1>2, <1>3
  <2> QED
    BY <1>2, <1>3, <2>1, WithDeltas
<1> HIDE DEF d, new
<1>9. local'[p] = new /\ Others(p)
  BY <1>1, <1>7, StepOthers, Replaced
<1>10. DeltaStep(local[p], new, World, World', d, ref)
  <2>1. d.entries = {e \in Own(World.journal) : e.glob >= DeltaStart(local[p])}
    BY <1>4, WorldFields DEF DeltaEntries
  <2>2. /\ World'.journal = World.journal /\ World'.rows = World.rows
        /\ World'.sequence = World.sequence /\ World'.created = World.created + 1
        /\ World'.snapshots = World.snapshots /\ World'.deltas = World.deltas \union {d}
    BY <1>1, WorldFields, WorldFieldsNext DEF databaseVars
  <2>3. d.file = World.created + 1 /\ ref.end <= World.sequence
    BY <1>2, <1>3, <1>4, WorldFields
  <2> QED
    BY <1>3, <1>4, <1>5, <1>8, <2>1, <2>2, <2>3 DEF DeltaStep
<1> QED
  BY <1>9, <1>10

\* A run writes a delta.
LEMMA WriteDeltaLossless ==
    ASSUME TypeInv, ShapeInv, LockInv, LossInv, NEW p \in Servers, WriteDelta(p)
    PROVE  LossInv'
<1>1. /\ pc[p] = "delta" /\ pc' = [pc EXCEPT ![p] = "expire"] /\ initialising' = initialising
      /\ snapshot' = snapshot /\ maxSerial' = maxSerial /\ UNCHANGED databaseVars
      /\ overtaken' = overtaken /\ snapshotFiles' = snapshotFiles /\ status' = status
      /\ statusLock' = statusLock /\ snapshotLock' = snapshotLock
  BY DEF WriteDelta, databaseVars, boundVars
<1>2. Holds(p) /\ pc'[p] = "expire" /\ ~initialising[p]
  BY <1>1, TypeFacts DEF Holds, LockInv, LockOK
<1>3. CASE DeltaEntries(local[p]) = {}
  <2>1. local' = local /\ deltaFiles' = deltaFiles /\ created' = created
    BY <1>3, WriteDeltaTyped
  <2>2. ~Lingers(p)' /\ "expire" # "relock"
    BY <1>2 DEF Lingers
  <2> QED
    BY <1>1, <1>2, <2>1, <2>2, GoesOnLossless
<1>4. CASE DeltaEntries(local[p]) # {}
  <2>1. WorldOK(World)
    BY DEF LossInv
  <2>2. Others(p) /\ \E d, ref : DeltaStep(local[p], local'[p], World, World', d, ref)
    BY <1>4, <2>1, DeltaMade
  <2>3. PICK d, ref : DeltaStep(local[p], local'[p], World, World', d, ref)
    BY <2>2
  <2>4. local'[p].session = local[p].session /\ local'[p].version = local[p].version + 1
    BY <2>3 DEF DeltaStep
  <2>5. local[p].version \in Nat
    BY TypeFacts, StatusFields
  <2>6. FilesStep(World, World') /\ WorldOK(World')
    <3>1. CASE overtaken
      \* Files are numbered whatever the status says.
      <4>1. FilesStep(World, World')
        <5>1. d.file > World.created /\ World'.created \in Nat /\ World.created <= World'.created
          BY <2>1, <2>3 DEF DeltaStep, WorldOK
        <5> QED
          BY <5>1, <2>3 DEF DeltaStep, FilesStep
      <4>2. World'.deltas \subseteq DeltaFile /\ World'.snapshots \subseteq SnapshotFile
        BY <2>1, <2>3 DEF DeltaStep, WorldOK
      <4>3. d.file <= World'.created
        BY <2>1, <2>3 DEF DeltaStep, WorldOK
      <4> QED
        BY <2>1, <2>3, <4>1, <4>2, <4>3, FilesKeepWorld DEF DeltaStep
    <3>2. CASE ~overtaken
      BY <1>2, <2>1, <2>3, <3>2, DeltaAdded DEF LossInv, HandsOK, StateOK
    <3> QED
      BY <3>1, <3>2
  <2>7. CASE overtaken
    BY <1>1, <2>6, <2>7 DEF LossInv
  <2>8. CASE ~overtaken
    <3>1. StateOK(local[p], World) /\ RefsOK(local[p], World)
      BY <1>2, <2>8 DEF LossInv, HandsOK, StateOK
    <3>2. StateOK(local'[p], World')
      BY <2>1, <2>3, <3>1, DeltaKeepsState
    <3>3. local'[p].session = status.session /\ status.version <= local'[p].version
      <4>1. local[p].session = status.session /\ status.version <= local[p].version
        BY <1>2, <2>8 DEF LossInv, HandsOK
      <4>2. status.version \in Nat
        <5>1. status # None
          BY <1>1 DEF TypeInv
        <5> QED
          BY <5>1, TypeFacts, StatusFields
      <4> QED
        BY <2>4, <2>5, <4>1, <4>2
    <3>4. HandsOK(p)'
      BY <1>1, <1>2, <3>2, <3>3 DEF HandsOK, Lingers
    <3>5. ASSUME NEW q \in Servers, q # p, pc[q] = "relock"
          PROVE  PendingOK(snapshot[q], local[q].session, local[q].version, maxSerial[q],
                           local'[p], World')
      <4>1. HandsOK(q) /\ HandsOK(p)
        BY <2>8 DEF LossInv
      <4>2. PendingOK(snapshot[q], local[q].session, local[q].version, maxSerial[q], local[p], World)
        BY <1>2, <3>5, <4>1 DEF HandsOK, Pending
      <4>3. ~initialising[q]
        BY <3>5 DEF LockInv, LockOK
      <4>4. local[p].session = local[q].session => local[q].version <= local[p].version
        <5>1. local[p].session = status.session /\ status.version <= local[p].version
          BY <1>2, <4>1 DEF HandsOK
        <5>2. Lingers(q)
          BY <3>5, <4>3 DEF Lingers
        <5>3. local[q].session = status.session => local[q].version <= status.version
          BY <4>1, <5>2 DEF HandsOK
        <5>4. status.version \in Nat /\ local[q].version \in Nat
          <6>1. status # None
            BY <1>1 DEF TypeInv
          <6> QED
            BY <6>1, TypeFacts, StatusFields
        <5> QED
          BY <2>5, <5>1, <5>3, <5>4
      <4>5. local[q].version \in Nat
        BY TypeFacts, StatusFields
      <4> QED
        BY <2>1, <2>3, <3>1, <4>2, <4>4, <4>5, DeltaKeepsPending
    <3>6. \A q \in Servers : q # p => ~initialising[q]
      BY <1>2, Alone
    <3>7. \A q \in Servers : q # p => snapshot'[q] = snapshot[q] /\ maxSerial'[q] = maxSerial[q]
      BY <1>1
    <3> QED
      BY <1>1, <2>2, <2>6, <3>4, <3>5, <3>6, <3>7, LossKept
  <2> QED
    BY <2>7, <2>8
<1> QED
  BY <1>3, <1>4

\* A run deletes expired deltas.
LEMMA ExpireDeltasLossless ==
    ASSUME TypeInv, ShapeInv, LockInv, LossInv, NEW p \in Servers, ExpireDeltas(p)
    PROVE  LossInv'
<1> DEFINE kept == {r \in local[p].deltas : r.file > horizon[p]}
           new == AsKept(local[p], kept)
<1>1. /\ pc[p] = "expire" /\ pc' = [pc EXCEPT ![p] = "unf"] /\ initialising' = initialising
      /\ snapshot' = snapshot /\ maxSerial' = maxSerial /\ UNCHANGED databaseVars
      /\ overtaken' = overtaken /\ snapshotFiles' = snapshotFiles /\ status' = status
      /\ statusLock' = statusLock /\ snapshotLock' = snapshotLock /\ created' = created
      /\ deltaFiles' \subseteq deltaFiles
      /\ local' = [local EXCEPT ![p].deltas = kept]
      /\ ExpiredFor(p, local[p].deltas) \subseteq {d.file : d \in deltaFiles}
  BY DEF ExpireDeltas, databaseVars, boundVars
<1>2. local' = [local EXCEPT ![p] = new]
  <2>1. local' = [local EXCEPT ![p] = [local[p] EXCEPT !.deltas = kept]]
    BY <1>1
  <2> QED
    BY <2>1 DEF AsKept
<1>3. /\ local[p] \in StatusType /\ local[p].deltas \subseteq DeltaRef /\ horizon[p] \in Nat
      /\ local[p].version \in Nat
  BY TypeFacts, StatusFields
<1>4. /\ new \in StatusType /\ new.session = local[p].session /\ new.version = local[p].version
      /\ new.snapVersion = local[p].snapVersion /\ new.snapSerial = local[p].snapSerial
      /\ new.snapFile = local[p].snapFile /\ new.deltas = kept
  <2>1. kept \in SUBSET DeltaRef
    BY <1>3
  <2> HIDE DEF kept
  <2> QED
    BY <1>3, <2>1, WithKept
<1>5. ExpiryStep(local[p], new, World, World', horizon[p])
  <2>1. ASSUME NEW r \in local[p].deltas, r.file <= horizon[p]
        PROVE  \E d \in World.deltas : d.file = r.file
    <3>1. r.file \in ExpiredFor(p, local[p].deltas)
      BY <2>1 DEF ExpiredFor, FilesOf
    <3> QED
      BY <1>1, <3>1, WorldFields
  <2>2. /\ World'.journal = World.journal /\ World'.rows = World.rows
        /\ World'.sequence = World.sequence /\ World'.created = World.created
        /\ World'.snapshots = World.snapshots /\ World'.deltas \subseteq World.deltas
    BY <1>1, WorldFields, WorldFieldsNext DEF databaseVars
  <2>3. new.deltas = {r \in local[p].deltas : r.file > horizon[p]}
    BY <1>4
  <2> HIDE DEF new
  <2> QED
    BY <1>3, <1>4, <2>1, <2>2, <2>3 DEF ExpiryStep
<1> HIDE DEF kept, new
<1>6. Others(p) /\ pc'[p] = "unf" /\ local'[p] = new
  BY <1>1, <1>2, StepOthers, Replaced
<1>7. FilesStep(World, World') /\ WorldOK(World') /\ WorldOK(World)
  BY <1>1, FilesLeft DEF LossInv
<1>8. Holds(p)
  BY <1>1 DEF Holds
<1>9. CASE overtaken
  BY <1>1, <1>7, <1>9 DEF LossInv
<1>10. CASE ~overtaken
  <2>1. HandsOK(p) /\ StateOK(local[p], World) /\ RefsOK(local[p], World)
    BY <1>8, <1>10 DEF LossInv, HandsOK, StateOK
  <2>2. StateOK(local'[p], World')
    BY <1>5, <1>6, <1>7, <2>1, ExpiryKeepsState
  <2>3. \A q \in Servers : q # p => ~initialising[q]
    BY <1>8, Alone
  <2>4. HandsOK(p)'
    <3>1. \A q \in Servers : q # p => local'[q] = local[q]
      BY <1>6 DEF Others
    <3> QED
      BY <1>1, <1>4, <1>6, <1>8, <2>1, <2>2, <3>1 DEF HandsOK, Lingers
  <2>5. ASSUME NEW q \in Servers, q # p, pc[q] = "relock", ~initialising'[p]
        PROVE  PendingOK(snapshot[q], local[q].session, local[q].version, maxSerial[q],
                         local'[p], World')
    <3>1. PendingOK(snapshot[q], local[q].session, local[q].version, maxSerial[q], local[p], World)
      BY <1>1, <1>8, <1>10, <2>5 DEF LossInv, HandsOK, Pending
    <3>2. local[q].version \in Nat
      BY TypeFacts, StatusFields
    <3> QED
      BY <1>5, <1>6, <1>7, <2>1, <3>1, <3>2, ExpiryKeepsPending
  <2>6. \A q \in Servers : q # p => snapshot'[q] = snapshot[q] /\ maxSerial'[q] = maxSerial[q]
    BY <1>1
  <2> QED
    BY <1>1, <1>6, <1>7, <2>3, <2>4, <2>5, <2>6, LossKept
<1> QED
  BY <1>9, <1>10

\* A status that differs from another one in its snapshot.
HasSnapshot(x, st, file, v, n) ==
    /\ x.force = st.force /\ x.session = st.session /\ x.version = st.version
    /\ x.snapVersion = v /\ x.snapSerial = n /\ x.snapFile = file /\ x.deltas = st.deltas

\* The fields of a status with another snapshot.
LEMMA SnapshotFields ==
    ASSUME NEW st \in StatusType, NEW file \in Nat, NEW v \in Nat, NEW n \in Nat
    PROVE  /\ AsSnapshot(st, file, v, n) \in StatusType
           /\ HasSnapshot(AsSnapshot(st, file, v, n), st, file, v, n)
  BY WithSnapshotFields DEF HasSnapshot

\* A run writes a snapshot of all objects.
LEMMA WriteSnapshotLossless ==
    ASSUME TypeInv, ShapeInv, LockInv, LossInv, NEW p \in Servers, WriteSnapshot(p)
    PROVE  LossInv'
<1> DEFINE s == [file |-> created + 1, session |-> local[p].session,
                 version |-> local[p].version, objects |-> rows]
<1>1. /\ pc[p] = "snapshot" /\ initialising' = initialising
      /\ maxSerial' = maxSerial /\ UNCHANGED databaseVars /\ status' = status
      /\ overtaken' = overtaken /\ deltaFiles' = deltaFiles
      /\ statusLock' = statusLock /\ snapshotLock' = snapshotLock /\ created' = created + 1
      /\ snapshotFiles' = snapshotFiles \union {s}
      /\ snapshot' = [snapshot EXCEPT ![p] = created + 1]
  BY DEF WriteSnapshot, databaseVars, boundVars
<1>2. snapshot'[p] = created + 1 /\ \A q \in Servers : q # p => snapshot'[q] = snapshot[q]
  BY <1>1, TypeFacts
<1>3. /\ local[p] \in StatusType /\ local[p].version \in Nat /\ local[p].session \in Nat
      /\ maxSerial[p] \in Nat /\ maxSerial[p] <= sequence /\ created \in Nat
  BY TypeFacts, StatusFields
<1>4. WorldOK(World)
  BY DEF LossInv
<1>5. /\ s.file = World.created + 1 /\ s.session = local[p].session /\ s.objects = World.rows
      /\ s \in SnapshotFile
  <2>1. rows \in Copies /\ created + 1 \in Nat
    BY <1>3, TypeFacts DEF Copies
  <2> QED
    BY <1>3, <2>1, WorldFields DEF SnapshotFile
<1> HIDE DEF s
<1>6. /\ World'.journal = World.journal /\ World'.rows = World.rows
      /\ World'.sequence = World.sequence /\ World'.created = World.created + 1
      /\ World'.deltas = World.deltas /\ World'.snapshots = World.snapshots \union {s}
      /\ World.created \in Nat
  BY <1>1, <1>4, WorldFields, WorldFieldsNext DEF databaseVars, WorldOK
<1>7. FilesStep(World, World')
  <2>1. s.file > World.created /\ World'.created \in Nat /\ World.created <= World'.created
    BY <1>5, <1>6
  <2> QED
    BY <1>6, <2>1 DEF FilesStep
<1>8. WorldOK(World')
  <2>1. World'.deltas \subseteq DeltaFile /\ World'.snapshots \subseteq SnapshotFile
    BY <1>4, <1>5, <1>6 DEF WorldOK
  <2>2. s.file <= World'.created
    BY <1>5, <1>6
  <2> QED
    BY <1>4, <1>6, <1>7, <2>1, <2>2, FilesKeepWorld
<1>9. CASE overtaken
  BY <1>1, <1>7, <1>8, <1>9 DEF LossInv
<1>10. \A f \in World'.snapshots : f.file = created + 1 => f = s
  <2>1. s \in World'.snapshots /\ s.file = created + 1
    BY <1>5, <1>6, WorldFields
  <2> QED
    BY <1>8, <2>1 DEF WorldOK
<1>11. CASE ~overtaken /\ initialising[p]
  <2>1. /\ pc' = [pc EXCEPT ![p] = "expire"]
        /\ local' = [local EXCEPT ![p] = WithSnapshot(p, local[p], created + 1)]
    BY <1>11 DEF WriteSnapshot
  <2>2. Others(p) /\ pc'[p] = "expire" /\ local'[p] = WithSnapshot(p, local[p], created + 1)
    BY <1>1, <2>1, StepOthers, Replaced
  <2>3. local'[p] = AsSnapshot(local[p], created + 1, local[p].version, maxSerial[p])
    BY <2>2 DEF WithSnapshot, AsSnapshot
  <2>4. /\ local'[p] \in StatusType
        /\ local'[p].session = local[p].session /\ local'[p].version = local[p].version
        /\ local'[p].snapVersion = local[p].version /\ local'[p].snapSerial = maxSerial[p]
        /\ local'[p].snapFile = created + 1 /\ local'[p].deltas = local[p].deltas
    <3>1. created + 1 \in Nat
      BY <1>3
    <3>2. /\ AsSnapshot(local[p], created + 1, local[p].version, maxSerial[p]) \in StatusType
          /\ HasSnapshot(AsSnapshot(local[p], created + 1, local[p].version, maxSerial[p]),
                         local[p], created + 1, local[p].version, maxSerial[p])
      BY <1>3, <3>1, SnapshotFields
    <3>3. /\ local'[p] \in StatusType
          /\ HasSnapshot(local'[p], local[p], created + 1, local[p].version, maxSerial[p])
      BY <2>3, <3>2
    <3> QED
      BY <3>3 DEF HasSnapshot
  <2>5. Holds(p) /\ HandsOK(p)
    BY <1>1, <1>11 DEF Holds, LossInv
  <2>6. RefsOK(local[p], World') /\ DeltasTrue(local[p], World')
    <3>1. StateOK(local[p], World')
      BY <1>4, <1>7, <2>5, FilesKeepState DEF HandsOK
    <3> QED
      BY <3>1 DEF StateOK
  <2>7. ASSUME NEW f \in World'.snapshots, f.file = created + 1
        PROVE  /\ local[p].version <= local[p].version
               /\ FromSerial(f.objects, maxSerial[p], World')
               /\ Covered(f.objects, local[p].version, local[p], World')
    <3>1. f.objects = World'.rows
      BY <1>5, <1>6, <1>10, <2>7
    <3>2. local[p].version <= local[p].version
      BY <1>3
    <3> QED
      BY <3>1, <3>2, RowsCover
  <2>8. StateOK(local'[p], World')
    <3>1. created + 1 \in Nat /\ created + 1 <= World'.created /\ maxSerial[p] <= World'.sequence
      BY <1>3, <1>6, WorldFields
    <3> QED
      BY <1>3, <1>8, <2>4, <2>6, <2>7, <3>1, SnapshotPut
  <2>9. HandsOK(p)'
    <3>1. initialising'[p]
      BY <1>1, <1>11
    <3>2. \A q \in Servers : q # p => local'[q].session < local'[p].session
      BY <1>11, <2>2, <2>4, <2>5 DEF HandsOK, Others
    <3> QED
      BY <2>2, <2>8, <3>1, <3>2 DEF HandsOK, Lingers
  <2>10. \A q \in Servers : q # p => ~initialising[q]
    BY <2>5, Alone
  <2>11. initialising'[p]
    BY <1>1, <1>11
  <2> QED
    BY <1>1, <1>2, <1>7, <1>8, <2>2, <2>9, <2>10, <2>11, LossKept
<1>12. CASE ~overtaken /\ ~initialising[p]
  <2>1. pc' = [pc EXCEPT ![p] = "relock"] /\ local' = local
    BY <1>12 DEF WriteSnapshot
  <2>2. Others(p) /\ pc'[p] = "relock"
    BY <1>1, <2>1, StepOthers
  <2>3. HandsOK(p) /\ Lingers(p)
    BY <1>1, <1>12 DEF Lingers, LossInv
  <2>4. \A st, v, n : PendingOK(created + 1, local[p].session, v, n, st, World')
    <3>1. ASSUME NEW f \in World'.snapshots, f.file = created + 1 PROVE f.objects = World'.rows
      BY <1>5, <1>6, <1>10, <3>1
    <3> QED
      BY <3>1, RowsCover DEF PendingOK
  <2>5. \A st : Pending(p, st)' <=>
                  PendingOK(created + 1, local[p].session, local[p].version, maxSerial[p], st, World')
    BY <1>1, <1>2, <2>1 DEF Pending
  <2>6. \A f \in snapshotFiles' : f.file = snapshot'[p] => f.session = local'[p].session
    BY <1>2, <1>5, <1>10, <2>1, WorldFieldsNext
  <2>7. ~Holds(p)' /\ ~initialising'[p] /\ (Lingers(p)' => Lingers(p))
    BY <1>1, <1>12, <2>2, <2>3 DEF Holds
  <2>8. Pending(p, status)' /\ \A q \in Servers : Pending(p, local[q])'
    BY <1>1, <1>2, <2>1, <2>4 DEF Pending
  <2>9. HandsOK(p)'
    BY <1>1, <2>1, <2>3, <2>6, <2>7, <2>8 DEF HandsOK
  <2>10. \A q \in Servers : q # p /\ initialising[q] => local'[p].session < local[q].session
    BY <1>12, <2>1, OthersBehind
  <2> QED
    BY <1>1, <1>2, <1>7, <1>8, <2>2, <2>7, <2>9, <2>10, LossKept
<1> QED
  BY <1>9, <1>11, <1>12

\* A run puts its snapshot in the status that others have replaced.
LEMMA RelockLossless ==
    ASSUME TypeInv, ShapeInv, LockInv, LossInv, NEW p \in Servers, Relock(p)
    PROVE  LossInv'
<1>1. /\ pc[p] = "relock" /\ pc' = [pc EXCEPT ![p] = "expire"] /\ initialising' = initialising
      /\ local' = [local EXCEPT ![p] = WithSnapshot(p, status, snapshot[p])]
      /\ maxSerial' = maxSerial /\ snapshot' = snapshot /\ UNCHANGED databaseVars
      /\ status' = status /\ statusLock = None
      /\ overtaken' = overtaken /\ deltaFiles' = deltaFiles /\ snapshotFiles' = snapshotFiles
      /\ statusLock' = p /\ snapshotLock' = snapshotLock /\ created' = created
  BY DEF Relock, databaseVars, diskVars, boundVars
<1>2. Others(p) /\ pc'[p] = "expire" /\ local'[p] = WithSnapshot(p, status, snapshot[p])
  BY <1>1, StepOthers, Replaced
<1>3. FilesStep(World, World') /\ WorldOK(World') /\ WorldOK(World)
  BY <1>1, FilesLeft DEF LossInv
<1>4. status \in StatusType /\ status.version \in Nat
  <2>1. status # None
    BY <1>1 DEF TypeInv
  <2> QED
    BY <2>1, TypeFacts, StatusFields
<1>5. /\ local[p].version \in Nat /\ snapshot[p] \in Nat /\ snapshot[p] <= created
      /\ maxSerial[p] \in Nat /\ maxSerial[p] <= sequence
  BY TypeFacts, StatusFields
<1>6. local'[p] = AsSnapshot(status, snapshot[p], local[p].version, maxSerial[p])
  BY <1>2 DEF WithSnapshot, AsSnapshot
<1>7. /\ local'[p] \in StatusType
      /\ local'[p].session = status.session /\ local'[p].version = status.version
      /\ local'[p].snapVersion = local[p].version /\ local'[p].snapSerial = maxSerial[p]
      /\ local'[p].snapFile = snapshot[p] /\ local'[p].deltas = status.deltas
  <2>1. /\ AsSnapshot(status, snapshot[p], local[p].version, maxSerial[p]) \in StatusType
        /\ HasSnapshot(AsSnapshot(status, snapshot[p], local[p].version, maxSerial[p]),
                       status, snapshot[p], local[p].version, maxSerial[p])
    BY <1>4, <1>5, SnapshotFields
  <2>2. /\ local'[p] \in StatusType
        /\ HasSnapshot(local'[p], status, snapshot[p], local[p].version, maxSerial[p])
    BY <1>6, <2>1
  <2> QED
    BY <2>2 DEF HasSnapshot
<1>8. \A q \in Servers : ~Holds(q) /\ ~initialising[q]
  <2>1. \A q \in Servers : ~Holds(q)
    BY <1>1, LockTaken
  <2> QED
    BY <2>1 DEF LockInv, LockOK, Holds
<1>9. CASE overtaken
  BY <1>1, <1>3, <1>9 DEF LossInv
<1>10. CASE ~overtaken
  <2>1. StateOK(status, World) /\ HandsOK(p)
    BY <1>4, <1>10, StatusFields DEF LossInv
  <2>2. Lingers(p)
    BY <1>1, <1>8 DEF Lingers
  <2>3. ASSUME NEW s \in World.snapshots, s.file = snapshot[p], s.session = status.session
        PROVE  /\ local[p].version <= status.version
               /\ FromSerial(s.objects, maxSerial[p], World)
               /\ Covered(s.objects, local[p].version, status, World)
    <3>1. s.session = local[p].session
      BY <1>1, <2>1, <2>3, WorldFields DEF HandsOK
    <3>2. local[p].version <= status.version
      BY <2>1, <2>2, <2>3, <3>1 DEF HandsOK
    <3>3. PendingOK(snapshot[p], local[p].session, local[p].version, maxSerial[p], status, World)
      BY <1>1, <2>1 DEF HandsOK, Pending
    <3> QED
      BY <2>3, <3>1, <3>2, <3>3 DEF PendingOK
  <2>4. StateOK(local'[p], World)
    <3>1. RefsOK(status, World) /\ DeltasTrue(status, World)
      BY <2>1 DEF StateOK
    <3>2. snapshot[p] <= World.created /\ maxSerial[p] <= World.sequence
      BY <1>5, WorldFields
    <3> QED
      BY <1>3, <1>5, <1>7, <2>3, <3>1, <3>2, SnapshotPut
  <2>5. StateOK(local'[p], World')
    BY <1>3, <2>4, FilesKeepState
  <2>6. HandsOK(p)'
    <3>1. local'[p].session = status'.session /\ status'.version <= local'[p].version
      BY <1>1, <1>4, <1>7
    <3>2. ~initialising'[p] /\ ~Lingers(p)'
      BY <1>1, <1>2, <1>8 DEF Lingers
    <3> QED
      BY <1>2, <2>5, <3>1, <3>2 DEF HandsOK
  <2>7. \A q \in Servers : q # p => pc[q] # "relock"
    <3>1. snapshotLock = p
      BY <1>1 DEF LockInv, LockOK
    <3> QED
      BY <3>1 DEF LockInv, LockOK
  <2>8. \A q \in Servers : q # p => snapshot'[q] = snapshot[q] /\ maxSerial'[q] = maxSerial[q]
    BY <1>1
  <2> QED
    BY <1>1, <1>2, <1>3, <1>8, <2>6, <2>7, <2>8, LossKept
<1> QED
  BY <1>9, <1>10

\* A run commits what it has in hand.
LEMMA CommitsLossless ==
    ASSUME TypeInv, ShapeInv, LockInv, LossInv, NEW p \in Servers, CommitDelta(p) \/ CommitSnapshot(p)
    PROVE  LossInv'
<1>1. /\ pc[p] = "commit" /\ status' = [local[p] EXCEPT !.force = FALSE]
      /\ rows' = rows /\ journal' = journal /\ sequence' = sequence
      /\ created' = created /\ overtaken' = overtaken /\ deltaFiles' = deltaFiles
      /\ snapshotFiles' = snapshotFiles
  BY DEF CommitDelta, CommitSnapshot, Record, diskVars, boundVars
<1>2. /\ Others(p) /\ (CommitDelta(p) => pc'[p] = "decide" /\ local'[p] = local[p]
                                         /\ initialising'[p] = initialising[p] /\ snapshotLock # p)
      /\ (CommitSnapshot(p) => pc'[p] = "idle" /\ initialising'[p] = FALSE)
      /\ \A q \in Servers : q # p => snapshot'[q] = snapshot[q] /\ maxSerial'[q] = maxSerial[q]
  BY TypeFacts DEF CommitDelta, CommitSnapshot, EndRun, Others
<1>3. World' = World
  BY <1>1 DEF World
<1>4. Holds(p) /\ \A q \in Servers : q # p => ~Holds(q) /\ ~initialising[q]
  <2>1. Holds(p)
    BY <1>1 DEF Holds
  <2> QED
    BY <2>1, Alone
<1>5. /\ status' \in StatusType /\ status'.session = local[p].session
      /\ status'.version = local[p].version /\ status'.deltas = local[p].deltas
      /\ status'.snapVersion = local[p].snapVersion /\ status'.snapSerial = local[p].snapSerial
      /\ status'.snapFile = local[p].snapFile
  <2>1. status' = AsForced(local[p], FALSE)
    BY <1>1 DEF AsForced
  <2> QED
    BY <2>1, TypeFacts, WithForce
<1>6. CASE overtaken
  BY <1>1, <1>3, <1>6 DEF LossInv
<1>7. CASE ~overtaken
  <2>1. WorldOK(World) /\ HandsOK(p) /\ StateOK(local[p], World)
    BY <1>4, <1>7 DEF LossInv, HandsOK
  <2>2. /\ StateOK(status', World)
        /\ \A file, session, v, n : PendingOK(file, session, v, n, local[p], World)
                                           => PendingOK(file, session, v, n, status', World)
    BY <1>5, <2>1, SameButForce
  <2>3. ~initialising'[p] /\ ~Holds(p)'
    <3>1. CommitDelta(p) => ~initialising[p]
      BY <1>1, <1>2 DEF LockInv, LockOK
    <3> QED
      BY <1>2, <3>1 DEF Holds
  <2>4. HandsOK(p)'
    <3>1. Lingers(p)' => local'[p].version <= status'.version
      <4>1. Lingers(p)' => local'[p] = local[p]
        BY <1>2 DEF Lingers
      <4>2. local[p].version <= local[p].version
        BY TypeFacts, StatusFields
      <4> QED
        BY <1>5, <4>1, <4>2
    <3>2. pc'[p] # "relock"
      BY <1>2
    <3> QED
      BY <2>3, <3>1, <3>2 DEF HandsOK
  <2>5. ASSUME NEW q \in Servers, q # p PROVE HandsOK(q)'
    <3>1. /\ pc'[q] = pc[q] /\ local'[q] = local[q] /\ initialising'[q] = initialising[q]
          /\ snapshot'[q] = snapshot[q] /\ maxSerial'[q] = maxSerial[q]
      BY <1>2, <2>5 DEF Others
    <3>2. HandsOK(q) /\ ~Holds(q) /\ ~initialising[q]
      BY <1>4, <1>7, <2>5 DEF LossInv
    <3>3. ~Holds(q)' /\ ~initialising'[q] /\ (Lingers(q)' => Lingers(q))
      BY <3>1, <3>2 DEF Holds, Lingers
    <3>4. Lingers(q)' /\ local'[q].session = status'.session => local'[q].version <= status'.version
      <4> SUFFICES ASSUME Lingers(q), local[q].session = local[p].session
                   PROVE  local[q].version <= local[p].version
        BY <1>5, <3>1, <3>3
      <4>1. CASE initialising[p]
        <5>1. local[q].session < local[p].session
          BY <2>1, <2>5, <4>1 DEF HandsOK
        <5>2. local[q].session \in Nat /\ local[p].session \in Nat
          BY TypeFacts, StatusFields
        <5> QED
          BY <5>1, <5>2
      <4>2. CASE ~initialising[p]
        <5>1. local[p].session = status.session /\ status.version <= local[p].version
          BY <1>4, <2>1, <4>2 DEF HandsOK
        <5>2. local[q].version <= status.version
          BY <3>2, <5>1 DEF HandsOK
        <5>3. status.version \in Nat /\ local[p].version \in Nat /\ local[q].version \in Nat
          <6>1. status # None
            BY <1>1 DEF TypeInv
          <6> QED
            BY <6>1, TypeFacts, StatusFields
        <5> QED
          BY <5>1, <5>2, <5>3
      <4> QED
        BY <4>1, <4>2
    <3>5. ASSUME pc[q] = "relock"
          PROVE  /\ \A s \in snapshotFiles' : s.file = snapshot'[q] => s.session = local'[q].session
                 /\ Pending(q, status)'
                 /\ \A r \in Servers : r # q /\ Holds(r)' /\ ~initialising'[r] => Pending(q, local[r])'
      <4>1. \A s \in snapshotFiles' : s.file = snapshot'[q] => s.session = local'[q].session
        BY <1>1, <3>1, <3>2, <3>5 DEF HandsOK
      <4>2. PendingOK(snapshot[q], local[q].session, local[q].version, maxSerial[q], status', World)
        <5>1. CASE initialising[p]
          <6>1. local[q].session # status'.session
            <7>1. local[q].session < local[p].session
              BY <2>1, <2>5, <5>1 DEF HandsOK
            <7>2. local[q].session \in Nat /\ local[p].session \in Nat
              BY TypeFacts, StatusFields
            <7> QED
              BY <1>5, <7>1, <7>2
          <6> QED
            BY <6>1 DEF PendingOK
        <5>2. CASE ~initialising[p]
          <6>1. PendingOK(snapshot[q], local[q].session, local[q].version, maxSerial[q], local[p], World)
            BY <1>4, <2>5, <3>2, <3>5, <5>2 DEF HandsOK, Pending
          <6> QED
            BY <2>2, <6>1
        <5> QED
          BY <5>1, <5>2
      <4>3. \A r \in Servers : ~Holds(r)'
        <5>1. ASSUME NEW r \in Servers, r # p PROVE ~Holds(r)'
          BY <1>2, <1>4, <5>1 DEF Others, Holds
        <5> QED
          BY <2>3, <5>1
      <4> QED
        BY <1>3, <3>1, <4>1, <4>2, <4>3 DEF Pending
    <3> QED
      BY <3>1, <3>3, <3>4, <3>5 DEF HandsOK
  <2>6. LossInv'
    <3>1. WorldOK(World') /\ StateOK(status', World')
      BY <1>3, <2>1, <2>2
    <3>2. \A q \in Servers : HandsOK(q)'
      BY <2>4, <2>5
    <3> QED
      BY <3>1, <3>2 DEF LossInv
  <2> QED
    BY <2>6
<1> QED
  BY <1>6, <1>7

\* Every step of a run.
LEMMA RunLossless ==
    ASSUME TypeInv, ShapeInv, LockInv, LossInv, NEW p \in Servers, Run(p) \/ Crash(p)
    PROVE  LossInv'
<1>1. CASE \/ Cancel(p) \/ Fail(p) \/ SkipSnapshot(p) \/ (SnapshotLocked(p) /\ statusLock # p)
           \/ Crash(p)
  <2>1. /\ EndRun(p) /\ UNCHANGED databaseVars /\ created' = created /\ overtaken' = overtaken
        /\ deltaFiles' \subseteq deltaFiles /\ snapshotFiles' \subseteq snapshotFiles
    BY <1>1 DEF Cancel, Fail, SkipSnapshot, SnapshotLocked, Crash, diskVars, boundVars
  <2> QED
    BY <2>1, EndsLossless
<1>2. CASE \/ Start(p) \/ LockSnapshot(p) \/ (SnapshotLocked(p) /\ statusLock = p)
           \/ ExpireSnapshots(p) \/ WriteUnf(p)
  BY <1>2, PlainLossless
<1>3. CASE Resume(p)
  BY <1>3, ResumeLossless
<1>4. CASE Initialise(p)
  BY <1>4, InitialiseLossless
<1>5. CASE WriteDelta(p)
  BY <1>5, WriteDeltaLossless
<1>6. CASE ExpireDeltas(p)
  BY <1>6, ExpireDeltasLossless
<1>7. CASE WriteSnapshot(p)
  BY <1>7, WriteSnapshotLossless
<1>8. CASE Relock(p)
  BY <1>8, RelockLossless
<1>9. CASE CommitDelta(p) \/ CommitSnapshot(p)
  BY <1>9, CommitsLossless
<1> QED
  BY <1>1, <1>2, <1>3, <1>4, <1>5, <1>6, <1>7, <1>8, <1>9 DEF Run

\* A step of another process that makes no file and keeps what statuses say.
LEMMA OutsideLossless ==
    ASSUME TypeInv, LossInv, UNCHANGED runVars, overtaken' = overtaken,
           snapshotFiles' = snapshotFiles, WorldOK(World'),
           \A st : StateOK(st, World) => StateOK(st, World'),
           \A st, file, session, v : \A n \in Nat :
               RefsOK(st, World) /\ n <= World.sequence /\ PendingOK(file, session, v, n, st, World)
                   => PendingOK(file, session, v, n, st, World'),
           IF status = None THEN status' \in {None, EmptyStatus} ELSE SameRow(status', status)
    PROVE  LossInv'
<1>1. CASE overtaken
  BY <1>1 DEF LossInv
<1>2. CASE ~overtaken
  <2>1. (status # None => StateOK(status, World)) /\ \A q \in Servers : HandsOK(q)
    BY <1>2 DEF LossInv
  <2>2. /\ pc' = pc /\ local' = local /\ initialising' = initialising
        /\ maxSerial' = maxSerial /\ snapshot' = snapshot
    BY DEF runVars
  <2>3. \A p \in Servers : (Holds(p)' <=> Holds(p)) /\ (Lingers(p)' <=> Lingers(p))
    BY <2>2 DEF Holds, Lingers
  <2>4. ASSUME status' # None PROVE StateOK(status', World')
    <3>1. CASE status = None
      <4>1. status' = EmptyStatus
        BY <2>4, <3>1
      <4>2. EmptyStatus.snapFile <= World'.created
        BY EmptyFields DEF WorldOK
      <4> QED
        BY <4>1, <4>2, EmptyFields, EmptyState
    <3>2. CASE status # None
      <4>1. StateOK(status, World')
        BY <2>1, <3>2
      <4> QED
        BY <3>2, <4>1, SameButForce DEF SameRow
    <3> QED
      BY <3>1, <3>2
  <2>5. ASSUME NEW p \in Servers PROVE HandsOK(p)'
    <3>1. HandsOK(p)
      BY <2>1
    <3>2. Holds(p)' => StateOK(local'[p], World')
      BY <2>2, <2>3, <3>1 DEF HandsOK
    <3>3. CASE status = None
      <4>1. pc[p] \in {"idle", "start"}
        BY <3>3 DEF TypeInv
      <4>2. ~Holds(p) /\ ~Lingers(p) /\ pc[p] # "relock"
        BY <4>1 DEF Holds, Lingers
      <4> QED
        BY <2>2, <2>3, <3>1, <4>2 DEF HandsOK
    <3>4. CASE status # None
      <4>1. status'.session = status.session /\ status'.version = status.version
        BY <3>4 DEF SameRow
      <4>2. ASSUME pc[p] = "relock"
            PROVE  Pending(p, status)' /\ \A q \in Servers :
                      q # p /\ Holds(q) /\ ~initialising[q] => Pending(p, local[q])'
        <5>1. maxSerial[p] \in Nat /\ maxSerial[p] <= World.sequence
          BY TypeFacts, WorldFields
        <5>2. PendingOK(snapshot[p], local[p].session, local[p].version, maxSerial[p], status', World')
          <6>1. PendingOK(snapshot[p], local[p].session, local[p].version, maxSerial[p], status, World)
            BY <3>1, <4>2 DEF HandsOK, Pending
          <6>2. RefsOK(status, World)
            BY <2>1, <3>4 DEF StateOK
          <6>3. PendingOK(snapshot[p], local[p].session, local[p].version, maxSerial[p], status, World')
            BY <5>1, <6>1, <6>2
          <6> QED
            BY <3>4, <6>3, SameButForce DEF SameRow
        <5>3. ASSUME NEW q \in Servers, q # p, Holds(q), ~initialising[q]
              PROVE  PendingOK(snapshot[p], local[p].session, local[p].version, maxSerial[p],
                               local[q], World')
          <6>1. PendingOK(snapshot[p], local[p].session, local[p].version, maxSerial[p],
                          local[q], World)
            BY <3>1, <4>2, <5>3 DEF HandsOK, Pending
          <6>2. RefsOK(local[q], World)
            BY <2>1, <5>3 DEF HandsOK, StateOK
          <6> QED
            BY <5>1, <6>1, <6>2
        <5> QED
          BY <2>2, <5>2, <5>3 DEF Pending
      <4> QED
        BY <2>2, <2>3, <3>1, <3>2, <4>1, <4>2 DEF HandsOK
    <3> QED
      BY <3>3, <3>4
  <2> QED
    BY <2>4, <2>5 DEF LossInv
<1> QED
  BY <1>1, <1>2

\* The entry of a transaction.
LEMMA EntryStep ==
    ASSUME WorldOK(World), sequence \in Nat, UNCHANGED diskVars,
           NEW o \in Objects \union {None}, NEW t \in Texts \union {None},
           journal' = journal \union {[glob |-> sequence + 1, obj |-> o, text |-> t]},
           sequence' = sequence + 1, rows' \in [Objects -> Texts \union {None}],
           \A q \in Objects : IF o = q THEN rows'[q] = t ELSE rows'[q] = rows[q]
    PROVE  JournalStep(World, World')
<1>1. /\ World'.journal = World.journal \union {[glob |-> sequence + 1, obj |-> o, text |-> t]}
      /\ World'.sequence = World.sequence + 1 /\ World'.sequence = sequence + 1
      /\ World'.rows = rows' /\ World.rows = rows /\ World'.rows \in Copies
      /\ World'.deltas = World.deltas /\ World'.snapshots = World.snapshots
      /\ World'.created = World.created
  BY WorldFields, WorldFieldsNext DEF Copies, diskVars
<1>2. [glob |-> sequence + 1, obj |-> o, text |-> t] \in Entry
  BY DEF Entry
<1> QED
  BY <1>1, <1>2 DEF JournalStep

\* A transaction adds an entry to the journal.
LEMMA EntryLossless ==
    ASSUME TypeInv, LossInv, UNCHANGED <<diskVars, runVars, boundVars>>,
           NEW o \in Objects \union {None}, NEW t \in Texts \union {None},
           journal' = journal \union {[glob |-> sequence + 1, obj |-> o, text |-> t]},
           sequence' = sequence + 1, rows' \in [Objects -> Texts \union {None}],
           \A q \in Objects : IF o = q THEN rows'[q] = t ELSE rows'[q] = rows[q],
           status' = status \/ (status = None /\ status' = EmptyStatus)
    PROVE  LossInv'
<1>1. /\ snapshotFiles' = snapshotFiles /\ deltaFiles' = deltaFiles /\ created' = created
      /\ overtaken' = overtaken
  BY DEF diskVars, boundVars
<1>2. WorldOK(World) /\ sequence \in Nat
  BY TypeFacts DEF LossInv
<1>3. JournalStep(World, World')
  BY <1>2, EntryStep
<1>4. WorldOK(World')
  BY <1>2, <1>3, JournalKeepsWorld
<1>5. \A st : StateOK(st, World) => StateOK(st, World')
  BY <1>2, <1>3, JournalKeepsState
<1>6. \A st, file, session, v : \A n \in Nat :
         RefsOK(st, World) /\ n <= World.sequence /\ PendingOK(file, session, v, n, st, World)
             => PendingOK(file, session, v, n, st, World')
  BY <1>2, <1>3, JournalKeepsPending
<1>7. IF status = None THEN status' \in {None, EmptyStatus} ELSE SameRow(status', status)
  BY TypeFacts DEF SameRow
<1> QED
  BY <1>1, <1>4, <1>5, <1>6, <1>7, OutsideLossless

\* A full import while runs are idle leaves nothing that a status could have lost.
LEMMA ReloadLossless ==
    ASSUME TypeInv, LockInv, LossInv, NEW objects \in [Objects -> Texts \union {None}],
           Reload(objects)
    PROVE  LossInv'
<1>1. /\ rows' = objects /\ journal' = journal \ Own(journal) /\ sequence' = sequence
      /\ snapshotFiles' = snapshotFiles /\ deltaFiles' = deltaFiles /\ created' = created
      /\ UNCHANGED runVars /\ status' = EmptyStatus
      /\ overtaken' = (overtaken \/ \E p \in Servers : pc[p] # "idle")
  BY DEF Reload, diskVars
<1>2. WorldOK(World)
  BY DEF LossInv
<1>3. /\ World'.rows \in Copies /\ World'.sequence = World.sequence
      /\ World'.deltas = World.deltas /\ World'.snapshots = World.snapshots
      /\ World'.created = World.created /\ World'.journal \subseteq World.journal
      /\ \A e \in World'.journal : e.obj = None
  BY <1>1, WorldFields, WorldFieldsNext DEF Copies, Own
<1>4. WorldOK(World')
  <2>1. \A o \in Objects : ~HasEntry(World'.journal, o)
    BY <1>3, NoneAssumption DEF HasEntry
  <2>2. World'.journal \subseteq Entry /\ Numbered(World'.journal)
    BY <1>2, <1>3 DEF WorldOK, Numbered
  <2>3. \A e \in World'.journal : e.glob <= World'.sequence
    BY <1>2, <1>3 DEF WorldOK
  <2> QED
    BY <1>2, <1>3, <2>1, <2>2, <2>3 DEF WorldOK
<1>5. ASSUME ~overtaken' PROVE StateOK(status', World') /\ \A p \in Servers : HandsOK(p)'
  <2>1. EmptyStatus.snapFile <= World'.created
    BY <1>4, EmptyFields DEF WorldOK
  <2>2. StateOK(status', World')
    BY <1>1, <1>4, <2>1, EmptyFields, EmptyState
  <2>3. ASSUME NEW p \in Servers PROVE HandsOK(p)'
    <3>1. pc[p] = "idle"
      BY <1>1, <1>5
    <3>2. ~initialising[p] /\ pc' = pc /\ initialising' = initialising
      BY <1>1, <3>1 DEF LockInv, LockOK, runVars
    <3> QED
      BY <3>1, <3>2 DEF HandsOK, Holds, Lingers
  <2> QED
    BY <2>2, <2>3
<1> QED
  BY <1>4, <1>5 DEF LossInv

\* The other processes.
LEMMA EnvironmentLossless ==
    ASSUME TypeInv, LockInv, LossInv, Environment
    PROVE  LossInv'
<1>1. ASSUME NEW o \in Objects, NEW t \in Texts \union {None}, Change(o, t) PROVE LossInv'
  <2>1. /\ UNCHANGED <<diskVars, runVars, boundVars>> /\ sequence' = sequence + 1
        /\ journal' = journal \union {[glob |-> sequence + 1, obj |-> o, text |-> t]}
        /\ rows' = [rows EXCEPT ![o] = t]
        /\ status' = status \/ (status = None /\ status' = EmptyStatus)
    BY <1>1 DEF Change, StatusKept
  <2>2. /\ rows' \in [Objects -> Texts \union {None}]
        /\ \A q \in Objects : IF o = q THEN rows'[q] = t ELSE rows'[q] = rows[q]
    BY <2>1, TypeFacts
  <2>3. o \in Objects \union {None}
    OBVIOUS
  <2> QED
    BY <2>1, <2>2, <2>3, EntryLossless
<1>2. CASE ChangeElsewhere
  <2>1. /\ UNCHANGED <<diskVars, runVars, boundVars>> /\ sequence' = sequence + 1
        /\ journal' = journal \union {[glob |-> sequence + 1, obj |-> None, text |-> None]}
        /\ rows' = rows /\ status' = status
    BY <1>2 DEF ChangeElsewhere
  <2>2. /\ rows' \in [Objects -> Texts \union {None}]
        /\ \A q \in Objects : IF None = q THEN rows'[q] = None ELSE rows'[q] = rows[q]
    BY <2>1, TypeFacts, NoneAssumption
  <2>3. None \in Objects \union {None} /\ None \in Texts \union {None}
    OBVIOUS
  <2> QED
    BY <2>1, <2>2, <2>3, EntryLossless
<1>3. ASSUME NEW objects \in [Objects -> Texts \union {None}], Reload(objects) PROVE LossInv'
  BY <1>3, ReloadLossless
<1>4. CASE SetForceReload \/ DayPasses
  <2>1. /\ UNCHANGED <<rows, journal, sequence, diskVars, runVars, overtaken>>
        /\ status' = status \/ (status # None /\ status' = [status EXCEPT !.force = TRUE])
    BY <1>4 DEF SetForceReload, DayPasses, databaseVars, boundVars
  <2>2. World' = World /\ snapshotFiles' = snapshotFiles
    BY <2>1 DEF World, diskVars
  <2>3. IF status = None THEN status' \in {None, EmptyStatus} ELSE SameRow(status', status)
    <3>1. status # None => SameRow(AsForced(status, TRUE), status) /\ SameRow(status, status)
      BY TypeFacts, WithForce DEF SameRow
    <3> QED
      BY <2>1, <3>1 DEF AsForced
  <2>4. WorldOK(World')
    BY <2>2 DEF LossInv
  <2> QED
    BY <2>1, <2>2, <2>3, <2>4, OutsideLossless
<1> QED
  BY <1>1, <1>2, <1>3, <1>4 DEF Environment

\* A step that changes nothing the server works with.
LEMMA UntouchedLossless ==
    ASSUME TypeInv, LossInv, UNCHANGED <<databaseVars, diskVars, runVars, overtaken>>
    PROVE  LossInv'
<1>1. World' = World /\ snapshotFiles' = snapshotFiles /\ status' = status
  BY DEF World, diskVars, databaseVars
<1>2. IF status = None THEN status' \in {None, EmptyStatus} ELSE SameRow(status', status)
  BY <1>1, TypeFacts DEF SameRow
<1>3. WorldOK(World')
  BY <1>1 DEF LossInv
<1> QED
  BY <1>1, <1>2, <1>3, OutsideLossless

\* Every step.
LEMMA LossNext ==
    TypeInv /\ ShapeInv /\ LockInv /\ LossInv /\ [MirrorNext]_<<scenario, mirrorVars>> => LossInv'
<1> SUFFICES ASSUME TypeInv, ShapeInv, LockInv, LossInv, [MirrorNext]_<<scenario, mirrorVars>>
             PROVE  LossInv'
  OBVIOUS
<1>1. CASE UNCHANGED <<scenario, mirrorVars>> \/ ClientStep \/ ClientForceReload \/ ClientAbort
  <2>1. UNCHANGED <<databaseVars, diskVars, runVars, overtaken>>
    BY <1>1 DEF mirrorVars, serverVars, diskVars, boundVars, ClientStep, ClientForceReload,
       ClientAbort, OnServer, Client!ClientRun, Client!RetrieveUnf, Client!LoadSnapshot,
       Client!LoadDelta, Client!Finish, Client!Refuse, Client!ForceReload, Client!Abort, Client!files
  <2> QED
    BY <2>1, UntouchedLossless
<1>2. CASE Environment
  BY <1>2, EnvironmentLossless
<1>3. ASSUME NEW p \in Setup[scenario].servers, Run(p) \/ Crash(p) PROVE LossInv'
  <2>1. p \in Servers
    BY SetupAssumption DEF ShapeInv
  <2> QED
    BY <1>3, <2>1, RunLossless
<1> QED
  BY <1>1, <1>2, <1>3 DEF MirrorNext, ServerStep, Next

\* Nothing is lost at the start.
LEMMA LossInit == Init => LossInv
<1> SUFFICES ASSUME Init PROVE LossInv
  OBVIOUS
<1>1. /\ World.journal = {} /\ World.sequence = 0 /\ World.created = 0
      /\ World.deltas = {} /\ World.snapshots = {} /\ World.rows \in Copies
  BY WorldFields DEF Init, Copies
<1>2. WorldOK(World)
  BY <1>1 DEF WorldOK, Numbered, HasEntry
<1>3. \A p \in Servers : HandsOK(p)
  BY DEF Init, HandsOK, Holds, Lingers
<1> QED
  BY <1>2, <1>3 DEF Init, LossInv

-----------------------------------------------------------------------------
(* Nothing is lost: what the invariant says about mirrors *)

\* The latest entry about an object is the one whose serial is the highest.
LEMMA LatestIs ==
    ASSUME NEW E, E \subseteq Entry, Numbered(E), NEW o, NEW t, LastText(E, o, t)
    PROVE  About(E, o) # {} /\ Latest(About(E, o)).text = t
<1>1. PICK e \in E : e.obj = o /\ e.text = t /\ \A f \in E : f.obj = o => f.glob <= e.glob
  BY DEF LastText
<1>2. e \in About(E, o) /\ \A f \in About(E, o) : f \in E /\ f.glob <= e.glob
  BY <1>1 DEF About
<1>3. ASSUME NEW m \in About(E, o), \A f \in About(E, o) : f.glob <= m.glob PROVE m = e
  <2>1. m \in E /\ m.glob <= e.glob /\ e.glob <= m.glob /\ m.glob \in Nat /\ e.glob \in Nat
    BY <1>2, <1>3 DEF Entry
  <2>2. m.glob = e.glob
    BY <2>1
  <2> QED
    BY <2>1, <2>2 DEF Numbered
<1>4. Latest(About(E, o)) = e
  BY <1>2, <1>3 DEF Latest
<1> QED
  BY <1>1, <1>2, <1>4

\* The newest of some deltas of a status is the one whose version is the highest.
LEMMA NewestOf ==
    ASSUME NEW st, NEW w, RefsOK(st, w), NEW R, R \subseteq st.deltas, R # {}
    PROVE  Newest(R) \in R /\ \A q \in R : q.version <= Newest(R).version
<1>1. st.version \in Nat /\ st.deltas \subseteq DeltaRef
  BY StatusFields DEF RefsOK
<1>2. \A r \in R : r.version \in Nat /\ r.version <= st.version
  BY <1>1 DEF RefsOK, DeltaRef
<1> DEFINE V == {r.version : r \in R}
<1>3. V \subseteq Nat /\ V # {} /\ \A v \in V : v <= st.version
  BY <1>2
<1>4. Max(V) \in V /\ \A v \in V : v <= Max(V)
  BY <1>1, <1>3, MaxExists
<1>5. PICK r \in R : r.version = Max(V)
  BY <1>4
<1>6. \A q \in R : q.version <= r.version
  BY <1>4, <1>5
<1> QED
  BY <1>5, <1>6 DEF Newest

\* The snapshot of a status and its deltas reach the rows.
LEMMA SnapshotReaches ==
    ASSUME NEW st, NEW w, NEW s \in w.snapshots, StateOK(st, w), WorldOK(w),
           s.file = st.snapFile, s.session = st.session, st.snapVersion # 0,
           AllThere(st, w), Connected(st, st.snapVersion)
    PROVE  Reaches(s.objects, st.snapVersion, st, w)
<1>1. RefsOK(st, w) /\ FromSerial(s.objects, st.snapSerial, w)
      /\ Covered(s.objects, st.snapVersion, st, w)
  BY DEF StateOK, SnapshotOK
<1>2. CASE st.deltas = {}
  <2>1. DeltaStart(st) = st.snapSerial + 1 /\ st.snapSerial \in Nat
    BY <1>1, <1>2, StartBounds
  <2>2. \A e \in w.journal : e.glob \in Nat
    BY DEF WorldOK, Entry
  <2>3. \A o \in Objects : Coming(o, st, w) <=> \E e \in w.journal : e.obj = o /\ e.glob > st.snapSerial
    BY <2>1, <2>2 DEF Coming
  <2> QED
    BY <1>1, <2>3 DEF FromSerial, Reaches
<1>3. CASE st.deltas # {}
  BY <1>1, <1>3 DEF Covered, Reaches
<1> QED
  BY <1>2, <1>3

\* A mirror with copies that reach the rows has them with the deltas, but for what the
\* next delta will hold.
LEMMA DeltasGiveRows ==
    ASSUME NEW st, StateOK(st, World), WorldOK(World), AllThere(st, World),
           NEW objects, NEW v \in Nat, Reaches(objects, v, st, World),
           NEW o \in Objects, ~Coming(o, st, World)
    PROVE  ApplyDeltas(objects, st.deltas, v)[o] = rows[o]
<1> DEFINE about == {ref \in st.deltas : ref.version > v /\ About(EntriesOf(ref), o) # {}}
<1>1. RefsOK(st, World) /\ DeltasTrue(st, World)
  BY DEF StateOK
<1>3. World.rows = rows /\ World.deltas = deltaFiles /\ World.journal = journal
  BY WorldFields
<1>4. \A r \in st.deltas : Mentions(r, o, World) <=> About(EntriesOf(r), o) # {}
  BY <1>3 DEF Mentions, HasEntry, About, EntriesOf
<1>5. ApplyDeltas(objects, st.deltas, v)[o] =
         IF about = {} THEN objects[o] ELSE Latest(About(EntriesOf(Newest(about)), o)).text
  BY DEF ApplyDeltas
<1>6. CASE about = {}
  <2>1. ~ \E r \in st.deltas : r.version > v /\ Mentions(r, o, World)
    BY <1>4, <1>6
  <2>2. objects[o] = World.rows[o]
    BY <2>1 DEF Reaches
  <2> QED
    BY <1>3, <1>5, <1>6, <2>2
<1>7. CASE about # {}
  <2> DEFINE r == Newest(about)
  <2>1. r \in about /\ \A q \in about : q.version <= r.version
    BY <1>1, <1>7, NewestOf
  <2>2. r \in st.deltas /\ r.version > v /\ Mentions(r, o, World)
    BY <1>4, <2>1
  <2> HIDE DEF r
  <2>3. PICK d \in World.deltas : d.file = r.file /\ HasEntry(d.entries, o)
    BY <2>2 DEF Mentions
  <2>4. ASSUME NEW q \in st.deltas, q.version > r.version PROVE ~Mentions(q, o, World)
    <3>1. q.version \in Nat /\ r.version \in Nat
      BY <1>1, <2>2, StatusFields DEF RefsOK, DeltaRef
    <3>2. q.version > v /\ ~(q.version <= r.version)
      BY <2>2, <2>4, <3>1
    <3>3. q \notin about
      BY <2>1, <3>2
    <3> QED
      BY <1>4, <3>2, <3>3
  <2>5. LastText(d.entries, o, World.rows[o])
    BY <1>1, <2>2, <2>3, <2>4 DEF DeltasTrue
  <2>6. EntriesOf(r) = d.entries
    <3>1. \A f \in deltaFiles : f.file = r.file => f = d
      BY <1>3, <2>3 DEF WorldOK
    <3>2. d \in deltaFiles /\ d.file = r.file
      BY <1>3, <2>3
    <3>3. {f \in deltaFiles : f.file = r.file} = {d}
      BY <3>1, <3>2
    <3> QED
      BY <3>3 DEF EntriesOf
  <2>7. d.entries \subseteq Entry /\ Numbered(d.entries)
    BY <2>3 DEF WorldOK, DeltaFile
  <2>8. Latest(About(EntriesOf(r), o)).text = rows[o]
    BY <1>3, <2>5, <2>6, <2>7, LatestIs
  <2> QED
    BY <1>5, <1>7, <2>8 DEF r
<1> QED
  BY <1>6, <1>7

\* With what the next delta will hold it has them all.
LEMMA ReachesLead ==
    ASSUME NEW st, StateOK(st, World), WorldOK(World), AllThere(st, World),
           NEW objects, NEW v \in Nat, Reaches(objects, v, st, World)
    PROVE  LeadsToRows(objects, st, v)
<1> DEFINE copy == ApplyDeltas(objects, st.deltas, v)
           E == DeltaEntries(st)
<1>1. World.rows = rows /\ World.journal = journal /\ rows \in [Objects -> Texts \union {None}]
  BY WorldFields DEF WorldOK, Copies
<1>2. E \subseteq Entry /\ Numbered(E) /\ E \subseteq journal
  BY <1>1 DEF WorldOK, Numbered, DeltaEntries, Own
<1>3. \A o \in Objects : o # None
  BY NoneAssumption
<1>4. \A o \in Objects : Coming(o, st, World) <=> About(E, o) # {}
  BY <1>1, <1>3 DEF Coming, About, DeltaEntries, Own
<1>5. DeltaStart(st) \in Nat
  BY StartBounds DEF StateOK
<1>6. ASSUME NEW o \in Objects
      PROVE  (IF About(E, o) = {} THEN copy[o] ELSE Latest(About(E, o)).text) = rows[o]
  <2>1. CASE ~Coming(o, st, World)
    BY <1>4, <2>1, DeltasGiveRows
  <2>2. CASE Coming(o, st, World)
    <3>1. PICK e \in journal : e.obj = o /\ e.glob >= DeltaStart(st)
      BY <1>1, <2>2 DEF Coming
    <3>2. LastText(journal, o, rows[o])
      BY <1>1, <3>1 DEF WorldOK, HasEntry
    <3>3. PICK f \in journal : f.obj = o /\ f.text = rows[o]
                               /\ \A g \in journal : g.obj = o => g.glob <= f.glob
      BY <3>2 DEF LastText
    <3>4. e.glob \in Nat /\ f.glob \in Nat /\ e.glob <= f.glob
      BY <1>1, <3>1, <3>3 DEF WorldOK, Entry
    <3>5. f.glob >= DeltaStart(st)
      BY <1>5, <3>1, <3>4
    <3>6. f \in E
      BY <1>3, <3>3, <3>5 DEF DeltaEntries, Own
    <3>7. LastText(E, o, rows[o])
      BY <1>2, <3>3, <3>6 DEF LastText
    <3>8. About(E, o) # {} /\ Latest(About(E, o)).text = rows[o]
      BY <1>2, <3>7, LatestIs
    <3> QED
      BY <3>8
  <2> QED
    BY <2>1, <2>2
<1> HIDE DEF copy, E
<1>7. Apply(copy, E) = rows
  BY <1>1, <1>6 DEF Apply
<1> QED
  BY <1>7 DEF LeadsToRows, copy, E

\* The files of a status are there when its notification file is complete.
LEMMA CompleteThere == ASSUME NEW st, Complete(UnfOf(st)) PROVE AllThere(st, World)
<1>1. ASSUME NEW r \in st.deltas PROVE \E d \in deltaFiles : d.file = r.file
  <2>1. [version |-> r.version, file |-> r.file] \in UnfOf(st).deltas
    BY DEF UnfOf
  <2> QED
    BY <2>1 DEF Complete
<1> QED
  BY <1>1, WorldFields DEF AllThere

\* The invariants are what a mirror needs.
LEMMA LossLeads == TypeInv /\ LossInv /\ SnapshotInv => NothingLost
<1> SUFFICES ASSUME TypeInv, LossInv, SnapshotInv, ~overtaken, status # None, status.session # 0,
                    Complete(UnfOf(status)), SnapshotOfSession(status),
                    Connected(status, status.snapVersion)
             PROVE  \E s \in snapshotFiles :
                      s.file = status.snapFile /\ LeadsToRows(s.objects, status, status.snapVersion)
  BY DEF NothingLost
<1>1. StateOK(status, World) /\ WorldOK(World) /\ status.snapVersion # 0
  BY DEF LossInv, SnapshotInv
<1>2. PICK s \in snapshotFiles : s.file = status.snapFile
  BY DEF Complete, UnfOf
<1>3. s.session = status.session
  BY <1>2 DEF SnapshotOfSession
<1>4. World.snapshots = snapshotFiles /\ status.snapVersion \in Nat
  BY <1>1, WorldFields, StatusFields DEF StateOK, RefsOK
<1>5. AllThere(status, World)
  BY CompleteThere
<1>6. Reaches(s.objects, status.snapVersion, status, World)
  BY <1>1, <1>2, <1>3, <1>4, <1>5, SnapshotReaches
<1>7. LeadsToRows(s.objects, status, status.snapVersion)
  BY <1>1, <1>4, <1>5, <1>6, ReachesLead
<1> QED
  BY <1>2, <1>7

\* How a run comes to the end of a publication, and what it records.
LEMMA RunPublishes ==
    ASSUME TypeInv, NEW p \in Servers, Run(p) \/ Crash(p)
    PROVE  /\ \A q \in Servers : q # p => pc'[q] = pc[q] /\ local'[q] = local[q]
           /\ pc'[p] \in {"snapshots", "commit"} =>
                 local'[p] = local[p] /\ (Valid(local[p]) \/ pc[p] = "snapshots")
           /\ \/ status' = status
              \/ pc[p] = "commit" /\ status' = AsForced(local[p], FALSE)
<1>1. p \in DOMAIN pc /\ p \in DOMAIN local /\ DOMAIN pc = Servers /\ DOMAIN local = Servers
  BY TypeFacts
<1>2. CASE EndRun(p)
  <2>1. pc'[p] = "idle" /\ \A q \in Servers : q # p => pc'[q] = pc[q] /\ local'[q] = local[q]
    BY <1>1, <1>2 DEF EndRun
  <2>2. status' = status \/ (pc[p] = "commit" /\ status' = AsForced(local[p], FALSE))
    <3>1. ~Start(p) /\ ~Initialise(p) /\ ~Resume(p) /\ ~WriteDelta(p) /\ ~ExpireDeltas(p)
          /\ ~WriteUnf(p) /\ ~ExpireSnapshots(p) /\ ~CommitDelta(p) /\ ~LockSnapshot(p)
          /\ ~WriteSnapshot(p) /\ ~Relock(p)
      BY <1>1, <2>1 DEF Start, Initialise, Resume, WriteDelta, ExpireDeltas, WriteUnf,
         ExpireSnapshots, CommitDelta, LockSnapshot, WriteSnapshot, Relock
    <3> QED
      BY <3>1 DEF Run, Cancel, Fail, SkipSnapshot, SnapshotLocked, Crash, CommitSnapshot, Record,
         AsForced, databaseVars
  <2> QED
    BY <2>1, <2>2
<1>3. CASE WriteDelta(p)
  BY <1>1, <1>3 DEF WriteDelta, databaseVars
<1>4. CASE \/ Start(p) \/ Initialise(p) \/ Resume(p) \/ ExpireDeltas(p) \/ LockSnapshot(p)
           \/ (SnapshotLocked(p) /\ statusLock = p)
  BY <1>1, <1>4 DEF Start, Initialise, Resume, ExpireDeltas, LockSnapshot, SnapshotLocked, databaseVars
<1>5. CASE CommitDelta(p)
  BY <1>1, <1>5 DEF CommitDelta, Record, AsForced
<1>6. CASE WriteUnf(p) \/ ExpireSnapshots(p)
  BY <1>1, <1>6 DEF WriteUnf, ExpireSnapshots, databaseVars
<1>7. CASE WriteSnapshot(p) \/ Relock(p)
  BY <1>1, <1>7 DEF WriteSnapshot, Relock, databaseVars
<1> QED
  BY <1>2, <1>3, <1>4, <1>5, <1>6, <1>7 DEF Run, Cancel, Fail, CommitSnapshot, SkipSnapshot,
     SnapshotLocked, Crash

\* Every step.
LEMMA SnapshotNext ==
    TypeInv /\ scenario \in DOMAIN Setup /\ SnapshotInv /\ [MirrorNext]_<<scenario, mirrorVars>>
        => SnapshotInv'
<1> SUFFICES ASSUME TypeInv, scenario \in DOMAIN Setup, SnapshotInv,
                    [MirrorNext]_<<scenario, mirrorVars>>
             PROVE  SnapshotInv'
  OBVIOUS
<1>1. CASE UNCHANGED <<scenario, mirrorVars>> \/ ClientStep \/ ClientForceReload \/ ClientAbort
  <2>1. pc' = pc /\ local' = local /\ status' = status
    BY <1>1 DEF mirrorVars, serverVars, databaseVars, runVars, ClientStep, ClientForceReload,
       ClientAbort, OnServer
  <2> QED
    BY <2>1 DEF SnapshotInv
<1>2. CASE Environment
  <2>1. /\ pc' = pc /\ local' = local
        /\ \/ status' = status \/ status' = EmptyStatus
           \/ status # None /\ status' = AsForced(status, TRUE)
    BY <1>2 DEF Environment, Change, StatusKept, ChangeElsewhere, Reload, SetForceReload, DayPasses,
       databaseVars, runVars, AsForced
  <2>2. status # None => /\ AsForced(status, TRUE).session = status.session
                         /\ AsForced(status, TRUE).snapVersion = status.snapVersion
    BY TypeFacts, WithForce
  <2> QED
    BY <2>1, <2>2, EmptyFields DEF SnapshotInv
<1>3. ASSUME NEW p \in Setup[scenario].servers, Run(p) \/ Crash(p) PROVE SnapshotInv'
  <2>1. p \in Servers
    BY SetupAssumption
  <2>2. /\ \A q \in Servers : q # p => pc'[q] = pc[q] /\ local'[q] = local[q]
        /\ pc'[p] \in {"snapshots", "commit"} =>
                 local'[p] = local[p] /\ (Valid(local[p]) \/ pc[p] = "snapshots")
        /\ \/ status' = status
           \/ pc[p] = "commit" /\ status' = AsForced(local[p], FALSE)
    BY <1>3, <2>1, RunPublishes
  <2>3. AsForced(local[p], FALSE).snapVersion = local[p].snapVersion
    BY <2>1, TypeFacts, WithForce
  <2>4. Valid(local[p]) => local[p].snapVersion # 0
    BY DEF Valid
  <2> QED
    BY <2>1, <2>2, <2>3, <2>4 DEF SnapshotInv
<1> QED
  BY <1>1, <1>2, <1>3 DEF MirrorNext, ServerStep, Next

\* Every variable of the server and of its database has its type, serials and files are
\* numbered as they are made, and a run that is past its start has a status row
\* (nrtm4_server.py 89-117).
THEOREM TypesHold == MirrorSpec => []TypeInv
<1>1. MirrorInit => TypeInv /\ ShapeInv /\ LockInv
  BY ServerInit, TypesInit DEF MirrorInit
<1>2. TypeInv /\ ShapeInv /\ LockInv /\ [MirrorNext]_<<scenario, mirrorVars>> =>
          TypeInv' /\ ShapeInv' /\ LockInv'
  BY ServerNext, TypesNext DEF ShapeInv
<1> QED
  BY <1>1, <1>2, PTL DEF MirrorSpec

\* Nothing is lost (nrtm4_server.py 147-164, 206-208): the last snapshot, the deltas and
\* the entries of the next delta make up the database, for any number of servers that
\* overlap and that end early, objects, changes, full imports, outages and clients.
THEOREM NothingIsLost == MirrorSpec => []NothingLost
<1>1. MirrorInit => TypeInv /\ ShapeInv /\ LockInv /\ LossInv /\ SnapshotInv
  BY ServerInit, TypesInit, LossInit DEF MirrorInit, Init, SnapshotInv
<1>2. TypeInv /\ ShapeInv /\ LockInv /\ LossInv /\ SnapshotInv
         /\ [MirrorNext]_<<scenario, mirrorVars>> =>
         TypeInv' /\ ShapeInv' /\ LockInv' /\ LossInv' /\ SnapshotInv'
  BY ServerNext, TypesNext, LossNext, SnapshotNext DEF ShapeInv
<1>3. TypeInv /\ LossInv /\ SnapshotInv => NothingLost
  BY LossLeads
<1> QED
  BY <1>1, <1>2, <1>3, PTL DEF MirrorSpec

-----------------------------------------------------------------------------
(* What is published is there *)

\* Files that are added hide none.
LEMMA ThereGrows ==
    ASSUME NEW st, NEW D, NEW S, NEW E, NEW T, D \subseteq E, S \subseteq T, There(st, D, S)
    PROVE  There(st, E, T)
  BY DEF There

\* The notification file of a status is complete when its files are there.
LEMMA ThereComplete ==
    ASSUME NEW st
    PROVE  Complete(UnfOf(st)) <=> There(st, deltaFiles, snapshotFiles)
<1>1. UnfOf(st).snapshot.file = st.snapFile
  BY DEF UnfOf
<1>2. UnfOf(st).deltas = {[version |-> r.version, file |-> r.file] : r \in st.deltas}
  BY DEF UnfOf
<1>3. (\A ref \in UnfOf(st).deltas : \E d \in deltaFiles : d.file = ref.file)
          <=> \A r \in st.deltas : \E d \in deltaFiles : d.file = r.file
  <2>1. ASSUME NEW r \in st.deltas PROVE \E ref \in UnfOf(st).deltas : ref.file = r.file
    <3>1. [version |-> r.version, file |-> r.file] \in UnfOf(st).deltas
      BY <1>2
    <3> QED
      BY <3>1
  <2>2. \A ref \in UnfOf(st).deltas : \E r \in st.deltas : ref.file = r.file
    BY <1>2
  <2> QED
    BY <2>1, <2>2
<1> QED
  BY <1>1, <1>3 DEF Complete, There

\* A step of a run keeps what the others need.
LEMMA IntactKept ==
    ASSUME TypeInv, LockInv, Intact, NEW p \in Servers, Others(p), p \in Servers,
           status' = status, aged' = aged, created' \in Nat, created <= created',
           \A q \in Servers : q # p => snapshot'[q] = snapshot[q] /\ horizon'[q] = horizon[q]
                                       /\ (snapshotLock' = q => snapshotLock = q),
           \A q \in Servers : q # p /\ Holds(q) =>
               deltaFiles \subseteq deltaFiles' /\ snapshotFiles \subseteq snapshotFiles' /\ unf' = unf,
           \A q \in Servers : q # p /\ pc[q] = "relock" =>
               \A s \in snapshotFiles : s.file = snapshot[q] => s \in snapshotFiles',
           IntactRun(p)', IntactRow', IntactUnf',
           \A q \in Servers : q # p /\ Lingers(q) /\ Holds(p)' /\ ~initialising'[p] =>
               Fits(local'[p], aged, local[q].version)
    PROVE  Intact'
<1>1. aged' <= created'
  BY TypeFacts DEF Intact
<1>2. ASSUME NEW q \in Servers, q # p PROVE IntactRun(q)'
  <2>1. /\ pc'[q] = pc[q] /\ local'[q] = local[q] /\ initialising'[q] = initialising[q]
        /\ snapshot'[q] = snapshot[q] /\ horizon'[q] = horizon[q]
    BY <1>2 DEF Others
  <2>2. IntactRun(q)
    BY DEF Intact
  <2>3. (Holds(q)' <=> Holds(q)) /\ (Lingers(q)' <=> Lingers(q))
    BY <2>1 DEF Holds, Lingers
  <2>4. pc[q] \in {"delta", "expire", "unf", "snapshots", "commit"} =>
           Ready(local[q], aged) /\ There(local[q], deltaFiles', snapshotFiles')
    <3>1. pc[q] \in {"delta", "expire", "unf", "snapshots", "commit"} => Holds(q)
      BY DEF Holds
    <3> QED
      BY <1>2, <2>2, <3>1, ThereGrows DEF IntactRun
  <2>5. pc[q] \in {"snapshots", "commit"} => unf' = UnfOf(local[q])
    <3>1. pc[q] \in {"snapshots", "commit"} => Holds(q)
      BY DEF Holds
    <3> QED
      BY <1>2, <2>2, <3>1 DEF IntactRun
  <2>6. pc[q] = "relock" => snapshot[q] > aged /\ \E s \in snapshotFiles' : s.file = snapshot[q]
    BY <1>2, <2>2 DEF IntactRun
  <2>7. ASSUME Lingers(q), NEW r \in Servers, Holds(r)', ~initialising'[r]
        PROVE  Fits(local'[r], aged, local[q].version)
    <3>1. CASE r = p
      BY <1>2, <2>7, <3>1
    <3>2. CASE r # p
      <4>1. pc'[r] = pc[r] /\ local'[r] = local[r] /\ initialising'[r] = initialising[r]
        BY <3>2 DEF Others
      <4>2. Holds(r) /\ ~initialising[r]
        BY <2>7, <4>1 DEF Holds
      <4> QED
        BY <2>2, <2>7, <4>1, <4>2 DEF IntactRun
    <3> QED
      BY <3>1, <3>2
  <2>8. UnfOf(local[q])' = UnfOf(local[q])
    BY <2>1 DEF UnfOf
  <2> QED
    BY <1>2, <2>1, <2>2, <2>3, <2>4, <2>5, <2>6, <2>7, <2>8 DEF IntactRun
<1> QED
  BY <1>1, <1>2 DEF Intact

\* A step that leaves files, notification file and status row as they are, or adds files.
LEMMA FilesGrow ==
    ASSUME TypeInv, LockInv, Intact, NEW p \in Servers, Others(p), pc[p] # "unf",
           status' = status, aged' = aged, unf' = unf, statusLock' = None => statusLock = None,
           deltaFiles \subseteq deltaFiles', snapshotFiles \subseteq snapshotFiles'
    PROVE  IntactRow' /\ IntactUnf'
<1>1. IntactRow'
  BY ThereGrows DEF Intact, IntactRow
<1>2. ASSUME unf' # None, \A q \in Servers : pc'[q] # "unf" PROVE Complete(unf)'
  <2>1. \A q \in Servers : pc[q] # "unf"
    BY <1>2 DEF Others
  <2>2. Complete(unf)
    BY <1>2, <2>1 DEF Intact, IntactUnf
  <2> QED
    BY <2>2 DEF Complete
<1> QED
  BY <1>1, <1>2 DEF IntactUnf

\* A status that can be published passes the checks of the notification file.
LEMMA ReadyValid ==
    ASSUME NEW st, NEW w, NEW n, RefsOK(st, w), Ready(st, n)
    PROVE  Valid(st)
<1>1. st.session # 0 /\ st.snapVersion # 0 /\ st.snapVersion <= st.version
  BY DEF Ready
<1>2. st.version \in Versions(st.deltas) \union {st.snapVersion}
  BY DEF Ready, RefsOK, Versions
<1>3. \A v \in Versions(st.deltas) \union {st.snapVersion} : v <= st.version
  BY <1>1 DEF RefsOK, Versions
<1>4. \A v, u \in Versions(st.deltas) : v..u \subseteq Versions(st.deltas)
  BY DEF Ready, Gapless
<1> QED
  BY <1>1, <1>2, <1>3, <1>4 DEF Valid

\* The version of the status is a version that a snapshot can have.
LEMMA OwnFits ==
    ASSUME NEW st, NEW w, NEW n, RefsOK(st, w)
    PROVE  Fits(st, n, st.version)
  BY DEF Fits, Young, RefsOK

\* A new delta.
LEMMA ReadyDelta ==
    ASSUME NEW st, NEW new, NEW w, NEW n \in Nat, NEW ref \in DeltaRef,
           RefsOK(st, w), Ready(st, n), ref.version = st.version + 1, ref.file > n,
           new.session = st.session, new.version = st.version + 1,
           new.snapVersion = st.snapVersion, new.deltas = st.deltas \union {ref}
    PROVE  Ready(new, n) /\ \A v : Fits(st, n, v) => Fits(new, n, v)
<1>1. /\ st.version \in Nat /\ st.snapVersion \in Nat /\ st.deltas \subseteq DeltaRef
      /\ \A r \in st.deltas : r.version \in Nat /\ r.file \in Nat /\ r.version <= st.version
      /\ ref.file \in Nat
  BY StatusFields DEF RefsOK, DeltaRef
<1>2. st.snapVersion <= st.version + 1
  BY <1>1 DEF Ready
<1>3. Versions(new.deltas) = Versions(st.deltas) \union {st.version + 1}
  BY DEF Versions
<1>4. Gapless(new.deltas)
  <2>1. Versions(st.deltas) \subseteq Nat /\ \A v \in Versions(st.deltas) : v <= st.version
    BY <1>1 DEF Versions
  <2>2. st.deltas # {} => st.version \in Versions(st.deltas)
    BY DEF RefsOK, Versions
  <2>3. st.deltas = {} => Versions(st.deltas) = {}
    BY DEF Versions
  <2>4. st.deltas # {} => Versions(st.deltas) # {}
    BY <2>2
  <2>5. \A v, u \in Versions(st.deltas) : v..u \subseteq Versions(st.deltas)
    BY DEF Ready, Gapless
  <2> SUFFICES ASSUME NEW v \in Versions(new.deltas), NEW u \in Versions(new.deltas), NEW x \in v..u
               PROVE  x \in Versions(new.deltas)
    BY DEF Gapless
  <2>6. v \in Nat /\ u \in Nat /\ x \in Int /\ v <= x /\ x <= u /\ u <= st.version + 1
    <3>1. \A y \in Versions(new.deltas) : y \in Nat /\ y <= st.version + 1
      BY <1>1, <1>3, <2>1
    <3>2. v \in Nat /\ u \in Nat /\ u <= st.version + 1
      BY <3>1
    <3> QED
      BY <3>2
  <2>7. CASE x = st.version + 1
    BY <1>3, <2>7
  <2>8. CASE x <= st.version
    <3>1. v <= st.version
      <4>1. st.version \in Int /\ v \in Int /\ x \in Int /\ v <= x
        BY <1>1, <2>6
      <4> QED
        BY <2>8, <4>1
    <3>2. v \in Versions(st.deltas)
      <4>1. v # st.version + 1
        BY <1>1, <2>6, <3>1
      <4> QED
        BY <1>3, <4>1
    <3>3. st.version \in Versions(st.deltas)
      BY <2>2, <2>3, <3>2
    <3>4. x \in v..st.version
      BY <1>1, <2>6, <2>8
    <3> QED
      BY <1>3, <2>5, <3>2, <3>3, <3>4
  <2>9. x <= st.version \/ x = st.version + 1
    BY <1>1, <2>6
  <2> QED
    BY <2>7, <2>8, <2>9
<1>5. \A v : Young(st, n, v) => Young(new, n, v)
  BY <1>1 DEF Young
<1>6. Ready(new, n)
  BY <1>2, <1>4, <1>5 DEF Ready
<1>7. \A v : Fits(st, n, v) => Fits(new, n, v)
  BY <1>5 DEF Fits
<1> QED
  BY <1>6, <1>7

\* Deltas expire.
LEMMA ReadyExpired ==
    ASSUME NEW st, NEW new, NEW w, NEW n \in Nat, RefsOK(st, w), Ready(st, n),
           new.session = st.session, new.version = st.version,
           new.snapVersion = st.snapVersion, new.deltas = {r \in st.deltas : r.file > n}
    PROVE  Ready(new, n) /\ \A v \in Nat : Fits(st, n, v) /\ v <= st.version => Fits(new, n, v)
<1>1. /\ st.version \in Nat /\ st.snapVersion \in Nat /\ st.deltas \subseteq DeltaRef
      /\ \A r \in st.deltas : r.version \in Nat /\ r.file \in Nat /\ r.version <= st.version
  BY StatusFields DEF RefsOK, DeltaRef
<1>2. \A v : Young(new, n, v)
  BY <1>1 DEF Young
<1>3. ASSUME NEW v \in Nat, Fits(st, n, v), v <= st.version, new.deltas = {} PROVE v = st.version
  <2>1. CASE st.deltas = {}
    BY <1>3, <2>1 DEF Fits
  <2>2. CASE st.deltas # {}
    <3>1. PICK r \in st.deltas : r.version = st.version
      BY <2>2 DEF RefsOK
    <3>2. r.file <= n
      BY <1>1, <1>3, <3>1
    <3>3. st.version <= v
      BY <1>3, <3>1, <3>2 DEF Fits, Young
    <3> QED
      BY <1>1, <1>3, <3>3
  <2> QED
    BY <2>1, <2>2
<1>4. Fits(st, n, st.snapVersion) /\ st.snapVersion <= st.version
  BY DEF Ready, Fits
<1>5. Gapless(new.deltas)
  <2> SUFFICES ASSUME NEW v \in Versions(new.deltas), NEW u \in Versions(new.deltas), NEW x \in v..u
               PROVE  x \in Versions(new.deltas)
    BY DEF Gapless
  <2>1. PICK r \in st.deltas : r.version = v /\ r.file > n
    BY DEF Versions
  <2>2. v \in Versions(st.deltas) /\ u \in Versions(st.deltas)
    BY DEF Versions
  <2>3. x \in Versions(st.deltas)
    BY <2>2 DEF Ready, Gapless
  <2>4. PICK q \in st.deltas : q.version = x
    BY <2>3 DEF Versions
  <2>5. v \in Nat /\ u \in Nat /\ x \in Nat /\ v <= x
    BY <1>1, <2>1, <2>2, <2>4 DEF Versions
  <2>6. q.file > n
    <3>1. CASE v = x
      BY <2>1, <2>4, <3>1 DEF RefsOK
    <3>2. CASE v < x
      <4>1. r.file < q.file
        BY <2>1, <2>4, <3>2 DEF RefsOK
      <4> QED
        BY <1>1, <2>1, <2>4, <4>1
    <3> QED
      BY <2>5, <3>1, <3>2
  <2> QED
    BY <2>4, <2>6 DEF Versions
<1>6. Ready(new, n)
  BY <1>1, <1>2, <1>3, <1>4, <1>5 DEF Ready
<1>7. \A v \in Nat : Fits(st, n, v) /\ v <= st.version => Fits(new, n, v)
  BY <1>2, <1>3 DEF Fits
<1> QED
  BY <1>6, <1>7

\* A snapshot of a version that fits.
LEMMA ReadySnapshot ==
    ASSUME NEW st, NEW new, NEW n, NEW v,
           st.session # 0, Gapless(st.deltas), v # 0, v <= st.version, Fits(st, n, v),
           new.session = st.session, new.version = st.version,
           new.snapVersion = v, new.deltas = st.deltas
    PROVE  Ready(new, n)
  BY DEF Ready, Fits, Young

\* A status that differs in nothing that matters.
LEMMA ReadySame ==
    ASSUME NEW st, NEW new, SameRow(new, st)
    PROVE  /\ \A n : Ready(st, n) => Ready(new, n)
           /\ \A n, v : Fits(st, n, v) => Fits(new, n, v)
           /\ \A D, S : There(st, D, S) => There(new, D, S)
  BY DEF SameRow, Ready, Fits, Young, There

\* After a day, with a snapshot of the current version.
LEMMA ReadyNextDay ==
    ASSUME NEW st, NEW w, NEW n, NEW m, RefsOK(st, w), Ready(st, n), st.snapVersion = st.version
    PROVE  Ready(st, m)
  BY DEF Ready, Young, RefsOK

\* What the invariants say of a run.
LEMMA IntactFacts ==
    ASSUME TypeInv, LockInv, LossInv, Intact, Calm, NEW p \in Servers
    PROVE  /\ IntactRun(p) /\ HandsOK(p) /\ LockOK(p) /\ WorldOK(World)
           /\ aged \in Nat /\ created \in Nat /\ aged <= created
           /\ p # None /\ IntactRow /\ IntactUnf
  BY NoneAssumption, TypeFacts DEF Intact, LossInv, LockInv, Calm

\* A run that does not have the status lock ends.
LEMMA EndsIntact ==
    ASSUME TypeInv, LockInv, LossInv, Intact, Calm, NEW p \in Servers, EndRun(p), ~Holds(p),
           UNCHANGED databaseVars, UNCHANGED diskVars, aged' = aged
    PROVE  Intact'
<1>1. /\ pc'[p] = "idle" /\ initialising'[p] = FALSE /\ Others(p)
      /\ \A q \in Servers : q # p => snapshot'[q] = snapshot[q] /\ horizon'[q] = horizon[q]
      /\ snapshotLock' = IF snapshotLock = p THEN None ELSE snapshotLock
      /\ statusLock' = IF statusLock = p THEN None ELSE statusLock
  BY TypeFacts DEF EndRun, Others
<1>2. /\ status' = status /\ unf' = unf /\ deltaFiles' = deltaFiles
      /\ snapshotFiles' = snapshotFiles /\ created' = created
  BY DEF databaseVars, diskVars
<1>3. LockOK(p) /\ p # None /\ created \in Nat /\ created <= created
  BY IntactFacts
<1>4. IntactRun(p)' /\ ~Holds(p)'
  BY <1>1, <1>3 DEF IntactRun, Lingers, Holds
<1>5. statusLock' = statusLock /\ pc[p] # "unf"
  BY <1>1, <1>3 DEF LockOK, Holds
<1>6. \A q \in Servers : q # p => (snapshotLock' = q => snapshotLock = q)
  BY <1>1, IntactFacts
<1>7. IntactRow' /\ IntactUnf'
  BY <1>1, <1>2, <1>5, FilesGrow
<1> QED
  BY <1>1, <1>2, <1>3, <1>4, <1>6, <1>7, IntactKept

\* The runs that end without a commit have released the status lock.
LEMMA EndedIntact ==
    ASSUME TypeInv, LockInv, LossInv, Intact, Calm, NEW p \in Servers,
           Cancel(p) \/ SkipSnapshot(p) \/ (SnapshotLocked(p) /\ statusLock # p)
    PROVE  Intact'
<1>1. /\ EndRun(p) /\ UNCHANGED databaseVars /\ UNCHANGED diskVars /\ aged' = aged
  BY DEF Cancel, SkipSnapshot, SnapshotLocked, boundVars
<1>2. LockOK(p) /\ IntactRun(p)
  BY IntactFacts
<1>3. ~Holds(p)
  <2>1. CASE Cancel(p)
    BY <2>1 DEF Cancel, Holds
  <2>2. CASE SkipSnapshot(p)
    <3>1. pc[p] = "decide" /\ local[p].snapVersion # 0
      BY <2>2 DEF SkipSnapshot
    <3>2. snapshotLock # p
      BY <1>2, <3>1 DEF IntactRun
    <3> QED
      BY <1>2, <3>1, <3>2 DEF LockOK, Holds
  <2>3. CASE SnapshotLocked(p) /\ statusLock # p
    BY <1>2, <2>3 DEF LockOK
  <2> QED
    BY <2>1, <2>2, <2>3
<1> QED
  BY <1>1, <1>3, EndsIntact

\* A run that starts a session gets the snapshot lock: there is no session to write
\* a snapshot of.
LEMMA NeverLocked ==
    ASSUME TypeInv, LockInv, LossInv, Intact, Calm, NEW p \in Servers, SnapshotLocked(p)
    PROVE  statusLock # p
<1> SUFFICES ASSUME statusLock = p PROVE FALSE
  OBVIOUS
<1>1. pc[p] = "decide" /\ snapshotLock # None
  BY DEF SnapshotLocked
<1>2. LockOK(p) /\ IntactRun(p) /\ Holds(p) /\ initialising[p]
  BY <1>1, IntactFacts DEF LockOK, Holds
<1>3. status.session = 0 /\ snapshotLock # p
  BY <1>1, <1>2 DEF IntactRun
<1>4. PICK q \in Servers : snapshotLock = q
  BY <1>1 DEF TypeInv, TypeOK
<1>5. q # p /\ ~Holds(q) /\ ~initialising[q]
  BY <1>2, <1>3, <1>4, Alone
<1>6. IntactRun(q)
  BY IntactFacts
<1>7. pc[q] \in {"snapshot", "relock", "expire", "unf", "snapshots", "commit"}
  BY <1>4, <1>6 DEF IntactRun
<1> QED
  BY <1>3, <1>5, <1>6, <1>7 DEF IntactRun

\* No run fails.
LEMMA NeverFails ==
    ASSUME TypeInv, LockInv, LossInv, Intact, Calm, NEW p \in Servers
    PROVE  ~Fail(p)
<1> SUFFICES ASSUME Fail(p) PROVE FALSE
  OBVIOUS
<1>1. pc[p] \in {"expire", "unf"}
  BY DEF Fail
<1>2. IntactRun(p) /\ HandsOK(p)
  BY IntactFacts
<1>3. Ready(local[p], aged) /\ There(local[p], deltaFiles, snapshotFiles)
  BY <1>1, <1>2 DEF IntactRun
<1>4. ExpiredFor(p, local[p].deltas) \ {d.file : d \in deltaFiles} = {}
  BY <1>3 DEF There, ExpiredFor, FilesOf
<1>5. Valid(local[p])
  <2>1. RefsOK(local[p], World)
    BY <1>1, <1>2 DEF HandsOK, Holds, StateOK
  <2> QED
    BY <1>3, <2>1, ReadyValid
<1> QED
  BY <1>4, <1>5 DEF Fail

\* A run starts, or takes the snapshot lock.
LEMMA StartIntact ==
    ASSUME TypeInv, ShapeInv, LockInv, LossInv, Intact, Calm, NEW p \in Servers,
           Start(p) \/ LockSnapshot(p)
    PROVE  Intact'
<1>1. /\ initialising' = initialising /\ local' = local /\ snapshot' = snapshot
      /\ status' = status /\ unf' = unf /\ deltaFiles' = deltaFiles
      /\ snapshotFiles' = snapshotFiles /\ created' = created /\ aged' = aged
      /\ statusLock' = statusLock
  BY DEF Start, LockSnapshot, databaseVars, diskVars, boundVars
<1>2. PICK x : /\ pc' = [pc EXCEPT ![p] = x]
               /\ \/ pc[p] = "idle" /\ x = "start" /\ horizon' = [horizon EXCEPT ![p] = aged]
                     /\ snapshotLock' = snapshotLock
                  \/ pc[p] = "decide" /\ x = "snapshot" /\ horizon' = horizon /\ snapshotLock' = p
  BY DEF Start, LockSnapshot
<1>3. Others(p) /\ pc'[p] = x
  BY <1>1, <1>2, StepOthers
<1>4. /\ horizon'[p] = aged \/ (horizon'[p] = horizon[p] /\ pc[p] # "idle")
      /\ \A q \in Servers : q # p => horizon'[q] = horizon[q]
  BY <1>2, TypeFacts
<1>5. IntactRun(p) /\ LockOK(p) /\ created \in Nat /\ created <= created
  BY IntactFacts
<1>6. ~initialising'[p] => ~Holds(p)' /\ (Lingers(p)' => Lingers(p))
  BY <1>1, <1>2, <1>3 DEF Holds, Lingers
<1>7. \A q \in Servers : q # p => (Holds(q)' <=> Holds(q)) /\ initialising'[q] = initialising[q]
  BY <1>3 DEF Others, Holds
<1>8. IntactRun(p)'
  <2>1. Lingers(p)' => ~initialising'[p] /\ Lingers(p)
    BY <1>6 DEF Lingers
  <2>2. Lingers(p)' => \A q \in Servers : Holds(q)' /\ ~initialising'[q] =>
                          Fits(local'[q], aged', local'[p].version)
    BY <1>1, <1>5, <1>6, <1>7, <2>1 DEF IntactRun
  <2>3. Lingers(p)' => local'[p].version # 0 /\ Fits(status', aged', local'[p].version)
    BY <1>1, <1>5, <2>1 DEF IntactRun
  <2>4. /\ pc'[p] # "idle" => horizon'[p] = aged'
        /\ pc'[p] \notin {"idle", "start"} /\ ~initialising'[p] =>
              status'.session = local'[p].session /\ status'.session # 0
        /\ initialising'[p] => status'.session = 0
        /\ initialising'[p] /\ pc'[p] \in {"decide", "snapshot"} =>
              local'[p].session # 0 /\ local'[p].version = 1 /\ local'[p].deltas = {}
        /\ snapshotLock' = p => pc'[p] \in {"snapshot", "relock", "expire", "unf", "snapshots", "commit"}
        /\ pc'[p] \notin {"delta", "expire", "unf", "snapshots", "commit", "relock"}
    BY <1>1, <1>2, <1>3, <1>4, <1>5 DEF IntactRun
  <2> QED
    BY <2>2, <2>3, <2>4 DEF IntactRun
<1>9. IntactRow' /\ IntactUnf'
  BY <1>1, <1>2, <1>3, FilesGrow
<1>10. \A q \in Servers : q # p => (snapshotLock' = q => snapshotLock = q)
  BY <1>2
<1> QED
  BY <1>1, <1>3, <1>4, <1>5, <1>6, <1>8, <1>9, <1>10, IntactKept

\* A run begins a session when there is none.
LEMMA InitialiseIntact ==
    ASSUME TypeInv, ShapeInv, LockInv, LossInv, Intact, Calm, NEW p \in Servers, Initialise(p)
    PROVE  Intact'
<1>1. /\ pc[p] = "start" /\ pc' = [pc EXCEPT ![p] = "decide"]
      /\ initialising' = [initialising EXCEPT ![p] = TRUE]
      /\ snapshot' = snapshot /\ horizon' = horizon /\ status' = status /\ unf' = unf
      /\ created' = created /\ aged' = aged /\ deltaFiles' = deltaFiles
      /\ snapshotFiles' = snapshotFiles /\ statusLock = None /\ status # None
      /\ statusLock' = p /\ snapshotLock' = snapshotLock
      /\ local' = [local EXCEPT ![p] = [status EXCEPT !.session = sessions + 1, !.version = 1,
                    !.snapVersion = 0, !.snapSerial = 0, !.deltas = {}]]
      /\ status.session = 0 \/ ~VerifyIntegrity
  BY DEF Initialise, Locked, databaseVars, diskVars, boundVars
<1>2. IntactRun(p) /\ p # None /\ created \in Nat /\ created <= created /\ IntactRow
  BY IntactFacts
<1>3. status.session = 0
  <2>1. status.session # 0 => VerifyIntegrity
    BY <1>1, <1>2 DEF IntactRow, There, VerifyIntegrity
  <2> QED
    BY <1>1, <2>1
<1>4. /\ Others(p) /\ pc'[p] = "decide" /\ initialising'[p] = TRUE
      /\ local'[p] = [status EXCEPT !.session = sessions + 1, !.version = 1,
                    !.snapVersion = 0, !.snapSerial = 0, !.deltas = {}]
  <2>1. p \in DOMAIN pc /\ p \in DOMAIN local /\ p \in DOMAIN initialising
    BY TypeFacts
  <2> QED
    BY <1>1, <2>1 DEF Others
<1>5. local'[p].session # 0 /\ local'[p].version = 1 /\ local'[p].deltas = {}
  <2>1. local'[p] = AsSession(status, sessions + 1)
    BY <1>4 DEF AsSession
  <2>2. sessions + 1 \in Nat /\ sessions + 1 # 0 /\ status \in StatusType
    BY <1>1, TypeFacts
  <2> QED
    BY <2>1, <2>2, WithSession
<1>6. IntactRun(p)'
  <2>1. horizon'[p] = aged' /\ snapshotLock' # p
    BY <1>1, <1>2 DEF IntactRun
  <2> QED
    BY <1>1, <1>3, <1>4, <1>5, <2>1 DEF IntactRun, Lingers
<1>7. IntactRow' /\ IntactUnf'
  BY <1>1, <1>2, <1>4, FilesGrow
<1> QED
  BY <1>1, <1>2, <1>4, <1>6, <1>7, IntactKept

\* A run takes the status row in hand.
LEMMA ResumeIntact ==
    ASSUME TypeInv, ShapeInv, LockInv, LossInv, Intact, Calm, NEW p \in Servers, Resume(p)
    PROVE  Intact'
<1>1. /\ pc[p] = "start" /\ pc' = [pc EXCEPT ![p] = "delta"]
      /\ local' = [local EXCEPT ![p] = status] /\ initialising' = initialising
      /\ snapshot' = snapshot /\ horizon' = horizon /\ status' = status /\ unf' = unf
      /\ created' = created /\ aged' = aged /\ deltaFiles' = deltaFiles
      /\ snapshotFiles' = snapshotFiles /\ statusLock = None /\ status # None
      /\ statusLock' = p /\ snapshotLock' = snapshotLock /\ status.session # 0
  BY DEF Resume, Locked, databaseVars, diskVars, boundVars
<1>2. IntactRun(p) /\ LockOK(p) /\ p # None /\ created \in Nat /\ created <= created /\ IntactRow
  BY IntactFacts
<1>3. Others(p) /\ pc'[p] = "delta" /\ local'[p] = status
  BY <1>1, StepOthers, Replaced
<1>4. IntactRun(p)'
  <2>1. horizon'[p] = aged' /\ snapshotLock' # p /\ ~initialising'[p]
    BY <1>1, <1>2 DEF IntactRun, LockOK
  <2>2. Ready(local'[p], aged') /\ There(local'[p], deltaFiles', snapshotFiles')
    BY <1>1, <1>2, <1>3 DEF IntactRow
  <2> QED
    BY <1>1, <1>3, <2>1, <2>2 DEF IntactRun, Lingers
<1>5. IntactRow' /\ IntactUnf'
  BY <1>1, <1>2, <1>3, FilesGrow
<1>6. \A q \in Servers : Lingers(q) => Fits(status, aged, local[q].version)
  BY IntactFacts DEF IntactRun
<1> QED
  BY <1>1, <1>2, <1>3, <1>4, <1>5, <1>6, IntactKept

\* The status of a run that has written a delta.
LEMMA DeltaWritten ==
    ASSUME TypeInv, ShapeInv, NEW p \in Servers, WriteDelta(p), DeltaEntries(local[p]) # {}
    PROVE  \E ref \in DeltaRef :
              /\ ref.version = local[p].version + 1 /\ ref.file = created + 1
              /\ local'[p].session = local[p].session
              /\ local'[p].version = local[p].version + 1
              /\ local'[p].snapVersion = local[p].snapVersion
              /\ local'[p].snapFile = local[p].snapFile
              /\ local'[p].deltas = local[p].deltas \union {ref}
              /\ Others(p)
              /\ created' = created + 1 /\ deltaFiles \subseteq deltaFiles'
              /\ \E d \in deltaFiles' : d.file = ref.file
<1> DEFINE ref == [version |-> local[p].version + 1, file |-> created + 1, end |-> maxSerial[p]]
           d == [file |-> created + 1, session |-> local[p].session,
                 version |-> local[p].version + 1, entries |-> DeltaEntries(local[p])]
           new == AsVersion(local[p], local[p].version + 1, local[p].deltas \union {ref})
<1>1. /\ pc' = [pc EXCEPT ![p] = "expire"] /\ initialising' = initialising
      /\ local' = [local EXCEPT ![p].version = local[p].version + 1,
                                ![p].deltas = @ \union {ref}]
      /\ created' = created + 1 /\ deltaFiles' = deltaFiles \union {d}
  BY DEF WriteDelta
<1>2. /\ local[p] \in StatusType /\ local[p].version \in Nat /\ local[p].deltas \subseteq DeltaRef
      /\ maxSerial[p] \in Nat /\ created \in Nat
  BY TypeFacts, StatusFields
<1>3. ref \in DeltaRef /\ ref.version = local[p].version + 1 /\ ref.file = created + 1
      /\ local[p].version + 1 \in Nat
  BY <1>2 DEF DeltaRef
<1>4. d \in deltaFiles' /\ d.file = ref.file /\ deltaFiles \subseteq deltaFiles'
  BY <1>1
<1> HIDE DEF ref
<1>5. local' = [local EXCEPT ![p] = [local[p] EXCEPT !.version = local[p].version + 1,
                                        !.deltas = local[p].deltas \union {ref}]]
  <2>1. local = [q \in Servers |-> local[q]] /\ Shaped(local[p])
    BY DEF ShapeInv
  <2> QED
    BY <1>1, <2>1 DEF Shaped
<1>6. local' = [local EXCEPT ![p] = new]
  BY <1>5 DEF AsVersion
<1>7. local[p].deltas \union {ref} \in SUBSET DeltaRef
  BY <1>2, <1>3
<1>8. /\ new.session = local[p].session /\ new.version = local[p].version + 1
      /\ new.snapVersion = local[p].snapVersion /\ new.snapFile = local[p].snapFile
      /\ new.deltas = local[p].deltas \union {ref}
  BY <1>2, <1>3, <1>7, WithDeltas
<1> HIDE DEF new
<1>9. local'[p] = new /\ Others(p)
  BY <1>1, <1>6, StepOthers, Replaced
<1> QED
  BY <1>1, <1>3, <1>4, <1>8, <1>9

\* A run writes a delta.
LEMMA WriteDeltaIntact ==
    ASSUME TypeInv, ShapeInv, LockInv, LossInv, Intact, Calm, NEW p \in Servers, WriteDelta(p)
    PROVE  Intact'
<1>1. /\ pc[p] = "delta" /\ pc' = [pc EXCEPT ![p] = "expire"] /\ initialising' = initialising
      /\ snapshot' = snapshot /\ horizon' = horizon /\ status' = status /\ unf' = unf
      /\ snapshotFiles' = snapshotFiles /\ aged' = aged
      /\ statusLock' = statusLock /\ snapshotLock' = snapshotLock
  BY DEF WriteDelta, databaseVars, boundVars
<1>2. IntactRun(p) /\ LockOK(p) /\ HandsOK(p) /\ aged \in Nat /\ created \in Nat /\ aged <= created
  BY IntactFacts
<1>3. Holds(p) /\ ~initialising[p] /\ pc'[p] = "expire"
  BY <1>1, <1>2, TypeFacts DEF Holds, LockOK
<1>4. RefsOK(local[p], World)
  BY <1>2, <1>3 DEF HandsOK, StateOK
<1>5. /\ Ready(local[p], aged) /\ There(local[p], deltaFiles, snapshotFiles)
      /\ horizon[p] = aged /\ status.session = local[p].session /\ status.session # 0
  BY <1>1, <1>2, <1>3 DEF IntactRun
<1>6. /\ Others(p) /\ created' \in Nat /\ created <= created' /\ deltaFiles \subseteq deltaFiles'
      /\ local'[p].session = local[p].session
      /\ Ready(local'[p], aged) /\ There(local'[p], deltaFiles', snapshotFiles')
      /\ \A v : Fits(local[p], aged, v) => Fits(local'[p], aged, v)
  <2>1. CASE DeltaEntries(local[p]) = {}
    <3>1. local' = local /\ deltaFiles' = deltaFiles /\ created' = created
      BY <2>1 DEF WriteDelta
    <3>2. Others(p)
      BY <1>1, <3>1, StepOthers
    <3> QED
      BY <1>1, <1>2, <1>5, <3>1, <3>2
  <2>2. CASE DeltaEntries(local[p]) # {}
    <3>1. PICK ref \in DeltaRef :
              /\ ref.version = local[p].version + 1 /\ ref.file = created + 1
              /\ local'[p].session = local[p].session
              /\ local'[p].version = local[p].version + 1
              /\ local'[p].snapVersion = local[p].snapVersion
              /\ local'[p].snapFile = local[p].snapFile
              /\ local'[p].deltas = local[p].deltas \union {ref}
              /\ Others(p)
              /\ created' = created + 1 /\ deltaFiles \subseteq deltaFiles'
              /\ \E d \in deltaFiles' : d.file = ref.file
      BY <2>2, DeltaWritten
    <3>2. ref.file > aged
      BY <1>2, <3>1
    <3>3. Ready(local'[p], aged) /\ \A v : Fits(local[p], aged, v) => Fits(local'[p], aged, v)
      BY <1>2, <1>4, <1>5, <3>1, <3>2, ReadyDelta
    <3>4. There(local'[p], deltaFiles', snapshotFiles')
      BY <1>1, <1>5, <3>1 DEF There
    <3> QED
      BY <1>2, <3>1, <3>3, <3>4
  <2> QED
    BY <2>1, <2>2
<1>7. IntactRun(p)'
  <2>1. ~Lingers(p)'
    BY <1>3 DEF Lingers
  <2> QED
    BY <1>1, <1>3, <1>5, <1>6, <2>1 DEF IntactRun
<1>8. IntactRow' /\ IntactUnf'
  BY <1>1, <1>6, FilesGrow
<1>9. \A q \in Servers : Lingers(q) => Fits(local'[p], aged, local[q].version)
  <2>1. \A q \in Servers : Lingers(q) => Fits(local[p], aged, local[q].version)
    BY <1>3, IntactFacts DEF IntactRun
  <2> QED
    BY <1>6, <2>1
<1> QED
  BY <1>1, <1>6, <1>7, <1>8, <1>9, IntactKept

\* Expired deltas are deleted.
LEMMA ExpireDeltasIntact ==
    ASSUME TypeInv, ShapeInv, LockInv, LossInv, Intact, Calm, NEW p \in Servers, ExpireDeltas(p)
    PROVE  Intact'
<1> DEFINE kept == {r \in local[p].deltas : r.file > horizon[p]}
           new == AsKept(local[p], kept)
<1>1. /\ pc[p] = "expire" /\ pc' = [pc EXCEPT ![p] = "unf"] /\ initialising' = initialising
      /\ snapshot' = snapshot /\ horizon' = horizon /\ status' = status /\ unf' = unf
      /\ snapshotFiles' = snapshotFiles /\ aged' = aged /\ created' = created
      /\ statusLock' = statusLock /\ snapshotLock' = snapshotLock
      /\ deltaFiles' = {d \in deltaFiles : d.file \in FilesOf(kept)}
      /\ local' = [local EXCEPT ![p].deltas = kept]
  BY DEF ExpireDeltas, databaseVars, boundVars
<1>2. local' = [local EXCEPT ![p] = new]
  <2>1. local' = [local EXCEPT ![p] = [local[p] EXCEPT !.deltas = kept]]
    BY <1>1
  <2> QED
    BY <2>1 DEF AsKept
<1>3. /\ new.session = local[p].session /\ new.version = local[p].version
      /\ new.snapVersion = local[p].snapVersion
      /\ new.snapFile = local[p].snapFile /\ new.deltas = kept
  <2>1. local[p] \in StatusType /\ kept \in SUBSET DeltaRef
    BY TypeFacts, StatusFields
  <2> HIDE DEF kept
  <2> QED
    BY <2>1, WithKept
<1> HIDE DEF new
<1>4. Others(p) /\ pc'[p] = "unf" /\ local'[p] = new
  BY <1>1, <1>2, StepOthers, Replaced
<1>5. IntactRun(p) /\ LockOK(p) /\ HandsOK(p) /\ aged \in Nat /\ created \in Nat /\ created <= created
      /\ p # None
  BY IntactFacts
<1>6. Holds(p) /\ statusLock = p /\ RefsOK(local[p], World)
  BY <1>1, <1>5 DEF Holds, LockOK, HandsOK, StateOK
<1>7. /\ Ready(local[p], aged) /\ There(local[p], deltaFiles, snapshotFiles) /\ horizon[p] = aged
  BY <1>1, <1>5 DEF IntactRun
<1>8. /\ Ready(new, aged)
      /\ \A v \in Nat : Fits(local[p], aged, v) /\ v <= local[p].version => Fits(new, aged, v)
  <2>1. new.deltas = {r \in local[p].deltas : r.file > aged}
    BY <1>3, <1>7
  <2> QED
    BY <1>3, <1>5, <1>6, <1>7, <2>1, ReadyExpired
<1>9. There(new, deltaFiles', snapshotFiles')
  <2>1. ASSUME NEW r \in kept PROVE \E d \in deltaFiles' : d.file = r.file
    <3>1. PICK d \in deltaFiles : d.file = r.file
      BY <1>7 DEF There
    <3>2. d.file \in FilesOf(kept)
      BY <3>1 DEF FilesOf
    <3> QED
      BY <1>1, <3>1, <3>2
  <2> QED
    BY <1>1, <1>3, <1>7, <2>1 DEF There
<1>10. IntactRun(p)'
  <2>1. ~Lingers(p)'
    BY <1>4 DEF Lingers
  <2> QED
    BY <1>1, <1>3, <1>4, <1>5, <1>8, <1>9, <2>1 DEF IntactRun
<1>11. IntactRow' /\ IntactUnf'
  BY <1>1, <1>4, <1>5, <1>6 DEF IntactRow, IntactUnf
<1>12. \A q \in Servers : q # p => ~Holds(q) /\ ~initialising[q]
  BY <1>6, Alone
<1>13. ASSUME NEW q \in Servers, q # p, Lingers(q), ~initialising'[p]
       PROVE  Fits(local'[p], aged, local[q].version)
  <2>1. IntactRun(q) /\ HandsOK(q)
    BY IntactFacts
  <2>2. Fits(local[p], aged, local[q].version)
    BY <1>1, <1>6, <1>13, <2>1 DEF IntactRun
  <2>3. local[q].session = status.session /\ local[p].session = status.session
    <3>1. pc[q] \notin {"idle", "start"} /\ ~initialising[q] /\ ~initialising[p]
      BY <1>1, <1>13 DEF Lingers
    <3> QED
      BY <1>1, <1>5, <2>1, <3>1 DEF IntactRun
  <2>4. local[q].version <= status.version /\ status.version <= local[p].version
    BY <1>1, <1>5, <1>6, <1>13, <2>1, <2>3 DEF HandsOK
  <2>5. local[q].version \in Nat /\ status.version \in Nat /\ local[p].version \in Nat
    <3>1. status # None
      BY <1>1 DEF TypeInv
    <3> QED
      BY <3>1, TypeFacts, StatusFields
  <2>6. local[q].version <= local[p].version
    BY <2>4, <2>5
  <2> QED
    BY <1>4, <1>8, <2>2, <2>5, <2>6
<1> HIDE DEF kept
<1> QED
  BY <1>1, <1>4, <1>5, <1>10, <1>11, <1>12, <1>13, IntactKept

\* A run writes the notification file.
LEMMA WriteUnfIntact ==
    ASSUME TypeInv, ShapeInv, LockInv, LossInv, Intact, Calm, NEW p \in Servers, WriteUnf(p)
    PROVE  Intact'
<1>1. /\ pc[p] = "unf" /\ pc' = [pc EXCEPT ![p] = "snapshots"] /\ initialising' = initialising
      /\ snapshot' = snapshot /\ horizon' = horizon /\ status' = status /\ local' = local
      /\ snapshotFiles' = snapshotFiles /\ aged' = aged /\ created' = created
      /\ statusLock' = statusLock /\ snapshotLock' = snapshotLock
      /\ deltaFiles' = deltaFiles /\ unf' = UnfOf(local[p])
  BY DEF WriteUnf, databaseVars, boundVars
<1>2. IntactRun(p) /\ LockOK(p) /\ created \in Nat /\ created <= created /\ p # None
  BY IntactFacts
<1>3. Holds(p) /\ statusLock = p /\ Others(p) /\ pc'[p] = "snapshots"
  BY <1>1, <1>2, StepOthers DEF Holds, LockOK
<1>4. There(local[p], deltaFiles, snapshotFiles)
  BY <1>1, <1>2 DEF IntactRun
<1>5. IntactRun(p)'
  <2>1. ~Lingers(p)'
    BY <1>3 DEF Lingers
  <2> QED
    BY <1>1, <1>2, <1>3, <2>1 DEF IntactRun
<1>6. IntactRow' /\ IntactUnf'
  <2>1. Complete(UnfOf(local[p]))
    BY <1>4, ThereComplete
  <2>2. Complete(unf)'
    BY <1>1, <2>1 DEF Complete
  <2> QED
    BY <1>1, <1>2, <1>3, <2>2 DEF IntactRow, IntactUnf
<1>7. \A q \in Servers : q # p => ~Holds(q)
  BY <1>3, Alone
<1>8. ASSUME NEW q \in Servers, Lingers(q), ~initialising'[p]
      PROVE  Fits(local'[p], aged, local[q].version)
  BY <1>1, <1>3, <1>8, IntactFacts DEF IntactRun
<1> QED
  BY <1>1, <1>2, <1>3, <1>5, <1>6, <1>7, <1>8, IntactKept

\* A run deletes old snapshots.
LEMMA ExpireSnapshotsIntact ==
    ASSUME TypeInv, ShapeInv, LockInv, LossInv, Intact, Calm, NEW p \in Servers, ExpireSnapshots(p)
    PROVE  Intact'
<1>1. /\ pc[p] = "snapshots" /\ pc' = [pc EXCEPT ![p] = "commit"] /\ initialising' = initialising
      /\ snapshot' = snapshot /\ horizon' = horizon /\ status' = status /\ local' = local
      /\ aged' = aged /\ created' = created /\ unf' = unf
      /\ statusLock' = statusLock /\ snapshotLock' = snapshotLock
      /\ deltaFiles' = deltaFiles
      /\ snapshotFiles' = {s \in snapshotFiles : s.file > horizon[p] \/ s.file = local[p].snapFile}
  BY DEF ExpireSnapshots, databaseVars, boundVars
<1>2. IntactRun(p) /\ LockOK(p) /\ created \in Nat /\ created <= created /\ p # None
  BY IntactFacts
<1>3. Holds(p) /\ statusLock = p /\ Others(p) /\ pc'[p] = "commit"
  BY <1>1, <1>2, StepOthers DEF Holds, LockOK
<1>4. There(local[p], deltaFiles', snapshotFiles') /\ horizon[p] = aged /\ unf = UnfOf(local[p])
  BY <1>1, <1>2 DEF IntactRun, There
<1>5. IntactRun(p)'
  <2>1. ~Lingers(p)'
    BY <1>3 DEF Lingers
  <2> QED
    BY <1>1, <1>2, <1>3, <1>4, <2>1 DEF IntactRun
<1>6. IntactRow' /\ IntactUnf'
  <2>1. Complete(unf)'
    <3>1. Complete(UnfOf(local[p]))
      BY <1>1, <1>2, ThereComplete DEF IntactRun
    <3>2. UnfOf(local[p]).snapshot.file = local[p].snapFile
      BY DEF UnfOf
    <3> QED
      BY <1>1, <1>4, <3>1, <3>2 DEF Complete
  <2> QED
    BY <1>1, <1>2, <1>3, <2>1 DEF IntactRow, IntactUnf
<1>7. \A q \in Servers : q # p => ~Holds(q)
  BY <1>3, Alone
<1>8. ASSUME NEW q \in Servers, Lingers(q), ~initialising'[p]
      PROVE  Fits(local'[p], aged, local[q].version)
  BY <1>1, <1>3, <1>8, IntactFacts DEF IntactRun
<1>9. ASSUME NEW q \in Servers, pc[q] = "relock", NEW s \in snapshotFiles, s.file = snapshot[q]
      PROVE  s \in snapshotFiles'
  <2>1. snapshot[q] > aged
    BY <1>9, IntactFacts DEF IntactRun
  <2> QED
    BY <1>1, <1>4, <1>9, <2>1
<1> QED
  BY <1>1, <1>2, <1>3, <1>5, <1>6, <1>7, <1>8, <1>9, IntactKept

\* A run writes a snapshot.
LEMMA WriteSnapshotIntact ==
    ASSUME TypeInv, ShapeInv, LockInv, LossInv, Intact, Calm, NEW p \in Servers, WriteSnapshot(p)
    PROVE  Intact'
<1>1. /\ pc[p] = "snapshot" /\ initialising' = initialising /\ horizon' = horizon
      /\ status' = status /\ aged' = aged /\ created' = created + 1 /\ unf' = unf
      /\ statusLock' = statusLock /\ snapshotLock' = snapshotLock
      /\ deltaFiles' = deltaFiles /\ snapshotFiles \subseteq snapshotFiles'
      /\ \E s \in snapshotFiles' : s.file = created + 1
      /\ snapshot' = [snapshot EXCEPT ![p] = created + 1]
  <2> DEFINE new == [file |-> created + 1, session |-> local[p].session,
                     version |-> local[p].version, objects |-> rows]
  <2>1. snapshotFiles' = snapshotFiles \union {new} /\ new.file = created + 1
    BY DEF WriteSnapshot
  <2>2. \E s \in snapshotFiles' : s.file = created + 1
    BY <2>1
  <2> HIDE DEF new
  <2> QED
    BY <2>1, <2>2 DEF WriteSnapshot, databaseVars, boundVars
<1>2. IntactRun(p) /\ LockOK(p) /\ HandsOK(p) /\ aged \in Nat /\ created \in Nat /\ aged <= created
  BY IntactFacts
<1>3. /\ created' \in Nat /\ created <= created' /\ created + 1 > aged
      /\ snapshot'[p] = created + 1 /\ \A q \in Servers : q # p => snapshot'[q] = snapshot[q]
  BY <1>1, <1>2, TypeFacts
<1>4. CASE initialising[p]
  <2>1. /\ pc' = [pc EXCEPT ![p] = "expire"]
        /\ local' = [local EXCEPT ![p] = WithSnapshot(p, local[p], created + 1)]
    BY <1>4 DEF WriteSnapshot
  <2>2. Others(p) /\ pc'[p] = "expire" /\ local'[p] = WithSnapshot(p, local[p], created + 1)
    BY <1>1, <2>1, StepOthers, Replaced
  <2>3. HasSnapshot(local'[p], local[p], created + 1, local[p].version, maxSerial[p])
    <3>1. local'[p] = AsSnapshot(local[p], created + 1, local[p].version, maxSerial[p])
      BY <2>2 DEF WithSnapshot, AsSnapshot
    <3>2. HasSnapshot(AsSnapshot(local[p], created + 1, local[p].version, maxSerial[p]),
                      local[p], created + 1, local[p].version, maxSerial[p])
      <4>1. /\ local[p] \in StatusType /\ local[p].version \in Nat /\ maxSerial[p] \in Nat
            /\ created + 1 \in Nat
        BY <1>2, TypeFacts, StatusFields
      <4> QED
        BY <4>1, SnapshotFields
    <3> QED
      BY <3>1, <3>2
  <2>4. /\ local[p].session # 0 /\ local[p].version = 1 /\ local[p].deltas = {}
        /\ status.session = 0 /\ horizon[p] = aged
    BY <1>1, <1>2, <1>4 DEF IntactRun
  <2>5. Ready(local'[p], aged)
    <3>1. Gapless(local[p].deltas) /\ Fits(local[p], aged, 1) /\ 1 <= local[p].version /\ 1 # 0
      BY <2>4 DEF Gapless, Versions, Fits, Young
    <3> QED
      BY <2>3, <2>4, <3>1, ReadySnapshot DEF HasSnapshot
  <2>6. There(local'[p], deltaFiles', snapshotFiles')
    BY <1>1, <2>3, <2>4 DEF There, HasSnapshot
  <2>7. IntactRun(p)'
    <3>1. ~Lingers(p)'
      BY <2>2 DEF Lingers
    <3> QED
      BY <1>1, <1>4, <2>2, <2>4, <2>5, <2>6, <3>1 DEF IntactRun
  <2>8. IntactRow' /\ IntactUnf'
    BY <1>1, <2>2, FilesGrow
  <2>9. initialising'[p]
    BY <1>1, <1>4
  <2> QED
    BY <1>1, <1>3, <2>2, <2>7, <2>8, <2>9, IntactKept
<1>5. CASE ~initialising[p]
  <2>1. pc' = [pc EXCEPT ![p] = "relock"] /\ local' = local
    BY <1>5 DEF WriteSnapshot
  <2>2. Others(p) /\ pc'[p] = "relock"
    BY <1>1, <2>1, StepOthers
  <2>3. Lingers(p) /\ ~Holds(p)' /\ ~initialising'[p]
    BY <1>1, <1>5, <2>2 DEF Lingers, Holds
  <2>4. \A q \in Servers : Holds(q)' /\ ~initialising'[q] =>
            Holds(q) /\ ~initialising[q]
    <3>1. \A q \in Servers : q # p => (Holds(q)' <=> Holds(q))
      BY <2>2 DEF Others, Holds
    <3> QED
      BY <1>1, <2>3, <3>1
  <2>5. IntactRun(p)'
    <3>1. /\ local'[p].version # 0 /\ Fits(status', aged', local'[p].version)
          /\ \A q \in Servers : Holds(q)' /\ ~initialising'[q] =>
                Fits(local'[q], aged', local'[p].version)
      BY <1>1, <1>2, <2>1, <2>3, <2>4 DEF IntactRun
    <3>2. snapshot'[p] > aged' /\ \E s \in snapshotFiles' : s.file = snapshot'[p]
      BY <1>1, <1>3
    <3>3. /\ horizon'[p] = aged' /\ status'.session = local'[p].session /\ status'.session # 0
      BY <1>1, <1>2, <1>5, <2>1 DEF IntactRun
    <3> QED
      BY <2>2, <2>3, <3>1, <3>2, <3>3 DEF IntactRun
  <2>6. IntactRow' /\ IntactUnf'
    BY <1>1, <2>2, FilesGrow
  <2> QED
    BY <1>1, <1>3, <2>2, <2>3, <2>5, <2>6, IntactKept
<1> QED
  BY <1>4, <1>5

\* A run puts its snapshot in the status that others have replaced.
LEMMA RelockIntact ==
    ASSUME TypeInv, ShapeInv, LockInv, LossInv, Intact, Calm, NEW p \in Servers, Relock(p)
    PROVE  Intact'
<1>1. /\ pc[p] = "relock" /\ pc' = [pc EXCEPT ![p] = "expire"] /\ initialising' = initialising
      /\ local' = [local EXCEPT ![p] = WithSnapshot(p, status, snapshot[p])]
      /\ horizon' = horizon /\ snapshot' = snapshot /\ status' = status /\ statusLock = None
      /\ deltaFiles' = deltaFiles /\ snapshotFiles' = snapshotFiles /\ unf' = unf
      /\ statusLock' = p /\ snapshotLock' = snapshotLock /\ created' = created /\ aged' = aged
  BY DEF Relock, databaseVars, diskVars, boundVars
<1>2. Others(p) /\ pc'[p] = "expire" /\ local'[p] = WithSnapshot(p, status, snapshot[p])
  BY <1>1, StepOthers, Replaced
<1>3. /\ IntactRun(p) /\ LockOK(p) /\ HandsOK(p) /\ p # None /\ IntactRow
      /\ created \in Nat /\ created <= created
  BY IntactFacts
<1>4. status # None /\ status \in StatusType /\ Lingers(p) /\ ~initialising[p]
  BY <1>1, <1>3, TypeFacts DEF TypeInv, Lingers, LockOK
<1>5. HasSnapshot(local'[p], status, snapshot[p], local[p].version, maxSerial[p])
  <2>1. local'[p] = AsSnapshot(status, snapshot[p], local[p].version, maxSerial[p])
    BY <1>2 DEF WithSnapshot, AsSnapshot
  <2>2. HasSnapshot(AsSnapshot(status, snapshot[p], local[p].version, maxSerial[p]),
                    status, snapshot[p], local[p].version, maxSerial[p])
    BY <1>4, TypeFacts, StatusFields, SnapshotFields
  <2> QED
    BY <2>1, <2>2
<1>6. /\ local[p].version # 0 /\ Fits(status, aged, local[p].version)
      /\ status.session = local[p].session /\ status.session # 0
      /\ horizon[p] = aged /\ \E s \in snapshotFiles : s.file = snapshot[p]
  BY <1>1, <1>3, <1>4 DEF IntactRun
<1>7. Ready(status, aged) /\ There(status, deltaFiles, snapshotFiles)
  BY <1>1, <1>3, <1>4, <1>6 DEF IntactRow
<1>8. Ready(local'[p], aged)
  <2>1. local[p].version <= status.version
    BY <1>3, <1>4, <1>6 DEF HandsOK
  <2>2. Gapless(status.deltas)
    BY <1>7 DEF Ready
  <2> QED
    BY <1>5, <1>6, <2>1, <2>2, ReadySnapshot DEF HasSnapshot
<1>9. There(local'[p], deltaFiles', snapshotFiles')
  BY <1>1, <1>5, <1>6, <1>7 DEF There, HasSnapshot
<1>10. IntactRun(p)'
  <2>1. ~Lingers(p)'
    BY <1>2 DEF Lingers
  <2> QED
    BY <1>1, <1>2, <1>4, <1>5, <1>6, <1>8, <1>9, <2>1 DEF IntactRun, HasSnapshot
<1>11. IntactRow' /\ IntactUnf'
  BY <1>1, <1>2, <1>3, FilesGrow
<1>12. ASSUME NEW q \in Servers, Lingers(q) PROVE Fits(local'[p], aged, local[q].version)
  <2>1. Fits(status, aged, local[q].version)
    BY <1>12, IntactFacts DEF IntactRun
  <2> QED
    BY <1>5, <2>1 DEF Fits, Young, HasSnapshot
<1> QED
  BY <1>1, <1>2, <1>3, <1>10, <1>11, <1>12, IntactKept

\* A run commits.
LEMMA CommitsIntact ==
    ASSUME TypeInv, ShapeInv, LockInv, LossInv, Intact, Calm, NEW p \in Servers,
           CommitDelta(p) \/ CommitSnapshot(p)
    PROVE  Intact'
<1>1. /\ pc[p] = "commit" /\ status' = AsForced(local[p], FALSE) /\ unf' = unf
      /\ created' = created /\ deltaFiles' = deltaFiles /\ snapshotFiles' = snapshotFiles
      /\ aged' = aged
  BY DEF CommitDelta, CommitSnapshot, Record, diskVars, boundVars, AsForced
<1>2. /\ Others(p)
      /\ CommitDelta(p) => /\ pc'[p] = "decide" /\ local'[p] = local[p] /\ snapshotLock # p
                           /\ initialising'[p] = initialising[p] /\ snapshotLock' = snapshotLock
                           /\ horizon'[p] = horizon[p]
      /\ CommitSnapshot(p) => pc'[p] = "idle" /\ initialising'[p] = FALSE /\ snapshotLock' = None
      /\ \A q \in Servers : q # p => snapshot'[q] = snapshot[q] /\ horizon'[q] = horizon[q]
      /\ \A q \in Servers : q # p => (snapshotLock' = q => snapshotLock = q)
  <2>1. CASE CommitDelta(p)
    BY <2>1, TypeFacts DEF CommitDelta, CommitSnapshot, Others
  <2>2. CASE CommitSnapshot(p)
    <3>1. \A q \in Servers : q # None
      BY NoneAssumption
    <3> QED
      BY <2>2, <3>1, TypeFacts DEF CommitDelta, CommitSnapshot, EndRun, Others
  <2> QED
    BY <2>1, <2>2
<1>3. SameRow(status', local[p])
  BY <1>1, TypeFacts, WithForce DEF SameRow
<1>4. IntactRun(p) /\ LockOK(p) /\ HandsOK(p) /\ aged <= created /\ p # None
  BY IntactFacts
<1>5. Holds(p) /\ \A q \in Servers : q # p => ~Holds(q) /\ ~initialising[q]
  <2>1. Holds(p)
    BY <1>1 DEF Holds
  <2> QED
    BY <2>1, Alone
<1>6. /\ Ready(local[p], aged) /\ There(local[p], deltaFiles, snapshotFiles)
      /\ unf = UnfOf(local[p]) /\ horizon[p] = aged
  BY <1>1, <1>4 DEF IntactRun
<1>7. Ready(status', aged) /\ There(status', deltaFiles, snapshotFiles)
  BY <1>3, <1>6, ReadySame
<1>8. /\ status'.session = local[p].session /\ local[p].session # 0
  BY <1>3, <1>6 DEF SameRow, Ready
<1>9. ~initialising'[p] /\ ~Holds(p)' /\ \A q \in Servers : ~Holds(q)'
  <2>1. ~initialising'[p] /\ ~Holds(p)'
    BY <1>1, <1>2, <1>4 DEF LockOK, Holds
  <2>2. ASSUME NEW q \in Servers, q # p PROVE ~Holds(q)'
    BY <1>2, <1>5, <2>2 DEF Others, Holds
  <2> QED
    BY <2>1, <2>2
<1>10. IntactRun(p)'
  <2>1. CASE CommitSnapshot(p)
    BY <1>2, <1>4, <1>9, <2>1 DEF IntactRun, Lingers
  <2>2. CASE CommitDelta(p)
    <3>1. RefsOK(local[p], World)
      BY <1>4, <1>5 DEF HandsOK, StateOK
    <3>2. Fits(status', aged, local[p].version)
      <4>1. Fits(local[p], aged, local[p].version)
        BY <3>1, OwnFits
      <4> QED
        BY <1>3, <4>1, ReadySame
    <3>3. local[p].version # 0
      <4>1. local[p].version \in Nat /\ local[p].snapVersion \in Nat
        BY TypeFacts, StatusFields
      <4>2. local[p].snapVersion # 0 /\ local[p].snapVersion <= local[p].version
        BY <1>6 DEF Ready
      <4> QED
        BY <4>1, <4>2
    <3> QED
      BY <1>1, <1>2, <1>6, <1>8, <1>9, <2>2, <3>2, <3>3 DEF IntactRun
  <2> QED
    BY <2>1, <2>2
<1>11. ASSUME NEW q \in Servers, q # p PROVE IntactRun(q)'
  <2>1. /\ pc'[q] = pc[q] /\ local'[q] = local[q] /\ initialising'[q] = initialising[q]
        /\ snapshot'[q] = snapshot[q] /\ horizon'[q] = horizon[q]
        /\ (snapshotLock' = q => snapshotLock = q)
    BY <1>2, <1>11 DEF Others
  <2>2. IntactRun(q) /\ ~Holds(q) /\ ~initialising[q]
    BY <1>5, <1>11, IntactFacts
  <2>3. pc[q] \notin {"delta", "expire", "unf", "snapshots", "commit"}
    BY <2>2 DEF Holds
  <2>4. pc[q] \notin {"idle", "start"} =>
            /\ status'.session = local[q].session /\ status'.session # 0
            /\ ~initialising[p]
    <3> SUFFICES ASSUME pc[q] \notin {"idle", "start"}
                 PROVE  status'.session = local[q].session /\ status'.session # 0 /\ ~initialising[p]
      OBVIOUS
    <3>1. status.session = local[q].session /\ status.session # 0
      BY <2>2 DEF IntactRun
    <3>2. ~initialising[p]
      BY <1>4, <3>1 DEF IntactRun
    <3>3. status.session = local[p].session
      BY <1>1, <1>4, <3>2 DEF IntactRun
    <3> QED
      BY <1>8, <3>1, <3>2, <3>3
  <2>5. Lingers(q)' => Lingers(q) /\ local[q].version # 0 /\ Fits(status', aged, local[q].version)
    <3> SUFFICES ASSUME Lingers(q)'
                 PROVE  Lingers(q) /\ local[q].version # 0 /\ Fits(status', aged, local[q].version)
      OBVIOUS
    <3>1. Lingers(q) /\ pc[q] \notin {"idle", "start"}
      BY <2>1 DEF Lingers
    <3>2. ~initialising[p]
      BY <2>4, <3>1
    <3>3. local[q].version # 0 /\ Fits(local[p], aged, local[q].version)
      BY <1>5, <2>2, <3>1, <3>2 DEF IntactRun
    <3> QED
      BY <1>3, <3>1, <3>3, ReadySame
  <2>6. pc[q] = "relock" => snapshot[q] > aged /\ \E s \in snapshotFiles' : s.file = snapshot[q]
    BY <1>1, <2>2 DEF IntactRun
  <2>7. /\ pc'[q] # "idle" => horizon'[q] = aged'
        /\ snapshotLock' = q => pc'[q] \in {"snapshot", "relock", "expire", "unf", "snapshots", "commit"}
    BY <1>1, <2>1, <2>2 DEF IntactRun
  <2> QED
    BY <1>1, <1>9, <2>1, <2>2, <2>3, <2>4, <2>5, <2>6, <2>7 DEF IntactRun
<1>12. IntactRow'
  BY <1>1, <1>7 DEF IntactRow
<1>13. IntactUnf'
  <2>1. Complete(UnfOf(local[p]))
    BY <1>6, ThereComplete
  <2>2. Complete(unf)'
    BY <1>1, <1>6, <2>1 DEF Complete
  <2> QED
    BY <2>2 DEF IntactUnf
<1>14. aged' <= created' /\ \A q \in Servers : IntactRun(q)'
  BY <1>1, <1>4, <1>10, <1>11
<1> QED
  BY <1>12, <1>13, <1>14 DEF Intact

\* A status row is made, or another run has asked for a reload.
LEMMA RowIntact ==
    ASSUME TypeInv, LockInv, Intact, UNCHANGED <<diskVars, runVars, statusLock, snapshotLock, aged>>,
           IF status = None THEN status' \in {None, EmptyStatus} ELSE SameRow(status', status)
    PROVE  Intact'
<1>1. /\ pc' = pc /\ local' = local /\ initialising' = initialising /\ snapshot' = snapshot
      /\ horizon' = horizon /\ unf' = unf /\ deltaFiles' = deltaFiles
      /\ snapshotFiles' = snapshotFiles /\ created' = created
      /\ statusLock' = statusLock /\ snapshotLock' = snapshotLock /\ aged' = aged
  BY DEF diskVars, runVars
<1>2. \A p \in Servers : (Holds(p)' <=> Holds(p)) /\ (Lingers(p)' <=> Lingers(p))
  BY <1>1 DEF Holds, Lingers
<1>3. ASSUME NEW p \in Servers PROVE IntactRun(p)'
  <2>1. IntactRun(p) /\ LockOK(p)
    BY DEF Intact, LockInv
  <2>2. CASE status = None
    <3>1. pc[p] \in {"idle", "start"}
      BY <2>2 DEF TypeInv
    <3>2. ~initialising[p] /\ snapshotLock # p /\ ~Lingers(p)
      BY <2>1, <3>1 DEF LockOK, IntactRun, Lingers
    <3>3. pc[p] # "idle" => horizon[p] = aged
      BY <2>1 DEF IntactRun
    <3> QED
      BY <1>1, <1>2, <3>1, <3>2, <3>3 DEF IntactRun
  <2>3. CASE status # None
    <3>1. status'.session = status.session
      BY <2>3 DEF SameRow
    <3>2. \A v : Fits(status, aged, v) => Fits(status', aged, v)
      BY <2>3, ReadySame
    <3>3. UnfOf(local[p])' = UnfOf(local[p])
      BY <1>1 DEF UnfOf
    <3> QED
      BY <1>1, <1>2, <2>1, <3>1, <3>2, <3>3 DEF IntactRun
  <2> QED
    BY <2>2, <2>3
<1>4. IntactRow'
  <2>1. CASE status = None
    BY <2>1, EmptyFields DEF IntactRow
  <2>2. CASE status # None
    <3>1. status'.session = status.session
      BY <2>2 DEF SameRow
    <3>2. (Ready(status, aged) => Ready(status', aged)) /\ (There(status, deltaFiles, snapshotFiles)
              => There(status', deltaFiles, snapshotFiles))
      BY <2>2, ReadySame
    <3> QED
      BY <1>1, <2>2, <3>1, <3>2 DEF Intact, IntactRow
  <2> QED
    BY <2>1, <2>2
<1>5. IntactUnf'
  BY <1>1 DEF Intact, IntactUnf, Complete
<1>6. aged' <= created'
  BY <1>1 DEF Intact
<1> QED
  BY <1>3, <1>4, <1>5, <1>6 DEF Intact

\* When all runs are idle, the source is loaded anew, or a day passes.
LEMMA IdleIntact ==
    ASSUME TypeInv, LockInv, Intact, UNCHANGED <<diskVars, runVars, statusLock, snapshotLock>>,
           \A p \in Servers : pc[p] = "idle", aged' <= created', IntactRow'
    PROVE  Intact'
<1>1. /\ pc' = pc /\ initialising' = initialising /\ unf' = unf /\ deltaFiles' = deltaFiles
      /\ snapshotFiles' = snapshotFiles /\ snapshotLock' = snapshotLock
  BY DEF diskVars, runVars
<1>2. ASSUME NEW p \in Servers PROVE IntactRun(p)'
  <2>1. pc[p] = "idle" /\ IntactRun(p) /\ LockOK(p)
    BY DEF Intact, LockInv
  <2>2. pc'[p] = "idle" /\ ~initialising'[p] /\ snapshotLock' # p
    BY <1>1, <2>1 DEF LockOK, IntactRun
  <2> QED
    BY <2>2 DEF IntactRun, Lingers
<1>3. IntactUnf'
  BY <1>1 DEF Intact, IntactUnf, Complete
<1> QED
  BY <1>2, <1>3 DEF Intact

\* The other processes.
LEMMA EnvironmentIntact ==
    ASSUME TypeInv, LockInv, LossInv, Intact, Calm, ~overtaken', Environment
    PROVE  Intact'
<1>1. ASSUME NEW o \in Objects, NEW t \in Texts \union {None}, Change(o, t) PROVE Intact'
  <2>1. /\ UNCHANGED <<diskVars, runVars, statusLock, snapshotLock, aged>>
        /\ status' = status \/ (status = None /\ status' = EmptyStatus)
    BY <1>1 DEF Change, StatusKept, boundVars
  <2>2. IF status = None THEN status' \in {None, EmptyStatus} ELSE SameRow(status', status)
    BY <2>1, TypeFacts DEF SameRow
  <2> QED
    BY <2>1, <2>2, RowIntact
<1>2. CASE ChangeElsewhere
  <2>1. UNCHANGED <<diskVars, runVars, statusLock, snapshotLock, aged>> /\ status' = status
    BY <1>2 DEF ChangeElsewhere, boundVars
  <2>2. IF status = None THEN status' \in {None, EmptyStatus} ELSE SameRow(status', status)
    BY <2>1, TypeFacts DEF SameRow
  <2> QED
    BY <2>1, <2>2, RowIntact
<1>3. CASE SetForceReload
  <2>1. /\ UNCHANGED <<diskVars, runVars, statusLock, snapshotLock, aged>>
        /\ status # None /\ status' = AsForced(status, TRUE)
    BY <1>3 DEF SetForceReload, boundVars, AsForced
  <2>2. SameRow(AsForced(status, TRUE), status)
    BY <2>1, TypeFacts, WithForce DEF SameRow
  <2>3. SameRow(status', status)
    BY <2>1, <2>2
  <2> QED
    BY <2>1, <2>3, RowIntact
<1>4. ASSUME NEW objects \in [Objects -> Texts \union {None}], Reload(objects) PROVE Intact'
  <2>1. /\ UNCHANGED <<diskVars, runVars, statusLock, snapshotLock, aged>>
        /\ status' = EmptyStatus /\ created' = created
        /\ overtaken' = (overtaken \/ \E p \in Servers : pc[p] # "idle")
    BY <1>4 DEF Reload, diskVars
  <2>2. \A p \in Servers : pc[p] = "idle"
    BY <2>1
  <2>3. aged' <= created' /\ IntactRow'
    BY <2>1, EmptyFields DEF Intact, IntactRow
  <2> QED
    BY <2>1, <2>2, <2>3, IdleIntact
<1>5. CASE DayPasses
  <2>1. /\ UNCHANGED <<diskVars, runVars, statusLock, snapshotLock>> /\ aged' = created
        /\ status' = status /\ deltaFiles' = deltaFiles /\ snapshotFiles' = snapshotFiles
        /\ created' = created
    BY <1>5 DEF DayPasses, databaseVars, diskVars
  <2>2. /\ \A p \in Servers : pc[p] = "idle"
        /\ status # None => status.snapVersion = status.version
    BY <1>5 DEF DayPasses, Calm
  <2>3. aged' <= created'
    BY <2>1, TypeFacts
  <2>4. IntactRow'
    <3> SUFFICES ASSUME status # None, status.session # 0, statusLock = None
                 PROVE  Ready(status, created) /\ There(status, deltaFiles, snapshotFiles)
      BY <2>1 DEF IntactRow
    <3>1. Ready(status, aged) /\ There(status, deltaFiles, snapshotFiles)
      BY DEF Intact, IntactRow
    <3>2. RefsOK(status, World)
      BY DEF LossInv, Calm, StateOK
    <3> QED
      BY <2>2, <3>1, <3>2, ReadyNextDay
  <2> QED
    BY <2>1, <2>2, <2>3, <2>4, IdleIntact
<1> QED
  BY <1>1, <1>2, <1>3, <1>4, <1>5 DEF Environment

\* Every step of a run that does not end early.
LEMMA RunIntact ==
    ASSUME TypeInv, ShapeInv, LockInv, LossInv, Intact, Calm, NEW p \in Servers, Run(p)
    PROVE  Intact'
<1>1. CASE Start(p) \/ LockSnapshot(p)
  BY <1>1, StartIntact
<1>2. CASE Cancel(p) \/ SkipSnapshot(p)
  BY <1>2, EndedIntact
<1>3. CASE SnapshotLocked(p)
  BY <1>3, NeverLocked, EndedIntact
<1>4. CASE Initialise(p)
  BY <1>4, InitialiseIntact
<1>5. CASE Resume(p)
  BY <1>5, ResumeIntact
<1>6. CASE WriteDelta(p)
  BY <1>6, WriteDeltaIntact
<1>7. CASE ExpireDeltas(p)
  BY <1>7, ExpireDeltasIntact
<1>8. CASE WriteUnf(p)
  BY <1>8, WriteUnfIntact
<1>9. CASE Fail(p)
  BY <1>9, NeverFails
<1>10. CASE ExpireSnapshots(p)
  BY <1>10, ExpireSnapshotsIntact
<1>11. CASE WriteSnapshot(p)
  BY <1>11, WriteSnapshotIntact
<1>12. CASE Relock(p)
  BY <1>12, RelockIntact
<1>13. CASE CommitDelta(p) \/ CommitSnapshot(p)
  BY <1>13, CommitsIntact
<1> QED
  BY <1>1, <1>2, <1>3, <1>4, <1>5, <1>6, <1>7, <1>8, <1>9, <1>10, <1>11, <1>12, <1>13 DEF Run

\* Nothing becomes calm again.
LEMMA CalmBefore ==
    ASSUME TypeInv, [MirrorNext]_<<scenario, mirrorVars>>, Calm'
    PROVE  Calm /\ ~\E p \in Servers : Crash(p)
<1>1. crashes \in Nat
  BY TypeFacts
<1>2. crashes' = crashes \/ crashes' = crashes + 1
  BY DEF MirrorNext, ServerStep, Next, Environment, Run, Crash, Change, ChangeElsewhere, Reload,
     SetForceReload, DayPasses, Start, Cancel, Initialise, Resume, WriteDelta, ExpireDeltas,
     WriteUnf, Fail, ExpireSnapshots, CommitDelta, CommitSnapshot, SkipSnapshot, LockSnapshot,
     SnapshotLocked, WriteSnapshot, Relock, boundVars, ClientStep, ClientForceReload, ClientAbort,
     mirrorVars, serverVars
<1>3. overtaken' = overtaken \/ overtaken' = (overtaken \/ \E p \in Servers : pc[p] # "idle")
  BY DEF MirrorNext, ServerStep, Next, Environment, Run, Crash, Change, ChangeElsewhere, Reload,
     SetForceReload, DayPasses, Start, Cancel, Initialise, Resume, WriteDelta, ExpireDeltas,
     WriteUnf, Fail, ExpireSnapshots, CommitDelta, CommitSnapshot, SkipSnapshot, LockSnapshot,
     SnapshotLocked, WriteSnapshot, Relock, boundVars, ClientStep, ClientForceReload, ClientAbort,
     mirrorVars, serverVars
<1>4. scenario' = scenario
  BY DEF MirrorNext, ServerStep, Next, ClientStep, ClientForceReload, ClientAbort
<1>5. Calm
  <2>1. crashes' = 0 /\ ~overtaken' /\ "outage" \notin Operations'
    BY DEF Calm
  <2>2. crashes = 0
    BY <1>1, <1>2, <2>1
  <2>3. ~overtaken
    BY <1>3, <2>1
  <2>4. "outage" \notin Operations
    BY <1>4, <2>1 DEF Operations
  <2> QED
    BY <2>2, <2>3, <2>4 DEF Calm
<1>6. ~\E p \in Servers : Crash(p)
  BY <1>1 DEF Crash, Calm
<1> QED
  BY <1>5, <1>6

\* Every step.
LEMMA CalmNext ==
    TypeInv /\ ShapeInv /\ LockInv /\ LossInv /\ CalmInv /\ [MirrorNext]_<<scenario, mirrorVars>>
        => CalmInv'
<1> SUFFICES ASSUME TypeInv, ShapeInv, LockInv, LossInv, CalmInv,
                    [MirrorNext]_<<scenario, mirrorVars>>, Calm'
             PROVE  Intact'
  BY DEF CalmInv
<1>1. Calm /\ Intact /\ ~\E p \in Servers : Crash(p)
  BY CalmBefore DEF CalmInv
<1>2. CASE UNCHANGED <<scenario, mirrorVars>> \/ ClientStep \/ ClientForceReload \/ ClientAbort
  <2>1. UNCHANGED <<databaseVars, diskVars, runVars, statusLock, snapshotLock, aged>>
    BY <1>2 DEF mirrorVars, serverVars, diskVars, boundVars, ClientStep, ClientForceReload,
       ClientAbort, OnServer, Client!ClientRun, Client!RetrieveUnf, Client!LoadSnapshot,
       Client!LoadDelta, Client!Finish, Client!Refuse, Client!ForceReload, Client!Abort, Client!files
  <2>2. IF status = None THEN status' \in {None, EmptyStatus} ELSE SameRow(status', status)
    <3>1. status' = status
      BY <2>1 DEF databaseVars
    <3> QED
      BY <3>1, TypeFacts DEF SameRow
  <2> QED
    BY <1>1, <2>1, <2>2, RowIntact
<1>3. CASE Environment
  BY <1>1, <1>3, EnvironmentIntact DEF Calm
<1>4. ASSUME NEW p \in Setup[scenario].servers, Run(p) \/ Crash(p) PROVE Intact'
  <2>1. p \in Servers
    BY SetupAssumption DEF ShapeInv
  <2> QED
    BY <1>1, <1>4, <2>1, RunIntact
<1> QED
  BY <1>2, <1>3, <1>4 DEF MirrorNext, ServerStep, Next

\* Nothing is missing at the start.
LEMMA CalmInit == Init => CalmInv
<1> SUFFICES ASSUME Init PROVE Intact
  BY DEF CalmInv
<1>1. \A p \in Servers : IntactRun(p)
  BY NoneAssumption DEF Init, IntactRun, Lingers
<1> QED
  BY <1>1 DEF Init, Intact, IntactRow, IntactUnf

\* What is published is there when no run is at work.
LEMMA IntactServable == LockInv /\ CalmInv => Servable
<1> SUFFICES ASSUME LockInv, Intact, statusLock = None, unf # None PROVE Complete(unf)
  BY DEF Servable, CalmInv, Calm
<1>1. \A p \in Servers : pc[p] # "unf"
  BY NoneAssumption DEF LockInv, LockOK, Holds
<1> QED
  BY <1>1 DEF Intact, IntactUnf

\* All files of the update notification file are there when no run is at work, as long
\* as none has ended early, took a day or was overtaken by a reload (nrtm4_server.py
\* 268-306): for any number of runs that overlap, none deletes a file that another
\* publishes, and none of them fails.
THEOREM FilesStayThere == MirrorSpec => []Servable
<1>1. MirrorInit => TypeInv /\ ShapeInv /\ LockInv /\ LossInv /\ CalmInv
  BY ServerInit, TypesInit, LossInit, CalmInit DEF MirrorInit
<1>2. TypeInv /\ ShapeInv /\ LockInv /\ LossInv /\ CalmInv
         /\ [MirrorNext]_<<scenario, mirrorVars>> =>
         TypeInv' /\ ShapeInv' /\ LockInv' /\ LossInv' /\ CalmInv'
  BY ServerNext, TypesNext, LossNext, CalmNext DEF ShapeInv
<1>3. LockInv /\ CalmInv => Servable
  BY IntactServable
<1> QED
  BY <1>1, <1>2, <1>3, PTL DEF MirrorSpec

-----------------------------------------------------------------------------
(* History is not rewritten *)

\* What a status of the same session, version, deltas and snapshot agrees with.
LEMMA SameAgrees ==
    ASSUME NEW st, NEW new, SameRow(new, st)
    PROVE  (Distinct(st) => Distinct(new)) /\ \A u : Agree(u, st) => Agree(u, new)
  BY DEF SameRow, Distinct, Agree

\* A status agrees with its own notification file.
LEMMA OwnAgrees ==
    ASSUME NEW st \in StatusType, Distinct(st)
    PROVE  Agree(UnfOf(st), st)
<1>1. /\ UnfOf(st).session = st.session /\ UnfOf(st).version = st.version
      /\ UnfOf(st).snapshot.version = st.snapVersion /\ UnfOf(st).snapshot.file = st.snapFile
      /\ UnfOf(st).deltas = {[version |-> r.version, file |-> r.file] : r \in st.deltas}
  BY DEF UnfOf
<1>2. \A ref \in UnfOf(st).deltas : \E r \in st.deltas : ref.version = r.version /\ ref.file = r.file
  BY <1>1
<1>3. st.version \in Nat /\ st.version <= st.version
  BY StatusFields
<1> QED
  BY <1>1, <1>2, <1>3 DEF Agree, Distinct

\* What the next notification file may refer to.
LEMMA AgreedReferences ==
    ASSUME NEW u, NEW st, Agree(u, st), u.session = st.session
    PROVE  \A now \in References(UnfOf(st)), before \in References(u) :
              now.kind = before.kind /\ now.version = before.version => now.file = before.file
<1> SUFFICES ASSUME NEW now \in References(UnfOf(st)), NEW before \in References(u),
                    now.kind = before.kind, now.version = before.version
             PROVE  now.file = before.file
  OBVIOUS
<1>1. /\ UnfOf(st).snapshot.version = st.snapVersion /\ UnfOf(st).snapshot.file = st.snapFile
      /\ UnfOf(st).deltas = {[version |-> r.version, file |-> r.file] : r \in st.deltas}
  BY DEF UnfOf
<1>2. \/ now.kind = "snapshot" /\ now.version = st.snapVersion /\ now.file = st.snapFile
      \/ now.kind = "delta" /\ \E r \in st.deltas : now.version = r.version /\ now.file = r.file
  <2>1. CASE now \in {[kind |-> "snapshot", version |-> UnfOf(st).snapshot.version,
                       file |-> UnfOf(st).snapshot.file]}
    BY <1>1, <2>1
  <2>2. CASE now \in {[kind |-> "delta", version |-> ref.version, file |-> ref.file] :
                          ref \in UnfOf(st).deltas}
    <3>1. PICK ref \in UnfOf(st).deltas :
              now = [kind |-> "delta", version |-> ref.version, file |-> ref.file]
      BY <2>2
    <3>2. PICK r \in st.deltas : ref = [version |-> r.version, file |-> r.file]
      BY <1>1, <3>1
    <3> QED
      BY <3>1, <3>2
  <2> QED
    BY <2>1, <2>2 DEF References
<1>3. \/ before.kind = "snapshot" /\ before.version = u.snapshot.version
         /\ before.file = u.snapshot.file
      \/ before.kind = "delta" /\ \E ref \in u.deltas : before.version = ref.version
                                                       /\ before.file = ref.file
  BY DEF References
<1> QED
  BY <1>2, <1>3 DEF Agree

\* The other processes have no run.
LEMMA OthersIdle ==
    ASSUME LockInv, InTurn, NEW p \in Setup[scenario].servers
    PROVE  \A q \in Servers : q # p => pc[q] = "idle" /\ ~initialising[q]
<1> SUFFICES ASSUME NEW q \in Servers, q # p PROVE pc[q] = "idle" /\ ~initialising[q]
  OBVIOUS
<1>1. LockOK(q)
  BY DEF LockInv
<1>2. pc[q] = "idle"
  BY <1>1 DEF LockOK, InTurn
<1> QED
  BY <1>1, <1>2 DEF LockOK

\* A step of a run keeps history if it does so for the run and for the status row.
LEMMA RunHistory ==
    ASSUME LockInv, InTurn, History, NEW p \in Setup[scenario].servers, p \in Servers, Others(p),
           HistoryRun(p)', HistoryRow'
    PROVE  History'
<1>1. ASSUME NEW q \in Servers, q # p PROVE HistoryRun(q)'
  <2>1. pc'[q] = "idle" /\ local'[q] = local[q] /\ ~initialising'[q]
    BY <1>1, OthersIdle DEF Others
  <2>2. Distinct(local[q])
    BY DEF History, HistoryRun
  <2> QED
    BY <2>1, <2>2 DEF HistoryRun, Lingers, Distinct
<1> QED
  BY <1>1 DEF History

\* A step that leaves the status row and the notification file alone.
LEMMA RowHistory ==
    ASSUME LockInv, InTurn, History, NEW p \in Setup[scenario].servers, p \in Servers, Others(p),
           status' = status, unf' = unf,
           pc[p] \notin {"snapshots", "commit"} \/ pc'[p] \in {"snapshots", "commit"}
    PROVE  HistoryRow'
<1>1. status' # None => Distinct(status')
  BY DEF History, HistoryRow
<1>2. ASSUME status' # None, unf' # None, \A q \in Servers : pc'[q] \notin {"snapshots", "commit"}
      PROVE  Agree(unf', status')
  <2>1. \A q \in Servers : pc[q] \notin {"snapshots", "commit"}
    BY <1>2, OthersIdle
  <2> QED
    BY <1>2, <2>1 DEF History, HistoryRow
<1> QED
  BY <1>1, <1>2 DEF HistoryRow

\* A run ends without a commit.
LEMMA EndsHistory ==
    ASSUME TypeInv, LockInv, InTurn, History, NEW p \in Setup[scenario].servers, p \in Servers,
           EndRun(p), status' = status, unf' = unf, pc[p] \notin {"snapshots", "commit"}
    PROVE  History'
<1>1. pc'[p] = "idle" /\ local'[p] = EmptyStatus /\ initialising'[p] = FALSE /\ Others(p)
  BY TypeFacts DEF EndRun, Others
<1>2. HistoryRun(p)'
  BY <1>1, EmptyFields DEF HistoryRun, Distinct, Lingers
<1>3. HistoryRow'
  BY <1>1, RowHistory
<1> QED
  BY <1>1, <1>2, <1>3, RunHistory

\* The steps that leave the status in hand alone, and what is published.
LEMMA QuietHistory ==
    ASSUME TypeInv, ShapeInv, LockInv, InTurn, History, NEW p \in Setup[scenario].servers,
           p \in Servers, Start(p) \/ LockSnapshot(p) \/ ExpireSnapshots(p)
    PROVE  History'
<1>1. /\ local' = local /\ initialising' = initialising /\ status' = status /\ unf' = unf
  BY DEF Start, LockSnapshot, ExpireSnapshots, databaseVars, diskVars
<1>2. PICK x : /\ pc' = [pc EXCEPT ![p] = x]
               /\ \/ pc[p] = "idle" /\ x = "start"
                  \/ pc[p] = "decide" /\ x = "snapshot" /\ SnapshotDue(local[p])
                  \/ pc[p] = "snapshots" /\ x = "commit"
  BY DEF Start, LockSnapshot, ExpireSnapshots
<1>3. Others(p) /\ pc'[p] = x
  BY <1>1, <1>2, StepOthers
<1>4. HistoryRun(p)'
  <2>1. HistoryRun(p)
    BY DEF History
  <2>2. UnfOf(local[p])' = UnfOf(local[p])
    BY <1>1 DEF UnfOf
  <2>3. Distinct(local'[p])
    BY <1>1, <2>1 DEF HistoryRun
  <2>4. pc'[p] \in {"snapshots", "commit"} \/ Lingers(p)' =>
            unf' = UnfOf(local[p])' /\ local'[p].snapVersion # 0
    BY <1>1, <1>2, <1>3, <2>1, <2>2 DEF HistoryRun, Lingers
  <2>5. pc'[p] \in {"snapshot", "relock"} /\ ~initialising'[p] =>
            local'[p].snapVersion # local'[p].version
    BY <1>1, <1>2, <1>3, <2>1 DEF HistoryRun, Lingers, SnapshotDue
  <2>6. unf' # None /\ initialising'[p] /\ pc'[p] \in {"decide", "snapshot"} =>
            unf'.session # local'[p].session
    BY <1>1, <1>2, <1>3, <2>1 DEF HistoryRun
  <2>7. pc'[p] \notin {"delta", "expire", "unf"}
    BY <1>2, <1>3
  <2> QED
    BY <2>2, <2>3, <2>4, <2>5, <2>6, <2>7 DEF HistoryRun
<1>5. HistoryRow'
  BY <1>1, <1>2, <1>3, RowHistory
<1> QED
  BY <1>3, <1>4, <1>5, RunHistory

\* A run that cannot make a snapshot.
LEMMA LockedHistory ==
    ASSUME TypeInv, ShapeInv, LockInv, InTurn, History, NEW p \in Setup[scenario].servers,
           p \in Servers, SnapshotLocked(p), statusLock = p
    PROVE  History'
<1>1. /\ pc[p] = "decide" /\ pc' = [pc EXCEPT ![p] = "expire"]
      /\ local' = local /\ initialising' = initialising /\ status' = status /\ unf' = unf
  BY DEF SnapshotLocked, databaseVars, diskVars
<1>2. Others(p) /\ pc'[p] = "expire"
  BY <1>1, StepOthers
<1>3. initialising[p]
  BY <1>1 DEF LockInv, LockOK, Holds
<1>4. HistoryRun(p)'
  <2>1. HistoryRun(p)
    BY DEF History
  <2>2. Distinct(local'[p]) /\ ~Lingers(p)'
    BY <1>1, <1>2, <2>1 DEF HistoryRun, Lingers
  <2>3. unf' # None => Agree(unf', local'[p])
    BY <1>1, <1>3, <2>1 DEF HistoryRun, Agree
  <2> QED
    BY <1>2, <2>2, <2>3 DEF HistoryRun
<1>5. HistoryRow'
  BY <1>1, <1>2, RowHistory
<1> QED
  BY <1>2, <1>4, <1>5, RunHistory

\* A run takes the status row in hand.
LEMMA ResumeHistory ==
    ASSUME TypeInv, ShapeInv, LockInv, InTurn, History, NEW p \in Setup[scenario].servers,
           p \in Servers, Resume(p)
    PROVE  History'
<1>1. /\ pc[p] = "start" /\ pc' = [pc EXCEPT ![p] = "delta"] /\ status # None
      /\ local' = [local EXCEPT ![p] = status] /\ initialising' = initialising
      /\ status' = status /\ unf' = unf
  BY DEF Resume, Locked, databaseVars, diskVars
<1>2. Others(p) /\ pc'[p] = "delta" /\ local'[p] = status
  BY <1>1, StepOthers, Replaced
<1>3. \A q \in Servers : pc[q] \notin {"snapshots", "commit"}
  BY <1>1, OthersIdle
<1>4. HistoryRun(p)'
  <2>1. Distinct(local'[p]) /\ (unf' # None => Agree(unf', local'[p]))
    BY <1>1, <1>2, <1>3 DEF History, HistoryRow
  <2> QED
    BY <1>2, <2>1 DEF HistoryRun, Lingers
<1>5. HistoryRow'
  BY <1>1, <1>2, RowHistory
<1> QED
  BY <1>2, <1>4, <1>5, RunHistory

\* A run begins a session, which no notification file has.
LEMMA InitialiseHistory ==
    ASSUME TypeInv, ShapeInv, LockInv, InTurn, History, NEW p \in Setup[scenario].servers,
           p \in Servers, Initialise(p)
    PROVE  History'
<1>1. /\ pc[p] = "start" /\ pc' = [pc EXCEPT ![p] = "decide"] /\ status # None
      /\ initialising' = [initialising EXCEPT ![p] = TRUE] /\ status' = status /\ unf' = unf
      /\ local' = [local EXCEPT ![p] = AsSession(status, sessions + 1)]
  BY DEF Initialise, Locked, databaseVars, diskVars, AsSession
<1>2. /\ Others(p) /\ pc'[p] = "decide" /\ initialising'[p] = TRUE
      /\ local'[p] = AsSession(status, sessions + 1)
  <2>1. p \in DOMAIN pc /\ p \in DOMAIN local /\ p \in DOMAIN initialising
    BY TypeFacts
  <2> QED
    BY <1>1, <2>1 DEF Others
<1>3. local'[p].session = sessions + 1 /\ local'[p].deltas = {}
  <2>1. sessions + 1 \in Nat /\ status \in StatusType
    BY <1>1, TypeFacts
  <2> QED
    BY <1>2, <2>1, WithSession
<1>4. unf # None => unf.session # local'[p].session
  BY <1>3 DEF ShapeInv
<1>5. HistoryRun(p)'
  <2>1. Distinct(local'[p]) /\ ~Lingers(p)'
    BY <1>2, <1>3 DEF Distinct, Lingers
  <2> QED
    BY <1>1, <1>2, <1>4, <2>1 DEF HistoryRun
<1>6. HistoryRow'
  BY <1>1, <1>2, RowHistory
<1> QED
  BY <1>2, <1>5, <1>6, RunHistory

\* A run writes a delta, of a version that no notification file has.
LEMMA WriteDeltaHistory ==
    ASSUME TypeInv, ShapeInv, LockInv, InTurn, History, NEW p \in Setup[scenario].servers,
           p \in Servers, WriteDelta(p)
    PROVE  History'
<1>1. /\ pc[p] = "delta" /\ pc' = [pc EXCEPT ![p] = "expire"] /\ initialising' = initialising
      /\ status' = status /\ unf' = unf
  BY DEF WriteDelta, databaseVars, diskVars
<1>2. pc'[p] = "expire"
  BY <1>1, TypeFacts
<1>3. HistoryRun(p)
  BY DEF History
<1>4. Others(p) /\ Distinct(local'[p]) /\ (unf # None => Agree(unf, local'[p]))
  <2>1. CASE DeltaEntries(local[p]) = {}
    <3>1. local' = local
      BY <2>1 DEF WriteDelta
    <3> QED
      BY <1>1, <1>3, <3>1, StepOthers DEF HistoryRun
  <2>2. CASE DeltaEntries(local[p]) # {}
    <3>1. PICK ref \in DeltaRef :
              /\ ref.version = local[p].version + 1 /\ ref.file = created + 1
              /\ local'[p].session = local[p].session
              /\ local'[p].version = local[p].version + 1
              /\ local'[p].snapVersion = local[p].snapVersion
              /\ local'[p].snapFile = local[p].snapFile
              /\ local'[p].deltas = local[p].deltas \union {ref}
              /\ Others(p)
      BY <2>2, DeltaWritten
    <3>2. /\ local[p].version \in Nat
          /\ \A r \in local[p].deltas : r.version \in Nat /\ r.version <= local[p].version
      BY <1>3, TypeFacts, StatusFields DEF HistoryRun, Distinct, DeltaRef
    <3>3. \A r \in local[p].deltas : r.version # ref.version
      BY <3>1, <3>2
    <3>4. Distinct(local'[p])
      <4>1. \A r \in local'[p].deltas : r.version <= local'[p].version
        BY <3>1, <3>2
      <4>2. \A r, q \in local[p].deltas : r.version = q.version => r = q
        BY <1>3 DEF HistoryRun, Distinct
      <4> QED
        BY <3>1, <3>3, <4>1, <4>2 DEF Distinct
    <3>5. ASSUME unf # None, unf.session = local[p].session PROVE Agree(unf, local'[p])
      <4>1. Agree(unf, local[p])
        BY <1>1, <1>3, <3>5 DEF HistoryRun
      <4>2. unf.version \in Nat /\ unf.version <= local[p].version
        BY <3>5, <4>1 DEF Agree, ShapeInv
      <4>3. unf.version <= local[p].version + 1
        BY <3>2, <4>2
      <4>4. \A r \in unf.deltas : r.version # ref.version
        <5> SUFFICES ASSUME NEW r \in unf.deltas, r.version = local[p].version + 1 PROVE FALSE
          BY <3>1
        <5>1. r.version <= unf.version
          BY <3>5, <4>1 DEF Agree
        <5> QED
          BY <3>2, <4>2, <5>1
      <4> QED
        BY <3>1, <3>5, <4>1, <4>3, <4>4 DEF Agree
    <3>6. ASSUME unf # None, unf.session # local[p].session PROVE Agree(unf, local'[p])
      BY <3>1, <3>6 DEF Agree
    <3> QED
      BY <3>1, <3>4, <3>5, <3>6
  <2> QED
    BY <2>1, <2>2
<1>5. HistoryRun(p)'
  BY <1>1, <1>2, <1>4 DEF HistoryRun, Lingers
<1>6. HistoryRow'
  BY <1>1, <1>4, RowHistory
<1> QED
  BY <1>4, <1>5, <1>6, RunHistory

\* Expired deltas are deleted.
LEMMA ExpireDeltasHistory ==
    ASSUME TypeInv, ShapeInv, LockInv, InTurn, History, NEW p \in Setup[scenario].servers,
           p \in Servers, ExpireDeltas(p)
    PROVE  History'
<1> DEFINE kept == {r \in local[p].deltas : r.file > horizon[p]}
           new == AsKept(local[p], kept)
<1>1. /\ pc[p] = "expire" /\ pc' = [pc EXCEPT ![p] = "unf"] /\ initialising' = initialising
      /\ status' = status /\ unf' = unf /\ local' = [local EXCEPT ![p].deltas = kept]
  BY DEF ExpireDeltas, databaseVars, diskVars
<1>2. local' = [local EXCEPT ![p] = new]
  <2>1. local' = [local EXCEPT ![p] = [local[p] EXCEPT !.deltas = kept]]
    BY <1>1
  <2> QED
    BY <2>1 DEF AsKept
<1>3. kept \subseteq local[p].deltas
  OBVIOUS
<1> HIDE DEF kept
<1>4. /\ new.session = local[p].session /\ new.version = local[p].version
      /\ new.snapVersion = local[p].snapVersion
      /\ new.snapFile = local[p].snapFile /\ new.deltas = kept
  <2>1. local[p] \in StatusType /\ kept \in SUBSET DeltaRef
    BY <1>3, TypeFacts, StatusFields
  <2> QED
    BY <2>1, WithKept
<1> HIDE DEF new
<1>5. Others(p) /\ pc'[p] = "unf" /\ local'[p] = new
  BY <1>1, <1>2, StepOthers, Replaced
<1>6. HistoryRun(p)'
  <2>1. HistoryRun(p)
    BY DEF History
  <2>2. Distinct(local'[p])
    BY <1>3, <1>4, <1>5, <2>1 DEF HistoryRun, Distinct
  <2>3. unf' # None => Agree(unf', local'[p])
    BY <1>1, <1>3, <1>4, <1>5, <2>1 DEF HistoryRun, Agree
  <2> QED
    BY <1>5, <2>2, <2>3 DEF HistoryRun, Lingers
<1>7. HistoryRow'
  BY <1>1, <1>5, RowHistory
<1> QED
  BY <1>5, <1>6, <1>7, RunHistory

\* A run publishes: no reference of the same session has changed.
LEMMA WriteUnfHistory ==
    ASSUME TypeInv, ShapeInv, LockInv, InTurn, History, NEW p \in Setup[scenario].servers,
           p \in Servers, WriteUnf(p)
    PROVE  /\ History'
           /\ unf # None /\ unf'.session = unf.session =>
                 \A now \in References(unf'), before \in References(unf) :
                    now.kind = before.kind /\ now.version = before.version => now.file = before.file
<1>1. /\ pc[p] = "unf" /\ pc' = [pc EXCEPT ![p] = "snapshots"] /\ initialising' = initialising
      /\ status' = status /\ local' = local /\ unf' = UnfOf(local[p]) /\ Valid(local[p])
  BY DEF WriteUnf, databaseVars
<1>2. Others(p) /\ pc'[p] = "snapshots"
  BY <1>1, StepOthers
<1>3. HistoryRun(p)
  BY DEF History
<1>4. HistoryRun(p)'
  <2>1. UnfOf(local[p])' = UnfOf(local[p])
    BY <1>1 DEF UnfOf
  <2>2. local[p].snapVersion # 0
    BY <1>1 DEF Valid
  <2>3. Distinct(local'[p])
    BY <1>1, <1>3 DEF HistoryRun
  <2> QED
    BY <1>1, <1>2, <2>1, <2>2, <2>3 DEF HistoryRun, Lingers
<1>5. HistoryRow'
  BY <1>1, <1>2 DEF History, HistoryRow
<1>6. unf # None /\ unf'.session = unf.session =>
          \A now \in References(unf'), before \in References(unf) :
             now.kind = before.kind /\ now.version = before.version => now.file = before.file
  <2> SUFFICES ASSUME unf # None, unf'.session = unf.session
               PROVE  \A now \in References(unf'), before \in References(unf) :
                  now.kind = before.kind /\ now.version = before.version => now.file = before.file
    OBVIOUS
  <2>1. Agree(unf, local[p])
    BY <1>1, <1>3 DEF HistoryRun
  <2>2. unf.session = local[p].session
    BY <1>1 DEF UnfOf
  <2>3. \A now \in References(UnfOf(local[p])), before \in References(unf) :
            now.kind = before.kind /\ now.version = before.version => now.file = before.file
    BY <2>1, <2>2, AgreedReferences
  <2> QED
    BY <1>1, <2>3
<1> QED
  BY <1>2, <1>4, <1>5, <1>6, RunHistory

\* A run writes a snapshot.
LEMMA WriteSnapshotHistory ==
    ASSUME TypeInv, ShapeInv, LockInv, InTurn, History, NEW p \in Setup[scenario].servers,
           p \in Servers, WriteSnapshot(p)
    PROVE  History'
<1>1. /\ pc[p] = "snapshot" /\ initialising' = initialising /\ status' = status /\ unf' = unf
  BY DEF WriteSnapshot, databaseVars
<1>2. HistoryRun(p)
  BY DEF History
<1>3. CASE initialising[p]
  <2>1. /\ pc' = [pc EXCEPT ![p] = "expire"]
        /\ local' = [local EXCEPT ![p] = WithSnapshot(p, local[p], created + 1)]
    BY <1>3 DEF WriteSnapshot
  <2>2. Others(p) /\ pc'[p] = "expire" /\ local'[p] = WithSnapshot(p, local[p], created + 1)
    BY <1>1, <2>1, StepOthers, Replaced
  <2>3. HasSnapshot(local'[p], local[p], created + 1, local[p].version, maxSerial[p])
    <3>1. local'[p] = AsSnapshot(local[p], created + 1, local[p].version, maxSerial[p])
      BY <2>2 DEF WithSnapshot, AsSnapshot
    <3>2. HasSnapshot(AsSnapshot(local[p], created + 1, local[p].version, maxSerial[p]),
                      local[p], created + 1, local[p].version, maxSerial[p])
      <4>1. /\ local[p] \in StatusType /\ local[p].version \in Nat /\ maxSerial[p] \in Nat
            /\ created + 1 \in Nat
        BY TypeFacts, StatusFields
      <4> QED
        BY <4>1, SnapshotFields
    <3> QED
      BY <3>1, <3>2
  <2>4. HistoryRun(p)'
    <3>1. Distinct(local'[p]) /\ ~Lingers(p)'
      BY <1>2, <2>2, <2>3 DEF HistoryRun, Distinct, HasSnapshot, Lingers
    <3>2. unf' # None => Agree(unf', local'[p])
      BY <1>1, <1>2, <1>3, <2>3 DEF HistoryRun, Agree, HasSnapshot
    <3> QED
      BY <2>2, <3>1, <3>2 DEF HistoryRun
  <2>5. HistoryRow'
    BY <1>1, <2>2, RowHistory
  <2> QED
    BY <2>2, <2>4, <2>5, RunHistory
<1>4. CASE ~initialising[p]
  <2>1. pc' = [pc EXCEPT ![p] = "relock"] /\ local' = local
    BY <1>4 DEF WriteSnapshot
  <2>2. Others(p) /\ pc'[p] = "relock"
    BY <1>1, <2>1, StepOthers
  <2>3. HistoryRun(p)'
    <3>1. UnfOf(local[p])' = UnfOf(local[p])
      BY <2>1 DEF UnfOf
    <3>2. /\ Distinct(local[p]) /\ unf = UnfOf(local[p]) /\ local[p].snapVersion # 0
          /\ local[p].snapVersion # local[p].version
      BY <1>1, <1>2, <1>4 DEF HistoryRun, Lingers
    <3> QED
      BY <1>1, <2>1, <2>2, <3>1, <3>2 DEF HistoryRun
  <2>4. HistoryRow'
    BY <1>1, <2>2, RowHistory
  <2> QED
    BY <2>2, <2>3, <2>4, RunHistory
<1> QED
  BY <1>3, <1>4

\* A run puts its snapshot in the status: its version is new.
LEMMA RelockHistory ==
    ASSUME TypeInv, ShapeInv, LockInv, InTurn, History, NEW p \in Setup[scenario].servers,
           p \in Servers, Relock(p)
    PROVE  History'
<1>1. /\ pc[p] = "relock" /\ pc' = [pc EXCEPT ![p] = "expire"] /\ initialising' = initialising
      /\ local' = [local EXCEPT ![p] = WithSnapshot(p, status, snapshot[p])]
      /\ status' = status /\ unf' = unf
  BY DEF Relock, databaseVars, diskVars
<1>2. Others(p) /\ pc'[p] = "expire" /\ local'[p] = WithSnapshot(p, status, snapshot[p])
  BY <1>1, StepOthers, Replaced
<1>3. HistoryRun(p) /\ HistoryRow
  BY DEF History
<1>4. status # None /\ status \in StatusType /\ ~initialising[p] /\ Lingers(p)
  BY <1>1, TypeFacts DEF TypeInv, Lingers, LockInv, LockOK
<1>5. HasSnapshot(local'[p], status, snapshot[p], local[p].version, maxSerial[p])
  <2>1. local'[p] = AsSnapshot(status, snapshot[p], local[p].version, maxSerial[p])
    BY <1>2 DEF WithSnapshot, AsSnapshot
  <2>2. HasSnapshot(AsSnapshot(status, snapshot[p], local[p].version, maxSerial[p]),
                    status, snapshot[p], local[p].version, maxSerial[p])
    BY <1>4, TypeFacts, StatusFields, SnapshotFields
  <2> QED
    BY <2>1, <2>2
<1>6. Distinct(status) /\ (unf # None => Agree(unf, status))
  <2>1. \A q \in Servers : pc[q] \notin {"snapshots", "commit"}
    BY <1>1, OthersIdle
  <2> QED
    BY <1>3, <1>4, <2>1 DEF HistoryRow
<1>7. unf.snapshot.version # local[p].version
  <2>1. unf = UnfOf(local[p]) /\ local[p].snapVersion # local[p].version
    BY <1>1, <1>3, <1>4 DEF HistoryRun
  <2> QED
    BY <2>1 DEF UnfOf
<1>8. HistoryRun(p)'
  <2>1. Distinct(local'[p]) /\ ~Lingers(p)'
    BY <1>2, <1>5, <1>6 DEF Distinct, HasSnapshot, Lingers
  <2>2. unf' # None => Agree(unf', local'[p])
    BY <1>1, <1>5, <1>6, <1>7 DEF Agree, HasSnapshot
  <2> QED
    BY <1>2, <2>1, <2>2 DEF HistoryRun
<1>9. HistoryRow'
  BY <1>1, <1>2, RowHistory
<1> QED
  BY <1>2, <1>8, <1>9, RunHistory

\* A run commits what it has published.
LEMMA CommitsHistory ==
    ASSUME TypeInv, ShapeInv, LockInv, InTurn, History, NEW p \in Setup[scenario].servers,
           p \in Servers, CommitDelta(p) \/ CommitSnapshot(p)
    PROVE  History'
<1>1. pc[p] = "commit" /\ status' = AsForced(local[p], FALSE) /\ unf' = unf
  BY DEF CommitDelta, CommitSnapshot, Record, diskVars, AsForced
<1>2. /\ Others(p)
      /\ CommitDelta(p) => /\ pc'[p] = "decide" /\ local'[p] = local[p]
                           /\ initialising'[p] = initialising[p]
      /\ CommitSnapshot(p) => pc'[p] = "idle" /\ initialising'[p] = FALSE
                              /\ local'[p] = EmptyStatus
  BY TypeFacts DEF CommitDelta, CommitSnapshot, EndRun, Others
<1>3. SameRow(status', local[p])
  BY <1>1, TypeFacts, WithForce DEF SameRow
<1>4. HistoryRun(p)
  BY DEF History
<1>5. Distinct(local[p]) /\ unf = UnfOf(local[p]) /\ local[p].snapVersion # 0
  BY <1>1, <1>4 DEF HistoryRun
<1>6. HistoryRun(p)'
  <2>1. CASE CommitDelta(p)
    <3>1. UnfOf(local[p])' = UnfOf(local[p])
      BY <1>2, <2>1 DEF UnfOf
    <3>2. ~initialising'[p]
      <4>1. snapshotLock # p
        BY <2>1 DEF CommitDelta
      <4> QED
        BY <1>1, <1>2, <2>1, <4>1 DEF LockInv, LockOK
    <3> QED
      BY <1>1, <1>2, <1>5, <2>1, <3>1, <3>2 DEF HistoryRun
  <2>2. CASE CommitSnapshot(p)
    BY <1>2, <2>2, EmptyFields DEF HistoryRun, Distinct, Lingers
  <2> QED
    BY <2>1, <2>2
<1>7. HistoryRow'
  <2>1. Agree(unf, local[p])
    BY <1>5, TypeFacts, OwnAgrees
  <2> QED
    BY <1>1, <1>3, <1>5, <2>1, SameAgrees DEF HistoryRow
<1> QED
  BY <1>2, <1>6, <1>7, RunHistory

\* Every step of a run.
LEMMA RunKeepsHistory ==
    ASSUME TypeInv, ShapeInv, LockInv, InTurn, History, NEW p \in Setup[scenario].servers,
           p \in Servers, Run(p)
    PROVE  /\ History'
           /\ unf' = unf \/ (unf # None /\ unf'.session = unf.session =>
                 \A now \in References(unf'), before \in References(unf) :
                    now.kind = before.kind /\ now.version = before.version => now.file = before.file)
<1>1. CASE Start(p) \/ LockSnapshot(p) \/ ExpireSnapshots(p)
  <2>1. unf' = unf
    BY <1>1 DEF Start, LockSnapshot, ExpireSnapshots, diskVars
  <2> QED
    BY <1>1, <2>1, QuietHistory
<1>2. CASE \/ Cancel(p) \/ Fail(p) \/ SkipSnapshot(p)
           \/ (SnapshotLocked(p) /\ statusLock # p)
  <2>1. /\ EndRun(p) /\ status' = status /\ unf' = unf /\ pc[p] \notin {"snapshots", "commit"}
    BY <1>2 DEF Cancel, Fail, SkipSnapshot, SnapshotLocked, databaseVars, diskVars
  <2> QED
    BY <2>1, EndsHistory
<1>3. CASE SnapshotLocked(p) /\ statusLock = p
  BY <1>3, LockedHistory DEF SnapshotLocked, diskVars
<1>4. CASE Initialise(p)
  BY <1>4, InitialiseHistory DEF Initialise, diskVars
<1>5. CASE Resume(p)
  BY <1>5, ResumeHistory DEF Resume, diskVars
<1>6. CASE WriteDelta(p)
  BY <1>6, WriteDeltaHistory DEF WriteDelta
<1>7. CASE ExpireDeltas(p)
  BY <1>7, ExpireDeltasHistory DEF ExpireDeltas
<1>8. CASE WriteUnf(p)
  BY <1>8, WriteUnfHistory
<1>9. CASE WriteSnapshot(p)
  BY <1>9, WriteSnapshotHistory DEF WriteSnapshot
<1>10. CASE Relock(p)
  BY <1>10, RelockHistory DEF Relock, diskVars
<1>11. CASE CommitDelta(p) \/ CommitSnapshot(p)
  BY <1>11, CommitsHistory DEF CommitDelta, CommitSnapshot, diskVars
<1> QED
  BY <1>1, <1>2, <1>3, <1>4, <1>5, <1>6, <1>7, <1>8, <1>9, <1>10, <1>11 DEF Run

\* Other processes make a status row, flag it, or begin a new history.
LEMMA OutsideHistory ==
    ASSUME TypeInv, ShapeInv, History, UNCHANGED runVars, unf' = unf,
           \/ status' = status \/ status' = EmptyStatus
           \/ status # None /\ status' = AsForced(status, TRUE)
    PROVE  History'
<1>1. pc' = pc /\ local' = local /\ initialising' = initialising
  BY DEF runVars
<1>2. ASSUME NEW p \in Servers PROVE HistoryRun(p)'
  <2>1. UnfOf(local[p])' = UnfOf(local[p]) /\ (Lingers(p)' <=> Lingers(p))
    BY <1>1 DEF UnfOf, Lingers
  <2>2. HistoryRun(p)
    BY DEF History
  <2> QED
    BY <1>1, <2>1, <2>2 DEF HistoryRun
<1>3. HistoryRow'
  <2>1. CASE status' = status
    BY <1>1, <2>1 DEF History, HistoryRow
  <2>2. CASE status' = EmptyStatus
    <3>1. Distinct(EmptyStatus)
      BY EmptyFields DEF Distinct
    <3>2. unf # None => Agree(unf, EmptyStatus)
      BY EmptyFields DEF ShapeInv, Agree
    <3> QED
      BY <2>2, <3>1, <3>2 DEF HistoryRow
  <2>3. CASE status # None /\ status' = AsForced(status, TRUE)
    <3>1. SameRow(status', status)
      BY <2>3, TypeFacts, WithForce DEF SameRow
    <3>2. Distinct(status) /\ (unf # None /\ (\A p \in Servers : pc[p] \notin {"snapshots", "commit"})
                                  => Agree(unf, status))
      BY <2>3 DEF History, HistoryRow
    <3> QED
      BY <1>1, <3>1, <3>2, SameAgrees DEF HistoryRow
  <2> QED
    BY <2>1, <2>2, <2>3
<1> QED
  BY <1>2, <1>3 DEF History

\* What a step may do to the references of the notification file.
ReferencesKept ==
    unf # None /\ unf'.session = unf.session /\ crashes = 0
    /\ (\A p, q \in Setup[scenario].servers : p = q) =>
        \A now \in References(unf'), before \in References(unf) :
            now.kind = before.kind /\ now.version = before.version => now.file = before.file

\* Every step.
LEMMA HistoryNext ==
    TypeInv /\ ShapeInv /\ LockInv /\ HistoryInv /\ [MirrorNext]_<<scenario, mirrorVars>>
        => HistoryInv' /\ (unf' = unf \/ ReferencesKept)
<1> SUFFICES ASSUME TypeInv, ShapeInv, LockInv, HistoryInv,
                    [MirrorNext]_<<scenario, mirrorVars>>
             PROVE  HistoryInv' /\ (unf' = unf \/ ReferencesKept)
  OBVIOUS
<1>1. CASE UNCHANGED <<scenario, mirrorVars>> \/ ClientStep \/ ClientForceReload
  <2>1. /\ UNCHANGED runVars /\ unf' = unf /\ status' = status /\ crashes' = crashes
        /\ scenario' = scenario
    BY <1>1 DEF mirrorVars, serverVars, databaseVars, diskVars, boundVars, ClientStep,
       ClientForceReload, OnServer, Client!ClientRun, Client!RetrieveUnf, Client!LoadSnapshot,
       Client!LoadDelta, Client!Finish, Client!Refuse, Client!ForceReload, Client!files
  <2> QED
    BY <2>1, OutsideHistory DEF HistoryInv, InTurn
<1>2. CASE ClientAbort
  <2>1. unf' = unf /\ crashes' = crashes + 1
    BY <1>2 DEF ClientAbort, Client!Abort, Client!files
  <2>2. crashes' # 0
    BY <2>1, TypeFacts
  <2> QED
    BY <2>1, <2>2 DEF HistoryInv, InTurn
<1>3. CASE Environment /\ scenario' = scenario
  <2>1. /\ UNCHANGED runVars /\ unf' = unf /\ crashes' = crashes
        /\ \/ status' = status \/ status' = EmptyStatus
           \/ status # None /\ status' = AsForced(status, TRUE)
    BY <1>3 DEF Environment, Change, StatusKept, ChangeElsewhere, Reload, SetForceReload, DayPasses,
       databaseVars, diskVars, boundVars, AsForced
  <2> QED
    BY <1>3, <2>1, OutsideHistory DEF HistoryInv, InTurn
<1>4. ASSUME NEW p \in Setup[scenario].servers, Run(p), scenario' = scenario
      PROVE  HistoryInv' /\ (unf' = unf \/ ReferencesKept)
  <2>1. p \in Servers
    BY SetupAssumption DEF ShapeInv
  <2>2. crashes' = crashes
    BY <1>4 DEF Run, Start, Cancel, Initialise, Resume, WriteDelta, ExpireDeltas, WriteUnf, Fail,
       ExpireSnapshots, CommitDelta, CommitSnapshot, SkipSnapshot, LockSnapshot, SnapshotLocked,
       WriteSnapshot, Relock, boundVars
  <2>3. CASE InTurn
    BY <1>4, <2>1, <2>3, RunKeepsHistory DEF HistoryInv, ReferencesKept
  <2>4. CASE ~InTurn
    BY <1>4, <2>2, <2>4 DEF HistoryInv, InTurn, ReferencesKept
  <2> QED
    BY <2>3, <2>4
<1>5. ASSUME NEW p \in Setup[scenario].servers, Crash(p)
      PROVE  HistoryInv' /\ unf' = unf
  <2>1. unf' = unf /\ crashes' = crashes + 1
    BY <1>5 DEF Crash, diskVars
  <2>2. crashes' # 0
    BY <2>1, TypeFacts
  <2> QED
    BY <2>1, <2>2 DEF HistoryInv, InTurn
<1> QED
  BY <1>1, <1>2, <1>3, <1>4, <1>5 DEF MirrorNext, ServerStep, Next

\* There is no history at the start.
LEMMA HistoryInit == Init => HistoryInv
  BY EmptyFields DEF Init, HistoryInv, History, HistoryRun, HistoryRow, Distinct, Lingers

\* History is not rewritten (nrtm4_client.py 262-286): as long as runs do not overlap and
\* none ends early, in one session a version of the snapshot or of a delta is always the
\* same file, whatever reloads come in between and however long runs take.
THEOREM HistoryStays == MirrorSpec => HistoryKept
<1>1. MirrorInit => TypeInv /\ ShapeInv /\ LockInv /\ HistoryInv
  BY ServerInit, TypesInit, HistoryInit DEF MirrorInit
<1>2. TypeInv /\ ShapeInv /\ LockInv /\ HistoryInv /\ [MirrorNext]_<<scenario, mirrorVars>> =>
         TypeInv' /\ ShapeInv' /\ LockInv' /\ HistoryInv'
  BY ServerNext, TypesNext, HistoryNext DEF ShapeInv
<1>3. TypeInv /\ ShapeInv /\ LockInv /\ HistoryInv /\ [MirrorNext]_<<scenario, mirrorVars>> =>
         [ReferencesKept]_unf
  BY HistoryNext
<1> QED
  BY <1>1, <1>2, <1>3, PTL DEF MirrorSpec, HistoryKept, ReferencesKept

-----------------------------------------------------------------------------
(* A client misses nothing: what a status says about copies *)

\* The versions of deltas.
LEMMA VersionsIs == ASSUME NEW R, NEW v PROVE v \in Versions(R) <=> \E r \in R : r.version = v
  BY DEF Versions

\* The fields of a copy.
LEMMA CopyFields ==
    ASSUME NEW s, NEW v, NEW objects, NEW R
    PROVE  /\ Copy(s, v, objects, R).session = s /\ Copy(s, v, objects, R).version = v
           /\ Copy(s, v, objects, R).objects = objects /\ Copy(s, v, objects, R).refs = R
  BY DEF Copy

\* Fewer copies and notification files have nothing more to be told.
LEMMA InformsFewer ==
    ASSUME NEW st, NEW w, NEW C, NEW U, NEW D, NEW V, Informs(st, w, C, U),
           D \subseteq C, V \subseteq U
    PROVE  Informs(st, w, D, V)
  BY DEF Informs

\* One more copy or notification file.
LEMMA InformsMore ==
    ASSUME NEW st, NEW w, NEW C, NEW U, NEW D, NEW V, Informs(st, w, C, U),
           \A c \in D : c \in C \/ (Whole(st, w) /\ c.session = st.session => Sound(c, st, w)),
           \A u \in V : u \in U \/ (Whole(st, w) /\ u.session = st.session => Lists(u))
    PROVE  Informs(st, w, D, V)
  BY DEF Informs

\* Runs make and delete files.
LEMMA InformsFiles ==
    ASSUME NEW st, NEW w, NEW x, RefsOK(st, w), WorldOK(w), FilesStep(w, x),
           NEW C, NEW U, Informs(st, w, C, U)
    PROVE  Informs(st, x, C, U)
<1> SUFFICES ASSUME Whole(st, x)
             PROVE  /\ \A c \in C : c.session = st.session => Sound(c, st, x)
                    /\ \A u \in U : u.session = st.session => Lists(u)
  BY DEF Informs
<1>1. /\ AllThere(st, w)
      /\ \A r \in st.deltas, o \in Objects : Mentions(r, o, x) <=> Mentions(r, o, w)
      /\ \A o \in Objects : Coming(o, st, x) <=> Coming(o, st, w)
  BY FilesKept DEF Whole
<1>2. Whole(st, w)
  BY <1>1 DEF Whole
<1>3. x.rows = w.rows
  BY DEF FilesStep
<1>4. \A objects, v : Reaches(objects, v, st, w) => Reaches(objects, v, st, x)
  BY <1>1, <1>3 DEF Reaches
<1> QED
  BY <1>2, <1>4 DEF Informs, Sound

\* Transactions add an entry to the journal.
LEMMA InformsJournal ==
    ASSUME NEW st, NEW w, NEW x, RefsOK(st, w), WorldOK(w), JournalStep(w, x),
           NEW C, NEW U, Informs(st, w, C, U)
    PROVE  Informs(st, x, C, U)
<1>1. \A o \in Objects : Coming(o, st, x) \/ (x.rows[o] = w.rows[o] /\ ~Coming(o, st, w))
  BY EntryComing
<1>2. x.deltas = w.deltas
  BY DEF JournalStep
<1>3. Whole(st, x) => Whole(st, w)
  BY <1>2 DEF Whole, AllThere
<1>4. \A objects, v : Reaches(objects, v, st, w) => Reaches(objects, v, st, x)
  BY <1>1, <1>2 DEF Reaches, Mentions
<1> QED
  BY <1>3, <1>4 DEF Informs, Sound

\* A status with the same session, version and deltas has the same to say, when the next
\* delta starts where it did or the status is not whole.
LEMMA InformsAlike ==
    ASSUME NEW st, NEW new, NEW w, NEW C, NEW U, Informs(st, w, C, U),
           new.session = st.session, new.version = st.version, new.deltas = st.deltas,
           Whole(new, w) => Whole(st, w) /\ DeltaStart(new) = DeltaStart(st)
    PROVE  Informs(new, w, C, U)
<1> SUFFICES ASSUME Whole(new, w)
             PROVE  /\ \A c \in C : c.session = new.session => Sound(c, new, w)
                    /\ \A u \in U : u.session = new.session => Lists(u)
  BY DEF Informs
<1>1. \A objects, v : Reaches(objects, v, st, w) => Reaches(objects, v, new, w)
  BY DEF Reaches, Coming
<1> QED
  BY <1>1 DEF Informs, Sound, Agrees

\* The status row with its flag.
LEMMA InformsSame ==
    ASSUME NEW st, NEW new, NEW w, NEW C, NEW U, Informs(st, w, C, U),
           new.session = st.session, new.version = st.version, new.deltas = st.deltas,
           new.snapVersion = st.snapVersion, new.snapSerial = st.snapSerial
    PROVE  Informs(new, w, C, U)
<1>1. Whole(new, w) => Whole(st, w) /\ DeltaStart(new) = DeltaStart(st)
  BY DEF Whole, AllThere, DeltaStart
<1> QED
  BY <1>1, InformsAlike

\* A status with a snapshot of a later version than the first.
LEMMA InformsSnapshot ==
    ASSUME NEW st, NEW new, NEW w, NEW C, NEW U, Informs(st, w, C, U),
           new.session = st.session, new.version = st.version, new.deltas = st.deltas,
           new.snapVersion \in Nat, new.snapVersion > 1, st.version \in Nat
    PROVE  Informs(new, w, C, U)
<1>1. ASSUME Whole(new, w) PROVE new.deltas # {}
  <2> SUFFICES ASSUME new.deltas = {} PROVE FALSE
    OBVIOUS
  <2>1. 2 \notin Versions(new.deltas)
    BY DEF Versions
  <2>2. ~(2 <= new.version)
    BY <1>1, <2>1 DEF Whole
  <2>3. new.snapVersion = new.version
    BY <1>1 DEF Whole
  <2> QED
    BY <2>2, <2>3
<1>2. Whole(new, w) => Whole(st, w) /\ DeltaStart(new) = DeltaStart(st)
  BY <1>1 DEF Whole, AllThere, DeltaStart
<1> QED
  BY <1>2, InformsAlike

\* A status whose expired deltas have been left out.
LEMMA InformsKept ==
    ASSUME NEW st, NEW new, NEW w, RefsOK(st, w), NEW C, NEW U, Informs(st, w, C, U),
           new.session = st.session, new.version = st.version, new.deltas \subseteq st.deltas,
           new.snapVersion = st.snapVersion, new.snapSerial = st.snapSerial
    PROVE  Informs(new, w, C, U)
<1>1. CASE ~Whole(new, w)
  BY <1>1 DEF Informs
<1>2. CASE Whole(new, w)
  <2>1. ASSUME NEW r \in st.deltas PROVE r \in new.deltas
    <3>1. r.version > 1 /\ r.version \in Nat /\ r.version <= st.version /\ st.version \in Nat
      BY StatusFields DEF Informs, RefsOK, DeltaRef
    <3>2. r.version \in 2..new.version
      BY <3>1
    <3>3. PICK q \in new.deltas : q.version = r.version
      BY <1>2, <3>2, VersionsIs DEF Whole
    <3>4. q = r
      BY <3>3 DEF RefsOK
    <3> QED
      BY <3>3, <3>4
  <2>2. new.deltas = st.deltas
    BY <2>1
  <2> QED
    BY <2>2, InformsSame
<1> QED
  BY <1>1, <1>2

\* A status without a version says nothing.
LEMMA InformsNothing ==
    ASSUME NEW st, NEW w, NEW C, NEW U, st.deltas = {}, st.version = 0
    PROVE  Informs(st, w, C, U)
  BY DEF Informs, Whole

\* Nor does one to the copies of other sessions.
LEMMA InformsNobody ==
    ASSUME NEW st, NEW w, NEW C, NEW U, \A r \in st.deltas : r.version > 1,
           \A c \in C : c.session # st.session \/ (c.objects = w.rows /\ c.version <= st.version),
           \A u \in U : u.session # st.session
    PROVE  Informs(st, w, C, U)
  BY DEF Informs, Sound, Reaches

\* A new snapshot has all objects.
LEMMA RowsSound ==
    ASSUME NEW st, NEW w, NEW c, c.objects = w.rows, c.version <= st.version
    PROVE  Sound(c, st, w)
  BY DEF Sound, Reaches

\* A delta that is added makes the status whole only if it was whole before.
LEMMA DeltaWhole ==
    ASSUME NEW st, NEW new, NEW w, NEW x, NEW d, NEW ref,
           RefsOK(st, w), WorldOK(w), DeltaStep(st, new, w, x, d, ref), Snapped(st),
           Whole(new, x)
    PROVE  Whole(st, w)
<1>1. /\ st.version \in Nat /\ st.snapVersion \in Nat
      /\ \A r \in st.deltas : r.version \in Nat /\ r.version <= st.version
  BY StatusFields DEF RefsOK, DeltaRef
<1>2. /\ ref.version = st.version + 1 /\ new.deltas = st.deltas \union {ref}
      /\ new.version = st.version + 1 /\ new.session = st.session
  BY DEF DeltaStep
<1>3. st.version # 0
  BY <1>1 DEF Snapped
<1>4. AllThere(st, w)
  BY DeltaHas DEF Whole
<1>5. Versions(new.deltas) = 2..(st.version + 1)
  BY <1>2 DEF Whole
<1>6. Versions(st.deltas) = 2..st.version
  <2>1. ASSUME NEW v \in Versions(st.deltas) PROVE v \in 2..st.version
    <3>1. PICK r \in st.deltas : r.version = v
      BY VersionsIs
    <3>2. v \in Versions(new.deltas)
      BY <1>2, <3>1, VersionsIs
    <3>3. v \in 2..(st.version + 1)
      BY <1>5, <3>2
    <3> QED
      BY <1>1, <3>1, <3>3
  <2>2. ASSUME NEW v \in 2..st.version PROVE v \in Versions(st.deltas)
    <3>1. v \in 2..(st.version + 1) /\ v # ref.version
      BY <1>1, <1>2
    <3>2. PICK r \in new.deltas : r.version = v
      BY <1>5, <3>1, VersionsIs
    <3>3. r \in st.deltas
      BY <1>2, <3>1, <3>2
    <3> QED
      BY <3>2, <3>3, VersionsIs
  <2> QED
    BY <2>1, <2>2
<1>7. ASSUME st.deltas = {} PROVE st.snapVersion = st.version
  <2>1. 2 \notin Versions(st.deltas)
    BY <1>7 DEF Versions
  <2>2. ~(2 <= st.version)
    BY <1>1, <1>6, <2>1
  <2> QED
    BY <1>1, <2>2 DEF Snapped
<1>8. st.session # 0
  BY <1>2 DEF Whole
<1> QED
  BY <1>3, <1>4, <1>6, <1>7, <1>8 DEF Whole

\* What is to come of a copy is then in the new delta.
LEMMA DeltaReaches ==
    ASSUME NEW st, NEW new, NEW w, NEW x, NEW d, NEW ref,
           RefsOK(st, w), WorldOK(w), DeltaStep(st, new, w, x, d, ref), AllThere(new, x),
           NEW objects, NEW v \in Nat, v <= st.version, Reaches(objects, v, st, w)
    PROVE  Reaches(objects, v, new, x)
<1>1. /\ ref.version = st.version + 1 /\ new.deltas = st.deltas \union {ref}
      /\ x.rows = w.rows /\ st.version \in Nat
  BY StatusFields DEF DeltaStep, RefsOK
<1>2. ref \in new.deltas /\ ref.version > v
  BY <1>1
<1>3. \A r \in st.deltas, o \in Objects : Mentions(r, o, x) <=> Mentions(r, o, w)
  BY DeltaHas
<1>4. \A o \in Objects : Coming(o, st, w) => Mentions(ref, o, x)
  BY DeltaHas
<1> SUFFICES ASSUME NEW o \in Objects
             PROVE  \/ Coming(o, new, x)
                    \/ \E r \in new.deltas : r.version > v /\ Mentions(r, o, x)
                    \/ objects[o] = x.rows[o]
  BY DEF Reaches
<1>5. CASE Coming(o, st, w)
  BY <1>2, <1>4, <1>5
<1>6. CASE \E r \in st.deltas : r.version > v /\ Mentions(r, o, w)
  BY <1>1, <1>3, <1>6
<1>7. CASE objects[o] = w.rows[o]
  BY <1>1, <1>7
<1> QED
  BY <1>5, <1>6, <1>7 DEF Reaches

\* A copy gets to the rows with the new delta, unless it has that version from another
\* file.
LEMMA DeltaSound ==
    ASSUME NEW st, NEW new, NEW w, NEW x, NEW d, NEW ref,
           RefsOK(st, w), WorldOK(w), DeltaStep(st, new, w, x, d, ref), AllThere(new, x),
           NEW c, c.version \in Nat, \A r \in c.refs : r.file \in Nat /\ r.file <= w.created,
           Sound(c, st, w)
    PROVE  Sound(c, new, x)
<1>1. /\ ref.version = st.version + 1 /\ new.deltas = st.deltas \union {ref}
      /\ new.version = st.version + 1 /\ st.version \in Nat
      /\ ref.file = w.created + 1 /\ w.created \in Nat
  BY StatusFields DEF DeltaStep, RefsOK, WorldOK
<1>2. CASE c.version <= st.version
  <2>1. Agrees(c, new) => Agrees(c, st)
    BY <1>1 DEF Agrees
  <2>2. Agrees(c, new) => Reaches(c.objects, c.version, new, x)
    BY <1>2, <2>1, DeltaReaches DEF Sound
  <2>3. c.version <= new.version
    BY <1>1, <1>2
  <2> QED
    BY <2>2, <2>3 DEF Sound
<1>3. CASE ~(c.version <= st.version)
  <2>1. PICK r \in c.refs : r.version = c.version
    BY <1>3 DEF Sound
  <2>2. CASE c.version <= new.version
    <3>1. c.version = ref.version
      BY <1>1, <1>3, <2>2
    <3>2. r.file # ref.file
      BY <1>1, <2>1
    <3>3. ~Agrees(c, new)
      BY <1>1, <2>1, <2>2, <3>1, <3>2 DEF Agrees
    <3> QED
      BY <2>2, <3>3 DEF Sound
  <2>3. CASE ~(c.version <= new.version)
    BY <2>1, <2>3 DEF Sound
  <2> QED
    BY <2>2, <2>3
<1> QED
  BY <1>2, <1>3

\* A run writes a delta.
LEMMA InformsDelta ==
    ASSUME NEW st, NEW new, NEW w, NEW x, NEW d, NEW ref,
           RefsOK(st, w), WorldOK(w), DeltaStep(st, new, w, x, d, ref), Snapped(st),
           NEW C, NEW U, Informs(st, w, C, U),
           \A c \in C : c.version \in Nat /\ \A r \in c.refs : r.file \in Nat /\ r.file <= w.created
    PROVE  Informs(new, x, C, U)
<1>1. /\ ref.version = st.version + 1 /\ new.deltas = st.deltas \union {ref}
      /\ st.version \in Nat /\ new.session = st.session /\ st.snapVersion \in Nat
  BY StatusFields DEF DeltaStep, RefsOK
<1>2. ref.version > 1
  BY <1>1 DEF Snapped
<1>3. \A r \in new.deltas : r.version > 1
  BY <1>1, <1>2 DEF Informs
<1>4. ASSUME Whole(new, x)
      PROVE  /\ \A c \in C : c.session = new.session => Sound(c, new, x)
             /\ \A u \in U : u.session = new.session => Lists(u)
  <2>1. Whole(st, w)
    BY <1>4, DeltaWhole
  <2>2. AllThere(new, x)
    BY <1>4 DEF Whole
  <2>3. ASSUME NEW c \in C, c.session = new.session PROVE Sound(c, new, x)
    <3>1. Sound(c, st, w)
      BY <1>1, <2>1, <2>3 DEF Informs
    <3> QED
      BY <2>2, <3>1, DeltaSound
  <2> QED
    BY <1>1, <2>1, <2>3 DEF Informs
<1> QED
  BY <1>3, <1>4 DEF Informs

\* The objects after a delta.
LEMMA AppliedIs ==
    ASSUME NEW objects, NEW E, E \subseteq Entry, Numbered(E), NEW o \in Objects
    PROVE  /\ ~HasEntry(E, o) => Apply(objects, E)[o] = objects[o]
           /\ \A t : LastText(E, o, t) => Apply(objects, E)[o] = t
<1>1. Apply(objects, E)[o] = IF About(E, o) = {} THEN objects[o] ELSE Latest(About(E, o)).text
  BY DEF Apply
<1>2. ~HasEntry(E, o) => About(E, o) = {}
  BY DEF HasEntry, About
<1>3. \A t : LastText(E, o, t) => About(E, o) # {} /\ Latest(About(E, o)).text = t
  BY LatestIs
<1> QED
  BY <1>1, <1>2, <1>3

\* A client that loads the next delta of a whole session gets on.
LEMMA LoadReaches ==
    ASSUME NEW st, NEW w, StateOK(st, w), WorldOK(w), AllThere(st, w),
           NEW v \in Nat, NEW r \in st.deltas, r.version = v + 1,
           NEW d \in w.deltas, d.file = r.file,
           NEW objects, Reaches(objects, v, st, w)
    PROVE  Reaches(Apply(objects, d.entries), v + 1, st, w)
<1>1. RefsOK(st, w) /\ DeltasTrue(st, w)
  BY DEF StateOK
<1>2. d.entries \subseteq Entry /\ Numbered(d.entries)
  BY DEF WorldOK, DeltaFile
<1> SUFFICES ASSUME NEW o \in Objects, ~Coming(o, st, w),
                    ~ \E q \in st.deltas : q.version > v + 1 /\ Mentions(q, o, w)
             PROVE  Apply(objects, d.entries)[o] = w.rows[o]
  BY DEF Reaches
<1>3. CASE HasEntry(d.entries, o)
  <2>1. \A q \in st.deltas : q.version > r.version => ~Mentions(q, o, w)
    OBVIOUS
  <2>2. LastText(d.entries, o, w.rows[o])
    BY <1>1, <1>3, <2>1 DEF DeltasTrue
  <2> QED
    BY <1>2, <2>2, AppliedIs
<1>4. CASE ~HasEntry(d.entries, o)
  <2>1. \A f \in w.deltas : f.file = r.file => f = d
    BY DEF WorldOK
  <2>2. ~Mentions(r, o, w)
    BY <1>4, <2>1 DEF Mentions
  <2>3. ASSUME NEW q \in st.deltas, q.version > v PROVE ~Mentions(q, o, w)
    <3>1. q.version \in Nat
      BY <1>1, StatusFields DEF RefsOK, DeltaRef
    <3>2. q.version > v + 1 \/ q.version = r.version
      BY <2>3, <3>1
    <3>3. q.version = r.version => q = r
      BY <1>1 DEF RefsOK
    <3> QED
      BY <2>2, <3>2, <3>3
  <2>4. objects[o] = w.rows[o]
    BY <2>3 DEF Reaches
  <2> QED
    BY <1>2, <1>4, <2>4, AppliedIs
<1> QED
  BY <1>3, <1>4

\* A reference of a client to a delta.
LEMMA DeltasOfHas ==
    ASSUME NEW H, NEW r \in DeltasOf(H)
    PROVE  \E h \in H : h.kind = "delta" /\ h.version = r.version /\ h.file = r.file
  BY DEF DeltasOf

\* The client has the deltas of a notification file that it accepts.
LEMMA AcceptedAgree ==
    ASSUME NEW st, Client!HistoryKept(clientStatus, UnfOf(st))
    PROVE  Agrees(ClientCopy, st)
<1> SUFFICES ASSUME NEW r \in ClientCopy.refs, NEW q \in st.deltas, r.version = q.version
             PROVE  r.file = q.file
  BY DEF Agrees
<1>1. PICK h \in clientStatus.hashes : h.kind = "delta" /\ h.version = r.version /\ h.file = r.file
  BY DeltasOfHas DEF ClientCopy, Copy
<1>2. [version |-> q.version, file |-> q.file] \in UnfOf(st).deltas
  BY DEF UnfOf
<1>3. [kind |-> "delta", version |-> q.version, file |-> q.file] \in Client!References(UnfOf(st))
  BY <1>2 DEF Client!References
<1> QED
  BY <1>1, <1>3 DEF Client!HistoryKept

\* The invariant is what a client needs.
LEMMA ClientLeads ==
    ASSUME TypeInv, LossInv, ClientInv, ~overtaken, status # None => NoneExpired
    PROVE  ClientMissesNothing
<1> SUFFICES ASSUME InStep PROVE LeadsToRows(data, status, clientStatus.version)
  BY DEF ClientMissesNothing
<1>1. /\ status # None /\ status.session # 0 /\ Complete(UnfOf(status))
      /\ clientStatus.session = status.session /\ clientStatus.version <= status.version
      /\ Client!HistoryKept(clientStatus, UnfOf(status))
  BY DEF InStep
<1>2. StateOK(status, World) /\ WorldOK(World)
  BY <1>1 DEF LossInv
<1>3. Informs(status, World, Around, Offered) /\ Snapped(status) /\ clientStatus.version \in Nat
  BY <1>1 DEF ClientInv, ClientTypes
<1>4. AllThere(status, World)
  BY <1>1, CompleteThere
<1>5. Whole(status, World)
  <2>1. status.version \in Nat /\ status.snapVersion \in Nat
    BY <1>2, StatusFields DEF StateOK, RefsOK
  <2>2. status.version # 0
    BY <1>3, <2>1 DEF Snapped
  <2>3. ASSUME status.deltas = {} PROVE status.snapVersion = status.version
    <3>1. 2 \notin Versions(status.deltas)
      BY <2>3 DEF Versions
    <3>2. ~(2 <= status.version)
      BY <1>1, <2>1, <3>1 DEF NoneExpired
    <3> QED
      BY <1>3, <2>1, <3>2 DEF Snapped
  <2> QED
    BY <1>1, <1>4, <2>2, <2>3 DEF Whole, NoneExpired
<1>6. ClientCopy \in Around /\ ClientCopy.session = status.session
      /\ ClientCopy.version = clientStatus.version /\ ClientCopy.objects = data
  BY <1>1 DEF Around, ClientCopy, Copy
<1>7. Sound(ClientCopy, status, World)
  BY <1>3, <1>5, <1>6 DEF Informs
<1>8. Agrees(ClientCopy, status)
  BY <1>1, AcceptedAgree
<1>9. Reaches(data, clientStatus.version, status, World)
  BY <1>1, <1>6, <1>7, <1>8 DEF Sound
<1> QED
  BY <1>2, <1>3, <1>4, <1>9, ReachesLead

-----------------------------------------------------------------------------
(* A client misses nothing: the steps *)

\* Copies have sessions and versions.
LEMMA AroundTyped ==
    ASSUME TypeInv, WorldOK(World), ClientTypes
    PROVE  /\ \A c \in Around : /\ c.session \in Nat /\ c.version \in Nat
                                /\ \A r \in c.refs : r.version \in Nat /\ r.file \in Nat
           /\ \A u \in Offered : /\ u.session \in Nat /\ u.version \in Nat
                                 /\ u.snapshot.version \in Nat
                                 /\ \A r \in u.deltas : r.version \in Nat /\ r.file \in Nat
<1> DEFINE Typed(c) == /\ c.session \in Nat /\ c.version \in Nat
                       /\ \A r \in c.refs : r.version \in Nat /\ r.file \in Nat
<1>1. ASSUME NEW c \in SnapshotCopies PROVE Typed(c)
  <2>1. PICK s \in snapshotFiles : c = Copy(s.session, s.version, s.objects, {})
    BY <1>1 DEF SnapshotCopies
  <2>2. s.session \in Nat /\ s.version \in Nat
    BY WorldFields DEF WorldOK, SnapshotFile
  <2> QED
    BY <2>1, <2>2 DEF Copy
<1>2. Typed(ClientCopy)
  <2>1. \A r \in DeltasOf(clientStatus.hashes) : r.version \in Nat /\ r.file \in Nat
    BY DEF DeltasOf, ClientTypes
  <2> QED
    BY <2>1 DEF ClientCopy, Copy, ClientTypes
<1>3. \A u \in Offered : /\ u.session \in Nat /\ u.version \in Nat /\ u.snapshot.version \in Nat
                         /\ \A r \in u.deltas : r.version \in Nat /\ r.file \in Nat
  <2>1. \A u \in Offered : u \in OfferType
    BY DEF ClientTypes
  <2> QED
    BY <2>1 DEF OfferType, Ref
<1>4. ASSUME NEW c \in RunCopies PROVE Typed(c)
  <2>1. /\ run # None /\ run.next # 0
        /\ c = Copy(run.unf.session, run.next - 1, run.data, run.unf.deltas)
    BY <1>4 DEF RunCopies
  <2>2. run.unf \in Offered
    BY <2>1 DEF Offered
  <2>3. run.next - 1 \in Nat
    BY <2>1 DEF ClientTypes
  <2> QED
    BY <1>3, <2>1, <2>2, <2>3, CopyFields
<1>5. \A c \in Around : Typed(c)
  <2> HIDE DEF Typed
  <2> QED
    BY <1>1, <1>2, <1>4 DEF Around
<1> QED
  BY <1>3, <1>5

\* Copies come and go with snapshots while the client does nothing.
LEMMA AroundLess ==
    ASSUME UNCHANGED clientVars, snapshotFiles' \subseteq snapshotFiles
    PROVE  Around' \subseteq Around
<1>1. /\ data' = data /\ clientStatus' = clientStatus /\ run' = run
  BY DEF clientVars
<1>2. SnapshotCopies' \subseteq SnapshotCopies
  BY DEF SnapshotCopies
<1>3. ClientCopy' = ClientCopy
  BY <1>1 DEF ClientCopy
<1>4. RunCopies' = RunCopies
  BY <1>1 DEF RunCopies, Client!HistoryKept
<1> QED
  BY <1>2, <1>3, <1>4 DEF Around

\* The same with one more snapshot.
LEMMA AroundMore ==
    ASSUME UNCHANGED clientVars, NEW s, snapshotFiles' = snapshotFiles \union {s}
    PROVE  Around' \subseteq Around \union {Copy(s.session, s.version, s.objects, {})}
<1>1. /\ data' = data /\ clientStatus' = clientStatus /\ run' = run
  BY DEF clientVars
<1>2. SnapshotCopies' \subseteq SnapshotCopies \union {Copy(s.session, s.version, s.objects, {})}
  BY DEF SnapshotCopies
<1>3. ClientCopy' = ClientCopy
  BY <1>1 DEF ClientCopy
<1>4. RunCopies' = RunCopies
  BY <1>1 DEF RunCopies, Client!HistoryKept
<1> QED
  BY <1>2, <1>3, <1>4 DEF Around

\* The notification files that a client can get.
LEMMA OfferedMore ==
    ASSUME UNCHANGED clientVars
    PROVE  /\ unf' = unf => Offered' = Offered
           /\ Offered' \subseteq Offered \union {unf'}
<1>1. run' = run
  BY DEF clientVars
<1> QED
  BY <1>1 DEF Offered

\* What a client has keeps its types while the server steps.
LEMMA ClientTypesKept ==
    ASSUME TypeInv, TypeInv', WorldOK(World), ClientTypes, UNCHANGED clientVars,
           sessions <= sessions', created <= created', overtaken' = overtaken,
           \A c \in Around' : c \in Around \/ (c.session <= sessions' /\ c.refs = {}),
           \A u \in Offered' : u \in Offered \/
               /\ u \in OfferType /\ u.session <= sessions'
               /\ \A r \in u.deltas : r.version <= u.version /\ (overtaken \/ r.file <= created')
    PROVE  ClientTypes'
<1>1. /\ data' = data /\ clientStatus' = clientStatus /\ run' = run
  BY DEF clientVars
<1>2. sessions \in Nat /\ sessions' \in Nat /\ created \in Nat /\ created' \in Nat
  BY DEF TypeInv, TypeOK
<1>3. ASSUME NEW c \in Around' PROVE c.session <= sessions' /\ \A r \in c.refs : overtaken' \/ r.file <= created'
  <2>1. CASE c \in Around
    <3>1. c.session <= sessions /\ c.session \in Nat
      BY <2>1, AroundTyped DEF ClientTypes
    <3>2. \A r \in c.refs : (overtaken \/ r.file <= created) /\ r.file \in Nat
      BY <2>1, AroundTyped DEF ClientTypes
    <3> QED
      BY <1>2, <3>1, <3>2
  <2> QED
    BY <1>3, <2>1
<1>4. ASSUME NEW u \in Offered'
      PROVE  /\ u \in OfferType /\ u.session <= sessions'
             /\ \A r \in u.deltas : r.version <= u.version /\ (overtaken' \/ r.file <= created')
  <2>1. CASE u \in Offered
    <3>1. u \in OfferType /\ u.session <= sessions
      BY <2>1 DEF ClientTypes
    <3>2. \A r \in u.deltas : r.version <= u.version /\ (overtaken \/ r.file <= created)
      BY <2>1 DEF ClientTypes
    <3>3. u.session \in Nat /\ \A r \in u.deltas : r.file \in Nat
      BY <2>1, AroundTyped
    <3>4. u.session <= sessions'
      BY <1>2, <3>1, <3>3
    <3>5. ASSUME NEW r \in u.deltas PROVE overtaken' \/ r.file <= created'
      <4>1. overtaken \/ r.file <= created
        BY <3>2
      <4>2. r.file \in Nat
        BY <3>3
      <4>3. r.file <= created => r.file <= created'
        BY <1>2, <4>2
      <4> QED
        BY <4>1, <4>3
    <3> QED
      BY <3>1, <3>2, <3>4, <3>5
  <2> QED
    BY <1>4, <2>1
<1> QED
  BY <1>1, <1>3, <1>4 DEF ClientTypes

\* A step of a run that does not commit keeps what the others know.
LEMMA KnownKept ==
    ASSUME TypeInv, LossInv, ClientInv, TypeInv', ClientTypes', NEW p \in Servers, Others(p),
           status' = status, overtaken' = overtaken, aged' = aged,
           \A q \in Servers : q # p => horizon'[q] = horizon[q],
           FilesStep(World, World'),
           ~overtaken => HandsKnown(p)',
           ~overtaken /\ status # None => Informs(status, World', Around', Offered'),
           ~overtaken => \A q \in Servers : q # p /\ Holds(q) =>
               Informs(local[q], World', Around', Offered'),
           ~overtaken => \A q \in Servers : q # p /\ initialising[q] /\ pc[q] \in {"decide", "snapshot"} =>
               /\ \A c \in Around' : c.session < local[q].session
               /\ \A u \in Offered' : u.session < local[q].session
    PROVE  ClientInv'
<1>1. created \in Nat /\ created' \in Nat /\ created <= created' /\ aged' <= created'
  <2>1. created \in Nat /\ created' \in Nat /\ aged \in Nat /\ aged <= created
    BY TypeFacts DEF ClientInv, TypeInv, TypeOK
  <2>2. created <= created'
    BY WorldFields, WorldFieldsNext DEF FilesStep
  <2> QED
    BY <2>1, <2>2
<1> SUFFICES ASSUME ~overtaken, NEW q \in Servers, q # p PROVE HandsKnown(q)'
  BY <1>1 DEF ClientInv
<1>2. /\ pc'[q] = pc[q] /\ local'[q] = local[q] /\ initialising'[q] = initialising[q]
      /\ horizon'[q] = horizon[q]
  BY DEF Others
<1>3. HandsKnown(q) /\ horizon[q] \in Nat
  BY TypeFacts DEF ClientInv
<1>4. horizon'[q] <= created'
  BY <1>1, <1>2, <1>3 DEF HandsKnown
<1>5. (Holds(q)' <=> Holds(q)) /\ (Lingers(q)' <=> Lingers(q))
  BY <1>2 DEF Holds, Lingers
<1>6. ASSUME pc[q] = "unf", NEW r \in status.deltas, \A d \in deltaFiles : d.file # r.file
      PROVE  \A d \in deltaFiles' : d.file # r.file
  <2>1. status # None
    BY <1>6 DEF TypeInv
  <2>2. r.file <= created /\ r.file \in Nat
    <3>1. RefsOK(status, World) /\ status \in StatusType
      BY <2>1, TypeFacts DEF LossInv, StateOK
    <3>2. status.deltas \subseteq DeltaRef
      BY <3>1, StatusFields
    <3> QED
      BY <1>6, <3>1, <3>2, WorldFields DEF RefsOK, DeltaRef
  <2>3. \A d \in deltaFiles' : d \in deltaFiles \/ d.file > created
    BY WorldFields, WorldFieldsNext DEF FilesStep
  <2> QED
    BY <1>1, <1>6, <2>2, <2>3
<1>7. Grown(q) => Grown(q)'
  BY <1>2 DEF Grown
<1> QED
  BY <1>2, <1>3, <1>4, <1>5, <1>6, <1>7 DEF HandsKnown

\* The same with no more copies or notification files than before.
LEMMA KnownStays ==
    ASSUME TypeInv, LossInv, ClientInv, TypeInv', UNCHANGED clientVars,
           NEW p \in Servers, Others(p), sessions <= sessions',
           status' = status, overtaken' = overtaken, aged' = aged,
           \A q \in Servers : q # p => horizon'[q] = horizon[q],
           FilesStep(World, World'), Around' \subseteq Around, Offered' \subseteq Offered,
           ~overtaken => HandsKnown(p)'
    PROVE  ClientInv'
<1>1. WorldOK(World) /\ ClientTypes /\ created <= created'
  BY WorldFields, WorldFieldsNext DEF LossInv, ClientInv, FilesStep
<1>2. ClientTypes'
  BY <1>1, ClientTypesKept
<1>3. ASSUME ~overtaken, status # None PROVE Informs(status, World', Around', Offered')
  <2>1. RefsOK(status, World) /\ Informs(status, World, Around, Offered)
    BY <1>3 DEF LossInv, StateOK, ClientInv
  <2> QED
    BY <1>1, <2>1, InformsFiles, InformsFewer
<1>4. ASSUME ~overtaken, NEW q \in Servers, q # p, Holds(q)
      PROVE  Informs(local[q], World', Around', Offered')
  <2>1. RefsOK(local[q], World) /\ Informs(local[q], World, Around, Offered)
    BY <1>4 DEF LossInv, StateOK, ClientInv, HandsOK, HandsKnown
  <2> QED
    BY <1>1, <2>1, InformsFiles, InformsFewer
<1>5. ASSUME ~overtaken, NEW q \in Servers, initialising[q] /\ pc[q] \in {"decide", "snapshot"}
      PROVE  /\ \A c \in Around' : c.session < local[q].session
             /\ \A u \in Offered' : u.session < local[q].session
  BY <1>5 DEF ClientInv, HandsKnown
<1> QED
  BY <1>2, <1>3, <1>4, <1>5, KnownKept

\* What a run has in hand says the same after such a step.
LEMMA HandInforms ==
    ASSUME LossInv, ClientInv, ~overtaken, NEW p \in Servers, Holds(p),
           FilesStep(World, World'), Around' \subseteq Around, Offered' \subseteq Offered
    PROVE  Informs(local[p], World', Around', Offered')
<1>1. RefsOK(local[p], World) /\ WorldOK(World) /\ Informs(local[p], World, Around, Offered)
  BY DEF LossInv, StateOK, ClientInv, HandsOK, HandsKnown
<1> QED
  BY <1>1, InformsFiles, InformsFewer

\* A run ends.
LEMMA EndsKnown ==
    ASSUME TypeInv, LossInv, ClientInv, TypeInv', UNCHANGED clientVars,
           NEW p \in Servers, EndRun(p), UNCHANGED databaseVars, created' = created, unf' = unf,
           sessions' = sessions, aged' = aged, overtaken' = overtaken,
           deltaFiles' \subseteq deltaFiles, snapshotFiles' \subseteq snapshotFiles
    PROVE  ClientInv'
<1>1. /\ pc'[p] = "idle" /\ local'[p] = EmptyStatus /\ initialising'[p] = FALSE /\ horizon'[p] = 0
      /\ Others(p) /\ \A q \in Servers : q # p => horizon'[q] = horizon[q]
  BY TypeFacts DEF EndRun, Others
<1>2. status' = status /\ sessions <= sessions'
  BY TypeFacts DEF databaseVars
<1>3. FilesStep(World, World')
  BY FilesLeft
<1>4. Around' \subseteq Around /\ Offered' \subseteq Offered
  BY AroundLess, OfferedMore
<1>5. HandsKnown(p)'
  <2>1. 0 <= created'
    BY TypeFacts
  <2> QED
    BY <1>1, <2>1 DEF HandsKnown, Holds, Lingers
<1> QED
  BY <1>1, <1>2, <1>3, <1>4, <1>5, KnownStays

\* A version after that of the snapshot.
LEMMA DueIsLater ==
    ASSUME NEW st \in StatusType, Snapped(st), SnapshotDue(st)
    PROVE  st.version > 1
<1>1. st.version \in Nat /\ st.snapVersion \in Nat
  BY StatusFields
<1> QED
  BY <1>1 DEF Snapped, SnapshotDue

\* The steps that change neither the status in hand nor the status row.
LEMMA PlainKnown ==
    ASSUME TypeInv, ShapeInv, LockInv, LossInv, ClientInv, TypeInv', UNCHANGED clientVars,
           NEW p \in Servers,
           \/ Start(p) \/ LockSnapshot(p) \/ (SnapshotLocked(p) /\ statusLock = p)
           \/ ExpireSnapshots(p)
    PROVE  ClientInv'
<1>1. /\ initialising' = initialising /\ local' = local
      /\ UNCHANGED databaseVars /\ created' = created /\ overtaken' = overtaken
      /\ deltaFiles' = deltaFiles /\ snapshotFiles' \subseteq snapshotFiles
      /\ unf' = unf /\ aged' = aged /\ sessions' = sessions
  BY DEF Start, LockSnapshot, SnapshotLocked, ExpireSnapshots, diskVars, boundVars
<1>2. /\ \A q \in Servers : q # p => horizon'[q] = horizon[q]
      /\ horizon'[p] = horizon[p] \/ horizon'[p] = aged
  BY TypeFacts DEF Start, LockSnapshot, SnapshotLocked, ExpireSnapshots
<1>3. PICK x : /\ pc' = [pc EXCEPT ![p] = x]
               /\ \/ pc[p] = "idle" /\ x = "start"
                  \/ pc[p] = "decide" /\ x = "snapshot" /\ SnapshotDue(local[p])
                  \/ pc[p] = "decide" /\ x = "expire" /\ statusLock = p
                  \/ pc[p] = "snapshots" /\ x = "commit"
  BY DEF Start, LockSnapshot, SnapshotLocked, ExpireSnapshots
<1>4. pc'[p] = x /\ Others(p) /\ status' = status
  BY <1>1, <1>3, StepOthers DEF databaseVars
<1>5. LockOK(p)
  BY DEF LockInv
<1>6. (Holds(p)' => Holds(p)) /\ (Lingers(p)' => Lingers(p))
  BY <1>1, <1>3, <1>4, <1>5 DEF Holds, Lingers, LockOK
<1>7. FilesStep(World, World') /\ sessions <= sessions'
  BY <1>1, FilesLeft, TypeFacts
<1>8. Around' \subseteq Around /\ Offered' \subseteq Offered
  BY <1>1, AroundLess, OfferedMore
<1>9. ASSUME ~overtaken PROVE HandsKnown(p)'
  <2>1. HandsKnown(p) /\ aged <= created
    BY <1>9 DEF ClientInv
  <2>2. horizon'[p] <= created'
    BY <1>1, <1>2, <2>1 DEF HandsKnown
  <2>3. Holds(p)' => Informs(local[p], World', Around', Offered')
    BY <1>6, <1>7, <1>8, <1>9, HandInforms
  <2>4. initialising[p] => pc[p] # "idle"
    BY <1>5 DEF LockOK
  <2>5. initialising[p] /\ x \in {"decide", "snapshot"} =>
          /\ \A c \in Around' : c.session < local[p].session
          /\ \A u \in Offered' : u.session < local[p].session
    BY <1>3, <1>8, <2>1, <2>4 DEF HandsKnown
  <2>6. x \in {"delta", "snapshots", "commit"} \/ Lingers(p)' => Snapped(local[p])
    BY <1>3, <1>6, <2>1 DEF HandsKnown
  <2>7. x = "snapshot" /\ ~initialising[p] => local[p].version > 1
    <3>1. x = "snapshot" /\ ~initialising[p] => Lingers(p) /\ SnapshotDue(local[p])
      BY <1>3 DEF Lingers
    <3> QED
      BY <2>1, <3>1, DueIsLater, TypeFacts DEF HandsKnown
  <2>8. x = "expire" => initialising[p]
    BY <1>3, <1>5 DEF LockOK, Holds
  <2>9. x \in {"start", "snapshot", "expire", "commit"}
    BY <1>3
  <2> QED
    BY <1>1, <1>4, <2>1, <2>2, <2>3, <2>5, <2>6, <2>7, <2>8, <2>9 DEF HandsKnown
<1> QED
  BY <1>1, <1>2, <1>4, <1>7, <1>8, <1>9, KnownStays

\* A run takes the status row in hand.
LEMMA ResumeKnown ==
    ASSUME TypeInv, ShapeInv, LockInv, LossInv, ClientInv, TypeInv', UNCHANGED clientVars,
           NEW p \in Servers, Resume(p)
    PROVE  ClientInv'
<1>1. /\ pc[p] = "start" /\ pc' = [pc EXCEPT ![p] = "delta"]
      /\ local' = [local EXCEPT ![p] = status] /\ initialising' = initialising
      /\ horizon' = horizon /\ UNCHANGED databaseVars /\ unf' = unf /\ aged' = aged
      /\ created' = created /\ overtaken' = overtaken /\ deltaFiles' = deltaFiles
      /\ snapshotFiles' = snapshotFiles /\ status # None /\ status.session # 0
      /\ status' = status /\ sessions' = sessions
  BY DEF Resume, Locked, databaseVars, diskVars, boundVars
<1>2. Others(p) /\ pc'[p] = "delta" /\ local'[p] = status
  BY <1>1, StepOthers, Replaced
<1>3. FilesStep(World, World') /\ sessions <= sessions'
  BY <1>1, FilesLeft, TypeFacts
<1>4. Around' \subseteq Around /\ Offered' \subseteq Offered
  BY <1>1, AroundLess, OfferedMore
<1>5. ~initialising[p]
  BY <1>1 DEF LockInv, LockOK
<1>6. ASSUME ~overtaken PROVE HandsKnown(p)'
  <2>1. RefsOK(status, World) /\ WorldOK(World)
    BY <1>1, <1>6 DEF LossInv, StateOK
  <2>2. Informs(status, World, Around, Offered) /\ Snapped(status) /\ HandsKnown(p)
    BY <1>1, <1>6 DEF ClientInv
  <2>3. Informs(status, World', Around', Offered')
    BY <1>3, <1>4, <2>1, <2>2, InformsFiles, InformsFewer
  <2> QED
    BY <1>1, <1>2, <1>5, <2>2, <2>3 DEF HandsKnown, Lingers
<1> QED
  BY <1>1, <1>2, <1>3, <1>4, <1>6, KnownStays

\* A run begins a session, of which nobody has heard.
LEMMA InitialiseKnown ==
    ASSUME TypeInv, ShapeInv, LockInv, LossInv, ClientInv, TypeInv', UNCHANGED clientVars,
           NEW p \in Servers, Initialise(p)
    PROVE  ClientInv'
<1>1. /\ pc[p] = "start" /\ pc' = [pc EXCEPT ![p] = "decide"]
      /\ initialising' = [initialising EXCEPT ![p] = TRUE]
      /\ horizon' = horizon /\ UNCHANGED databaseVars /\ status' = status /\ unf' = unf
      /\ created' = created /\ overtaken' = overtaken /\ deltaFiles' = deltaFiles
      /\ snapshotFiles' = snapshotFiles /\ status # None /\ aged' = aged
      /\ sessions' = sessions + 1
      /\ local' = [local EXCEPT ![p] = [status EXCEPT !.session = sessions + 1, !.version = 1,
                    !.snapVersion = 0, !.snapSerial = 0, !.deltas = {}]]
  BY DEF Initialise, Locked, databaseVars, diskVars, boundVars
<1>2. /\ Others(p) /\ pc'[p] = "decide" /\ initialising'[p] = TRUE
      /\ local'[p] = AsSession(status, sessions + 1)
  <2>1. p \in DOMAIN pc /\ p \in DOMAIN local /\ p \in DOMAIN initialising
    BY TypeFacts
  <2> QED
    BY <1>1, <2>1 DEF Others, AsSession
<1>3. status \in StatusType /\ sessions \in Nat /\ sessions + 1 \in Nat /\ sessions <= sessions'
  BY <1>1, TypeFacts
<1>4. local'[p].session = sessions + 1 /\ local'[p].deltas = {}
  BY <1>2, <1>3, WithSession
<1>5. FilesStep(World, World') /\ WorldOK(World)
  BY <1>1, FilesLeft DEF LossInv
<1>6. Around' \subseteq Around /\ Offered' \subseteq Offered /\ ClientTypes
  BY <1>1, AroundLess, OfferedMore DEF ClientInv
<1>7. \A c \in Around' : c.session < local'[p].session
  <2> SUFFICES ASSUME NEW c \in Around' PROVE c.session < local'[p].session
    OBVIOUS
  <2>1. c.session \in Nat /\ c.session <= sessions
    BY <1>5, <1>6, AroundTyped DEF ClientTypes
  <2> QED
    BY <1>3, <1>4, <2>1
<1>8. \A u \in Offered' : u.session < local'[p].session
  <2> SUFFICES ASSUME NEW u \in Offered' PROVE u.session < local'[p].session
    OBVIOUS
  <2>1. u.session \in Nat /\ u.session <= sessions
    BY <1>5, <1>6, AroundTyped DEF ClientTypes
  <2> QED
    BY <1>3, <1>4, <2>1
<1>9. Informs(local'[p], World', Around', Offered')
  <2>1. local'[p].session \in Nat
    BY <1>3, <1>4
  <2>2. \A c \in Around' : c.session \in Nat
    BY <1>5, <1>6, AroundTyped
  <2>3. \A u \in Offered' : u.session \in Nat
    BY <1>5, <1>6, AroundTyped
  <2>4. /\ \A c \in Around' : c.session # local'[p].session
        /\ \A u \in Offered' : u.session # local'[p].session
    BY <1>7, <1>8, <2>1, <2>2, <2>3
  <2> QED
    BY <1>4, <2>4, InformsNobody
<1>10. status'.session < local'[p].session
  <2>1. status.session \in Nat /\ status.session <= sessions
    BY <1>1 DEF ShapeInv, StatusOK, Shaped
  <2> QED
    BY <1>1, <1>3, <1>4, <2>1
<1>11. ASSUME ~overtaken PROVE HandsKnown(p)'
  <2>1. horizon'[p] <= created'
    BY <1>1, <1>11 DEF ClientInv, HandsKnown
  <2> QED
    BY <1>2, <1>7, <1>8, <1>9, <1>10, <2>1 DEF HandsKnown, Lingers
<1>12. \A q \in Servers : q # p => horizon'[q] = horizon[q]
  BY <1>1
<1> QED
  BY <1>1, <1>2, <1>3, <1>5, <1>6, <1>11, <1>12, KnownStays

\* A run writes a delta.
LEMMA WriteDeltaKnown ==
    ASSUME TypeInv, ShapeInv, LockInv, LossInv, ClientInv, TypeInv', UNCHANGED clientVars,
           NEW p \in Servers, WriteDelta(p)
    PROVE  ClientInv'
<1>1. /\ pc[p] = "delta" /\ pc' = [pc EXCEPT ![p] = "expire"] /\ initialising' = initialising
      /\ horizon' = horizon /\ UNCHANGED databaseVars /\ status' = status /\ unf' = unf
      /\ overtaken' = overtaken /\ aged' = aged /\ sessions' = sessions
      /\ snapshotFiles' = snapshotFiles
  BY DEF WriteDelta, databaseVars, boundVars
<1>2. Holds(p) /\ pc'[p] = "expire" /\ ~initialising[p]
  BY <1>1, TypeFacts DEF Holds, LockInv, LockOK
<1>3. Around' \subseteq Around /\ Offered' \subseteq Offered /\ ClientTypes /\ WorldOK(World)
  BY <1>1, AroundLess, OfferedMore DEF ClientInv, LossInv
<1>4. sessions <= sessions' /\ horizon[p] \in Nat /\ created \in Nat /\ created' \in Nat
  BY <1>1, TypeFacts DEF TypeInv, TypeOK
<1>5. CASE DeltaEntries(local[p]) = {}
  <2>1. local' = local /\ deltaFiles' = deltaFiles /\ created' = created
    BY <1>5 DEF WriteDelta
  <2>2. Others(p) /\ FilesStep(World, World')
    BY <1>1, <2>1, StepOthers, FilesLeft
  <2>3. ASSUME ~overtaken PROVE HandsKnown(p)'
    <3>1. /\ HandsKnown(p)
          /\ Informs(local[p], World', Around', Offered')
      BY <1>2, <1>3, <2>2, <2>3, HandInforms DEF ClientInv
    <3> QED
      BY <1>1, <1>2, <2>1, <3>1 DEF HandsKnown, Lingers, Grown
  <2> QED
    BY <1>1, <1>3, <1>4, <2>1, <2>2, <2>3, KnownStays
<1>6. CASE DeltaEntries(local[p]) # {}
  <2>1. /\ Others(p)
        /\ \E d, ref : DeltaStep(local[p], local'[p], World, World', d, ref)
    BY <1>3, <1>6, DeltaMade
  <2>2. PICK d, ref : DeltaStep(local[p], local'[p], World, World', d, ref)
    BY <2>1
  <2>3. /\ created' = created + 1 /\ ref.file = created + 1 /\ ref.version = local[p].version + 1
        /\ local'[p].version = local[p].version + 1 /\ ref \in local'[p].deltas
        /\ local[p].deltas \subseteq local'[p].deltas
    BY <2>2, WorldFields, WorldFieldsNext DEF DeltaStep
  <2>4. FilesStep(World, World')
    <3>1. d.file > World.created /\ World'.created \in Nat /\ World.created <= World'.created
      BY <1>3, <2>2 DEF DeltaStep, WorldOK
    <3> QED
      BY <2>2, <3>1 DEF DeltaStep, FilesStep
  <2>5. ASSUME ~overtaken PROVE HandsKnown(p)'
    <3>1. HandsKnown(p) /\ RefsOK(local[p], World)
      BY <1>2, <2>5 DEF ClientInv, LossInv, HandsOK, StateOK
    <3>2. Snapped(local[p]) /\ Informs(local[p], World, Around, Offered)
      BY <1>1, <1>2, <3>1 DEF HandsKnown
    <3>3. \A c \in Around : c.version \in Nat
                            /\ \A r \in c.refs : r.file \in Nat /\ r.file <= World.created
      BY <1>3, <2>5, AroundTyped, WorldFields DEF ClientTypes
    <3>4. Informs(local'[p], World', Around', Offered')
      <4>1. Informs(local'[p], World', Around, Offered)
        BY <1>3, <2>2, <3>1, <3>2, <3>3, InformsDelta
      <4> QED
        BY <1>3, <4>1, InformsFewer
    <3>5. horizon[p] <= created /\ local[p].version = status.version /\ local[p].deltas = status.deltas
      BY <1>1, <3>1 DEF HandsKnown
    <3>6. Grown(p)'
      <4>1. ref.file > horizon[p]
        BY <1>4, <2>3, <3>5
      <4> QED
        BY <1>1, <2>3, <3>5, <4>1 DEF Grown
    <3>7. horizon'[p] <= created'
      BY <1>1, <1>4, <2>3, <3>5
    <3> QED
      BY <1>1, <1>2, <2>3, <3>4, <3>5, <3>6, <3>7 DEF HandsKnown, Lingers
  <2> QED
    BY <1>1, <1>3, <1>4, <2>1, <2>4, <2>5, KnownStays
<1> QED
  BY <1>5, <1>6

\* A run deletes expired deltas, and those it does not know.
LEMMA ExpireDeltasKnown ==
    ASSUME TypeInv, ShapeInv, LockInv, LossInv, ClientInv, TypeInv', UNCHANGED clientVars,
           NEW p \in Servers, ExpireDeltas(p)
    PROVE  ClientInv'
<1> DEFINE kept == {r \in local[p].deltas : r.file > horizon[p]}
           new == AsKept(local[p], kept)
<1>1. /\ pc[p] = "expire" /\ pc' = [pc EXCEPT ![p] = "unf"] /\ initialising' = initialising
      /\ horizon' = horizon /\ UNCHANGED databaseVars /\ status' = status /\ unf' = unf
      /\ overtaken' = overtaken /\ aged' = aged /\ sessions' = sessions
      /\ snapshotFiles' = snapshotFiles /\ created' = created
      /\ deltaFiles' = {d \in deltaFiles : d.file \in FilesOf(kept)}
      /\ local' = [local EXCEPT ![p].deltas = kept]
  BY DEF ExpireDeltas, databaseVars, boundVars
<1>2. local' = [local EXCEPT ![p] = new]
  <2>1. local' = [local EXCEPT ![p] = [local[p] EXCEPT !.deltas = kept]]
    BY <1>1
  <2> QED
    BY <2>1 DEF AsKept
<1>3. /\ new.session = local[p].session /\ new.version = local[p].version
      /\ new.snapVersion = local[p].snapVersion /\ new.snapSerial = local[p].snapSerial
      /\ new.deltas = kept
  <2>1. local[p] \in StatusType /\ kept \in SUBSET DeltaRef
    BY TypeFacts, StatusFields
  <2> HIDE DEF kept
  <2> QED
    BY <2>1, WithKept
<1> HIDE DEF new
<1>4. Others(p) /\ pc'[p] = "unf" /\ local'[p] = new
  BY <1>1, <1>2, StepOthers, Replaced
<1>5. FilesStep(World, World') /\ sessions <= sessions'
  BY <1>1, FilesLeft, TypeFacts
<1>6. Around' \subseteq Around /\ Offered' \subseteq Offered
  BY <1>1, AroundLess, OfferedMore
<1>7. ASSUME ~overtaken PROVE HandsKnown(p)'
  <2>1. Holds(p)
    BY <1>1 DEF Holds
  <2>2. HandsKnown(p) /\ RefsOK(local[p], World) /\ WorldOK(World)
    BY <1>7, <2>1 DEF ClientInv, LossInv, HandsOK, StateOK
  <2>3. Informs(new, World', Around', Offered')
    <3>1. Informs(local[p], World', Around', Offered')
      BY <1>5, <1>6, <1>7, <2>1, HandInforms
    <3>2. RefsOK(local[p], World')
      <4>1. World'.sequence = World.sequence /\ World'.created = World.created
        BY <1>1, WorldFields, WorldFieldsNext DEF databaseVars
      <4> QED
        BY <2>2, <4>1 DEF RefsOK
    <3>3. new.deltas \subseteq local[p].deltas
      BY <1>3
    <3> QED
      BY <1>3, <3>1, <3>2, <3>3, InformsKept
  <2>4. ASSUME ~initialising[p]
        PROVE  /\ Grown(p)'
               /\ \A r \in status.deltas : r \in kept \/ \A d \in deltaFiles' : d.file # r.file
    <3>1. Grown(p) /\ status.deltas \subseteq local[p].deltas
      BY <1>1, <2>2, <2>4 DEF HandsKnown
    <3>2. Grown(p)'
      BY <1>1, <1>3, <1>4, <3>1 DEF Grown
    <3>3. ASSUME NEW r \in status.deltas, NEW d \in deltaFiles', d.file = r.file PROVE r \in kept
      <4>1. PICK k \in kept : k.file = r.file
        BY <1>1, <3>3 DEF FilesOf
      <4>2. r \in local[p].deltas /\ r.file > horizon[p]
        BY <3>1, <4>1
      <4> QED
        BY <4>2
    <3> QED
      BY <3>2, <3>3
  <2>5. ~Lingers(p)' /\ horizon'[p] <= created' /\ status' = status
    BY <1>1, <1>4, <2>2 DEF Lingers, HandsKnown
  <2>6. initialising[p] => status.session < new.session
    BY <1>3, <2>2 DEF HandsKnown
  <2> HIDE DEF kept
  <2> QED
    BY <1>1, <1>3, <1>4, <2>3, <2>4, <2>5, <2>6 DEF HandsKnown
<1>8. \A q \in Servers : q # p => horizon'[q] = horizon[q]
  BY <1>1
<1> HIDE DEF kept
<1> QED
  BY <1>1, <1>4, <1>5, <1>6, <1>7, <1>8, KnownStays

\* The notification file of a status.
LEMMA UnfTyped ==
    ASSUME NEW st \in StatusType
    PROVE  /\ UnfOf(st) \in OfferType /\ UnfOf(st).session = st.session
           /\ UnfOf(st).version = st.version /\ Versions(UnfOf(st).deltas) = Versions(st.deltas)
           /\ \A r \in UnfOf(st).deltas : \E q \in st.deltas : r.version = q.version /\ r.file = q.file
<1> DEFINE refs == {[version |-> ref.version, file |-> ref.file] : ref \in st.deltas}
<1>1. /\ st.session \in Nat /\ st.version \in Nat /\ st.snapVersion \in Nat /\ st.snapFile \in Nat
      /\ st.deltas \subseteq DeltaRef
  BY StatusFields
<1>2. UnfOf(st) = [session |-> st.session, version |-> st.version,
                   snapshot |-> [version |-> st.snapVersion, file |-> st.snapFile], deltas |-> refs]
  BY DEF UnfOf
<1>3. refs \in SUBSET Ref
  BY <1>1 DEF Ref, DeltaRef
<1>4. \A r \in refs : \E q \in st.deltas : r.version = q.version /\ r.file = q.file
  OBVIOUS
<1>5. Versions(refs) = Versions(st.deltas)
  <2>1. ASSUME NEW v \in Versions(refs) PROVE v \in Versions(st.deltas)
    <3>1. PICK r \in refs : r.version = v
      BY VersionsIs
    <3> QED
      BY <1>4, <3>1, VersionsIs
  <2>2. ASSUME NEW v \in Versions(st.deltas) PROVE v \in Versions(refs)
    <3>1. PICK q \in st.deltas : q.version = v
      BY VersionsIs
    <3>2. [version |-> q.version, file |-> q.file] \in refs
      OBVIOUS
    <3> QED
      BY <3>1, <3>2, VersionsIs
  <2> QED
    BY <2>1, <2>2
<1> HIDE DEF refs
<1>6. [version |-> st.snapVersion, file |-> st.snapFile] \in [version : Nat, file : Nat]
  BY <1>1
<1>7. UnfOf(st) \in OfferType
  BY <1>1, <1>2, <1>3, <1>6 DEF OfferType
<1> QED
  BY <1>2, <1>4, <1>5, <1>7

\* The notification file of a run lists the deltas of a whole status.
LEMMA GrownLists ==
    ASSUME TypeInv, NEW p \in Servers, status # None, Grown(p), Whole(status, World),
           \A r \in status.deltas :
               r \in local[p].deltas \/ \A d \in deltaFiles : d.file # r.file
    PROVE  2..local[p].version \subseteq Versions(local[p].deltas)
<1>1. \A r \in status.deltas : r \in local[p].deltas
  BY WorldFields DEF Whole, AllThere
<1>2. status.version \in Nat /\ local[p].version \in Nat
  BY TypeFacts, StatusFields
<1> SUFFICES ASSUME NEW v \in 2..local[p].version PROVE v \in Versions(local[p].deltas)
  OBVIOUS
<1>3. CASE v \in 2..status.version
  <2>1. PICK r \in status.deltas : r.version = v
    BY <1>3, VersionsIs DEF Whole
  <2> QED
    BY <1>1, <2>1, VersionsIs
<1>4. CASE v \notin 2..status.version
  <2>1. v = local[p].version /\ local[p].version # status.version
    BY <1>2, <1>4 DEF Grown
  <2> QED
    BY <2>1, VersionsIs DEF Grown
<1> QED
  BY <1>3, <1>4

\* A run writes the notification file.
LEMMA WriteUnfKnown ==
    ASSUME TypeInv, ShapeInv, LockInv, LossInv, ClientInv, TypeInv', UNCHANGED clientVars,
           NEW p \in Servers, WriteUnf(p)
    PROVE  ClientInv'
<1> DEFINE u == UnfOf(local[p])
<1>1. /\ pc[p] = "unf" /\ pc' = [pc EXCEPT ![p] = "snapshots"] /\ initialising' = initialising
      /\ horizon' = horizon /\ UNCHANGED databaseVars /\ status' = status /\ local' = local
      /\ overtaken' = overtaken /\ aged' = aged /\ sessions' = sessions
      /\ snapshotFiles' = snapshotFiles /\ deltaFiles' = deltaFiles /\ created' = created
      /\ unf' = u /\ Valid(local[p])
  BY DEF WriteUnf, databaseVars, boundVars
<1>2. Others(p) /\ pc'[p] = "snapshots" /\ Holds(p)
  BY <1>1, StepOthers DEF Holds
<1>3. FilesStep(World, World') /\ sessions <= sessions' /\ created <= created' /\ WorldOK(World)
  BY <1>1, FilesLeft, TypeFacts DEF LossInv
<1>4. Around' \subseteq Around /\ Offered' \subseteq Offered \union {u} /\ ClientTypes
  BY <1>1, AroundLess, OfferedMore DEF ClientInv
<1>5. /\ u \in OfferType /\ u.session = local[p].session /\ u.version = local[p].version
      /\ Versions(u.deltas) = Versions(local[p].deltas)
      /\ \A r \in u.deltas : \E q \in local[p].deltas : r.version = q.version /\ r.file = q.file
  BY TypeFacts, UnfTyped
<1> HIDE DEF u
<1>6. u.session <= sessions
  BY <1>5 DEF ShapeInv
<1>7. \A r \in u.deltas : r.version <= u.version /\ (overtaken \/ r.file <= created')
  <2> SUFFICES ASSUME NEW r \in u.deltas
               PROVE  r.version <= u.version /\ (overtaken \/ r.file <= created')
    OBVIOUS
  <2>1. PICK q \in local[p].deltas : r.version = q.version /\ r.file = q.file
    BY <1>5
  <2>2. q.version \in Versions(local[p].deltas)
    BY VersionsIs
  <2>3. r.version <= u.version
    BY <1>1, <1>5, <2>1, <2>2 DEF Valid
  <2>4. ~overtaken => RefsOK(local[p], World)
    BY <1>2 DEF LossInv, HandsOK, StateOK
  <2> QED
    BY <1>1, <2>1, <2>3, <2>4, WorldFields DEF RefsOK
<1>8. ClientTypes'
  BY <1>1, <1>3, <1>4, <1>5, <1>6, <1>7, ClientTypesKept
<1>9. \A q \in Servers : q # p => ~Holds(q) /\ ~initialising[q] /\ horizon'[q] = horizon[q]
  BY <1>1, <1>2, Alone
<1>10. status # None
  BY <1>1 DEF TypeInv
<1>11. ASSUME ~overtaken PROVE Informs(status, World', Around', Offered')
  <2>1. RefsOK(status, World) /\ Informs(status, World, Around, Offered) /\ HandsKnown(p)
    BY <1>10, <1>11 DEF ClientInv, LossInv, StateOK
  <2>2. Informs(status, World', Around, Offered)
    BY <1>3, <2>1, InformsFiles
  <2>3. ASSUME Whole(status, World'), u.session = status.session PROVE Lists(u)
    <3>1. Whole(status, World)
      BY <1>1, <2>3, WorldFields, WorldFieldsNext DEF Whole, AllThere
    <3>2. ~initialising[p]
      <4>1. status.session \in Nat /\ local[p].session \in Nat
        BY <1>10, TypeFacts, StatusFields
      <4> QED
        BY <1>5, <2>1, <2>3, <4>1 DEF HandsKnown
    <3>3. Grown(p) /\ \A r \in status.deltas :
              r \in local[p].deltas \/ \A d \in deltaFiles : d.file # r.file
      BY <1>1, <2>1, <3>2 DEF HandsKnown
    <3>4. 2..local[p].version \subseteq Versions(local[p].deltas)
      BY <1>10, <3>1, <3>3, GrownLists
    <3> QED
      BY <1>5, <3>4 DEF Lists
  <2> QED
    BY <1>4, <2>2, <2>3, InformsMore
<1>12. ASSUME ~overtaken PROVE HandsKnown(p)'
  <2>1. HandsKnown(p) /\ RefsOK(local[p], World) /\ Informs(local[p], World, Around, Offered)
    BY <1>2, <1>12 DEF ClientInv, LossInv, HandsOK, StateOK, HandsKnown
  <2>2. Informs(local[p], World', Around', Offered')
    <3>1. Informs(local[p], World', Around, Offered)
      BY <1>3, <2>1, InformsFiles
    <3>2. Whole(local[p], World') => Lists(u)
      BY <1>5 DEF Whole, Lists
    <3> QED
      BY <1>4, <3>1, <3>2, InformsMore
  <2>3. Snapped(local[p])
    BY <1>1 DEF Valid, Snapped
  <2> QED
    BY <1>1, <1>2, <2>1, <2>2, <2>3 DEF HandsKnown
<1> QED
  BY <1>1, <1>2, <1>3, <1>8, <1>9, <1>11, <1>12, KnownKept

\* A run writes a snapshot of all objects.
LEMMA WriteSnapshotKnown ==
    ASSUME TypeInv, ShapeInv, LockInv, LossInv, ClientInv, TypeInv', UNCHANGED clientVars,
           NEW p \in Servers, WriteSnapshot(p)
    PROVE  ClientInv'
<1> DEFINE s == [file |-> created + 1, session |-> local[p].session,
                 version |-> local[p].version, objects |-> rows]
           c == Copy(s.session, s.version, s.objects, {})
<1>1. /\ pc[p] = "snapshot" /\ initialising' = initialising /\ horizon' = horizon
      /\ UNCHANGED databaseVars /\ status' = status /\ unf' = unf
      /\ overtaken' = overtaken /\ aged' = aged /\ sessions' = sessions
      /\ deltaFiles' = deltaFiles /\ created' = created + 1
      /\ snapshotFiles' = snapshotFiles \union {s}
  BY DEF WriteSnapshot, databaseVars, boundVars
<1>2. /\ c.session = local[p].session /\ c.version = local[p].version
      /\ c.objects = rows /\ c.refs = {}
  BY CopyFields
<1>3. s.file = created + 1
  OBVIOUS
<1>4. /\ Around' \subseteq Around \union {c} /\ Offered' \subseteq Offered
      /\ ClientTypes /\ WorldOK(World)
  <2> HIDE DEF s
  <2> QED
    BY <1>1, AroundMore, OfferedMore DEF ClientInv, LossInv
<1> HIDE DEF s, c
<1>5. /\ created \in Nat /\ local[p] \in StatusType /\ local[p].version \in Nat
      /\ local[p].session \in Nat /\ maxSerial[p] \in Nat
  BY TypeFacts, StatusFields
<1>6. sessions <= sessions' /\ created <= created'
  BY <1>1, <1>5, TypeFacts
<1>7. FilesStep(World, World')
  <2>1. /\ World'.journal = World.journal /\ World'.rows = World.rows
        /\ World'.sequence = World.sequence /\ World'.created = World.created + 1
        /\ World'.deltas = World.deltas /\ World'.snapshots = World.snapshots \union {s}
        /\ World.created = created
    BY <1>1, WorldFields, WorldFieldsNext DEF databaseVars
  <2>2. s.file > World.created /\ World'.created \in Nat /\ World.created <= World'.created
    BY <1>3, <1>5, <2>1
  <2> QED
    BY <2>1, <2>2 DEF FilesStep
<1>8. ClientTypes'
  <2>1. c.session <= sessions'
    BY <1>1, <1>2 DEF ShapeInv
  <2> QED
    BY <1>1, <1>2, <1>4, <1>6, <2>1, ClientTypesKept
<1>9. status # None /\ status.session \in Nat /\ status.version \in Nat
  <2>1. status # None
    BY <1>1 DEF TypeInv
  <2> QED
    BY <2>1, TypeFacts, StatusFields
<1>10. c.objects = World'.rows
  BY <1>1, <1>2, WorldFieldsNext DEF databaseVars
<1>11. ASSUME NEW st, Informs(st, World', Around, Offered),
              c.session = st.session => c.version <= st.version
       PROVE  Informs(st, World', Around', Offered')
  <2>1. c.session = st.session => Sound(c, st, World')
    BY <1>10, <1>11, RowsSound
  <2> QED
    BY <1>4, <1>11, <2>1, InformsMore
<1>12. ~overtaken => HandsKnown(p) /\ HandsOK(p) /\ RefsOK(status, World)
                     /\ Informs(status, World', Around, Offered)
  <2>1. ~overtaken => RefsOK(status, World) /\ Informs(status, World, Around, Offered)
    BY <1>9 DEF ClientInv, LossInv, StateOK
  <2>2. ~overtaken => Informs(status, World', Around, Offered)
    BY <1>4, <1>7, <2>1, InformsFiles
  <2> QED
    BY <2>1, <2>2 DEF ClientInv, LossInv
<1>13. CASE initialising[p]
  <2>1. /\ pc' = [pc EXCEPT ![p] = "expire"]
        /\ local' = [local EXCEPT ![p] = WithSnapshot(p, local[p], created + 1)]
    BY <1>13 DEF WriteSnapshot
  <2>2. Others(p) /\ pc'[p] = "expire" /\ local'[p] = WithSnapshot(p, local[p], created + 1)
    BY <1>1, <2>1, StepOthers, Replaced
  <2>3. /\ local'[p].session = local[p].session /\ local'[p].version = local[p].version
        /\ local'[p].deltas = local[p].deltas
    <3>1. local'[p] = AsSnapshot(local[p], created + 1, local[p].version, maxSerial[p])
      BY <2>2 DEF WithSnapshot, AsSnapshot
    <3>2. created + 1 \in Nat
      BY <1>5
    <3>3. HasSnapshot(AsSnapshot(local[p], created + 1, local[p].version, maxSerial[p]),
                      local[p], created + 1, local[p].version, maxSerial[p])
      BY <1>5, <3>2, SnapshotFields
    <3>4. HasSnapshot(local'[p], local[p], created + 1, local[p].version, maxSerial[p])
      BY <3>1, <3>3
    <3> QED
      BY <3>4 DEF HasSnapshot
  <2>4. Holds(p)
    BY <1>1, <1>13 DEF Holds
  <2>5. \A q \in Servers : q # p => ~Holds(q) /\ ~initialising[q] /\ horizon'[q] = horizon[q]
    BY <1>1, <2>4, Alone
  <2>6. ASSUME ~overtaken PROVE Informs(status, World', Around', Offered')
    <3>1. c.session # status.session
      BY <1>2, <1>5, <1>9, <1>12, <1>13, <2>6 DEF HandsKnown
    <3> QED
      BY <1>11, <1>12, <2>6, <3>1
  <2>7. ASSUME ~overtaken PROVE HandsKnown(p)'
    <3>1. /\ \A k \in Around : k.session < local[p].session
          /\ \A u \in Offered : u.session < local[p].session
          /\ Informs(local[p], World, Around, Offered)
      BY <1>1, <1>12, <1>13, <2>4, <2>7 DEF HandsKnown
    <3>2. /\ \A k \in Around : k.session \in Nat
          /\ \A u \in Offered : u.session \in Nat
      BY <1>4, AroundTyped
    <3>3. /\ \A k \in Around : k.session # local'[p].session
          /\ \A u \in Offered : u.session # local'[p].session
      BY <1>5, <2>3, <3>1, <3>2
    <3>4. c.objects = World'.rows /\ c.version <= local'[p].version
      BY <1>2, <1>5, <1>10, <2>3
    <3>5. \A r \in local'[p].deltas : r.version > 1
      BY <2>3, <3>1 DEF Informs
    <3>6. Informs(local'[p], World', Around', Offered')
      BY <1>4, <3>3, <3>4, <3>5, InformsNobody
    <3>7. horizon'[p] <= created' /\ status'.session < local'[p].session
      <4>1. horizon[p] <= created /\ horizon[p] \in Nat /\ status.session < local[p].session
        BY <1>12, <1>13, <2>7, TypeFacts DEF HandsKnown
      <4> QED
        BY <1>1, <1>5, <2>3, <4>1
    <3>8. initialising'[p] /\ ~Lingers(p)'
      BY <1>1, <1>13 DEF Lingers
    <3> QED
      BY <2>2, <3>6, <3>7, <3>8 DEF HandsKnown
  <2> QED
    BY <1>1, <1>7, <1>8, <2>2, <2>5, <2>6, <2>7, KnownKept
<1>14. CASE ~initialising[p]
  <2>1. pc' = [pc EXCEPT ![p] = "relock"] /\ local' = local
    BY <1>14 DEF WriteSnapshot
  <2>2. Others(p) /\ pc'[p] = "relock" /\ Lingers(p) /\ ~Holds(p)
    BY <1>1, <1>14, <2>1, StepOthers DEF Lingers, Holds
  <2>3. ASSUME ~overtaken PROVE c.session = status.session => c.version <= status.version
    BY <1>2, <1>12, <2>2, <2>3 DEF HandsOK
  <2>4. ASSUME ~overtaken PROVE Informs(status, World', Around', Offered')
    BY <1>11, <1>12, <2>3, <2>4
  <2>5. ASSUME ~overtaken, NEW q \in Servers, q # p, initialising[q]
        PROVE  c.session < local[q].session
    BY <1>2, <2>5, OthersBehind
  <2>6. ASSUME ~overtaken, NEW q \in Servers, q # p, Holds(q)
        PROVE  Informs(local[q], World', Around', Offered')
    <3>1. RefsOK(local[q], World) /\ Informs(local[q], World, Around, Offered) /\ HandsOK(q)
      BY <2>6 DEF LossInv, StateOK, ClientInv, HandsOK, HandsKnown
    <3>2. Informs(local[q], World', Around, Offered)
      BY <1>4, <1>7, <3>1, InformsFiles
    <3>3. local[q].session \in Nat /\ local[q].version \in Nat
      BY TypeFacts, StatusFields
    <3>4. c.session = local[q].session => c.version <= local[q].version
      <4>1. CASE initialising[q]
        <5>1. c.session < local[q].session
          BY <2>5, <2>6, <4>1
        <5> QED
          BY <1>2, <1>5, <3>3, <5>1
      <4>2. CASE ~initialising[q]
        <5>1. local[q].session = status.session /\ status.version <= local[q].version
          BY <2>6, <3>1, <4>2 DEF HandsOK
        <5>2. c.session = status.session => c.version <= status.version
          BY <2>3, <2>6
        <5> QED
          BY <1>2, <1>5, <1>9, <3>3, <5>1, <5>2
      <4> QED
        BY <4>1, <4>2
    <3> QED
      BY <1>11, <3>2, <3>4
  <2>7. ASSUME ~overtaken, NEW q \in Servers, q # p,
               initialising[q] /\ pc[q] \in {"decide", "snapshot"}
        PROVE  /\ \A k \in Around' : k.session < local[q].session
               /\ \A u \in Offered' : u.session < local[q].session
    <3>1. /\ \A k \in Around : k.session < local[q].session
          /\ \A u \in Offered : u.session < local[q].session
      BY <2>7 DEF ClientInv, HandsKnown
    <3>2. c.session < local[q].session
      BY <2>5, <2>7
    <3> QED
      BY <1>4, <3>1, <3>2
  <2>8. ASSUME ~overtaken PROVE HandsKnown(p)'
    <3>1. HandsKnown(p)
      BY <1>12, <2>8
    <3>2. Snapped(local[p]) /\ local[p].version > 1
      BY <1>1, <1>14, <2>2, <3>1 DEF HandsKnown
    <3>3. horizon'[p] <= created'
      <4>1. horizon[p] <= created /\ horizon[p] \in Nat
        BY <3>1, TypeFacts DEF HandsKnown
      <4> QED
        BY <1>1, <1>5, <4>1
    <3>4. ~Holds(p)' /\ initialising'[p] = FALSE /\ local'[p] = local[p]
      BY <1>1, <1>14, <2>1, <2>2, TypeFacts DEF Holds
    <3> QED
      BY <2>2, <3>2, <3>3, <3>4 DEF HandsKnown
  <2>9. \A q \in Servers : q # p => horizon'[q] = horizon[q]
    BY <1>1
  <2> QED
    BY <1>1, <1>7, <1>8, <2>2, <2>4, <2>6, <2>7, <2>8, <2>9, KnownKept
<1> QED
  BY <1>13, <1>14

\* A run that has written a snapshot reads the status anew.
LEMMA RelockKnown ==
    ASSUME TypeInv, ShapeInv, LockInv, LossInv, ClientInv, TypeInv', UNCHANGED clientVars,
           NEW p \in Servers, Relock(p)
    PROVE  ClientInv'
<1>1. /\ pc[p] = "relock" /\ pc' = [pc EXCEPT ![p] = "expire"] /\ initialising' = initialising
      /\ local' = [local EXCEPT ![p] = WithSnapshot(p, status, snapshot[p])]
      /\ horizon' = horizon /\ UNCHANGED databaseVars /\ status' = status /\ unf' = unf
      /\ overtaken' = overtaken /\ aged' = aged /\ sessions' = sessions
      /\ deltaFiles' = deltaFiles /\ snapshotFiles' = snapshotFiles /\ created' = created
  BY DEF Relock, databaseVars, diskVars, boundVars
<1>2. Others(p) /\ pc'[p] = "expire" /\ local'[p] = WithSnapshot(p, status, snapshot[p])
  BY <1>1, StepOthers, Replaced
<1>3. FilesStep(World, World') /\ sessions <= sessions'
  BY <1>1, FilesLeft, TypeFacts
<1>4. Around' \subseteq Around /\ Offered' \subseteq Offered
  BY <1>1, AroundLess, OfferedMore
<1>5. status # None /\ status \in StatusType /\ status.version \in Nat
  <2>1. status # None
    BY <1>1 DEF TypeInv
  <2> QED
    BY <2>1, TypeFacts, StatusFields
<1>6. /\ local'[p].session = status.session /\ local'[p].version = status.version
      /\ local'[p].deltas = status.deltas /\ local'[p].snapVersion = local[p].version
  <2>1. local'[p] = AsSnapshot(status, snapshot[p], local[p].version, maxSerial[p])
    BY <1>2 DEF WithSnapshot, AsSnapshot
  <2>2. snapshot[p] \in Nat /\ local[p].version \in Nat /\ maxSerial[p] \in Nat
    BY TypeFacts, StatusFields
  <2>3. HasSnapshot(AsSnapshot(status, snapshot[p], local[p].version, maxSerial[p]),
                    status, snapshot[p], local[p].version, maxSerial[p])
    BY <1>5, <2>2, SnapshotFields
  <2>4. HasSnapshot(local'[p], status, snapshot[p], local[p].version, maxSerial[p])
    BY <2>1, <2>3
  <2> QED
    BY <2>4 DEF HasSnapshot
<1>7. ~initialising[p]
  BY <1>1 DEF LockInv, LockOK
<1>8. ASSUME ~overtaken PROVE HandsKnown(p)'
  <2>1. /\ HandsKnown(p) /\ Informs(status, World, Around, Offered)
        /\ RefsOK(status, World) /\ WorldOK(World)
    BY <1>5, <1>8 DEF ClientInv, LossInv, StateOK
  <2>2. local[p].version > 1 /\ local[p].version \in Nat
    BY <1>1, <1>7, <2>1, TypeFacts, StatusFields DEF HandsKnown
  <2>3. Informs(local'[p], World', Around', Offered')
    <3>1. Informs(status, World', Around', Offered')
      BY <1>3, <1>4, <2>1, InformsFiles, InformsFewer
    <3>2. local'[p].snapVersion \in Nat /\ local'[p].snapVersion > 1
      BY <1>6, <2>2
    <3> QED
      BY <1>5, <1>6, <3>1, <3>2, InformsSnapshot
  <2>4. Grown(p)' /\ status'.deltas \subseteq local'[p].deltas
    BY <1>1, <1>6 DEF Grown
  <2>5. horizon'[p] <= created' /\ ~initialising'[p] /\ ~Lingers(p)'
    BY <1>1, <1>2, <1>7, <2>1 DEF HandsKnown, Lingers
  <2> QED
    BY <1>2, <2>3, <2>4, <2>5 DEF HandsKnown
<1>9. \A q \in Servers : q # p => horizon'[q] = horizon[q]
  BY <1>1
<1> QED
  BY <1>1, <1>2, <1>3, <1>4, <1>8, <1>9, KnownStays

\* A run commits.
LEMMA CommitsKnown ==
    ASSUME TypeInv, ShapeInv, LockInv, LossInv, ClientInv, TypeInv', UNCHANGED clientVars,
           NEW p \in Servers, CommitDelta(p) \/ CommitSnapshot(p)
    PROVE  ClientInv'
<1>1. /\ pc[p] = "commit" /\ status' = [local[p] EXCEPT !.force = FALSE]
      /\ rows' = rows /\ journal' = journal /\ sequence' = sequence /\ unf' = unf
      /\ created' = created /\ overtaken' = overtaken /\ deltaFiles' = deltaFiles
      /\ snapshotFiles' = snapshotFiles /\ aged' = aged /\ sessions' = sessions
  BY DEF CommitDelta, CommitSnapshot, Record, diskVars, boundVars
<1>2. /\ Others(p) /\ (CommitDelta(p) => pc'[p] = "decide" /\ local'[p] = local[p]
                                         /\ initialising'[p] = initialising[p] /\ snapshotLock # p
                                         /\ horizon'[p] = horizon[p])
      /\ (CommitSnapshot(p) => pc'[p] = "idle" /\ initialising'[p] = FALSE /\ horizon'[p] = 0)
      /\ \A q \in Servers : q # p => horizon'[q] = horizon[q]
  BY TypeFacts DEF CommitDelta, CommitSnapshot, EndRun, Others
<1>3. World' = World
  BY <1>1 DEF World
<1>4. Holds(p) /\ \A q \in Servers : q # p => ~Holds(q) /\ ~initialising[q]
  <2>1. Holds(p)
    BY <1>1 DEF Holds
  <2> QED
    BY <2>1, Alone
<1>5. /\ status' \in StatusType /\ status'.session = local[p].session
      /\ status'.version = local[p].version /\ status'.deltas = local[p].deltas
      /\ status'.snapVersion = local[p].snapVersion /\ status'.snapSerial = local[p].snapSerial
  <2>1. status' = AsForced(local[p], FALSE)
    BY <1>1 DEF AsForced
  <2> QED
    BY <2>1, TypeFacts, WithForce
<1>6. Around' \subseteq Around /\ Offered' \subseteq Offered
  BY <1>1, AroundLess, OfferedMore
<1>7. ClientTypes' /\ aged' <= created'
  <2>1. sessions <= sessions' /\ created <= created'
    BY <1>1, TypeFacts
  <2> QED
    BY <1>1, <1>6, <2>1, ClientTypesKept DEF ClientInv, LossInv
<1>8. ASSUME ~overtaken
      PROVE  /\ Informs(status', World', Around', Offered') /\ Snapped(status')
             /\ \A q \in Servers : HandsKnown(q)'
  <2>1. \A q \in Servers : HandsKnown(q)
    BY <1>8 DEF ClientInv
  <2>2. Snapped(local[p]) /\ Informs(local[p], World, Around, Offered)
    BY <1>1, <1>4, <2>1 DEF HandsKnown
  <2>3. Informs(status', World', Around', Offered')
    BY <1>3, <1>5, <1>6, <2>2, InformsSame, InformsFewer
  <2>4. Snapped(status')
    BY <1>5, <2>2 DEF Snapped
  <2>5. HandsKnown(p)'
    <3>1. ~initialising'[p] /\ ~Holds(p)'
      <4>1. CommitDelta(p) => ~initialising[p]
        BY <1>1, <1>2 DEF LockInv, LockOK
      <4> QED
        BY <1>2, <4>1 DEF Holds
    <3>2. horizon'[p] <= created'
      <4>1. horizon[p] <= created /\ 0 <= created
        BY <2>1, TypeFacts DEF HandsKnown
      <4> QED
        BY <1>1, <1>2, <4>1
    <3>3. Lingers(p)' => Snapped(local'[p])
      BY <1>2, <2>2 DEF Lingers
    <3>4. pc'[p] \in {"idle", "decide"}
      BY <1>2
    <3> QED
      BY <3>1, <3>2, <3>3, <3>4 DEF HandsKnown
  <2>6. ASSUME NEW q \in Servers, q # p PROVE HandsKnown(q)'
    <3>1. /\ pc'[q] = pc[q] /\ local'[q] = local[q] /\ initialising'[q] = initialising[q]
          /\ horizon'[q] = horizon[q]
      BY <1>2, <2>6 DEF Others
    <3>2. HandsKnown(q) /\ ~Holds(q) /\ ~initialising[q]
      BY <1>4, <2>1, <2>6
    <3>3. pc[q] \notin {"delta", "expire", "unf", "snapshots", "commit"}
      BY <3>2 DEF Holds
    <3>4. ~Holds(q)' /\ ~initialising'[q] /\ (Lingers(q)' => Lingers(q))
      BY <3>1, <3>2 DEF Holds, Lingers
    <3> QED
      BY <1>1, <3>1, <3>2, <3>3, <3>4 DEF HandsKnown
  <2> QED
    BY <2>3, <2>4, <2>5, <2>6
<1> QED
  BY <1>1, <1>7, <1>8 DEF ClientInv

\* Every step of a run.
LEMMA RunKnown ==
    ASSUME TypeInv, ShapeInv, LockInv, LossInv, ClientInv, TypeInv', UNCHANGED clientVars,
           NEW p \in Servers, Run(p) \/ Crash(p)
    PROVE  ClientInv'
<1>1. CASE \/ Cancel(p) \/ Fail(p) \/ SkipSnapshot(p) \/ (SnapshotLocked(p) /\ statusLock # p)
           \/ Crash(p)
  <2>1. /\ EndRun(p) /\ UNCHANGED databaseVars /\ created' = created /\ unf' = unf
        /\ sessions' = sessions /\ aged' = aged /\ overtaken' = overtaken
        /\ deltaFiles' \subseteq deltaFiles /\ snapshotFiles' \subseteq snapshotFiles
    BY <1>1 DEF Cancel, Fail, SkipSnapshot, SnapshotLocked, Crash, diskVars, boundVars
  <2> QED
    BY <2>1, EndsKnown
<1>2. CASE \/ Start(p) \/ LockSnapshot(p) \/ (SnapshotLocked(p) /\ statusLock = p)
           \/ ExpireSnapshots(p)
  BY <1>2, PlainKnown
<1>3. CASE Initialise(p)
  BY <1>3, InitialiseKnown
<1>4. CASE Resume(p)
  BY <1>4, ResumeKnown
<1>5. CASE WriteDelta(p)
  BY <1>5, WriteDeltaKnown
<1>6. CASE ExpireDeltas(p)
  BY <1>6, ExpireDeltasKnown
<1>7. CASE WriteUnf(p)
  BY <1>7, WriteUnfKnown
<1>8. CASE WriteSnapshot(p)
  BY <1>8, WriteSnapshotKnown
<1>9. CASE Relock(p)
  BY <1>9, RelockKnown
<1>10. CASE CommitDelta(p) \/ CommitSnapshot(p)
  BY <1>10, CommitsKnown
<1> QED
  BY <1>1, <1>2, <1>3, <1>4, <1>5, <1>6, <1>7, <1>8, <1>9, <1>10 DEF Run

\* A step of another process that makes no file and keeps what statuses say.
LEMMA OutsideKnown ==
    ASSUME TypeInv, LockInv, LossInv, ClientInv, TypeInv', UNCHANGED <<clientVars, runVars, diskVars>>,
           sessions' = sessions, overtaken' = overtaken, aged' \in {aged, created},
           \A st, C, U : RefsOK(st, World) /\ Informs(st, World, C, U) => Informs(st, World', C, U),
           IF status = None THEN status' \in {None, EmptyStatus} ELSE SameRow(status', status)
    PROVE  ClientInv'
<1>1. /\ pc' = pc /\ local' = local /\ initialising' = initialising /\ horizon' = horizon
      /\ unf' = unf /\ snapshotFiles' = snapshotFiles /\ deltaFiles' = deltaFiles
      /\ created' = created /\ UNCHANGED clientVars
  BY DEF runVars, diskVars
<1>2. Around' \subseteq Around /\ Offered' \subseteq Offered
  BY <1>1, AroundLess, OfferedMore
<1>3. ClientTypes' /\ aged' <= created'
  <2>1. sessions <= sessions' /\ created <= created'
    BY <1>1, TypeFacts
  <2> QED
    BY <1>1, <1>2, <2>1, ClientTypesKept DEF ClientInv, LossInv
<1> SUFFICES ASSUME ~overtaken
             PROVE  /\ status' # None =>
                          /\ Informs(status', World', Around', Offered')
                          /\ status'.session # 0 => Snapped(status')
                    /\ \A p \in Servers : HandsKnown(p)'
  BY <1>3 DEF ClientInv
<1>4. ASSUME status = None, status' # None
      PROVE  Informs(status', World', Around', Offered') /\ status'.session = 0
  BY <1>4, EmptyFields, InformsNothing DEF EmptyStatus
<1>5. ASSUME status # None
      PROVE  /\ Informs(status', World', Around', Offered')
             /\ status'.session # 0 => Snapped(status')
             /\ status'.session = status.session /\ status'.version = status.version
             /\ status'.deltas = status.deltas
  <2>1. Informs(status, World, Around, Offered) /\ RefsOK(status, World)
    BY <1>5 DEF ClientInv, LossInv, StateOK
  <2>2. Informs(status, World', Around', Offered')
    BY <1>2, <2>1, InformsFewer
  <2>3. /\ status'.session = status.session /\ status'.version = status.version
        /\ status'.deltas = status.deltas /\ status'.snapVersion = status.snapVersion
        /\ status'.snapSerial = status.snapSerial
    BY <1>5 DEF SameRow
  <2>4. status'.session # 0 => Snapped(status')
    BY <1>5, <2>3 DEF ClientInv, Snapped
  <2> QED
    BY <2>2, <2>3, <2>4, InformsSame
<1>6. ASSUME NEW p \in Servers PROVE HandsKnown(p)'
  <2>1. HandsKnown(p)
    BY DEF ClientInv
  <2>2. (Holds(p)' <=> Holds(p)) /\ (Lingers(p)' <=> Lingers(p))
    BY <1>1 DEF Holds, Lingers
  <2>3. Holds(p) => Informs(local[p], World', Around', Offered')
    <3>1. Holds(p) => Informs(local[p], World, Around, Offered) /\ RefsOK(local[p], World)
      BY <2>1 DEF HandsKnown, LossInv, HandsOK, StateOK
    <3> QED
      BY <1>2, <3>1, InformsFewer
  <2>4. CASE status = None
    <3>1. pc[p] \in {"idle", "start"}
      BY <2>4 DEF TypeInv
    <3>2. ~initialising[p] /\ ~Holds(p) /\ ~Lingers(p)
      BY <3>1 DEF LockInv, LockOK, Holds, Lingers
    <3> QED
      BY <1>1, <2>1, <2>2, <3>1, <3>2 DEF HandsKnown
  <2>5. CASE status # None
    <3>1. Grown(p) => Grown(p)'
      BY <1>1, <1>5, <2>5 DEF Grown
    <3> QED
      BY <1>1, <1>2, <1>5, <2>1, <2>2, <2>3, <2>5, <3>1 DEF HandsKnown
  <2> QED
    BY <2>4, <2>5
<1> QED
  BY <1>4, <1>5, <1>6

\* A transaction adds an entry to the journal.
LEMMA EntryKnown ==
    ASSUME TypeInv, LockInv, LossInv, ClientInv, TypeInv',
           UNCHANGED <<clientVars, diskVars, runVars, boundVars>>,
           NEW o \in Objects \union {None}, NEW t \in Texts \union {None},
           journal' = journal \union {[glob |-> sequence + 1, obj |-> o, text |-> t]},
           sequence' = sequence + 1, rows' \in [Objects -> Texts \union {None}],
           \A q \in Objects : IF o = q THEN rows'[q] = t ELSE rows'[q] = rows[q],
           status' = status \/ (status = None /\ status' = EmptyStatus)
    PROVE  ClientInv'
<1>1. /\ snapshotFiles' = snapshotFiles /\ deltaFiles' = deltaFiles /\ created' = created
      /\ overtaken' = overtaken /\ sessions' = sessions /\ aged' = aged
  BY DEF diskVars, boundVars
<1>2. WorldOK(World) /\ sequence \in Nat
  BY TypeFacts DEF LossInv
<1>3. JournalStep(World, World')
  BY <1>2, EntryStep
<1>4. \A st, C, U : RefsOK(st, World) /\ Informs(st, World, C, U) => Informs(st, World', C, U)
  BY <1>2, <1>3, InformsJournal
<1>5. IF status = None THEN status' \in {None, EmptyStatus} ELSE SameRow(status', status)
  BY TypeFacts DEF SameRow
<1> QED
  BY <1>1, <1>4, <1>5, OutsideKnown

\* A full import while runs are idle leaves a status that says nothing.
LEMMA ReloadKnown ==
    ASSUME TypeInv, LockInv, LossInv, ClientInv, TypeInv', UNCHANGED clientVars,
           NEW objects \in [Objects -> Texts \union {None}], Reload(objects)
    PROVE  ClientInv'
<1>1. /\ snapshotFiles' = snapshotFiles /\ deltaFiles' = deltaFiles /\ created' = created
      /\ UNCHANGED runVars /\ status' = EmptyStatus /\ unf' = unf
      /\ sessions' = sessions /\ aged' = aged
      /\ overtaken' = (overtaken \/ \E p \in Servers : pc[p] # "idle")
  BY DEF Reload, diskVars
<1>2. Around' \subseteq Around /\ Offered' \subseteq Offered
  BY <1>1, AroundLess, OfferedMore
<1>3. ClientTypes' /\ aged' <= created'
  <2>1. data' = data /\ clientStatus' = clientStatus /\ run' = run
    BY DEF clientVars
  <2>2. overtaken => overtaken'
    BY <1>1
  <2> QED
    BY <1>1, <1>2, <2>1, <2>2 DEF ClientTypes, ClientInv
<1>4. ASSUME ~overtaken' PROVE \A p \in Servers : HandsKnown(p)'
  <2> SUFFICES ASSUME NEW p \in Servers PROVE HandsKnown(p)'
    OBVIOUS
  <2>1. pc[p] = "idle" /\ ~overtaken
    BY <1>1, <1>4
  <2>2. /\ ~initialising[p] /\ pc' = pc /\ initialising' = initialising /\ horizon' = horizon
    BY <1>1, <2>1 DEF LockInv, LockOK, runVars
  <2>3. horizon'[p] <= created'
    BY <1>1, <2>1, <2>2 DEF ClientInv, HandsKnown
  <2> QED
    BY <2>1, <2>2, <2>3 DEF HandsKnown, Holds, Lingers
<1>5. Informs(status', World', Around', Offered') /\ status'.session = 0
  BY <1>1, EmptyFields, InformsNothing DEF EmptyStatus
<1> QED
  BY <1>3, <1>4, <1>5 DEF ClientInv

\* The other processes.
LEMMA EnvironmentKnown ==
    ASSUME TypeInv, LockInv, LossInv, ClientInv, TypeInv', UNCHANGED clientVars, Environment
    PROVE  ClientInv'
<1>1. ASSUME NEW o \in Objects, NEW t \in Texts \union {None}, Change(o, t) PROVE ClientInv'
  <2>1. /\ UNCHANGED <<diskVars, runVars, boundVars>> /\ sequence' = sequence + 1
        /\ journal' = journal \union {[glob |-> sequence + 1, obj |-> o, text |-> t]}
        /\ rows' = [rows EXCEPT ![o] = t]
        /\ status' = status \/ (status = None /\ status' = EmptyStatus)
    BY <1>1 DEF Change, StatusKept
  <2>2. /\ rows' \in [Objects -> Texts \union {None}]
        /\ \A q \in Objects : IF o = q THEN rows'[q] = t ELSE rows'[q] = rows[q]
    BY <2>1, TypeFacts
  <2>3. o \in Objects \union {None}
    OBVIOUS
  <2> QED
    BY <2>1, <2>2, <2>3, EntryKnown
<1>2. CASE ChangeElsewhere
  <2>1. /\ UNCHANGED <<diskVars, runVars, boundVars>> /\ sequence' = sequence + 1
        /\ journal' = journal \union {[glob |-> sequence + 1, obj |-> None, text |-> None]}
        /\ rows' = rows /\ status' = status
    BY <1>2 DEF ChangeElsewhere
  <2>2. /\ rows' \in [Objects -> Texts \union {None}]
        /\ \A q \in Objects : IF None = q THEN rows'[q] = None ELSE rows'[q] = rows[q]
    BY <2>1, TypeFacts, NoneAssumption
  <2>3. None \in Objects \union {None} /\ None \in Texts \union {None}
    OBVIOUS
  <2> QED
    BY <2>1, <2>2, <2>3, EntryKnown
<1>3. ASSUME NEW objects \in [Objects -> Texts \union {None}], Reload(objects) PROVE ClientInv'
  BY <1>3, ReloadKnown
<1>4. CASE SetForceReload \/ DayPasses
  <2>1. /\ UNCHANGED <<rows, journal, sequence, diskVars, runVars, overtaken, sessions>>
        /\ status' = status \/ (status # None /\ status' = [status EXCEPT !.force = TRUE])
        /\ aged' \in {aged, created}
    BY <1>4 DEF SetForceReload, DayPasses, databaseVars, boundVars
  <2>2. World' = World
    BY <2>1 DEF World, diskVars
  <2>3. IF status = None THEN status' \in {None, EmptyStatus} ELSE SameRow(status', status)
    <3>1. status # None => SameRow(AsForced(status, TRUE), status) /\ SameRow(status, status)
      BY TypeFacts, WithForce DEF SameRow
    <3> QED
      BY <2>1, <3>1 DEF AsForced
  <2> QED
    BY <2>1, <2>2, <2>3, OutsideKnown
<1> QED
  BY <1>1, <1>2, <1>3, <1>4 DEF Environment

\* What the invariant has to know of a copy that a step of the client makes.
Follows(c) ==
    \A st : /\ StateOK(st, World) /\ Informs(st, World, Around, Offered)
            /\ Whole(st, World) /\ c.session = st.session
            => Sound(c, st, World)

\* The session of a copy is that of another one, or of a notification file.
Heard(c) == \E k \in Around \union Offered : k.session = c.session

\* A step of the client.
LEMMA ClientStepKnown ==
    ASSUME TypeInv, LossInv, ClientInv, ClientTypes',
           UNCHANGED <<OnServer, unf, deltaFiles, snapshotFiles, aged, overtaken>>,
           \A c \in Around' : c \in Around \/ (Follows(c) /\ Heard(c)),
           Offered' \subseteq Offered
    PROVE  ClientInv'
<1>1. /\ pc' = pc /\ local' = local /\ initialising' = initialising /\ horizon' = horizon
      /\ status' = status /\ created' = created
  BY DEF OnServer, runVars, databaseVars
<1>2. World' = World
  BY DEF World, OnServer, databaseVars
<1>3. ASSUME NEW st, StateOK(st, World), Informs(st, World, Around, Offered)
      PROVE  Informs(st, World', Around', Offered')
  <2>1. \A c \in Around' : c \in Around \/ (Whole(st, World) /\ c.session = st.session => Sound(c, st, World))
    BY <1>3 DEF Follows
  <2> QED
    BY <1>2, <1>3, <2>1, InformsMore
<1>4. ASSUME ~overtaken, status # None PROVE Informs(status', World', Around', Offered')
  BY <1>1, <1>3, <1>4 DEF ClientInv, LossInv
<1>5. ASSUME ~overtaken, NEW p \in Servers PROVE HandsKnown(p)'
  <2>1. HandsKnown(p) /\ HandsOK(p)
    BY <1>5 DEF ClientInv, LossInv
  <2>2. (Holds(p)' <=> Holds(p)) /\ (Lingers(p)' <=> Lingers(p)) /\ (Grown(p)' <=> Grown(p))
    BY <1>1 DEF Holds, Lingers, Grown
  <2>3. Holds(p) => Informs(local[p], World', Around', Offered')
    BY <1>3, <2>1 DEF HandsKnown, HandsOK
  <2>4. ASSUME initialising[p], pc[p] \in {"decide", "snapshot"}
        PROVE  /\ \A c \in Around' : c.session < local[p].session
               /\ \A u \in Offered' : u.session < local[p].session
    <3>1. /\ \A c \in Around : c.session < local[p].session
          /\ \A u \in Offered : u.session < local[p].session
      BY <2>1, <2>4 DEF HandsKnown
    <3>2. \A c \in Around' : c \in Around \/ c.session < local[p].session
      BY <3>1 DEF Heard
    <3> QED
      BY <3>1, <3>2
  <2> QED
    BY <1>1, <2>1, <2>2, <2>3, <2>4 DEF HandsKnown
<1> QED
  BY <1>1, <1>4, <1>5 DEF ClientInv

\* The copy of a run, and of a client.
LEMMA RunCopyIs ==
    ASSUME NEW c \in RunCopies
    PROVE  /\ run # None /\ run.next # 0 /\ Client!HistoryKept(clientStatus, run.unf)
           /\ c.session = run.unf.session /\ c.version = run.next - 1
           /\ c.objects = run.data /\ c.refs = run.unf.deltas
           /\ run.unf \in Offered
  BY CopyFields DEF RunCopies, Offered

\* The client retrieves the notification file.
LEMMA RetrieveKnown ==
    ASSUME TypeInv, LossInv, ClientInv, Client!RetrieveUnf,
           UNCHANGED <<OnServer, sessions, aged, overtaken>>
    PROVE  ClientInv'
<1> DEFINE n == IF Client!NeedsSnapshot(clientStatus, unf) THEN 0 ELSE clientStatus.version + 1
<1>1. /\ run = None /\ unf # None /\ ~Client!Older(clientStatus, unf)
      /\ run' = [unf |-> unf, data |-> data, deferred |-> FALSE, next |-> n]
      /\ unf' = unf /\ deltaFiles' = deltaFiles /\ snapshotFiles' = snapshotFiles
      /\ data' = data /\ clientStatus' = clientStatus
  BY DEF Client!RetrieveUnf, Client!files
<1>2. run'.unf = unf /\ run'.data = data /\ run'.deferred = FALSE /\ run'.next = n
  BY <1>1
<1>3. /\ ClientTypes /\ WorldOK(World) /\ unf \in Offered
      /\ clientStatus.version \in Nat /\ clientStatus.session \in Nat
  BY <1>1 DEF ClientInv, LossInv, Offered, ClientTypes
<1>4. /\ unf \in OfferType /\ unf.session <= sessions /\ unf.version \in Nat
      /\ \A r \in unf.deltas : r.version <= unf.version /\ (overtaken \/ r.file <= created)
      /\ \A r \in unf.deltas : r.version \in Nat
  BY <1>3, AroundTyped DEF ClientTypes
<1>5. ASSUME n # 0
      PROVE  /\ n = clientStatus.version + 1 /\ clientStatus.version # 0
             /\ unf.session = clientStatus.session /\ clientStatus.version <= unf.version
  <2>1. ~Client!NeedsSnapshot(clientStatus, unf)
    BY <1>5
  <2>2. n = clientStatus.version + 1
    BY <2>1
  <2>3. /\ ~clientStatus.force /\ clientStatus.version # 0 /\ unf.session = clientStatus.session
    BY <2>1 DEF Client!NeedsSnapshot
  <2>4. ~(clientStatus.version > unf.version)
    BY <1>1, <2>3 DEF Client!Older
  <2> QED
    BY <1>3, <1>4, <2>2, <2>3, <2>4
<1>6. n \in Nat /\ (n # 0 => n > 1 /\ n <= unf.version + 1)
  <2>1. n \in Nat
    BY <1>3
  <2> HIDE DEF n
  <2> QED
    BY <1>3, <1>4, <1>5, <2>1
<1> HIDE DEF n
<1>7. Offered' \subseteq Offered
  BY <1>1, <1>2, <1>3 DEF Offered
<1>8. SnapshotCopies' = SnapshotCopies /\ ClientCopy' = ClientCopy
  BY <1>1 DEF SnapshotCopies, ClientCopy
<1>9. ASSUME NEW c \in RunCopies'
      PROVE  /\ n # 0 /\ Client!HistoryKept(clientStatus, unf)
             /\ c.session = unf.session /\ c.version = n - 1
             /\ c.objects = data /\ c.refs = unf.deltas
  <2>1. /\ run'.next # 0 /\ Client!HistoryKept(clientStatus', run'.unf)
        /\ c = Copy(run'.unf.session, run'.next - 1, run'.data, run'.unf.deltas)
    <3>1. c \in IF run' # None /\ run'.next # 0 /\ Client!HistoryKept(clientStatus', run'.unf)
                THEN {Copy(run'.unf.session, run'.next - 1, run'.data, run'.unf.deltas)}
                ELSE {}
      BY <1>9 DEF RunCopies, Client!HistoryKept
    <3> QED
      BY <3>1
  <2> QED
    BY <1>1, <1>2, <2>1, CopyFields
<1>10. ClientTypes'
  <2>1. \A c \in Around' : c.session <= sessions' /\ \A r \in c.refs : overtaken' \/ r.file <= created'
    <3>1. created' = created
      BY DEF OnServer
    <3>2. \A c \in Around' : c \in Around \/ c \in RunCopies'
      BY <1>8 DEF Around
    <3> QED
      BY <1>3, <1>4, <1>9, <3>1, <3>2 DEF ClientTypes
  <2>2. created' = created
    BY DEF OnServer
  <2> QED
    BY <1>1, <1>2, <1>3, <1>6, <1>7, <2>1, <2>2 DEF ClientTypes
<1>11. ASSUME NEW c \in RunCopies', NEW st, StateOK(st, World), Informs(st, World, Around, Offered),
              Whole(st, World), c.session = st.session
       PROVE  Sound(c, st, World)
  <2>1. /\ n = clientStatus.version + 1 /\ clientStatus.version # 0 /\ n # 0
        /\ unf.session = clientStatus.session /\ clientStatus.version <= unf.version
        /\ c.version = clientStatus.version /\ c.objects = data /\ c.refs = unf.deltas
        /\ Client!HistoryKept(clientStatus, unf)
    BY <1>3, <1>5, <1>9, <1>11
  <2>2. ClientCopy \in Around /\ ClientCopy.session = st.session
        /\ ClientCopy.version = clientStatus.version /\ ClientCopy.objects = data
        /\ ClientCopy.refs = DeltasOf(clientStatus.hashes)
    BY <1>9, <1>11, <2>1, CopyFields DEF Around, ClientCopy
  <2>3. Sound(ClientCopy, st, World)
    BY <1>11, <2>2 DEF Informs
  <2>4. Lists(unf)
    BY <1>3, <1>9, <1>11 DEF Informs
  <2>5. /\ st.version \in Nat /\ st.version # 0
        /\ \A q \in st.deltas : q.version \in Nat /\ q.version > 1
    BY <1>11, StatusFields DEF StateOK, RefsOK, Whole, Informs, DeltaRef
  <2>6. CASE clientStatus.version <= st.version
    <3> SUFFICES ASSUME Agrees(c, st) PROVE Reaches(data, clientStatus.version, st, World)
      BY <2>1, <2>6 DEF Sound
    <3>1. ASSUME NEW r \in ClientCopy.refs, NEW q \in st.deltas,
                 r.version = q.version, r.version <= clientStatus.version
          PROVE  r.file = q.file
      <4>1. q.version \in 2..unf.version
        BY <1>3, <1>4, <2>1, <2>5, <3>1
      <4>2. PICK k \in unf.deltas : k.version = q.version
        BY <2>4, <4>1, VersionsIs DEF Lists
      <4>3. k.file = q.file
        BY <2>1, <3>1, <4>2 DEF Agrees
      <4>4. PICK h \in clientStatus.hashes : h.kind = "delta" /\ h.version = r.version /\ h.file = r.file
        BY <2>2, DeltasOfHas
      <4>5. [kind |-> "delta", version |-> k.version, file |-> k.file] \in Client!References(unf)
        BY DEF Client!References
      <4>6. k.file = h.file
        BY <2>1, <3>1, <4>2, <4>4, <4>5 DEF Client!HistoryKept
      <4> QED
        BY <4>3, <4>4, <4>6
    <3>2. Agrees(ClientCopy, st)
      BY <2>2, <3>1 DEF Agrees
    <3> QED
      BY <2>2, <2>3, <2>6, <3>2 DEF Sound
  <2>7. CASE ~(clientStatus.version <= st.version)
    <3>1. clientStatus.version \in 2..unf.version
      BY <1>3, <1>4, <2>1, <2>5, <2>7
    <3>2. \E r \in unf.deltas : r.version = clientStatus.version
      BY <2>4, <3>1, VersionsIs DEF Lists
    <3> QED
      BY <2>1, <2>7, <3>2 DEF Sound
  <2> QED
    BY <2>6, <2>7
<1>12. \A c \in Around' : c \in Around \/ (Follows(c) /\ Heard(c))
  <2>1. \A c \in RunCopies' : Follows(c) /\ Heard(c)
    BY <1>3, <1>9, <1>11 DEF Follows, Heard
  <2> QED
    BY <1>8, <2>1 DEF Around
<1> QED
  BY <1>1, <1>7, <1>10, <1>12, ClientStepKnown

\* A run of the client that has loaded a file.
LoadedRun(objects, deferred, n) ==
    run' = [unf |-> run.unf, data |-> objects, deferred |-> deferred, next |-> n]

\* The client loads a file.
LEMMA LoadKnown ==
    ASSUME TypeInv, LossInv, ClientInv, run # None,
           NEW objects, NEW deferred \in BOOLEAN, NEW n \in Nat, n # 0,
           LoadedRun(objects, deferred, n), clientStatus' = clientStatus, data' = data,
           deferred => n = run.unf.snapshot.version + 1,
           ~deferred => n > 1 /\ n <= run.unf.version + 1,
           UNCHANGED <<OnServer, unf, deltaFiles, snapshotFiles, sessions, aged, overtaken>>,
           Client!HistoryKept(clientStatus, run.unf) =>
               Follows(Copy(run.unf.session, n - 1, objects, run.unf.deltas))
    PROVE  ClientInv'
<1> DEFINE k == Copy(run.unf.session, n - 1, objects, run.unf.deltas)
<1>1. /\ run'.unf = run.unf /\ run'.data = objects /\ run'.deferred = deferred /\ run'.next = n
      /\ run' = [unf |-> run'.unf, data |-> run'.data, deferred |-> run'.deferred, next |-> run'.next]
  BY DEF LoadedRun
<1>2. ClientTypes /\ run.unf \in Offered
  BY DEF ClientInv, Offered
<1>3. Offered' \subseteq Offered
  BY <1>1, <1>2 DEF Offered
<1>4. SnapshotCopies' = SnapshotCopies /\ ClientCopy' = ClientCopy
  BY DEF SnapshotCopies, ClientCopy
<1>5. ASSUME NEW c \in RunCopies' PROVE c = k /\ Client!HistoryKept(clientStatus, run.unf)
  <2>1. c \in IF run' # None /\ run'.next # 0 /\ Client!HistoryKept(clientStatus', run'.unf)
              THEN {Copy(run'.unf.session, run'.next - 1, run'.data, run'.unf.deltas)}
              ELSE {}
    BY <1>5 DEF RunCopies, Client!HistoryKept
  <2> QED
    BY <1>1, <2>1
<1>6. k.session = run.unf.session /\ k.refs = run.unf.deltas
  BY CopyFields
<1> HIDE DEF k
<1>7. \A c \in Around' : c \in Around \/ c = k
  BY <1>4, <1>5 DEF Around
<1>8. created' = created
  BY DEF OnServer
<1>9. ClientTypes'
  <2>1. \A c \in Around' : c.session <= sessions' /\ \A r \in c.refs : overtaken' \/ r.file <= created'
    BY <1>2, <1>6, <1>7, <1>8 DEF ClientTypes
  <2> QED
    BY <1>1, <1>2, <1>3, <1>8, <2>1 DEF ClientTypes
<1>10. \A c \in Around' : c \in Around \/ (Follows(c) /\ Heard(c))
  <2>1. \A c \in RunCopies' : Follows(c) /\ Heard(c)
    BY <1>2, <1>5, <1>6 DEF k, Heard
  <2> QED
    BY <1>4, <2>1 DEF Around
<1> QED
  BY <1>3, <1>9, <1>10, ClientStepKnown

\* The client loads the snapshot.
LEMMA LoadSnapshotKnown ==
    ASSUME TypeInv, LossInv, ClientInv, Client!LoadSnapshot,
           UNCHANGED <<OnServer, sessions, aged, overtaken>>
    PROVE  ClientInv'
<1>1. /\ run # None /\ run.next = 0 /\ data' = data /\ clientStatus' = clientStatus
      /\ unf' = unf /\ deltaFiles' = deltaFiles /\ snapshotFiles' = snapshotFiles
  BY DEF Client!LoadSnapshot, Client!files
<1>2. PICK s \in Client!Retrieved(snapshotFiles, run.unf.snapshot) :
         run' = [run EXCEPT !.data = s.objects, !.deferred = TRUE, !.next = s.version + 1]
  BY DEF Client!LoadSnapshot
<1>3. s \in snapshotFiles /\ s.session = run.unf.session /\ s.version = run.unf.snapshot.version
  BY DEF Client!Retrieved
<1>4. s.version \in Nat
  BY <1>3, WorldFields DEF LossInv, WorldOK, SnapshotFile
<1>5. LoadedRun(s.objects, TRUE, s.version + 1)
  <2>1. run = [unf |-> run.unf, data |-> run.data, deferred |-> run.deferred, next |-> run.next]
    BY <1>1 DEF ClientInv, ClientTypes
  <2>2. PICK m : m = s.version + 1
    OBVIOUS
  <2> QED
    BY <1>2, <2>1, <2>2 DEF LoadedRun
<1> DEFINE k == Copy(s.session, s.version, s.objects, {})
           c == Copy(run.unf.session, (s.version + 1) - 1, s.objects, run.unf.deltas)
<1>6. /\ k.session = s.session /\ k.version = s.version /\ k.objects = s.objects /\ k.refs = {}
      /\ c.session = s.session /\ c.version = s.version /\ c.objects = s.objects
  BY <1>3, <1>4, CopyFields
<1>7. k \in Around
  BY <1>3 DEF Around, SnapshotCopies
<1> HIDE DEF k, c
<1>8. Follows(c)
  <2> SUFFICES ASSUME NEW st, Informs(st, World, Around, Offered), Whole(st, World),
                      c.session = st.session
               PROVE  Sound(c, st, World)
    BY DEF Follows
  <2>1. Sound(k, st, World)
    BY <1>6, <1>7 DEF Informs
  <2>2. s.version <= st.version /\ Agrees(k, st)
    BY <1>6, <2>1 DEF Sound, Agrees
  <2>3. Reaches(s.objects, s.version, st, World)
    BY <1>6, <2>1, <2>2 DEF Sound
  <2> QED
    BY <1>6, <2>2, <2>3 DEF Sound
<1>9. s.version + 1 \in Nat /\ s.version + 1 # 0
  BY <1>4
<1> QED
  BY <1>1, <1>3, <1>5, <1>8, <1>9, LoadKnown DEF c

\* The client loads the next delta.
LEMMA LoadDeltaKnown ==
    ASSUME TypeInv, LossInv, ClientInv, Client!LoadDelta,
           UNCHANGED <<OnServer, sessions, aged, overtaken>>
    PROVE  ClientInv'
<1>1. /\ run # None /\ run.next # 0 /\ data' = data /\ clientStatus' = clientStatus
      /\ unf' = unf /\ deltaFiles' = deltaFiles /\ snapshotFiles' = snapshotFiles
  BY DEF Client!LoadDelta, Client!files
<1>2. PICK ref \in Client!Remaining :
         /\ Client!IsFirst(ref)
         /\ \E d \in Client!Retrieved(deltaFiles, ref) :
               run' = [run EXCEPT !.data = Client!Apply(@, d.entries), !.next = d.version + 1]
  BY DEF Client!LoadDelta
<1>3. PICK d \in Client!Retrieved(deltaFiles, ref) :
         run' = [run EXCEPT !.data = Client!Apply(@, d.entries), !.next = d.version + 1]
  BY <1>2
<1>4. d \in deltaFiles /\ d.file = ref.file /\ d.version = ref.version
  BY DEF Client!Retrieved
<1>5. /\ ~run.deferred /\ ref \in run.unf.deltas /\ ref.version >= run.next
      /\ \A r \in run.unf.deltas : r.version >= run.next => ref.version <= r.version
  BY <1>2 DEF Client!Remaining, Client!IsFirst
<1>6. /\ ClientTypes /\ WorldOK(World) /\ run.unf \in Offered
      /\ run = [unf |-> run.unf, data |-> run.data, deferred |-> run.deferred, next |-> run.next]
      /\ run.next \in Nat /\ run.next > 1
  BY <1>1, <1>5 DEF ClientInv, LossInv, Offered, ClientTypes
<1>7. /\ ref.version \in Nat /\ ref.version <= run.unf.version /\ run.unf.version \in Nat
      /\ \A r \in run.unf.deltas : r.version \in Nat
  BY <1>5, <1>6, AroundTyped DEF ClientTypes
<1> DEFINE objects == Apply(run.data, d.entries)
           c == Copy(run.unf.session, (ref.version + 1) - 1, objects, run.unf.deltas)
<1>8. LoadedRun(objects, FALSE, ref.version + 1)
  <2>1. Client!Apply(run.data, d.entries) = objects
    BY DEF Client!Apply, Client!About, Client!Latest, Apply, About, Latest
  <2>2. run' = [run EXCEPT !.data = objects, !.next = ref.version + 1]
    BY <1>3, <1>4, <2>1
  <2>3. run.deferred = FALSE
    BY <1>1, <1>5 DEF ClientInv, ClientTypes
  <2> HIDE DEF objects
  <2>4. PICK m : m = ref.version + 1
    OBVIOUS
  <2> QED
    BY <1>6, <2>2, <2>3, <2>4 DEF LoadedRun
<1>9. /\ c.session = run.unf.session /\ c.version = ref.version /\ c.objects = objects
      /\ c.refs = run.unf.deltas
  BY <1>7, CopyFields
<1> HIDE DEF c, objects
<1>10. ASSUME Client!HistoryKept(clientStatus, run.unf) PROVE Follows(c)
  <2> SUFFICES ASSUME NEW st, StateOK(st, World), Informs(st, World, Around, Offered),
                      Whole(st, World), c.session = st.session
               PROVE  Sound(c, st, World)
    BY DEF Follows
  <2> DEFINE k == Copy(run.unf.session, run.next - 1, run.data, run.unf.deltas)
             v == run.next - 1
  <2>1. k \in Around
    BY <1>1, <1>10 DEF Around, RunCopies
  <2>2. /\ k.session = run.unf.session /\ k.version = v /\ k.objects = run.data
        /\ k.refs = run.unf.deltas
    BY CopyFields
  <2> HIDE DEF k
  <2>3. Sound(k, st, World) /\ Lists(run.unf)
    BY <1>6, <1>9, <2>1, <2>2 DEF Informs
  <2>4. ref.version = run.next /\ v \in Nat /\ ref.version = v + 1
    <3>1. run.next \in 2..run.unf.version
      BY <1>5, <1>6, <1>7
    <3>2. PICK r \in run.unf.deltas : r.version = run.next
      BY <2>3, <3>1, VersionsIs DEF Lists
    <3>3. ref.version <= r.version
      BY <1>5, <1>6, <3>2
    <3> QED
      BY <1>5, <1>6, <1>7, <3>2, <3>3
  <2> HIDE DEF v
  <2>5. st.version \in Nat /\ RefsOK(st, World) /\ AllThere(st, World)
    BY StatusFields DEF StateOK, RefsOK, Whole
  <2>6. CASE ref.version <= st.version
    <3> SUFFICES ASSUME Agrees(c, st) PROVE Reaches(objects, ref.version, st, World)
      BY <1>9, <2>6 DEF Sound
    <3>1. ASSUME NEW r \in k.refs, NEW q \in st.deltas, r.version = q.version, r.version <= v
          PROVE  r.file = q.file
      <4>1. r \in c.refs /\ r.version \in Nat
        BY <1>7, <1>9, <2>2
      <4>2. r.version <= c.version
        BY <1>9, <2>4, <3>1, <4>1
      <4> QED
        BY <3>1, <4>1, <4>2 DEF Agrees
    <3>2. Agrees(k, st) /\ v <= st.version
      BY <1>7, <2>2, <2>4, <2>5, <2>6, <3>1 DEF Agrees
    <3>3. Reaches(run.data, v, st, World)
      BY <2>2, <2>3, <3>2 DEF Sound
    <3>4. PICK q \in st.deltas : q.version = ref.version
      <4>1. ref.version \in 2..st.version
        BY <1>6, <1>7, <2>4, <2>5, <2>6
      <4> QED
        BY <4>1, VersionsIs DEF Whole
    <3>5. ref.file = q.file
      <4>1. ref \in c.refs /\ ref.version <= c.version
        BY <1>5, <1>7, <1>9
      <4> QED
        BY <3>4, <4>1 DEF Agrees
    <3>6. d \in World.deltas /\ d.file = q.file /\ q.version = v + 1
      BY <1>4, <2>4, <3>4, <3>5, WorldFields
    <3>7. Reaches(Apply(run.data, d.entries), v + 1, st, World)
      BY <1>6, <2>4, <2>5, <3>3, <3>6, LoadReaches
    <3> QED
      BY <2>4, <3>7 DEF objects
  <2>7. CASE ~(ref.version <= st.version)
    <3>1. ref \in c.refs /\ ref.version = c.version
      BY <1>5, <1>9
    <3> QED
      BY <1>9, <2>7, <3>1 DEF Sound
  <2> QED
    BY <2>6, <2>7
<1>11. ref.version + 1 \in Nat /\ ref.version + 1 # 0 /\ ref.version + 1 > 1
       /\ ref.version + 1 <= run.unf.version + 1
  BY <1>5, <1>6, <1>7
<1>12. FALSE \in BOOLEAN
  OBVIOUS
<1> QED
  BY <1>1, <1>8, <1>10, <1>11, <1>12, LoadKnown DEF c

\* A client that keeps the references of a notification file keeps its deltas.
LEMMA ReferencesHold ==
    ASSUME NEW u \in OfferType
    PROVE  /\ DeltasOf(Client!References(u)) = u.deltas
           /\ \A h \in Client!References(u) :
                 /\ h = [kind |-> h.kind, version |-> h.version, file |-> h.file]
                 /\ h.version \in Nat /\ h.file \in Nat
<1>1. /\ u.deltas \subseteq Ref
      /\ u.snapshot.version \in Nat /\ u.snapshot.file \in Nat
  BY DEF OfferType
<1>2. \A r \in u.deltas : r = [version |-> r.version, file |-> r.file] /\ r.version \in Nat /\ r.file \in Nat
  BY <1>1 DEF Ref
<1>3. ASSUME NEW r \in u.deltas PROVE r \in DeltasOf(Client!References(u))
  <2> DEFINE h == [kind |-> "delta", version |-> r.version, file |-> r.file]
  <2>1. h \in Client!References(u)
    BY DEF Client!References
  <2>2. h.kind = "delta" /\ h.version = r.version /\ h.file = r.file
    OBVIOUS
  <2> HIDE DEF h
  <2>3. [version |-> h.version, file |-> h.file] \in DeltasOf(Client!References(u))
    BY <2>1, <2>2 DEF DeltasOf
  <2> QED
    BY <1>2, <2>2, <2>3
<1>4. ASSUME NEW r \in DeltasOf(Client!References(u)) PROVE r \in u.deltas
  <2>1. PICK h \in Client!References(u) : h.kind = "delta" /\ r = [version |-> h.version, file |-> h.file]
    BY DEF DeltasOf
  <2>2. PICK q \in u.deltas : h = [kind |-> "delta", version |-> q.version, file |-> q.file]
    <3>1. h # [kind |-> "snapshot", version |-> u.snapshot.version, file |-> u.snapshot.file]
      BY <2>1
    <3> QED
      BY <2>1, <3>1 DEF Client!References
  <2>3. h.version = q.version /\ h.file = q.file
    BY <2>2
  <2> QED
    BY <1>2, <2>1, <2>3
<1>5. ASSUME NEW h \in Client!References(u)
      PROVE  /\ h = [kind |-> h.kind, version |-> h.version, file |-> h.file]
             /\ h.version \in Nat /\ h.file \in Nat
  BY <1>1, <1>2 DEF Client!References
<1> QED
  BY <1>3, <1>4, <1>5

\* The client commits.
LEMMA FinishKnown ==
    ASSUME TypeInv, LossInv, ClientInv, Client!Finish,
           UNCHANGED <<OnServer, sessions, aged, overtaken>>
    PROVE  ClientInv'
<1> DEFINE u == run.unf
           refs == Client!References(u)
           n == Client!NewVersion
           k == Copy(u.session, run.next - 1, run.data, u.deltas)
<1>1. /\ run # None /\ run.next # 0 /\ Client!Remaining = {} /\ Client!HistoryKept(clientStatus, u)
      /\ data' = run.data /\ run' = None
      /\ clientStatus' = [force |-> FALSE, session |-> u.session, version |-> n, hashes |-> refs]
      /\ unf' = unf /\ deltaFiles' = deltaFiles /\ snapshotFiles' = snapshotFiles
  BY DEF Client!Finish, Client!files
<1>2. /\ ClientTypes /\ WorldOK(World) /\ u \in Offered /\ u \in OfferType
      /\ run.next \in Nat /\ run.deferred \in BOOLEAN
      /\ run.deferred => run.next = u.snapshot.version + 1
      /\ ~run.deferred => run.next > 1 /\ run.next <= u.version + 1
  BY <1>1 DEF ClientInv, LossInv, Offered, ClientTypes
<1>3. /\ u.version \in Nat /\ u.snapshot.version \in Nat /\ u.session \in Nat
      /\ u.session <= sessions
      /\ \A r \in u.deltas : r.version \in Nat /\ (overtaken \/ r.file <= created)
  BY <1>2, AroundTyped DEF ClientTypes
<1>4. k \in Around
  BY <1>1 DEF Around, RunCopies
<1>5. /\ k.session = u.session /\ k.version = run.next - 1 /\ k.objects = run.data
      /\ k.refs = u.deltas
  BY CopyFields
<1>6. n = IF run.deferred THEN u.snapshot.version ELSE u.version
  BY DEF Client!NewVersion
<1>7. n \in Nat
  BY <1>3, <1>6
<1>8. ~run.deferred => \A r \in u.deltas : ~(r.version >= run.next)
  BY <1>1 DEF Client!Remaining
<1>9. DeltasOf(refs) = u.deltas
  BY <1>2, ReferencesHold
<1>10. \A h \in refs : /\ h = [kind |-> h.kind, version |-> h.version, file |-> h.file]
                       /\ h.version \in Nat /\ h.file \in Nat
  BY <1>2, ReferencesHold
<1> HIDE DEF u, refs, n, k
<1>11. /\ clientStatus' = [force |-> clientStatus'.force, session |-> clientStatus'.session,
                           version |-> clientStatus'.version, hashes |-> clientStatus'.hashes]
       /\ clientStatus'.session = u.session /\ clientStatus'.version = n
       /\ clientStatus'.hashes = refs
  BY <1>1
<1>12. /\ ClientCopy'.session = u.session /\ ClientCopy'.version = n
       /\ ClientCopy'.objects = run.data /\ ClientCopy'.refs = u.deltas
  <2>1. ClientCopy' = Copy(u.session, n, run.data, u.deltas)
    BY <1>1, <1>9, <1>11 DEF ClientCopy
  <2> QED
    BY <2>1, CopyFields
<1>13. SnapshotCopies' = SnapshotCopies /\ Offered' \subseteq Offered /\ RunCopies' = {}
  BY <1>1 DEF SnapshotCopies, Offered, RunCopies
<1>14. \A c \in Around' : c \in Around \/ c = ClientCopy'
  BY <1>13 DEF Around
<1>15. created' = created
  BY DEF OnServer
<1>16. ClientTypes'
  <2>1. \A c \in Around' : c.session <= sessions' /\ \A r \in c.refs : overtaken' \/ r.file <= created'
    BY <1>2, <1>3, <1>12, <1>14, <1>15 DEF ClientTypes
  <2> QED
    BY <1>1, <1>2, <1>3, <1>7, <1>10, <1>11, <1>13, <1>15, <2>1 DEF ClientTypes
<1>17. Follows(ClientCopy')
  <2> SUFFICES ASSUME NEW st, Informs(st, World, Around, Offered), Whole(st, World),
                      ClientCopy'.session = st.session
               PROVE  Sound(ClientCopy', st, World)
    BY DEF Follows
  <2>1. Sound(k, st, World) /\ Lists(u)
    BY <1>2, <1>4, <1>5, <1>12 DEF Informs
  <2>2. n = run.next - 1
    <3>1. CASE run.deferred
      BY <1>2, <1>3, <1>6, <3>1
    <3>2. CASE ~run.deferred
      <4>1. ~(run.next <= u.version)
        <5>1. SUFFICES ASSUME run.next <= u.version PROVE FALSE
          OBVIOUS
        <5>2. run.next \in 2..u.version
          BY <1>2, <1>3, <3>2, <5>1
        <5>3. \E r \in u.deltas : r.version = run.next
          BY <2>1, <5>2, VersionsIs DEF Lists
        <5> QED
          BY <1>2, <1>8, <3>2, <5>3
      <4> QED
        BY <1>2, <1>3, <1>6, <3>2, <4>1
    <3> QED
      BY <3>1, <3>2
  <2> QED
    BY <1>5, <1>12, <2>1, <2>2 DEF Sound, Agrees
<1>18. Heard(ClientCopy')
  BY <1>2, <1>12 DEF Heard
<1> QED
  BY <1>1, <1>13, <1>14, <1>16, <1>17, <1>18, ClientStepKnown

\* A run of the client ends and leaves the database as it was, or the client is made
\* to reload.
LEMMA ClientEndsKnown ==
    ASSUME TypeInv, LossInv, ClientInv, Client!Refuse \/ Client!Abort \/ Client!ForceReload,
           UNCHANGED <<OnServer, sessions, aged, overtaken>>
    PROVE  ClientInv'
<1>1. /\ unf' = unf /\ deltaFiles' = deltaFiles /\ snapshotFiles' = snapshotFiles
      /\ data' = data /\ (run' = None \/ run' = run)
      /\ clientStatus' = clientStatus \/ clientStatus' = [clientStatus EXCEPT !.force = TRUE]
  BY DEF Client!Refuse, Client!Abort, Client!ForceReload, Client!files
<1>2. /\ ClientTypes
      /\ clientStatus = [force |-> clientStatus.force, session |-> clientStatus.session,
                         version |-> clientStatus.version, hashes |-> clientStatus.hashes]
  BY DEF ClientInv, ClientTypes
<1>3. /\ clientStatus' = [force |-> clientStatus'.force, session |-> clientStatus'.session,
                          version |-> clientStatus'.version, hashes |-> clientStatus'.hashes]
      /\ clientStatus'.session = clientStatus.session
      /\ clientStatus'.version = clientStatus.version
      /\ clientStatus'.hashes = clientStatus.hashes
  BY <1>1, <1>2
<1>4. SnapshotCopies' = SnapshotCopies /\ ClientCopy' = ClientCopy /\ Offered' \subseteq Offered
  BY <1>1, <1>3 DEF SnapshotCopies, ClientCopy, Offered
<1>5. RunCopies' \subseteq RunCopies
  <2>1. RunCopies' =
          IF run' # None /\ run'.next # 0 /\ Client!HistoryKept(clientStatus', run'.unf)
          THEN {Copy(run'.unf.session, run'.next - 1, run'.data, run'.unf.deltas)}
          ELSE {}
    BY DEF RunCopies, Client!HistoryKept
  <2>2. CASE run' = None
    BY <2>1, <2>2
  <2>3. CASE run' = run
    BY <1>3, <2>1, <2>3 DEF RunCopies, Client!HistoryKept
  <2> QED
    BY <1>1, <2>2, <2>3
<1>6. Around' \subseteq Around
  BY <1>4, <1>5 DEF Around
<1>7. created' = created
  BY DEF OnServer
<1>8. ClientTypes'
  BY <1>1, <1>2, <1>3, <1>4, <1>6, <1>7 DEF ClientTypes
<1> QED
  BY <1>1, <1>4, <1>6, <1>8, ClientStepKnown

\* The client takes any step, or none.
LEMMA ClientKnown ==
    ASSUME TypeInv, LossInv, ClientInv,
           UNCHANGED <<scenario, mirrorVars>> \/ ClientStep \/ ClientForceReload \/ ClientAbort
    PROVE  ClientInv'
<1>1. UNCHANGED <<OnServer, sessions, aged, overtaken>>
  BY DEF mirrorVars, serverVars, diskVars, boundVars, OnServer, ClientStep, ClientForceReload,
     ClientAbort
<1>2. CASE UNCHANGED <<scenario, mirrorVars>>
  <2>1. UNCHANGED clientVars /\ unf' = unf /\ deltaFiles' = deltaFiles
        /\ snapshotFiles' = snapshotFiles
    BY <1>2 DEF mirrorVars, serverVars, diskVars
  <2>2. data' = data /\ clientStatus' = clientStatus /\ run' = run /\ created' = created
    BY <1>1, <2>1 DEF clientVars, OnServer
  <2>3. Around' \subseteq Around /\ Offered' = Offered
    BY <2>1, AroundLess, OfferedMore
  <2>4. ClientTypes'
    BY <1>1, <2>2, <2>3 DEF ClientInv, ClientTypes
  <2> QED
    BY <1>1, <2>1, <2>3, <2>4, ClientStepKnown
<1>3. CASE ClientStep
  BY <1>1, <1>3, RetrieveKnown, LoadSnapshotKnown, LoadDeltaKnown, FinishKnown, ClientEndsKnown
     DEF ClientStep, Client!ClientRun
<1>4. CASE ClientForceReload \/ ClientAbort
  BY <1>1, <1>4, ClientEndsKnown DEF ClientForceReload, ClientAbort
<1> QED
  BY <1>2, <1>3, <1>4

\* Every step keeps the invariant.
LEMMA KnownNext ==
    TypeInv /\ ShapeInv /\ LockInv /\ LossInv /\ ClientInv
        /\ [MirrorNext]_<<scenario, mirrorVars>> => ClientInv'
<1> SUFFICES ASSUME TypeInv, ShapeInv, LockInv, LossInv, ClientInv,
                    [MirrorNext]_<<scenario, mirrorVars>>
             PROVE  ClientInv'
  OBVIOUS
<1>1. TypeInv'
  BY TypesNext DEF ShapeInv
<1>2. CASE UNCHANGED <<scenario, mirrorVars>> \/ ClientStep \/ ClientForceReload \/ ClientAbort
  BY <1>2, ClientKnown
<1>3. CASE Environment /\ UNCHANGED clientVars
  BY <1>1, <1>3, EnvironmentKnown
<1>4. ASSUME NEW p \in Setup[scenario].servers, Run(p) \/ Crash(p), UNCHANGED clientVars
      PROVE  ClientInv'
  <2>1. p \in Servers
    BY SetupAssumption DEF ShapeInv
  <2> QED
    BY <1>1, <1>4, <2>1, RunKnown
<1> QED
  BY <1>2, <1>3, <1>4 DEF MirrorNext, ServerStep, Next

\* The first state has neither copies nor notification files.
LEMMA KnownInit == MirrorInit => ClientInv
<1> SUFFICES ASSUME MirrorInit PROVE ClientInv
  OBVIOUS
<1>1. /\ status = None /\ unf = None /\ snapshotFiles = {} /\ created = 0 /\ sessions = 0
      /\ aged = 0
      /\ \A p \in Servers : pc[p] = "idle" /\ horizon[p] = 0 /\ initialising[p] = FALSE
      /\ run = None
      /\ clientStatus = [force |-> FALSE, session |-> 0, version |-> 0, hashes |-> {}]
  BY DEF MirrorInit, Init, Client!ClientInit
<1>2. clientStatus.session = 0 /\ clientStatus.version = 0 /\ clientStatus.hashes = {}
      /\ clientStatus.force = FALSE
  BY <1>1
<1>3. Offered = {}
  BY <1>1 DEF Offered
<1>4. Around = {ClientCopy}
  BY <1>1 DEF Around, SnapshotCopies, RunCopies
<1>5. ClientCopy.session = 0 /\ ClientCopy.refs = {}
  BY <1>2, CopyFields DEF ClientCopy, DeltasOf
<1>6. ClientTypes
  BY <1>1, <1>2, <1>3, <1>4, <1>5 DEF ClientTypes
<1>7. \A p \in Servers : HandsKnown(p)
  BY <1>1 DEF HandsKnown, Holds, Lingers
<1> QED
  BY <1>1, <1>6, <1>7 DEF ClientInv

\* A client misses nothing of a session of which no delta has expired, whatever
\* crashes, overlapping runs, outages and runs of the client that end early there have
\* been, as long as no reload has overtaken a run of the server: from the version
\* that it has recorded, the deltas of the server and what the next one will hold lead
\* to the objects of the server (nrtm4_client.py 75-114, 220-286).
THEOREM ClientIsInStep ==
    MirrorSpec => [](~overtaken /\ (status # None => NoneExpired) => ClientMissesNothing)
<1>1. MirrorInit => TypeInv /\ ShapeInv /\ LockInv /\ LossInv /\ ClientInv
  BY ServerInit, TypesInit, LossInit, KnownInit DEF MirrorInit
<1>2. TypeInv /\ ShapeInv /\ LockInv /\ LossInv /\ ClientInv
         /\ [MirrorNext]_<<scenario, mirrorVars>> =>
         TypeInv' /\ ShapeInv' /\ LockInv' /\ LossInv' /\ ClientInv'
  BY ServerNext, TypesNext, LossNext, KnownNext DEF ShapeInv
<1>3. TypeInv /\ LossInv /\ ClientInv =>
         (~overtaken /\ (status # None => NoneExpired) => ClientMissesNothing)
  BY ClientLeads
<1> QED
  BY <1>1, <1>2, <1>3, PTL DEF MirrorSpec

-----------------------------------------------------------------------------
(* The rotation of signing keys *)

LEMMA KeysTypeInit == KeysInit => KeysTypeOK
<1> SUFFICES ASSUME KeysInit PROVE KeysTypeOK
  OBVIOUS
<1>1. PICK k \in Keys : settings = [key |-> k, next |-> NoKey] /\ signedUnf = settings /\ initial = k
  BY DEF KeysInit
<1>2. settings \in Signature
  BY <1>1 DEF Signature
<1>3. missed \in BOOLEAN
  BY Zenon DEF KeysInit
<1>4. changes \in 0..MaxChanges
  BY KeysAssumption DEF KeysInit
<1> QED
  BY <1>1, <1>2, <1>3, <1>4 DEF KeysInit, KeysTypeOK, NoKeys

LEMMA KeysTypeNext == KeysTypeOK /\ [KeysNext]_keyVars => KeysTypeOK'
<1> SUFFICES ASSUME KeysTypeOK, [KeysNext]_keyVars PROVE KeysTypeOK'
  OBVIOUS
<1> USE KeysAssumption DEF KeysTypeOK, Signature, Unsigned
<1>1. CASE Serve
  BY <1>1 DEF Serve, ReadNextKey, Sign, WriteSignedUnf, clientKeyVars
<1>2. CASE KeyRun
  BY <1>2 DEF KeyRun, RetrieveSignedUnf, StoreKeys, NewKeys, serverKeyVars
<1>3. CASE AbortKeyRun
  BY <1>3 DEF AbortKeyRun, ChangeSomething, serverKeyVars
<1>4. CASE ClientClearKnownKeys
  BY <1>4 DEF ClientClearKnownKeys, ChangeSomething, serverKeyVars, NoKeys
<1>5. CASE Announce
  BY <1>5 DEF Announce, ChangeSomething, clientKeyVars
<1>6. CASE Rotate
  BY <1>6 DEF Rotate, ChangeSomething, clientKeyVars
<1>7. CASE UNCHANGED keyVars
  BY <1>7 DEF keyVars
<1> QED
  BY <1>1, <1>2, <1>3, <1>4, <1>5, <1>6, <1>7 DEF KeysNext

LEMMA RotationInit == KeysInit => RotationInv
<1> SUFFICES ASSUME KeysInit PROVE RotationInv
  OBVIOUS
<1>1. KeysTypeOK
  BY KeysTypeInit
<1>2. signedUnf = settings /\ signedUnf # NoKey /\ initial = settings.key
  BY <1>1, KeysAssumption DEF KeysInit, KeysTypeOK
<1> QED
  BY <1>1, <1>2
  DEF RotationInv, KeysInit, SignedInv, InitialInv, KnownInv, RunInv, FileInv, NoKeys

LEMMA RotationNext == RotationInv /\ [KeysNext]_keyVars => RotationInv'
<1> SUFFICES ASSUME RotationInv, [KeysNext]_keyVars PROVE RotationInv'
  OBVIOUS
<1>1. KeysTypeOK /\ KeysTypeOK'
  BY KeysTypeNext DEF RotationInv
<1> USE KeysAssumption DEF SignedInv, InitialInv, KnownInv, RunInv, FileInv, Accepts
<1>2. CASE Serve
  <2>1. CASE ReadNextKey
    BY <1>1, <2>1 DEF RotationInv, ReadNextKey, clientKeyVars, KeysTypeOK, Signature, Unsigned
  <2>2. CASE Sign
    BY <1>1, <2>2 DEF RotationInv, Sign, clientKeyVars, KeysTypeOK, Signature, Unsigned
  <2>3. CASE WriteSignedUnf
    BY <1>1, <2>3 DEF RotationInv, WriteSignedUnf, clientKeyVars, KeysTypeOK, Signature, Unsigned
  <2> QED
    BY <1>2, <2>1, <2>2, <2>3 DEF Serve
<1>3. CASE RetrieveSignedUnf
  BY <1>1, <1>3 DEF RotationInv, RetrieveSignedUnf, ExpectedKeys, serverKeyVars, KeysTypeOK, Signature, Unsigned
<1>4. CASE StoreKeys
  BY <1>1, <1>4 DEF RotationInv, StoreKeys, NewKeys, serverKeyVars, KeysTypeOK, Signature, Unsigned
<1>5. CASE AbortKeyRun
  BY <1>1, <1>5 DEF RotationInv, AbortKeyRun, serverKeyVars, KeysTypeOK, Signature, Unsigned
<1>6. CASE ClientClearKnownKeys
  BY <1>1, <1>6 DEF RotationInv, ClientClearKnownKeys, NoKeys, serverKeyVars, KeysTypeOK, Signature, Unsigned
<1>7. CASE Announce
  BY <1>1, <1>7 DEF RotationInv, Announce, clientKeyVars, KeysTypeOK, Signature, Unsigned
<1>8. CASE Rotate
  BY <1>1, <1>8 DEF RotationInv, Rotate, Stored, clientKeyVars, KeysTypeOK, Signature, Unsigned
<1>9. CASE UNCHANGED keyVars
  BY <1>1, <1>9 DEF RotationInv, keyVars
<1> QED
  BY <1>2, <1>3, <1>4, <1>5, <1>6, <1>7, <1>8, <1>9 DEF KeysNext, KeyRun

\* A client survives every rotation in which each new key was announced until the
\* client had stored it: it expects the key the server signs with, for any keys and
\* any interleaving of server runs, client runs and changes of settings
\* (_write_unf, _deserialize_unf).
THEOREM RotationSafe == KeysSpec => []RotationKeepsClients
<1>1. RotationInv => RotationKeepsClients
  BY KeysAssumption
  DEF RotationInv, KnownInv, RotationKeepsClients, ExpectedKeys, KeysTypeOK, Signature, Unsigned
<1> QED
  BY <1>1, RotationInit, RotationNext, PTL DEF KeysSpec

LEMMA RetiredInit == KeysInit => RetiredInv
  BY KeysTypeInit DEF RetiredInv, KeysInit, NoKeys

LEMMA RetiredNext == RetiredInv /\ [KeysNext]_keyVars => RetiredInv'
<1> SUFFICES ASSUME RetiredInv, [KeysNext]_keyVars PROVE RetiredInv'
  OBVIOUS
<1>1. KeysTypeOK /\ KeysTypeOK'
  BY KeysTypeNext DEF RetiredInv
<1> USE KeysAssumption DEF RetiredInv
<1>2. CASE Serve
  BY <1>1, <1>2 DEF Serve, ReadNextKey, Sign, WriteSignedUnf, clientKeyVars
<1>3. CASE RetrieveSignedUnf
  BY <1>1, <1>3 DEF RetrieveSignedUnf
<1>4. CASE StoreKeys
  BY <1>1, <1>4 DEF StoreKeys, NewKeys, KeysTypeOK, Signature, Unsigned
<1>5. CASE AbortKeyRun
  BY <1>1, <1>5 DEF AbortKeyRun
<1>6. CASE ClientClearKnownKeys
  BY <1>1, <1>6 DEF ClientClearKnownKeys, NoKeys
<1>7. CASE Announce \/ Rotate
  BY <1>1, <1>7 DEF Announce, Rotate, clientKeyVars
<1>8. CASE UNCHANGED keyVars
  BY <1>1, <1>8 DEF keyVars
<1> QED
  BY <1>2, <1>3, <1>4, <1>5, <1>6, <1>7, <1>8 DEF KeysNext, KeyRun

\* A client never again accepts a key that it has seen replaced, also if it is the key
\* in its settings, until the key is announced anew or the stored keys are cleared
\* (_deserialize_unf).
THEOREM RetiredRefused == KeysSpec => RetiredKeysRefused
<1>1. RetiredInv /\ [KeysNext]_keyVars => [RetrieveSignedUnf => signedUnf.key \notin retired]_keyVars
  BY DEF RetiredInv, RetrieveSignedUnf, ExpectedKeys
<1> QED
  BY <1>1, RetiredInit, RetiredNext, PTL DEF KeysSpec, RetiredKeysRefused
=============================================================================
