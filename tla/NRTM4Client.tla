---------------------------- MODULE NRTM4Client ----------------------------
(***************************************************************************)
(* irrd.mirroring.nrtm4.nrtm4_client: the runs of the NRTMv4 client for    *)
(* one source. A run retrieves the update notification file (UNF) and then *)
(* the files it needs, one by one, and changes the database in one         *)
(* transaction. There is one run at a time: the scheduler does not start a *)
(* second one. Signatures and keys are in NRTM4Keys.                       *)
(***************************************************************************)
EXTENDS Integers

CONSTANTS
    Objects,     \* objects of the source
    Texts,       \* texts of objects
    None         \* absent object or file, no run

VARIABLES
    \* what the server publishes
    unf,
    deltaFiles,
    snapshotFiles,
    \* the database of the client
    data,          \* objects of the source
    clientStatus,  \* NRTMv4 client fields of the status row of the source
    \* the run, with its transaction
    run

files == <<unf, deltaFiles, snapshotFiles>>
clientVars == <<data, clientStatus, run>>

\* Objects after some operations, in the order of the file.
About(E, o) == {e \in E : e.obj = o}
Latest(E) == CHOOSE e \in E : \A f \in E : f.glob <= e.glob
Apply(objects, E) ==
    [o \in Objects |-> IF About(E, o) = {} THEN objects[o] ELSE Latest(About(E, o)).text]

\* No session, version or file hashes.
ClientInit ==
    /\ data = [o \in Objects |-> None]
    /\ clientStatus = [force |-> FALSE, session |-> 0, version |-> 0, hashes |-> {}]
    /\ run = None

\* irrd_mirror_force_reload.
ForceReload ==
    /\ clientStatus.session # 0
    /\ ~clientStatus.force
    /\ clientStatus' = [clientStatus EXCEPT !.force = TRUE]
    /\ UNCHANGED <<files, data, run>>

-----------------------------------------------------------------------------
(* _find_next_version() *)

\* It returns None: the snapshot must be loaded.
NeedsSnapshot(st, u) ==
    \/ st.force
    \/ st.session = 0 \/ st.version = 0
    \/ u.session # st.session
    \/ u.deltas # {} /\ \A ref \in u.deltas : ref.version > st.version + 1

\* It raises an error: the server is at an older version of the same session.
Older(st, u) ==
    /\ ~st.force /\ st.session = u.session
    /\ st.version > u.version

-----------------------------------------------------------------------------
(* _run_client() *)

\* __init__(), _retrieve_unf() and _find_next_version(): next is 0 for a run that
\* loads the snapshot.
RetrieveUnf ==
    /\ run = None
    /\ unf # None
    /\ ~Older(clientStatus, unf)
    /\ run' = [unf |-> unf, data |-> data, deferred |-> FALSE,
               next |-> IF NeedsSnapshot(clientStatus, unf) THEN 0 ELSE clientStatus.version + 1]
    /\ UNCHANGED <<files, data, clientStatus>>

\* retrieve_file() and the validation of the header of the file.
Retrieved(F, ref) ==
    {f \in F : f.file = ref.file /\ f.session = run.unf.session /\ f.version = ref.version}

\* _load_snapshot(): the deltas are deferred to the next run.
LoadSnapshot ==
    /\ run # None
    /\ run.next = 0
    /\ \E s \in Retrieved(snapshotFiles, run.unf.snapshot) :
          run' = [run EXCEPT !.data = s.objects, !.deferred = TRUE, !.next = s.version + 1]
    /\ UNCHANGED <<files, data, clientStatus>>

\* The deltas this run has yet to load.
Remaining ==
    IF run.deferred THEN {} ELSE {ref \in run.unf.deltas : ref.version >= run.next}

\* _load_deltas() takes them in the order of the list.
IsFirst(ref) == ref \in Remaining /\ \A r \in Remaining : ref.version <= r.version

LoadDelta ==
    /\ run # None
    /\ run.next # 0
    /\ \E ref \in Remaining :
          /\ IsFirst(ref)
          /\ \E d \in Retrieved(deltaFiles, ref) :
                run' = [run EXCEPT !.data = Apply(@, d.entries), !.next = d.version + 1]
    /\ UNCHANGED <<files, data, clientStatus>>

\* The files a UNF refers to, as previous_file_hashes holds them.
References(u) ==
    {[kind |-> "snapshot", version |-> u.snapshot.version, file |-> u.snapshot.file]}
    \union {[kind |-> "delta", version |-> ref.version, file |-> ref.file] : ref \in u.deltas}

\* _validate_aggregate_previous_file_hashes_from_unf(): no reference has changed.
HistoryKept(st, u) ==
    \A now \in References(u), before \in st.hashes :
        now.kind = before.kind /\ now.version = before.version => now.file = before.file

\* Mutant: the version of the UNF although the deltas have been deferred.
AlwaysUnfVersion == run.unf.version

NewVersion == IF run.deferred THEN run.unf.snapshot.version ELSE run.unf.version

\* The run has loaded everything. The status and the objects are committed.
Finish ==
    /\ run # None
    /\ run.next # 0
    /\ Remaining = {}
    /\ HistoryKept(clientStatus, run.unf)
    /\ data' = run.data
    /\ clientStatus' = [force |-> FALSE, session |-> run.unf.session, version |-> NewVersion,
                        hashes |-> References(run.unf)]
    /\ run' = None
    /\ UNCHANGED files

\* An error, after which the transaction is rolled back: a file that is no longer
\* there, or a reference that has changed.
Refuse ==
    /\ run # None
    /\ \/ run.next = 0 /\ Retrieved(snapshotFiles, run.unf.snapshot) = {}
       \/ /\ run.next # 0
          /\ \E ref \in Remaining : IsFirst(ref) /\ Retrieved(deltaFiles, ref) = {}
       \/ /\ run.next # 0
          /\ Remaining = {}
          /\ ~HistoryKept(clientStatus, run.unf)
    /\ run' = None
    /\ UNCHANGED <<files, data, clientStatus>>

\* The run ends early: the connection to the server or to the database is lost.
Abort ==
    /\ run # None
    /\ run' = None
    /\ UNCHANGED <<files, data, clientStatus>>

ClientRun == RetrieveUnf \/ LoadSnapshot \/ LoadDelta \/ Finish \/ Refuse
=============================================================================
