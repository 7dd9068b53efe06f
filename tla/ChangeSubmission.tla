-------------------------- MODULE ChangeSubmission --------------------------
(***************************************************************************)
(* Authoritative changes: irrd.updates.handler.ChangeSubmissionHandler     *)
(* with its requests (parser.py), validators (validators.py) and the       *)
(* suspension of maintainers (suspension.py), for one source.              *)
(*                                                                         *)
(* A submission is a list of requests with credentials. The handler reads  *)
(* the current version of every object, validates all requests again and   *)
(* again until no more of them fail, saves the valid ones in order and     *)
(* commits, all in one transaction at READ COMMITTED. Other submissions    *)
(* run at the same time in other processes.                                *)
(*                                                                         *)
(* An object is what the checks see of it: the maintainers in mnt-by, the  *)
(* other objects it refers to strongly and, for a mntner, the credential   *)
(* its auth attributes accept.                                             *)
(***************************************************************************)
EXTENDS Integers, FiniteSets, Sequences, SequencesExt

CONSTANTS
    Handlers,        \* processes that handle submissions
    Keys,            \* the (object class, primary key) pairs of the source
    Mntners,         \* those of class mntner
    ProtectedNames,  \* those of PROTECTED_NAME_OBJECT_CLASSES
    Credentials,     \* passwords and PGP keys
    Related,         \* per key, the objects whose maintainers must agree to
                     \* its creation if they exist; the first one counts
    RequireRelated,  \* sets with autnum_authentication "required"
    Forbidden,       \* <<type, key>> refused by route blocklist, ROAs or scope
    Initial,         \* the objects loaded at the start
    Submissions,     \* what may be submitted
    MaxSubmissions,  \* bound on the number of submissions
    None,            \* no object, no credential, no submission
    Untouched        \* no uncommitted write

Content == [mntBy : SUBSET Mntners, refs : SUBSET Keys,
            auth : Credentials \union {None}]
Request == [kind : {"put", "delete", "suspend", "reactivate"}, key : Keys,
            text : Content \union {None}]
Submission == [requests : Seq(Request), creds : SUBSET Credentials, override : BOOLEAN]

ASSUME KeyAssumption ==
    /\ Mntners \subseteq ProtectedNames
    /\ ProtectedNames \subseteq Keys
    /\ Related \in [Keys -> Seq(Keys)]
    /\ RequireRelated \subseteq Keys
    /\ Forbidden \subseteq {"CREATE", "MODIFY"} \X Keys
ASSUME InitialAssumption == Initial \in [Keys -> Content \union {None}]
ASSUME SubmissionAssumption ==
    /\ Submissions \subseteq Submission
    /\ \A s \in Submissions : \A i \in DOMAIN s.requests :
        IF s.requests[i].kind \in {"put", "delete"}
        THEN s.requests[i].text # None
        ELSE s.requests[i].key \in Mntners
    \* load_change_submission() or load_suspension_submission()
    /\ \A s \in Submissions : \A i, j \in DOMAIN s.requests :
        s.requests[i].kind \in {"put", "delete"} => s.requests[j].kind \in {"put", "delete"}
    /\ MaxSubmissions \in Nat

VARIABLES
    registry,    \* per key: the object, its suspended versions, its protection
    submission,  \* the submission a process is working on
    current,     \* rpsl_obj_current of each request
    status,      \* status of each request
    previous,    \* previous_valid_changes
    loopCount,   \* loop_count
    saved,       \* how many requests have been through the saving loop
    writes,      \* uncommitted writes, each with the row lock of its key
    submitted,   \* number of submissions so far
    \* observers
    loose,       \* references that an administrator has loaded broken or broken
    before       \* the objects as they were before the last suspension

submissionVars == <<submission, current, status, previous, loopCount, saved>>
ghostVars == <<loose, before>>
vars == <<registry, submissionVars, writes, submitted, ghostVars>>

Slot == [object : Content \union {None}, suspended : Seq(Content), protected : BOOLEAN]
ASSUME MarkerAssumption == None \notin Content \union Submissions /\ Untouched \notin Slot

-----------------------------------------------------------------------------
(* What the statements of process h see, and row locks. *)

SlotView(h, k) == IF writes[h][k] = Untouched THEN registry[k] ELSE writes[h][k]
Object(h, k) == SlotView(h, k).object
Exists(h, k) == Object(h, k) # None
Unlocked(h, K) == \A g \in Handlers \ {h}, k \in K : writes[g][k] = Untouched
WriteRow(h, k, slot) == writes' = [writes EXCEPT ![h][k] = slot]
Write(h, W) == writes' = [writes EXCEPT ![h] = [k \in Keys |->
                             IF k \in DOMAIN W THEN W[k] ELSE @[k]]]

-----------------------------------------------------------------------------
(* Requests. *)

Requests(h) == submission[h].requests
Busy(h) == submission[h] # None

\* request_type: a text is a creation when there was no current version.
Type(h, i) ==
    LET r == Requests(h)[i] IN
    CASE r.kind = "put" /\ current[h][i] = None -> "CREATE"
      [] r.kind = "put" /\ current[h][i] # None -> "MODIFY"
      [] r.kind = "delete" -> "DELETE"
      [] OTHER -> r.kind

\* referred_strong_objects()
Strong(c) == IF c = None THEN {} ELSE c.mntBy \union c.refs

\* is_valid() of each request
Valid(h) == {i \in DOMAIN status[h] : status[h][i] # "ERROR"}
ValidKeys(h, types) == {Requests(h)[i].key : i \in {j \in Valid(h) : Type(h, j) \in types}}

-----------------------------------------------------------------------------
(* ReferenceValidator. Nothing of the own submission is written yet. *)

\* preload()
PreloadedNew(h) == ValidKeys(h, {"CREATE", "MODIFY"})
PreloadedDeleted(h) == ValidKeys(h, {"DELETE"})

\* Mutant: deletions of the same submission are not considered.
ChecksDatabaseOnly(h, c) == \A r \in Strong(c) : r \in PreloadedNew(h) \/ Exists(h, r)

\* check_references_to_others()
ReferencesToOthers(h, c) ==
    \A r \in Strong(c) :
        \/ r \in PreloadedNew(h)
        \/ r \notin PreloadedDeleted(h) /\ Exists(h, r)

\* _check_references_from_others(): objects that keep referring to k.
ReferencesFromOthers(h, k) ==
    {j \in Keys \ PreloadedDeleted(h) : k \in Strong(Object(h, j))}

\* check_references_from_others_for_deletion()
MayBeDeleted(h, k) ==
    \/ submission[h].override /\ k \in ProtectedNames
    \/ ReferencesFromOthers(h, k) = {}

\* Mutant: only the table of protected names is consulted.
IgnoresReferences(h, k) == submission[h].override \/ ~SlotView(h, k).protected

\* check_protected_name()
NameAvailable(h, k) ==
    \/ submission[h].override
    \/ ReferencesFromOthers(h, k) = {} /\ ~SlotView(h, k).protected

-----------------------------------------------------------------------------
(* AuthValidator. *)

\* pre_approve()
PreApproved(h) == ValidKeys(h, {"CREATE"}) \intersect Mntners

\* _check_mntners(): new in this submission, or its auth accepts a credential.
CheckMntners(h, ms) ==
    \E m \in ms :
        \/ m \in PreApproved(h)
        \/ Exists(h, m) /\ Object(h, m).auth \in submission[h].creds

\* _find_related_mntners(): the first related object there is.
CheckRelated(h, k) ==
    LET found == {i \in DOMAIN Related[k] : Exists(h, Related[k][i])} IN
    IF found = {} THEN k \notin RequireRelated
    ELSE CheckMntners(h, Object(h, Related[k][Min(found)]).mntBy)

\* process_auth()
ProcessAuth(h, i) ==
    LET r == Requests(h)[i]
        c == current[h][i]
    IN  \/ submission[h].override
        \/ /\ CheckMntners(h, r.text.mntBy)
           /\ IF c # None THEN CheckMntners(h, c.mntBy) ELSE CheckRelated(h, r.key)
           /\ r.key \in Mntners => c # None /\ r.text.auth \in submission[h].creds

-----------------------------------------------------------------------------
(* ChangeRequest.validate() and SuspensionRequest.validate(). *)

\* RulesValidator.validate()
Rules(h, i) ==
    LET k == Requests(h)[i].key IN
    Type(h, i) = "CREATE" /\ k \in Mntners => SlotView(h, k).suspended = <<>>

CheckReferences(h, i) ==
    LET r == Requests(h)[i] IN
    IF Type(h, i) = "DELETE" THEN MayBeDeleted(h, r.key) ELSE ReferencesToOthers(h, r.text)

Validates(h, i) ==
    LET k == Requests(h)[i].key IN
    IF Type(h, i) \in {"suspend", "reactivate"} THEN submission[h].override
    ELSE /\ Rules(h, i)
         /\ ProcessAuth(h, i)
         /\ CheckReferences(h, i)
         /\ Type(h, i) = "CREATE" => NameAvailable(h, k)
         /\ <<Type(h, i), k>> \notin Forbidden

-----------------------------------------------------------------------------
(* The steps of a submission. *)

\* References to objects that do not exist.
Broken(R) == {p \in Keys \X Keys : p[2] \in Strong(R[p[1]].object) /\ R[p[2]].object = None}

NoWrites == [k \in Keys |-> Untouched]
NoSuspension == [mntner |-> None, objects |-> [k \in Keys |-> None]]

Init ==
    /\ registry = [k \in Keys |->
                    [object |-> Initial[k], suspended |-> <<>>, protected |-> FALSE]]
    /\ submission = [h \in Handlers |-> None]
    /\ current = [h \in Handlers |-> <<>>]
    /\ status = [h \in Handlers |-> <<>>]
    /\ previous = [h \in Handlers |-> {}]
    /\ loopCount = [h \in Handlers |-> 0]
    /\ saved = [h \in Handlers |-> 0]
    /\ writes = [h \in Handlers |-> NoWrites]
    /\ submitted = 0
    /\ loose = Broken(registry)
    /\ before = NoSuspension

\* The status after parsing: a deletion needs an object, a suspension override.
ParsedStatus(h, s, r) ==
    IF \/ r.kind = "delete" /\ ~Exists(h, r.key)
       \/ r.kind \in {"suspend", "reactivate"} /\ ~s.override
    THEN "ERROR" ELSE "PROCESSING"

\* load_text_blob(), load_change_submission(), load_suspension_submission():
\* requests are parsed and the current versions retrieved.
Load(h, s) ==
    /\ ~Busy(h)
    /\ submitted < MaxSubmissions
    /\ submitted' = submitted + 1
    /\ submission' = [submission EXCEPT ![h] = s]
    /\ current' = [current EXCEPT ![h] =
                    [i \in DOMAIN s.requests |-> Object(h, s.requests[i].key)]]
    /\ status' = [status EXCEPT ![h] =
                    [i \in DOMAIN s.requests |-> ParsedStatus(h, s, s.requests[i])]]
    /\ previous' = [previous EXCEPT ![h] = {}]
    /\ loopCount' = [loopCount EXCEPT ![h] = 0]
    /\ saved' = [saved EXCEPT ![h] = 0]
    /\ UNCHANGED <<registry, writes, ghostVars>>

LoopMax(h) == Len(Requests(h)) + 10

\* Mutant: one scan is taken to be enough.
SettlesAtOnce(h) == previous[h] # {} \/ Valid(h) = {}

\* valid_changes == previous_valid_changes
Settled(h) == Valid(h) = previous[h]

\* Mutant: previous_valid_changes is not brought up to date.
Forgets(h) == previous[h]

\* previous_valid_changes = valid_changes
Remembers(h) == Valid(h)

\* One iteration of the loop of _handle_change_requests().
Validate(h) ==
    /\ Busy(h) /\ saved[h] = 0
    /\ ~Settled(h)
    /\ loopCount[h] <= LoopMax(h)
    /\ previous' = [previous EXCEPT ![h] = Remembers(h)]
    /\ status' = [status EXCEPT ![h] =
                    [i \in DOMAIN @ |-> IF i \in Valid(h) /\ ~Validates(h, i) THEN "ERROR" ELSE @[i]]]
    /\ loopCount' = [loopCount EXCEPT ![h] = @ + 1]
    /\ UNCHANGED <<registry, submission, current, saved, writes, submitted, ghostVars>>

-----------------------------------------------------------------------------
(* The saving loop: save() of each valid request, in order. *)

Saving(h) ==
    /\ Busy(h)
    /\ saved[h] > 0 \/ Settled(h)
    /\ loopCount[h] <= LoopMax(h)
    /\ saved[h] < Len(Requests(h))

Turn(h) == saved[h] + 1
SavesNow(h, kind) ==
    Saving(h) /\ status[h][Turn(h)] = "PROCESSING" /\ Requests(h)[Turn(h)].kind = kind
KeyNow(h) == Requests(h)[Turn(h)].key

Done(h, st) ==
    /\ status' = [status EXCEPT ![h][Turn(h)] = st]
    /\ saved' = [saved EXCEPT ![h] = @ + 1]
    /\ UNCHANGED <<registry, submission, current, previous, loopCount, submitted, ghostVars>>

SkipInvalid(h) ==
    /\ Saving(h)
    /\ status[h][Turn(h)] = "ERROR"
    /\ Done(h, "ERROR")
    /\ UNCHANGED writes

\* ChangeRequest.save() of a text identical to the current one
SaveIdentical(h) ==
    /\ SavesNow(h, "put")
    /\ Requests(h)[Turn(h)].text = current[h][Turn(h)]
    /\ Done(h, "SAVED")
    /\ UNCHANGED writes

\* ChangeRequest.save(): upsert_rpsl_object()
SaveObject(h) ==
    LET k == KeyNow(h)
        text == Requests(h)[Turn(h)].text
    IN  /\ SavesNow(h, "put")
        /\ text # current[h][Turn(h)]
        /\ Unlocked(h, {k})
        /\ WriteRow(h, k, [SlotView(h, k) EXCEPT !.object = text])
        /\ Done(h, "SAVED")

\* ChangeRequest.save(): delete_rpsl_object() with protect_rpsl_name; nothing
\* happens, and nothing is reported, when the row is no longer there.
DeleteObject(h) ==
    LET k == KeyNow(h) IN
    /\ SavesNow(h, "delete")
    /\ Unlocked(h, {k})
    /\ IF Exists(h, k)
       THEN WriteRow(h, k, [SlotView(h, k) EXCEPT !.object = None,
                                                  !.protected = @ \/ k \in ProtectedNames])
       ELSE UNCHANGED writes
    /\ Done(h, "SAVED")

\* suspend_for_mntner(): the rows with m in mnt-by come in any order, and
\* whether another mntner is active is asked once and then cached. A row is
\* left alone if it has another active mntner.
Maintained(h, m) == {k \in Keys : Exists(h, k) /\ m \in Object(h, k).mntBy}

SuspendRow(h, m, state, k) ==
    LET active == (Object(h, k).mntBy \ {m}) \intersect (state.cached \union state.present)
    IN  [cached |-> state.cached \union active,
         present |-> IF k # m /\ active # {} THEN state.present ELSE state.present \ {k}]

\* The rows that are no longer there after the loop; the last row is that of m.
SuspendInOrder(h, m, order) ==
    (Maintained(h, m) \
        FoldLeft(LAMBDA state, k : SuspendRow(h, m, state, k),
                 [cached |-> {}, present |-> {k \in Keys : Exists(h, k)}], order).present)
        \union {m}

\* query2_result: the mntner to be suspended is there.
MaySuspend(h, m) == Exists(h, m)

\* SuspensionRequest.save(), suspend
Suspend(h) ==
    LET m == KeyNow(h) IN
    /\ SavesNow(h, "suspend")
    /\ MaySuspend(h, m)
    /\ \E order \in SetToSeqs(Maintained(h, m)) :
        LET rows == SuspendInOrder(h, m, order) IN
        /\ Unlocked(h, rows)
        /\ Write(h, [k \in rows |->
                      [object |-> None,
                       suspended |-> Append(SlotView(h, k).suspended, Object(h, k)),
                       protected |-> SlotView(h, k).protected]])
    /\ Done(h, "SAVED")

\* Mutant: the suspended mntner itself is found by its mnt-by only.
ByMntBy(h, m, k) ==
    {i \in DOMAIN SlotView(h, k).suspended : m \in SlotView(h, k).suspended[i].mntBy}

\* The suspended versions of k that reactivating m looks at, oldest first.
Reactivating(h, m, k) ==
    {i \in DOMAIN SlotView(h, k).suspended :
        k = m \/ m \in SlotView(h, k).suspended[i].mntBy}

\* Mutant: active objects are replaced by suspended versions.
ReplacesActive(h, m) == {k \in Keys : Reactivating(h, m, k) # {}}

\* Keys with an active object are skipped.
Restorable(h, m) == {k \in Keys : Reactivating(h, m, k) # {} /\ ~Exists(h, k)}

\* The mntner is suspended and there is no active one.
MayReactivate(h, m) == ~Exists(h, m) /\ SlotView(h, m).suspended # <<>>

\* SuspensionRequest.save(), reactivate: reactivate_for_mntner()
Reactivate(h) ==
    LET m == KeyNow(h) IN
    /\ SavesNow(h, "reactivate")
    /\ MayReactivate(h, m)
    /\ Unlocked(h, Restorable(h, m))
    /\ Write(h, [k \in Restorable(h, m) |->
                  LET i == Min(Reactivating(h, m, k)) IN
                  [object |-> SlotView(h, k).suspended[i],
                   suspended |-> RemoveAt(SlotView(h, k).suspended, i),
                   protected |-> SlotView(h, k).protected]])
    /\ Done(h, "SAVED")

\* The ValueErrors of suspend_for_mntner() and reactivate_for_mntner()
SuspensionRefused(h) ==
    LET m == KeyNow(h) IN
    /\ \/ SavesNow(h, "suspend") /\ ~MaySuspend(h, m)
       \/ SavesNow(h, "reactivate") /\ ~MayReactivate(h, m)
    /\ Done(h, "ERROR")
    /\ UNCHANGED writes

-----------------------------------------------------------------------------
(* The end of a submission. *)

\* Suspension and reactivation do not check references, and override lets
\* objects with protected names be deleted while they are referred to.
Moved(h) == {k \in Keys : SlotView(h, k).suspended # registry[k].suspended}
OverrideDeleted(h) ==
    {k \in ProtectedNames : submission[h].override /\
        \E i \in DOMAIN status[h] : status[h][i] = "SAVED" /\ Requests(h)[i].kind = "delete"
                                    /\ Requests(h)[i].key = k}

Excused(h, p) ==
    \/ p \in loose /\ Object(h, p[1]) = registry[p[1]].object
    \/ p[1] \in Moved(h)
    \/ p[2] \in Moved(h) \union OverrideDeleted(h)

OnlyRequest(h, kind) ==
    Len(Requests(h)) = 1 /\ Requests(h)[1].kind = kind /\ status[h][1] = "SAVED"

Finished(h) ==
    /\ submission' = [submission EXCEPT ![h] = None]
    /\ current' = [current EXCEPT ![h] = <<>>]
    /\ status' = [status EXCEPT ![h] = <<>>]
    /\ previous' = [previous EXCEPT ![h] = {}]
    /\ loopCount' = [loopCount EXCEPT ![h] = 0]
    /\ saved' = [saved EXCEPT ![h] = 0]
    /\ writes' = [writes EXCEPT ![h] = NoWrites]
    /\ UNCHANGED submitted

\* database_handler.commit() and close()
Commit(h) ==
    /\ Busy(h)
    /\ saved[h] > 0 \/ Settled(h)
    /\ saved[h] = Len(Requests(h))
    /\ registry' = [k \in Keys |-> SlotView(h, k)]
    /\ loose' = {p \in Broken(registry') : Excused(h, p)}
    /\ before' = IF OnlyRequest(h, "suspend")
                 THEN [mntner |-> Requests(h)[1].key,
                       objects |-> [k \in Keys |-> registry[k].object]]
                 ELSE IF writes[h] = NoWrites THEN before ELSE NoSuspension
    /\ Finished(h)

\* An exception or the end of the process, also by excessive loops: rolled back.
Fail(h) ==
    /\ Busy(h)
    /\ UNCHANGED <<registry, ghostVars>>
    /\ Finished(h)

Next ==
    \E h \in Handlers :
        \/ \E s \in Submissions : Load(h, s)
        \/ Validate(h)
        \/ SkipInvalid(h)
        \/ SaveIdentical(h)
        \/ SaveObject(h)
        \/ DeleteObject(h)
        \/ Suspend(h)
        \/ Reactivate(h)
        \/ SuspensionRefused(h)
        \/ Commit(h)
        \/ Fail(h)

Spec == Init /\ [][Next]_vars

-----------------------------------------------------------------------------
(* Properties. *)

LengthsOK(h) ==
    LET n == IF Busy(h) THEN Len(Requests(h)) ELSE 0 IN
    /\ DOMAIN current[h] = 1..n
    /\ DOMAIN status[h] = 1..n
    /\ previous[h] \subseteq 1..n
    /\ saved[h] \in 0..n

\* Every variable has its type, and the lists of a submission have its length.
TypeOK ==
    /\ registry \in [Keys -> Slot]
    /\ submission \in [Handlers -> Submissions \union {None}]
    /\ current \in [Handlers -> Seq(Content \union {None})]
    /\ status \in [Handlers -> Seq({"PROCESSING", "SAVED", "ERROR"})]
    /\ previous \in [Handlers -> SUBSET Nat]
    /\ loopCount \in [Handlers -> Nat]
    /\ saved \in [Handlers -> Nat]
    /\ \A h \in Handlers : LengthsOK(h)
    /\ writes \in [Handlers -> [Keys -> Slot \union {Untouched}]]
    /\ submitted \in 0..MaxSubmissions
    /\ loose \subseteq Keys \X Keys
    /\ before \in [mntner : Mntners \union {None}, objects : [Keys -> Content \union {None}]]

\* Every strong reference leads to an object, whatever was created, changed and
\* deleted together, except where an administrator has broken it by override,
\* suspension or reactivation (_handle_change_requests, ReferenceValidator).
ReferencesResolve == Broken(registry) \subseteq loose

\* Who can authenticate as one of the maintainers of an object in R.
Controls(creds, R, c) ==
    \E m \in c.mntBy : R[m].object # None /\ R[m].object.auth \in creds

\* The related object of k, the first one there is, allows its creation.
RelatedAgrees(creds, R, k) ==
    LET found == {i \in DOMAIN Related[k] : R[Related[k][i]].object # None} IN
    IF found = {} THEN k \notin RequireRelated
    ELSE Controls(creds, R, R[Related[k][Min(found)]].object)

\* Without override, an object changes only if the submitter can authenticate,
\* by the maintainers as they were before, for its old and its new version, and
\* for the related object of a new one; and nobody becomes a new maintainer
\* (AuthValidator; pre_approve() must not outlive the failed mntner request).
Authorised ==
    [][\A h \in Handlers : Commit(h) /\ ~submission[h].override =>
        \A k \in Keys :
            LET old == registry[k].object
                new == registry'[k].object
            IN  old # new =>
                    /\ old # None => Controls(submission[h].creds, registry, old)
                    /\ new # None => Controls(submission[h].creds, registry, new)
                    /\ k \in Mntners => old # None
                    /\ old = None => RelatedAgrees(submission[h].creds, registry, k)]_vars

\* Without override nobody takes over a name: one that was deleted before, or
\* that objects still refer to which this submission leaves as they are
\* (check_protected_name, issue 616).
NoTakeover ==
    [][\A h \in Handlers : Commit(h) /\ ~submission[h].override =>
        \A k \in Keys : registry[k].object = None /\ registry'[k].object # None =>
            /\ ~registry[k].protected
            /\ \A j \in Keys : registry'[j].object = registry[j].object
                                => k \notin Strong(registry[j].object)]_vars

\* The scans end by themselves: each one but the last finds another invalid
\* request, so that the limit loop_max is never what ends them.
LoopSettles == \A h \in Handlers : Busy(h) => loopCount[h] <= Len(Requests(h)) + 1

\* Reactivating a mntner right after its suspension brings back every object
\* as it was, unless an older version of that object was suspended already.
SuspensionReversible ==
    [][\A h \in Handlers :
        Commit(h) /\ OnlyRequest(h, "reactivate") /\ Requests(h)[1].key = before.mntner =>
            \A k \in Keys : before.objects[k] # None /\ Len(registry[k].suspended) <= 1 =>
                registry'[k].object = before.objects[k]]_vars

\* The versions of an object, active or suspended, and their number.
Versions(slot) == {c \in ToSet(slot.suspended) \union {slot.object} : c # None}
NumberOfVersions(slot) == Len(slot.suspended) + (IF slot.object = None THEN 0 ELSE 1)

\* Suspensions and reactivations move versions of objects and lose none, also
\* those that were skipped because an object with the same key is active.
SuspensionConserves ==
    [][\A h \in Handlers :
        Commit(h) /\ (\A i \in DOMAIN Requests(h) : Requests(h)[i].kind \notin {"put", "delete"}) =>
            \A k \in Keys :
                /\ Versions(registry'[k]) = Versions(registry[k])
                /\ NumberOfVersions(registry'[k]) = NumberOfVersions(registry[k])]_vars
=============================================================================
