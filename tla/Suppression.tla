---------------------------- MODULE Suppression ----------------------------
(***************************************************************************)
(* Suppression of routes by RPKI and by the scope filter: the import of    *)
(* ROAs and the bulk validation after it, the scope filter job, the        *)
(* scheduler that starts both, and the transactions that write routes in   *)
(* the meantime with a status they determined themselves. Route object     *)
(* preference is in DatabaseHandler.                                       *)
(***************************************************************************)
EXTENDS Integers, Sequences, FiniteSets, SequencesExt

CONSTANTS
    None,
    Keys,          \* rpsl_pk of routes: records with a prefix (bits) and an asn
    Sources,
    Authoritative, \* sources with submissions; the others are mirrors
    RpkiExcluded, ScopeExcluded,
    Texts,
    Setup          \* scenarios: records with the fields below

Routes == [key : Keys, source : Sources]
Bits == Seq({0, 1})
Roa == [prefix : Bits, asn : Nat, max : Nat]
Slurm == [asns : SUBSET Nat, prefixes : SUBSET Bits,
          combined : SUBSET [prefix : Bits, asn : Nat],
          assertions : SUBSET [prefix : Bits, asn : Nat, max : Nat \union {None}]]
Filter == [prefixes : SUBSET Bits, asns : SUBSET Nat]

\* A row of the database, what a job reads of one whose status changes, what a job
\* holds, and what a transaction is about to save.
RpkiStatus == {"not_found", "valid", "invalid"}
ScopeFilterStatus == {"in_scope", "out_scope_as", "out_scope_prefix"}
Status == RpkiStatus \union ScopeFilterStatus
Row == [id : Nat, text : Texts, rpki : RpkiStatus, scope : ScopeFilterStatus]
Change == [route : Routes, id : Nat, old : Status, new : Status,
           text : Texts \union {None}, other : Status \union {None}]
Job == [stage : {"import", "query", "enrich", "update"}, changed : SUBSET Change,
        roas : SUBSET Roa, filter : Filter]
Written == [route : Routes, text : Texts, rpki : RpkiStatus, scope : ScopeFilterStatus]

ASSUME SuppressionAssumption ==
    /\ \A k \in Keys : k.prefix \in Bits
    /\ Authoritative \union RpkiExcluded \union ScopeExcluded \subseteq Sources
    /\ None \notin Row /\ None \notin Job /\ None \notin Written
    /\ \A n \in DOMAIN Setup :
          /\ Setup[n].routes \subseteq Routes \* routes that are written
          /\ Setup[n].files # {}              \* contents of the ROA file, with SLURM
          /\ Setup[n].files \subseteq [roas : SUBSET Roa, slurm : Slurm]
          /\ Setup[n].filters # {}            \* values of the scopefilter settings
          /\ Setup[n].filters \subseteq Filter
          /\ Setup[n].max.writes \in Nat      \* bound on changes to routes
          /\ Setup[n].max.reloads \in Nat     \* bound on changes of the scope filter
          /\ Setup[n].max.files \in Nat       \* bound on new ROA files
          /\ Setup[n].max.failures \in Nat    \* bound on jobs that fail, and restarts

VARIABLES
    scenario,
    file,       \* the ROA and SLURM files that can be retrieved
    filter,     \* the scopefilter settings
    roas,       \* committed ROAs
    rows,       \* committed routes
    follower,   \* the objects of a mirror that follows the journal
    seen,       \* the scopefilter settings the scheduler has seen, None at first
    jobs,       \* what the ROA and scope filter jobs have read, None if not running
    writer,     \* a route that is validated and not saved yet
    nextId,     \* next internal pk of a row
    counts,
    overtaken,  \* routes that changed behind the back of a job, became suppressed
                \* by a write, or took the scope filter status of another route
    late,       \* routes saved with a status that is not that of the current settings
    overlooked  \* the job for the current scope filter did not start, or failed

databaseVars == <<roas, rows, follower, nextId>>
ghostVars == <<overtaken, late, overlooked>>
vars == <<scenario, file, filter, seen, jobs, writer, counts, databaseVars, ghostVars>>

Jobs == {"ROA", "scope"}

-----------------------------------------------------------------------------
(* ROAs and the status of a route *)

Covers(p, q) == IsPrefix(p, q)

\* A ROA that a SLURM filter matches is dropped, and the assertions are added with
\* the length of the prefix when they have no maximum.
Filtered(roa, slurm) ==
    \/ roa.asn \in slurm.asns
    \/ \E p \in slurm.prefixes : Covers(p, roa.prefix)
    \/ \E f \in slurm.combined : f.asn = roa.asn /\ Covers(f.prefix, roa.prefix)

Asserted(slurm) ==
    {[prefix |-> a.prefix, asn |-> a.asn,
      max |-> IF a.max = None THEN Len(a.prefix) ELSE a.max] : a \in slurm.assertions}

Imported(f) == {roa \in f.roas : ~Filtered(roa, f.slurm)} \union Asserted(f.slurm)

\* A ROA whose maximum is below its length stops the import.
Invalid(f) == \E roa \in Imported(f) : roa.max < Len(roa.prefix)

Matches(roa, r) ==
    roa.asn # 0 /\ roa.asn = r.key.asn /\ Len(r.key.prefix) <= roa.max

\* SingleRouteROAValidator: the covering ROAs are selected in the database.
SingleValidate(R, r) ==
    LET covering == {roa \in R : Covers(roa.prefix, r.key.prefix)}
    IN  IF r.source \in RpkiExcluded \/ covering = {} THEN "not_found"
        ELSE IF \E roa \in covering : Matches(roa, r) THEN "valid"
        ELSE "invalid"

\* The tree of BulkRouteROAValidator: the ROAs under the bits of their prefix.
RoaTree(R) == [key \in {roa.prefix : roa \in R} |-> {roa \in R : roa.prefix = key}]

\* Mutant: only the longest prefix in the tree is looked at.
LongestItem(tree, prefix) ==
    {k \in DOMAIN tree : Covers(k, prefix) /\ \A j \in DOMAIN tree :
                             Covers(j, prefix) => Len(j) <= Len(k)}

\* All prefixes in the tree that a prefix starts with.
PrefixItems(tree, prefix) ==
    {key \in DOMAIN tree : \E n \in 0 .. Len(prefix) : key = SubSeq(prefix, 1, n)}

BulkValidate(R, r) ==
    LET tree == RoaTree(R)
        items == PrefixItems(tree, r.key.prefix)
    IN  IF r.source \in RpkiExcluded \/ items = {} THEN "not_found"
        ELSE IF \E key \in items : \E roa \in tree[key] : Matches(roa, r) THEN "valid"
        ELSE "invalid"

\* ScopeFilterValidator. A filtered prefix concerns everything it overlaps.
ScopeStatus(f, r) ==
    IF r.source \in ScopeExcluded THEN "in_scope"
    ELSE IF \E p \in f.prefixes : Covers(p, r.key.prefix) \/ Covers(r.key.prefix, p)
         THEN "out_scope_prefix"
    ELSE IF r.key.asn \in f.asns THEN "out_scope_as"
    ELSE "in_scope"

Visible(rpki, scope) == rpki # "invalid" /\ scope = "in_scope"
VisibleText(row) == IF row # None /\ Visible(row.rpki, row.scope) THEN row.text ELSE None

-----------------------------------------------------------------------------
(* Jobs. A job reads the routes whose status changes, then their texts and     *)
(* other status, and then updates them and records the changes in visibility.   *)

Reading(j) == jobs[j] # None /\ jobs[j].stage \in {"enrich", "update"}

\* Routes in the list of a job that is running.
Listed(j) == IF Reading(j) THEN {c.route : c \in jobs[j].changed} ELSE {}

UnchangedInputs == UNCHANGED <<scenario, file, filter, seen, writer>>

\* The early commit of the ROA import: other processes see the new ROAs.
ImportRoas ==
    /\ jobs["ROA"] # None /\ jobs["ROA"].stage = "import"
    /\ IF Invalid(file)
       THEN jobs' = [jobs EXCEPT !["ROA"] = None] /\ UNCHANGED roas
       ELSE /\ roas' = Imported(file)
            /\ jobs' = [jobs EXCEPT !["ROA"].stage = "query", !["ROA"].roas = Imported(file)]
    /\ UnchangedInputs
    /\ UNCHANGED <<rows, follower, nextId, counts, ghostVars>>

NewStatus(j, r) ==
    IF j = "ROA" THEN BulkValidate(jobs[j].roas, r) ELSE ScopeStatus(jobs[j].filter, r)
OldStatus(j, r) == IF j = "ROA" THEN rows[r].rpki ELSE rows[r].scope

OtherStatus(j, r) == IF j = "ROA" THEN rows[r].scope ELSE rows[r].rpki

\* The routes whose status changes, and what the job keeps of them.
Found(j) == {r \in Routes : rows[r] # None /\ OldStatus(j, r) # NewStatus(j, r)}
Entry(j, r) ==
    [route |-> r, id |-> rows[r].id, old |-> OldStatus(j, r), new |-> NewStatus(j, r),
     text |-> None, other |-> None]

Query(j) ==
    /\ jobs[j] # None /\ jobs[j].stage = "query"
    /\ jobs' = [jobs EXCEPT ![j] =
          [stage |-> "enrich", changed |-> {Entry(j, r) : r \in Found(j)},
           roas |-> jobs[j].roas, filter |-> jobs[j].filter]]
    /\ UnchangedInputs
    /\ UNCHANGED <<databaseVars, counts, ghostVars>>

\* The texts are looked up by internal pk. A row that is gone ends the job.
Gone(j) == {c \in jobs[j].changed : rows[c.route] = None \/ rows[c.route].id # c.id}
Enriched(j, c) ==
    [route |-> c.route, id |-> c.id, old |-> c.old, new |-> c.new,
     text |-> rows[c.route].text, other |-> OtherStatus(j, c.route)]

Enrich(j) ==
    /\ jobs[j] # None /\ jobs[j].stage = "enrich"
    /\ jobs' = [jobs EXCEPT ![j] =
          IF Gone(j) # {} THEN None
          ELSE [stage |-> "update", changed |-> {Enriched(j, c) : c \in jobs[j].changed},
                roas |-> jobs[j].roas, filter |-> jobs[j].filter]]
    /\ overlooked' = (overlooked \/ (j = "scope" /\ Gone(j) # {}))
    /\ UnchangedInputs
    /\ UNCHANGED <<databaseVars, counts, overtaken, late>>

ChangeVisible(j, c, status) ==
    IF j = "ROA" THEN Visible(status, c.other) ELSE Visible(c.other, status)

\* Mutant: a route without ROAs stays as it is.
UpdatesFound(j, c) == c.new # "not_found"

\* The UPDATE statements name all three lists.
Updates(j, c) == TRUE

\* Mutant: routes that are no longer found and routes that leave the scope are not
\* recorded.
RecordedValid(j) ==
    [r \in Routes |->
        LET C == {c \in jobs[j].changed : c.route = r /\ c.new \in {"valid", "in_scope", "invalid"}
                      /\ ChangeVisible(j, c, c.old) # ChangeVisible(j, c, c.new)}
        IN  IF C = {} THEN follower[r]
            ELSE LET c == CHOOSE c \in C : TRUE
                 IN  IF ChangeVisible(j, c, c.new) THEN c.text ELSE None]

\* The journal entries of a job, for a mirror that follows them: an ADD for what
\* becomes visible and a DEL for what no longer is, as far as the job knows.
Recorded(j) ==
    [r \in Routes |->
        LET C == {c \in jobs[j].changed : c.route = r
                      /\ ChangeVisible(j, c, c.old) # ChangeVisible(j, c, c.new)}
        IN  IF C = {} THEN follower[r]
            ELSE LET c == CHOOSE c \in C : TRUE
                 IN  IF ChangeVisible(j, c, c.new) THEN c.text ELSE None]

\* update_rpki_status() finds rows by internal pk, update_scopefilter_status() by
\* rpsl_pk, in whatever source.
Concerns(j, c, r) ==
    IF j = "ROA" THEN c.route = r /\ c.id = rows[r].id ELSE c.route.key = r.key

\* The UPDATE statements for routes out of scope come last.
LastStatus(C) ==
    IF \E c \in C : c.new = "out_scope_prefix" THEN "out_scope_prefix"
    ELSE IF \E c \in C : c.new = "out_scope_as" THEN "out_scope_as"
    ELSE (CHOOSE c \in C : TRUE).new

\* The status of a route in the database after the job, as far as the job knows.
Intended(j, r) ==
    IF r \in Listed(j) THEN (CHOOSE c \in jobs[j].changed : c.route = r).new
    ELSE OldStatus(j, r)

\* Routes that get the status of a route of the same key in another source.
Misdirected(j) ==
    {r \in Routes : rows[r] # None /\ \E c \in jobs[j].changed :
                       Concerns(j, c, r) /\ c.new # Intended(j, r)}

Update(j) ==
    /\ jobs[j] # None /\ jobs[j].stage = "update"
    /\ rows' = [r \in Routes |->
          LET C == {c \in jobs[j].changed : rows[r] # None /\ Updates(j, c) /\ Concerns(j, c, r)}
          IN  IF C = {} THEN rows[r]
              ELSE LET status == LastStatus(C)
                   IN  IF j = "ROA" THEN [rows[r] EXCEPT !.rpki = status]
                       ELSE [rows[r] EXCEPT !.scope = status]]
    /\ follower' = Recorded(j)
    /\ overtaken' = overtaken \union Misdirected(j)
                     \union UNION {Listed(j) \intersect Listed(k) : k \in Jobs \ {j}}
    /\ jobs' = [jobs EXCEPT ![j] = None]
    /\ UnchangedInputs
    /\ UNCHANGED <<roas, nextId, counts, late, overlooked>>

\* An error, or the process is killed: the transaction is rolled back. Imported
\* ROAs stay.
Fail(j) ==
    /\ jobs[j] # None
    /\ counts.failures < Setup[scenario].max.failures
    /\ counts' = [counts EXCEPT !.failures = @ + 1]
    /\ jobs' = [jobs EXCEPT ![j] = None]
    /\ overlooked' = (overlooked \/ j = "scope")
    /\ UnchangedInputs
    /\ UNCHANGED <<databaseVars, overtaken, late>>

Step(j) == (j = "ROA" /\ ImportRoas) \/ Query(j) \/ Enrich(j) \/ Update(j)

-----------------------------------------------------------------------------
(* The scheduler. A job that still runs is not started again. *)

\* Mutant: only the prefixes are compared.
PrefixesChanged == IF seen = None THEN TRUE ELSE seen.prefixes # filter.prefixes

ScopefilterChanged == seen # filter

NewJob(j) ==
    [stage |-> IF j = "ROA" THEN "import" ELSE "query", changed |-> {}, roas |-> {}, filter |-> filter]

\* MirrorScheduler.run(): the ROA timer has expired whenever this matters. The
\* scope filter is marked as seen even when its job cannot be started.
SchedulerRun ==
    /\ \/ jobs["ROA"] = None
       \/ ScopefilterChanged
    /\ seen' = IF ScopefilterChanged THEN filter ELSE seen
    /\ jobs' = [j \in Jobs |->
          IF jobs[j] = None /\ (j = "ROA" \/ ScopefilterChanged) THEN NewJob(j) ELSE jobs[j]]
    /\ overlooked' = IF ScopefilterChanged THEN jobs["scope"] # None ELSE overlooked
    /\ UNCHANGED <<scenario, file, filter, writer, counts, databaseVars, overtaken, late>>

\* A restart ends the jobs and forgets which settings were seen.
Restart ==
    /\ counts.failures < Setup[scenario].max.failures
    /\ counts' = [counts EXCEPT !.failures = @ + 1]
    /\ seen' = None
    /\ jobs' = [j \in Jobs |-> None]
    /\ writer' = None
    /\ UNCHANGED <<scenario, file, filter, databaseVars, ghostVars>>

\* The settings are read again after a SIGHUP, and the ROA file changes.
ReloadConfiguration ==
    /\ counts.reloads < Setup[scenario].max.reloads
    /\ counts' = [counts EXCEPT !.reloads = @ + 1]
    /\ filter' \in Setup[scenario].filters \ {filter}
    /\ UNCHANGED <<scenario, file, seen, jobs, writer, databaseVars, ghostVars>>

PublishRoas ==
    /\ counts.files < Setup[scenario].max.files
    /\ counts' = [counts EXCEPT !.files = @ + 1]
    /\ file' \in Setup[scenario].files \ {file}
    /\ UNCHANGED <<scenario, filter, seen, jobs, writer, databaseVars, ghostVars>>

-----------------------------------------------------------------------------
(* Transactions that write routes *)

\* A route is validated when it is parsed. A mirror saves what it finds. A
\* submission is rejected when the route is invalid, or new and out of scope; the
\* object it saves has the status that objects have by default.
Validate(r, t) ==
    LET rpki == SingleValidate(roas, r)
        scope == ScopeStatus(filter, r)
        own == r.source \in Authoritative
    IN  /\ writer = None
        /\ counts.writes < Setup[scenario].max.writes
        /\ own => rpki # "invalid" /\ (scope = "in_scope" \/ rows[r] # None)
        /\ writer' = [route |-> r, text |-> t, rpki |-> IF own THEN "not_found" ELSE rpki,
                      scope |-> IF own THEN "in_scope" ELSE scope]
        /\ counts' = [counts EXCEPT !.writes = @ + 1]
        /\ UNCHANGED <<scenario, file, filter, seen, jobs, databaseVars, ghostVars>>

\* The upsert keeps the internal pk of a row. What is suppressed is not recorded
\* in the journal.
Save ==
    /\ writer # None
    /\ LET r == writer.route
           row == [id |-> IF rows[r] = None THEN nextId ELSE rows[r].id, text |-> writer.text,
                   rpki |-> writer.rpki, scope |-> writer.scope]
       IN  /\ rows' = [rows EXCEPT ![r] = row]
           /\ nextId' = IF rows[r] = None THEN nextId + 1 ELSE nextId
           /\ follower' = IF VisibleText(row) = None THEN follower
                          ELSE [follower EXCEPT ![r] = row.text]
           /\ overtaken' = overtaken \union
                (IF (\E j \in Jobs : r \in Listed(j))
                    \/ (VisibleText(row) = None /\ follower[r] # None)
                 THEN {r} ELSE {})
           /\ late' = IF row.scope # ScopeStatus(filter, r) THEN late \union {r} ELSE late \ {r}
    /\ writer' = None
    /\ UNCHANGED <<scenario, file, filter, seen, jobs, roas, counts, overlooked>>

\* A deletion is recorded in the journal whether or not the object was visible.
Delete(r) ==
    /\ rows[r] # None
    /\ counts.writes < Setup[scenario].max.writes
    /\ counts' = [counts EXCEPT !.writes = @ + 1]
    /\ rows' = [rows EXCEPT ![r] = None]
    /\ follower' = [follower EXCEPT ![r] = None]
    /\ overtaken' = overtaken \union (IF \E j \in Jobs : r \in Listed(j) THEN {r} ELSE {})
    /\ UNCHANGED <<scenario, file, filter, seen, jobs, writer, roas, nextId, late, overlooked>>

-----------------------------------------------------------------------------

Init ==
    /\ scenario \in DOMAIN Setup
    /\ file \in Setup[scenario].files
    /\ filter \in Setup[scenario].filters
    /\ roas = {}
    /\ rows = [r \in Routes |-> None]
    /\ follower = [r \in Routes |-> None]
    /\ seen = None
    /\ jobs = [j \in Jobs |-> None]
    /\ writer = None
    /\ nextId = 1
    /\ counts = [writes |-> 0, reloads |-> 0, files |-> 0, failures |-> 0]
    /\ overtaken = {} /\ late = {} /\ overlooked = FALSE

Write == (\E r \in Setup[scenario].routes : Delete(r) \/ \E t \in Texts : Validate(r, t)) \/ Save

Next ==
    \/ SchedulerRun \/ Restart \/ ReloadConfiguration \/ PublishRoas
    \/ \E j \in Jobs : Step(j) \/ Fail(j)
    \/ Write

Spec == Init /\ [][Next]_vars

\* The scheduler runs every three seconds, jobs run to their end, and a
\* transaction that validated a route commits it.
FairSpec ==
    /\ Spec
    /\ WF_vars(SchedulerRun) /\ WF_vars(Save)
    /\ \A j \in Jobs : WF_vars(Step(j))

-----------------------------------------------------------------------------
(* Properties *)

\* Mirrors follow the suppression of objects: what the journal tells them is what
\* is visible, unless another transaction overtakes a job, an update makes a visible
\* object invisible, or the scope filter job gives a route the status of its
\* namesake in another source (database_handler.py 345-496, 709-757).
MirrorsFollow == \A r \in Routes \ overtaken : follower[r] = VisibleText(rows[r])

\* The validators agree: the tree of the bulk validator finds the same status as
\* the query of the single validator (rpki/validators.py 131-153, 199-213).
ValidatorsAgree == \A r \in Routes : BulkValidate(roas, r) = SingleValidate(roas, r)

\* The RPKI status of every route settles on the imported ROAs, whatever was
\* written with the previous ROAs (mirror_runners_import.py 194-214).
RpkiSettles ==
    <>[](~Invalid(file) => \A r \in Routes : rows[r] # None =>
            rows[r].rpki = SingleValidate(Imported(file), r))

\* The scope filter status of every route settles on the current settings, unless
\* the scheduler overlooked them, or a route was saved with another status after
\* the job (scheduler.py 89-90, 128-157).
ScopeSettles ==
    <>[](overlooked \/ \A r \in Routes \ late : rows[r] # None =>
            rows[r].scope = ScopeStatus(filter, r))
=============================================================================
