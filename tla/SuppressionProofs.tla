------------------------- MODULE SuppressionProofs -------------------------
(***************************************************************************)
(* Proofs about Suppression, for every set of routes, ROA files, scope     *)
(* filters and bounds: the two ROA validators agree, and mirrors follow    *)
(* the suppression of objects unless a job is overtaken.                   *)
(***************************************************************************)
EXTENDS Suppression, SequenceTheorems, TLAPS

-----------------------------------------------------------------------------
(* The inductive invariant *)

StatusOf(j) == IF j = "ROA" THEN RpkiStatus ELSE ScopeFilterStatus

\* What the variables hold.
TypeInv ==
    /\ scenario \in DOMAIN Setup
    /\ file \in Setup[scenario].files
    /\ filter \in Setup[scenario].filters
    /\ roas \in SUBSET Roa
    /\ rows \in [Routes -> Row \union {None}]
    /\ follower \in [Routes -> Texts \union {None}]
    /\ jobs \in [Jobs -> Job \union {None}]
    /\ \A j \in Jobs : jobs[j] # None => \A c \in jobs[j].changed : c.new \in StatusOf(j)
    /\ writer \in Written \union {None}
    /\ nextId \in Nat
    /\ overtaken \in SUBSET Routes

\* The list of a job has one entry for a route.
OneEntry(j) == \A c, d \in jobs[j].changed : c.route = d.route => c = d

\* An entry of the list is up to date, unless the route was overtaken.
UpToDate(j, c) ==
    /\ rows[c.route] # None
    /\ rows[c.route].id = c.id
    /\ OldStatus(j, c.route) = c.old
    /\ jobs[j].stage = "update" =>
          c.text = rows[c.route].text /\ c.other = OtherStatus(j, c.route)

JobOK(j) ==
    Reading(j) =>
        /\ OneEntry(j)
        /\ \A c \in jobs[j].changed : c.route \notin overtaken => UpToDate(j, c)

JobInv == \A j \in Jobs : JobOK(j)

SuppressionInv == TypeInv /\ JobInv /\ MirrorsFollow

-----------------------------------------------------------------------------
(* The validators *)

\* What the import keeps of a ROA file is a set of ROAs.
LEMMA ImportedRoas ==
    ASSUME NEW f \in [roas : SUBSET Roa, slurm : Slurm]
    PROVE  Imported(f) \subseteq Roa
<1>1. f.roas \subseteq Roa /\ f.slurm \in Slurm
  OBVIOUS
<1>2. Asserted(f.slurm) \subseteq Roa
  <2>1. SUFFICES ASSUME NEW a \in f.slurm.assertions
                 PROVE  [prefix |-> a.prefix, asn |-> a.asn,
                         max |-> IF a.max = None THEN Len(a.prefix) ELSE a.max] \in Roa
    BY DEF Asserted
  <2>2. a \in [prefix : Bits, asn : Nat, max : Nat \union {None}]
    BY <1>1 DEF Slurm
  <2>3. a.prefix \in Bits /\ a.asn \in Nat /\ (a.max = None \/ a.max \in Nat)
    BY <2>2
  <2>4. Len(a.prefix) \in Nat
    BY <2>3, LenProperties DEF Bits
  <2> QED
    BY <2>3, <2>4 DEF Roa
<1> QED
  BY <1>1, <1>2 DEF Imported

\* A prefix covers another exactly when it is the beginning of its bits.
LEMMA CoversBeginning ==
    ASSUME NEW p \in Bits, NEW q \in Bits
    PROVE  Covers(p, q) <=> \E n \in 0 .. Len(q) : p = SubSeq(q, 1, n)
<1>1. Len(p) \in Nat /\ Len(q) \in Nat
  BY LenProperties DEF Bits
<1>2. SubSeq(p, 1, Len(p)) = p
  BY DEF Bits
<1>3. ASSUME Covers(p, q)
      PROVE  \E n \in 0 .. Len(q) : p = SubSeq(q, 1, n)
  <2>1. Len(p) <= Len(q) /\ p = SubSeq(q, 1, Len(p))
    BY <1>2, <1>3 DEF Covers, IsPrefix
  <2>2. Len(p) \in 0 .. Len(q)
    BY <1>1, <2>1
  <2> WITNESS Len(p) \in 0 .. Len(q)
  <2> QED
    BY <2>1
<1>4. ASSUME NEW n \in 0 .. Len(q), p = SubSeq(q, 1, n)
      PROVE  Covers(p, q)
  <2>1. Len(p) = n
    BY <1>1, <1>4 DEF Bits
  <2>2. Len(p) <= Len(q)
    BY <1>1, <2>1
  <2> QED
    BY <1>2, <1>4, <2>1, <2>2 DEF Covers, IsPrefix
<1> QED
  BY <1>3, <1>4

\* The bulk validator and the single validator find the same status with the same
\* ROAs.
LEMMA SameStatus ==
    ASSUME NEW R \in SUBSET Roa, NEW r, r.key.prefix \in Bits
    PROVE  BulkValidate(R, r) = SingleValidate(R, r)
<1> DEFINE tree == RoaTree(R)
           items == PrefixItems(tree, r.key.prefix)
           covering == {roa \in R : Covers(roa.prefix, r.key.prefix)}
<1>1. \A roa \in R : roa.prefix \in Bits
  BY DEF Roa
<1>2. DOMAIN tree = {roa.prefix : roa \in R}
  BY DEF RoaTree
<1>3. items = {roa.prefix : roa \in covering}
  BY <1>1, <1>2, CoversBeginning DEF PrefixItems
<1>4. \A key \in items : tree[key] = {roa \in R : roa.prefix = key}
  BY <1>2, <1>3 DEF RoaTree
<1>5. items = {} <=> covering = {}
  BY <1>3
<1>6. (\E key \in items : \E roa \in tree[key] : Matches(roa, r)) <=>
          \E roa \in covering : Matches(roa, r)
  BY <1>3, <1>4
<1> HIDE DEF tree, items, covering
<1> QED
  BY <1>5, <1>6 DEF BulkValidate, SingleValidate, tree, items, covering

-----------------------------------------------------------------------------
(* Types *)

\* The validators find a status.
LEMMA StatusTypes ==
    /\ \A R, r : BulkValidate(R, r) \in RpkiStatus /\ SingleValidate(R, r) \in RpkiStatus
    /\ \A f, r : ScopeStatus(f, r) \in ScopeFilterStatus
<1>1. ASSUME NEW R, NEW r
      PROVE  BulkValidate(R, r) \in RpkiStatus /\ SingleValidate(R, r) \in RpkiStatus
  BY DEF BulkValidate, SingleValidate, RpkiStatus
<1>2. ASSUME NEW f, NEW r
      PROVE  ScopeStatus(f, r) \in ScopeFilterStatus
  BY DEF ScopeStatus, ScopeFilterStatus
<1> QED
  BY <1>1, <1>2

\* A job in a state of the right type.
LEMMA JobTypes ==
    ASSUME TypeInv, NEW j \in Jobs, jobs[j] # None
    PROVE  /\ jobs[j] \in Job
           /\ jobs[j].changed \subseteq Change
           /\ jobs[j].roas \subseteq Roa
           /\ jobs[j].filter \in Filter
           /\ jobs[j] = [stage |-> jobs[j].stage, changed |-> jobs[j].changed,
                         roas |-> jobs[j].roas, filter |-> jobs[j].filter]
<1>1. jobs[j] \in Job
  BY DEF TypeInv
<1> QED
  BY <1>1 DEF Job

\* What a job finds has the type of a row's status.
LEMMA ChangeTypes ==
    ASSUME TypeInv, NEW j \in Jobs, NEW r \in Routes, rows[r] # None
    PROVE  /\ rows[r] \in Row
           /\ OldStatus(j, r) \in StatusOf(j)
           /\ NewStatus(j, r) \in StatusOf(j)
           /\ OtherStatus(j, r) \in Status
<1>1. rows[r] \in Row
  BY DEF TypeInv
<1>2. rows[r].rpki \in RpkiStatus /\ rows[r].scope \in ScopeFilterStatus
  BY <1>1 DEF Row
<1> QED
  BY <1>1, <1>2, StatusTypes DEF OldStatus, NewStatus, OtherStatus, Status, StatusOf

\* The jobs after each of their steps, field by field.
LEMMA ImportedJobs ==
    ASSUME TypeInv, ImportRoas
    PROVE  \/ jobs' = [jobs EXCEPT !["ROA"] = None] /\ roas' = roas
           \/ /\ roas' = Imported(file)
              /\ jobs' = [jobs EXCEPT !["ROA"] =
                            [stage |-> "query", changed |-> jobs["ROA"].changed,
                             roas |-> Imported(file), filter |-> jobs["ROA"].filter]]
<1>1. "ROA" \in Jobs
  BY DEF Jobs
<1>2. jobs["ROA"] = [stage |-> jobs["ROA"].stage, changed |-> jobs["ROA"].changed,
                     roas |-> jobs["ROA"].roas, filter |-> jobs["ROA"].filter]
  BY <1>1, JobTypes DEF ImportRoas
<1> QED
  BY <1>1, <1>2 DEF ImportRoas, TypeInv

\* The types hold at the start.
LEMMA TypeInit == Init => TypeInv
<1> SUFFICES ASSUME Init PROVE TypeInv
  OBVIOUS
<1> QED
  BY DEF Init, TypeInv

\* A job that is replaced by None, or by a job of the right type.
LEMMA JobReplaced ==
    ASSUME TypeInv, NEW j \in Jobs, NEW v, jobs' = [jobs EXCEPT ![j] = v],
           v = None \/ (v \in Job /\ \A c \in v.changed : c.new \in StatusOf(j))
    PROVE  /\ jobs' \in [Jobs -> Job \union {None}]
           /\ \A i \in Jobs : jobs'[i] # None => \A c \in jobs'[i].changed : c.new \in StatusOf(i)
  BY DEF TypeInv

\* The entries of a job have the type of a change.
LEMMA QueryType ==
    ASSUME TypeInv, NEW j \in Jobs, Query(j)
    PROVE  TypeInv'
<1> DEFINE v == [stage |-> "enrich", changed |-> {Entry(j, r) : r \in Found(j)},
                 roas |-> jobs[j].roas, filter |-> jobs[j].filter]
<1>1. ASSUME NEW r \in Found(j)
      PROVE  Entry(j, r) \in Change /\ Entry(j, r).new \in StatusOf(j)
  <2>1. r \in Routes /\ rows[r] # None
    BY DEF Found
  <2>2. rows[r] \in Row /\ OldStatus(j, r) \in StatusOf(j) /\ NewStatus(j, r) \in StatusOf(j)
    BY <2>1, ChangeTypes
  <2>3. StatusOf(j) \subseteq Status
    BY DEF StatusOf, Status
  <2>4. rows[r].id \in Nat
    BY <2>2 DEF Row
  <2> QED
    BY <2>1, <2>2, <2>3, <2>4 DEF Entry, Change
<1>2. jobs[j].roas \subseteq Roa /\ jobs[j].filter \in Filter
  BY JobTypes DEF Query
<1>3. {Entry(j, r) : r \in Found(j)} \subseteq Change
  BY <1>1
<1>4. v \in Job /\ \A c \in v.changed : c.new \in StatusOf(j)
  BY <1>1, <1>2, <1>3 DEF Job
<1>5. jobs' = [jobs EXCEPT ![j] = v]
  BY DEF Query
<1> HIDE DEF v
<1>6. /\ jobs' \in [Jobs -> Job \union {None}]
      /\ \A i \in Jobs : jobs'[i] # None => \A c \in jobs'[i].changed : c.new \in StatusOf(i)
  BY <1>4, <1>5, JobReplaced
<1>7. UNCHANGED <<scenario, file, filter, writer, roas, rows, follower, nextId, overtaken>>
  BY DEF Query, UnchangedInputs, databaseVars, ghostVars
<1> QED
  BY <1>6, <1>7 DEF TypeInv

\* Collecting the texts keeps the types.
LEMMA EnrichType ==
    ASSUME TypeInv, NEW j \in Jobs, Enrich(j)
    PROVE  TypeInv'
<1> DEFINE v == IF Gone(j) # {} THEN None
                ELSE [stage |-> "update", changed |-> {Enriched(j, c) : c \in jobs[j].changed},
                      roas |-> jobs[j].roas, filter |-> jobs[j].filter]
<1>1. ASSUME Gone(j) = {}, NEW c \in jobs[j].changed
      PROVE  Enriched(j, c) \in Change /\ Enriched(j, c).new \in StatusOf(j)
  <2>1. c \in Change /\ c.new \in StatusOf(j)
    BY JobTypes DEF Enrich, TypeInv
  <2>2. c.route \in Routes /\ rows[c.route] # None
    BY <1>1, <2>1 DEF Gone, Change
  <2>3. rows[c.route] \in Row /\ OtherStatus(j, c.route) \in Status
    BY <2>2, ChangeTypes
  <2>4. rows[c.route].text \in Texts
    BY <2>3 DEF Row
  <2> QED
    BY <2>1, <2>3, <2>4 DEF Enriched, Change
<1>2. jobs[j].roas \subseteq Roa /\ jobs[j].filter \in Filter
  BY JobTypes DEF Enrich
<1>3. Gone(j) = {} => {Enriched(j, c) : c \in jobs[j].changed} \subseteq Change
  BY <1>1
<1>4. v = None \/ (v \in Job /\ \A c \in v.changed : c.new \in StatusOf(j))
  BY <1>1, <1>2, <1>3 DEF Job
<1>5. jobs' = [jobs EXCEPT ![j] = v]
  BY DEF Enrich
<1> HIDE DEF v
<1>6. /\ jobs' \in [Jobs -> Job \union {None}]
      /\ \A i \in Jobs : jobs'[i] # None => \A c \in jobs'[i].changed : c.new \in StatusOf(i)
  BY <1>4, <1>5, JobReplaced
<1>7. UNCHANGED <<scenario, file, filter, writer, roas, rows, follower, nextId, overtaken>>
  BY DEF Enrich, UnchangedInputs, databaseVars, ghostVars
<1> QED
  BY <1>6, <1>7 DEF TypeInv

\* An import of ROAs keeps the types.
LEMMA ImportType ==
    ASSUME TypeInv, ImportRoas
    PROVE  TypeInv'
<1>1. "ROA" \in Jobs
  BY DEF Jobs
<1>2. Imported(file) \subseteq Roa
  BY ImportedRoas, SuppressionAssumption DEF TypeInv
<1>3. roas' \subseteq Roa
  BY <1>2, ImportedJobs DEF TypeInv
<1> DEFINE v == [stage |-> "query", changed |-> jobs["ROA"].changed,
                 roas |-> Imported(file), filter |-> jobs["ROA"].filter]
<1>4. v \in Job /\ \A c \in v.changed : c.new \in StatusOf("ROA")
  <2>1. jobs["ROA"] # None
    BY DEF ImportRoas
  <2>2. jobs["ROA"].changed \subseteq Change /\ jobs["ROA"].filter \in Filter
    BY <1>1, <2>1, JobTypes
  <2> QED
    BY <1>1, <1>2, <2>1, <2>2 DEF Job, TypeInv
<1>5. jobs' = [jobs EXCEPT !["ROA"] = None] \/ jobs' = [jobs EXCEPT !["ROA"] = v]
  BY ImportedJobs
<1> HIDE DEF v
<1>6. /\ jobs' \in [Jobs -> Job \union {None}]
      /\ \A i \in Jobs : jobs'[i] # None => \A c \in jobs'[i].changed : c.new \in StatusOf(i)
  BY <1>1, <1>4, <1>5, JobReplaced
<1>7. UNCHANGED <<scenario, file, filter, writer, rows, follower, nextId, overtaken>>
  BY DEF ImportRoas, UnchangedInputs, ghostVars
<1> QED
  BY <1>3, <1>6, <1>7 DEF TypeInv

\* A row with another status.
WithStatus(j, row, status) ==
    IF j = "ROA" THEN [row EXCEPT !.rpki = status] ELSE [row EXCEPT !.scope = status]

\* A row with another status is otherwise the same.
LEMMA WithStatusFields ==
    ASSUME NEW j \in Jobs, NEW row \in Row, NEW status \in StatusOf(j)
    PROVE  /\ WithStatus(j, row, status) \in Row
           /\ WithStatus(j, row, status).id = row.id
           /\ WithStatus(j, row, status).text = row.text
           /\ WithStatus(j, row, status).rpki = IF j = "ROA" THEN status ELSE row.rpki
           /\ WithStatus(j, row, status).scope = IF j = "ROA" THEN row.scope ELSE status
<1>1. CASE j = "ROA"
  BY <1>1 DEF WithStatus, StatusOf, Row
<1>2. CASE j # "ROA"
  BY <1>2 DEF WithStatus, StatusOf, Row
<1> QED
  BY <1>1, <1>2

\* A job gives a row the status of an entry that concerns it, and leaves the others
\* alone.
LEMMA UpdatedRow ==
    ASSUME TypeInv, NEW j \in Jobs, Update(j), NEW r \in Routes
    PROVE  LET C == {c \in jobs[j].changed : rows[r] # None /\ Concerns(j, c, r)}
           IN  /\ C = {} => rows'[r] = rows[r]
               /\ C # {} => \E c \in C : /\ rows'[r] = WithStatus(j, rows[r], c.new)
                                         /\ rows[r] \in Row /\ c.new \in StatusOf(j)
<1> DEFINE C == {c \in jobs[j].changed : rows[r] # None /\ Concerns(j, c, r)}
<1>1. C = {c \in jobs[j].changed : rows[r] # None /\ Updates(j, c) /\ Concerns(j, c, r)}
  BY DEF Updates
<1>2. rows'[r] = IF C = {} THEN rows[r] ELSE WithStatus(j, rows[r], LastStatus(C))
  BY <1>1 DEF Update, WithStatus
<1>3. \A c \in C : rows[r] \in Row /\ c.new \in StatusOf(j)
  BY DEF Update, TypeInv
<1>4. C # {} => \E c \in C : LastStatus(C) = c.new
  <2>1. C # {} => (CHOOSE c \in C : TRUE) \in C
    OBVIOUS
  <2> HIDE DEF C
  <2> QED
    BY <2>1 DEF LastStatus
<1> HIDE DEF C
<1>5. /\ C = {} => rows'[r] = rows[r]
      /\ C # {} => \E c \in C : /\ rows'[r] = WithStatus(j, rows[r], c.new)
                                /\ rows[r] \in Row /\ c.new \in StatusOf(j)
  BY <1>2, <1>3, <1>4
<1> QED
  BY <1>5 DEF C

\* The journal entry of a job for a route.
LEMMA RecordedRoute ==
    ASSUME TypeInv, NEW j \in Jobs, Update(j), NEW r \in Routes
    PROVE  LET C == {c \in jobs[j].changed : c.route = r
                         /\ ChangeVisible(j, c, c.old) # ChangeVisible(j, c, c.new)}
           IN  /\ C = {} => follower'[r] = follower[r]
               /\ C # {} => \E c \in C : follower'[r] =
                                IF ChangeVisible(j, c, c.new) THEN c.text ELSE None
<1> DEFINE C == {c \in jobs[j].changed : c.route = r
                     /\ ChangeVisible(j, c, c.old) # ChangeVisible(j, c, c.new)}
           Journal(c) == IF ChangeVisible(j, c, c.new) THEN c.text ELSE None
<1>1. follower'[r] = IF C = {} THEN follower[r] ELSE Journal(CHOOSE c \in C : TRUE)
  BY DEF Update, Recorded
<1>2. C # {} => (CHOOSE c \in C : TRUE) \in C
  OBVIOUS
<1> HIDE DEF C, Journal
<1>3. /\ C = {} => follower'[r] = follower[r]
      /\ C # {} => \E c \in C : follower'[r] = Journal(c)
  BY <1>1, <1>2
<1> QED
  BY <1>3 DEF C, Journal

\* An update of statuses keeps the types.
LEMMA UpdateType ==
    ASSUME TypeInv, NEW j \in Jobs, Update(j)
    PROVE  TypeInv'
<1>1. rows' \in [Routes -> Row \union {None}]
  <2>1. ASSUME NEW r \in Routes
        PROVE  rows'[r] \in Row \union {None}
    <3>1. rows[r] \in Row \union {None}
      BY DEF TypeInv
    <3>2. \/ rows'[r] = rows[r]
          \/ \E c \in jobs[j].changed : /\ rows'[r] = WithStatus(j, rows[r], c.new)
                                        /\ rows[r] \in Row /\ c.new \in StatusOf(j)
      BY UpdatedRow
    <3> QED
      BY <3>1, <3>2, WithStatusFields
  <2>2. rows' = [r \in Routes |-> rows'[r]]
    BY DEF Update
  <2> QED
    BY <2>1, <2>2
<1>2. follower' \in [Routes -> Texts \union {None}]
  <2>1. ASSUME NEW r \in Routes
        PROVE  follower'[r] \in Texts \union {None}
    <3>1. follower[r] \in Texts \union {None}
      BY DEF TypeInv
    <3>2. \A c \in jobs[j].changed : c.text \in Texts \union {None}
      BY JobTypes DEF Update, Change
    <3>3. \/ follower'[r] = follower[r]
          \/ \E c \in jobs[j].changed :
                follower'[r] = IF ChangeVisible(j, c, c.new) THEN c.text ELSE None
      BY RecordedRoute
    <3> QED
      BY <3>1, <3>2, <3>3
  <2>2. follower' = [r \in Routes |-> follower'[r]]
    BY DEF Update, Recorded
  <2> QED
    BY <2>1, <2>2
<1>3. overtaken' \in SUBSET Routes
  <2>1. Misdirected(j) \subseteq Routes
    BY DEF Misdirected
  <2>2. \A k \in Jobs : Listed(k) \subseteq Routes
    <3>1. ASSUME NEW k \in Jobs, Reading(k), NEW c \in jobs[k].changed
          PROVE  c.route \in Routes
      BY <3>1, JobTypes DEF Reading, Change
    <3> QED
      BY <3>1 DEF Listed
  <2>3. UNION {Listed(j) \intersect Listed(k) : k \in Jobs \ {j}} \subseteq Routes
    BY <2>2
  <2> QED
    BY <2>1, <2>3 DEF Update, TypeInv
<1>4. jobs' = [jobs EXCEPT ![j] = None]
  BY DEF Update
<1>5. /\ jobs' \in [Jobs -> Job \union {None}]
      /\ \A i \in Jobs : jobs'[i] # None => \A c \in jobs'[i].changed : c.new \in StatusOf(i)
  BY <1>4, JobReplaced
<1>6. UNCHANGED <<scenario, file, filter, writer, roas, nextId>>
  BY DEF Update, UnchangedInputs
<1> QED
  BY <1>1, <1>2, <1>3, <1>5, <1>6 DEF TypeInv

\* The row that a transaction saves.
SavedRow ==
    [id |-> IF rows[writer.route] = None THEN nextId ELSE rows[writer.route].id,
     text |-> writer.text, rpki |-> writer.rpki, scope |-> writer.scope]

\* What a transaction saves is a row.
LEMMA SavedRowType ==
    ASSUME TypeInv, Save
    PROVE  writer \in Written /\ writer.route \in Routes /\ SavedRow \in Row
<1>1. writer \in Written
  BY DEF Save, TypeInv
<1>2. /\ writer.route \in Routes /\ writer.text \in Texts
      /\ writer.rpki \in RpkiStatus /\ writer.scope \in ScopeFilterStatus
  BY <1>1 DEF Written
<1>3. rows[writer.route] = None \/ rows[writer.route] \in Row
  BY <1>2 DEF TypeInv
<1>4. nextId \in Nat
  BY DEF TypeInv
<1>5. (IF rows[writer.route] = None THEN nextId ELSE rows[writer.route].id) \in Nat
  BY <1>3, <1>4 DEF Row
<1> QED
  BY <1>1, <1>2, <1>5 DEF SavedRow, Row

\* Saving a route keeps the types.
LEMMA SaveType ==
    ASSUME TypeInv, Save
    PROVE  TypeInv'
<1>1. writer.route \in Routes /\ SavedRow \in Row
  BY SavedRowType
<1>2. rows' = [rows EXCEPT ![writer.route] = SavedRow]
  BY DEF Save, SavedRow
<1>3. follower' = follower \/ follower' = [follower EXCEPT ![writer.route] = SavedRow.text]
  BY DEF Save, SavedRow
<1>4. overtaken' \subseteq overtaken \union {writer.route}
  BY DEF Save
<1>5. nextId' \in Nat
  BY DEF Save, TypeInv
<1>6. SavedRow.text \in Texts
  BY <1>1 DEF Row
<1>7. rows' \in [Routes -> Row \union {None}] /\ follower' \in [Routes -> Texts \union {None}]
  BY <1>1, <1>2, <1>3, <1>6 DEF TypeInv
<1>8. UNCHANGED <<scenario, file, filter, roas, jobs>> /\ writer' = None
  BY DEF Save
<1> QED
  BY <1>1, <1>4, <1>5, <1>7, <1>8 DEF TypeInv

\* Deleting a route keeps the types.
LEMMA DeleteType ==
    ASSUME TypeInv, NEW r \in Routes, Delete(r)
    PROVE  TypeInv'
<1>1. rows' \in [Routes -> Row \union {None}] /\ follower' \in [Routes -> Texts \union {None}]
  BY DEF Delete, TypeInv
<1>2. overtaken' \subseteq overtaken \union {r}
  BY DEF Delete
<1>3. UNCHANGED <<scenario, file, filter, roas, jobs, writer, nextId>>
  BY DEF Delete
<1> QED
  BY <1>1, <1>2, <1>3 DEF TypeInv

\* Validating a route keeps the types.
LEMMA ValidateType ==
    ASSUME TypeInv, NEW r \in Routes, NEW t \in Texts, Validate(r, t)
    PROVE  TypeInv'
<1>1. SingleValidate(roas, r) \in RpkiStatus /\ ScopeStatus(filter, r) \in ScopeFilterStatus
  BY StatusTypes
<1>2. "not_found" \in RpkiStatus /\ "in_scope" \in ScopeFilterStatus
  BY DEF RpkiStatus, ScopeFilterStatus
<1>3. writer' \in Written
  BY <1>1, <1>2 DEF Validate, Written
<1>4. UNCHANGED <<scenario, file, filter, roas, rows, follower, jobs, nextId, overtaken>>
  BY DEF Validate, databaseVars, ghostVars
<1> QED
  BY <1>3, <1>4 DEF TypeInv

\* Steps of the scheduler, failures, and changes of the settings and of the ROA file.
Other ==
    \/ SchedulerRun \/ Restart \/ ReloadConfiguration \/ PublishRoas
    \/ \E j \in Jobs : Fail(j)

\* They start jobs that have read nothing, or end jobs.
LEMMA OtherJobs ==
    ASSUME TypeInv, Other
    PROVE  /\ UNCHANGED <<scenario, databaseVars, overtaken>>
           /\ jobs' \in [Jobs -> Job \union {None}]
           /\ \A j \in Jobs : \/ jobs'[j] = jobs[j]
                               \/ jobs'[j] = None
                               \/ /\ jobs'[j].changed = {}
                                  /\ jobs'[j].stage \in {"import", "query"}
<1>1. CASE SchedulerRun
  <2>1. \A j \in Jobs : NewJob(j) \in Job
    <3>1. filter \in Filter
      BY SuppressionAssumption DEF TypeInv
    <3> QED
      BY <3>1 DEF NewJob, Job
  <2>2. \A j \in Jobs : jobs'[j] = jobs[j] \/ jobs'[j] = NewJob(j)
    BY <1>1 DEF SchedulerRun
  <2>3. jobs' = [j \in Jobs |-> jobs'[j]]
    BY <1>1 DEF SchedulerRun
  <2>4. \A j \in Jobs : jobs[j] \in Job \union {None}
    BY DEF TypeInv
  <2>5. jobs' \in [Jobs -> Job \union {None}]
    BY <2>1, <2>2, <2>3, <2>4
  <2>6. \A j \in Jobs : NewJob(j).changed = {} /\ NewJob(j).stage \in {"import", "query"}
    BY DEF NewJob
  <2>7. UNCHANGED <<scenario, databaseVars, overtaken>>
    BY <1>1 DEF SchedulerRun
  <2> QED
    BY <2>2, <2>5, <2>6, <2>7
<1>2. CASE Restart
  BY <1>2 DEF Restart, ghostVars
<1>3. CASE ReloadConfiguration \/ PublishRoas
  BY <1>3 DEF ReloadConfiguration, PublishRoas, ghostVars, TypeInv
<1>4. CASE \E j \in Jobs : Fail(j)
  BY <1>4 DEF Fail, UnchangedInputs, TypeInv
<1> QED
  BY <1>1, <1>2, <1>3, <1>4 DEF Other

\* The other steps keep the types.
LEMMA OtherType ==
    ASSUME TypeInv, Other
    PROVE  TypeInv'
<1>1. /\ file' \in Setup[scenario].files /\ filter' \in Setup[scenario].filters
      /\ writer' \in Written \union {None}
  BY DEF Other, SchedulerRun, Restart, ReloadConfiguration, PublishRoas, Fail, UnchangedInputs,
         TypeInv
<1>2. /\ UNCHANGED <<scenario, roas, rows, follower, nextId, overtaken>>
      /\ jobs' \in [Jobs -> Job \union {None}]
  BY OtherJobs DEF databaseVars
<1>3. \A j \in Jobs : jobs'[j] # None => \A c \in jobs'[j].changed : c.new \in StatusOf(j)
  BY OtherJobs DEF TypeInv
<1> QED
  BY <1>1, <1>2, <1>3 DEF TypeInv

-----------------------------------------------------------------------------
(* Jobs that are not overtaken *)

\* A job keeps its entries up to date while their rows stay as they are, or are
\* marked as overtaken.
LEMMA JobKept ==
    ASSUME NEW j \in Jobs, JobOK(j), jobs'[j] = jobs[j], overtaken \subseteq overtaken',
           Reading(j) => \A c \in jobs[j].changed :
                            c.route \notin overtaken' => rows'[c.route] = rows[c.route]
    PROVE  JobOK(j)'
<1>1. Reading(j)' <=> Reading(j)
  BY DEF Reading
<1>2. SUFFICES ASSUME Reading(j)
               PROVE  /\ OneEntry(j)'
                      /\ \A c \in jobs[j].changed : c.route \notin overtaken' => UpToDate(j, c)'
  BY <1>1 DEF JobOK
<1>3. OneEntry(j)'
  BY <1>2 DEF JobOK, OneEntry
<1>4. ASSUME NEW c \in jobs[j].changed, c.route \notin overtaken'
      PROVE  UpToDate(j, c)'
  <2>1. rows'[c.route] = rows[c.route] /\ UpToDate(j, c)
    BY <1>2, <1>4 DEF JobOK
  <2> QED
    BY <2>1 DEF UpToDate, OldStatus, OtherStatus
<1> QED
  BY <1>3, <1>4

\* A job that does not read routes, or has none in its list.
LEMMA JobEmpty ==
    ASSUME NEW j \in Jobs,
           jobs'[j] = None \/ jobs'[j].stage \notin {"enrich", "update"}
    PROVE  JobOK(j)'
  BY DEF JobOK, Reading

\* What a job reads agrees with the database.
LEMMA QueryJobs ==
    ASSUME TypeInv, JobInv, NEW j \in Jobs, Query(j)
    PROVE  JobInv'
<1>1. UNCHANGED <<rows, overtaken>>
  BY DEF Query, databaseVars, ghostVars
<1>2. ASSUME NEW k \in Jobs, k # j
      PROVE  JobOK(k)'
  <2>1. jobs'[k] = jobs[k]
    BY <1>2 DEF Query, TypeInv
  <2> QED
    BY <1>1, <2>1, JobKept DEF JobInv
<1>3. JobOK(j)'
  <2> DEFINE L == {Entry(j, r) : r \in Found(j)}
  <2>1. jobs'[j].changed = L /\ jobs'[j].stage = "enrich"
    BY DEF Query, TypeInv
  <2>2. \A c \in L : \E r \in Found(j) : c = Entry(j, r)
    OBVIOUS
  <2>3. \A r \in Found(j) : Entry(j, r).route = r
    BY DEF Entry
  <2>4. OneEntry(j)'
    BY <2>1, <2>2, <2>3 DEF OneEntry
  <2>5. ASSUME NEW r \in Found(j), NEW c, c = Entry(j, r)
        PROVE  UpToDate(j, c)'
    <3>1. rows[r] # None
      BY DEF Found
    <3> QED
      BY <1>1, <2>1, <2>5, <3>1 DEF UpToDate, Entry, OldStatus
  <2>6. \A c \in L : UpToDate(j, c)'
    BY <2>2, <2>5
  <2>7. \A c \in jobs'[j].changed : UpToDate(j, c)'
    BY <2>1, <2>6
  <2> HIDE DEF L
  <2> QED
    BY <2>4, <2>7 DEF JobOK
<1> QED
  BY <1>2, <1>3 DEF JobInv

\* The texts a job collects are those of the rows that nobody has touched.
LEMMA EnrichJobs ==
    ASSUME TypeInv, JobInv, NEW j \in Jobs, Enrich(j)
    PROVE  JobInv'
<1>1. UNCHANGED <<rows, overtaken>>
  BY DEF Enrich, databaseVars
<1>2. ASSUME NEW k \in Jobs, k # j
      PROVE  JobOK(k)'
  <2>1. jobs'[k] = jobs[k]
    BY <1>2 DEF Enrich, TypeInv
  <2> QED
    BY <1>1, <2>1, JobKept DEF JobInv
<1>3. JobOK(j)'
  <2>1. CASE Gone(j) # {}
    <3>1. jobs'[j] = None
      BY <2>1 DEF Enrich, TypeInv
    <3> QED
      BY <3>1, JobEmpty
  <2>2. CASE Gone(j) = {}
    <3> DEFINE old == jobs[j].changed
               L == {Enriched(j, c) : c \in old}
    <3>1. jobs'[j].changed = L /\ jobs'[j].stage = "update"
      BY <2>2 DEF Enrich, TypeInv
    <3>2. OneEntry(j) /\ \A c \in old : c.route \notin overtaken => UpToDate(j, c)
      BY DEF Enrich, JobInv, JobOK, Reading
    <3>3. \A e \in L : \E c \in old : e = Enriched(j, c)
      OBVIOUS
    <3>4. \A c \in old : Enriched(j, c).route = c.route
      BY DEF Enriched
    <3>5. OneEntry(j)'
      BY <3>1, <3>2, <3>3, <3>4 DEF OneEntry
    <3>6. ASSUME NEW c \in old, c.route \notin overtaken, NEW e, e = Enriched(j, c)
          PROVE  UpToDate(j, e)'
      <4>1. UpToDate(j, c)
        BY <3>2, <3>6
      <4> QED
        BY <1>1, <3>6, <4>1 DEF UpToDate, Enriched, OldStatus, OtherStatus
    <3>7. \A e \in L : e.route \notin overtaken => UpToDate(j, e)'
      BY <3>3, <3>4, <3>6
    <3>8. \A e \in jobs'[j].changed : e.route \notin overtaken' => UpToDate(j, e)'
      BY <1>1, <3>1, <3>7
    <3> HIDE DEF L
    <3> QED
      BY <3>5, <3>8 DEF JobOK
  <2> QED
    BY <2>1, <2>2
<1> QED
  BY <1>2, <1>3 DEF JobInv

\* A row that a job changes and that is not marked as overtaken is in its list, and
\* gets the new status of its entry.
LEMMA UpdateKnown ==
    ASSUME TypeInv, JobInv, NEW j \in Jobs, Update(j), NEW r \in Routes, r \notin overtaken'
    PROVE  /\ r \notin Listed(j) => rows'[r] = rows[r]
           /\ \A c \in jobs[j].changed : c.route = r =>
                  /\ rows[r] \in Row /\ c.new \in StatusOf(j)
                  /\ rows'[r] = WithStatus(j, rows[r], c.new)
<1>1. Reading(j) /\ OneEntry(j)
  BY DEF Update, Reading, JobInv, JobOK
<1>2. r \notin overtaken /\ r \notin Misdirected(j)
  BY DEF Update
<1>3. \A c \in jobs[j].changed : rows[r] # None /\ Concerns(j, c, r) => c.new = Intended(j, r)
  BY <1>2 DEF Misdirected
<1>4. ASSUME r \notin Listed(j)
      PROVE  rows'[r] = rows[r]
  <2>1. \A c \in jobs[j].changed : rows[r] # None /\ Concerns(j, c, r) => c.new = OldStatus(j, r)
    BY <1>3, <1>4 DEF Intended
  <2>2. CASE \E c \in jobs[j].changed : rows[r] # None /\ Concerns(j, c, r)
    <3>1. /\ rows'[r] = WithStatus(j, rows[r], OldStatus(j, r))
          /\ rows[r] \in Row /\ OldStatus(j, r) \in StatusOf(j)
      BY <2>1, <2>2, UpdatedRow
    <3> QED
      BY <3>1 DEF WithStatus, OldStatus, Row
  <2>3. CASE ~\E c \in jobs[j].changed : rows[r] # None /\ Concerns(j, c, r)
    BY <2>3, UpdatedRow
  <2> QED
    BY <2>2, <2>3
<1>5. ASSUME NEW c \in jobs[j].changed, c.route = r
      PROVE  /\ rows[r] \in Row /\ c.new \in StatusOf(j)
             /\ rows'[r] = WithStatus(j, rows[r], c.new)
  <2>1. UpToDate(j, c)
    BY <1>1, <1>2, <1>5 DEF JobInv, JobOK
  <2>2. rows[r] # None /\ Concerns(j, c, r)
    BY <1>5, <2>1 DEF UpToDate, Concerns
  <2>3. r \in Listed(j)
    BY <1>1, <1>5 DEF Listed
  <2>4. Intended(j, r) = c.new
    <3>1. (CHOOSE d \in jobs[j].changed : d.route = r) = c
      BY <1>1, <1>5 DEF OneEntry
    <3> QED
      BY <2>3, <3>1 DEF Intended
  <2>5. \E d \in jobs[j].changed : /\ rows[r] # None /\ Concerns(j, d, r)
                                   /\ rows'[r] = WithStatus(j, rows[r], d.new)
                                   /\ rows[r] \in Row /\ d.new \in StatusOf(j)
    BY <2>2, UpdatedRow
  <2> QED
    BY <1>3, <2>4, <2>5
<1> QED
  BY <1>4, <1>5

\* The updates of one job agree with what the other has read.
LEMMA UpdateJobs ==
    ASSUME TypeInv, JobInv, NEW j \in Jobs, Update(j)
    PROVE  JobInv'
<1>1. jobs' = [jobs EXCEPT ![j] = None] /\ overtaken \subseteq overtaken'
  BY DEF Update
<1>2. JobOK(j)'
  BY <1>1, JobEmpty DEF TypeInv
<1>3. ASSUME NEW k \in Jobs, k # j
      PROVE  JobOK(k)'
  <2>1. jobs'[k] = jobs[k]
    BY <1>1, <1>3 DEF TypeInv
  <2>2. Listed(j) \intersect Listed(k) \subseteq overtaken'
    BY <1>3 DEF Update
  <2>3. ASSUME Reading(k), NEW c \in jobs[k].changed, c.route \notin overtaken'
        PROVE  rows'[c.route] = rows[c.route]
    <3>1. c.route \in Routes
      BY <2>3, JobTypes DEF Reading, Change
    <3>2. c.route \in Listed(k)
      BY <2>3 DEF Listed
    <3>3. c.route \notin Listed(j)
      BY <2>2, <2>3, <3>2
    <3> QED
      BY <2>3, <3>1, <3>3, UpdateKnown
  <2> QED
    BY <1>1, <2>1, <2>3, JobKept DEF JobInv
<1> QED
  BY <1>2, <1>3 DEF JobInv

\* What a job records is what becomes of the visibility of the rows it changes.
LEMMA UpdateFollows ==
    ASSUME TypeInv, JobInv, MirrorsFollow, NEW j \in Jobs, Update(j)
    PROVE  MirrorsFollow'
<1> SUFFICES ASSUME NEW r \in Routes, r \notin overtaken'
             PROVE  follower'[r] = VisibleText(rows'[r])
  BY DEF MirrorsFollow, VisibleText
<1>1. Reading(j) /\ OneEntry(j) /\ jobs[j].stage = "update"
  BY DEF Update, Reading, JobInv, JobOK
<1>2. r \notin overtaken
  BY DEF Update
<1>3. follower[r] = VisibleText(rows[r])
  BY <1>2 DEF MirrorsFollow
<1>4. CASE r \notin Listed(j)
  <2>1. \A c \in jobs[j].changed : c.route # r
    BY <1>1, <1>4 DEF Listed
  <2>2. follower'[r] = follower[r]
    BY <2>1, RecordedRoute
  <2>3. rows'[r] = rows[r]
    BY <1>4, UpdateKnown
  <2> QED
    BY <1>3, <2>2, <2>3
<1>5. CASE r \in Listed(j)
  <2>1. PICK c \in jobs[j].changed : c.route = r
    BY <1>1, <1>5 DEF Listed
  <2>2. /\ rows[r] \in Row /\ c.new \in StatusOf(j)
        /\ rows'[r] = WithStatus(j, rows[r], c.new)
    BY <2>1, UpdateKnown
  <2>3. UpToDate(j, c)
    BY <1>1, <1>2, <2>1 DEF JobInv, JobOK
  <2>4. OldStatus(j, r) = c.old /\ rows[r].text = c.text /\ OtherStatus(j, r) = c.other
    BY <1>1, <2>1, <2>3 DEF UpToDate
  <2>5. Visible(rows[r].rpki, rows[r].scope) = ChangeVisible(j, c, c.old)
    BY <2>4 DEF OldStatus, OtherStatus, ChangeVisible
  <2>6. /\ Visible(rows'[r].rpki, rows'[r].scope) = ChangeVisible(j, c, c.new)
        /\ rows'[r].text = c.text
    BY <2>2, <2>4, WithStatusFields DEF OtherStatus, ChangeVisible
  <2>7. rows[r] # None /\ rows'[r] # None
    <3>1. rows'[r] \in Row
      BY <2>2, WithStatusFields
    <3> QED
      BY <2>2, <3>1, SuppressionAssumption
  <2>8. VisibleText(rows[r]) = IF ChangeVisible(j, c, c.old) THEN c.text ELSE None
    BY <2>4, <2>5, <2>7 DEF VisibleText
  <2>9. VisibleText(rows'[r]) = IF ChangeVisible(j, c, c.new) THEN c.text ELSE None
    BY <2>6, <2>7 DEF VisibleText
  <2>10. \A d \in jobs[j].changed : d.route = r => d = c
    BY <1>1, <2>1 DEF OneEntry
  <2>11. CASE ChangeVisible(j, c, c.old) = ChangeVisible(j, c, c.new)
    <3>1. follower'[r] = follower[r]
      BY <2>10, <2>11, RecordedRoute
    <3> QED
      BY <1>3, <2>8, <2>9, <2>11, <3>1
  <2>12. CASE ChangeVisible(j, c, c.old) # ChangeVisible(j, c, c.new)
    <3>1. \E d \in jobs[j].changed :
             d.route = r /\ follower'[r] = IF ChangeVisible(j, d, d.new) THEN d.text ELSE None
      BY <2>1, <2>12, RecordedRoute
    <3> QED
      BY <2>9, <2>10, <3>1
  <2> QED
    BY <2>11, <2>12
<1> QED
  BY <1>4, <1>5

-----------------------------------------------------------------------------
(* Transactions that write routes *)

\* A write of a route that no job has listed leaves the entries up to date.
LEMMA WriteJobs ==
    ASSUME TypeInv, JobInv, NEW r \in Routes, NEW v, rows' = [rows EXCEPT ![r] = v],
           jobs' = jobs, overtaken \subseteq overtaken',
           (\E j \in Jobs : r \in Listed(j)) => r \in overtaken'
    PROVE  JobInv'
<1> SUFFICES ASSUME NEW j \in Jobs
             PROVE  JobOK(j)'
  BY DEF JobInv
<1>1. ASSUME Reading(j), NEW c \in jobs[j].changed, c.route \notin overtaken'
      PROVE  rows'[c.route] = rows[c.route]
  <2>1. c.route \in Routes
    BY <1>1, JobTypes DEF Reading, Change
  <2>2. c.route \in Listed(j)
    BY <1>1 DEF Listed
  <2>3. c.route # r
    BY <1>1, <2>2
  <2> QED
    BY <2>1, <2>3 DEF TypeInv
<1> QED
  BY <1>1, JobKept DEF JobInv

\* Saving a route keeps the invariant: the route is overtaken if a job has read it.
LEMMA SaveInv ==
    ASSUME TypeInv, JobInv, MirrorsFollow, Save
    PROVE  JobInv' /\ MirrorsFollow'
<1> DEFINE r == writer.route
<1>1. r \in Routes /\ SavedRow \in Row
  BY SavedRowType
<1>2. rows' = [rows EXCEPT ![r] = SavedRow]
  BY DEF Save, SavedRow
<1>3. jobs' = jobs
  BY DEF Save
<1>4. overtaken' = overtaken \union
         (IF (\E j \in Jobs : r \in Listed(j)) \/ (VisibleText(SavedRow) = None /\ follower[r] # None)
          THEN {r} ELSE {})
  BY DEF Save, SavedRow
<1>5. follower' = IF VisibleText(SavedRow) = None THEN follower
                  ELSE [follower EXCEPT ![r] = SavedRow.text]
  BY DEF Save, SavedRow
<1> HIDE DEF r
<1>6. JobInv'
  BY <1>1, <1>2, <1>3, <1>4, WriteJobs
<1>7. ASSUME NEW q \in Routes, q \notin overtaken'
      PROVE  follower'[q] = VisibleText(rows'[q])
  <2>1. follower[q] = VisibleText(rows[q])
    BY <1>4, <1>7 DEF MirrorsFollow
  <2>2. CASE q # r
    BY <1>2, <1>5, <2>1, <2>2 DEF TypeInv
  <2>3. CASE q = r
    <3>1. rows'[q] = SavedRow
      BY <1>1, <1>2, <2>3 DEF TypeInv
    <3>2. CASE VisibleText(SavedRow) = None
      BY <1>4, <1>5, <1>7, <2>3, <3>1, <3>2
    <3>3. CASE VisibleText(SavedRow) # None
      <4>1. VisibleText(SavedRow) = SavedRow.text
        BY <3>3 DEF VisibleText
      <4> QED
        BY <1>1, <1>5, <2>3, <3>1, <3>3, <4>1 DEF TypeInv
    <3> QED
      BY <3>2, <3>3
  <2> QED
    BY <2>2, <2>3
<1> QED
  BY <1>6, <1>7 DEF MirrorsFollow, VisibleText

\* Deleting a route keeps the invariant.
LEMMA DeleteInv ==
    ASSUME TypeInv, JobInv, MirrorsFollow, NEW r \in Routes, Delete(r)
    PROVE  JobInv' /\ MirrorsFollow'
<1>1. rows' = [rows EXCEPT ![r] = None] /\ follower' = [follower EXCEPT ![r] = None]
  BY DEF Delete
<1>2. jobs' = jobs
  BY DEF Delete
<1>3. overtaken' = overtaken \union (IF \E j \in Jobs : r \in Listed(j) THEN {r} ELSE {})
  BY DEF Delete
<1>4. JobInv'
  BY <1>1, <1>2, <1>3, WriteJobs
<1>5. ASSUME NEW q \in Routes, q \notin overtaken'
      PROVE  follower'[q] = VisibleText(rows'[q])
  <2>1. follower[q] = VisibleText(rows[q])
    BY <1>3, <1>5 DEF MirrorsFollow
  <2>2. CASE q # r
    BY <1>1, <2>1, <2>2 DEF TypeInv
  <2>3. CASE q = r
    BY <1>1, <2>3 DEF TypeInv, VisibleText
  <2> QED
    BY <2>2, <2>3
<1> QED
  BY <1>4, <1>5 DEF MirrorsFollow, VisibleText

\* Steps that leave the database alone, and jobs that read nothing.
LEMMA OtherInv ==
    ASSUME TypeInv, JobInv, MirrorsFollow, UNCHANGED <<rows, follower, overtaken>>,
           \A j \in Jobs : \/ jobs'[j] = jobs[j]
                           \/ jobs'[j] = None
                           \/ jobs'[j].stage \in {"import", "query"}
    PROVE  JobInv' /\ MirrorsFollow'
<1>1. MirrorsFollow'
  BY DEF MirrorsFollow, VisibleText
<1>2. ASSUME NEW j \in Jobs
      PROVE  JobOK(j)'
  <2>1. CASE jobs'[j] = jobs[j]
    BY <2>1, JobKept DEF JobInv
  <2>2. CASE jobs'[j] = None \/ jobs'[j].stage \in {"import", "query"}
    BY <2>2, JobEmpty
  <2> QED
    BY <2>1, <2>2
<1> QED
  BY <1>1, <1>2 DEF JobInv

-----------------------------------------------------------------------------
(* Theorems *)

\* The invariant holds at the start.
LEMMA SuppressionInit == Init => SuppressionInv
<1> SUFFICES ASSUME Init PROVE SuppressionInv
  OBVIOUS
<1>1. TypeInv
  BY TypeInit
<1>2. JobInv
  BY DEF Init, JobInv, JobOK, Reading
<1>3. MirrorsFollow
  BY DEF Init, MirrorsFollow, VisibleText
<1> QED
  BY <1>1, <1>2, <1>3 DEF SuppressionInv

\* Every step keeps the invariant.
LEMMA SuppressionNext == SuppressionInv /\ [Next]_vars => SuppressionInv'
<1> SUFFICES ASSUME SuppressionInv, [Next]_vars PROVE SuppressionInv'
  OBVIOUS
<1>0. TypeInv /\ JobInv /\ MirrorsFollow
  BY DEF SuppressionInv
<1>1. CASE ImportRoas
  <2>1. UNCHANGED <<rows, follower, overtaken>>
    BY <1>1 DEF ImportRoas, ghostVars
  <2>2. \A j \in Jobs : \/ jobs'[j] = jobs[j] \/ jobs'[j] = None
                        \/ jobs'[j].stage \in {"import", "query"}
    BY <1>0, <1>1, ImportedJobs DEF TypeInv
  <2> QED
    BY <1>0, <1>1, <2>1, <2>2, ImportType, OtherInv DEF SuppressionInv
<1>2. ASSUME NEW j \in Jobs, Query(j)
      PROVE  SuppressionInv'
  <2>1. UNCHANGED <<rows, follower, overtaken>>
    BY <1>2 DEF Query, databaseVars, ghostVars
  <2>2. MirrorsFollow'
    BY <1>0, <2>1 DEF MirrorsFollow, VisibleText
  <2> QED
    BY <1>0, <1>2, <2>2, QueryType, QueryJobs DEF SuppressionInv
<1>3. ASSUME NEW j \in Jobs, Enrich(j)
      PROVE  SuppressionInv'
  <2>1. UNCHANGED <<rows, follower, overtaken>>
    BY <1>3 DEF Enrich, databaseVars
  <2>2. MirrorsFollow'
    BY <1>0, <2>1 DEF MirrorsFollow, VisibleText
  <2> QED
    BY <1>0, <1>3, <2>2, EnrichType, EnrichJobs DEF SuppressionInv
<1>4. ASSUME NEW j \in Jobs, Update(j)
      PROVE  SuppressionInv'
  BY <1>0, <1>4, UpdateType, UpdateJobs, UpdateFollows DEF SuppressionInv
<1>5. CASE Other
  <2>1. UNCHANGED <<rows, follower, overtaken>>
    BY <1>0, <1>5, OtherJobs DEF databaseVars
  <2>2. \A j \in Jobs : \/ jobs'[j] = jobs[j] \/ jobs'[j] = None
                        \/ jobs'[j].stage \in {"import", "query"}
    BY <1>0, <1>5, OtherJobs
  <2> QED
    BY <1>0, <1>5, <2>1, <2>2, OtherType, OtherInv DEF SuppressionInv
<1>6. ASSUME NEW r \in Routes, NEW t \in Texts, Validate(r, t)
      PROVE  SuppressionInv'
  <2>1. UNCHANGED <<rows, follower, overtaken, jobs>>
    BY <1>6 DEF Validate, databaseVars, ghostVars
  <2> QED
    BY <1>0, <1>6, <2>1, ValidateType, OtherInv DEF SuppressionInv
<1>7. CASE Save
  BY <1>0, <1>7, SaveType, SaveInv DEF SuppressionInv
<1>8. ASSUME NEW r \in Routes, Delete(r)
      PROVE  SuppressionInv'
  BY <1>0, <1>8, DeleteType, DeleteInv DEF SuppressionInv
<1>9. CASE UNCHANGED vars
  <2>1. UNCHANGED <<scenario, file, filter, jobs, writer, roas, rows, follower, nextId, overtaken>>
    BY <1>9 DEF vars, databaseVars, ghostVars
  <2>2. TypeInv'
    BY <1>0, <2>1 DEF TypeInv
  <2> QED
    BY <1>0, <2>1, <2>2, OtherInv DEF SuppressionInv
<1>10. Setup[scenario].routes \subseteq Routes
  BY <1>0, SuppressionAssumption DEF TypeInv
<1>11. CASE Write
  BY <1>6, <1>7, <1>8, <1>10, <1>11 DEF Write
<1>12. ASSUME NEW j \in Jobs, Step(j)
       PROVE  SuppressionInv'
  BY <1>1, <1>2, <1>3, <1>4, <1>12 DEF Step
<1> QED
  BY <1>5, <1>9, <1>11, <1>12 DEF Next, Other

\* The invariant of the suppression of routes: the list of a running job agrees with
\* the database for every route that no other transaction has touched since.
THEOREM SuppressionInvariant == Spec => []SuppressionInv
  BY SuppressionInit, SuppressionNext, PTL DEF Spec

\* Mirrors that follow the journal see exactly the visible routes, whatever jobs and
\* transactions run, except for routes that overtook a job, became suppressed by a
\* write, or took the status of a namesake: update_rpki_status(),
\* update_scopefilter_status() and the write buffer of the database handler.
THEOREM MirrorsFollowSuppression == Spec => []MirrorsFollow
<1>1. SuppressionInv => MirrorsFollow
  BY DEF SuppressionInv
<1> QED
  BY <1>1, SuppressionInvariant, PTL

\* The tree of the bulk validator and the query of the single validator give every
\* route the same status, for every set of imported ROAs, of any length of prefix.
THEOREM ValidatorsAlwaysAgree == Spec => []ValidatorsAgree
<1>1. SuppressionInv => ValidatorsAgree
  <2> SUFFICES ASSUME SuppressionInv, NEW r \in Routes
               PROVE  BulkValidate(roas, r) = SingleValidate(roas, r)
    BY DEF ValidatorsAgree
  <2>1. r.key.prefix \in Bits
    BY SuppressionAssumption DEF Routes
  <2>2. roas \in SUBSET Roa
    BY DEF SuppressionInv, TypeInv
  <2> QED
    BY <2>1, <2>2, SameStatus
<1> QED
  BY <1>1, SuppressionInvariant, PTL
=============================================================================
