----------------------- MODULE ChangeSubmissionProofs -----------------------
(***************************************************************************)
(* Proofs about ChangeSubmission, for every set of objects, credentials    *)
(* and submissions: the validation loop ends by itself, suspensions lose   *)
(* nothing and can be undone, also when submissions overlap; and, one      *)
(* submission at a time, references resolve and changes are authorised.    *)
(***************************************************************************)
EXTENDS ChangeSubmission, FiniteSetTheorems, SequenceTheorems, WellFoundedInduction, TLAPS

-----------------------------------------------------------------------------
(* Slots and lists *)

\* A set of natural numbers that is not empty has a least element.
LEMMA LeastElement ==
    ASSUME NEW S, S \subseteq Nat, S # {}
    PROVE  Min(S) \in S
<1>1. PICK m \in S : \A y \in S : <<y, m>> \notin OpToRel(<, Nat)
  BY NatLessThanWellFounded, WFMin
<1>2. \A y \in S : ~(y < m)
  BY <1>1 DEF OpToRel
<1>3. \A y \in S : m =< y
  BY <1>2
<1> QED
  BY <1>3 DEF Min

\* What is in a list after an element is taken out.
LEMMA ListWithout ==
    ASSUME NEW S, NEW s \in Seq(S), NEW n \in DOMAIN s
    PROVE  /\ n \in 1 .. Len(s)
           /\ RemoveAt(s, n) \in Seq(S)
           /\ Len(RemoveAt(s, n)) = Len(s) - 1
           /\ \A i \in 1 .. Len(s) - 1 :
                 RemoveAt(s, n)[i] = IF i < n THEN s[i] ELSE s[i + 1]
<1> DEFINE front == SubSeq(s, 1, n - 1)
           back == SubSeq(s, n + 1, Len(s))
<1>1. Len(s) \in Nat /\ n \in 1 .. Len(s)
  BY LenProperties
<1>2. /\ front \in Seq(S) /\ Len(front) = n - 1
      /\ \A i \in 1 .. n - 1 : front[i] = s[i]
  BY <1>1, SubSeqProperties
<1>3. /\ back \in Seq(S) /\ Len(back) = Len(s) - n
      /\ \A i \in 1 .. Len(s) - n : back[i] = s[n + i]
  BY <1>1, SubSeqProperties
<1> HIDE DEF front, back
<1>4. /\ front \o back \in Seq(S)
      /\ Len(front \o back) = Len(s) - 1
      /\ \A i \in 1 .. Len(s) - 1 :
            (front \o back)[i] = IF i <= n - 1 THEN front[i] ELSE back[i - (n - 1)]
  <2>1. /\ front \o back \in Seq(S)
        /\ Len(front \o back) = Len(front) + Len(back)
        /\ \A i \in 1 .. Len(front) + Len(back) :
              (front \o back)[i] = IF i <= Len(front) THEN front[i] ELSE back[i - Len(front)]
    BY <1>2, <1>3, ConcatProperties
  <2>2. Len(front) + Len(back) = Len(s) - 1
    BY <1>1, <1>2, <1>3
  <2> QED
    BY <1>2, <2>1, <2>2
<1>5. ASSUME NEW i \in 1 .. Len(s) - 1
      PROVE  (front \o back)[i] = IF i < n THEN s[i] ELSE s[i + 1]
  <2>1. CASE i < n
    BY <1>1, <1>2, <1>4, <2>1
  <2>2. CASE ~(i < n)
    <3>1. i - (n - 1) \in 1 .. Len(s) - n /\ n + (i - (n - 1)) = i + 1 /\ ~(i <= n - 1)
      BY <1>1, <2>2
    <3>2. back[i - (n - 1)] = s[i + 1]
      BY <1>3, <3>1
    <3> QED
      BY <1>4, <2>2, <3>1, <3>2
  <2> QED
    BY <2>1, <2>2
<1> QED
  BY <1>1, <1>4, <1>5 DEF RemoveAt, front, back

\* The fields of a slot that a statement changes.
LEMMA SlotUpdates ==
    ASSUME NEW s \in Slot, NEW x, NEW z
    PROVE  /\ [s EXCEPT !.object = x] =
                 [object |-> x, suspended |-> s.suspended, protected |-> s.protected]
           /\ [s EXCEPT !.object = x, !.protected = @ \/ z] =
                 [object |-> x, suspended |-> s.suspended, protected |-> s.protected \/ z]
           /\ s.object \in Content \union {None}
           /\ s.suspended \in Seq(Content)
           /\ s.protected \in BOOLEAN
<1>1. /\ s = [object |-> s.object, suspended |-> s.suspended, protected |-> s.protected]
      /\ s.object \in Content \union {None}
      /\ s.suspended \in Seq(Content)
      /\ s.protected \in BOOLEAN
  BY DEF Slot
<1>2. [s EXCEPT !.object = x] =
          [object |-> x, suspended |-> s.suspended, protected |-> s.protected]
  BY <1>1
<1> DEFINE t == [s EXCEPT !.object = x]
<1> HIDE DEF t
<1>t. t = [object |-> x, suspended |-> s.suspended, protected |-> s.protected]
  BY <1>2 DEF t
<1>3. [s EXCEPT !.object = x, !.protected = @ \/ z] =
          [object |-> x, suspended |-> s.suspended, protected |-> s.protected \/ z]
  <2>1. [t EXCEPT !.protected = s.protected \/ z] =
          [object |-> x, suspended |-> s.suspended, protected |-> s.protected \/ z]
    BY <1>1, <1>t
  <2> QED
    BY <2>1, <1>t DEF t
<1> QED
  BY <1>1, <1>2, <1>3

-----------------------------------------------------------------------------
(* What the statements of a submission write *)

\* A process that is busy works on one of the submissions: its requests are
\* for objects of the source, changes have a text, suspensions a mntner.
LEMMA BusyFacts ==
    ASSUME TypeOK, NEW h \in Handlers, Busy(h)
    PROVE  /\ submission[h] \in Submissions
           /\ Len(Requests(h)) \in Nat
           /\ DOMAIN Requests(h) = 1 .. Len(Requests(h))
           /\ DOMAIN status[h] = 1 .. Len(Requests(h))
           /\ \A i \in 1 .. Len(Requests(h)) :
                 /\ Requests(h)[i].key \in Keys
                 /\ Requests(h)[i].kind \in {"put", "delete", "suspend", "reactivate"}
                 /\ Requests(h)[i].kind \in {"put", "delete"} => Requests(h)[i].text \in Content
                 /\ Requests(h)[i].kind \notin {"put", "delete"} => Requests(h)[i].key \in Mntners
                 /\ status[h][i] \in {"PROCESSING", "SAVED", "ERROR"}
                 /\ current[h][i] \in Content \union {None}
<1>1. submission[h] \in Submissions /\ submission[h] \in Submission
  BY SubmissionAssumption DEF TypeOK, Busy
<1>2. Requests(h) \in Seq(Request)
  BY <1>1 DEF Submission, Requests
<1>3. Len(Requests(h)) \in Nat /\ DOMAIN Requests(h) = 1 .. Len(Requests(h))
  BY <1>2, LenProperties
<1>4. /\ status[h] \in Seq({"PROCESSING", "SAVED", "ERROR"})
      /\ current[h] \in Seq(Content \union {None})
      /\ DOMAIN status[h] = 1 .. Len(Requests(h))
      /\ DOMAIN current[h] = 1 .. Len(Requests(h))
  BY DEF TypeOK, LengthsOK
<1>6. /\ \A i \in 1 .. Len(Requests(h)) : status[h][i] \in {"PROCESSING", "SAVED", "ERROR"}
      /\ \A i \in 1 .. Len(Requests(h)) : current[h][i] \in Content \union {None}
  BY <1>3, <1>4, LenProperties, ElementOfSeq
<1>5. ASSUME NEW i \in 1 .. Len(Requests(h))
      PROVE  /\ Requests(h)[i].key \in Keys
             /\ Requests(h)[i].kind \in {"put", "delete", "suspend", "reactivate"}
             /\ Requests(h)[i].kind \in {"put", "delete"} => Requests(h)[i].text \in Content
             /\ Requests(h)[i].kind \notin {"put", "delete"} => Requests(h)[i].key \in Mntners
  <2>1. Requests(h)[i] \in Request
    BY <1>2, <1>3, ElementOfSeq
  <2>2. IF Requests(h)[i].kind \in {"put", "delete"}
        THEN Requests(h)[i].text # None
        ELSE Requests(h)[i].key \in Mntners
    BY <1>1, <1>3, SubmissionAssumption DEF Requests
  <2> QED
    BY <2>1, <2>2 DEF Request
<1> QED
  BY <1>1, <1>3, <1>4, <1>5, <1>6

\* A view is a slot.
LEMMA ViewSlot ==
    ASSUME TypeOK, NEW h \in Handlers, NEW k \in Keys
    PROVE  /\ SlotView(h, k) \in Slot
           /\ Object(h, k) \in Content \union {None}
           /\ SlotView(h, k).suspended \in Seq(Content)
<1>1. SlotView(h, k) \in Slot
  BY DEF TypeOK, SlotView
<1> QED
  BY <1>1, SlotUpdates DEF Object

\* A request goes through the saving loop and leaves R written.
SaveStep(h, st, R) ==
    /\ Saving(h)
    /\ st \in {"SAVED", "ERROR"}
    /\ st = "SAVED" => status[h][Turn(h)] = "PROCESSING"
    /\ Done(h, st)
    /\ R \subseteq Keys
    /\ Unlocked(h, R)
    /\ writes' \in [Handlers -> [Keys -> Slot \union {Untouched}]]
    /\ \A g \in Handlers : g # h => writes'[g] = writes[g]
    /\ \A k \in R : writes'[h][k] \in Slot
    /\ \A k \in Keys : k \notin R => writes'[h][k] = writes[h][k]

\* Write() changes the rows of its argument.
LEMMA WriteEffect ==
    ASSUME TypeOK, NEW h \in Handlers, NEW W, Write(h, W),
           DOMAIN W \subseteq Keys, \A k \in DOMAIN W : W[k] \in Slot
    PROVE  /\ writes' \in [Handlers -> [Keys -> Slot \union {Untouched}]]
           /\ \A g \in Handlers : g # h => writes'[g] = writes[g]
           /\ \A k \in DOMAIN W : writes'[h][k] = W[k]
           /\ \A k \in Keys : k \notin DOMAIN W => writes'[h][k] = writes[h][k]
  BY DEF TypeOK, Write

\* WriteRow() changes one row.
LEMMA WriteRowEffect ==
    ASSUME TypeOK, NEW h \in Handlers, NEW k \in Keys, NEW slot \in Slot, WriteRow(h, k, slot)
    PROVE  /\ writes' \in [Handlers -> [Keys -> Slot \union {Untouched}]]
           /\ \A g \in Handlers : g # h => writes'[g] = writes[g]
           /\ writes'[h][k] = slot
           /\ \A j \in Keys : j # k => writes'[h][j] = writes[h][j]
  BY DEF TypeOK, WriteRow

\* The request whose turn it is in the saving loop.
LEMMA TurnFacts ==
    ASSUME TypeOK, NEW h \in Handlers, Saving(h)
    PROVE  /\ Busy(h) /\ saved[h] \in Nat /\ Turn(h) = saved[h] + 1
           /\ Turn(h) \in 1 .. Len(Requests(h))
           /\ KeyNow(h) = Requests(h)[Turn(h)].key /\ KeyNow(h) \in Keys
<1>1. Busy(h) /\ saved[h] < Len(Requests(h)) /\ saved[h] \in 0 .. Len(Requests(h))
  BY DEF Saving, TypeOK, LengthsOK
<1>2. Len(Requests(h)) \in Nat
  BY <1>1, BusyFacts
<1>3. Turn(h) \in 1 .. Len(Requests(h)) /\ saved[h] \in Nat
  BY <1>1, <1>2 DEF Turn
<1>4. Requests(h)[Turn(h)].key \in Keys
  BY <1>1, <1>3, BusyFacts
<1> QED
  BY <1>1, <1>3, <1>4 DEF KeyNow, Turn

\* An object is written: the text of the request replaces it.
LEMMA SaveObjectEffect ==
    ASSUME TypeOK, NEW h \in Handlers, SaveObject(h)
    PROVE  /\ SaveStep(h, "SAVED", {KeyNow(h)})
           /\ writes'[h][KeyNow(h)] =
                 [object |-> Requests(h)[Turn(h)].text,
                  suspended |-> SlotView(h, KeyNow(h)).suspended,
                  protected |-> SlotView(h, KeyNow(h)).protected]
<1> DEFINE k == KeyNow(h)
           text == Requests(h)[Turn(h)].text
           slot == [SlotView(h, k) EXCEPT !.object = text]
<1>1. /\ SavesNow(h, "put") /\ Unlocked(h, {k}) /\ Done(h, "SAVED")
      /\ WriteRow(h, k, slot)
  BY DEF SaveObject
<1>2. Saving(h) /\ status[h][Turn(h)] = "PROCESSING" /\ Requests(h)[Turn(h)].kind = "put"
  BY <1>1 DEF SavesNow
<1>3. k \in Keys /\ text \in Content
  BY <1>2, TurnFacts, BusyFacts
<1>4. SlotView(h, k) \in Slot
  BY <1>3, ViewSlot
<1>5. slot = [object |-> text, suspended |-> SlotView(h, k).suspended,
              protected |-> SlotView(h, k).protected]
  BY <1>4, SlotUpdates
<1>6. slot \in Slot
  BY <1>3, <1>4, <1>5 DEF Slot
<1> HIDE DEF k, text, slot
<1>7. /\ writes' \in [Handlers -> [Keys -> Slot \union {Untouched}]]
      /\ \A g \in Handlers : g # h => writes'[g] = writes[g]
      /\ writes'[h][k] = slot
      /\ \A j \in Keys : j # k => writes'[h][j] = writes[h][j]
  BY <1>1, <1>3, <1>6, WriteRowEffect
<1>8. SaveStep(h, "SAVED", {k})
  BY <1>1, <1>2, <1>3, <1>6, <1>7 DEF SaveStep
<1> QED
  BY <1>5, <1>7, <1>8 DEF k, text

\* An object is deleted, and its name protected, if it is still there.
LEMMA DeleteObjectEffect ==
    ASSUME TypeOK, NEW h \in Handlers, DeleteObject(h)
    PROVE  IF Exists(h, KeyNow(h))
           THEN /\ SaveStep(h, "SAVED", {KeyNow(h)})
                /\ writes'[h][KeyNow(h)] =
                     [object |-> None,
                      suspended |-> SlotView(h, KeyNow(h)).suspended,
                      protected |-> SlotView(h, KeyNow(h)).protected \/ KeyNow(h) \in ProtectedNames]
           ELSE SaveStep(h, "SAVED", {})
<1> DEFINE k == KeyNow(h)
           slot == [SlotView(h, k) EXCEPT !.object = None, !.protected = @ \/ k \in ProtectedNames]
<1>1. /\ SavesNow(h, "delete") /\ Unlocked(h, {k}) /\ Done(h, "SAVED")
      /\ IF Exists(h, k) THEN WriteRow(h, k, slot) ELSE UNCHANGED writes
  BY DEF DeleteObject
<1>2. Saving(h) /\ status[h][Turn(h)] = "PROCESSING"
  BY <1>1 DEF SavesNow
<1>3. k \in Keys
  BY <1>2, TurnFacts
<1>4. SlotView(h, k) \in Slot
  BY <1>3, ViewSlot
<1>5. slot = [object |-> None, suspended |-> SlotView(h, k).suspended,
              protected |-> SlotView(h, k).protected \/ k \in ProtectedNames]
  BY <1>4, SlotUpdates
<1>6. slot \in Slot
  BY <1>4, <1>5 DEF Slot
<1> HIDE DEF k, slot
<1>7. CASE Exists(h, k)
  <2>1. /\ writes' \in [Handlers -> [Keys -> Slot \union {Untouched}]]
        /\ \A g \in Handlers : g # h => writes'[g] = writes[g]
        /\ writes'[h][k] = slot
        /\ \A j \in Keys : j # k => writes'[h][j] = writes[h][j]
    BY <1>1, <1>3, <1>6, <1>7, WriteRowEffect
  <2>2. SaveStep(h, "SAVED", {k})
    BY <1>1, <1>2, <1>3, <1>6, <2>1 DEF SaveStep
  <2> QED
    BY <1>5, <1>7, <2>1, <2>2 DEF k
<1>8. CASE ~Exists(h, k)
  <2>1. SaveStep(h, "SAVED", {})
    BY <1>1, <1>2, <1>8 DEF SaveStep, Unlocked, TypeOK
  <2> QED
    BY <1>8, <2>1 DEF k
<1> QED
  BY <1>7, <1>8

\* The objects a suspension moves: the mntner and objects it maintains.
SuspendedRow(h, m, k) ==
    /\ k = m \/ m \in Object(h, k).mntBy
    /\ Exists(h, k)
    /\ writes'[h][k] = [object |-> None,
                        suspended |-> Append(SlotView(h, k).suspended, Object(h, k)),
                        protected |-> SlotView(h, k).protected]

\* A suspension saves the mntner and rows that each become a suspended version.
LEMMA SuspendEffect ==
    ASSUME TypeOK, NEW h \in Handlers, Suspend(h)
    PROVE  \E R : /\ SaveStep(h, "SAVED", R)
                  /\ KeyNow(h) \in R
                  /\ \A k \in R : SuspendedRow(h, KeyNow(h), k)
<1> DEFINE m == KeyNow(h)
           slot(k) == [object |-> None,
                       suspended |-> Append(SlotView(h, k).suspended, Object(h, k)),
                       protected |-> SlotView(h, k).protected]
<1>1. PICK order \in SetToSeqs(Maintained(h, m)) :
          LET rows == SuspendInOrder(h, m, order) IN
          Unlocked(h, rows) /\ Write(h, [k \in rows |-> slot(k)])
  BY DEF Suspend
<1>2. /\ SavesNow(h, "suspend") /\ MaySuspend(h, m) /\ Done(h, "SAVED")
  BY DEF Suspend
<1>3. Saving(h) /\ status[h][Turn(h)] = "PROCESSING"
  BY <1>2 DEF SavesNow
<1>4. m \in Keys /\ Exists(h, m)
  BY <1>2, <1>3, TurnFacts DEF MaySuspend
<1> DEFINE R == SuspendInOrder(h, m, order)
<1>5. R \subseteq Maintained(h, m) \union {m} /\ m \in R
  BY DEF SuspendInOrder
<1>6. R \subseteq Keys /\ \A k \in R : Exists(h, k) /\ (k = m \/ m \in Object(h, k).mntBy)
  BY <1>4, <1>5 DEF Maintained
<1>7. Unlocked(h, R) /\ Write(h, [k \in R |-> slot(k)])
  BY <1>1
<1> HIDE DEF R
<1>8. ASSUME NEW k \in R
      PROVE  /\ slot(k) = [object |-> None,
                           suspended |-> Append(SlotView(h, k).suspended, Object(h, k)),
                           protected |-> SlotView(h, k).protected]
             /\ slot(k) \in Slot
  <2>1. /\ SlotView(h, k) \in Slot
        /\ SlotView(h, k).suspended \in Seq(Content)
        /\ Object(h, k) \in Content
    BY <1>6, ViewSlot DEF Exists
  <2>2. Append(SlotView(h, k).suspended, Object(h, k)) \in Seq(Content)
    BY <2>1, AppendProperties
  <2>3. slot(k) = [object |-> None,
                   suspended |-> Append(SlotView(h, k).suspended, Object(h, k)),
                   protected |-> SlotView(h, k).protected]
    OBVIOUS
  <2>4. SlotView(h, k).protected \in BOOLEAN
    BY <2>1, SlotUpdates
  <2> QED
    BY <2>2, <2>3, <2>4 DEF Slot
<1> HIDE DEF m, slot
<1>9. /\ writes' \in [Handlers -> [Keys -> Slot \union {Untouched}]]
      /\ \A g \in Handlers : g # h => writes'[g] = writes[g]
      /\ \A k \in R : writes'[h][k] = slot(k)
      /\ \A k \in Keys : k \notin R => writes'[h][k] = writes[h][k]
  <2> DEFINE W == [k \in R |-> slot(k)]
  <2>1. DOMAIN W = R /\ \A k \in R : W[k] = slot(k)
    OBVIOUS
  <2>2. Write(h, W)
    BY <1>7
  <2> HIDE DEF W
  <2> QED
    BY <1>6, <1>8, <2>1, <2>2, WriteEffect
<1>10. SaveStep(h, "SAVED", R)
  BY <1>2, <1>3, <1>6, <1>7, <1>8, <1>9 DEF SaveStep
<1>11. \A k \in R : SuspendedRow(h, m, k)
  BY <1>6, <1>8, <1>9 DEF SuspendedRow
<1> QED
  BY <1>5, <1>10, <1>11 DEF m

\* The versions a reactivation restores: where there is no object, the oldest one
\* that m maintained.
RestoredRow(h, m, k) ==
    LET n == Min(Reactivating(h, m, k)) IN
    /\ ~Exists(h, k)
    /\ n \in Reactivating(h, m, k)
    /\ writes'[h][k] = [object |-> SlotView(h, k).suspended[n],
                        suspended |-> RemoveAt(SlotView(h, k).suspended, n),
                        protected |-> SlotView(h, k).protected]

\* A reactivation saves the mntner and rows that each become active again.
LEMMA ReactivateEffect ==
    ASSUME TypeOK, NEW h \in Handlers, Reactivate(h)
    PROVE  /\ SaveStep(h, "SAVED", Restorable(h, KeyNow(h)))
           /\ KeyNow(h) \in Restorable(h, KeyNow(h))
           /\ \A k \in Restorable(h, KeyNow(h)) : RestoredRow(h, KeyNow(h), k)
<1> DEFINE m == KeyNow(h)
           R == Restorable(h, m)
           slot(k) == LET i == Min(Reactivating(h, m, k)) IN
                      [object |-> SlotView(h, k).suspended[i],
                       suspended |-> RemoveAt(SlotView(h, k).suspended, i),
                       protected |-> SlotView(h, k).protected]
<1>1. /\ SavesNow(h, "reactivate") /\ MayReactivate(h, m) /\ Done(h, "SAVED")
      /\ Unlocked(h, R) /\ Write(h, [k \in R |-> slot(k)])
  BY DEF Reactivate
<1>2. Saving(h) /\ status[h][Turn(h)] = "PROCESSING"
  BY <1>1 DEF SavesNow
<1>3. m \in Keys
  BY <1>2, TurnFacts
<1>4. R \subseteq Keys /\ \A k \in R : ~Exists(h, k) /\ Reactivating(h, m, k) # {}
  BY DEF Restorable
<1>5. m \in R
  <2>1. ~Exists(h, m) /\ SlotView(h, m).suspended # <<>>
    BY <1>1 DEF MayReactivate
  <2>2. SlotView(h, m).suspended \in Seq(Content)
    BY <1>3, ViewSlot
  <2>3. 1 \in DOMAIN SlotView(h, m).suspended
    BY <2>1, <2>2, LenProperties, EmptySeq
  <2>4. 1 \in Reactivating(h, m, m)
    BY <2>3 DEF Reactivating
  <2> QED
    BY <1>3, <2>1, <2>4 DEF Restorable
<1>6. ASSUME NEW k \in R
      PROVE  /\ Min(Reactivating(h, m, k)) \in Reactivating(h, m, k)
             /\ slot(k) = [object |-> SlotView(h, k).suspended[Min(Reactivating(h, m, k))],
                           suspended |-> RemoveAt(SlotView(h, k).suspended,
                                                  Min(Reactivating(h, m, k))),
                           protected |-> SlotView(h, k).protected]
             /\ slot(k) \in Slot
  <2> DEFINE n == Min(Reactivating(h, m, k))
             list == SlotView(h, k).suspended
  <2>1. SlotView(h, k) \in Slot /\ list \in Seq(Content)
    BY <1>4, ViewSlot
  <2>2. Reactivating(h, m, k) \subseteq DOMAIN list /\ DOMAIN list \subseteq Nat
    BY <2>1, LenProperties DEF Reactivating
  <2>3. n \in Reactivating(h, m, k) /\ n \in DOMAIN list
    BY <1>4, <2>2, LeastElement
  <2>4. slot(k) = [object |-> list[n], suspended |-> RemoveAt(list, n),
                   protected |-> SlotView(h, k).protected]
    OBVIOUS
  <2>5. SlotView(h, k).protected \in BOOLEAN
    BY <2>1, SlotUpdates
  <2> HIDE DEF n, list, slot
  <2>6. list[n] \in Content /\ RemoveAt(list, n) \in Seq(Content)
    BY <2>1, <2>3, ListWithout, ElementOfSeq
  <2>7. slot(k) \in Slot
    BY <2>4, <2>5, <2>6 DEF Slot
  <2> QED
    BY <2>3, <2>4, <2>7 DEF n, list
<1> HIDE DEF m, slot, R
<1>7. /\ writes' \in [Handlers -> [Keys -> Slot \union {Untouched}]]
      /\ \A g \in Handlers : g # h => writes'[g] = writes[g]
      /\ \A k \in R : writes'[h][k] = slot(k)
      /\ \A k \in Keys : k \notin R => writes'[h][k] = writes[h][k]
  <2> DEFINE W == [k \in R |-> slot(k)]
  <2>1. DOMAIN W = R /\ \A k \in R : W[k] = slot(k)
    OBVIOUS
  <2>2. Write(h, W)
    BY <1>1
  <2> HIDE DEF W
  <2> QED
    BY <1>4, <1>6, <2>1, <2>2, WriteEffect
<1>8. SaveStep(h, "SAVED", R)
  BY <1>1, <1>2, <1>4, <1>6, <1>7 DEF SaveStep
<1>9. \A k \in R : RestoredRow(h, m, k)
  BY <1>4, <1>6, <1>7 DEF RestoredRow
<1> QED
  BY <1>5, <1>8, <1>9 DEF m, R

-----------------------------------------------------------------------------
(* Types *)

\* The steps of the saving loop.
Saves(h) ==
    \/ SkipInvalid(h) \/ SaveIdentical(h) \/ SaveObject(h) \/ DeleteObject(h)
    \/ Suspend(h) \/ Reactivate(h) \/ SuspensionRefused(h)

\* Requests that fail or are identical write nothing.
LEMMA NoEffect ==
    ASSUME TypeOK, NEW h \in Handlers,
           SkipInvalid(h) \/ SaveIdentical(h) \/ SuspensionRefused(h)
    PROVE  /\ writes' = writes
           /\ \E st : SaveStep(h, st, {}) /\ (st = "SAVED" => SaveIdentical(h))
<1>1. ASSUME NEW st \in {"SAVED", "ERROR"}, Saving(h), Done(h, st), writes' = writes,
             st = "SAVED" => status[h][Turn(h)] = "PROCESSING"
      PROVE  SaveStep(h, st, {})
  BY <1>1 DEF SaveStep, Unlocked, TypeOK
<1>2. CASE SkipInvalid(h)
  <2>1. SaveStep(h, "ERROR", {}) /\ writes' = writes
    BY <1>1, <1>2 DEF SkipInvalid
  <2> QED
    BY <2>1
<1>3. CASE SaveIdentical(h)
  <2>1. SaveStep(h, "SAVED", {}) /\ writes' = writes
    BY <1>1, <1>3 DEF SaveIdentical, SavesNow
  <2> QED
    BY <1>3, <2>1
<1>4. CASE SuspensionRefused(h)
  <2>1. SaveStep(h, "ERROR", {}) /\ writes' = writes
    BY <1>1, <1>4 DEF SuspensionRefused, SavesNow
  <2> QED
    BY <2>1
<1> QED
  BY <1>2, <1>3, <1>4

\* Every step of the saving loop writes some unlocked rows and counts one request.
LEMMA SavesSteps ==
    ASSUME TypeOK, NEW h \in Handlers, Saves(h)
    PROVE  \E st, R : SaveStep(h, st, R)
  BY NoEffect, SaveObjectEffect, DeleteObjectEffect, SuspendEffect, ReactivateEffect DEF Saves

\* What a process keeps for its submission stays.
Same(g) ==
    /\ submission'[g] = submission[g]
    /\ current'[g] = current[g]
    /\ status'[g] = status[g]
    /\ previous'[g] = previous[g]
    /\ loopCount'[g] = loopCount[g]
    /\ saved'[g] = saved[g]
    /\ writes'[g] = writes[g]

\* One step of one process.
Step(h) ==
    \/ \E s \in Submissions : Load(h, s)
    \/ Validate(h)
    \/ Saves(h)
    \/ Commit(h)
    \/ Fail(h)

\* A step of one process leaves the submissions and writes of the others alone.
LEMMA OthersSame ==
    ASSUME TypeOK, NEW h \in Handlers, Step(h), NEW g \in Handlers, g # h
    PROVE  Same(g)
<1>1. CASE \E s \in Submissions : Load(h, s)
  BY <1>1 DEF Load, TypeOK, Same
<1>2. CASE Validate(h)
  BY <1>2 DEF Validate, TypeOK, Same
<1>3. CASE Saves(h)
  BY <1>3, SavesSteps DEF SaveStep, Done, TypeOK, Same
<1>4. CASE Commit(h) \/ Fail(h)
  BY <1>4 DEF Commit, Fail, Finished, TypeOK, Same
<1> QED
  BY <1>1, <1>2, <1>3, <1>4 DEF Step

\* Loading a submission keeps the types: its lists have its length.
LEMMA LoadType ==
    ASSUME TypeOK, NEW h \in Handlers, NEW s \in Submissions, Load(h, s)
    PROVE  TypeOK'
<1> DEFINE cur == [i \in DOMAIN s.requests |-> Object(h, s.requests[i].key)]
           sts == [i \in DOMAIN s.requests |-> ParsedStatus(h, s, s.requests[i])]
           n == Len(s.requests)
<1>1. s.requests \in Seq(Request)
  BY SubmissionAssumption DEF Submission
<1>2. n \in Nat /\ DOMAIN s.requests = 1 .. n /\ \A i \in 1 .. n : s.requests[i] \in Request
  BY <1>1, LenProperties, ElementOfSeq
<1>3. cur \in Seq(Content \union {None}) /\ DOMAIN cur = 1 .. n
  <2>1. \A i \in 1 .. n : Object(h, s.requests[i].key) \in Content \union {None}
    BY <1>2, ViewSlot DEF Request
  <2> QED
    BY <1>2, <2>1, IsASeq
<1>4. sts \in Seq({"PROCESSING", "SAVED", "ERROR"}) /\ DOMAIN sts = 1 .. n
  <2>1. \A i \in 1 .. n : ParsedStatus(h, s, s.requests[i]) \in {"PROCESSING", "SAVED", "ERROR"}
    BY DEF ParsedStatus
  <2> QED
    BY <1>2, <2>1, IsASeq
<1> HIDE DEF cur, sts, n
<1>5. /\ submission' = [submission EXCEPT ![h] = s]
      /\ current' = [current EXCEPT ![h] = cur]
      /\ status' = [status EXCEPT ![h] = sts]
      /\ previous' = [previous EXCEPT ![h] = {}]
      /\ loopCount' = [loopCount EXCEPT ![h] = 0]
      /\ saved' = [saved EXCEPT ![h] = 0]
      /\ submitted' = submitted + 1 /\ submitted < MaxSubmissions
      /\ UNCHANGED <<registry, writes, loose, before>>
  BY DEF Load, cur, sts, ghostVars
<1>6. /\ submission' \in [Handlers -> Submissions \union {None}]
      /\ current' \in [Handlers -> Seq(Content \union {None})]
      /\ status' \in [Handlers -> Seq({"PROCESSING", "SAVED", "ERROR"})]
      /\ previous' \in [Handlers -> SUBSET Nat]
      /\ loopCount' \in [Handlers -> Nat]
      /\ saved' \in [Handlers -> Nat]
  BY <1>3, <1>4, <1>5 DEF TypeOK
<1>7. submitted' \in 0 .. MaxSubmissions
  BY <1>5, SubmissionAssumption DEF TypeOK
<1>8. ASSUME NEW g \in Handlers
      PROVE  LengthsOK(g)'
  <2>1. CASE g = h
    <3>1. /\ submission'[h] = s /\ current'[h] = cur /\ status'[h] = sts
          /\ previous'[h] = {} /\ saved'[h] = 0
      BY <1>5 DEF TypeOK
    <3>2. Busy(h)' /\ Len(Requests(h)') = n
      BY <3>1, MarkerAssumption DEF Busy, Requests, n
    <3> QED
      BY <1>2, <1>3, <1>4, <2>1, <3>1, <3>2 DEF LengthsOK
  <2>2. CASE g # h
    BY <1>5, <2>2 DEF TypeOK, LengthsOK, Busy, Requests
  <2> QED
    BY <2>1, <2>2
<1> QED
  BY <1>5, <1>6, <1>7, <1>8 DEF TypeOK

\* A scan keeps the types.
LEMMA ValidateType ==
    ASSUME TypeOK, NEW h \in Handlers, Validate(h)
    PROVE  TypeOK'
<1> DEFINE sts == [i \in DOMAIN status[h] |->
                     IF i \in Valid(h) /\ ~Validates(h, i) THEN "ERROR" ELSE status[h][i]]
           n == Len(Requests(h))
<1>1. Busy(h) /\ n \in Nat /\ DOMAIN status[h] = 1 .. n
      /\ \A i \in 1 .. n : status[h][i] \in {"PROCESSING", "SAVED", "ERROR"}
  BY BusyFacts DEF Validate
<1>2. sts \in Seq({"PROCESSING", "SAVED", "ERROR"}) /\ DOMAIN sts = 1 .. n
  BY <1>1, IsASeq
<1>3. Valid(h) \subseteq 1 .. n
  BY <1>1 DEF Valid
<1> HIDE DEF sts, n
<1>4. /\ status' = [status EXCEPT ![h] = sts]
      /\ previous' = [previous EXCEPT ![h] = Valid(h)]
      /\ loopCount' = [loopCount EXCEPT ![h] = loopCount[h] + 1]
      /\ UNCHANGED <<registry, submission, current, saved, writes, submitted, loose, before>>
  BY DEF Validate, sts, ghostVars, Remembers
<1>5. /\ status' \in [Handlers -> Seq({"PROCESSING", "SAVED", "ERROR"})]
      /\ previous' \in [Handlers -> SUBSET Nat]
      /\ loopCount' \in [Handlers -> Nat]
  BY <1>1, <1>2, <1>3, <1>4 DEF TypeOK
<1>6. ASSUME NEW g \in Handlers
      PROVE  LengthsOK(g)'
  <2>1. CASE g = h
    <3>1. status'[h] = sts /\ previous'[h] = Valid(h)
      BY <1>4 DEF TypeOK
    <3>2. LengthsOK(h)
      BY DEF TypeOK
    <3> QED
      BY <1>1, <1>2, <1>3, <1>4, <2>1, <3>1, <3>2 DEF LengthsOK, Busy, Requests, n
  <2>2. CASE g # h
    BY <1>4, <2>2 DEF TypeOK, LengthsOK, Busy, Requests
  <2> QED
    BY <2>1, <2>2
<1> QED
  BY <1>4, <1>5, <1>6 DEF TypeOK

\* A step of the saving loop keeps the types.
LEMMA SaveType ==
    ASSUME TypeOK, NEW h \in Handlers, NEW st, NEW R, SaveStep(h, st, R)
    PROVE  TypeOK'
<1> DEFINE n == Len(Requests(h))
           sts == [status[h] EXCEPT ![Turn(h)] = st]
<1>1. Busy(h) /\ n \in Nat /\ Turn(h) \in 1 .. n /\ Turn(h) = saved[h] + 1 /\ saved[h] \in Nat
  BY BusyFacts, TurnFacts DEF SaveStep
<1>2. /\ sts \in Seq({"PROCESSING", "SAVED", "ERROR"}) /\ DOMAIN sts = 1 .. n
  <2>1. status[h] \in Seq({"PROCESSING", "SAVED", "ERROR"}) /\ DOMAIN status[h] = 1 .. n
    BY <1>1, BusyFacts DEF TypeOK
  <2>2. Len(status[h]) = n
    BY <1>1, <2>1, LenProperties
  <2> QED
    BY <1>1, <2>1, <2>2, ExceptSeq DEF SaveStep
<1> HIDE DEF n, sts
<1>3. /\ status' = [status EXCEPT ![h] = sts]
      /\ saved' = [saved EXCEPT ![h] = Turn(h)]
      /\ UNCHANGED <<registry, submission, current, previous, loopCount, submitted, loose, before>>
      /\ writes' \in [Handlers -> [Keys -> Slot \union {Untouched}]]
  BY <1>1 DEF SaveStep, Done, sts, ghostVars
<1>4. /\ status' \in [Handlers -> Seq({"PROCESSING", "SAVED", "ERROR"})]
      /\ saved' \in [Handlers -> Nat]
  BY <1>1, <1>2, <1>3 DEF TypeOK
<1>5. ASSUME NEW g \in Handlers
      PROVE  LengthsOK(g)'
  <2>1. CASE g = h
    <3>1. status'[h] = sts /\ saved'[h] = Turn(h)
      BY <1>3 DEF TypeOK
    <3>2. LengthsOK(h)
      BY DEF TypeOK
    <3>3. Turn(h) \in 0 .. n
      BY <1>1
    <3> QED
      BY <1>1, <1>2, <1>3, <2>1, <3>1, <3>2, <3>3 DEF LengthsOK, Busy, Requests, n
  <2>2. CASE g # h
    BY <1>3, <2>2 DEF TypeOK, LengthsOK, Busy, Requests
  <2> QED
    BY <2>1, <2>2
<1> QED
  BY <1>3, <1>4, <1>5 DEF TypeOK

\* The end of a submission keeps the types, whatever is committed.
LEMMA FinishedType ==
    ASSUME TypeOK, NEW h \in Handlers, Finished(h),
           registry' \in [Keys -> Slot],
           loose' \subseteq Keys \X Keys,
           before' \in [mntner : Mntners \union {None}, objects : [Keys -> Content \union {None}]]
    PROVE  TypeOK'
<1>0. <<>> \in Seq(Content \union {None}) /\ <<>> \in Seq({"PROCESSING", "SAVED", "ERROR"})
      /\ DOMAIN <<>> = 1 .. 0
  OBVIOUS
<1>1. NoWrites \in [Keys -> Slot \union {Untouched}]
  BY DEF NoWrites
<1>2. /\ submission' \in [Handlers -> Submissions \union {None}]
      /\ current' \in [Handlers -> Seq(Content \union {None})]
      /\ status' \in [Handlers -> Seq({"PROCESSING", "SAVED", "ERROR"})]
      /\ previous' \in [Handlers -> SUBSET Nat]
      /\ loopCount' \in [Handlers -> Nat]
      /\ saved' \in [Handlers -> Nat]
      /\ writes' \in [Handlers -> [Keys -> Slot \union {Untouched}]]
      /\ submitted' = submitted
  BY <1>0, <1>1 DEF Finished, TypeOK
<1>3. ASSUME NEW g \in Handlers
      PROVE  LengthsOK(g)'
  <2>1. CASE g = h
    <3>1. /\ submission'[h] = None /\ current'[h] = <<>> /\ status'[h] = <<>>
          /\ previous'[h] = {} /\ saved'[h] = 0
      BY DEF TypeOK, Finished
    <3> QED
      BY <1>0, <2>1, <3>1 DEF LengthsOK, Busy
  <2>2. CASE g # h
    BY <2>2 DEF TypeOK, LengthsOK, Busy, Requests, Finished
  <2> QED
    BY <2>1, <2>2
<1> QED
  BY <1>2, <1>3 DEF TypeOK

\* A commit keeps the types.
LEMMA CommitType ==
    ASSUME TypeOK, NEW h \in Handlers, Commit(h)
    PROVE  TypeOK'
<1>1. registry' \in [Keys -> Slot]
  BY ViewSlot DEF Commit
<1>2. loose' \subseteq Keys \X Keys
  BY DEF Commit, Broken
<1>3. before' \in [mntner : Mntners \union {None}, objects : [Keys -> Content \union {None}]]
  <2>1. \A k \in Keys : registry[k].object \in Content \union {None}
    BY SlotUpdates DEF TypeOK
  <2>2. CASE OnlyRequest(h, "suspend")
    <3>1. Busy(h) /\ Len(Requests(h)) = 1 /\ Requests(h)[1].kind = "suspend"
      BY <2>2 DEF OnlyRequest, Commit
    <3>2. Requests(h)[1].key \in Mntners
      BY <3>1, BusyFacts
    <3>3. before' = [mntner |-> Requests(h)[1].key,
                     objects |-> [k \in Keys |-> registry[k].object]]
      BY <2>2 DEF Commit
    <3> QED
      BY <2>1, <3>2, <3>3
  <2>3. CASE ~OnlyRequest(h, "suspend")
    <3>1. before' = before \/ before' = NoSuspension
      BY <2>3 DEF Commit
    <3>2. NoSuspension \in [mntner : Mntners \union {None}, objects : [Keys -> Content \union {None}]]
      BY DEF NoSuspension
    <3> QED
      BY <3>1, <3>2 DEF TypeOK
  <2> QED
    BY <2>2, <2>3
<1> QED
  BY <1>1, <1>2, <1>3, FinishedType DEF Commit

\* The types hold at the start.
LEMMA InitTypes ==
    ASSUME Init
    PROVE  TypeOK
<1>1. <<>> \in Seq(Content \union {None}) /\ <<>> \in Seq({"PROCESSING", "SAVED", "ERROR"})
      /\ DOMAIN <<>> = 1 .. 0 /\ <<>> \in Seq(Content)
  OBVIOUS
<1>2. registry \in [Keys -> Slot]
  BY <1>1, InitialAssumption DEF Init, Slot
<1>3. /\ NoWrites \in [Keys -> Slot \union {Untouched}]
      /\ NoSuspension \in [mntner : Mntners \union {None}, objects : [Keys -> Content \union {None}]]
  BY DEF NoWrites, NoSuspension
<1>4. \A h \in Handlers : LengthsOK(h)
  BY <1>1 DEF Init, LengthsOK, Busy
<1>5. submitted \in 0 .. MaxSubmissions
  BY SubmissionAssumption DEF Init
<1>6. loose \subseteq Keys \X Keys
  BY DEF Init, Broken
<1> QED
  BY <1>1, <1>2, <1>3, <1>4, <1>5, <1>6 DEF Init, TypeOK

\* Every step of a process keeps the types.
LEMMA StepType ==
    ASSUME TypeOK, NEW h \in Handlers, Step(h)
    PROVE  TypeOK'
<1>1. CASE Fail(h)
  BY <1>1, FinishedType DEF Fail, ghostVars, TypeOK
<1> QED
  BY <1>1, LoadType, ValidateType, SavesSteps, SaveType, CommitType DEF Step

\* A step of the specification is the step of one process.
LEMMA NextSteps ==
    ASSUME Next
    PROVE  \E h \in Handlers : Step(h)
  BY DEF Next, Step, Saves

\* The types hold when nothing changes.
LEMMA StutterType ==
    ASSUME TypeOK, UNCHANGED vars
    PROVE  TypeOK'
  BY DEF vars, submissionVars, ghostVars, TypeOK, LengthsOK, Busy, Requests

\* Every variable has its type, and the lists that are kept for a submission have
\* its length, whatever is submitted (ChangeSubmissionHandler, suspension.py).
THEOREM TypeCorrect == Spec => []TypeOK
<1>1. Init => TypeOK
  BY InitTypes
<1>2. TypeOK /\ [Next]_vars => TypeOK'
  BY NextSteps, StepType, StutterType
<1> QED
  BY <1>1, <1>2, PTL DEF Spec

-----------------------------------------------------------------------------
(* The loop that validates *)

\* After the first scan, the valid requests are among those of the scan before,
\* and each scan that was not the last has found another one invalid.
LoopOK(h) ==
    Busy(h) =>
        \/ loopCount[h] = 0 /\ previous[h] = {}
        \/ /\ Valid(h) \subseteq previous[h]
           /\ loopCount[h] + Cardinality(previous[h]) <= Len(Requests(h)) + 1

LoopInv == \A h \in Handlers : LoopOK(h)

\* Facts on the requests that are valid.
LEMMA ValidFinite ==
    ASSUME TypeOK, NEW h \in Handlers, Busy(h)
    PROVE  /\ Valid(h) \subseteq 1 .. Len(Requests(h))
           /\ IsFiniteSet(Valid(h)) /\ Cardinality(Valid(h)) \in Nat
           /\ Cardinality(Valid(h)) <= Len(Requests(h))
           /\ IsFiniteSet(previous[h]) /\ Cardinality(previous[h]) \in Nat
<1>1. Len(Requests(h)) \in Nat /\ Valid(h) \subseteq 1 .. Len(Requests(h))
  BY BusyFacts DEF Valid
<1>2. /\ IsFiniteSet(1 .. Len(Requests(h)))
      /\ Cardinality(1 .. Len(Requests(h))) = Len(Requests(h))
  <2>1. 1 \in Int /\ Len(Requests(h)) \in Int
    BY <1>1
  <2>2. IsFiniteSet(1 .. Len(Requests(h)))
    BY <2>1, FS_Interval
  <2>3. Cardinality(1 .. Len(Requests(h))) =
            IF 1 > Len(Requests(h)) THEN 0 ELSE Len(Requests(h)) - 1 + 1
    BY <2>1, FS_Interval
  <2> QED
    BY <1>1, <2>2, <2>3
<1>3. previous[h] \subseteq 1 .. Len(Requests(h))
  BY DEF TypeOK, LengthsOK
<1> QED
  BY <1>1, <1>2, <1>3, FS_Subset, FS_CardinalityType

\* A scan is counted, and finds a request invalid or is the last one.
LEMMA ValidateLoop ==
    ASSUME TypeOK, LoopInv, NEW h \in Handlers, Validate(h)
    PROVE  LoopOK(h)'
<1>1. /\ Busy(h) /\ Valid(h) # previous[h]
      /\ previous'[h] = Valid(h)
      /\ loopCount'[h] = loopCount[h] + 1
      /\ submission' = submission
      /\ status'[h] = [i \in DOMAIN status[h] |->
                         IF i \in Valid(h) /\ ~Validates(h, i) THEN "ERROR" ELSE status[h][i]]
  BY DEF Validate, Settled, Remembers, TypeOK
<1>2. Valid(h)' \subseteq previous'[h]
  BY <1>1 DEF Valid
<1>3. loopCount[h] \in Nat /\ Len(Requests(h)) \in Nat
  BY <1>1, BusyFacts DEF TypeOK
<1>4. loopCount[h] + 1 + Cardinality(Valid(h)) <= Len(Requests(h)) + 1
  <2>1. CASE loopCount[h] = 0
    BY <1>1, <1>3, <2>1, ValidFinite
  <2>2. CASE loopCount[h] # 0
    <3>1. Valid(h) \subseteq previous[h] /\ loopCount[h] + Cardinality(previous[h]) <= Len(Requests(h)) + 1
      BY <1>1, <2>2 DEF LoopInv, LoopOK
    <3>2. Cardinality(Valid(h)) < Cardinality(previous[h])
      <4>1. Cardinality(Valid(h)) <= Cardinality(previous[h])
        BY <1>1, <3>1, ValidFinite, FS_Subset
      <4>2. Cardinality(Valid(h)) # Cardinality(previous[h])
        BY <1>1, <3>1, ValidFinite, FS_Subset
      <4> QED
        BY <1>1, <4>1, <4>2, ValidFinite
    <3> QED
      BY <1>1, <1>3, <3>1, <3>2, ValidFinite
  <2> QED
    BY <2>1, <2>2
<1>5. Requests(h)' = Requests(h)
  BY <1>1 DEF Requests
<1>6. loopCount'[h] + Cardinality(previous'[h]) <= Len(Requests(h)') + 1
  BY <1>1, <1>4, <1>5
<1> QED
  BY <1>2, <1>6 DEF LoopOK

\* Saving leaves the number of scans alone.
LEMMA SaveLoop ==
    ASSUME TypeOK, LoopInv, NEW h \in Handlers, NEW st, NEW R, SaveStep(h, st, R)
    PROVE  LoopOK(h)'
<1>1. /\ Busy(h) /\ (saved[h] > 0 \/ Settled(h))
      /\ Turn(h) \in 1 .. Len(Requests(h))
      /\ st = "SAVED" => status[h][Turn(h)] = "PROCESSING"
      /\ st \in {"SAVED", "ERROR"}
  BY TurnFacts DEF SaveStep, Saving
<1>2. /\ status'[h] = [status[h] EXCEPT ![Turn(h)] = st]
      /\ UNCHANGED <<submission, previous, loopCount>>
  BY DEF SaveStep, Done, TypeOK
<1>3. Valid(h)' \subseteq Valid(h)
  <2>1. DOMAIN status[h] = 1 .. Len(Requests(h))
    BY <1>1, BusyFacts
  <2> QED
    BY <1>1, <1>2, <2>1 DEF Valid
<1> QED
  BY <1>2, <1>3 DEF LoopInv, LoopOK, Busy, Requests

\* Every step keeps the bound on the number of scans.
LEMMA StepLoop ==
    ASSUME TypeOK, LoopInv, NEW h \in Handlers, Step(h)
    PROVE  LoopInv'
<1>1. ASSUME NEW g \in Handlers
      PROVE  LoopOK(g)'
  <2>1. CASE g # h
    BY <2>1, OthersSame DEF Same, LoopInv, LoopOK, Busy, Requests, Valid
  <2>2. CASE g = h
    <3>1. ASSUME NEW s \in Submissions, Load(h, s)
          PROVE  LoopOK(h)'
      BY <3>1 DEF Load, LoopOK, TypeOK
    <3>2. CASE Commit(h) \/ Fail(h)
      <4>1. submission'[h] = None
        BY <3>2 DEF Commit, Fail, Finished, TypeOK
      <4> QED
        BY <2>2, <4>1 DEF LoopOK, Busy
    <3> QED
      BY <2>2, <3>1, <3>2, ValidateLoop, SavesSteps, SaveLoop DEF Step
  <2> QED
    BY <2>1, <2>2
<1> QED
  BY <1>1 DEF LoopInv

\* The scans of _handle_change_requests() end by themselves: loop_max, which is
\* greater than the number of requests, is never what ends them.
THEOREM ScansSettle == Spec => []LoopSettles
<1>1. Init => LoopInv
  BY DEF Init, LoopInv, LoopOK
<1>2. TypeOK /\ LoopInv /\ [Next]_vars => LoopInv'
  <2>1. ASSUME LoopInv, UNCHANGED vars
        PROVE  LoopInv'
    BY <2>1 DEF vars, submissionVars, LoopInv, LoopOK, Busy, Requests, Valid
  <2> QED
    BY <2>1, NextSteps, StepLoop
<1>3. TypeOK /\ LoopInv => LoopSettles
  <2>1. SUFFICES ASSUME TypeOK, LoopInv, NEW h \in Handlers, Busy(h)
                 PROVE  loopCount[h] <= Len(Requests(h)) + 1
    BY DEF LoopSettles
  <2>2. Len(Requests(h)) \in Nat /\ loopCount[h] \in Nat /\ Cardinality(previous[h]) \in Nat
    BY <2>1, BusyFacts, ValidFinite DEF TypeOK
  <2> QED
    BY <2>1, <2>2 DEF LoopInv, LoopOK
<1> QED
  BY <1>1, <1>2, <1>3, TypeCorrect, PTL DEF Spec

-----------------------------------------------------------------------------
(* Row locks *)

\* A process writes nothing before it saves, and no two have written one row.
IdleOK(h) == ~Busy(h) \/ saved[h] = 0 => \A k \in Keys : writes[h][k] = Untouched
ExclusiveOK(g, h) == \A k \in Keys : writes[g][k] = Untouched \/ writes[h][k] = Untouched
HeldInv ==
    /\ \A h \in Handlers : IdleOK(h)
    /\ \A g, h \in Handlers : g # h => ExclusiveOK(g, h)

\* Every step keeps the row locks exclusive.
LEMMA StepHeld ==
    ASSUME TypeOK, HeldInv, NEW h \in Handlers, Step(h)
    PROVE  HeldInv'
<1>1. CASE \E s \in Submissions : Load(h, s)
  <2>1. PICK s \in Submissions : Load(h, s)
    BY <1>1
  <2>2. writes' = writes /\ ~Busy(h)
    BY <2>1 DEF Load
  <2>3. \A k \in Keys : writes[h][k] = Untouched
    BY <2>2 DEF HeldInv, IdleOK
  <2> QED
    BY <1>1, <2>2, <2>3, OthersSame DEF HeldInv, IdleOK, ExclusiveOK, Same, Busy, Step
<1>2. CASE Validate(h)
  <2>1. writes' = writes /\ saved' = saved /\ submission' = submission
    BY <1>2 DEF Validate
  <2> QED
    BY <2>1 DEF HeldInv, IdleOK, ExclusiveOK, Busy
<1>3. CASE Saves(h)
  <2>1. PICK st, R : SaveStep(h, st, R)
    BY <1>3, SavesSteps
  <2>2. saved'[h] # 0 /\ Busy(h)' /\ submission' = submission
    <3>1. Turn(h) = saved[h] + 1 /\ saved[h] \in Nat /\ Busy(h)
      BY <2>1, TurnFacts DEF SaveStep
    <3>2. saved'[h] = saved[h] + 1 /\ submission' = submission
      BY <2>1 DEF SaveStep, Done, TypeOK
    <3> QED
      BY <3>1, <3>2 DEF Busy
  <2>3. \A g \in Handlers : g # h => IdleOK(g)'
    BY <2>1, OthersSame DEF HeldInv, IdleOK, Same, Busy, Step
  <2>4. IdleOK(h)'
    BY <2>2 DEF IdleOK
  <2>5. ASSUME NEW g \in Handlers, g # h, NEW k \in Keys
        PROVE  writes'[g][k] = Untouched \/ writes'[h][k] = Untouched
    <3>1. writes'[g] = writes[g] /\ (writes[g][k] = Untouched \/ writes[h][k] = Untouched)
      BY <2>1, <2>5 DEF SaveStep, HeldInv, ExclusiveOK
    <3>2. CASE k \in R
      BY <2>1, <2>5, <3>1, <3>2 DEF SaveStep, Unlocked
    <3>3. CASE k \notin R
      BY <2>1, <3>1, <3>3 DEF SaveStep
    <3> QED
      BY <3>2, <3>3
  <2>6. ASSUME NEW f \in Handlers, NEW g \in Handlers, f # g
        PROVE  ExclusiveOK(f, g)'
    <3>1. CASE f # h /\ g # h
      BY <2>1, <2>6, <3>1 DEF SaveStep, HeldInv, ExclusiveOK
    <3>2. CASE f = h \/ g = h
      BY <2>5, <2>6, <3>2 DEF ExclusiveOK
    <3> QED
      BY <3>1, <3>2
  <2> QED
    BY <2>3, <2>4, <2>6 DEF HeldInv
<1>4. CASE Commit(h) \/ Fail(h)
  <2>1. \A k \in Keys : writes'[h][k] = Untouched
    BY <1>4 DEF Commit, Fail, Finished, NoWrites, TypeOK
  <2> QED
    BY <1>4, <2>1, OthersSame DEF HeldInv, IdleOK, ExclusiveOK, Same, Busy, Step
<1> QED
  BY <1>1, <1>2, <1>3, <1>4 DEF Step

\* Row locks: no two transactions have uncommitted writes of one row, and none is
\* left when the next submission is loaded.
THEOREM LocksHeld == Spec => []HeldInv
<1>1. Init => HeldInv
  BY DEF Init, HeldInv, IdleOK, ExclusiveOK, NoWrites
<1>2. TypeOK /\ HeldInv /\ [Next]_vars => HeldInv'
  <2>1. ASSUME HeldInv, UNCHANGED vars
        PROVE  HeldInv'
    BY <2>1 DEF vars, submissionVars, HeldInv, IdleOK, ExclusiveOK, Busy
  <2> QED
    BY <2>1, NextSteps, StepHeld
<1> QED
  BY <1>1, <1>2, TypeCorrect, PTL DEF Spec

\* A commit leaves the rows alone that others have written.
LEMMA CommitKeeps ==
    ASSUME TypeOK, HeldInv, NEW h \in Handlers, Commit(h), NEW k \in Keys,
           \/ writes[h][k] = Untouched
           \/ \E g \in Handlers : g # h /\ writes[g][k] # Untouched
    PROVE  registry'[k] = registry[k]
<1>1. writes[h][k] = Untouched
  BY DEF HeldInv, ExclusiveOK
<1> QED
  BY <1>1 DEF Commit, SlotView

-----------------------------------------------------------------------------
(* Suspensions lose nothing *)

\* How often a version is there, active or suspended.
Places(list, c) == {i \in DOMAIN list : list[i] = c}
Occurrences(slot, c) == Cardinality(Places(slot.suspended, c)) + (IF slot.object = c THEN 1 ELSE 0)

SameVersions(s, t) ==
    /\ \A c \in Content : Occurrences(s, c) = Occurrences(t, c)
    /\ NumberOfVersions(s) = NumberOfVersions(t)

\* A list has finitely many places.
LEMMA PlacesFinite ==
    ASSUME NEW list \in Seq(Content), NEW c
    PROVE  IsFiniteSet(Places(list, c)) /\ Cardinality(Places(list, c)) \in Nat
<1>1. Len(list) \in Nat /\ DOMAIN list = 1 .. Len(list)
  BY LenProperties
<1>2. IsFiniteSet(1 .. Len(list))
  BY <1>1, FS_Interval
<1>3. Places(list, c) \in SUBSET (1 .. Len(list))
  BY <1>1 DEF Places
<1> QED
  BY <1>2, <1>3, FS_Subset, FS_CardinalityType

\* Appending a version adds one place of it.
LEMMA CountAppended ==
    ASSUME NEW list \in Seq(Content), NEW o \in Content, NEW c
    PROVE  Cardinality(Places(Append(list, o), c)) =
               Cardinality(Places(list, c)) + (IF o = c THEN 1 ELSE 0)
<1> DEFINE n == Len(list)
           longer == Append(list, o)
<1>1. n \in Nat /\ DOMAIN list = 1 .. n
  BY LenProperties
<1>2. DOMAIN longer = 1 .. n + 1 /\ longer[n + 1] = o /\ \A i \in 1 .. n : longer[i] = list[i]
  BY <1>1, AppendProperties, LenProperties
<1> HIDE DEF n, longer
<1>3. 1 .. n + 1 = 1 .. n \union {n + 1} /\ n + 1 \notin 1 .. n
  BY <1>1
<1>4. Places(longer, c) = IF o = c THEN Places(list, c) \union {n + 1} ELSE Places(list, c)
  <2>1. Places(longer, c) = {i \in 1 .. n \union {n + 1} : longer[i] = c}
    BY <1>2, <1>3 DEF Places
  <2>2. \A i \in 1 .. n \union {n + 1} :
            longer[i] = c <=> i \in Places(list, c) \/ (i = n + 1 /\ o = c)
    BY <1>1, <1>2, <1>3 DEF Places
  <2>3. Places(list, c) \subseteq 1 .. n
    BY <1>1 DEF Places
  <2> QED
    BY <2>1, <2>2, <2>3
<1>5. n + 1 \notin Places(list, c)
  BY <1>1, <1>3 DEF Places
<1>6. IsFiniteSet(Places(list, c)) /\ Cardinality(Places(list, c)) \in Nat
  BY PlacesFinite
<1>7. Cardinality(Places(list, c) \union {n + 1}) = Cardinality(Places(list, c)) + 1
  BY <1>5, <1>6, FS_AddElement
<1> QED
  BY <1>4, <1>6, <1>7 DEF longer

\* Removing an element of a list removes one place of that version.
LEMMA CountRemoved ==
    ASSUME NEW list \in Seq(Content), NEW n \in DOMAIN list, NEW c
    PROVE  Cardinality(Places(RemoveAt(list, n), c)) + (IF list[n] = c THEN 1 ELSE 0) =
               Cardinality(Places(list, c))
<1> DEFINE shorter == RemoveAt(list, n)
           P == Places(list, c)
           Q == Places(shorter, c)
           f == [i \in Q |-> IF i < n THEN i ELSE i + 1]
<1>1. Len(list) \in Nat /\ DOMAIN list = 1 .. Len(list) /\ n \in 1 .. Len(list)
  BY LenProperties
<1>2. /\ DOMAIN shorter = 1 .. Len(list) - 1 /\ shorter \in Seq(Content)
      /\ \A i \in 1 .. Len(list) - 1 : shorter[i] = IF i < n THEN list[i] ELSE list[i + 1]
  BY ListWithout, LenProperties
<1> HIDE DEF shorter
<1>3. f \in [Q -> P \ {n}]
  <2>1. SUFFICES ASSUME NEW i \in Q
                 PROVE  (IF i < n THEN i ELSE i + 1) \in P \ {n}
    OBVIOUS
  <2>2. i \in 1 .. Len(list) - 1 /\ shorter[i] = c
    BY <1>2 DEF Places
  <2> QED
    BY <1>1, <1>2, <2>2 DEF Places
<1>4. \A i, j \in Q : f[i] = f[j] => i = j
  <2>1. Q \subseteq Int
    BY <1>1, <1>2 DEF Places
  <2> QED
    BY <1>1, <2>1
<1>5. ASSUME NEW p \in P \ {n}
      PROVE  \E i \in Q : f[i] = p
  <2>1. p \in 1 .. Len(list) /\ p # n /\ list[p] = c
    BY <1>1 DEF Places
  <2>2. CASE p < n
    <3>1. p \in 1 .. Len(list) - 1 /\ shorter[p] = c
      BY <1>1, <1>2, <2>1, <2>2
    <3>2. p \in Q
      BY <1>2, <3>1 DEF Places
    <3> QED
      BY <2>2, <3>2
  <2>3. CASE ~(p < n)
    <3>1. p - 1 \in 1 .. Len(list) - 1 /\ ~(p - 1 < n) /\ p - 1 + 1 = p
      BY <1>1, <2>1, <2>3
    <3>2. shorter[p - 1] = c
      BY <1>2, <2>1, <3>1
    <3>3. p - 1 \in Q
      BY <1>2, <3>1, <3>2 DEF Places
    <3> QED
      BY <3>1, <3>3
  <2> QED
    BY <2>2, <2>3
<1>6. ExistsBijection(Q, P \ {n})
  <2>1. f \in Bijection(Q, P \ {n})
    BY <1>3, <1>4, <1>5 DEF Bijection, Injection, Surjection, IsInjective
  <2> QED
    BY <2>1 DEF ExistsBijection
<1>7. IsFiniteSet(Q) /\ IsFiniteSet(P) /\ Cardinality(P) \in Nat
  BY <1>2, PlacesFinite
<1> HIDE DEF P, Q, f
<1>8. Cardinality(Q) = Cardinality(P \ {n})
  BY <1>6, <1>7, FS_Bijection
<1>9. Cardinality(P \ {n}) = IF n \in P THEN Cardinality(P) - 1 ELSE Cardinality(P)
  BY <1>7, FS_RemoveElement
<1>10. n \in P <=> list[n] = c
  BY DEF P, Places
<1> QED
  BY <1>7, <1>8, <1>9, <1>10 DEF P, Q, shorter

\* The same versions as often are the same versions.
LEMMA SameVersionsFacts ==
    ASSUME NEW s \in Slot, NEW t \in Slot, SameVersions(s, t)
    PROVE  Versions(s) = Versions(t)
<1>1. ASSUME NEW u \in Slot, NEW c
      PROVE  c \in Versions(u) <=> c \in Content /\ Occurrences(u, c) # 0
  <2>1. u.suspended \in Seq(Content) /\ u.object \in Content \union {None}
    BY SlotUpdates
  <2>2. \A i \in DOMAIN u.suspended : u.suspended[i] \in Content
    BY <2>1, LenProperties, ElementOfSeq
  <2>3. /\ Cardinality(Places(u.suspended, c)) \in Nat
        /\ Cardinality(Places(u.suspended, c)) = 0 <=> Places(u.suspended, c) = {}
    BY <2>1, PlacesFinite, FS_EmptySet
  <2>4. Occurrences(u, c) # 0 <=> Places(u.suspended, c) # {} \/ u.object = c
    BY <2>3 DEF Occurrences
  <2>5. c \in Versions(u) <=> c # None /\ (Places(u.suspended, c) # {} \/ u.object = c)
    BY DEF Versions, ToSet, Places
  <2>6. Places(u.suspended, c) # {} => c \in Content
    BY <2>2 DEF Places
  <2> QED
    BY <2>1, <2>4, <2>5, <2>6, MarkerAssumption
<1> QED
  BY <1>1 DEF SameVersions

\* A submission of suspensions and reactivations.
OnlyMoves(h) == \A i \in DOMAIN Requests(h) : Requests(h)[i].kind \notin {"put", "delete"}

\* What such a submission has written are the versions there were.
ConserveOK(h) == Busy(h) /\ OnlyMoves(h) => \A k \in Keys : SameVersions(SlotView(h, k), registry[k])
ConserveInv == \A h \in Handlers : ConserveOK(h)

\* A row that is suspended or restored has the versions it had.
LEMMA SuspendedConserves ==
    ASSUME TypeOK, NEW h \in Handlers, NEW m, NEW k \in Keys, SuspendedRow(h, m, k)
    PROVE  SameVersions(writes'[h][k], SlotView(h, k))
<1> DEFINE list == SlotView(h, k).suspended
           new == writes'[h][k]
<1>1. /\ new.object = None /\ new.suspended = Append(list, Object(h, k))
  BY DEF SuspendedRow
<1>2. list \in Seq(Content) /\ Object(h, k) \in Content /\ Object(h, k) # None
  BY ViewSlot DEF SuspendedRow, Exists
<1>3. SlotView(h, k).object = Object(h, k)
  BY DEF Object
<1>4. Len(Append(list, Object(h, k))) = Len(list) + 1 /\ Len(list) \in Nat
  BY <1>2, AppendProperties, LenProperties
<1> HIDE DEF list, new
<1>5. NumberOfVersions(new) = NumberOfVersions(SlotView(h, k))
  BY <1>1, <1>2, <1>3, <1>4 DEF NumberOfVersions, list
<1>6. ASSUME NEW c \in Content
      PROVE  Occurrences(new, c) = Occurrences(SlotView(h, k), c)
  <2>1. Cardinality(Places(Append(list, Object(h, k)), c)) =
            Cardinality(Places(list, c)) + (IF Object(h, k) = c THEN 1 ELSE 0)
    BY <1>2, CountAppended
  <2>2. Cardinality(Places(list, c)) \in Nat
    BY <1>2, PlacesFinite
  <2>3. None # c
    BY MarkerAssumption
  <2>4. Occurrences(new, c) = Cardinality(Places(Append(list, Object(h, k)), c)) + 0
    BY <1>1, <2>3 DEF Occurrences
  <2>5. Occurrences(SlotView(h, k), c) =
            Cardinality(Places(list, c)) + (IF Object(h, k) = c THEN 1 ELSE 0)
    BY <1>3 DEF Occurrences, list
  <2> QED
    BY <2>1, <2>2, <2>4, <2>5
<1> QED
  BY <1>5, <1>6 DEF SameVersions, new

\* A row that is restored has the versions it had.
LEMMA RestoredConserves ==
    ASSUME TypeOK, NEW h \in Handlers, NEW m, NEW k \in Keys, RestoredRow(h, m, k)
    PROVE  SameVersions(writes'[h][k], SlotView(h, k))
<1> DEFINE list == SlotView(h, k).suspended
           new == writes'[h][k]
           n == Min(Reactivating(h, m, k))
<1>1. n \in DOMAIN list /\ new.object = list[n] /\ new.suspended = RemoveAt(list, n)
  BY DEF RestoredRow, Reactivating
<1>2. list \in Seq(Content)
  BY ViewSlot
<1>3. SlotView(h, k).object = None
  BY DEF RestoredRow, Exists, Object
<1> HIDE DEF list, new, n
<1>4. Len(RemoveAt(list, n)) = Len(list) - 1 /\ Len(list) \in Nat
  BY <1>1, <1>2, ListWithout, LenProperties
<1>5. list[n] \in Content /\ list[n] # None
  BY <1>1, <1>2, LenProperties, ElementOfSeq, MarkerAssumption
<1>6. NumberOfVersions(new) = NumberOfVersions(SlotView(h, k))
  BY <1>1, <1>3, <1>4, <1>5 DEF NumberOfVersions, list
<1>7. ASSUME NEW c \in Content
      PROVE  Occurrences(new, c) = Occurrences(SlotView(h, k), c)
  <2>1. Cardinality(Places(RemoveAt(list, n), c)) + (IF list[n] = c THEN 1 ELSE 0) =
            Cardinality(Places(list, c))
    BY <1>1, <1>2, CountRemoved
  <2>2. Cardinality(Places(list, c)) \in Nat
    BY <1>2, PlacesFinite
  <2>3. Occurrences(SlotView(h, k), c) = Cardinality(Places(list, c)) + 0
    BY <1>3, MarkerAssumption DEF Occurrences, list
  <2>4. Occurrences(new, c) =
            Cardinality(Places(RemoveAt(list, n), c)) + (IF list[n] = c THEN 1 ELSE 0)
    BY <1>1 DEF Occurrences
  <2> QED
    BY <2>1, <2>2, <2>3, <2>4
<1> QED
  BY <1>6, <1>7 DEF SameVersions, new

\* The saving loop keeps what suspensions and reactivations have written conserved.
LEMMA SavesConserve ==
    ASSUME TypeOK, ConserveInv, NEW h \in Handlers, Saves(h)
    PROVE  ConserveOK(h)'
<1>1. PICK st, R : SaveStep(h, st, R)
  BY SavesSteps
<1>2. /\ registry' = registry /\ submission' = submission
      /\ Saving(h) /\ Busy(h) /\ Turn(h) \in 1 .. Len(Requests(h))
  BY <1>1, TurnFacts DEF SaveStep, Done
<1>3. SUFFICES ASSUME OnlyMoves(h), NEW k \in Keys
               PROVE  SameVersions(SlotView(h, k)', registry[k])
  BY <1>2 DEF ConserveOK, OnlyMoves, Requests
<1>4. SameVersions(SlotView(h, k), registry[k])
  BY <1>2, <1>3 DEF ConserveInv, ConserveOK
<1>5. SUFFICES SlotView(h, k)' = SlotView(h, k) \/ SameVersions(SlotView(h, k)', SlotView(h, k))
  BY <1>4 DEF SameVersions
<1>6. Requests(h)[Turn(h)].kind \notin {"put", "delete"}
  BY <1>2, <1>3, BusyFacts DEF OnlyMoves
<1>7. CASE SkipInvalid(h) \/ SaveIdentical(h) \/ SuspensionRefused(h)
  BY <1>2, <1>7, NoEffect DEF SlotView
<1>8. CASE Suspend(h)
  <2>1. PICK S : SaveStep(h, "SAVED", S) /\ \A j \in S : SuspendedRow(h, KeyNow(h), j)
    BY <1>8, SuspendEffect
  <2>2. CASE k \in S
    <3>1. SlotView(h, k)' = writes'[h][k]
      BY <2>1, <2>2, MarkerAssumption DEF SaveStep, SlotView
    <3> QED
      BY <2>1, <2>2, <3>1, SuspendedConserves
  <2>3. CASE k \notin S
    BY <1>2, <2>1, <2>3 DEF SaveStep, SlotView
  <2> QED
    BY <2>2, <2>3
<1>9. CASE Reactivate(h)
  <2> DEFINE S == Restorable(h, KeyNow(h))
  <2>1. SaveStep(h, "SAVED", S) /\ \A j \in S : RestoredRow(h, KeyNow(h), j)
    BY <1>9, ReactivateEffect
  <2> HIDE DEF S
  <2>2. CASE k \in S
    <3>1. SlotView(h, k)' = writes'[h][k]
      BY <2>1, <2>2, MarkerAssumption DEF SaveStep, SlotView
    <3> QED
      BY <2>1, <2>2, <3>1, RestoredConserves
  <2>3. CASE k \notin S
    BY <1>2, <2>1, <2>3 DEF SaveStep, SlotView
  <2> QED
    BY <2>2, <2>3
<1>10. ~SaveObject(h) /\ ~DeleteObject(h)
  BY <1>6 DEF SaveObject, DeleteObject, SavesNow
<1> QED
  BY <1>7, <1>8, <1>9, <1>10 DEF Saves

\* Every step does, also the commits of other processes: they do not touch locked rows.
LEMMA StepConserves ==
    ASSUME TypeOK, HeldInv, ConserveInv, NEW h \in Handlers, Step(h)
    PROVE  ConserveInv'
<1>1. ASSUME NEW g \in Handlers
      PROVE  ConserveOK(g)'
  <2>1. CASE g # h
    <3>1. Same(g)
      BY <2>1, OthersSame
    <3>2. SUFFICES ASSUME Busy(g), OnlyMoves(g), NEW k \in Keys
                   PROVE  SameVersions(SlotView(g, k)', registry'[k])
      BY <3>1 DEF ConserveOK, Busy, OnlyMoves, Requests, Same
    <3>3. SameVersions(SlotView(g, k), registry[k])
      BY <3>2 DEF ConserveInv, ConserveOK
    <3>4. CASE registry'[k] = registry[k]
      BY <3>1, <3>3, <3>4 DEF SlotView, Same
    <3>5. CASE registry'[k] # registry[k]
      <4>1. Commit(h)
        <5>1. CASE \E s \in Submissions : Load(h, s)
          BY <3>5, <5>1 DEF Load
        <5>2. CASE Validate(h)
          BY <3>5, <5>2 DEF Validate
        <5>3. CASE Saves(h)
          BY <3>5, <5>3, SavesSteps DEF SaveStep, Done
        <5>4. CASE Fail(h)
          BY <3>5, <5>4 DEF Fail
        <5> QED
          BY <5>1, <5>2, <5>3, <5>4 DEF Step
      <4>2. writes[g][k] = Untouched
        BY <2>1, <3>5, <4>1, CommitKeeps
      <4>3. SlotView(g, k)' = registry'[k]
        BY <3>1, <4>2 DEF Same, SlotView
      <4> QED
        BY <4>3 DEF SameVersions
    <3> QED
      BY <3>4, <3>5
  <2>2. CASE g = h
    <3>1. ASSUME NEW s \in Submissions, Load(h, s)
          PROVE  ConserveOK(h)'
      <4>1. writes' = writes /\ \A k \in Keys : writes[h][k] = Untouched
        BY <3>1 DEF Load, HeldInv, IdleOK
      <4> QED
        BY <4>1 DEF ConserveOK, SlotView, SameVersions
    <3>2. ASSUME Validate(h)
          PROVE  ConserveOK(h)'
      BY <3>2 DEF Validate, ConserveInv, ConserveOK, SlotView, Busy, OnlyMoves, Requests
    <3>3. ASSUME Commit(h) \/ Fail(h)
          PROVE  ConserveOK(h)'
      <4>1. submission'[h] = None
        BY <3>3 DEF Commit, Fail, Finished, TypeOK
      <4> QED
        BY <4>1 DEF ConserveOK, Busy
    <3> QED
      BY <2>2, <3>1, <3>2, <3>3, SavesConserve DEF Step
  <2> QED
    BY <2>1, <2>2
<1> QED
  BY <1>1 DEF ConserveInv

\* Suspensions and reactivations under way have lost no version.
LEMMA ConserveInvariant == Spec => []ConserveInv
<1>1. Init => ConserveInv
  BY DEF Init, ConserveInv, ConserveOK, Busy
<1>2. TypeOK /\ HeldInv /\ ConserveInv /\ [Next]_vars => ConserveInv'
  <2>1. ASSUME ConserveInv, UNCHANGED vars
        PROVE  ConserveInv'
    BY <2>1 DEF vars, submissionVars, ConserveInv, ConserveOK, Busy, OnlyMoves, Requests, SlotView
  <2> QED
    BY <2>1, NextSteps, StepConserves
<1> QED
  BY <1>1, <1>2, TypeCorrect, LocksHeld, PTL DEF Spec

\* suspend_for_mntner() and reactivate_for_mntner() move versions of objects
\* and lose none, also while other submissions are handled.
THEOREM SuspensionsConserve == Spec => SuspensionConserves
<1>1. ASSUME TypeOK, ConserveInv, NEW h \in Handlers, Commit(h), OnlyMoves(h), NEW k \in Keys
      PROVE  /\ Versions(registry'[k]) = Versions(registry[k])
             /\ NumberOfVersions(registry'[k]) = NumberOfVersions(registry[k])
  <2>1. registry'[k] = SlotView(h, k)
    BY <1>1 DEF Commit
  <2>2. SameVersions(SlotView(h, k), registry[k])
    BY <1>1 DEF ConserveInv, ConserveOK, Commit
  <2>3. SlotView(h, k) \in Slot /\ registry[k] \in Slot
    BY <1>1, ViewSlot DEF TypeOK
  <2> QED
    BY <2>1, <2>2, <2>3, SameVersionsFacts DEF SameVersions
<1>2. TypeOK /\ ConserveInv =>
        [\A h \in Handlers :
          Commit(h) /\ (\A i \in DOMAIN Requests(h) : Requests(h)[i].kind \notin {"put", "delete"}) =>
            \A k \in Keys :
                /\ Versions(registry'[k]) = Versions(registry[k])
                /\ NumberOfVersions(registry'[k]) = NumberOfVersions(registry[k])]_vars
  BY <1>1 DEF OnlyMoves
<1> QED
  BY <1>2, TypeCorrect, ConserveInvariant, PTL DEF SuspensionConserves

-----------------------------------------------------------------------------
(* Suspensions can be undone *)

\* The objects from before the last suspension are there, or their last version
\* is suspended where the reactivation of the mntner finds it.
BeforeOK ==
    \A k \in Keys : before.objects[k] # None =>
        \/ registry[k].object = before.objects[k]
        \/ /\ registry[k].object = None
           /\ k = before.mntner \/ before.mntner \in before.objects[k].mntBy
           /\ \E n \in DOMAIN registry[k].suspended :
                 /\ \A i \in DOMAIN registry[k].suspended : i <= n
                 /\ registry[k].suspended[n] = before.objects[k]

\* What a process has written that suspends one mntner.
SuspendedOK(h) ==
    Busy(h) /\ OnlyRequest(h, "suspend") =>
        LET m == Requests(h)[1].key IN
        /\ writes[h][m] # Untouched
        /\ \A k \in Keys : writes[h][k] # Untouched =>
              /\ k = m \/ m \in registry[k].object.mntBy
              /\ writes[h][k].object = None
              /\ writes[h][k].suspended = Append(registry[k].suspended, registry[k].object)
              /\ registry[k].object # None

\* What a process has written that reactivates one mntner: if it was the last one
\* suspended, the objects from before.
RestoredOK(h) ==
    Busy(h) /\ OnlyRequest(h, "reactivate") =>
        LET m == Requests(h)[1].key IN
        /\ writes[h][m] # Untouched
        /\ before.mntner = m =>
              \A k \in Keys : before.objects[k] # None /\ Len(registry[k].suspended) <= 1 =>
                  Object(h, k) = before.objects[k]

ReverseInv == BeforeOK /\ \A h \in Handlers : SuspendedOK(h) /\ RestoredOK(h)

\* A single request that has just been saved was saved first.
LEMMA OnlyTurn ==
    ASSUME TypeOK, HeldInv, NEW h \in Handlers, Saves(h), NEW kind, OnlyRequest(h, kind)',
           kind \in {"suspend", "reactivate"}
    PROVE  /\ KeyNow(h) = Requests(h)[1].key
           /\ \A k \in Keys : writes[h][k] = Untouched
           /\ kind = "suspend" => Suspend(h)
           /\ kind = "reactivate" => Reactivate(h)
<1>1. PICK st, R : SaveStep(h, st, R)
  BY SavesSteps
<1>2. /\ submission' = submission /\ status' = [status EXCEPT ![h][Turn(h)] = st]
      /\ Saving(h)
  BY <1>1 DEF SaveStep, Done
<1>3. /\ Busy(h) /\ saved[h] \in Nat /\ Turn(h) = saved[h] + 1 /\ Turn(h) \in 1 .. Len(Requests(h))
      /\ KeyNow(h) = Requests(h)[Turn(h)].key
  BY <1>2, TurnFacts
<1>4. Len(Requests(h)) = 1 /\ Requests(h)[1].kind = kind /\ status'[h][1] = "SAVED"
  BY <1>2 DEF OnlyRequest, Requests
<1>5. Turn(h) = 1 /\ saved[h] = 0
  BY <1>3, <1>4
<1>6. DOMAIN status[h] = 1 .. 1 /\ 1 \in 1 .. 1
  BY <1>3, <1>4, BusyFacts
<1>7. ASSUME NEW x, status' = [status EXCEPT ![h][Turn(h)] = x]
      PROVE  x = "SAVED"
  <2>1. status'[h][1] = x
    BY <1>5, <1>6, <1>7 DEF TypeOK
  <2> QED
    BY <1>4, <2>1
<1>8. ~SkipInvalid(h) /\ ~SuspensionRefused(h)
  <2>1. ~Done(h, "ERROR")
    BY <1>7 DEF Done
  <2> QED
    BY <2>1 DEF SkipInvalid, SuspensionRefused
<1>9. /\ ~SaveIdentical(h) /\ ~SaveObject(h) /\ ~DeleteObject(h)
      /\ kind = "suspend" => ~Reactivate(h)
      /\ kind = "reactivate" => ~Suspend(h)
  BY <1>4, <1>5 DEF SaveIdentical, SaveObject, DeleteObject, Reactivate, Suspend, SavesNow
<1>10. \A k \in Keys : writes[h][k] = Untouched
  BY <1>5 DEF HeldInv, IdleOK
<1> QED
  BY <1>3, <1>5, <1>8, <1>9, <1>10 DEF Saves

\* The saving loop establishes what is suspended and restored, row by row.
LEMMA SavesReverse ==
    ASSUME TypeOK, HeldInv, ReverseInv, NEW h \in Handlers, Saves(h)
    PROVE  SuspendedOK(h)' /\ RestoredOK(h)' /\ BeforeOK'
<1>1. PICK st, R : SaveStep(h, st, R)
  BY SavesSteps
<1>2. registry' = registry /\ before' = before /\ submission' = submission /\ Busy(h)
  BY <1>1, TurnFacts DEF SaveStep, Done, ghostVars
<1>3. BeforeOK'
  BY <1>2 DEF ReverseInv, BeforeOK
<1> DEFINE m == Requests(h)[1].key
<1>4. ASSUME OnlyRequest(h, "suspend")'
      PROVE  SuspendedOK(h)'
  <2>1. KeyNow(h) = m /\ Suspend(h) /\ \A k \in Keys : writes[h][k] = Untouched
    BY <1>4, OnlyTurn
  <2>2. PICK S : SaveStep(h, "SAVED", S) /\ m \in S /\ \A k \in S : SuspendedRow(h, m, k)
    BY <2>1, SuspendEffect
  <2>3. \A k \in Keys : SlotView(h, k) = registry[k] /\ Object(h, k) = registry[k].object
    BY <2>1 DEF SlotView, Object
  <2>4. S \subseteq Keys /\ \A k \in Keys : writes'[h][k] # Untouched => k \in S
    BY <2>1, <2>2 DEF SaveStep
  <2>5. writes'[h][m] # Untouched
    BY <2>2, MarkerAssumption DEF SaveStep
  <2>6. ASSUME NEW k \in S
        PROVE  /\ k = m \/ m \in registry[k].object.mntBy
               /\ writes'[h][k].object = None
               /\ writes'[h][k].suspended = Append(registry[k].suspended, registry[k].object)
               /\ registry[k].object # None
    <3>1. SuspendedRow(h, m, k) /\ k \in Keys
      BY <2>2, <2>4
    <3>2. /\ k = m \/ m \in Object(h, k).mntBy
          /\ writes'[h][k].object = None
          /\ writes'[h][k].suspended = Append(SlotView(h, k).suspended, Object(h, k))
          /\ Object(h, k) # None
      BY <3>1 DEF SuspendedRow, Exists
    <3>3. SlotView(h, k) = registry[k] /\ Object(h, k) = registry[k].object
      BY <2>3, <3>1
    <3> QED
      BY <3>2, <3>3
  <2> HIDE DEF m
  <2>7. Requests(h)'[1].key = m
    BY <1>2 DEF Requests, m
  <2> QED
    BY <1>2, <2>4, <2>5, <2>6, <2>7 DEF SuspendedOK
<1>5. ASSUME OnlyRequest(h, "reactivate")'
      PROVE  RestoredOK(h)'
  <2>1. KeyNow(h) = m /\ Reactivate(h) /\ \A k \in Keys : writes[h][k] = Untouched
    BY <1>5, OnlyTurn
  <2> DEFINE S == Restorable(h, m)
  <2>2. SaveStep(h, "SAVED", S) /\ m \in S /\ \A k \in S : RestoredRow(h, m, k)
    BY <2>1, ReactivateEffect
  <2>3. \A k \in Keys : SlotView(h, k) = registry[k] /\ Object(h, k) = registry[k].object
    BY <2>1 DEF SlotView, Object
  <2>4. writes'[h][m] # Untouched
    BY <2>2, MarkerAssumption DEF SaveStep
  <2>5. ASSUME NEW k \in Keys, before.mntner = m, before.objects[k] # None,
               Len(registry[k].suspended) <= 1
        PROVE  Object(h, k)' = before.objects[k]
    <3>1. CASE registry[k].object = before.objects[k]
      <4>1. k \notin S
        BY <2>3, <2>5, <3>1 DEF Restorable, Exists
      <4>2. writes'[h][k] = Untouched
        BY <2>1, <2>2, <4>1 DEF SaveStep
      <4> QED
        BY <1>2, <3>1, <4>2 DEF Object, SlotView
    <3>2. CASE registry[k].object # before.objects[k]
      <4> DEFINE list == registry[k].suspended
      <4>1. /\ registry[k].object = None /\ (k = m \/ m \in before.objects[k].mntBy)
            /\ \E n \in DOMAIN list : list[n] = before.objects[k]
        BY <2>5, <3>2 DEF ReverseInv, BeforeOK
      <4>2. list \in Seq(Content)
        BY SlotUpdates DEF TypeOK
      <4>3. Len(list) \in Nat /\ DOMAIN list = 1 .. Len(list)
        BY <4>2, LenProperties
      <4>4. DOMAIN list = {1}
        BY <2>5, <4>1, <4>3
      <4>5. list[1] = before.objects[k]
        BY <4>1, <4>4
      <4>6. 1 \in Reactivating(h, m, k)
        BY <2>3, <4>1, <4>4, <4>5 DEF Reactivating
      <4>7. k \in S
        BY <2>3, <4>1, <4>6 DEF Restorable, Exists
      <4>8. Min(Reactivating(h, m, k)) = 1 /\ writes'[h][k].object = list[1]
        <5>1. SlotView(h, k).suspended = list
          BY <2>3
        <5>4. RestoredRow(h, m, k)
          BY <2>2, <4>7
        <5>5. Min(Reactivating(h, m, k)) \in Reactivating(h, m, k)
          BY <5>4 DEF RestoredRow
        <5>6. Reactivating(h, m, k) \subseteq {1}
          BY <4>4, <5>1 DEF Reactivating
        <5>2. Min(Reactivating(h, m, k)) = 1
          BY <5>5, <5>6
        <5>3. writes'[h][k].object = SlotView(h, k).suspended[Min(Reactivating(h, m, k))]
          BY <5>4 DEF RestoredRow
        <5> QED
          BY <5>1, <5>2, <5>3
      <4>9. writes'[h][k] # Untouched
        BY <2>2, <4>7, MarkerAssumption DEF SaveStep
      <4> QED
        BY <4>5, <4>8, <4>9 DEF Object, SlotView
    <3> QED
      BY <3>1, <3>2
  <2> HIDE DEF m, S
  <2>6. Requests(h)'[1].key = m
    BY <1>2 DEF Requests, m
  <2> QED
    BY <1>2, <2>4, <2>5, <2>6 DEF RestoredOK
<1> QED
  BY <1>3, <1>4, <1>5 DEF SuspendedOK, RestoredOK

\* The commit of a suspension is the last one, and the others undo nothing.
LEMMA CommitBefore ==
    ASSUME TypeOK, HeldInv, ReverseInv, NEW h \in Handlers, Commit(h)
    PROVE  /\ BeforeOK'
           /\ \A g \in Handlers : g # h => RestoredOK(g)'
<1>0. Busy(h) /\ registry' = [k \in Keys |-> SlotView(h, k)]
  BY DEF Commit
<1>1. CASE OnlyRequest(h, "suspend")
  <2> DEFINE m == Requests(h)[1].key
  <2>1. /\ before'.mntner = m
        /\ \A k \in Keys : before'.objects[k] = registry[k].object
    BY <1>1 DEF Commit
  <2>2. /\ writes[h][m] # Untouched
        /\ \A k \in Keys : writes[h][k] # Untouched =>
              /\ k = m \/ m \in registry[k].object.mntBy
              /\ writes[h][k].object = None
              /\ writes[h][k].suspended = Append(registry[k].suspended, registry[k].object)
              /\ registry[k].object # None
    BY <1>0, <1>1 DEF ReverseInv, SuspendedOK
  <2> HIDE DEF m
  <2>3. ASSUME NEW k \in Keys, before'.objects[k] # None, writes[h][k] # Untouched
        PROVE  \E n \in DOMAIN registry'[k].suspended :
                 /\ \A i \in DOMAIN registry'[k].suspended : i <= n
                 /\ registry'[k].suspended[n] = before'.objects[k]
    <3> DEFINE list == registry[k].suspended
               o == registry[k].object
    <3>1. registry'[k].suspended = Append(list, o) /\ before'.objects[k] = o
      BY <1>0, <2>1, <2>2, <2>3 DEF SlotView
    <3>2. list \in Seq(Content) /\ o \in Content
      BY <2>2, <2>3, SlotUpdates DEF TypeOK
    <3> HIDE DEF list, o
    <3>3. /\ Len(list) \in Nat /\ DOMAIN Append(list, o) = 1 .. Len(list) + 1
          /\ Append(list, o)[Len(list) + 1] = o
      BY <3>2, AppendProperties, LenProperties
    <3>4. Len(list) + 1 \in DOMAIN Append(list, o)
          /\ \A i \in DOMAIN Append(list, o) : i <= Len(list) + 1
      BY <3>3
    <3> QED
      BY <3>1, <3>3, <3>4
  <2>4. BeforeOK'
    <3>1. SUFFICES ASSUME NEW k \in Keys, before'.objects[k] # None
                   PROVE  \/ registry'[k].object = before'.objects[k]
                          \/ /\ registry'[k].object = None
                             /\ k = before'.mntner \/ before'.mntner \in before'.objects[k].mntBy
                             /\ \E n \in DOMAIN registry'[k].suspended :
                                  /\ \A i \in DOMAIN registry'[k].suspended : i <= n
                                  /\ registry'[k].suspended[n] = before'.objects[k]
      BY DEF BeforeOK
    <3>2. CASE writes[h][k] = Untouched
      BY <1>0, <2>1, <3>2 DEF SlotView
    <3>3. CASE writes[h][k] # Untouched
      <4>1. registry'[k].object = None /\ (k = m \/ m \in before'.objects[k].mntBy)
        BY <1>0, <2>1, <2>2, <3>3 DEF SlotView
      <4> QED
        BY <2>1, <2>3, <3>1, <3>3, <4>1
    <3> QED
      BY <3>2, <3>3
  <2>5. ASSUME NEW g \in Handlers, g # h, Busy(g), OnlyRequest(g, "reactivate")
        PROVE  /\ writes[g][Requests(g)[1].key] # Untouched
               /\ before'.mntner # Requests(g)[1].key
    <3>1. writes[g][Requests(g)[1].key] # Untouched
      BY <2>5 DEF ReverseInv, RestoredOK
    <3>2. Requests(g)[1].key \in Keys
      BY <2>5, BusyFacts DEF OnlyRequest
    <3>3. m # Requests(g)[1].key
      BY <2>2, <2>5, <3>1, <3>2 DEF HeldInv, ExclusiveOK
    <3> QED
      BY <2>1, <3>1, <3>3
  <2>6. ASSUME NEW g \in Handlers, g # h
        PROVE  RestoredOK(g)'
    <3>1. Same(g)
      BY <2>6, OthersSame DEF Step
    <3> QED
      BY <2>5, <2>6, <3>1 DEF RestoredOK, Same, Busy, OnlyRequest, Requests
  <2> QED
    BY <2>4, <2>6
<1>2. CASE ~OnlyRequest(h, "suspend") /\ writes[h] = NoWrites
  <2>1. before' = before
    BY <1>2 DEF Commit
  <2>2. registry' = registry
    BY <1>0, <1>2 DEF TypeOK, SlotView, NoWrites
  <2>3. ASSUME NEW g \in Handlers, g # h
        PROVE  RestoredOK(g)'
    <3>1. Same(g)
      BY <2>3, OthersSame DEF Step
    <3> QED
      BY <2>1, <2>2, <3>1 DEF ReverseInv, RestoredOK, Same, Busy, OnlyRequest, Requests, Object, SlotView
  <2> QED
    BY <2>1, <2>2, <2>3 DEF ReverseInv, BeforeOK
<1>3. CASE ~OnlyRequest(h, "suspend") /\ writes[h] # NoWrites
  <2>1. before' = NoSuspension
    BY <1>3 DEF Commit
  <2>2. \A k \in Keys : before'.objects[k] = None
    BY <2>1 DEF NoSuspension
  <2>3. ASSUME NEW g \in Handlers, g # h
        PROVE  RestoredOK(g)'
    <3>1. Same(g)
      BY <2>3, OthersSame DEF Step
    <3> QED
      BY <2>2, <3>1 DEF ReverseInv, RestoredOK, Same, Busy, OnlyRequest, Requests
  <2> QED
    BY <2>2, <2>3 DEF BeforeOK
<1> QED
  BY <1>1, <1>2, <1>3

\* Only a commit changes the committed objects and what the observers hold.
LEMMA RegistryKept ==
    ASSUME TypeOK, NEW h \in Handlers, Step(h), ~Commit(h)
    PROVE  registry' = registry /\ before' = before /\ loose' = loose
<1>1. CASE \E s \in Submissions : Load(h, s)
  BY <1>1 DEF Load, ghostVars
<1>2. CASE Validate(h)
  BY <1>2 DEF Validate, ghostVars
<1>3. CASE Saves(h)
  BY <1>3, SavesSteps DEF SaveStep, Done, ghostVars
<1>4. CASE Fail(h)
  BY <1>4 DEF Fail, ghostVars
<1> QED
  BY <1>1, <1>2, <1>3, <1>4 DEF Step

\* What a process has suspended or restored outlasts the steps of the others.
LEMMA OthersReverse ==
    ASSUME TypeOK, HeldInv, ReverseInv, NEW h \in Handlers, Step(h), NEW g \in Handlers, g # h
    PROVE  SuspendedOK(g)' /\ RestoredOK(g)'
<1>1. Same(g)
  BY OthersSame
<1>2. CASE ~Commit(h)
  <2>1. registry' = registry /\ before' = before
    BY <1>2, RegistryKept
  <2>2. SuspendedOK(g)'
    BY <1>1, <2>1 DEF ReverseInv, SuspendedOK, Same, Busy, OnlyRequest, Requests
  <2>3. RestoredOK(g)'
    BY <1>1, <2>1 DEF ReverseInv, RestoredOK, Same, Busy, OnlyRequest, Requests, Object, SlotView
  <2> QED
    BY <2>2, <2>3
<1>3. CASE Commit(h)
  <2>1. \A k \in Keys : writes[g][k] # Untouched => registry'[k] = registry[k]
    BY <1>3, CommitKeeps
  <2>2. SuspendedOK(g)'
    BY <1>1, <2>1 DEF ReverseInv, SuspendedOK, Same, Busy, OnlyRequest, Requests
  <2> QED
    BY <1>3, <2>2, CommitBefore
<1> QED
  BY <1>2, <1>3

\* Every step keeps suspensions reversible.
LEMMA StepReverse ==
    ASSUME TypeOK, HeldInv, ReverseInv, NEW h \in Handlers, Step(h)
    PROVE  ReverseInv'
<1>1. BeforeOK'
  <2>1. CASE ~Commit(h)
    BY <2>1, RegistryKept DEF ReverseInv, BeforeOK
  <2>2. CASE Commit(h)
    BY <2>2, CommitBefore
  <2> QED
    BY <2>1, <2>2
<1>2. SuspendedOK(h)' /\ RestoredOK(h)'
  <2>1. CASE \E s \in Submissions : Load(h, s)
    <3>1. PICK s \in Submissions : Load(h, s)
      BY <2>1
    <3>2. /\ submission'[h] = s
          /\ status'[h] = [i \in DOMAIN s.requests |-> ParsedStatus(h, s, s.requests[i])]
      BY <3>1 DEF Load, TypeOK
    <3>3. DOMAIN s.requests = 1 .. Len(s.requests)
      BY LenProperties, SubmissionAssumption DEF Submission
    <3>4. ~OnlyRequest(h, "suspend")' /\ ~OnlyRequest(h, "reactivate")'
      BY <3>2, <3>3 DEF OnlyRequest, Requests, ParsedStatus
    <3> QED
      BY <3>4 DEF SuspendedOK, RestoredOK
  <2>2. CASE Validate(h)
    <3>1. /\ UNCHANGED <<registry, submission, writes, before>>
          /\ Busy(h)
          /\ status'[h] = [i \in DOMAIN status[h] |->
                             IF i \in Valid(h) /\ ~Validates(h, i) THEN "ERROR" ELSE status[h][i]]
      BY <2>2 DEF Validate, TypeOK, ghostVars
    <3>2. ASSUME NEW kind, OnlyRequest(h, kind)'
          PROVE  OnlyRequest(h, kind)
      <4>1. Len(Requests(h)) = 1 /\ Requests(h)[1].kind = kind /\ status'[h][1] = "SAVED"
        BY <3>1, <3>2 DEF OnlyRequest, Requests
      <4>2. 1 \in DOMAIN status[h]
        BY <3>1, <4>1, BusyFacts
      <4>3. status[h][1] = "SAVED"
        BY <3>1, <4>1, <4>2
      <4> QED
        BY <4>1, <4>3 DEF OnlyRequest
    <3>3. SuspendedOK(h)'
      BY <3>1, <3>2 DEF ReverseInv, SuspendedOK, Busy, Requests
    <3>4. RestoredOK(h)'
      BY <3>1, <3>2 DEF ReverseInv, RestoredOK, Busy, Requests, Object, SlotView
    <3> QED
      BY <3>3, <3>4
  <2>3. CASE Saves(h)
    BY <2>3, SavesReverse
  <2>4. CASE Commit(h) \/ Fail(h)
    <3>1. submission'[h] = None
      BY <2>4 DEF Commit, Fail, Finished, TypeOK
    <3> QED
      BY <3>1 DEF SuspendedOK, RestoredOK, Busy
  <2> QED
    BY <2>1, <2>2, <2>3, <2>4 DEF Step
<1> QED
  BY <1>1, <1>2, OthersReverse DEF ReverseInv

\* Suspensions are reversible, those under way too.
LEMMA ReverseInvariant == Spec => []ReverseInv
<1>1. Init => ReverseInv
  <2>1. ASSUME Init
        PROVE  \A k \in Keys : before.objects[k] = None
    BY <2>1 DEF Init, NoSuspension
  <2> QED
    BY <2>1 DEF Init, ReverseInv, BeforeOK, SuspendedOK, RestoredOK, Busy
<1>2. TypeOK /\ HeldInv /\ ReverseInv /\ [Next]_vars => ReverseInv'
  <2>1. ASSUME ReverseInv, UNCHANGED vars
        PROVE  ReverseInv'
    BY <2>1 DEF vars, submissionVars, ghostVars, ReverseInv, BeforeOK, SuspendedOK, RestoredOK,
                Busy, OnlyRequest, Requests, Object, SlotView
  <2> QED
    BY <2>1, NextSteps, StepReverse
<1> QED
  BY <1>1, <1>2, TypeCorrect, LocksHeld, PTL DEF Spec

\* Reactivating a mntner right after its suspension brings back every object as
\* it was, unless another version was suspended before, also while other
\* submissions are handled (suspension.py).
THEOREM SuspensionsReversible == Spec => SuspensionReversible
<1>1. ASSUME ReverseInv, NEW h \in Handlers, Commit(h), OnlyRequest(h, "reactivate"),
             Requests(h)[1].key = before.mntner, NEW k \in Keys, before.objects[k] # None,
             Len(registry[k].suspended) <= 1
      PROVE  registry'[k].object = before.objects[k]
  <2>1. Busy(h) /\ registry'[k] = SlotView(h, k)
    BY <1>1 DEF Commit
  <2>2. Object(h, k) = before.objects[k]
    BY <1>1, <2>1 DEF ReverseInv, RestoredOK
  <2> QED
    BY <2>1, <2>2 DEF Object
<1>2. ReverseInv =>
        [\A h \in Handlers :
          Commit(h) /\ OnlyRequest(h, "reactivate") /\ Requests(h)[1].key = before.mntner =>
            \A k \in Keys : before.objects[k] # None /\ Len(registry[k].suspended) <= 1 =>
                registry'[k].object = before.objects[k]]_vars
  BY <1>1
<1> QED
  BY <1>2, ReverseInvariant, PTL DEF SuspensionReversible

-----------------------------------------------------------------------------
(* One submission at a time: what the validators have established *)

\* A submission of changes.
Changes(h) == \A i \in DOMAIN Requests(h) : Requests(h)[i].kind \in {"put", "delete"}

\* The versions that were retrieved are still current, what is to be deleted exists,
\* and suspensions are by an administrator.
LoadedOK(h) ==
    Busy(h) => \A i \in DOMAIN Requests(h) :
        /\ current[h][i] = registry[Requests(h)[i].key].object
        /\ i \in Valid(h) =>
              /\ Requests(h)[i].kind = "delete" => current[h][i] # None
              /\ Requests(h)[i].kind \in {"suspend", "reactivate"} => submission[h].override

\* No object refers to k, except those the submission deletes.
Unreferenced(h, k) == \A j \in Keys \ PreloadedDeleted(h) : k \notin Strong(registry[j].object)

\* What a valid request has been checked for, by the committed objects.
ApprovedAuth(h, i) ==
    LET r == Requests(h)[i] IN
    /\ Controls(submission[h].creds, registry, r.text)
    /\ IF current[h][i] # None THEN Controls(submission[h].creds, registry, current[h][i])
       ELSE RelatedAgrees(submission[h].creds, registry, r.key)
    /\ r.key \in Mntners => current[h][i] # None

Approved(h, i) ==
    LET r == Requests(h)[i] IN
    /\ ~submission[h].override =>
          /\ ApprovedAuth(h, i)
          /\ Type(h, i) = "CREATE" => ~registry[r.key].protected /\ Unreferenced(h, r.key)
    /\ r.kind = "delete" =>
          (submission[h].override /\ r.key \in ProtectedNames) \/ Unreferenced(h, r.key)
    /\ r.kind = "put" => \A k \in Strong(r.text) :
          \/ k \in PreloadedNew(h)
          \/ k \notin PreloadedDeleted(h) /\ registry[k].object # None

ApprovedOK(h) ==
    Busy(h) /\ Changes(h) /\ (saved[h] > 0 \/ Settled(h)) =>
        Settled(h) /\ \A i \in Valid(h) : Approved(h, i)

\* The type of a request.
LEMMA TypeFacts ==
    ASSUME TypeOK, NEW h \in Handlers, Busy(h), NEW i \in 1 .. Len(Requests(h))
    PROVE  /\ Type(h, i) = "CREATE" <=> Requests(h)[i].kind = "put" /\ current[h][i] = None
           /\ Type(h, i) \in {"CREATE", "MODIFY"} <=> Requests(h)[i].kind = "put"
           /\ Type(h, i) = "DELETE" <=> Requests(h)[i].kind = "delete"
           /\ Type(h, i) \in {"suspend", "reactivate"} <=>
                  Requests(h)[i].kind \in {"suspend", "reactivate"}
<1>1. Requests(h)[i].kind \in {"put", "delete", "suspend", "reactivate"}
  BY BusyFacts
<1>2. CASE Requests(h)[i].kind = "put"
  <2>1. CASE current[h][i] = None
    <3>1. Type(h, i) = "CREATE"
      BY <1>2, <2>1 DEF Type
    <3> QED
      BY <1>2, <2>1, <3>1
  <2>2. CASE current[h][i] # None
    <3>1. Type(h, i) = "MODIFY"
      BY <1>2, <2>2 DEF Type
    <3> QED
      BY <1>2, <2>2, <3>1
  <2> QED
    BY <2>1, <2>2
<1>3. CASE Requests(h)[i].kind = "delete"
  <2>1. Type(h, i) = "DELETE"
    BY <1>3 DEF Type
  <2> QED
    BY <1>3, <2>1
<1>4. CASE Requests(h)[i].kind \in {"suspend", "reactivate"}
  <2>1. Type(h, i) = Requests(h)[i].kind
    BY <1>4 DEF Type
  <2> QED
    BY <1>4, <2>1
<1> QED
  BY <1>1, <1>2, <1>3, <1>4

\* Without override no mntner is created, so that no mntner is pre-approved when
\* the validation has settled.
LEMMA NothingPreApproved ==
    ASSUME TypeOK, NEW h \in Handlers, Busy(h), Changes(h), ~submission[h].override,
           \A i \in Valid(h) : Validates(h, i)
    PROVE  PreApproved(h) = {}
<1>1. SUFFICES ASSUME NEW i \in Valid(h), Type(h, i) \in {"CREATE"}, Requests(h)[i].key \in Mntners
               PROVE  FALSE
  BY DEF PreApproved, ValidKeys
<1>2. i \in 1 .. Len(Requests(h)) /\ i \in DOMAIN Requests(h)
  BY BusyFacts DEF Valid
<1>3. Requests(h)[i].kind = "put" /\ current[h][i] = None
  BY <1>1, <1>2, TypeFacts
<1>4. ~(Type(h, i) \in {"suspend", "reactivate"})
  BY <1>1
<1>5. ProcessAuth(h, i)
  BY <1>1, <1>4 DEF Validates
<1> QED
  BY <1>1, <1>3, <1>5 DEF ProcessAuth

\* While nothing is written, the statements see the committed objects.
LEMMA CleanView ==
    ASSUME NEW h \in Handlers, \A k \in Keys : writes[h][k] = Untouched, NEW k \in Keys
    PROVE  SlotView(h, k) = registry[k] /\ Object(h, k) = registry[k].object
  BY DEF SlotView, Object

\* Without new mntners, the check of credentials is about committed mntners.
LEMMA MntnersControl ==
    ASSUME TypeOK, NEW h \in Handlers, \A k \in Keys : writes[h][k] = Untouched,
           PreApproved(h) = {}, NEW c \in Content
    PROVE  CheckMntners(h, c.mntBy) => Controls(submission[h].creds, registry, c)
<1>1. c.mntBy \subseteq Keys
  BY KeyAssumption DEF Content
<1>2. \A m \in c.mntBy : Object(h, m) = registry[m].object
  BY <1>1, CleanView
<1> QED
  BY <1>2 DEF CheckMntners, Controls, Exists

\* The check of the related object is about committed objects.
LEMMA RelatedControl ==
    ASSUME TypeOK, NEW h \in Handlers, \A k \in Keys : writes[h][k] = Untouched,
           PreApproved(h) = {}, NEW k \in Keys, CheckRelated(h, k)
    PROVE  RelatedAgrees(submission[h].creds, registry, k)
<1> DEFINE found == {i \in DOMAIN Related[k] : registry[Related[k][i]].object # None}
<1>1. Related[k] \in Seq(Keys)
  BY KeyAssumption
<1>2. DOMAIN Related[k] \subseteq Nat /\ \A i \in DOMAIN Related[k] : Related[k][i] \in Keys
  BY <1>1, LenProperties, ElementOfSeq
<1>3. {i \in DOMAIN Related[k] : Exists(h, Related[k][i])} = found
  BY <1>2, CleanView DEF Exists
<1>4. IF found = {} THEN k \notin RequireRelated
      ELSE CheckMntners(h, Object(h, Related[k][Min(found)]).mntBy)
  BY <1>3 DEF CheckRelated
<1>5. CASE found = {}
  BY <1>4, <1>5 DEF RelatedAgrees
<1>6. CASE found # {}
  <2>1. found \subseteq Nat
    BY <1>2
  <2>2. Min(found) \in found
    BY <1>6, <2>1, LeastElement
  <2> DEFINE r == Related[k][Min(found)]
  <2>3. r \in Keys /\ registry[r].object # None
    BY <1>2, <2>2
  <2> HIDE DEF r, found
  <2>4. registry[r].object \in Content
    BY <2>3, SlotUpdates DEF TypeOK
  <2>5. Object(h, r) = registry[r].object
    BY <2>3, CleanView
  <2>6. CheckMntners(h, registry[r].object.mntBy)
    BY <1>4, <1>6, <2>5 DEF r
  <2>7. Controls(submission[h].creds, registry, registry[r].object)
    BY <2>4, <2>6, MntnersControl
  <2> QED
    BY <1>6, <2>7 DEF RelatedAgrees, r, found
<1> QED
  BY <1>5, <1>6

\* When all valid requests validate, they are approved by the committed objects.
LEMMA ValidatedApproved ==
    ASSUME TypeOK, NEW h \in Handlers, Busy(h), Changes(h),
           \A k \in Keys : writes[h][k] = Untouched,
           \A i \in Valid(h) : Validates(h, i), NEW i \in Valid(h)
    PROVE  Approved(h, i)
<1> DEFINE r == Requests(h)[i]
<1>1. i \in 1 .. Len(Requests(h)) /\ i \in DOMAIN Requests(h)
  BY BusyFacts DEF Valid
<1>2. /\ r.key \in Keys /\ r.text \in Content /\ r.kind \in {"put", "delete"}
      /\ current[h][i] \in Content \union {None}
  BY <1>1, BusyFacts DEF Changes
<1>3. ~(Type(h, i) \in {"suspend", "reactivate"})
  BY <1>1, <1>2, TypeFacts
<1>4. /\ ProcessAuth(h, i)
      /\ CheckReferences(h, i)
      /\ Type(h, i) = "CREATE" => NameAvailable(h, r.key)
  BY <1>3 DEF Validates
<1>5. ASSUME ReferencesFromOthers(h, r.key) = {}
      PROVE  Unreferenced(h, r.key)
  <2>1. \A j \in Keys : Object(h, j) = registry[j].object
    BY CleanView
  <2> QED
    BY <1>5, <2>1 DEF ReferencesFromOthers, Unreferenced
<1>6. ASSUME ~submission[h].override
      PROVE  ApprovedAuth(h, i)
  <2>1. PreApproved(h) = {}
    BY <1>6, NothingPreApproved
  <2>2. /\ CheckMntners(h, r.text.mntBy)
        /\ IF current[h][i] # None THEN CheckMntners(h, current[h][i].mntBy)
           ELSE CheckRelated(h, r.key)
        /\ r.key \in Mntners => current[h][i] # None
    BY <1>4, <1>6 DEF ProcessAuth
  <2>3. Controls(submission[h].creds, registry, r.text)
    BY <1>2, <2>1, <2>2, MntnersControl
  <2>4. CASE current[h][i] # None
    <3>1. Controls(submission[h].creds, registry, current[h][i])
      BY <1>2, <2>1, <2>2, <2>4, MntnersControl
    <3> QED
      BY <2>3, <2>4, <3>1 DEF ApprovedAuth
  <2>5. CASE current[h][i] = None
    <3>1. RelatedAgrees(submission[h].creds, registry, r.key)
      BY <1>2, <2>1, <2>2, <2>5, RelatedControl
    <3> QED
      BY <2>2, <2>3, <2>5, <3>1 DEF ApprovedAuth
  <2> QED
    BY <2>4, <2>5
<1>7. ASSUME ~submission[h].override, Type(h, i) = "CREATE"
      PROVE  ~registry[r.key].protected /\ Unreferenced(h, r.key)
  BY <1>2, <1>4, <1>5, <1>7, CleanView DEF NameAvailable
<1>8. ASSUME r.kind = "delete"
      PROVE  (submission[h].override /\ r.key \in ProtectedNames) \/ Unreferenced(h, r.key)
  <2>1. Type(h, i) = "DELETE"
    BY <1>1, <1>8, TypeFacts
  <2> QED
    BY <1>4, <1>5, <2>1 DEF CheckReferences, MayBeDeleted
<1>9. ASSUME r.kind = "put", NEW k \in Strong(r.text)
      PROVE  \/ k \in PreloadedNew(h)
             \/ k \notin PreloadedDeleted(h) /\ registry[k].object # None
  <2>1. Type(h, i) # "DELETE"
    BY <1>1, <1>9, TypeFacts
  <2>2. ReferencesToOthers(h, r.text)
    BY <1>4, <2>1 DEF CheckReferences
  <2>3. k \in Keys
    BY <1>2, <1>9, KeyAssumption DEF Strong, Content
  <2> QED
    BY <1>9, <2>2, <2>3, CleanView DEF ReferencesToOthers, Exists
<1> QED
  BY <1>6, <1>7, <1>8, <1>9 DEF Approved

-----------------------------------------------------------------------------
(* One submission at a time: what is written *)

\* Request i has been saved and is what is written for k, a change of it.
WrittenBy(h, i, k) ==
    LET r == Requests(h)[i] IN
    /\ status[h][i] = "SAVED"
    /\ r.key = k
    /\ \/ r.kind = "put" /\ writes[h][k].object = r.text /\ r.text # current[h][i]
       \/ r.kind = "delete" /\ writes[h][k].object = None

\* A submission of changes has written what its saved requests say.
WrittenOK(h) ==
    Busy(h) /\ Changes(h) =>
        /\ \A k \in Keys : writes[h][k] # Untouched => \E i \in Valid(h) : WrittenBy(h, i, k)
        /\ \A i \in Valid(h) :
              i <= saved[h] /\ ~(Requests(h)[i].kind = "put" /\ Requests(h)[i].text = current[h][i])
              => writes[h][Requests(h)[i].key] # Untouched

\* Users suspend nothing.
MovesOK(h) ==
    Busy(h) /\ OnlyMoves(h) /\ ~submission[h].override => \A k \in Keys : writes[h][k] = Untouched

SubmissionOK(h) == LoadedOK(h) /\ ApprovedOK(h) /\ WrittenOK(h) /\ MovesOK(h)
SubmissionInv == \A h \in Handlers : SubmissionOK(h)

\* Approval depends on the committed objects and on which requests are valid.
LEMMA ApprovedKept ==
    ASSUME NEW h \in Handlers, UNCHANGED <<registry, submission, current>>, Valid(h)' = Valid(h),
           NEW i, Approved(h, i)
    PROVE  Approved(h, i)'
<1> DEFINE r == Requests(h)[i]
<1>1. Requests(h)' = Requests(h) /\ \A j : Type(h, j)' = Type(h, j)
  BY DEF Type, Requests
<1>2. PreloadedNew(h)' = PreloadedNew(h) /\ PreloadedDeleted(h)' = PreloadedDeleted(h)
  BY <1>1 DEF PreloadedNew, PreloadedDeleted, ValidKeys
<1>3. \A k : Unreferenced(h, k)' <=> Unreferenced(h, k)
  BY <1>2 DEF Unreferenced
<1>4. ApprovedAuth(h, i)' <=> ApprovedAuth(h, i)
  BY DEF ApprovedAuth, Requests, Controls, RelatedAgrees
<1>5. r' = r
  BY <1>1
<1> HIDE DEF r
<1>6. (~submission[h].override =>
          /\ ApprovedAuth(h, i)
          /\ Type(h, i) = "CREATE" => ~registry[r.key].protected /\ Unreferenced(h, r.key))'
  BY <1>1, <1>3, <1>4, <1>5 DEF Approved, r
<1>7. (r.kind = "delete" =>
          (submission[h].override /\ r.key \in ProtectedNames) \/ Unreferenced(h, r.key))'
  BY <1>3, <1>5 DEF Approved, r
<1>8. (r.kind = "put" => \A k \in Strong(r.text) :
          \/ k \in PreloadedNew(h)
          \/ k \notin PreloadedDeleted(h) /\ registry[k].object # None)'
  BY <1>2, <1>5 DEF Approved, r
<1> QED
  BY <1>6, <1>7, <1>8 DEF Approved, r

\* What is loaded is current, and nothing is approved or written yet.
LEMMA LoadSubmission ==
    ASSUME TypeOK, HeldInv, NEW h \in Handlers, NEW s \in Submissions, Load(h, s)
    PROVE  SubmissionOK(h)'
<1>1. ~Busy(h)
  BY DEF Load
<1>2. writes' = writes /\ registry' = registry /\ \A k \in Keys : writes[h][k] = Untouched
  BY <1>1 DEF Load, HeldInv, IdleOK
<1>3. /\ submission'[h] = s /\ previous'[h] = {} /\ saved'[h] = 0
      /\ current'[h] = [i \in DOMAIN s.requests |-> Object(h, s.requests[i].key)]
      /\ status'[h] = [i \in DOMAIN s.requests |-> ParsedStatus(h, s, s.requests[i])]
  BY DEF Load, TypeOK
<1>4. Requests(h)' = s.requests
  BY <1>3 DEF Requests
<1>5. \A i \in DOMAIN s.requests : s.requests[i].key \in Keys
  <2>1. s.requests \in Seq(Request)
    BY SubmissionAssumption DEF Submission
  <2>2. \A i \in DOMAIN s.requests : s.requests[i] \in Request
    BY <2>1, LenProperties, ElementOfSeq
  <2> QED
    BY <2>2 DEF Request
<1>6. LoadedOK(h)'
  <2>1. SUFFICES ASSUME NEW i \in DOMAIN s.requests
                 PROVE  /\ current'[h][i] = registry'[s.requests[i].key].object
                        /\ i \in Valid(h)' =>
                              /\ s.requests[i].kind = "delete" => current'[h][i] # None
                              /\ s.requests[i].kind \in {"suspend", "reactivate"} => s.override
    BY <1>3, <1>4 DEF LoadedOK
  <2>2. current'[h][i] = registry[s.requests[i].key].object
    BY <1>2, <1>3, <1>5, CleanView
  <2>3. i \in Valid(h)' => ParsedStatus(h, s, s.requests[i]) # "ERROR"
    BY <1>3 DEF Valid
  <2>4. current'[h][i] = Object(h, s.requests[i].key)
    BY <1>3
  <2> QED
    BY <1>2, <2>2, <2>3, <2>4 DEF ParsedStatus, Exists
<1>7. ApprovedOK(h)'
  BY <1>3 DEF ApprovedOK, Settled
<1>8. WrittenOK(h)'
  <2>1. \A i \in Valid(h)' : i \in Nat /\ ~(i <= saved'[h])
    <3>1. DOMAIN s.requests = 1 .. Len(s.requests) /\ Len(s.requests) \in Nat
      BY SubmissionAssumption, LenProperties DEF Submission
    <3>2. Valid(h)' \subseteq DOMAIN s.requests
      BY <1>3 DEF Valid
    <3> QED
      BY <1>3, <3>1, <3>2
  <2> QED
    BY <1>2, <2>1 DEF WrittenOK
<1>9. MovesOK(h)'
  BY <1>2 DEF MovesOK
<1> QED
  BY <1>6, <1>7, <1>8, <1>9 DEF SubmissionOK

\* A scan that finds nothing invalid has approved all valid requests.
LEMMA ValidateSubmission ==
    ASSUME TypeOK, HeldInv, SubmissionInv, NEW h \in Handlers, Validate(h)
    PROVE  SubmissionOK(h)'
<1>1. /\ Busy(h) /\ saved[h] = 0 /\ UNCHANGED <<registry, submission, current, saved, writes>>
      /\ previous'[h] = Valid(h)
      /\ status'[h] = [i \in DOMAIN status[h] |->
                         IF i \in Valid(h) /\ ~Validates(h, i) THEN "ERROR" ELSE status[h][i]]
  BY DEF Validate, TypeOK, Remembers
<1>2. \A k \in Keys : writes[h][k] = Untouched
  BY <1>1 DEF HeldInv, IdleOK
<1>3. Valid(h)' \subseteq Valid(h)
  BY <1>1 DEF Valid
<1>4. Valid(h) \subseteq 1 .. Len(Requests(h)) /\ Len(Requests(h)) \in Nat
  BY <1>1, BusyFacts DEF Valid
<1>5. LoadedOK(h)'
  BY <1>1, <1>3 DEF SubmissionInv, SubmissionOK, LoadedOK, Busy, Requests
<1>6. ASSUME Changes(h), Settled(h)'
      PROVE  \A i \in Valid(h)' : Approved(h, i)'
  <2>1. Valid(h)' = Valid(h)
    BY <1>1, <1>6 DEF Settled
  <2>2. ASSUME NEW i \in Valid(h)
        PROVE  Validates(h, i)
    <3>1. i \in DOMAIN status[h]
      BY DEF Valid
    <3>2. status'[h][i] # "ERROR"
      BY <2>1 DEF Valid
    <3> QED
      BY <1>1, <3>1, <3>2
  <2>3. \A i \in Valid(h) : Approved(h, i)
    BY <1>1, <1>2, <1>6, <2>2, ValidatedApproved
  <2> QED
    BY <1>1, <2>1, <2>3, ApprovedKept
<1>7. ApprovedOK(h)'
  BY <1>1, <1>6 DEF ApprovedOK, Changes, Busy, Requests
<1>8. WrittenOK(h)'
  <2>1. \A i \in Valid(h)' : ~(i <= saved'[h])
    BY <1>1, <1>3, <1>4
  <2> QED
    BY <1>1, <1>2, <2>1 DEF WrittenOK
<1>9. MovesOK(h)'
  BY <1>1, <1>2 DEF MovesOK
<1> QED
  BY <1>5, <1>7, <1>8, <1>9 DEF SubmissionOK

\* The saving loop keeps the verdicts on changes.
LEMMA SavedStatus ==
    ASSUME TypeOK, NEW h \in Handlers, Saves(h), Changes(h)
    PROVE  /\ UNCHANGED <<registry, submission, current, previous>>
           /\ Busy(h) /\ Saving(h) /\ Turn(h) \in 1 .. Len(Requests(h))
           /\ saved'[h] = Turn(h) /\ Turn(h) = saved[h] + 1 /\ saved[h] \in Nat
           /\ Valid(h)' = Valid(h)
           /\ status'[h][Turn(h)] = IF SkipInvalid(h) THEN "ERROR" ELSE "SAVED"
           /\ SkipInvalid(h) <=> Turn(h) \notin Valid(h)
           /\ \A i \in Valid(h) : i # Turn(h) => status'[h][i] = status[h][i]
           /\ SkipInvalid(h) \/ SaveIdentical(h) \/ SaveObject(h) \/ DeleteObject(h)
<1>1. PICK st, R : SaveStep(h, st, R)
  BY SavesSteps
<1>2. /\ UNCHANGED <<registry, submission, current, previous>>
      /\ Saving(h) /\ saved' = [saved EXCEPT ![h] = @ + 1]
  BY <1>1 DEF SaveStep, Done
<1>3. /\ Busy(h) /\ saved[h] \in Nat /\ Turn(h) = saved[h] + 1
      /\ Turn(h) \in 1 .. Len(Requests(h))
  BY <1>2, TurnFacts
<1>4. /\ DOMAIN status[h] = 1 .. Len(Requests(h))
      /\ Requests(h)[Turn(h)].kind \in {"put", "delete"}
  BY <1>3, BusyFacts DEF Changes
<1>5. SkipInvalid(h) \/ SaveIdentical(h) \/ SaveObject(h) \/ DeleteObject(h)
  BY <1>4 DEF Saves, SuspensionRefused, Suspend, Reactivate, SavesNow
<1>6. saved'[h] = Turn(h)
  BY <1>2, <1>3 DEF TypeOK
<1>7. CASE SkipInvalid(h)
  <2>1. status[h][Turn(h)] = "ERROR" /\ status' = [status EXCEPT ![h][Turn(h)] = "ERROR"]
    BY <1>7 DEF SkipInvalid, Done
  <2>2. status'[h] = [status[h] EXCEPT ![Turn(h)] = "ERROR"]
    BY <2>1 DEF TypeOK
  <2>3. Valid(h)' = Valid(h) /\ Turn(h) \notin Valid(h)
    BY <1>3, <1>4, <2>1, <2>2 DEF Valid
  <2> QED
    BY <1>2, <1>3, <1>4, <1>5, <1>6, <1>7, <2>2, <2>3 DEF Valid
<1>8. CASE SaveIdentical(h) \/ SaveObject(h) \/ DeleteObject(h)
  <2>1. /\ status[h][Turn(h)] = "PROCESSING"
        /\ status' = [status EXCEPT ![h][Turn(h)] = "SAVED"]
    BY <1>8 DEF SaveIdentical, SaveObject, DeleteObject, SavesNow, Done
  <2>2. status'[h] = [status[h] EXCEPT ![Turn(h)] = "SAVED"]
    BY <2>1 DEF TypeOK
  <2>3. Valid(h)' = Valid(h) /\ Turn(h) \in Valid(h)
    BY <1>3, <1>4, <2>1, <2>2 DEF Valid
  <2>4. ~SkipInvalid(h)
    BY <2>1 DEF SkipInvalid
  <2> QED
    BY <1>2, <1>3, <1>4, <1>5, <1>6, <2>2, <2>3, <2>4 DEF Valid
<1> QED
  BY <1>5, <1>7, <1>8

\* The saving loop writes what the saved requests say.
LEMMA SavesWritten ==
    ASSUME TypeOK, SubmissionInv, NEW h \in Handlers, Saves(h), Changes(h)
    PROVE  WrittenOK(h)'
<1>t. PICK t : t = Turn(h)
  OBVIOUS
<1>r. PICK r : r = Requests(h)[t]
  OBVIOUS
<1>1. /\ UNCHANGED <<registry, submission, current>> /\ Busy(h) /\ Saving(h)
      /\ t \in 1 .. Len(Requests(h)) /\ saved'[h] = t /\ t = saved[h] + 1 /\ saved[h] \in Nat
      /\ Valid(h)' = Valid(h) /\ (SkipInvalid(h) <=> t \notin Valid(h))
      /\ ~SkipInvalid(h) => status'[h][t] = "SAVED"
      /\ \A i \in Valid(h) : i # t => status'[h][i] = status[h][i]
      /\ SkipInvalid(h) \/ SaveIdentical(h) \/ SaveObject(h) \/ DeleteObject(h)
  BY <1>t, SavedStatus
<1>2. /\ Requests(h)' = Requests(h) /\ r.key = KeyNow(h) /\ r.key \in Keys
      /\ Valid(h) \subseteq 1 .. Len(Requests(h)) /\ Len(Requests(h)) \in Nat
  BY <1>1, <1>t, <1>r, TurnFacts, BusyFacts DEF Requests, Valid
<1>3. /\ \A k \in Keys : writes[h][k] # Untouched => \E i \in Valid(h) : WrittenBy(h, i, k)
      /\ \A i \in Valid(h) :
            i <= saved[h] /\ ~(Requests(h)[i].kind = "put" /\ Requests(h)[i].text = current[h][i])
            => writes[h][Requests(h)[i].key] # Untouched
  BY <1>1 DEF SubmissionInv, SubmissionOK, WrittenOK
<1>4. ASSUME NEW k \in Keys, NEW i \in Valid(h), WrittenBy(h, i, k), writes'[h][k] = writes[h][k]
      PROVE  WrittenBy(h, i, k)'
  <2>1. status'[h][i] = "SAVED"
    BY <1>1, <1>4 DEF WrittenBy
  <2> QED
    BY <1>1, <1>2, <1>4, <2>1 DEF WrittenBy
<1> DEFINE Now(k) == /\ status'[h][t] = "SAVED" /\ r.key = k /\ writes'[h][k] # Untouched
                     /\ \/ r.kind = "put" /\ writes'[h][k].object = r.text /\ r.text # current[h][t]
                        \/ r.kind = "delete" /\ writes'[h][k].object = None
<1>5. ASSUME \A k \in Keys : writes'[h][k] = writes[h][k] \/ Now(k),
             \/ t \notin Valid(h)
             \/ r.kind = "put" /\ r.text = current[h][t]
             \/ writes'[h][r.key] # Untouched
      PROVE  WrittenOK(h)'
  <2>1. ASSUME NEW k \in Keys, writes'[h][k] # Untouched
        PROVE  \E i \in Valid(h)' : WrittenBy(h, i, k)'
    <3>1. CASE writes'[h][k] # writes[h][k]
      <4>1. t \in Valid(h)'
        <5>1. status'[h][t] = "SAVED"
          BY <1>5, <3>1
        <5>2. t \in DOMAIN status'[h]
          BY <1>1, <1>2, SavesSteps, SaveType DEF TypeOK, LengthsOK, Busy
        <5> QED
          BY <5>1, <5>2 DEF Valid
      <4>2. WrittenBy(h, t, k)'
        BY <1>1, <1>2, <1>5, <1>r, <3>1 DEF WrittenBy
      <4> QED
        BY <4>1, <4>2
    <3>2. CASE writes'[h][k] = writes[h][k]
      BY <1>1, <1>3, <1>4, <1>5, <2>1, <3>2
    <3> QED
      BY <3>1, <3>2
  <2>2. ASSUME NEW i \in Valid(h), i <= t,
               ~(Requests(h)[i].kind = "put" /\ Requests(h)[i].text = current[h][i])
        PROVE  writes'[h][Requests(h)[i].key] # Untouched
    <3>1. CASE i = t
      BY <1>5, <1>r, <2>2, <3>1
    <3>2. CASE i # t
      <4>1. i <= saved[h]
        BY <1>1, <1>2, <2>2, <3>2
      <4>2. writes[h][Requests(h)[i].key] # Untouched
        BY <1>3, <2>2, <4>1
      <4>3. Requests(h)[i].key \in Keys
        BY <1>1, <1>2, BusyFacts
      <4> QED
        BY <1>5, <4>2, <4>3
    <3> QED
      BY <3>1, <3>2
  <2> QED
    BY <1>1, <1>2, <2>1, <2>2 DEF WrittenOK
<1> HIDE DEF Now
<1>6. CASE SkipInvalid(h)
  <2>1. writes' = writes
    BY <1>6 DEF SkipInvalid
  <2> QED
    BY <1>1, <1>5, <1>6, <2>1
<1>7. CASE SaveIdentical(h)
  <2>1. writes' = writes /\ r.kind = "put" /\ r.text = current[h][t]
    BY <1>7, <1>t, <1>r DEF SaveIdentical, SavesNow
  <2> QED
    BY <1>5, <2>1
<1>8. CASE SaveObject(h)
  <2>0. /\ SaveStep(h, "SAVED", {KeyNow(h)})
        /\ writes'[h][KeyNow(h)].object = Requests(h)[Turn(h)].text
    <3>1. writes'[h][KeyNow(h)] = [object |-> Requests(h)[Turn(h)].text,
                                   suspended |-> SlotView(h, KeyNow(h)).suspended,
                                   protected |-> SlotView(h, KeyNow(h)).protected]
      BY <1>8, SaveObjectEffect
    <3>2. SaveStep(h, "SAVED", {KeyNow(h)})
      BY <1>8, SaveObjectEffect
    <3> QED
      BY <3>1, <3>2
  <2>1. /\ SaveStep(h, "SAVED", {r.key})
        /\ writes'[h][r.key].object = r.text
        /\ r.kind = "put" /\ r.text # current[h][t]
    <3>1. SavesNow(h, "put") /\ Requests(h)[Turn(h)].text # current[h][Turn(h)]
      BY <1>8 DEF SaveObject
    <3>2. r.kind = "put" /\ r.text # current[h][t]
      BY <1>t, <1>r, <3>1 DEF SavesNow
    <3> QED
      BY <1>2, <1>t, <1>r, <2>0, <3>2
  <2>2. /\ writes'[h][r.key] # Untouched
        /\ \A k \in Keys : k # r.key => writes'[h][k] = writes[h][k]
    BY <2>1, MarkerAssumption DEF SaveStep
  <2>3. ~SkipInvalid(h)
    BY <1>8 DEF SaveObject, SavesNow, SkipInvalid
  <2>4. Now(r.key)
    BY <1>1, <2>1, <2>2, <2>3 DEF Now
  <2> QED
    BY <1>5, <2>2, <2>4
<1>9. CASE DeleteObject(h)
  <2>1. r.kind = "delete" /\ ~SkipInvalid(h)
    BY <1>9, <1>t, <1>r DEF DeleteObject, SavesNow, SkipInvalid
  <2>2. CASE Exists(h, r.key)
    <3>1. SaveStep(h, "SAVED", {r.key}) /\ writes'[h][r.key].object = None
      <4>0. Exists(h, KeyNow(h))
        BY <1>2, <2>2
      <4>1. /\ SaveStep(h, "SAVED", {KeyNow(h)})
            /\ writes'[h][KeyNow(h)].object = None
        <5>1. writes'[h][KeyNow(h)] =
                  [object |-> None,
                   suspended |-> SlotView(h, KeyNow(h)).suspended,
                   protected |-> SlotView(h, KeyNow(h)).protected \/ KeyNow(h) \in ProtectedNames]
          BY <1>9, <4>0, DeleteObjectEffect
        <5>2. SaveStep(h, "SAVED", {KeyNow(h)})
          BY <1>9, <4>0, DeleteObjectEffect
        <5> QED
          BY <5>1, <5>2
      <4> QED
        BY <1>2, <4>1
    <3>2. /\ writes'[h][r.key] # Untouched
          /\ \A k \in Keys : k # r.key => writes'[h][k] = writes[h][k]
      BY <3>1, MarkerAssumption DEF SaveStep
    <3>3. Now(r.key)
      BY <1>1, <2>1, <3>1, <3>2 DEF Now
    <3> QED
      BY <1>5, <3>2, <3>3
  <2>3. CASE ~Exists(h, r.key)
    <3>1. writes' = writes
      BY <1>2, <1>9, <2>3 DEF DeleteObject
    <3>2. t \in Valid(h) /\ t \in DOMAIN Requests(h)
      BY <1>1, <2>1, BusyFacts
    <3>3. registry[r.key].object # None
      BY <1>1, <1>r, <2>1, <3>2 DEF SubmissionInv, SubmissionOK, LoadedOK
    <3>4. writes[h][r.key] # Untouched
      BY <2>3, <3>3 DEF Exists, Object, SlotView
    <3> QED
      BY <1>5, <3>1, <3>4
  <2> QED
    BY <2>2, <2>3
<1> QED
  BY <1>1, <1>6, <1>7, <1>8, <1>9

\* The saving loop keeps what was approved.
LEMMA SavesSubmission ==
    ASSUME TypeOK, SubmissionInv, NEW h \in Handlers, Saves(h)
    PROVE  SubmissionOK(h)'
<1>1. PICK st, R : SaveStep(h, st, R)
  BY SavesSteps
<1>2. /\ UNCHANGED <<registry, submission, current, previous>>
      /\ Saving(h) /\ status'[h] = [status[h] EXCEPT ![Turn(h)] = st]
  BY <1>1 DEF SaveStep, Done, TypeOK
<1>3. Busy(h) /\ Turn(h) \in 1 .. Len(Requests(h)) /\ DOMAIN status[h] = 1 .. Len(Requests(h))
  BY <1>2, TurnFacts, BusyFacts
<1>4. Valid(h)' \subseteq Valid(h)
  BY <1>1, <1>2, <1>3 DEF Valid, SaveStep
<1>5. LoadedOK(h)'
  BY <1>2, <1>4 DEF SubmissionInv, SubmissionOK, LoadedOK, Busy, Requests
<1>6. MovesOK(h)'
  <2>1. SUFFICES ASSUME OnlyMoves(h), ~submission[h].override
                 PROVE  \A k \in Keys : writes'[h][k] = Untouched
    BY <1>2 DEF MovesOK, OnlyMoves, Requests
  <2>2. \A k \in Keys : writes[h][k] = Untouched
    BY <1>3, <2>1 DEF SubmissionInv, SubmissionOK, MovesOK
  <2>3. Turn(h) \in DOMAIN Requests(h) /\ Requests(h)[Turn(h)].kind \in {"suspend", "reactivate"}
    BY <1>3, <2>1, BusyFacts DEF OnlyMoves
  <2>4. Turn(h) \notin Valid(h)
    BY <1>3, <2>1, <2>3 DEF SubmissionInv, SubmissionOK, LoadedOK
  <2>5. status[h][Turn(h)] = "ERROR"
    BY <1>3, <2>4 DEF Valid
  <2>6. SkipInvalid(h)
    BY <2>5 DEF Saves, SaveIdentical, SaveObject, DeleteObject, Suspend, Reactivate,
                SuspensionRefused, SavesNow
  <2> QED
    BY <2>2, <2>6 DEF SkipInvalid
<1>7. ApprovedOK(h)'
  <2>1. SUFFICES ASSUME Changes(h)
                 PROVE  Settled(h)' /\ \A i \in Valid(h)' : Approved(h, i)'
    BY <1>2 DEF ApprovedOK, Changes, Requests
  <2>2. Settled(h) /\ \A i \in Valid(h) : Approved(h, i)
    BY <1>2, <1>3, <2>1 DEF SubmissionInv, SubmissionOK, ApprovedOK, Saving
  <2>3. Valid(h)' = Valid(h)
    BY <2>1, SavedStatus
  <2> QED
    BY <1>2, <2>2, <2>3, ApprovedKept DEF Settled
<1>8. WrittenOK(h)'
  <2>1. CASE Changes(h)
    BY <2>1, SavesWritten
  <2>2. CASE ~Changes(h)
    BY <1>2, <2>2 DEF WrittenOK, Changes, Requests
  <2> QED
    BY <2>1, <2>2
<1> QED
  BY <1>5, <1>6, <1>7, <1>8 DEF SubmissionOK

\* What a process has checked and written agrees with the committed objects, when
\* there is one process.
LEMMA SubmissionInvariant ==
    ASSUME \A g, h \in Handlers : g = h
    PROVE  Spec => []SubmissionInv
<1>1. Init => SubmissionInv
  BY DEF Init, SubmissionInv, SubmissionOK, LoadedOK, ApprovedOK, WrittenOK, MovesOK, Busy
<1>2. TypeOK /\ HeldInv /\ SubmissionInv /\ [Next]_vars => SubmissionInv'
  <2>1. ASSUME SubmissionInv, UNCHANGED vars
        PROVE  SubmissionInv'
    <3>1. ASSUME NEW h \in Handlers
          PROVE  SubmissionOK(h)'
      <4>1. /\ UNCHANGED <<registry, submission, current, status, previous, saved, writes>>
            /\ Valid(h)' = Valid(h)
        BY <2>1 DEF vars, submissionVars, Valid
      <4>2. LoadedOK(h)' /\ MovesOK(h)'
        BY <2>1, <4>1 DEF SubmissionInv, SubmissionOK, LoadedOK, MovesOK, Busy, Requests, OnlyMoves
      <4>3. ApprovedOK(h)'
        BY <2>1, <4>1, ApprovedKept
           DEF SubmissionInv, SubmissionOK, ApprovedOK, Busy, Requests, Changes, Settled
      <4>4. WrittenOK(h)'
        BY <2>1, <4>1 DEF SubmissionInv, SubmissionOK, WrittenOK, WrittenBy, Busy, Requests, Changes
      <4> QED
        BY <4>2, <4>3, <4>4 DEF SubmissionOK
    <3> QED
      BY <3>1 DEF SubmissionInv
  <2>2. ASSUME TypeOK, HeldInv, SubmissionInv, NEW h \in Handlers, Step(h)
        PROVE  SubmissionInv'
    <3>1. ASSUME Commit(h) \/ Fail(h)
          PROVE  SubmissionOK(h)'
      <4>1. submission'[h] = None
        BY <2>2, <3>1 DEF Commit, Fail, Finished, TypeOK
      <4>2. ~Busy(h)'
        BY <4>1 DEF Busy
      <4> QED
        BY <4>2 DEF SubmissionOK, LoadedOK, ApprovedOK, WrittenOK, MovesOK
    <3>2. SubmissionOK(h)'
      BY <2>2, <3>1, LoadSubmission, ValidateSubmission, SavesSubmission DEF Step
    <3>3. \A g \in Handlers : g = h
      OBVIOUS
    <3> QED
      BY <3>2, <3>3 DEF SubmissionInv
  <2> QED
    BY <2>1, <2>2, NextSteps
<1> QED
  BY <1>1, <1>2, TypeCorrect, LocksHeld, PTL DEF Spec

-----------------------------------------------------------------------------
(* One submission at a time: what a commit changes *)

\* A submission has changes or suspensions.
LEMMA ChangesOrMoves ==
    ASSUME TypeOK, NEW h \in Handlers, Busy(h)
    PROVE  Changes(h) \/ OnlyMoves(h)
<1>1. submission[h] \in Submissions
  BY BusyFacts
<1> QED
  BY <1>1, SubmissionAssumption DEF Changes, OnlyMoves, Requests

\* What is written of changes differs from what is committed.
LEMMA ChangedRow ==
    ASSUME TypeOK, SubmissionInv, NEW h \in Handlers, Busy(h), Changes(h), NEW k \in Keys,
           writes[h][k] # Untouched
    PROVE  /\ Object(h, k) # registry[k].object
           /\ \E i \in Valid(h) :
                 /\ i \in 1 .. Len(Requests(h)) /\ i \in DOMAIN Requests(h)
                 /\ Requests(h)[i].key = k /\ status[h][i] = "SAVED"
                 /\ current[h][i] = registry[k].object
                 /\ \/ Requests(h)[i].kind = "put" /\ Object(h, k) = Requests(h)[i].text
                    \/ Requests(h)[i].kind = "delete" /\ Object(h, k) = None
<1>1. PICK i \in Valid(h) : WrittenBy(h, i, k)
  BY DEF SubmissionInv, SubmissionOK, WrittenOK
<1>2. i \in 1 .. Len(Requests(h)) /\ i \in DOMAIN Requests(h)
  BY BusyFacts DEF Valid
<1>3. /\ current[h][i] = registry[Requests(h)[i].key].object
      /\ Requests(h)[i].kind = "delete" => current[h][i] # None
  BY <1>2 DEF SubmissionInv, SubmissionOK, LoadedOK
<1>4. Object(h, k) = writes[h][k].object
  BY DEF Object, SlotView
<1> QED
  BY <1>1, <1>2, <1>3, <1>4 DEF WrittenBy

\* A commit of changes: all requests are through, and the valid ones are approved.
LEMMA CommitFacts ==
    ASSUME TypeOK, SubmissionInv, NEW h \in Handlers, Commit(h)
    PROVE  /\ Busy(h)
           /\ \A k \in Keys : registry'[k] = SlotView(h, k) /\ registry'[k].object = Object(h, k)
           /\ Changes(h) => \A i \in Valid(h) : Approved(h, i)
           /\ Changes(h) => \A i \in Valid(h) :
                 ~(Requests(h)[i].kind = "put" /\ Requests(h)[i].text = current[h][i])
                 => writes[h][Requests(h)[i].key] # Untouched
<1>1. Busy(h) /\ (saved[h] > 0 \/ Settled(h)) /\ saved[h] = Len(Requests(h))
  BY DEF Commit
<1>2. \A k \in Keys : registry'[k] = SlotView(h, k) /\ registry'[k].object = Object(h, k)
  BY DEF Commit, Object
<1>3. Changes(h) => \A i \in Valid(h) : Approved(h, i)
  BY <1>1 DEF SubmissionInv, SubmissionOK, ApprovedOK
<1>4. \A i \in Valid(h) : i <= saved[h]
  BY <1>1, BusyFacts DEF Valid
<1>5. Changes(h) => \A i \in Valid(h) :
                 ~(Requests(h)[i].kind = "put" /\ Requests(h)[i].text = current[h][i])
                 => writes[h][Requests(h)[i].key] # Untouched
  BY <1>1, <1>4 DEF SubmissionInv, SubmissionOK, WrittenOK
<1> QED
  BY <1>1, <1>2, <1>3, <1>5

\* A user changes nothing but by requests for changes that were approved.
LEMMA UserChange ==
    ASSUME TypeOK, SubmissionInv, NEW h \in Handlers, Commit(h), ~submission[h].override,
           NEW k \in Keys, registry[k].object # registry'[k].object
    PROVE  /\ Changes(h)
           /\ \E i \in Valid(h) :
                 /\ i \in 1 .. Len(Requests(h))
                 /\ Requests(h)[i].key = k
                 /\ current[h][i] = registry[k].object
                 /\ ApprovedAuth(h, i)
                 /\ Type(h, i) = "CREATE" => ~registry[k].protected /\ Unreferenced(h, k)
                 /\ \/ Requests(h)[i].kind = "put" /\ registry'[k].object = Requests(h)[i].text
                    \/ Requests(h)[i].kind = "delete" /\ registry'[k].object = None
<1>1. Busy(h) /\ registry'[k] = SlotView(h, k) /\ registry'[k].object = Object(h, k)
  BY CommitFacts
<1>2. writes[h][k] # Untouched
  BY <1>1 DEF SlotView
<1>3. Changes(h)
  <2>1. ~OnlyMoves(h)
    BY <1>1, <1>2 DEF SubmissionInv, SubmissionOK, MovesOK
  <2> QED
    BY <1>1, <2>1, ChangesOrMoves
<1>4. PICK i \in Valid(h) :
         /\ i \in 1 .. Len(Requests(h)) /\ i \in DOMAIN Requests(h)
         /\ Requests(h)[i].key = k /\ status[h][i] = "SAVED"
         /\ current[h][i] = registry[k].object
         /\ \/ Requests(h)[i].kind = "put" /\ Object(h, k) = Requests(h)[i].text
            \/ Requests(h)[i].kind = "delete" /\ Object(h, k) = None
  BY <1>1, <1>2, <1>3, ChangedRow
<1>5. Approved(h, i)
  BY <1>3, CommitFacts
<1>6. ApprovedAuth(h, i) /\ (Type(h, i) = "CREATE" => ~registry[k].protected /\ Unreferenced(h, k))
  BY <1>4, <1>5 DEF Approved
<1> QED
  BY <1>1, <1>3, <1>4, <1>6

\* Without override, an object changes only if the submitter controls its old and
\* its new version, and the related object of a new one, by the objects as they
\* were before; when submissions do not overlap (AuthValidator.process_auth).
THEOREM ChangesAuthorised ==
    ASSUME \A g, h \in Handlers : g = h
    PROVE  Spec => Authorised
<1>1. ASSUME TypeOK, SubmissionInv, NEW h \in Handlers, Commit(h), ~submission[h].override,
             NEW k \in Keys, registry[k].object # registry'[k].object
      PROVE  /\ registry[k].object # None =>
                    Controls(submission[h].creds, registry, registry[k].object)
             /\ registry'[k].object # None =>
                    Controls(submission[h].creds, registry, registry'[k].object)
             /\ k \in Mntners => registry[k].object # None
             /\ registry[k].object = None => RelatedAgrees(submission[h].creds, registry, k)
  <2>1. PICK i \in Valid(h) :
           /\ Requests(h)[i].key = k
           /\ current[h][i] = registry[k].object
           /\ ApprovedAuth(h, i)
           /\ \/ Requests(h)[i].kind = "put" /\ registry'[k].object = Requests(h)[i].text
              \/ Requests(h)[i].kind = "delete" /\ registry'[k].object = None
    BY <1>1, UserChange
  <2>2. /\ Controls(submission[h].creds, registry, Requests(h)[i].text)
        /\ IF registry[k].object # None THEN Controls(submission[h].creds, registry, registry[k].object)
           ELSE RelatedAgrees(submission[h].creds, registry, k)
        /\ k \in Mntners => registry[k].object # None
    BY <2>1 DEF ApprovedAuth
  <2> QED
    BY <2>1, <2>2
<1>2. TypeOK /\ SubmissionInv =>
        [\A h \in Handlers : Commit(h) /\ ~submission[h].override =>
          \A k \in Keys :
            LET old == registry[k].object
                new == registry'[k].object
            IN  old # new =>
                    /\ old # None => Controls(submission[h].creds, registry, old)
                    /\ new # None => Controls(submission[h].creds, registry, new)
                    /\ k \in Mntners => old # None
                    /\ old = None => RelatedAgrees(submission[h].creds, registry, k)]_vars
  BY <1>1
<1> QED
  BY <1>2, TypeCorrect, SubmissionInvariant, PTL DEF Authorised

\* Without override nobody creates an object under a protected name, or under one
\* that objects refer to which stay as they are; when submissions do not overlap
\* (check_protected_name).
THEOREM NamesNotTaken ==
    ASSUME \A g, h \in Handlers : g = h
    PROVE  Spec => NoTakeover
<1>1. ASSUME TypeOK, SubmissionInv, NEW h \in Handlers, Commit(h), ~submission[h].override,
             NEW k \in Keys, registry[k].object = None, registry'[k].object # None
      PROVE  /\ ~registry[k].protected
             /\ \A j \in Keys : registry'[j].object = registry[j].object
                                  => k \notin Strong(registry[j].object)
  <2>0. Busy(h) /\ Changes(h)
    BY <1>1, UserChange, CommitFacts
  <2>1. PICK i \in Valid(h) :
           /\ i \in 1 .. Len(Requests(h))
           /\ Requests(h)[i].key = k
           /\ current[h][i] = registry[k].object
           /\ Type(h, i) = "CREATE" => ~registry[k].protected /\ Unreferenced(h, k)
           /\ \/ Requests(h)[i].kind = "put" /\ registry'[k].object = Requests(h)[i].text
              \/ Requests(h)[i].kind = "delete" /\ registry'[k].object = None
    BY <1>1, UserChange
  <2>2. Type(h, i) = "CREATE"
    BY <1>1, <2>0, <2>1, TypeFacts
  <2>3. ASSUME NEW j \in Keys, registry'[j].object = registry[j].object
        PROVE  j \notin PreloadedDeleted(h)
    <3>1. SUFFICES ASSUME NEW d \in Valid(h), Type(h, d) \in {"DELETE"}, Requests(h)[d].key = j
                   PROVE  FALSE
      BY DEF PreloadedDeleted, ValidKeys
    <3>2. d \in 1 .. Len(Requests(h))
      BY <1>1, <2>0, BusyFacts DEF Valid
    <3>3. Requests(h)[d].kind = "delete"
      BY <1>1, <2>0, <3>1, <3>2, TypeFacts
    <3>4. writes[h][j] # Untouched
      BY <1>1, <2>0, <3>1, <3>3, CommitFacts
    <3>5. Object(h, j) # registry[j].object
      BY <1>1, <2>0, <3>4, ChangedRow
    <3> QED
      BY <1>1, <2>3, <3>5, CommitFacts
  <2> QED
    BY <2>1, <2>2, <2>3 DEF Unreferenced
<1>2. TypeOK /\ SubmissionInv =>
        [\A h \in Handlers : Commit(h) /\ ~submission[h].override =>
          \A k \in Keys : registry[k].object = None /\ registry'[k].object # None =>
            /\ ~registry[k].protected
            /\ \A j \in Keys : registry'[j].object = registry[j].object
                                => k \notin Strong(registry[j].object)]_vars
  BY <1>1
<1> QED
  BY <1>2, TypeCorrect, SubmissionInvariant, PTL DEF NoTakeover

-----------------------------------------------------------------------------
(* One submission at a time: references *)

\* A suspension or reactivation that leaves the suspended versions of a row alone
\* leaves its object alone.
LEMMA NotMoved ==
    ASSUME TypeOK, ConserveInv, NEW h \in Handlers, Busy(h), OnlyMoves(h), NEW k \in Keys,
           k \notin Moved(h)
    PROVE  Object(h, k) = registry[k].object
<1> DEFINE list == registry[k].suspended
<1>1. SlotView(h, k).suspended = list /\ SlotView(h, k).object = Object(h, k)
  BY DEF Moved, Object
<1>2. SameVersions(SlotView(h, k), registry[k])
  BY DEF ConserveInv, ConserveOK
<1>3. list \in Seq(Content) /\ registry[k].object \in Content \union {None}
  BY SlotUpdates DEF TypeOK
<1>4. Len(list) \in Nat
  BY <1>3, LenProperties
<1> HIDE DEF list
<1>5. CASE registry[k].object = None
  <2>1. NumberOfVersions(registry[k]) = Len(list) + 0
    BY <1>5 DEF NumberOfVersions, list
  <2>2. Object(h, k) # None => NumberOfVersions(SlotView(h, k)) = Len(list) + 1
    BY <1>1 DEF NumberOfVersions
  <2>3. NumberOfVersions(SlotView(h, k)) = NumberOfVersions(registry[k])
    BY <1>2 DEF SameVersions
  <2> QED
    BY <1>4, <1>5, <2>1, <2>2, <2>3
<1>6. CASE registry[k].object # None
  <2> DEFINE c == registry[k].object
  <2>1. c \in Content
    BY <1>3, <1>6
  <2>2. Cardinality(Places(list, c)) \in Nat
    BY <1>3, PlacesFinite
  <2>3. Occurrences(SlotView(h, k), c) = Occurrences(registry[k], c)
    BY <1>2, <2>1 DEF SameVersions
  <2>4. Occurrences(registry[k], c) = Cardinality(Places(list, c)) + 1
    BY DEF Occurrences, list
  <2>5. Object(h, k) # c => Occurrences(SlotView(h, k), c) = Cardinality(Places(list, c)) + 0
    BY <1>1 DEF Occurrences
  <2> QED
    BY <2>2, <2>3, <2>4, <2>5
<1> QED
  BY <1>5, <1>6

\* No two changes of the submission are for one key.
DistinctKeys(h) ==
    \A i, j \in DOMAIN Requests(h) :
        i # j /\ Requests(h)[i].kind \in {"put", "delete"} => Requests(h)[i].key # Requests(h)[j].key

\* An object that is gone by a submission of changes has been deleted by a request
\* that was approved.
LEMMA GoneRow ==
    ASSUME TypeOK, SubmissionInv, NEW h \in Handlers, Commit(h), Changes(h), NEW k \in Keys,
           registry[k].object # None, Object(h, k) = None
    PROVE  \E i \in Valid(h) :
              /\ i \in DOMAIN Requests(h) /\ i \in DOMAIN status[h]
              /\ Requests(h)[i].key = k /\ Requests(h)[i].kind = "delete"
              /\ status[h][i] = "SAVED" /\ Approved(h, i)
              /\ k \in PreloadedDeleted(h)
<1>1. Busy(h) /\ \A i \in Valid(h) : Approved(h, i)
  BY CommitFacts
<1>2. writes[h][k] # Untouched
  BY DEF Object, SlotView
<1>3. PICK i \in Valid(h) :
         /\ i \in 1 .. Len(Requests(h)) /\ i \in DOMAIN Requests(h)
         /\ Requests(h)[i].key = k /\ status[h][i] = "SAVED"
         /\ current[h][i] = registry[k].object
         /\ \/ Requests(h)[i].kind = "put" /\ Object(h, k) = Requests(h)[i].text
            \/ Requests(h)[i].kind = "delete" /\ Object(h, k) = None
  BY <1>1, <1>2, ChangedRow
<1>4. Requests(h)[i].kind = "delete"
  <2>1. Requests(h)[i].kind = "put" => Requests(h)[i].text \in Content
    BY <1>1, <1>3, BusyFacts
  <2> QED
    BY <1>3, <2>1, MarkerAssumption
<1>5. Type(h, i) = "DELETE"
  BY <1>1, <1>3, <1>4, TypeFacts
<1>6. k \in PreloadedDeleted(h)
  BY <1>3, <1>5 DEF PreloadedDeleted, ValidKeys
<1>7. i \in DOMAIN status[h]
  BY DEF Valid
<1> QED
  BY <1>1, <1>3, <1>4, <1>6, <1>7

\* What a submission deletes, by a valid request, is not as it was.
LEMMA DeletedDiffers ==
    ASSUME TypeOK, SubmissionInv, NEW h \in Handlers, Commit(h), Changes(h), NEW j \in Keys,
           j \in PreloadedDeleted(h)
    PROVE  Object(h, j) # registry[j].object
<1>0. Busy(h)
  BY CommitFacts
<1>1. PICK d \in Valid(h) : Type(h, d) \in {"DELETE"} /\ Requests(h)[d].key = j
  BY DEF PreloadedDeleted, ValidKeys
<1>2. d \in 1 .. Len(Requests(h))
  BY <1>0, BusyFacts DEF Valid
<1>3. Requests(h)[d].kind = "delete"
  BY <1>0, <1>1, <1>2, TypeFacts
<1>4. writes[h][j] # Untouched
  BY <1>1, <1>3, CommitFacts
<1> QED
  BY <1>0, <1>4, ChangedRow

\* What a valid request creates or modifies exists afterwards, unless another
\* request is for the same key.
LEMMA NewExists ==
    ASSUME TypeOK, SubmissionInv, NEW h \in Handlers, Commit(h), Changes(h), DistinctKeys(h),
           NEW k \in Keys, k \in PreloadedNew(h)
    PROVE  Object(h, k) # None
<1>0. Busy(h)
  BY CommitFacts
<1>1. PICK n \in Valid(h) : Type(h, n) \in {"CREATE", "MODIFY"} /\ Requests(h)[n].key = k
  BY DEF PreloadedNew, ValidKeys
<1>2. n \in 1 .. Len(Requests(h)) /\ n \in DOMAIN Requests(h)
  BY <1>0, BusyFacts DEF Valid
<1>3. Requests(h)[n].kind = "put" /\ Requests(h)[n].text \in Content
  BY <1>0, <1>1, <1>2, TypeFacts, BusyFacts
<1>4. CASE writes[h][k] = Untouched
  <2>1. Requests(h)[n].text = current[h][n]
    BY <1>1, <1>4, CommitFacts
  <2>2. current[h][n] = registry[k].object
    BY <1>0, <1>1, <1>2 DEF SubmissionInv, SubmissionOK, LoadedOK
  <2> QED
    BY <1>3, <1>4, <2>1, <2>2, MarkerAssumption DEF Object, SlotView
<1>5. CASE writes[h][k] # Untouched
  <2>1. PICK i \in Valid(h) :
           /\ i \in DOMAIN Requests(h)
           /\ Requests(h)[i].key = k
           /\ \/ Requests(h)[i].kind = "put" /\ Object(h, k) = Requests(h)[i].text
              \/ Requests(h)[i].kind = "delete" /\ Object(h, k) = None
    BY <1>0, <1>5, ChangedRow
  <2>2. i = n
    BY <1>1, <1>2, <1>3, <2>1 DEF DistinctKeys
  <2> QED
    BY <1>3, <2>1, <2>2, MarkerAssumption
<1> QED
  BY <1>4, <1>5

\* After a commit every broken reference is excused: none comes from what users
\* create, modify and delete.
LEMMA BrokenExcused ==
    ASSUME TypeOK, ConserveInv, SubmissionInv, ReferencesResolve,
           NEW h \in Handlers, Commit(h), DistinctKeys(h),
           NEW j \in Keys, NEW k \in Keys, k \in Strong(Object(h, j)), Object(h, k) = None
    PROVE  Excused(h, <<j, k>>)
<1>0. Busy(h)
  BY CommitFacts
<1>1. ASSUME Object(h, j) = registry[j].object, registry[k].object = None
      PROVE  Excused(h, <<j, k>>)
  <2>1. <<j, k>> \in Broken(registry)
    BY <1>1 DEF Broken
  <2> QED
    BY <1>1, <2>1 DEF ReferencesResolve, Excused
<1>2. CASE OnlyMoves(h)
  <2>1. CASE j \in Moved(h) \/ k \in Moved(h)
    BY <2>1 DEF Excused
  <2>2. CASE j \notin Moved(h) /\ k \notin Moved(h)
    BY <1>0, <1>1, <1>2, <2>2, NotMoved
  <2> QED
    BY <2>1, <2>2
<1>3. CASE Changes(h)
  <2>1. ASSUME Object(h, j) = registry[j].object, registry[k].object # None
        PROVE  Excused(h, <<j, k>>)
    <3>1. PICK i \in Valid(h) :
             /\ i \in DOMAIN Requests(h) /\ i \in DOMAIN status[h]
             /\ Requests(h)[i].key = k /\ Requests(h)[i].kind = "delete"
             /\ status[h][i] = "SAVED" /\ Approved(h, i)
      BY <1>3, <2>1, GoneRow
    <3>2. (submission[h].override /\ k \in ProtectedNames) \/ Unreferenced(h, k)
      BY <3>1 DEF Approved
    <3>3. ~Unreferenced(h, k)
      <4>1. j \notin PreloadedDeleted(h)
        BY <1>3, <2>1, DeletedDiffers
      <4> QED
        BY <2>1, <4>1 DEF Unreferenced
    <3>4. k \in OverrideDeleted(h)
      BY <3>1, <3>2, <3>3 DEF OverrideDeleted
    <3> QED
      BY <3>4 DEF Excused
  <2>2. ASSUME Object(h, j) # registry[j].object
        PROVE  FALSE
    <3>1. writes[h][j] # Untouched
      BY <2>2 DEF Object, SlotView
    <3>2. PICK i \in Valid(h) :
             /\ Requests(h)[i].key = j
             /\ \/ Requests(h)[i].kind = "put" /\ Object(h, j) = Requests(h)[i].text
                \/ Requests(h)[i].kind = "delete" /\ Object(h, j) = None
      BY <1>0, <1>3, <3>1, ChangedRow
    <3>3. Requests(h)[i].kind = "put" /\ Object(h, j) = Requests(h)[i].text
      BY <3>2 DEF Strong
    <3>4. Approved(h, i)
      BY <1>3, CommitFacts
    <3>5. \/ k \in PreloadedNew(h)
          \/ k \notin PreloadedDeleted(h) /\ registry[k].object # None
      BY <3>3, <3>4 DEF Approved
    <3>6. k \notin PreloadedNew(h)
      BY <1>3, NewExists
    <3>7. k \in PreloadedDeleted(h)
      BY <1>3, <3>5, <3>6, GoneRow
    <3> QED
      BY <3>5, <3>6, <3>7
  <2> QED
    BY <1>1, <2>1, <2>2
<1> QED
  BY <1>0, <1>2, <1>3, ChangesOrMoves

\* Every strong reference leads to an object, whatever is created, changed and
\* deleted together, except where an administrator has broken it; when submissions
\* do not overlap and name every object once (ReferenceValidator).
THEOREM ReferencesKept ==
    ASSUME \A g, h \in Handlers : g = h,
           \A s \in Submissions : \A i, j \in DOMAIN s.requests :
               i # j /\ s.requests[i].kind \in {"put", "delete"}
               => s.requests[i].key # s.requests[j].key
    PROVE  Spec => []ReferencesResolve
<1>1. Init => ReferencesResolve
  BY DEF Init, ReferencesResolve
<1>2. ASSUME TypeOK, ConserveInv, SubmissionInv, ReferencesResolve, NEW h \in Handlers, Commit(h)
      PROVE  ReferencesResolve'
  <2>1. Busy(h) /\ \A k \in Keys : registry'[k].object = Object(h, k)
    BY <1>2, CommitFacts
  <2>2. DistinctKeys(h)
    <3>1. submission[h] \in Submissions
      BY <1>2, <2>1, BusyFacts
    <3> QED
      BY <3>1 DEF DistinctKeys, Requests
  <2>3. loose' = {p \in Broken(registry') : Excused(h, p)}
    BY <1>2 DEF Commit
  <2>4. ASSUME NEW p \in Broken(registry')
        PROVE  Excused(h, p)
    <3>1. PICK j \in Keys, k \in Keys : p = <<j, k>>
      BY DEF Broken
    <3>2. k \in Strong(registry'[j].object) /\ registry'[k].object = None
      BY <3>1 DEF Broken
    <3>3. k \in Strong(Object(h, j)) /\ Object(h, k) = None
      BY <2>1, <3>2
    <3> QED
      BY <1>2, <2>2, <3>1, <3>3, BrokenExcused
  <2> QED
    BY <2>3, <2>4 DEF ReferencesResolve
<1>3. ASSUME TypeOK, ReferencesResolve, NEW h \in Handlers, Step(h), ~Commit(h)
      PROVE  ReferencesResolve'
  BY <1>3, RegistryKept DEF ReferencesResolve, Broken
<1>4. ASSUME ReferencesResolve, UNCHANGED vars
      PROVE  ReferencesResolve'
  BY <1>4 DEF vars, ghostVars, ReferencesResolve, Broken
<1>5. TypeOK /\ ConserveInv /\ SubmissionInv /\ ReferencesResolve /\ [Next]_vars
          => ReferencesResolve'
  BY <1>2, <1>3, <1>4, NextSteps
<1> QED
  BY <1>1, <1>5, TypeCorrect, ConserveInvariant, SubmissionInvariant, PTL DEF Spec

=============================================================================
