--------------------------- MODULE PreloadProofs ---------------------------
(***************************************************************************)
(* Proofs about the preloader, for any classes, query processes, errors    *)
(* and lost connections.                                                   *)
(***************************************************************************)
EXTENDS Preload, FiniteSetTheorems, SequenceTheorems, TLAPS

Distinct(list) == \A i, j \in DOMAIN list : i # j => list[i] # list[j]

Busy == {"check", "members", "write", "signal", "release"}

\* A thread works with the lock only, also when it tries again; the list has every
\* thread that has not ended, and no thread twice.
LockInv ==
    /\ \A t \in Threads : updater[t].pc \in Busy <=> lock = t
    /\ \A t \in Threads : calls[t] # None => lock = t
    /\ \A t \in Threads : Alive(t) => t \in Range(threads)
    /\ Distinct(threads)

Starting(p) == calls[p] # None /\ calls[p].pc = "start"

\* There is a thread for each call that is about to start one.
SpareInv ==
    \A p, q \in Callers : Starting(p) /\ Starting(q) =>
        \E t, u \in Threads \ Range(threads) : p # q => t # u

\* What a thread has queried is not older than what it will replace.
RedisOK ==
    \A s \in Stores : redis[s] # None => \A c \in DOMAIN redis[s] : redis[s][c] <= db[c]
FoundOK(t) ==
    LET u == updater[t]
        s == StoreOrder[u.at]
    IN  /\ u.pc = "waiting" => u.at = 1
        /\ u.pc \in {"check", "members", "write"} => u.at # Done
        /\ u.pc = "members" => u.found \in [FirstQuery(s) -> Nat]
        /\ u.pc = "write" => u.found \in StoreType(s)
        /\ u.pc \in {"members", "write"} =>
             \A c \in DOMAIN u.found :
                u.found[c] <= db[c] /\ (redis[s] # None => redis[s][c] <= u.found[c])
FoundInv == RedisOK /\ \A t \in Threads : FoundOK(t)

\* Nothing is loaded before the stores of an earlier run are cleared.
ClearInv ==
    manager = "clear" =>
        /\ \A p \in Callers : calls[p] = None
        /\ \A t \in Threads : ~Alive(t)
        /\ \A w \in Workers : /\ memory[w] = None /\ worker[w].pc # "loading" /\ worker[w].inbox = 0
                              /\ \A s \in Stores : worker[w].found[s] = None

\* What a process has loaded, and what it is loading, is not newer than Redis, and
\* what it is loading is not older than what it has loaded.
MemoryOK(w) ==
    /\ \A s \in Stores :
         /\ memory[w] # None /\ memory[w][s] # None => redis[s] # None /\ NotOlder(redis[s], memory[w][s])
         /\ worker[w].found[s] # None => redis[s] # None /\ NotOlder(redis[s], worker[w].found[s])
    /\ memory[w] # None =>
         \A i \in 1..worker[w].at - 1 :
            NotOlder(worker[w].found[StoreOrder[i]], memory[w][StoreOrder[i]])
MemoryInv == ClearInv /\ \A w \in Workers : MemoryOK(w)

\* As long as nothing was missed, there is one call at a time, and it has told the
\* thread that waits. Hence there are never more than two threads in the list.
CallInv ==
    ~missed =>
        /\ \A p, q \in Callers : p # q => calls[p] = None \/ calls[q] = None
        /\ Len(threads) <= 2
        /\ \A p \in Callers : Starting(p) => Len(threads) <= 1
        /\ \A p \in Callers, t \in Threads :
              calls[p] # None /\ updater[t].pc = "waiting" => calls[p].stores \subseteq updater[t].flags

-----------------------------------------------------------------------------
(* The stores, and the list of threads. *)

\* The stores in the order in which they are updated.
LEMMA StoreFacts ==
    /\ Len(StoreOrder) = 3 /\ Done = 4
    /\ StoreOrder[1] = "routes" /\ StoreOrder[2] = "asSets" /\ StoreOrder[3] = "routeSets"
    /\ Stores = {"routes", "asSets", "routeSets"}
  BY DEF StoreOrder, Stores, Done, Range

\* r has the entries of a list of n at the given positions, and each of them once.
IsPick(r, list, n, kept) ==
    LET card == Cardinality(kept)
    IN  /\ card \in Nat /\ card <= n
        /\ card = n => kept = 1..n
        /\ r = [m \in 1..card |-> r[m]]
        /\ \A i \in kept : \E m \in 1..card : r[m] = list[i]
        /\ \E f \in [1..card -> kept] :
             /\ \A m \in 1..card : r[m] = list[f[m]]
             /\ \A l, m \in 1..card : l # m => f[l] # f[m]

\* The kept elements of a list, in their order.
LEMMA PickFacts ==
    ASSUME NEW n \in Nat, NEW list, NEW kept \in SUBSET (1..n)
    PROVE  IsPick(Pick(list, kept), list, n, kept)
<1> DEFINE Upto(i) == {j \in kept : j <= i}
           card == Cardinality(kept)
           rank == [i \in kept |-> Cardinality(Upto(i))]
<1>1. IsFiniteSet(1..n) /\ Cardinality(1..n) = n
  BY FS_Interval
<1>2. IsFiniteSet(kept) /\ card \in Nat /\ card <= n /\ (card = n => kept = 1..n)
  BY <1>1, FS_Subset, FS_CardinalityType
<1>3. ASSUME NEW i \in kept PROVE /\ IsFiniteSet(Upto(i)) /\ rank[i] \in 1..card
  <2>1. Upto(i) \subseteq kept /\ i \in Upto(i)
    OBVIOUS
  <2>2. IsFiniteSet(Upto(i)) /\ Cardinality(Upto(i)) <= card /\ Cardinality(Upto(i)) \in Nat
    BY <1>2, <2>1, FS_Subset, FS_CardinalityType
  <2>3. Cardinality(Upto(i)) # 0
    BY <2>1, <2>2, FS_EmptySet
  <2> QED
    BY <1>2, <2>2, <2>3
<1>4. ASSUME NEW i \in kept, NEW j \in kept, rank[i] = rank[j] PROVE i = j
  <2>1. ASSUME NEW a \in kept, NEW b \in kept, a < b, rank[a] = rank[b] PROVE FALSE
    <3>1. Upto(a) \subseteq Upto(b) /\ b \in Upto(b) /\ b \notin Upto(a)
      <4>1. a \in Int /\ b \in Int /\ a < b /\ \A k \in kept : k \in Int
        BY <2>1
      <4> HIDE DEF rank
      <4>2. Upto(a) \subseteq Upto(b)
        <5> SUFFICES ASSUME NEW k \in kept, k <= a PROVE k <= b
          OBVIOUS
        <5> QED
          BY <4>1
      <4>3. b \in Upto(b) /\ b \notin Upto(a)
        BY <4>1
      <4> QED
        BY <4>2, <4>3
    <3>2. Upto(a) = Upto(b)
      <4>1. Cardinality(Upto(a)) = Cardinality(Upto(b)) /\ IsFiniteSet(Upto(b))
        BY <1>3, <2>1
      <4> HIDE DEF Upto
      <4> QED
        BY <3>1, <4>1, FS_Subset
    <3> QED
      BY <3>1, <3>2
  <2>2. i \in Nat /\ j \in Nat
    OBVIOUS
  <2> QED
    BY <1>4, <2>1, <2>2
<1>5. \A m \in 1..card : \E i \in kept : rank[i] = m
  <2> DEFINE image == {rank[i] : i \in kept}
  <2>1. rank \in Bijection(kept, image)
    BY <1>4 DEF Bijection, Injection, Surjection, IsInjective
  <2>2. Cardinality(image) = card /\ IsFiniteSet(image)
    <3> HIDE DEF rank, image, card
    <3> QED
      BY <1>2, <2>1, FS_Bijection DEF card, ExistsBijection
  <2>3. image \subseteq 1..card
    BY <1>3
  <2>4. IsFiniteSet(1..card) /\ Cardinality(1..card) = card
    BY <1>2, FS_Interval
  <2>5. image = 1..card
    BY <2>2, <2>3, <2>4, FS_Subset
  <2> QED
    BY <2>5
<1> DEFINE f == [m \in 1..card |-> CHOOSE i \in kept : Cardinality(Upto(i)) = m]
<1>6. \A m \in 1..card : f[m] \in kept /\ rank[f[m]] = m
  BY <1>5
<1>7. Pick(list, kept) = [m \in 1..card |-> list[f[m]]]
  BY <1>2 DEF Pick
<1>8. /\ f \in [1..card -> kept]
      /\ \A l, m \in 1..card : l # m => f[l] # f[m]
  BY <1>6
<1> HIDE DEF f, rank, card
<1>9. \A i \in kept : rank[i] \in 1..card /\ f[rank[i]] = i
  BY <1>3, <1>4, <1>6
<1>10. \A i \in kept : \E m \in 1..card : Pick(list, kept)[m] = list[i]
  BY <1>7, <1>9
<1>11. \A m \in 1..card : Pick(list, kept)[m] = list[f[m]]
  BY <1>7
<1>12. Pick(list, kept) = [m \in 1..card |-> Pick(list, kept)[m]]
  BY <1>7
<1> QED
  BY <1>2, <1>8, <1>10, <1>11, <1>12 DEF IsPick, card

\* remove_dead_threads() keeps the order and every thread that is alive.
LEMMA RemoveDeadFacts ==
    ASSUME threads \in Seq(Threads)
    PROVE  /\ RemoveDead \in Seq(Threads)
           /\ Len(RemoveDead) <= Len(threads)
           /\ Len(RemoveDead) = Len(threads) => \A i \in DOMAIN threads : ~Removed(i)
           /\ Range(RemoveDead) \subseteq Range(threads)
           /\ \A t \in Range(threads) : Alive(t) => t \in Range(RemoveDead)
           /\ Distinct(threads) => Distinct(RemoveDead)
<1> DEFINE n == Len(threads)
           kept == {i \in DOMAIN threads : ~Removed(i)}
           card == Cardinality(kept)
<1>1. n \in Nat /\ DOMAIN threads = 1..n /\ \A i \in 1..n : threads[i] \in Threads
  OBVIOUS
<1>2. kept \in SUBSET (1..n) /\ RemoveDead = Pick(threads, kept)
  BY <1>1 DEF RemoveDead
<1>3. \A i \in DOMAIN threads : Alive(threads[i]) => i \in kept
  BY <1>1 DEF Removed
<1> HIDE DEF n, kept
<1> DEFINE r == Pick(threads, kept)
<1>3a. IsPick(r, threads, n, kept)
  BY <1>1, <1>2, PickFacts
<1>4. /\ card \in Nat /\ card <= n
      /\ card = n => kept = 1..n
      /\ r = [m \in 1..card |-> r[m]] /\ DOMAIN r = 1..card
      /\ \A i \in kept : \E m \in 1..card : r[m] = threads[i]
  BY <1>3a DEF IsPick
<1>5. PICK f \in [1..card -> kept] :
                /\ \A m \in 1..card : r[m] = threads[f[m]]
                /\ \A l, m \in 1..card : l # m => f[l] # f[m]
  BY <1>3a DEF IsPick
<1>6. \A m \in 1..card : f[m] \in 1..n /\ r[m] = threads[f[m]] /\ r[m] \in Threads
  BY <1>1, <1>2, <1>5
<1>7. r \in Seq(Threads) /\ Len(r) = card
  <2> HIDE DEF r, card
  <2>1. r \in [1..card -> Threads]
    BY <1>4, <1>6
  <2> QED
    BY <1>4, <2>1
<1> HIDE DEF r, card
<1>8. Range(r) \subseteq Range(threads)
  <2> SUFFICES ASSUME NEW m \in DOMAIN r PROVE r[m] \in Range(threads)
    BY DEF Range
  <2> QED
    BY <1>1, <1>4, <1>6 DEF Range
<1>9. \A t \in Range(threads) : Alive(t) => t \in Range(r)
  <2> SUFFICES ASSUME NEW i \in DOMAIN threads, Alive(threads[i]) PROVE threads[i] \in Range(r)
    BY DEF Range
  <2>1. PICK m \in 1..card : r[m] = threads[i]
    BY <1>3, <1>4
  <2> QED
    BY <1>4, <2>1 DEF Range
<1>10. Distinct(threads) => Distinct(r)
  BY <1>1, <1>4, <1>5, <1>6 DEF Distinct
<1>11. card = n => \A i \in DOMAIN threads : ~Removed(i)
  BY <1>1, <1>4 DEF kept
<1> QED
  BY <1>2, <1>4, <1>7, <1>8, <1>9, <1>10, <1>11 DEF n, r

\* perform_reload() changes no thread but for its flags.
LEMMA PerformReloadFacts ==
    ASSUME NEW p \in Callers, NEW stores \in SUBSET Stores, ManagerType,
           NEW us, us = [t \in Threads |-> [pc |-> us[t].pc, flags |-> us[t].flags,
                                            at |-> us[t].at, found |-> us[t].found]],
           \A t \in Threads : us[t].flags \subseteq Stores,
           PerformReload(p, us, stores)
    PROVE  /\ updater' = [t \in Threads |-> [pc |-> us[t].pc, flags |-> updater'[t].flags,
                                             at |-> us[t].at, found |-> us[t].found]]
           /\ \A t \in Threads :
                /\ us[t].flags \subseteq updater'[t].flags /\ updater'[t].flags \subseteq Stores
                /\ t \in Range(threads) => stores \subseteq updater'[t].flags
           /\ calls' = [calls EXCEPT ![p] = [stores |-> stores, pc |-> "count"]]
           /\ calls' \in [Callers -> Call \union {None}]
           /\ missed' = (missed \/ \E q \in Callers \ {p} : calls[q] # None)
<1>1. updater' = UpdateFlags(us, stores)
  BY DEF PerformReload
<1>2. \A t \in Threads : updater'[t] = IF t \in Range(threads)
                                       THEN [us[t] EXCEPT !.flags = @ \union stores] ELSE us[t]
  BY <1>1 DEF UpdateFlags
<1>3. \A t \in Threads :
        /\ updater'[t] = [pc |-> us[t].pc, flags |-> updater'[t].flags,
                          at |-> us[t].at, found |-> us[t].found]
        /\ updater'[t].flags = IF t \in Range(threads) THEN us[t].flags \union stores
                                                       ELSE us[t].flags
  BY <1>2
<1>4. updater' = [t \in Threads |-> updater'[t]]
  BY <1>1 DEF UpdateFlags
<1>5. updater' = [t \in Threads |-> [pc |-> us[t].pc, flags |-> updater'[t].flags,
                                     at |-> us[t].at, found |-> us[t].found]]
  BY <1>3, <1>4
<1>6. /\ calls' = [calls EXCEPT ![p] = [stores |-> stores, pc |-> "count"]]
      /\ missed' = (missed \/ \E q \in Callers \ {p} : calls[q] # None)
  BY DEF PerformReload
<1>7. calls' \in [Callers -> Call \union {None}]
  BY <1>6 DEF ManagerType, Call
<1> QED
  BY <1>3, <1>5, <1>6, <1>7

\* What a store is made of is relevant to it.
LEMMA QueryFacts ==
    ASSUME NEW s \in Stores
    PROVE  /\ FirstQuery(s) \subseteq Classes /\ MemberQuery(s) \subseteq Classes
           /\ \A classes : (FirstQuery(s) \union MemberQuery(s)) \intersect classes # {}
                           => s \in Relevant(classes)
<1>1. FirstQuery(s) \subseteq Classes /\ MemberQuery(s) \subseteq Classes
  BY DEF FirstQuery, MemberQuery
<1>2. CASE s = "routes"
  BY <1>2 DEF FirstQuery, MemberQuery, Relevant
<1>3. CASE s = "asSets"
  BY <1>3 DEF FirstQuery, MemberQuery, Relevant
<1>4. CASE s = "routeSets"
  BY <1>4 DEF FirstQuery, MemberQuery, Relevant
<1> QED
  BY <1>1, <1>2, <1>3, <1>4, StoreFacts

\* What a query returns, while the database has the right type.
LEMMA QueryType ==
    ASSUME StoresType, NEW s \in Stores
    PROVE  /\ Current(s) \in StoreType(s)
           /\ \A c \in FirstQuery(s) \union MemberQuery(s) : Current(s)[c] = db[c] /\ db[c] \in Nat
           /\ QueryResult(FirstQuery(s)) \in [FirstQuery(s) -> Nat]
           /\ QueryResult(MemberQuery(s)) \in [MemberQuery(s) -> Nat]
  BY QueryFacts DEF StoresType, Current, StoreType, QueryResult

PreloadInv == TypeOK /\ LockInv /\ SpareInv /\ FoundInv /\ MemoryInv

\* The invariants hold at the start.
LEMMA PreloadInit == Init => PreloadInv /\ CallInv /\ ReloadPending
<1> SUFFICES ASSUME Init PROVE PreloadInv /\ CallInv /\ ReloadPending
  OBVIOUS
<1>1. \A t \in Threads : updater[t] = NoThread
  BY DEF Init
<1>2. StoresType /\ FoundInv
  <2>1. db \in [Classes -> Nat]
    BY DEF Init
  <2>2. \A s \in Stores : redis[s] = [c \in FirstQuery(s) \union MemberQuery(s) |-> 0]
    BY DEF Init, Current
  <2>3. CopyOK(redis)
    BY <2>2 DEF Init, CopyOK, StoreType
  <2>4. \A s \in Stores : \A c \in FirstQuery(s) \union MemberQuery(s) : redis[s][c] <= db[c]
    <3> SUFFICES ASSUME NEW s \in Stores, NEW c \in FirstQuery(s) \union MemberQuery(s)
                 PROVE  redis[s][c] <= db[c]
      OBVIOUS
    <3>1. c \in Classes
      BY QueryFacts
    <3>2. db[c] = 1 /\ redis[s][c] = 0
      BY <2>2, <3>1 DEF Init
    <3> QED
      BY <3>2
  <2> QED
    BY <1>1, <2>1, <2>2, <2>3, <2>4 DEF Init, StoresType, FoundInv, RedisOK, FoundOK, NoThread
<1>3. ManagerType
  BY DEF Init, ManagerType
<1>4. UpdaterType
  BY <1>1, StoreFacts DEF Init, UpdaterType, NoThread
<1>5. WorkerType
  BY StoreFacts DEF Init, WorkerType, CopyOK, NothingFound
<1>6. LockInv /\ SpareInv /\ CallInv
  BY <1>1, NoneAssumption DEF Init, LockInv, SpareInv, CallInv, NoThread, Busy, Alive, Distinct,
    Starting, Callers
<1>7. MemoryInv
  BY <1>1, StoreFacts DEF Init, MemoryInv, ClearInv, MemoryOK, NoThread, Alive, NothingFound
<1>8. ReloadPending
  BY DEF Init, ReloadPending
<1> QED
  BY <1>2, <1>3, <1>4, <1>5, <1>6, <1>7, <1>8 DEF PreloadInv, TypeOK

-----------------------------------------------------------------------------
(* What the steps of a thread and of perform_reload() do. *)

\* The states of a thread, in the form in which steps change them.
Thread(pc, flags, at, found) == [pc |-> pc, flags |-> flags, at |-> at, found |-> found]

\* A thread is what its fields say.
LEMMA ThreadShape ==
    ASSUME UpdaterType, NEW t \in Threads
    PROVE  updater[t] = Thread(updater[t].pc, updater[t].flags, updater[t].at, updater[t].found)
  BY DEF UpdaterType, Thread

\* A thread goes on to the next store, or to the signal after the last.
LEMMA NextStoreFacts ==
    ASSUME UpdaterType, NEW t \in Threads
    PROVE  NextStore(updater[t]) =
             Thread(IF updater[t].at = 3 THEN "signal" ELSE "check", updater[t].flags,
                    updater[t].at + 1, << >>)
<1> DEFINE u == updater[t]
<1>1. u = [pc |-> u.pc, flags |-> u.flags, at |-> u.at, found |-> u.found]
  BY DEF UpdaterType
<1> HIDE DEF u
<1>2. NextStore(u) = [u EXCEPT !.at = u.at + 1, !.found = << >>,
                               !.pc = IF u.at = 3 THEN "signal" ELSE "check"]
  BY <1>1, StoreFacts DEF NextStore
<1> QED
  BY <1>1, <1>2 DEF Thread, u

\* A thread that tries again goes on with its work, or stops.
LEMMA ErrorFacts ==
    ASSUME ManagerType, UpdaterType, FoundInv, NEW t \in Threads,
           PreloadUpdateError(t) \/ UpdateException(t)
    PROVE  /\ updater[t].pc \in Busy \ {"release"}
           /\ updater'[t].pc \in {"check", "signal", "release"}
           /\ updater'[t].pc = "check" => updater'[t].at \in 1..3
           /\ updater' = [u \in Threads |-> Thread(updater'[u].pc, updater'[u].flags,
                                                   updater'[u].at, updater'[u].found)]
           /\ \A u \in Threads :
                /\ updater'[u].at \in 1..Done
                /\ updater[u].flags \subseteq updater'[u].flags /\ updater'[u].flags \subseteq Stores
                /\ u \in Range(threads) => updater'[u].flags = Stores
                /\ u # t => /\ updater'[u].pc = updater[u].pc
                            /\ updater'[u].at = updater[u].at
                            /\ updater'[u].found = updater[u].found
           /\ calls' = [calls EXCEPT ![t] = [stores |-> Stores, pc |-> "count"]]
           /\ calls' \in [Callers -> Call \union {None}]
           /\ missed' = (missed \/ \E q \in Callers \ {t} : calls[q] # None)
           /\ UNCHANGED <<db, changes, unsignalled, redis, manager, inbox, threads, lock, worker, memory>>
<1> DEFINE next == [updater EXCEPT ![t] = NextStore(@)]
           stop == [updater EXCEPT ![t].pc = "release"]
<1>1. UNCHANGED <<db, changes, unsignalled, redis, manager, inbox, threads, lock, worker, memory>>
  BY DEF PreloadUpdateError, UpdateException, workerVars
<1>2. t \in Callers
  BY DEF Callers
<1>3. \/ updater[t].pc = "write" /\ PerformReload(t, next, Stores)
      \/ updater[t].pc \in {"signal", "check", "members"} /\ PerformReload(t, stop, Stores)
  BY DEF PreloadUpdateError, UpdateException, Retry
<1>4. CASE updater[t].pc = "write" /\ PerformReload(t, next, Stores)
  <2>1. updater[t].at \in 1..3
    BY <1>4, StoreFacts DEF FoundInv, FoundOK, UpdaterType
  <2>2. next[t] = Thread(IF updater[t].at = 3 THEN "signal" ELSE "check", updater[t].flags,
                         updater[t].at + 1, << >>)
    BY NextStoreFacts DEF UpdaterType
  <2>3. \A u \in Threads \ {t} : next[u] = updater[u]
    BY DEF UpdaterType
  <2>4. /\ next = [u \in Threads |-> [pc |-> next[u].pc, flags |-> next[u].flags,
                                      at |-> next[u].at, found |-> next[u].found]]
        /\ \A u \in Threads : next[u].flags \subseteq Stores /\ next[u].flags = updater[u].flags
    BY <2>2, <2>3 DEF UpdaterType, Thread
  <2> HIDE DEF next
  <2>5. /\ updater' = [u \in Threads |-> [pc |-> next[u].pc, flags |-> updater'[u].flags,
                                          at |-> next[u].at, found |-> next[u].found]]
        /\ \A u \in Threads :
             /\ next[u].flags \subseteq updater'[u].flags /\ updater'[u].flags \subseteq Stores
             /\ u \in Range(threads) => Stores \subseteq updater'[u].flags
        /\ calls' = [calls EXCEPT ![t] = [stores |-> Stores, pc |-> "count"]]
        /\ calls' \in [Callers -> Call \union {None}]
        /\ missed' = (missed \/ \E q \in Callers \ {t} : calls[q] # None)
    BY <1>2, <1>4, <2>4, PerformReloadFacts
  <2> QED
    BY <1>1, <1>4, <2>1, <2>2, <2>3, <2>4, <2>5, StoreFacts DEF Busy, Thread, UpdaterType
<1>5. CASE updater[t].pc \in {"signal", "check", "members"} /\ PerformReload(t, stop, Stores)
  <2>1. stop[t] = Thread("release", updater[t].flags, updater[t].at, updater[t].found)
    BY DEF UpdaterType, Thread
  <2>2. \A u \in Threads \ {t} : stop[u] = updater[u]
    BY DEF UpdaterType
  <2>3. /\ stop = [u \in Threads |-> [pc |-> stop[u].pc, flags |-> stop[u].flags,
                                      at |-> stop[u].at, found |-> stop[u].found]]
        /\ \A u \in Threads : stop[u].flags \subseteq Stores /\ stop[u].flags = updater[u].flags
    BY <2>1, <2>2 DEF UpdaterType, Thread
  <2> HIDE DEF stop
  <2>4. /\ updater' = [u \in Threads |-> [pc |-> stop[u].pc, flags |-> updater'[u].flags,
                                          at |-> stop[u].at, found |-> stop[u].found]]
        /\ \A u \in Threads :
             /\ stop[u].flags \subseteq updater'[u].flags /\ updater'[u].flags \subseteq Stores
             /\ u \in Range(threads) => Stores \subseteq updater'[u].flags
        /\ calls' = [calls EXCEPT ![t] = [stores |-> Stores, pc |-> "count"]]
        /\ calls' \in [Callers -> Call \union {None}]
        /\ missed' = (missed \/ \E q \in Callers \ {t} : calls[q] # None)
    BY <1>2, <1>5, <2>3, PerformReloadFacts
  <2> QED
    BY <1>1, <1>5, <2>1, <2>2, <2>3, <2>4, StoreFacts DEF Busy, Thread, UpdaterType
<1> QED
  BY <1>3, <1>4, <1>5

\* A reload by the manager, at the start or for a message.
LEMMA ReloadFacts ==
    ASSUME ManagerType, UpdaterType, NEW stores \in SUBSET Stores,
           PerformReload(Main, updater, stores)
    PROVE  /\ updater' = [u \in Threads |-> Thread(updater[u].pc, updater'[u].flags,
                                                   updater[u].at, updater[u].found)]
           /\ \A u \in Threads :
                /\ updater[u].flags \subseteq updater'[u].flags /\ updater'[u].flags \subseteq Stores
                /\ u \in Range(threads) => stores \subseteq updater'[u].flags
           /\ calls' = [calls EXCEPT ![Main] = [stores |-> stores, pc |-> "count"]]
           /\ calls' \in [Callers -> Call \union {None}]
           /\ missed' = (missed \/ \E q \in Callers \ {Main} : calls[q] # None)
<1>1. Main \in Callers
  BY DEF Callers
<1>2. \A t \in Threads : updater[t].flags \subseteq Stores
  BY DEF UpdaterType
<1> QED
  BY <1>1, <1>2, PerformReloadFacts DEF UpdaterType, Thread

-----------------------------------------------------------------------------
(* Types. *)

\* Every step keeps the types of the stores.
LEMMA StoresTypeNext == TypeOK /\ FoundInv /\ [Next]_vars => StoresType'
<1> SUFFICES ASSUME TypeOK, FoundInv, [Next]_vars PROVE StoresType'
  OBVIOUS
<1>0. StoresType
  BY DEF TypeOK
<1>1. ASSUME NEW classes \in SUBSET Classes, Commit(classes) PROVE StoresType'
  <2>1. db' = [c \in Classes |-> IF c \in classes THEN db[c] + 1 ELSE db[c]]
    BY <1>1 DEF Commit
  <2>2. db' \in [Classes -> Nat]
    BY <1>0, <2>1 DEF StoresType
  <2>3. redis' = redis /\ unsignalled' = unsignalled \union {[id |-> changes + 1, classes |-> classes]}
    BY <1>1 DEF Commit
  <2> QED
    BY <1>0, <2>2, <2>3 DEF StoresType, CopyOK
<1>2. ASSUME NEW u \in unsignalled, SignalReload(u) \/ LoseSignal(u) PROVE StoresType'
  BY <1>0, <1>2 DEF SignalReload, LoseSignal, StoresType, CopyOK
<1>3. CASE ClearExistingData
  <2>1. /\ redis' = [redis EXCEPT !["routes"] = None, !["asSets"] = None]
        /\ db' = db /\ unsignalled' = unsignalled
    BY <1>3 DEF ClearExistingData
  <2> QED
    BY <1>0, <2>1 DEF StoresType, CopyOK
<1>4. ASSUME NEW t \in Threads, UpdateStore(t) PROVE StoresType'
  <2> DEFINE s == StoreOrder[updater[t].at]
  <2>1. /\ updater[t].pc = "write" /\ db' = db /\ unsignalled' = unsignalled
        /\ redis' = [redis EXCEPT ![s] = updater[t].found]
    BY <1>4 DEF UpdateStore
  <2>2. updater[t].found \in StoreType(s)
    BY <2>1 DEF FoundInv, FoundOK
  <2> HIDE DEF s
  <2> QED
    BY <1>0, <2>1, <2>2 DEF StoresType, CopyOK
<1>5. ASSUME UNCHANGED <<db, unsignalled, redis>> PROVE StoresType'
  BY <1>0, <1>5 DEF StoresType, CopyOK
<1>6. CASE Transactions
  BY <1>1, <1>2, <1>6 DEF Transactions
<1>7. CASE Manager
  BY <1>3, <1>5, <1>7 DEF Manager, InitialReload, Subscribe, ReceiveMessage, CountThreads, StartThread
<1>8. ASSUME NEW t \in Threads, Updater(t) PROVE StoresType'
  BY <1>4, <1>5, <1>8 DEF Updater, CountThreads, StartThread, Acquire, CheckFlag, QueryMembers,
    SignalRedisStoreUpdated, Release, EndThread
<1>9. ASSUME NEW w \in Workers, Worker(w) PROVE StoresType'
  BY <1>5, <1>9 DEF Worker, SubscribeWorker, StartLoading, LoadStore
<1>10. CASE Errors
  BY <1>5, <1>10 DEF Errors, LoseManagerConnection, PreloadUpdateError, UpdateException,
    LoseWorkerConnection
<1>11. CASE UNCHANGED vars
  BY <1>5, <1>11 DEF vars
<1> QED
  BY <1>6, <1>7, <1>8, <1>9, <1>10, <1>11 DEF Next

\* A call that starts a thread has a thread to start, which has ended.
LEMMA StartFacts ==
    ASSUME ManagerType, UpdaterType, LockInv, SpareInv, NEW p \in Callers, StartThread(p)
    PROVE  \E new \in Threads :
             /\ new \notin Range(threads) /\ updater[new].pc = "dead"
             /\ threads' = Append(threads, new)
             /\ updater' = [updater EXCEPT ![new] = Thread("waiting", calls[p].stores, 1, << >>)]
             /\ calls[p] # None /\ calls[p] \in Call /\ calls[p].pc = "start"
             /\ calls' = [calls EXCEPT ![p] = None]
<1> DEFINE new == CHOOSE t \in Threads : t \notin Range(threads)
<1>1. Starting(p) /\ calls[p] \in Call
  BY DEF StartThread, Starting, ManagerType
<1>2. new \in Threads /\ new \notin Range(threads)
  BY <1>1 DEF SpareInv
<1>3. /\ threads' = Append(threads, new)
      /\ updater' = [updater EXCEPT ![new] = Thread("waiting", calls[p].stores, 1, << >>)]
      /\ calls' = [calls EXCEPT ![p] = None]
  BY DEF StartThread, Thread
<1> HIDE DEF new
<1>4. updater[new].pc = "dead"
  BY <1>2 DEF LockInv, Alive
<1> QED
  BY <1>1, <1>2, <1>3, <1>4 DEF Starting

\* Every step keeps the types of the manager.
LEMMA ManagerTypeNext == TypeOK /\ LockInv /\ SpareInv /\ FoundInv /\ [Next]_vars => ManagerType'
<1> SUFFICES ASSUME TypeOK, LockInv, SpareInv, FoundInv, [Next]_vars PROVE ManagerType'
  OBVIOUS
<1>0. ManagerType /\ UpdaterType
  BY DEF TypeOK
<1>1. ASSUME UNCHANGED <<manager, inbox, calls, threads, lock>> PROVE ManagerType'
  BY <1>0, <1>1 DEF ManagerType
<1>2. ASSUME NEW u, SignalReload(u) PROVE ManagerType'
  <2>1. Relevant(u.classes) \subseteq Stores
    BY DEF Relevant
  <2>2. inbox' \in Seq(SUBSET Stores)
    BY <1>0, <1>2, <2>1 DEF SignalReload, ManagerType
  <2> QED
    BY <1>0, <1>2, <2>2 DEF SignalReload, ManagerType
<1>3. CASE Transactions
  BY <1>1, <1>2, <1>3 DEF Transactions, Commit, LoseSignal, managerVars
<1>4. CASE InitialReload
  BY <1>0, <1>4, ReloadFacts DEF InitialReload, ManagerType
<1>5. CASE ReceiveMessage
  <2>1. Head(inbox) \in SUBSET Stores /\ inbox' \in Seq(SUBSET Stores)
    BY <1>0, <1>5 DEF ReceiveMessage, ManagerType
  <2>2. calls' \in [Callers -> Call \union {None}]
    BY <1>0, <1>5, <2>1, ReloadFacts DEF ReceiveMessage, ManagerType
  <2> QED
    BY <1>0, <1>5, <2>1, <2>2 DEF ReceiveMessage, ManagerType
<1>6. ASSUME NEW p \in Callers, CountThreads(p) PROVE ManagerType'
  <2>1. threads' = RemoveDead /\ RemoveDead \in Seq(Threads)
    BY <1>0, <1>6, RemoveDeadFacts DEF CountThreads, ManagerType
  <2>2. calls' = [calls EXCEPT ![p] = None] \/ calls' = [calls EXCEPT ![p].pc = "start"]
    BY <1>6 DEF CountThreads
  <2>3. calls[p] \in Call
    BY <1>0, <1>6 DEF CountThreads, ManagerType
  <2>4. calls' \in [Callers -> Call \union {None}]
    BY <1>0, <2>2, <2>3 DEF ManagerType, Call
  <2> QED
    BY <1>0, <1>6, <2>1, <2>4 DEF CountThreads, ManagerType
<1>7. ASSUME NEW p \in Callers, StartThread(p) PROVE ManagerType'
  <2>1. PICK new \in Threads : threads' = Append(threads, new) /\ calls' = [calls EXCEPT ![p] = None]
    BY <1>0, <1>7, StartFacts
  <2>2. threads' \in Seq(Threads) /\ calls' \in [Callers -> Call \union {None}]
    BY <1>0, <2>1 DEF ManagerType
  <2>3. UNCHANGED <<manager, inbox, lock>>
    BY <1>7 DEF StartThread
  <2> QED
    BY <1>0, <2>2, <2>3 DEF ManagerType
<1>8. CASE ClearExistingData \/ Subscribe \/ LoseManagerConnection
  <2>1. /\ manager' \in {"reload", "listening"} /\ (inbox' = inbox \/ inbox' = << >>)
        /\ UNCHANGED <<calls, threads, lock>>
    BY <1>8 DEF ClearExistingData, Subscribe, LoseManagerConnection
  <2>2. inbox' \in Seq(SUBSET Stores)
    BY <1>0, <2>1, EmptySeq DEF ManagerType
  <2> QED
    BY <1>0, <2>1, <2>2 DEF ManagerType
<1>9. CASE Manager
  BY <1>4, <1>5, <1>6, <1>7, <1>8, <1>9 DEF Manager, Callers
<1>10. ASSUME NEW t \in Threads, Updater(t) PROVE ManagerType'
  <2>1. CASE Acquire(t) \/ Release(t)
    BY <1>0, <2>1 DEF Acquire, Release, ManagerType
  <2>2. CASE CheckFlag(t) \/ QueryMembers(t) \/ UpdateStore(t) \/ SignalRedisStoreUpdated(t) \/ EndThread(t)
    BY <1>1, <2>2 DEF CheckFlag, QueryMembers, UpdateStore, SignalRedisStoreUpdated, EndThread
  <2> QED
    BY <1>6, <1>7, <1>10, <2>1, <2>2 DEF Updater, Callers
<1>11. ASSUME NEW w \in Workers, Worker(w) \/ LoseWorkerConnection(w) PROVE ManagerType'
  BY <1>1, <1>11 DEF Worker, SubscribeWorker, StartLoading, LoadStore, LoseWorkerConnection, managerVars
<1>12. ASSUME NEW t \in Threads, PreloadUpdateError(t) \/ UpdateException(t) PROVE ManagerType'
  BY <1>0, <1>12, ErrorFacts DEF ManagerType
<1>13. CASE UNCHANGED vars
  BY <1>1, <1>13 DEF vars, managerVars
<1> QED
  BY <1>3, <1>8, <1>9, <1>10, <1>11, <1>12, <1>13 DEF Next, Errors

\* The steps of a thread at work.
LEMMA WorkFacts ==
    ASSUME UpdaterType, NEW t \in Threads
    PROVE  LET u == updater[t]
               s == StoreOrder[u.at]
               Becomes(v) == updater' = [updater EXCEPT ![t] = v]
           IN  /\ Acquire(t) => Becomes(Thread("check", u.flags, u.at, u.found))
               /\ CheckFlag(t) =>
                    IF s \notin u.flags
                    THEN Becomes(Thread(IF u.at = 3 THEN "signal" ELSE "check", u.flags, u.at + 1, << >>))
                    ELSE Becomes(Thread(IF MemberQuery(s) = {} THEN "write" ELSE "members", u.flags,
                                        u.at, QueryResult(FirstQuery(s))))
               /\ QueryMembers(t) =>
                    Becomes(Thread("write", u.flags, u.at,
                                   WithMembers(u.found, QueryResult(MemberQuery(s)))))
               /\ UpdateStore(t) =>
                    Becomes(Thread(IF u.at = 3 THEN "signal" ELSE "check", u.flags, u.at + 1, << >>))
               /\ SignalRedisStoreUpdated(t) => Becomes(Thread("release", u.flags, u.at, u.found))
               /\ Release(t) => Becomes(Thread("ending", u.flags, u.at, u.found))
               /\ EndThread(t) => Becomes(Thread("dead", {}, 1, << >>))
<1> DEFINE u == updater[t]
           s == StoreOrder[u.at]
           Becomes(v) == updater' = [updater EXCEPT ![t] = v]
<1>1. u = [pc |-> u.pc, flags |-> u.flags, at |-> u.at, found |-> u.found]
  BY DEF UpdaterType
<1>2. updater = [x \in Threads |-> updater[x]]
  BY DEF UpdaterType
<1>3. NextStore(u) = Thread(IF u.at = 3 THEN "signal" ELSE "check", u.flags, u.at + 1, << >>)
  BY NextStoreFacts
<1>4. ASSUME NEW pc, updater' = [updater EXCEPT ![t].pc = pc]
      PROVE  Becomes(Thread(pc, u.flags, u.at, u.found))
  <2>1. [updater EXCEPT ![t].pc = pc] = [updater EXCEPT ![t] = [u EXCEPT !.pc = pc]]
    BY <1>2
  <2> HIDE DEF u
  <2>2. [u EXCEPT !.pc = pc] = [pc |-> pc, flags |-> u.flags, at |-> u.at, found |-> u.found]
    BY <1>1
  <2> QED
    BY <1>4, <2>1, <2>2 DEF Thread
<1>5. ASSUME NEW pc, NEW found PROVE [u EXCEPT !.pc = pc, !.found = found] = Thread(pc, u.flags, u.at, found)
  <2> HIDE DEF u
  <2> DEFINE v == [u EXCEPT !.pc = pc]
  <2>1. v = [pc |-> pc, flags |-> u.flags, at |-> u.at, found |-> u.found]
    BY <1>1
  <2>2. [u EXCEPT !.pc = pc, !.found = found] = [v EXCEPT !.found = found]
    OBVIOUS
  <2> HIDE DEF v
  <2>3. [v EXCEPT !.found = found] = [pc |-> pc, flags |-> u.flags, at |-> u.at, found |-> found]
    BY <2>1
  <2> QED
    BY <2>2, <2>3 DEF Thread
<1>6. Acquire(t) => Becomes(Thread("check", u.flags, u.at, u.found))
  BY <1>4 DEF Acquire
<1>7. SignalRedisStoreUpdated(t) => Becomes(Thread("release", u.flags, u.at, u.found))
  BY <1>4 DEF SignalRedisStoreUpdated
<1>8. Release(t) => Becomes(Thread("ending", u.flags, u.at, u.found))
  BY <1>4 DEF Release
<1>9. EndThread(t) => Becomes(Thread("dead", {}, 1, << >>))
  BY DEF EndThread, NoThread, Thread
<1>10. UpdateStore(t) =>
         Becomes(Thread(IF u.at = 3 THEN "signal" ELSE "check", u.flags, u.at + 1, << >>))
  BY <1>2, <1>3 DEF UpdateStore
<1>11. QueryMembers(t) =>
         Becomes(Thread("write", u.flags, u.at, WithMembers(u.found, QueryResult(MemberQuery(s)))))
  <2> DEFINE found == WithMembers(u.found, QueryResult(MemberQuery(s)))
  <2>1. QueryMembers(t) => updater' = [updater EXCEPT ![t].pc = "write", ![t].found = found]
    BY <1>2 DEF QueryMembers
  <2> HIDE DEF found
  <2>2. [updater EXCEPT ![t].pc = "write", ![t].found = found] =
          [updater EXCEPT ![t] = [u EXCEPT !.pc = "write", !.found = found]]
    <3>1. PICK v : v = updater[t]
      OBVIOUS
    <3>2. [updater EXCEPT ![t].pc = "write", ![t].found = found] =
            [updater EXCEPT ![t] = [v EXCEPT !.pc = "write", !.found = found]]
      BY <1>1, <1>2, <3>1
    <3> QED
      BY <3>1, <3>2
  <2>3. [u EXCEPT !.pc = "write", !.found = found] = Thread("write", u.flags, u.at, found)
    BY <1>5
  <2> HIDE DEF u
  <2>4. QueryMembers(t) => Becomes(Thread("write", u.flags, u.at, found))
    BY <2>1, <2>2, <2>3
  <2> QED
    BY <2>4 DEF found
<1>12. CheckFlag(t) =>
         IF s \notin u.flags
         THEN Becomes(Thread(IF u.at = 3 THEN "signal" ELSE "check", u.flags, u.at + 1, << >>))
         ELSE Becomes(Thread(IF MemberQuery(s) = {} THEN "write" ELSE "members", u.flags,
                             u.at, QueryResult(FirstQuery(s))))
  <2> DEFINE pc == IF MemberQuery(s) = {} THEN "write" ELSE "members"
             found == QueryResult(FirstQuery(s))
  <2>1. CheckFlag(t) => Becomes(IF s \notin u.flags THEN NextStore(u)
                                ELSE [u EXCEPT !.pc = pc, !.found = found])
    BY DEF CheckFlag
  <2>2. [u EXCEPT !.pc = pc, !.found = found] = Thread(pc, u.flags, u.at, found)
    BY <1>5
  <2> HIDE DEF u, s, pc, found
  <2> QED
    BY <1>3, <2>1, <2>2 DEF pc, found
<1> QED
  BY <1>6, <1>7, <1>8, <1>9, <1>10, <1>11, <1>12

\* One thread changes.
LEMMA UpdaterTypeExcept ==
    ASSUME UpdaterType, NEW t \in Threads, NEW pc, NEW flags \in SUBSET Stores, NEW at \in 1..Done,
           NEW found, updater' = [updater EXCEPT ![t] = Thread(pc, flags, at, found)],
           pc \in {"dead", "waiting", "check", "members", "write", "signal", "release", "ending"}
    PROVE  UpdaterType'
<1>1. updater'[t] = [pc |-> pc, flags |-> flags, at |-> at, found |-> found]
  BY DEF UpdaterType, Thread
<1>2. \A u \in Threads \ {t} : updater'[u] = updater[u]
  BY DEF UpdaterType
<1>3. updater' = [u \in Threads |-> updater'[u]]
  BY DEF UpdaterType
<1> HIDE DEF Thread
<1>4. \A u \in Threads : updater'[u] = [pc |-> updater'[u].pc, flags |-> updater'[u].flags,
                                        at |-> updater'[u].at, found |-> updater'[u].found]
  BY <1>1, <1>2 DEF UpdaterType
<1>5. updater' = [u \in Threads |-> [pc |-> updater'[u].pc, flags |-> updater'[u].flags,
                                     at |-> updater'[u].at, found |-> updater'[u].found]]
  BY <1>3, <1>4
<1>6. \A u \in Threads :
         /\ updater'[u].pc \in {"dead", "waiting", "check", "members", "write", "signal",
                                "release", "ending"}
         /\ updater'[u].flags \subseteq Stores
         /\ updater'[u].at \in 1..Done
  BY <1>1, <1>2 DEF UpdaterType
<1> QED
  BY <1>5, <1>6 DEF UpdaterType

\* A thread at work has yet to come to the end of the stores.
LEMMA AtFacts ==
    ASSUME UpdaterType, FoundInv, NEW t \in Threads, updater[t].pc \in {"check", "members", "write"}
    PROVE  updater[t].at \in 1..3 /\ StoreOrder[updater[t].at] \in Stores
<1>1. updater[t].at \in 1..3
  BY StoreFacts DEF UpdaterType, FoundInv, FoundOK
<1> QED
  BY <1>1, StoreFacts

\* The fields of the threads after a step of one of them.
LEMMA WorkFields ==
    ASSUME UpdaterType, FoundInv, NEW t \in Threads
    PROVE  LET u == updater[t]
               s == StoreOrder[u.at]
               Becomes(pc, flags, at, found) ==
                  /\ updater'[t].pc = pc /\ updater'[t].flags = flags
                  /\ updater'[t].at = at /\ updater'[t].found = found
                  /\ \A v \in Threads \ {t} : updater'[v] = updater[v]
               Next3 == Becomes(IF u.at = 3 THEN "signal" ELSE "check", u.flags, u.at + 1, << >>)
           IN  /\ Acquire(t) => Becomes("check", u.flags, u.at, u.found)
               /\ CheckFlag(t) /\ s \notin u.flags => Next3
               /\ CheckFlag(t) /\ s \in u.flags =>
                    Becomes(IF MemberQuery(s) = {} THEN "write" ELSE "members", u.flags,
                            u.at, QueryResult(FirstQuery(s)))
               /\ QueryMembers(t) =>
                    Becomes("write", u.flags, u.at, WithMembers(u.found, QueryResult(MemberQuery(s))))
               /\ UpdateStore(t) => Next3
               /\ SignalRedisStoreUpdated(t) => Becomes("release", u.flags, u.at, u.found)
               /\ Release(t) => Becomes("ending", u.flags, u.at, u.found)
               /\ EndThread(t) => Becomes("dead", {}, 1, << >>)
<1>1. ASSUME NEW pc, NEW flags, NEW at, NEW found,
             updater' = [updater EXCEPT ![t] = Thread(pc, flags, at, found)]
      PROVE  /\ updater'[t].pc = pc /\ updater'[t].flags = flags
             /\ updater'[t].at = at /\ updater'[t].found = found
             /\ \A v \in Threads \ {t} : updater'[v] = updater[v]
  <2>1. updater'[t] = [pc |-> pc, flags |-> flags, at |-> at, found |-> found]
    BY <1>1 DEF UpdaterType, Thread
  <2>2. \A v \in Threads \ {t} : updater'[v] = updater[v]
    BY <1>1 DEF UpdaterType
  <2> QED
    BY <2>1, <2>2
<1> HIDE DEF Thread
<1> DEFINE u == updater[t]
           s == StoreOrder[u.at]
           Becomes(pc, flags, at, found) ==
              /\ updater'[t].pc = pc /\ updater'[t].flags = flags
              /\ updater'[t].at = at /\ updater'[t].found = found
              /\ \A v \in Threads \ {t} : updater'[v] = updater[v]
           after == IF u.at = 3 THEN "signal" ELSE "check"
<1>2. Acquire(t) => Becomes("check", u.flags, u.at, u.found)
  BY <1>1, WorkFacts
<1>3. CheckFlag(t) /\ s \notin u.flags => Becomes(after, u.flags, u.at + 1, << >>)
  <2> SUFFICES ASSUME CheckFlag(t), s \notin u.flags PROVE Becomes(after, u.flags, u.at + 1, << >>)
    OBVIOUS
  <2>1. updater' = [updater EXCEPT ![t] = Thread(after, u.flags, u.at + 1, << >>)]
    BY WorkFacts
  <2> HIDE DEF after, u, s
  <2> QED
    BY <1>1, <2>1
<1>4. CheckFlag(t) /\ s \in u.flags =>
        Becomes(IF MemberQuery(s) = {} THEN "write" ELSE "members", u.flags, u.at,
                QueryResult(FirstQuery(s)))
  <2> DEFINE pc == IF MemberQuery(s) = {} THEN "write" ELSE "members"
             found == QueryResult(FirstQuery(s))
  <2> SUFFICES ASSUME CheckFlag(t), s \in u.flags PROVE Becomes(pc, u.flags, u.at, found)
    OBVIOUS
  <2>1. updater' = [updater EXCEPT ![t] = Thread(pc, u.flags, u.at, found)]
    BY WorkFacts
  <2> HIDE DEF pc, found, u, s
  <2> QED
    BY <1>1, <2>1
<1>5. QueryMembers(t) =>
        Becomes("write", u.flags, u.at, WithMembers(u.found, QueryResult(MemberQuery(s))))
  BY <1>1, WorkFacts
<1>6. UpdateStore(t) => Becomes(after, u.flags, u.at + 1, << >>)
  BY <1>1, WorkFacts
<1>7. SignalRedisStoreUpdated(t) => Becomes("release", u.flags, u.at, u.found)
  BY <1>1, WorkFacts
<1>8. Release(t) => Becomes("ending", u.flags, u.at, u.found)
  BY <1>1, WorkFacts
<1>9. EndThread(t) => Becomes("dead", {}, 1, << >>)
  BY <1>1, WorkFacts
<1> QED
  BY <1>2, <1>3, <1>4, <1>5, <1>6, <1>7, <1>8, <1>9

\* Every step keeps the types of the reload threads.
LEMMA UpdaterTypeNext == TypeOK /\ LockInv /\ SpareInv /\ FoundInv /\ [Next]_vars => UpdaterType'
<1> SUFFICES ASSUME TypeOK, LockInv, SpareInv, FoundInv, [Next]_vars PROVE UpdaterType'
  OBVIOUS
<1>0. ManagerType /\ UpdaterType
  BY DEF TypeOK
<1>1. ASSUME UNCHANGED updater PROVE UpdaterType'
  BY <1>0, <1>1 DEF UpdaterType
<1>2. ASSUME NEW stores \in SUBSET Stores, PerformReload(Main, updater, stores) PROVE UpdaterType'
  BY <1>0, <1>2, ReloadFacts DEF UpdaterType, Thread
<1>3. ASSUME NEW p \in Callers, StartThread(p) PROVE UpdaterType'
  <2>1. PICK new \in Threads :
          /\ updater' = [updater EXCEPT ![new] = Thread("waiting", calls[p].stores, 1, << >>)]
          /\ calls[p] \in Call
    BY <1>0, <1>3, StartFacts
  <2>2. calls[p].stores \in SUBSET Stores /\ 1 \in 1..Done
    BY <2>1, StoreFacts DEF Call
  <2> QED
    BY <1>0, <2>1, <2>2, UpdaterTypeExcept
<1>4. ASSUME NEW t \in Threads, Updater(t) PROVE UpdaterType'
  <2>1. updater[t].flags \in SUBSET Stores /\ updater[t].at \in 1..Done /\ {} \in SUBSET Stores
    BY <1>0 DEF UpdaterType
  <2>2. CASE Acquire(t)
    <3>1. updater' = [updater EXCEPT ![t] =
              Thread("check", updater[t].flags, updater[t].at, updater[t].found)]
      BY <1>0, <2>2, WorkFacts
    <3> QED
      BY <1>0, <2>1, <3>1, UpdaterTypeExcept
  <2>3. CASE CheckFlag(t)
    <3>1. updater[t].at \in 1..3 /\ updater[t].at + 1 \in 1..Done
      BY <1>0, <2>3, AtFacts, StoreFacts DEF CheckFlag
    <3>2. CASE StoreOrder[updater[t].at] \notin updater[t].flags
      <4>1. updater' = [updater EXCEPT ![t] =
              Thread(IF updater[t].at = 3 THEN "signal" ELSE "check", updater[t].flags,
                     updater[t].at + 1, << >>)]
        BY <1>0, <2>3, <3>2, WorkFacts
      <4> QED
        BY <1>0, <2>1, <3>1, <4>1, UpdaterTypeExcept
    <3>3. CASE StoreOrder[updater[t].at] \in updater[t].flags
      <4>1. updater' = [updater EXCEPT ![t] =
              Thread(IF MemberQuery(StoreOrder[updater[t].at]) = {} THEN "write" ELSE "members",
                     updater[t].flags, updater[t].at, QueryResult(FirstQuery(StoreOrder[updater[t].at])))]
        BY <1>0, <2>3, <3>3, WorkFacts
      <4> QED
        BY <1>0, <2>1, <4>1, UpdaterTypeExcept
    <3> QED
      BY <3>2, <3>3
  <2>4. CASE QueryMembers(t)
    <3>1. updater' = [updater EXCEPT ![t] =
              Thread("write", updater[t].flags, updater[t].at,
                     WithMembers(updater[t].found, QueryResult(MemberQuery(StoreOrder[updater[t].at]))))]
      BY <1>0, <2>4, WorkFacts
    <3> QED
      BY <1>0, <2>1, <3>1, UpdaterTypeExcept
  <2>5. CASE UpdateStore(t)
    <3>1. updater[t].at \in 1..3 /\ updater[t].at + 1 \in 1..Done
      BY <1>0, <2>5, AtFacts, StoreFacts DEF UpdateStore
    <3>2. updater' = [updater EXCEPT ![t] =
              Thread(IF updater[t].at = 3 THEN "signal" ELSE "check", updater[t].flags,
                     updater[t].at + 1, << >>)]
      BY <1>0, <2>5, WorkFacts
    <3> QED
      BY <1>0, <2>1, <3>1, <3>2, UpdaterTypeExcept
  <2>6. CASE SignalRedisStoreUpdated(t)
    <3>1. updater' = [updater EXCEPT ![t] =
              Thread("release", updater[t].flags, updater[t].at, updater[t].found)]
      BY <1>0, <2>6, WorkFacts
    <3> QED
      BY <1>0, <2>1, <3>1, UpdaterTypeExcept
  <2>7. CASE Release(t)
    <3>1. updater' = [updater EXCEPT ![t] =
              Thread("ending", updater[t].flags, updater[t].at, updater[t].found)]
      BY <1>0, <2>7, WorkFacts
    <3> QED
      BY <1>0, <2>1, <3>1, UpdaterTypeExcept
  <2>8. CASE EndThread(t)
    <3>1. updater' = [updater EXCEPT ![t] = Thread("dead", {}, 1, << >>)] /\ 1 \in 1..Done
      BY <1>0, <2>8, WorkFacts, StoreFacts
    <3> QED
      BY <1>0, <2>1, <3>1, UpdaterTypeExcept
  <2>9. CASE CountThreads(t)
    BY <1>1, <2>9 DEF CountThreads
  <2>10. CASE StartThread(t)
    BY <1>3, <2>10 DEF Callers
  <2> QED
    BY <1>4, <2>2, <2>3, <2>4, <2>5, <2>6, <2>7, <2>8, <2>9, <2>10 DEF Updater
<1>5. CASE Transactions
  BY <1>1, <1>5 DEF Transactions, Commit, SignalReload, LoseSignal, managerVars
<1>6. CASE Manager
  <2>1. CASE InitialReload
    BY <1>2, <2>1 DEF InitialReload
  <2>2. CASE ReceiveMessage
    <3>1. Head(inbox) \in SUBSET Stores
      BY <1>0, <2>2 DEF ReceiveMessage, ManagerType
    <3> QED
      BY <1>1, <1>2, <2>2, <3>1 DEF ReceiveMessage
  <2>3. CASE ClearExistingData \/ Subscribe \/ CountThreads(Main)
    BY <1>1, <2>3 DEF ClearExistingData, Subscribe, CountThreads
  <2> QED
    BY <1>3, <1>6, <2>1, <2>2, <2>3 DEF Manager, Callers
<1>7. ASSUME NEW w \in Workers, Worker(w) \/ LoseWorkerConnection(w) PROVE UpdaterType'
  BY <1>1, <1>7 DEF Worker, SubscribeWorker, StartLoading, LoadStore, LoseWorkerConnection, managerVars
<1>8. ASSUME NEW t \in Threads, PreloadUpdateError(t) \/ UpdateException(t) PROVE UpdaterType'
  BY <1>0, <1>8, ErrorFacts DEF UpdaterType, Thread
<1>9. CASE LoseManagerConnection \/ UNCHANGED vars
  BY <1>1, <1>9 DEF LoseManagerConnection, vars, managerVars
<1> QED
  BY <1>4, <1>5, <1>6, <1>7, <1>8, <1>9 DEF Next, Errors

\* The steps of a query process.
WorkerState(pc, in, at, found) == [pc |-> pc, inbox |-> in, at |-> at, found |-> found]

\* What each step of a query process makes of its state.
LEMMA WorkerFacts ==
    ASSUME StoresType, WorkerType, NEW w \in Workers
    PROVE  LET v == worker[w]
               s == StoreOrder[v.at]
               Becomes(x) == worker' = [worker EXCEPT ![w] = x]
           IN  /\ s \in Stores /\ CopyOK(Loaded(w)) /\ Loaded(w) = [v.found EXCEPT ![s] = redis[s]]
               /\ SubscribeWorker(w) => Becomes(WorkerState("listening", v.inbox, v.at, v.found))
               /\ StartLoading(w) => Becomes(WorkerState("loading", v.inbox - 1, 1, v.found))
               /\ LoadStore(w) /\ v.at = 3 => Becomes(WorkerState("listening", v.inbox, 1, NothingFound))
               /\ LoadStore(w) /\ v.at # 3 => Becomes(WorkerState("loading", v.inbox, v.at + 1, Loaded(w)))
               /\ LoseWorkerConnection(w) => Becomes(WorkerState("off", 0, 1, NothingFound))
<1> DEFINE v == worker[w]
           s == StoreOrder[v.at]
           Becomes(x) == worker' = [worker EXCEPT ![w] = x]
<1>1. v = WorkerState(v.pc, v.inbox, v.at, v.found)
  BY DEF WorkerType, WorkerState
<1>2. worker = [x \in Workers |-> worker[x]]
  BY DEF WorkerType
<1>3. v.at \in 1..3 /\ s \in Stores
  BY StoreFacts DEF WorkerType
<1>4. Loaded(w) = [v.found EXCEPT ![s] = redis[s]]
  BY DEF Loaded
<1>5. CopyOK(Loaded(w))
  BY <1>3, <1>4 DEF CopyOK, WorkerType, StoresType
<1>6. SubscribeWorker(w) => Becomes(WorkerState("listening", v.inbox, v.at, v.found))
  <2>1. [worker EXCEPT ![w].pc = "listening"] = [worker EXCEPT ![w] = [v EXCEPT !.pc = "listening"]]
    BY <1>2
  <2>2. SubscribeWorker(w) => worker' = [worker EXCEPT ![w].pc = "listening"]
    BY DEF SubscribeWorker
  <2> HIDE DEF v
  <2>3. [v EXCEPT !.pc = "listening"] = WorkerState("listening", v.inbox, v.at, v.found)
    BY <1>1 DEF WorkerState
  <2> QED
    BY <2>1, <2>2, <2>3
<1>7. StartLoading(w) => Becomes(WorkerState("loading", v.inbox - 1, 1, v.found))
  <2>1. StartLoading(w) => worker' = [worker EXCEPT ![w] = WorkerState("loading", @.inbox - 1, 1, @.found)]
    BY <1>1, <1>2 DEF StartLoading, WorkerState
  <2> QED
    BY <1>2, <2>1
<1>8. LoadStore(w) /\ v.at = 3 => Becomes(WorkerState("listening", v.inbox, 1, NothingFound))
  BY <1>2, StoreFacts DEF LoadStore, WorkerState
<1>9. LoadStore(w) /\ v.at # 3 => Becomes(WorkerState("loading", v.inbox, v.at + 1, Loaded(w)))
  BY <1>2, <1>3, StoreFacts DEF LoadStore, WorkerState
<1>10. LoseWorkerConnection(w) => Becomes(WorkerState("off", 0, 1, NothingFound))
  BY DEF LoseWorkerConnection, WorkerState
<1> QED
  BY <1>3, <1>4, <1>5, <1>6, <1>7, <1>8, <1>9, <1>10

\* Every step keeps the types of the query processes.
LEMMA WorkerTypeNext == TypeOK /\ [Next]_vars => WorkerType'
<1> SUFFICES ASSUME TypeOK, [Next]_vars PROVE WorkerType'
  OBVIOUS
<1>0. StoresType /\ WorkerType
  BY DEF TypeOK
<1>1. ASSUME UNCHANGED <<worker, memory>> PROVE WorkerType'
  BY <1>0, <1>1 DEF WorkerType
<1>2. ASSUME NEW w \in Workers, NEW pc \in {"off", "listening", "loading"}, NEW in \in Nat,
             NEW at \in 1..3, NEW found, CopyOK(found),
             worker' = [worker EXCEPT ![w] = WorkerState(pc, in, at, found)],
             memory' = memory \/ (memory' = [memory EXCEPT ![w] = Loaded(w)] /\ CopyOK(Loaded(w)))
      PROVE  WorkerType'
  <2>1. worker'[w] = [pc |-> pc, inbox |-> in, at |-> at, found |-> found]
    BY <1>0, <1>2 DEF WorkerType, WorkerState
  <2>2. \A v \in Workers \ {w} : worker'[v] = worker[v]
    BY <1>0, <1>2 DEF WorkerType
  <2>3. worker' = [v \in Workers |-> worker'[v]]
    BY <1>0, <1>2 DEF WorkerType
  <2>4. \A v \in Workers : worker'[v] = [pc |-> worker'[v].pc, inbox |-> worker'[v].inbox,
                                         at |-> worker'[v].at, found |-> worker'[v].found]
    BY <1>0, <2>1, <2>2 DEF WorkerType
  <2>5. \A v \in Workers :
         /\ worker'[v].pc \in {"off", "listening", "loading"}
         /\ worker'[v].inbox \in Nat
         /\ worker'[v].at \in 1..Len(StoreOrder)
         /\ CopyOK(worker'[v].found)
    BY <1>0, <1>2, <2>1, <2>2, StoreFacts DEF WorkerType
  <2>6. /\ memory' = [v \in Workers |-> memory'[v]]
        /\ \A v \in Workers : memory'[v] = None \/ CopyOK(memory'[v])
    BY <1>0, <1>2 DEF WorkerType
  <2>7. worker' = [v \in Workers |-> [pc |-> worker'[v].pc, inbox |-> worker'[v].inbox,
                                      at |-> worker'[v].at, found |-> worker'[v].found]]
    BY <2>3, <2>4
  <2> QED
    BY <2>5, <2>6, <2>7 DEF WorkerType
<1>3. CopyOK(NothingFound)
  BY DEF CopyOK, NothingFound
<1>4. ASSUME NEW w \in Workers, Worker(w) \/ LoseWorkerConnection(w) PROVE WorkerType'
  <2>1. /\ worker[w].pc \in {"off", "listening", "loading"} /\ worker[w].inbox \in Nat
        /\ worker[w].at \in 1..3 /\ CopyOK(worker[w].found) /\ CopyOK(Loaded(w))
    BY <1>0, StoreFacts, WorkerFacts DEF WorkerType
  <2>7. "off" \in {"off", "listening", "loading"} /\ "listening" \in {"off", "listening", "loading"}
        /\ "loading" \in {"off", "listening", "loading"} /\ 0 \in Nat /\ 1 \in 1..3
    OBVIOUS
  <2>2. CASE SubscribeWorker(w)
    <3>1. worker' = [worker EXCEPT ![w] = WorkerState("listening", worker[w].inbox, worker[w].at,
                                                      worker[w].found)]
      BY <1>0, <2>2, WorkerFacts
    <3>2. memory' = memory
      BY <2>2 DEF SubscribeWorker
    <3> QED
      BY <1>2, <2>1, <2>7, <3>1, <3>2
  <2>3. CASE StartLoading(w)
    <3>1. worker' = [worker EXCEPT ![w] = WorkerState("loading", worker[w].inbox - 1, 1, worker[w].found)]
      BY <1>0, <2>3, WorkerFacts
    <3>2. worker[w].inbox - 1 \in Nat /\ memory' = memory
      BY <2>1, <2>3 DEF StartLoading
    <3> QED
      BY <1>2, <2>1, <2>7, <3>1, <3>2
  <2>4. CASE LoadStore(w) /\ worker[w].at = 3
    <3>1. worker' = [worker EXCEPT ![w] = WorkerState("listening", worker[w].inbox, 1, NothingFound)]
      BY <1>0, <2>4, WorkerFacts
    <3>2. memory' = [memory EXCEPT ![w] = Loaded(w)]
      BY <2>4, StoreFacts DEF LoadStore
    <3> QED
      BY <1>2, <1>3, <2>1, <2>7, <3>1, <3>2
  <2>5. CASE LoadStore(w) /\ worker[w].at # 3
    <3>1. worker' = [worker EXCEPT ![w] = WorkerState("loading", worker[w].inbox, worker[w].at + 1, Loaded(w))]
      BY <1>0, <2>5, WorkerFacts
    <3>2. memory' = memory /\ worker[w].at + 1 \in 1..3
      BY <2>1, <2>5, StoreFacts DEF LoadStore
    <3> QED
      BY <1>2, <2>1, <2>7, <3>1, <3>2
  <2>6. CASE LoseWorkerConnection(w)
    <3>1. worker' = [worker EXCEPT ![w] = WorkerState("off", 0, 1, NothingFound)]
      BY <1>0, <2>6, WorkerFacts
    <3>2. memory' = memory
      BY <2>6 DEF LoseWorkerConnection
    <3> QED
      BY <1>2, <1>3, <2>7, <3>1, <3>2
  <2> QED
    BY <1>4, <2>2, <2>3, <2>4, <2>5, <2>6 DEF Worker
<1>5. ASSUME NEW t \in Threads, SignalRedisStoreUpdated(t) PROVE WorkerType'
  <2>1. /\ worker' = [w \in Workers |-> IF worker[w].pc = "off" THEN worker[w]
                                        ELSE [worker[w] EXCEPT !.inbox = @ + 1]]
        /\ memory' = memory
    BY <1>5 DEF SignalRedisStoreUpdated
  <2>2. \A w \in Workers :
          worker'[w] = [pc |-> worker[w].pc, at |-> worker[w].at, found |-> worker[w].found,
                        inbox |-> IF worker[w].pc = "off" THEN worker[w].inbox ELSE worker[w].inbox + 1]
    BY <1>0, <2>1 DEF WorkerType
  <2> QED
    BY <1>0, <2>1, <2>2 DEF WorkerType
<1>6. CASE Transactions
  BY <1>1, <1>6 DEF Transactions, Commit, SignalReload, LoseSignal, workerVars
<1>7. CASE Manager
  BY <1>1, <1>7 DEF Manager, ClearExistingData, InitialReload, Subscribe, ReceiveMessage,
    CountThreads, StartThread, workerVars
<1>8. ASSUME NEW t \in Threads, Updater(t) PROVE WorkerType'
  BY <1>1, <1>5, <1>8 DEF Updater, CountThreads, StartThread, Acquire, CheckFlag, QueryMembers,
    UpdateStore, Release, EndThread, workerVars
<1>9. ASSUME NEW t \in Threads, PreloadUpdateError(t) \/ UpdateException(t) PROVE WorkerType'
  BY <1>1, <1>9 DEF PreloadUpdateError, UpdateException, workerVars
<1>10. CASE LoseManagerConnection \/ UNCHANGED vars
  BY <1>1, <1>10 DEF LoseManagerConnection, vars, workerVars
<1> QED
  BY <1>4, <1>6, <1>7, <1>8, <1>9, <1>10 DEF Next, Errors

-----------------------------------------------------------------------------
(* The lock and the list of threads. *)

\* The manager and the threads are different callers.
LEMMA CallerFacts == Callers = Threads \union {Main} /\ Main \notin Threads /\ Threads = {1, 2, 3}
  BY DEF Callers, Main, Threads

\* Every step keeps the lock with one thread.
LEMMA LockNext == TypeOK /\ LockInv /\ SpareInv /\ FoundInv /\ [Next]_vars => LockInv'
<1> SUFFICES ASSUME TypeOK, LockInv, SpareInv, FoundInv, [Next]_vars PROVE LockInv'
  OBVIOUS
<1>0. ManagerType /\ UpdaterType
  BY DEF TypeOK
<1> HIDE DEF Threads
<1>1. ASSUME UNCHANGED <<lock, threads>>,
             \A t \in Threads : updater'[t].pc = updater[t].pc /\ (calls'[t] # None => lock = t)
      PROVE  LockInv'
  BY <1>0, <1>1 DEF LockInv, Alive
<1>2. ASSUME NEW stores \in SUBSET Stores, PerformReload(Main, updater, stores),
             UNCHANGED <<lock, threads>>
      PROVE  LockInv'
  <2>1. \A t \in Threads : updater'[t].pc = updater[t].pc /\ calls'[t] = calls[t]
    BY <1>0, <1>2, ReloadFacts, CallerFacts DEF Thread, ManagerType
  <2> QED
    BY <1>1, <1>2, <2>1 DEF LockInv
<1>3. ASSUME NEW p \in Callers, CountThreads(p) PROVE LockInv'
  <2>1. UNCHANGED <<updater, lock>> /\ threads' = RemoveDead
    BY <1>3 DEF CountThreads
  <2>2. \A q \in Callers : calls'[q] # None => calls[q] # None
    BY <1>0, <1>3 DEF CountThreads, ManagerType
  <2>3. /\ \A t \in Range(threads) : Alive(t) => t \in Range(threads')
        /\ Distinct(threads) => Distinct(threads')
    BY <1>0, <2>1, RemoveDeadFacts DEF ManagerType
  <2> QED
    BY <2>1, <2>2, <2>3, CallerFacts DEF LockInv, Alive
<1>4. ASSUME NEW p \in Callers, StartThread(p) PROVE LockInv'
  <2>1. PICK new \in Threads :
             /\ new \notin Range(threads) /\ updater[new].pc = "dead"
             /\ threads' = Append(threads, new)
             /\ updater' = [updater EXCEPT ![new] = Thread("waiting", calls[p].stores, 1, << >>)]
             /\ calls' = [calls EXCEPT ![p] = None]
    BY <1>0, <1>4, StartFacts
  <2>2. lock' = lock
    BY <1>4 DEF StartThread
  <2>3. /\ Range(threads') = Range(threads) \union {new}
        /\ Distinct(threads')
    <3>1. /\ DOMAIN threads' = 1..Len(threads) + 1 /\ threads'[Len(threads) + 1] = new
          /\ DOMAIN threads = 1..Len(threads) /\ Len(threads) \in Nat
          /\ \A i \in 1..Len(threads) : threads'[i] = threads[i]
      BY <1>0, <2>1 DEF ManagerType
    <3> QED
      BY <2>1, <3>1 DEF LockInv, Distinct, Range
  <2>4. /\ updater'[new].pc = "waiting"
        /\ \A t \in Threads \ {new} : updater'[t] = updater[t]
    BY <1>0, <2>1 DEF UpdaterType, Thread
  <2>5. \A q \in Callers : calls'[q] # None => calls[q] # None
    BY <1>0, <2>1 DEF ManagerType
  <2>6. \A t \in Threads : updater'[t].pc \in Busy <=> lock' = t
    BY <2>1, <2>2, <2>4 DEF LockInv, Busy
  <2>7. \A t \in Threads : Alive(t)' => t \in Range(threads')
    BY <2>3, <2>4 DEF LockInv, Alive
  <2> QED
    BY <2>2, <2>3, <2>5, <2>6, <2>7, CallerFacts DEF LockInv
<1>5. ASSUME NEW t \in Threads, calls[t] = None,
             Acquire(t) \/ CheckFlag(t) \/ QueryMembers(t) \/ UpdateStore(t)
             \/ SignalRedisStoreUpdated(t) \/ Release(t) \/ EndThread(t)
      PROVE  LockInv'
  <2>1. UNCHANGED <<calls, threads>>
    BY <1>5 DEF Acquire, CheckFlag, QueryMembers, UpdateStore, SignalRedisStoreUpdated, Release, EndThread
  <2>2. \A u \in Threads \ {t} : updater'[u] = updater[u]
    BY <1>0, <1>5, WorkFields
  <2>3. CASE Acquire(t)
    <3>1. updater'[t].pc = "check" /\ updater[t].pc = "waiting"
      BY <1>0, <2>3, WorkFields DEF Acquire
    <3>2. lock = None /\ lock' = t
      BY <2>3 DEF Acquire
    <3> QED
      BY <2>1, <2>2, <3>1, <3>2, NoneAssumption DEF LockInv, Alive, Busy
  <2>4. CASE CheckFlag(t) \/ QueryMembers(t) \/ UpdateStore(t) \/ SignalRedisStoreUpdated(t)
    <3>1. updater[t].pc \in Busy /\ lock' = lock
      BY <2>4 DEF Busy, CheckFlag, QueryMembers, UpdateStore, SignalRedisStoreUpdated
    <3>2. updater'[t].pc \in Busy
      BY <1>0, <2>4, WorkFields DEF Busy
    <3> QED
      BY <2>1, <2>2, <3>1, <3>2 DEF LockInv, Alive, Busy
  <2>5. CASE Release(t)
    <3>1. updater'[t].pc = "ending" /\ updater[t].pc = "release" /\ lock' = None
      BY <1>0, <2>5, WorkFields DEF Release
    <3> QED
      BY <1>5, <2>1, <2>2, <3>1, NoneAssumption DEF LockInv, Alive, Busy
  <2>6. CASE EndThread(t)
    <3>1. updater'[t].pc = "dead" /\ updater[t].pc = "ending" /\ lock' = lock
      BY <1>0, <2>6, WorkFields DEF EndThread
    <3> QED
      BY <2>1, <2>2, <3>1 DEF LockInv, Alive, Busy
  <2> QED
    BY <1>5, <2>3, <2>4, <2>5, <2>6
<1>6. ASSUME NEW t \in Threads, PreloadUpdateError(t) \/ UpdateException(t) PROVE LockInv'
  <2>1. /\ updater[t].pc \in Busy /\ updater'[t].pc \in Busy
        /\ \A u \in Threads \ {t} : updater'[u].pc = updater[u].pc
        /\ calls' = [calls EXCEPT ![t] = [stores |-> Stores, pc |-> "count"]]
        /\ UNCHANGED <<threads, lock>>
    BY <1>0, <1>6, ErrorFacts DEF Busy
  <2>2. \A u \in Threads \ {t} : calls'[u] = calls[u]
    BY <1>0, <2>1, CallerFacts DEF ManagerType
  <2> QED
    BY <2>1, <2>2 DEF LockInv, Alive, Busy
<1>7. ASSUME UNCHANGED <<updater, lock, calls, threads>> PROVE LockInv'
  BY <1>1, <1>7 DEF LockInv
<1>8. CASE Transactions
  BY <1>7, <1>8 DEF Transactions, Commit, SignalReload, LoseSignal, managerVars
<1>9. CASE Manager
  <2>1. CASE InitialReload
    BY <1>2, <2>1 DEF InitialReload
  <2>2. CASE ReceiveMessage
    <3>1. Head(inbox) \in SUBSET Stores
      BY <1>0, <2>2 DEF ReceiveMessage, ManagerType
    <3> QED
      BY <1>2, <1>7, <2>2, <3>1 DEF ReceiveMessage
  <2>3. CASE ClearExistingData \/ Subscribe
    BY <1>7, <2>3 DEF ClearExistingData, Subscribe
  <2> QED
    BY <1>3, <1>4, <1>9, <2>1, <2>2, <2>3, CallerFacts DEF Manager
<1>10. ASSUME NEW t \in Threads, Updater(t) PROVE LockInv'
  BY <1>3, <1>4, <1>5, <1>10, CallerFacts DEF Updater
<1>11. ASSUME NEW w \in Workers, Worker(w) \/ LoseWorkerConnection(w) PROVE LockInv'
  BY <1>7, <1>11 DEF Worker, SubscribeWorker, StartLoading, LoadStore, LoseWorkerConnection, managerVars
<1>12. CASE LoseManagerConnection \/ UNCHANGED vars
  BY <1>7, <1>12 DEF LoseManagerConnection, vars, managerVars
<1> QED
  BY <1>6, <1>8, <1>9, <1>10, <1>11, <1>12 DEF Next, Errors

\* Only the manager and the thread with the lock can be about to start a thread.
LEMMA SpareNext == TypeOK /\ LockInv /\ SpareInv /\ FoundInv /\ [Next]_vars => SpareInv'
<1> SUFFICES ASSUME TypeOK, LockInv, SpareInv, FoundInv, [Next]_vars PROVE SpareInv'
  OBVIOUS
<1>0. ManagerType /\ UpdaterType
  BY DEF TypeOK
<1>1. ASSUME \A p \in Callers : Starting(p)' => Starting(p), Range(threads') \subseteq Range(threads)
      PROVE  SpareInv'
  BY <1>1 DEF SpareInv
<1>2. ASSUME NEW p \in Callers, NEW stores,
             calls' = [calls EXCEPT ![p] = [stores |-> stores, pc |-> "count"]], UNCHANGED threads
      PROVE  SpareInv'
  <2>1. \A q \in Callers : Starting(q)' => Starting(q)
    BY <1>0, <1>2 DEF Starting, ManagerType
  <2> QED
    BY <1>1, <1>2, <2>1
<1>3. ASSUME NEW p \in Callers, CountThreads(p) PROVE SpareInv'
  <2>1. threads' = RemoveDead /\ RemoveDead \in Seq(Threads) /\ Range(threads') \subseteq Range(threads)
    BY <1>0, <1>3, RemoveDeadFacts DEF CountThreads, ManagerType
  <2>2. CASE Len(RemoveDead) > 1
    <3>1. calls' = [calls EXCEPT ![p] = None]
      BY <1>3, <2>2 DEF CountThreads
    <3>2. \A q \in Callers : Starting(q)' => Starting(q)
      BY <1>0, <3>1 DEF Starting, ManagerType
    <3> QED
      BY <1>1, <2>1, <3>2
  <2>3. CASE ~(Len(RemoveDead) > 1)
    <3>1. \E x : Range(threads') \subseteq {x}
      <4>1. DOMAIN threads' \subseteq {1}
        BY <2>1, <2>3
      <4> QED
        BY <4>1 DEF Range
    <3>2. \E t, u \in Threads \ Range(threads') : t # u
      BY <3>1, CallerFacts
    <3> QED
      BY <3>2 DEF SpareInv
  <2> QED
    BY <2>2, <2>3
<1>4. ASSUME NEW p \in Callers, StartThread(p) PROVE SpareInv'
  <2>1. PICK new \in Threads :
             /\ threads' = Append(threads, new)
             /\ calls' = [calls EXCEPT ![p] = None]
             /\ calls[p] # None /\ calls[p].pc = "start"
    BY <1>0, <1>4, StartFacts
  <2>2. Range(threads') = Range(threads) \union {new}
    <3>1. /\ DOMAIN threads' = 1..Len(threads) + 1 /\ threads'[Len(threads) + 1] = new
          /\ DOMAIN threads = 1..Len(threads) /\ Len(threads) \in Nat
          /\ \A i \in 1..Len(threads) : threads'[i] = threads[i]
      BY <1>0, <2>1 DEF ManagerType
    <3> QED
      BY <3>1 DEF Range
  <2>3. \A q \in Callers : Starting(q)' => Starting(q) /\ q # p
    BY <1>0, <2>1 DEF Starting, ManagerType
  <2>4. \A q, r \in Callers : Starting(q)' /\ Starting(r)' => q = r
    <3>1. \A q \in Callers : Starting(q) => q = Main \/ q = lock
      BY CallerFacts DEF Starting, LockInv
    <3> QED
      BY <2>1, <2>3, <3>1 DEF Starting
  <2>5. \A q \in Callers : Starting(q)' => \E t \in Threads : t \notin Range(threads')
    <3> SUFFICES ASSUME NEW q \in Callers, Starting(q)' PROVE \E t \in Threads : t \notin Range(threads')
      OBVIOUS
    <3>1. Starting(p) /\ Starting(q) /\ p # q
      BY <2>1, <2>3 DEF Starting
    <3>2. PICK t, u \in Threads \ Range(threads) : t # u
      BY <3>1 DEF SpareInv
    <3> QED
      BY <2>2, <3>2
  <2> QED
    BY <2>4, <2>5 DEF SpareInv
<1>5. ASSUME UNCHANGED <<calls, threads>> PROVE SpareInv'
  BY <1>5 DEF SpareInv, Starting
<1>6. CASE Transactions
  BY <1>5, <1>6 DEF Transactions, Commit, SignalReload, LoseSignal, managerVars
<1>7. CASE Manager
  <2>1. CASE InitialReload
    BY <1>2, <2>1, CallerFacts DEF InitialReload, PerformReload
  <2>2. CASE ReceiveMessage
    BY <1>2, <1>5, <2>2, CallerFacts DEF ReceiveMessage, PerformReload
  <2>3. CASE ClearExistingData \/ Subscribe
    BY <1>5, <2>3 DEF ClearExistingData, Subscribe
  <2> QED
    BY <1>3, <1>4, <1>7, <2>1, <2>2, <2>3, CallerFacts DEF Manager
<1>8. ASSUME NEW t \in Threads, Updater(t) PROVE SpareInv'
  <2>1. t \in Callers
    BY CallerFacts
  <2> QED
    BY <1>3, <1>4, <1>5, <1>8, <2>1 DEF Updater, Acquire, CheckFlag, QueryMembers, UpdateStore,
      SignalRedisStoreUpdated, Release, EndThread
<1>9. ASSUME NEW w \in Workers, Worker(w) \/ LoseWorkerConnection(w) PROVE SpareInv'
  BY <1>5, <1>9 DEF Worker, SubscribeWorker, StartLoading, LoadStore, LoseWorkerConnection, managerVars
<1>10. ASSUME NEW t \in Threads, PreloadUpdateError(t) \/ UpdateException(t) PROVE SpareInv'
  <2>1. t \in Callers
    BY CallerFacts
  <2> QED
    BY <1>0, <1>2, <1>10, <2>1, ErrorFacts
<1>11. CASE LoseManagerConnection \/ UNCHANGED vars
  BY <1>5, <1>11 DEF LoseManagerConnection, vars, managerVars
<1> QED
  BY <1>6, <1>7, <1>8, <1>9, <1>10, <1>11 DEF Next, Errors
-----------------------------------------------------------------------------
(* What the threads query and write. *)

\* What a thread that is about to write has queried, and what it replaces.
LEMMA FoundFacts ==
    ASSUME TypeOK, FoundInv, NEW t \in Threads, updater[t].pc \in {"members", "write"}
    PROVE  LET u == updater[t]
               s == StoreOrder[u.at]
           IN  /\ s \in Stores /\ redis[s] \in StoreType(s) \union {None}
               /\ DOMAIN u.found \subseteq FirstQuery(s) \union MemberQuery(s)
               /\ DOMAIN u.found \subseteq Classes
               /\ \A c \in DOMAIN u.found :
                    /\ u.found[c] \in Nat /\ u.found[c] <= db[c]
                    /\ redis[s] # None => redis[s][c] \in Nat /\ redis[s][c] <= u.found[c]
<1> DEFINE u == updater[t]
           s == StoreOrder[u.at]
<1>1. s \in Stores /\ redis[s] \in StoreType(s) \union {None}
  BY AtFacts DEF TypeOK, StoresType, CopyOK
<1>2. u.found \in [FirstQuery(s) -> Nat] \/ u.found \in StoreType(s)
  BY DEF FoundInv, FoundOK
<1>3. \A c \in DOMAIN u.found : u.found[c] <= db[c] /\ (redis[s] # None => redis[s][c] <= u.found[c])
  BY DEF FoundInv, FoundOK
<1> HIDE DEF u, s
<1>4. FirstQuery(s) \subseteq Classes /\ MemberQuery(s) \subseteq Classes
  BY <1>1, QueryFacts
<1>5. DOMAIN u.found \subseteq FirstQuery(s) \union MemberQuery(s) /\ \A c \in DOMAIN u.found : u.found[c] \in Nat
  BY <1>2 DEF StoreType
<1>6. \A c \in DOMAIN u.found : redis[s] # None => redis[s][c] \in Nat
  BY <1>1, <1>5 DEF StoreType
<1> QED
  BY <1>1, <1>3, <1>4, <1>5, <1>6 DEF u, s

\* Every step keeps what a thread has queried as recent as what Redis holds.
LEMMA FoundNext == TypeOK /\ LockInv /\ SpareInv /\ FoundInv /\ [Next]_vars => FoundInv'
<1> SUFFICES ASSUME TypeOK, LockInv, SpareInv, FoundInv, [Next]_vars PROVE FoundInv'
  OBVIOUS
<1>0. StoresType /\ ManagerType /\ UpdaterType
  BY DEF TypeOK
<1>1. ASSUME UNCHANGED <<db, redis>>,
             \A t \in Threads : \/ /\ updater'[t].pc = updater[t].pc
                                   /\ updater'[t].at = updater[t].at
                                   /\ updater'[t].found = updater[t].found
                                \/ updater'[t].pc \in {"signal", "release", "ending", "dead"}
                                \/ updater'[t].pc = "check" /\ updater'[t].at \in 1..3
                                \/ updater'[t].pc = "waiting" /\ updater'[t].at = 1
      PROVE  FoundInv'
  <2>1. RedisOK'
    BY <1>1 DEF FoundInv, RedisOK
  <2>2. ASSUME NEW t \in Threads PROVE FoundOK(t)'
    BY <1>1, StoreFacts DEF FoundInv, FoundOK
  <2> QED
    BY <2>1, <2>2 DEF FoundInv
<1>2. ASSUME UNCHANGED <<db, redis, updater>> PROVE FoundInv'
  BY <1>1, <1>2
<1>3. ASSUME NEW classes \in SUBSET Classes, Commit(classes) PROVE FoundInv'
  <2>1. UNCHANGED <<redis, updater>> /\ \A c \in Classes : db[c] \in Nat /\ db'[c] \in Nat /\ db[c] <= db'[c]
    BY <1>0, <1>3 DEF Commit, managerVars, StoresType
  <2>2. ASSUME NEW s \in Stores, redis[s] # None, NEW c \in DOMAIN redis[s] PROVE redis[s][c] <= db'[c]
    <3>1. redis[s] \in StoreType(s)
      BY <1>0, <2>2 DEF StoresType, CopyOK
    <3>2. c \in Classes /\ redis[s][c] \in Nat
      BY <2>2, <3>1, QueryFacts DEF StoreType
    <3> QED
      BY <2>1, <2>2, <3>2 DEF FoundInv, RedisOK
  <2>3. RedisOK'
    BY <2>1, <2>2 DEF RedisOK
  <2>4. ASSUME NEW t \in Threads PROVE FoundOK(t)'
    <3>1. CASE updater[t].pc \in {"members", "write"}
      <4>1. \A c \in DOMAIN updater[t].found : updater[t].found[c] \in Nat /\ c \in Classes
                                                /\ updater[t].found[c] <= db[c]
        BY <3>1, FoundFacts
      <4>2. \A c \in DOMAIN updater[t].found : updater[t].found[c] <= db'[c]
        BY <2>1, <4>1
      <4> QED
        BY <2>1, <4>2 DEF FoundInv, FoundOK
    <3>2. CASE updater[t].pc \notin {"members", "write"}
      BY <2>1, <3>2 DEF FoundInv, FoundOK
    <3> QED
      BY <3>1, <3>2
  <2> QED
    BY <2>3, <2>4 DEF FoundInv
<1>4. CASE ClearExistingData
  <2>1. UNCHANGED <<db, updater>> /\ redis' = [redis EXCEPT !["routes"] = None, !["asSets"] = None]
    BY <1>4 DEF ClearExistingData
  <2>2. \A s \in Stores : redis'[s] = None \/ redis'[s] = redis[s]
    BY <1>0, <2>1 DEF StoresType, CopyOK
  <2>3. RedisOK'
    BY <2>1, <2>2 DEF FoundInv, RedisOK
  <2>4. ASSUME NEW t \in Threads PROVE FoundOK(t)'
    <3>1. CASE updater[t].pc \in {"members", "write"}
      BY <2>1, <2>2, <3>1, FoundFacts DEF FoundInv, FoundOK
    <3>2. CASE updater[t].pc \notin {"members", "write"}
      BY <2>1, <3>2 DEF FoundInv, FoundOK
    <3> QED
      BY <3>1, <3>2
  <2> QED
    BY <2>3, <2>4 DEF FoundInv
<1>5. ASSUME NEW stores \in SUBSET Stores, PerformReload(Main, updater, stores), UNCHANGED <<db, redis>>
      PROVE  FoundInv'
  <2>1. \A t \in Threads : /\ updater'[t].pc = updater[t].pc /\ updater'[t].at = updater[t].at
                            /\ updater'[t].found = updater[t].found
    BY <1>0, <1>5, ReloadFacts DEF Thread
  <2> QED
    BY <1>1, <1>5, <2>1
<1>6. ASSUME NEW p \in Callers, StartThread(p) PROVE FoundInv'
  <2>1. PICK new \in Threads :
             updater' = [updater EXCEPT ![new] = Thread("waiting", calls[p].stores, 1, << >>)]
    BY <1>0, <1>6, StartFacts
  <2>2. /\ updater'[new].pc = "waiting" /\ updater'[new].at = 1
        /\ \A t \in Threads \ {new} : updater'[t] = updater[t]
    BY <1>0, <2>1 DEF UpdaterType, Thread
  <2>3. UNCHANGED <<db, redis>>
    BY <1>6 DEF StartThread
  <2> QED
    BY <1>1, <2>2, <2>3
<1>7. ASSUME NEW t \in Threads, PreloadUpdateError(t) \/ UpdateException(t) PROVE FoundInv'
  <2>1. /\ UNCHANGED <<db, redis>>
        /\ updater'[t].pc \in {"check", "signal", "release"}
        /\ updater'[t].pc = "check" => updater'[t].at \in 1..3
        /\ \A u \in Threads \ {t} : /\ updater'[u].pc = updater[u].pc /\ updater'[u].at = updater[u].at
                                     /\ updater'[u].found = updater[u].found
    BY <1>0, <1>7, ErrorFacts
  <2> QED
    BY <1>1, <2>1
<1>8. ASSUME NEW t \in Threads, NEW v, v = updater[t], CheckFlag(t) PROVE FoundInv'
  <2> DEFINE s == StoreOrder[v.at]
  <2>1. v.at \in 1..3 /\ s \in Stores /\ UNCHANGED <<db, redis>>
    BY <1>0, <1>8, AtFacts DEF CheckFlag
  <2>2. CASE s \notin v.flags
    <3>1. /\ updater'[t].pc = (IF v.at = 3 THEN "signal" ELSE "check") /\ updater'[t].at = v.at + 1
          /\ \A u \in Threads \ {t} : updater'[u] = updater[u]
      BY <1>0, <1>8, <2>2, WorkFields
    <3>2. updater'[t].pc = "signal" \/ (updater'[t].pc = "check" /\ updater'[t].at \in 1..3)
      BY <2>1, <3>1
    <3> QED
      BY <1>1, <2>1, <3>1, <3>2
  <2>3. CASE s \in v.flags
    <3>1. /\ updater'[t].pc = (IF MemberQuery(s) = {} THEN "write" ELSE "members")
          /\ updater'[t].at = v.at /\ updater'[t].found = QueryResult(FirstQuery(s))
          /\ \A u \in Threads \ {t} : updater'[u] = updater[u]
      BY <1>0, <1>8, <2>3, WorkFields
    <3> HIDE DEF s
    <3>2. /\ QueryResult(FirstQuery(s)) \in [FirstQuery(s) -> Nat]
          /\ MemberQuery(s) = {} => QueryResult(FirstQuery(s)) \in StoreType(s)
      BY <1>0, <2>1, QueryType DEF StoreType
    <3>3. \A c \in FirstQuery(s) :
             /\ QueryResult(FirstQuery(s))[c] = db[c] /\ db[c] \in Nat
             /\ redis[s] # None => redis[s][c] <= db[c]
      <4>1. \A c \in FirstQuery(s) : db[c] \in Nat /\ QueryResult(FirstQuery(s))[c] = db[c]
        BY <1>0, <2>1, QueryType DEF QueryResult
      <4>2. redis[s] # None => FirstQuery(s) \subseteq DOMAIN redis[s]
        BY <1>0, <2>1 DEF StoresType, CopyOK, StoreType
      <4> QED
        BY <2>1, <4>1, <4>2 DEF FoundInv, RedisOK
    <3>4. FoundOK(t)'
      BY <2>1, <3>1, <3>2, <3>3, StoreFacts DEF FoundOK, s
    <3>5. \A u \in Threads \ {t} : FoundOK(u)'
      BY <2>1, <3>1 DEF FoundInv, FoundOK
    <3>6. RedisOK'
      BY <2>1 DEF FoundInv, RedisOK
    <3> QED
      BY <3>4, <3>5, <3>6 DEF FoundInv
  <2> QED
    BY <2>2, <2>3
<1>9. ASSUME NEW t \in Threads, NEW v, v = updater[t], QueryMembers(t) PROVE FoundInv'
  <2> DEFINE s == StoreOrder[v.at]
             found == WithMembers(v.found, QueryResult(MemberQuery(s)))
  <2>1. v.at \in 1..3 /\ s \in Stores /\ UNCHANGED <<db, redis>> /\ v.pc = "members"
    BY <1>0, <1>9, AtFacts DEF QueryMembers
  <2>2. /\ updater'[t].pc = "write" /\ updater'[t].at = v.at /\ updater'[t].found = found
        /\ \A u \in Threads \ {t} : updater'[u] = updater[u]
    BY <1>0, <1>9, WorkFields
  <2>3. /\ v.found \in [FirstQuery(s) -> Nat]
        /\ \A c \in FirstQuery(s) : v.found[c] <= db[c] /\ (redis[s] # None => redis[s][c] <= v.found[c])
    BY <1>9, <2>1 DEF FoundInv, FoundOK
  <2> HIDE DEF s
  <2>4. /\ QueryResult(MemberQuery(s)) \in [MemberQuery(s) -> Nat]
        /\ \A c \in MemberQuery(s) : QueryResult(MemberQuery(s))[c] = db[c] /\ db[c] \in Nat
    BY <1>0, <2>1, QueryType DEF QueryResult
  <2>5. \A c \in MemberQuery(s) : redis[s] # None => redis[s][c] <= db[c]
    <3>1. redis[s] # None => MemberQuery(s) \subseteq DOMAIN redis[s]
      BY <1>0, <2>1 DEF StoresType, CopyOK, StoreType
    <3> QED
      BY <2>1, <3>1 DEF FoundInv, RedisOK
  <2>6. found = [c \in FirstQuery(s) \union MemberQuery(s) |->
                   IF c \in FirstQuery(s) THEN v.found[c] ELSE db[c]]
    BY <2>3, <2>4 DEF WithMembers
  <2> HIDE DEF found
  <2>7. /\ found \in StoreType(s)
        /\ \A c \in DOMAIN found : found[c] <= db[c] /\ (redis[s] # None => redis[s][c] <= found[c])
    BY <2>3, <2>4, <2>5, <2>6 DEF StoreType
  <2>8. FoundOK(t)'
    BY <2>1, <2>2, <2>7, StoreFacts DEF FoundOK, s
  <2>9. \A u \in Threads \ {t} : FoundOK(u)'
    BY <2>1, <2>2 DEF FoundInv, FoundOK
  <2>10. RedisOK'
    BY <2>1 DEF FoundInv, RedisOK
  <2> QED
    BY <2>8, <2>9, <2>10 DEF FoundInv
<1>10. ASSUME NEW t \in Threads, NEW v, v = updater[t], UpdateStore(t) PROVE FoundInv'
  <2> DEFINE s == StoreOrder[v.at]
  <2>1. /\ v.at \in 1..3 /\ s \in Stores /\ db' = db /\ v.pc = "write"
        /\ redis' = [redis EXCEPT ![s] = v.found]
    BY <1>0, <1>10, AtFacts DEF UpdateStore
  <2>2. /\ updater'[t].pc = (IF v.at = 3 THEN "signal" ELSE "check") /\ updater'[t].at = v.at + 1
        /\ \A u \in Threads \ {t} : updater'[u] = updater[u]
    BY <1>0, <1>10, WorkFields
  <2>3. FoundOK(t)'
    BY <2>1, <2>2, StoreFacts DEF FoundOK
  <2>4. ASSUME NEW u \in Threads \ {t} PROVE FoundOK(u)'
    <3>1. updater[u].pc \notin {"members", "write"}
      BY <1>10, <2>1, <2>4 DEF LockInv, Busy
    <3> QED
      BY <2>2, <2>4, <3>1 DEF FoundInv, FoundOK
  <2>5. RedisOK'
    <3>1. \A c \in DOMAIN v.found : v.found[c] <= db[c]
      BY <1>10, <2>1, FoundFacts
    <3>2. redis'[s] = v.found /\ \A r \in Stores \ {s} : redis'[r] = redis[r]
      BY <1>0, <2>1 DEF StoresType, CopyOK
    <3> HIDE DEF s
    <3> QED
      BY <2>1, <3>1, <3>2 DEF FoundInv, RedisOK
  <2> QED
    BY <2>3, <2>4, <2>5 DEF FoundInv
<1>11. ASSUME NEW t \in Threads, Acquire(t) PROVE FoundInv'
  <2>1. UNCHANGED <<db, redis>> /\ updater[t].at = 1
    BY <1>11 DEF Acquire, FoundInv, FoundOK
  <2>2. /\ updater'[t].pc = "check" /\ updater'[t].at = 1
        /\ \A u \in Threads \ {t} : updater'[u] = updater[u]
    BY <1>0, <1>11, <2>1, WorkFields
  <2> QED
    BY <1>1, <2>1, <2>2
<1>12. ASSUME NEW t \in Threads, SignalRedisStoreUpdated(t) \/ Release(t) \/ EndThread(t) PROVE FoundInv'
  <2>1. UNCHANGED <<db, redis>>
    BY <1>12 DEF SignalRedisStoreUpdated, Release, EndThread
  <2>2. /\ updater'[t].pc \in {"release", "ending", "dead"}
        /\ \A u \in Threads \ {t} : updater'[u] = updater[u]
    BY <1>0, <1>12, WorkFields
  <2> QED
    BY <1>1, <2>1, <2>2
<1>13. CASE Transactions
  BY <1>2, <1>3, <1>13 DEF Transactions, SignalReload, LoseSignal, managerVars
<1>14. CASE Manager
  <2>1. CASE InitialReload
    BY <1>5, <2>1 DEF InitialReload
  <2>2. CASE ReceiveMessage
    <3>1. Head(inbox) \in SUBSET Stores
      BY <1>0, <2>2 DEF ReceiveMessage, ManagerType
    <3> QED
      BY <1>2, <1>5, <2>2, <3>1 DEF ReceiveMessage
  <2>3. CASE Subscribe \/ CountThreads(Main)
    BY <1>2, <2>3 DEF CountThreads, Subscribe
  <2> QED
    BY <1>4, <1>6, <1>14, <2>1, <2>2, <2>3, CallerFacts DEF Manager
<1>15. ASSUME NEW t \in Threads, Updater(t) PROVE FoundInv'
  <2>1. CASE CountThreads(t)
    BY <1>2, <2>1 DEF CountThreads
  <2> QED
    BY <1>6, <1>8, <1>9, <1>10, <1>11, <1>12, <1>15, <2>1, CallerFacts DEF Updater
<1>16. ASSUME NEW w \in Workers, Worker(w) \/ LoseWorkerConnection(w) PROVE FoundInv'
  BY <1>2, <1>16 DEF Worker, SubscribeWorker, StartLoading, LoadStore, LoseWorkerConnection, managerVars
<1>17. CASE LoseManagerConnection \/ UNCHANGED vars
  BY <1>2, <1>17 DEF LoseManagerConnection, vars, managerVars
<1> QED
  BY <1>7, <1>13, <1>14, <1>15, <1>16, <1>17 DEF Next, Errors

-----------------------------------------------------------------------------
(* What the query processes load. *)

\* Not being older is reflexive and transitive.
LEMMA NotOlderFacts ==
    ASSUME NEW s \in Stores, NEW a \in StoreType(s) \union {None}, NEW b \in StoreType(s),
           NEW c \in StoreType(s) \union {None}
    PROVE  NotOlder(a, a) /\ (NotOlder(a, b) /\ NotOlder(b, c) => NotOlder(a, c))
<1>1. \A x \in StoreType(s) : DOMAIN x = FirstQuery(s) \union MemberQuery(s) /\ \A k \in DOMAIN x : x[k] \in Nat
  BY DEF StoreType
<1>2. NotOlder(a, a)
  <2> SUFFICES ASSUME a # None, NEW k \in DOMAIN a PROVE a[k] <= a[k]
    BY DEF NotOlder
  <2> QED
    BY <1>1
<1>3. ASSUME NotOlder(a, b), NotOlder(b, c) PROVE NotOlder(a, c)
  <2> SUFFICES ASSUME a # None, c # None, NEW k \in DOMAIN c PROVE c[k] <= a[k]
    BY DEF NotOlder
  <2>1. k \in DOMAIN b /\ a[k] \in Nat /\ b[k] \in Nat /\ c[k] \in Nat
    BY <1>1
  <2>2. b # None
    BY NoneAssumption
  <2>3. c[k] <= b[k] /\ b[k] <= a[k]
    BY <1>3, <2>1, <2>2 DEF NotOlder
  <2> QED
    BY <2>1, <2>3
<1> QED
  BY <1>2, <1>3

\* The fields of the query processes after a step of one of them.
LEMMA WorkerFields ==
    ASSUME StoresType, WorkerType, NEW w \in Workers
    PROVE  LET v == worker[w]
               Becomes(pc, in, at, found) ==
                  /\ worker'[w].pc = pc /\ worker'[w].inbox = in
                  /\ worker'[w].at = at /\ worker'[w].found = found
                  /\ \A x \in Workers \ {w} : worker'[x] = worker[x]
           IN  /\ SubscribeWorker(w) => Becomes("listening", v.inbox, v.at, v.found)
               /\ StartLoading(w) => Becomes("loading", v.inbox - 1, 1, v.found)
               /\ LoadStore(w) /\ v.at = 3 => Becomes("listening", v.inbox, 1, NothingFound)
               /\ LoadStore(w) /\ v.at # 3 => Becomes("loading", v.inbox, v.at + 1, Loaded(w))
               /\ LoseWorkerConnection(w) => Becomes("off", 0, 1, NothingFound)
<1>1. ASSUME NEW pc, NEW in, NEW at, NEW found,
             worker' = [worker EXCEPT ![w] = WorkerState(pc, in, at, found)]
      PROVE  /\ worker'[w].pc = pc /\ worker'[w].inbox = in
             /\ worker'[w].at = at /\ worker'[w].found = found
             /\ \A x \in Workers \ {w} : worker'[x] = worker[x]
  <2>1. worker'[w] = [pc |-> pc, inbox |-> in, at |-> at, found |-> found]
    BY <1>1 DEF WorkerType, WorkerState
  <2>2. \A x \in Workers \ {w} : worker'[x] = worker[x]
    BY <1>1 DEF WorkerType
  <2> QED
    BY <2>1, <2>2
<1> HIDE DEF WorkerState
<1> DEFINE v == worker[w]
           Becomes(pc, in, at, found) ==
              /\ worker'[w].pc = pc /\ worker'[w].inbox = in
              /\ worker'[w].at = at /\ worker'[w].found = found
              /\ \A x \in Workers \ {w} : worker'[x] = worker[x]
<1>2. SubscribeWorker(w) => Becomes("listening", v.inbox, v.at, v.found)
  BY <1>1, WorkerFacts
<1>3. StartLoading(w) => Becomes("loading", v.inbox - 1, 1, v.found)
  BY <1>1, WorkerFacts
<1>4. LoadStore(w) /\ v.at = 3 => Becomes("listening", v.inbox, 1, NothingFound)
  BY <1>1, WorkerFacts
<1>5. LoadStore(w) /\ v.at # 3 => Becomes("loading", v.inbox, v.at + 1, Loaded(w))
  BY <1>1, WorkerFacts
<1>6. LoseWorkerConnection(w) => Becomes("off", 0, 1, NothingFound)
  BY <1>1, WorkerFacts
<1> QED
  BY <1>2, <1>3, <1>4, <1>5, <1>6

\* What a process has just read from Redis is not newer than Redis, nor older than
\* what it had loaded before.
LEMMA LoadedFacts ==
    ASSUME TypeOK, NEW w \in Workers, MemoryOK(w)
    PROVE  /\ \A s \in Stores : Loaded(w)[s] # None => redis[s] # None /\ NotOlder(redis[s], Loaded(w)[s])
           /\ memory[w] # None =>
                \A i \in 1..worker[w].at : NotOlder(Loaded(w)[StoreOrder[i]], memory[w][StoreOrder[i]])
<1> DEFINE v == worker[w]
           s == StoreOrder[v.at]
<1>1. /\ v.at \in 1..3 /\ s \in Stores /\ Loaded(w) = [v.found EXCEPT ![s] = redis[s]]
      /\ v.found = [x \in Stores |-> v.found[x]]
  BY WorkerFacts, StoreFacts DEF TypeOK, WorkerType, CopyOK
<1>2. Loaded(w)[s] = redis[s] /\ \A x \in Stores \ {s} : Loaded(w)[x] = v.found[x]
  BY <1>1
<1>3. \A x \in Stores : redis[x] \in StoreType(x) \union {None}
  BY DEF TypeOK, StoresType, CopyOK
<1>4. NotOlder(redis[s], redis[s])
  <2>1. CASE redis[s] = None
    BY <2>1 DEF NotOlder
  <2>2. CASE redis[s] # None
    BY <1>1, <1>3, <2>2, NotOlderFacts
  <2> QED
    BY <2>1, <2>2
<1>5. \A x \in Stores : Loaded(w)[x] # None => redis[x] # None /\ NotOlder(redis[x], Loaded(w)[x])
  BY <1>2, <1>4 DEF MemoryOK
<1>6. ASSUME memory[w] # None, NEW i \in 1..v.at
      PROVE  NotOlder(Loaded(w)[StoreOrder[i]], memory[w][StoreOrder[i]])
  <2>1. CASE i = v.at
    BY <1>1, <1>2, <1>6, <2>1 DEF MemoryOK, NotOlder
  <2>2. CASE i # v.at
    <3>1. i \in 1..v.at - 1 /\ StoreOrder[i] \in Stores \ {s}
      BY <1>1, <2>2, StoreFacts
    <3> QED
      BY <1>2, <1>6, <3>1 DEF MemoryOK
  <2> QED
    BY <2>1, <2>2
<1> QED
  BY <1>5, <1>6

\* Until the manager has cleared Redis nobody else runs or has loaded anything.
LEMMA ClearNext == TypeOK /\ ClearInv /\ [Next]_vars => ClearInv'
<1> SUFFICES ASSUME TypeOK, ClearInv, manager' = "clear", [Next]_vars PROVE ClearInv'
  BY DEF ClearInv
<1>1. manager = "clear"
  BY DEF Next, Transactions, Commit, SignalReload, LoseSignal, Manager, ClearExistingData, InitialReload,
    Subscribe, ReceiveMessage, CountThreads, StartThread, Updater, Acquire, CheckFlag, QueryMembers,
    UpdateStore, SignalRedisStoreUpdated, Release, EndThread, Worker, SubscribeWorker, StartLoading,
    LoadStore, Errors, LoseManagerConnection, PreloadUpdateError, UpdateException, LoseWorkerConnection,
    managerVars, vars
<1>2. /\ \A p \in Callers : calls[p] = None
      /\ \A t \in Threads : updater[t].pc = "dead"
      /\ \A w \in Workers : /\ memory[w] = None /\ worker[w].pc # "loading" /\ worker[w].inbox = 0
                            /\ \A s \in Stores : worker[w].found[s] = None
  BY <1>1 DEF ClearInv, Alive
<1>3. CASE UNCHANGED <<calls, updater, memory, worker>>
  BY <1>2, <1>3 DEF ClearInv, Alive
<1>4. CASE Transactions \/ UNCHANGED vars
  BY <1>3, <1>4 DEF Transactions, Commit, SignalReload, LoseSignal, managerVars, workerVars, vars
<1>5. CASE Manager
  BY <1>1, <1>2, <1>5, CallerFacts DEF Manager, ClearExistingData, InitialReload, Subscribe, ReceiveMessage,
    CountThreads, StartThread
<1>6. ASSUME NEW t \in Threads, Updater(t) PROVE FALSE
  BY <1>2, <1>6, CallerFacts DEF Updater, CountThreads, StartThread, Acquire, CheckFlag, QueryMembers,
    UpdateStore, SignalRedisStoreUpdated, Release, EndThread
<1>7. ASSUME NEW t \in Threads, PreloadUpdateError(t) \/ UpdateException(t) PROVE FALSE
  BY <1>2, <1>7 DEF PreloadUpdateError, UpdateException
<1>8. CASE LoseManagerConnection
  BY <1>1, <1>8 DEF LoseManagerConnection
<1>9. ASSUME NEW w \in Workers, SubscribeWorker(w) \/ LoseWorkerConnection(w) PROVE ClearInv'
  <2>1. UNCHANGED <<calls, updater, memory>>
    BY <1>9 DEF SubscribeWorker, LoseWorkerConnection, managerVars
  <2>2. /\ worker'[w].pc # "loading" /\ worker'[w].inbox = 0
        /\ \A s \in Stores : worker'[w].found[s] = None
        /\ \A v \in Workers \ {w} : worker'[v] = worker[v]
    BY <1>2, <1>9, WorkerFields DEF TypeOK, NothingFound
  <2> QED
    BY <1>2, <2>1, <2>2 DEF ClearInv, Alive
<1>10. ASSUME NEW w \in Workers, StartLoading(w) \/ LoadStore(w) PROVE FALSE
  BY <1>2, <1>10 DEF StartLoading, LoadStore
<1> QED
  BY <1>4, <1>5, <1>6, <1>7, <1>8, <1>9, <1>10 DEF Next, Errors, Worker

\* Every step keeps what processes have loaded no newer than Redis.
LEMMA MemoryNext == TypeOK /\ FoundInv /\ MemoryInv /\ [Next]_vars => MemoryInv'
<1> SUFFICES ASSUME TypeOK, FoundInv, MemoryInv, [Next]_vars, NEW w \in Workers PROVE MemoryOK(w)'
  BY ClearNext DEF MemoryInv
<1>0. StoresType /\ UpdaterType /\ WorkerType /\ MemoryOK(w) /\ ClearInv
  BY DEF TypeOK, MemoryInv
<1>1. ASSUME UNCHANGED <<redis, memory>>, worker'[w].at \in {1, worker[w].at},
             worker'[w].found \in {NothingFound, worker[w].found},
             worker'[w].found = NothingFound => worker'[w].at = 1
      PROVE  MemoryOK(w)'
  <2>1. \A s \in Stores : NothingFound[s] = None
    BY DEF NothingFound
  <2>2. \A i \in 1..worker'[w].at - 1 : worker'[w].at = worker[w].at /\ worker'[w].found = worker[w].found
    BY <1>1
  <2>3. memory'[w] # None => \A i \in 1..worker'[w].at - 1 :
          NotOlder(worker'[w].found[StoreOrder[i]], memory'[w][StoreOrder[i]])
    BY <1>0, <1>1, <2>2 DEF MemoryOK
  <2>4. ASSUME NEW s \in Stores
        PROVE  /\ memory'[w] # None /\ memory'[w][s] # None =>
                     redis'[s] # None /\ NotOlder(redis'[s], memory'[w][s])
               /\ worker'[w].found[s] # None => redis'[s] # None /\ NotOlder(redis'[s], worker'[w].found[s])
    BY <1>0, <1>1, <2>1 DEF MemoryOK
  <2> QED
    BY <2>3, <2>4 DEF MemoryOK
<1>2. ASSUME UNCHANGED <<redis, memory, worker>> PROVE MemoryOK(w)'
  BY <1>0, <1>2 DEF MemoryOK
<1>3. CASE ClearExistingData
  <2>1. /\ UNCHANGED <<memory, worker>> /\ memory[w] = None
        /\ \A s \in Stores : worker[w].found[s] = None
    BY <1>0, <1>3 DEF ClearExistingData, workerVars, ClearInv
  <2> QED
    BY <2>1 DEF MemoryOK
<1>4. ASSUME NEW t \in Threads, UpdateStore(t) PROVE MemoryOK(w)'
  <2> DEFINE s == StoreOrder[updater[t].at]
             new == updater[t].found
  <2>1. /\ s \in Stores /\ redis' = [redis EXCEPT ![s] = new] /\ new \in StoreType(s)
        /\ UNCHANGED <<memory, worker>>
    BY <1>0, <1>4, AtFacts DEF UpdateStore, FoundInv, FoundOK, workerVars
  <2>2. NotOlder(new, redis[s]) /\ redis[s] \in StoreType(s) \union {None}
    <3>1. /\ redis[s] \in StoreType(s) \union {None}
          /\ \A c \in DOMAIN new : redis[s] # None => redis[s][c] <= new[c]
      BY <1>4, FoundFacts DEF UpdateStore
    <3> HIDE DEF new, s
    <3>2. redis[s] # None => DOMAIN redis[s] = DOMAIN new
      BY <2>1, <3>1 DEF StoreType
    <3> QED
      BY <3>1, <3>2 DEF NotOlder
  <2> HIDE DEF s, new
  <2>3. redis'[s] = new /\ new # None /\ \A r \in Stores \ {s} : redis'[r] = redis[r]
    BY <1>0, <2>1, NoneAssumption DEF StoresType, CopyOK
  <2>4. ASSUME NEW old \in StoreType(s), redis[s] # None, NotOlder(redis[s], old) PROVE NotOlder(new, old)
    BY <2>1, <2>2, <2>4, NotOlderFacts
  <2>5. /\ memory[w] # None => memory[w][s] \in StoreType(s) \union {None}
        /\ worker[w].found[s] \in StoreType(s) \union {None}
    BY <1>0, <2>1 DEF WorkerType, CopyOK
  <2>6. /\ memory[w] # None /\ memory[w][s] # None => NotOlder(new, memory[w][s])
        /\ worker[w].found[s] # None => NotOlder(new, worker[w].found[s])
    BY <1>0, <2>1, <2>4, <2>5 DEF MemoryOK
  <2> QED
    BY <1>0, <2>1, <2>3, <2>6 DEF MemoryOK
<1>5. ASSUME NEW t \in Threads, SignalRedisStoreUpdated(t) PROVE MemoryOK(w)'
  <2>1. /\ UNCHANGED <<redis, memory>>
        /\ worker' = [v \in Workers |-> IF worker[v].pc = "off" THEN worker[v]
                                         ELSE [worker[v] EXCEPT !.inbox = @ + 1]]
    BY <1>5 DEF SignalRedisStoreUpdated
  <2>2. worker'[w].at = worker[w].at /\ worker'[w].found = worker[w].found
    BY <1>0, <2>1 DEF WorkerType
  <2> QED
    BY <1>0, <2>1, <2>2 DEF MemoryOK
<1>6. ASSUME NEW x \in Workers \ {w}, Worker(x) \/ LoseWorkerConnection(x) PROVE MemoryOK(w)'
  <2>1. worker[x].at = 3 \/ worker[x].at # 3
    OBVIOUS
  <2>2. worker'[w] = worker[w]
    BY <1>0, <1>6, <2>1, WorkerFields DEF Worker
  <2>3. redis' = redis /\ memory'[w] = memory[w]
    BY <1>0, <1>6 DEF Worker, SubscribeWorker, StartLoading, LoadStore, LoseWorkerConnection, WorkerType
  <2> QED
    BY <1>0, <2>2, <2>3 DEF MemoryOK
<1>7. CASE SubscribeWorker(w) \/ StartLoading(w) \/ LoseWorkerConnection(w)
  <2>1. UNCHANGED <<redis, memory>>
    BY <1>7 DEF SubscribeWorker, StartLoading, LoseWorkerConnection
  <2>2. CASE SubscribeWorker(w)
    <3>1. worker'[w].at = worker[w].at /\ worker'[w].found = worker[w].found
      BY <1>0, <2>2, WorkerFields
    <3> QED
      BY <1>0, <2>1, <3>1 DEF MemoryOK
  <2>3. CASE StartLoading(w) \/ LoseWorkerConnection(w)
    <3>1. worker'[w].at = 1 /\ worker'[w].found \in {NothingFound, worker[w].found}
      BY <1>0, <2>3, WorkerFields
    <3> QED
      BY <1>1, <2>1, <3>1
  <2> QED
    BY <1>7, <2>2, <2>3
<1>8. CASE LoadStore(w) /\ worker[w].at = 3
  <2>1. /\ worker'[w].at = 1 /\ worker'[w].found = NothingFound
        /\ redis' = redis /\ memory'[w] = Loaded(w)
    BY <1>0, <1>8, WorkerFields, StoreFacts DEF LoadStore, WorkerType
  <2>2. \A s \in Stores : NothingFound[s] = None
    BY DEF NothingFound
  <2>3. \A s \in Stores : Loaded(w)[s] # None => redis[s] # None /\ NotOlder(redis[s], Loaded(w)[s])
    BY <1>0, LoadedFacts
  <2>4. \A i \in 1..worker'[w].at - 1 : FALSE
    BY <2>1
  <2> QED
    BY <2>1, <2>2, <2>3, <2>4 DEF MemoryOK
<1>9. CASE LoadStore(w) /\ worker[w].at # 3
  <2>1. /\ worker'[w].at = worker[w].at + 1 /\ worker'[w].found = Loaded(w)
        /\ redis' = redis /\ memory' = memory /\ worker[w].at \in 1..3
    BY <1>0, <1>9, WorkerFields, StoreFacts DEF LoadStore, WorkerType
  <2>2. /\ \A s \in Stores : Loaded(w)[s] # None => redis[s] # None /\ NotOlder(redis[s], Loaded(w)[s])
        /\ memory[w] # None =>
             \A i \in 1..worker[w].at : NotOlder(Loaded(w)[StoreOrder[i]], memory[w][StoreOrder[i]])
    BY <1>0, LoadedFacts
  <2>3. 1..worker'[w].at - 1 = 1..worker[w].at
    BY <2>1
  <2> QED
    BY <1>0, <2>1, <2>2, <2>3 DEF MemoryOK
<1>10. CASE Transactions \/ LoseManagerConnection \/ UNCHANGED vars
  BY <1>2, <1>10 DEF Transactions, Commit, SignalReload, LoseSignal, LoseManagerConnection, workerVars, vars
<1>11. CASE Manager
  BY <1>2, <1>3, <1>11 DEF Manager, InitialReload, Subscribe, ReceiveMessage, CountThreads, StartThread,
    workerVars
<1>12. ASSUME NEW t \in Threads, Updater(t) PROVE MemoryOK(w)'
  BY <1>2, <1>4, <1>5, <1>12 DEF Updater, CountThreads, StartThread, Acquire, CheckFlag, QueryMembers,
    Release, EndThread, workerVars
<1>13. ASSUME NEW t \in Threads, PreloadUpdateError(t) \/ UpdateException(t) PROVE MemoryOK(w)'
  BY <1>2, <1>13 DEF PreloadUpdateError, UpdateException, workerVars
<1>14. ASSUME NEW x \in Workers, Worker(x) \/ LoseWorkerConnection(x) PROVE MemoryOK(w)'
  BY <1>6, <1>7, <1>8, <1>9, <1>14 DEF Worker
<1> QED
  BY <1>10, <1>11, <1>12, <1>13, <1>14 DEF Next, Errors

-----------------------------------------------------------------------------

\* Every step keeps the invariant.
LEMMA PreloadNext == PreloadInv /\ [Next]_vars => PreloadInv'
  BY StoresTypeNext, ManagerTypeNext, UpdaterTypeNext, WorkerTypeNext, LockNext, SpareNext, FoundNext,
    MemoryNext DEF PreloadInv, TypeOK

\* The locking of PreloadUpdater.run(), what threads have queried and what processes have
\* loaded are consistent in every state.
THEOREM PreloadInvariant == Spec => []PreloadInv
  BY PreloadInit, PreloadNext, PTL DEF Spec

\* Answers do not go back in time, for any number of query processes, transactions,
\* errors and lost connections.
THEOREM AnswersNeverRegress == Spec => AnswersAdvance
<1> DEFINE Advance == \A w \in Workers, s \in Stores :
             memory[w] # None /\ memory'[w] # None => NotOlder(memory'[w][s], memory[w][s])
<1>1. PreloadInv /\ [Next]_vars => [Advance]_memory
  <2> SUFFICES ASSUME PreloadInv, [Next]_vars, memory' # memory,
                      NEW x \in Workers, NEW s \in Stores, memory[x] # None
               PROVE  NotOlder(memory'[x][s], memory[x][s])
    OBVIOUS
  <2>0. TypeOK /\ WorkerType /\ MemoryOK(x)
    BY DEF PreloadInv, MemoryInv, TypeOK
  <2>1. PICK w \in Workers : LoadStore(w) /\ worker[w].at + 1 = Done
    BY DEF Next, Transactions, Commit, SignalReload, LoseSignal, Manager, ClearExistingData, InitialReload,
      Subscribe, ReceiveMessage, CountThreads, StartThread, Updater, Acquire, CheckFlag, QueryMembers,
      UpdateStore, SignalRedisStoreUpdated, Release, EndThread, Worker, SubscribeWorker, StartLoading,
      LoadStore, Errors, LoseManagerConnection, PreloadUpdateError, UpdateException, LoseWorkerConnection,
      workerVars, vars
  <2>2. memory' = [memory EXCEPT ![w] = Loaded(w)] /\ worker[w].at = 3
    BY <2>0, <2>1, StoreFacts DEF LoadStore, WorkerType
  <2>3. CASE x = w
    <3>1. \A i \in 1..3 : NotOlder(Loaded(w)[StoreOrder[i]], memory[w][StoreOrder[i]])
      BY <2>0, <2>2, <2>3, LoadedFacts
    <3>2. memory'[w] = Loaded(w)
      BY <2>0, <2>2 DEF WorkerType
    <3> QED
      BY <2>3, <3>1, <3>2, StoreFacts
  <2>4. CASE x # w
    <3>1. memory'[x] = memory[x] /\ (memory[x][s] # None => memory[x][s] \in StoreType(s))
      BY <2>0, <2>2, <2>4 DEF WorkerType, CopyOK
    <3> QED
      BY <3>1, NotOlderFacts DEF NotOlder
  <2> QED
    BY <2>3, <2>4
<1> QED
  BY <1>1, PreloadInvariant, PTL DEF Spec, AnswersAdvance

-----------------------------------------------------------------------------
(* Reloads are not forgotten. *)

\* A missed signal stays missed.
LEMMA MissedNext == missed /\ [Next]_vars => missed'
  BY DEF Next, Transactions, Commit, SignalReload, LoseSignal, Manager, ClearExistingData, InitialReload,
    Subscribe, ReceiveMessage, PerformReload, CountThreads, StartThread, Updater, Acquire, CheckFlag,
    QueryMembers, UpdateStore, SignalRedisStoreUpdated, Release, EndThread, Worker, SubscribeWorker,
    StartLoading, LoadStore, Errors, LoseManagerConnection, PreloadUpdateError, UpdateException, Retry,
    LoseWorkerConnection, vars

\* Every step keeps one call at a time and at most two threads in the list.
LEMMA CallNext == PreloadInv /\ CallInv /\ [Next]_vars => CallInv'
<1> SUFFICES ASSUME PreloadInv, CallInv, [Next]_vars, ~missed' PROVE CallInv'
  BY DEF CallInv
<1>0. ManagerType /\ UpdaterType /\ LockInv /\ SpareInv /\ FoundInv
  BY DEF PreloadInv, TypeOK
<1>1. ~missed
  BY MissedNext
<1>2. /\ \A p, q \in Callers : p # q => calls[p] = None \/ calls[q] = None
      /\ Len(threads) <= 2
      /\ \A p \in Callers : Starting(p) => Len(threads) <= 1
      /\ \A p \in Callers, t \in Threads :
            calls[p] # None /\ updater[t].pc = "waiting" => calls[p].stores \subseteq updater[t].flags
  BY <1>1 DEF CallInv
<1>3. ASSUME UNCHANGED <<calls, threads>>,
             \A t \in Threads : updater'[t].pc = "waiting" =>
                updater[t].pc = "waiting" /\ updater'[t].flags = updater[t].flags
      PROVE  CallInv'
  BY <1>2, <1>3 DEF CallInv, Starting
<1>4. ASSUME NEW p \in Callers, NEW stores, calls' = [calls EXCEPT ![p] = [stores |-> stores, pc |-> "count"]],
             \A q \in Callers \ {p} : calls[q] = None, UNCHANGED threads,
             \A t \in Threads : /\ updater'[t].pc = "waiting" => updater[t].pc # "dead"
                                /\ t \in Range(threads) => stores \subseteq updater'[t].flags
      PROVE  CallInv'
  <2>1. /\ \A q \in Callers \ {p} : calls'[q] = None
        /\ calls'[p] = [stores |-> stores, pc |-> "count"]
    BY <1>0, <1>4 DEF ManagerType
  <2>2. \A t \in Threads : updater'[t].pc = "waiting" => stores \subseteq updater'[t].flags
    BY <1>0, <1>4 DEF LockInv, Alive
  <2> QED
    BY <1>2, <1>4, <2>1, <2>2 DEF CallInv, Starting
<1>5. ASSUME NEW stores \in SUBSET Stores, PerformReload(Main, updater, stores), UNCHANGED threads
      PROVE  CallInv'
  <2>1. /\ calls' = [calls EXCEPT ![Main] = [stores |-> stores, pc |-> "count"]]
        /\ missed' = (missed \/ \E q \in Callers \ {Main} : calls[q] # None)
        /\ \A t \in Threads : /\ updater'[t].pc = updater[t].pc
                              /\ t \in Range(threads) => stores \subseteq updater'[t].flags
    BY <1>0, <1>5, ReloadFacts DEF Thread
  <2> QED
    BY <1>4, <1>5, <2>1, CallerFacts
<1>6. ASSUME NEW t \in Threads, PreloadUpdateError(t) \/ UpdateException(t) PROVE CallInv'
  <2>1. /\ calls' = [calls EXCEPT ![t] = [stores |-> Stores, pc |-> "count"]]
        /\ missed' = (missed \/ \E q \in Callers \ {t} : calls[q] # None)
        /\ updater'[t].pc \in {"check", "signal", "release"} /\ UNCHANGED threads
        /\ \A u \in Threads : /\ u # t => updater'[u].pc = updater[u].pc
                              /\ u \in Range(threads) => Stores \subseteq updater'[u].flags
    BY <1>0, <1>6, ErrorFacts
  <2>2. \A u \in Threads : updater'[u].pc = "waiting" => updater[u].pc # "dead"
    BY <2>1
  <2>3. t \in Callers /\ \A q \in Callers \ {t} : calls[q] = None
    BY <2>1, CallerFacts
  <2> QED
    BY <1>4, <2>1, <2>2, <2>3
<1>7. ASSUME NEW p \in Callers, CountThreads(p) PROVE CallInv'
  <2>1. /\ threads' = RemoveDead /\ RemoveDead \in Seq(Threads) /\ Len(RemoveDead) <= Len(threads)
        /\ UNCHANGED updater /\ Len(threads) \in Nat /\ Len(RemoveDead) \in Nat
    BY <1>0, <1>7, RemoveDeadFacts DEF CountThreads, ManagerType
  <2>2. \A q \in Callers \ {p} : calls'[q] = None
    BY <1>0, <1>2, <1>7 DEF CountThreads, ManagerType
  <2>3. CASE Len(RemoveDead) > 1
    <3>1. calls'[p] = None
      BY <1>0, <1>7, <2>3 DEF CountThreads, ManagerType
    <3> QED
      BY <1>2, <2>1, <2>2, <3>1 DEF CallInv, Starting
  <2>4. CASE ~(Len(RemoveDead) > 1)
    <3>1. calls[p] # None /\ calls[p] \in Call /\ calls'[p].stores = calls[p].stores
      BY <1>0, <1>7, <2>4 DEF CountThreads, ManagerType, Call
    <3> QED
      BY <1>2, <2>1, <2>2, <2>4, <3>1 DEF CallInv, Starting
  <2> QED
    BY <2>3, <2>4
<1>8. ASSUME NEW p \in Callers, StartThread(p) PROVE CallInv'
  <2>1. PICK new \in Threads :
             /\ threads' = Append(threads, new)
             /\ calls[p] # None /\ calls[p].pc = "start"
             /\ calls' = [calls EXCEPT ![p] = None]
    BY <1>0, <1>8, StartFacts
  <2>2. \A q \in Callers : calls'[q] = None
    BY <1>0, <1>2, <2>1 DEF ManagerType
  <2>3. Len(threads) <= 1 /\ Len(threads') = Len(threads) + 1 /\ Len(threads) \in Nat
    BY <1>0, <1>2, <2>1 DEF ManagerType, Starting
  <2> QED
    BY <2>2, <2>3 DEF CallInv, Starting
<1>9. ASSUME NEW t \in Threads,
             Acquire(t) \/ CheckFlag(t) \/ QueryMembers(t) \/ UpdateStore(t)
             \/ SignalRedisStoreUpdated(t) \/ Release(t) \/ EndThread(t)
      PROVE  CallInv'
  <2>1. UNCHANGED <<calls, threads>>
    BY <1>9 DEF Acquire, CheckFlag, QueryMembers, UpdateStore, SignalRedisStoreUpdated, Release, EndThread
  <2>2. /\ updater'[t].pc # "waiting"
        /\ \A u \in Threads \ {t} : updater'[u] = updater[u]
    BY <1>0, <1>9, WorkFields
  <2> QED
    BY <1>3, <2>1, <2>2
<1>10. ASSUME UNCHANGED <<calls, threads, updater>> PROVE CallInv'
  BY <1>3, <1>10
<1>11. CASE Transactions
  BY <1>10, <1>11 DEF Transactions, Commit, SignalReload, LoseSignal, managerVars
<1>12. CASE Manager
  <2>1. CASE InitialReload
    BY <1>5, <2>1 DEF InitialReload
  <2>2. CASE ReceiveMessage
    <3>1. Head(inbox) \in SUBSET Stores
      BY <1>0, <2>2 DEF ReceiveMessage, ManagerType
    <3> QED
      BY <1>5, <1>10, <2>2, <3>1 DEF ReceiveMessage
  <2>3. CASE ClearExistingData \/ Subscribe
    BY <1>10, <2>3 DEF ClearExistingData, Subscribe
  <2> QED
    BY <1>7, <1>8, <1>12, <2>1, <2>2, <2>3, CallerFacts DEF Manager
<1>13. ASSUME NEW t \in Threads, Updater(t) PROVE CallInv'
  BY <1>7, <1>8, <1>9, <1>13, CallerFacts DEF Updater
<1>14. ASSUME NEW w \in Workers, Worker(w) \/ LoseWorkerConnection(w) PROVE CallInv'
  BY <1>10, <1>14 DEF Worker, SubscribeWorker, StartLoading, LoadStore, LoseWorkerConnection, managerVars
<1>15. CASE LoseManagerConnection \/ UNCHANGED vars
  BY <1>10, <1>15 DEF LoseManagerConnection, vars, managerVars
<1> QED
  BY <1>6, <1>11, <1>12, <1>13, <1>14, <1>15 DEF Next, Errors

\* What will update a store that is out of date.
Pending(s) ==
    \/ manager \in {"clear", "reload"}
    \/ \E u \in unsignalled : s \in Relevant(u.classes)
    \/ \E i \in DOMAIN inbox : s \in inbox[i]
    \/ \E p \in Callers : calls[p] # None /\ s \in calls[p].stores
    \/ \E t \in Range(threads) : WillUpdate(t, s)

\* The stores are in the order once.
LEMMA OrderFacts ==
    ASSUME NEW i \in 1..3, NEW j \in 1..3, StoreOrder[i] = StoreOrder[j]
    PROVE  i = j
  BY StoreFacts

\* A call that starts no thread leaves its stores to the thread that waits.
LEMMA LeftToFacts ==
    ASSUME PreloadInv, CallInv, ~missed, NEW p \in Callers, calls[p] # None, Len(RemoveDead) > 1,
           \A t \in Threads : updater[t].pc # "ending"
    PROVE  \E t \in Range(threads) : updater[t].pc = "waiting" /\ calls[p].stores \subseteq updater[t].flags
<1>1. ManagerType /\ UpdaterType /\ LockInv
  BY DEF PreloadInv, TypeOK
<1>2. Len(threads) = 2 /\ \A i \in DOMAIN threads : ~Removed(i)
  <2>1. /\ Len(RemoveDead) <= Len(threads) /\ RemoveDead \in Seq(Threads) /\ threads \in Seq(Threads)
        /\ Len(RemoveDead) = Len(threads) => \A i \in DOMAIN threads : ~Removed(i)
    BY <1>1, RemoveDeadFacts DEF ManagerType
  <2>2. Len(RemoveDead) \in Nat /\ Len(threads) \in Nat /\ Len(threads) <= 2
    BY <2>1 DEF CallInv
  <2>3. Len(RemoveDead) = 2 /\ Len(threads) = 2
    <3> DEFINE m == Len(RemoveDead)
               n == Len(threads)
    <3>1. m \in Nat /\ n \in Nat /\ n <= 2 /\ m <= n /\ m > 1
      BY <2>1, <2>2
    <3> HIDE DEF m, n
    <3>2. m = 2 /\ n = 2
      BY <3>1
    <3> QED
      BY <3>2 DEF m, n
  <2> QED
    BY <2>1, <2>3
<1>3. DOMAIN threads = {1, 2} /\ threads[1] \in Threads /\ threads[2] \in Threads
  <2>1. threads \in Seq(Threads) /\ DOMAIN threads = 1..Len(threads)
    BY <1>1 DEF ManagerType
  <2> QED
    BY <1>2, <2>1
<1>4. Alive(threads[1])
  <2>1. ~Removed(1)
    BY <1>2, <1>3
  <2> QED
    BY <2>1 DEF Removed
<1>5. Alive(threads[2])
  <2>1. ~Removed(2)
    BY <1>2, <1>3
  <2>2. (2 - 2) % 2 = 0 /\ 2 \in 1..2 /\ 2 - 1 = 1 /\ 2..2 = {2}
    OBVIOUS
  <2> QED
    BY <1>4, <2>1, <2>2 DEF Removed
<1>6. threads[1] # threads[2]
  BY <1>1, <1>3 DEF LockInv, Distinct
<1>7. PICK t \in {threads[1], threads[2]} : lock # t
  BY <1>6
<1>8. t \in Range(threads) /\ t \in Threads
  BY <1>3 DEF Range
<1>9. updater[t].pc = "waiting"
  BY <1>1, <1>4, <1>5, <1>7, <1>8 DEF LockInv, Alive, Busy, UpdaterType
<1> QED
  BY <1>8, <1>9 DEF CallInv

\* Every step keeps a reload pending for what is out of date.
LEMMA PendingNext == PreloadInv /\ CallInv /\ ReloadPending /\ [Next]_vars => ReloadPending'
<1> SUFFICES ASSUME PreloadInv, CallInv, ReloadPending, [Next]_vars, ~missed', ~missed,
                    NEW s \in Stores, redis'[s] # Current(s)'
             PROVE  Pending(s)'
  BY MissedNext DEF ReloadPending, Pending
<1>0. TypeOK /\ StoresType /\ ManagerType /\ UpdaterType /\ LockInv /\ SpareInv /\ FoundInv
  BY DEF PreloadInv, TypeOK
<1>1. redis[s] # Current(s) => Pending(s)
  BY DEF ReloadPending, Pending
<1>2. UNCHANGED <<db, redis>> => Pending(s)
  BY <1>1 DEF Current
<1>3. ASSUME NEW t \in Threads, UNCHANGED <<db, manager, unsignalled, inbox, calls, threads>>, Pending(s),
             \A u \in Threads \ {t} : updater'[u] = updater[u],
             WillUpdate(t, s) => WillUpdate(t, s)'
      PROVE  Pending(s)'
  <2>1. \A u \in Threads \ {t} : WillUpdate(u, s) => WillUpdate(u, s)'
    BY <1>3 DEF WillUpdate
  <2>2. Range(threads) \subseteq Threads
    BY <1>0 DEF ManagerType, Range
  <2> QED
    BY <1>3, <2>1, <2>2 DEF Pending
<1>4. ASSUME UNCHANGED <<db, redis, manager, unsignalled, inbox, calls, threads, updater>> PROVE Pending(s)'
  BY <1>2, <1>4 DEF Pending, WillUpdate
<1>5. ASSUME NEW classes \in SUBSET Classes, Commit(classes) PROVE Pending(s)'
  <2> DEFINE used == FirstQuery(s) \union MemberQuery(s)
  <2>1. /\ db' = [c \in Classes |-> IF c \in classes THEN db[c] + 1 ELSE db[c]]
        /\ unsignalled' = unsignalled \union {[id |-> changes + 1, classes |-> classes]}
        /\ UNCHANGED <<redis, manager, inbox, calls, threads, updater>>
    BY <1>5 DEF Commit, managerVars
  <2>2. CASE used \intersect classes # {}
    <3>1. s \in Relevant(classes)
      BY <2>2, QueryFacts
    <3>2. \E u \in unsignalled' : s \in Relevant(u.classes)
      <4> DEFINE u == [id |-> changes + 1, classes |-> classes]
      <4>1. u \in unsignalled' /\ u.classes = classes
        BY <2>1
      <4> QED
        BY <3>1, <4>1
    <3> QED
      BY <3>2 DEF Pending
  <2>3. CASE used \intersect classes = {}
    <3>1. \A c \in used : db'[c] = db[c]
      BY <2>1, <2>3, QueryFacts
    <3>2. Current(s)' = Current(s)
      BY <3>1 DEF Current
    <3>3. Pending(s)
      BY <1>1, <2>1, <3>2
    <3>4. ASSUME NEW t \in Threads, WillUpdate(t, s) PROVE WillUpdate(t, s)'
      <4>1. updater[t].pc \in {"members", "write"} /\ StoreOrder[updater[t].at] = s
               => \A c \in DOMAIN updater[t].found : db'[c] = db[c]
        BY <1>0, <3>1, FoundFacts
      <4> QED
        BY <2>1, <3>4, <4>1 DEF WillUpdate
    <3>5. Range(threads) \subseteq Threads
      BY <1>0 DEF ManagerType, Range
    <3> QED
      BY <2>1, <3>3, <3>4, <3>5 DEF Pending
  <2> QED
    BY <2>2, <2>3
<1>6. ASSUME NEW u \in unsignalled, SignalReload(u) PROVE Pending(s)'
  <2>1. /\ Pending(s) /\ unsignalled' = unsignalled \ {u}
        /\ UNCHANGED <<db, manager, calls, threads, updater>>
    BY <1>2, <1>6 DEF SignalReload
  <2>2. CASE manager = "listening"
    <3>1. inbox' = Append(inbox, Relevant(u.classes)) /\ inbox \in Seq(SUBSET Stores)
      BY <1>0, <1>6, <2>2 DEF SignalReload, ManagerType
    <3>2. Relevant(u.classes) \in SUBSET Stores
      BY DEF Relevant
    <3>3. /\ DOMAIN inbox' = 1..Len(inbox) + 1 /\ DOMAIN inbox = 1..Len(inbox) /\ Len(inbox) \in Nat
          /\ inbox'[Len(inbox) + 1] = Relevant(u.classes)
          /\ \A i \in 1..Len(inbox) : inbox'[i] = inbox[i]
      BY <3>1, <3>2
    <3>4. \A i \in DOMAIN inbox : i \in DOMAIN inbox' /\ inbox'[i] = inbox[i]
      BY <3>3
    <3>5. Len(inbox) + 1 \in DOMAIN inbox'
      BY <3>3
    <3>6. \A t : WillUpdate(t, s)' <=> WillUpdate(t, s)
      BY <2>1 DEF WillUpdate
    <3> QED
      BY <2>1, <3>3, <3>4, <3>5, <3>6 DEF Pending
  <2>3. CASE manager # "listening"
    BY <1>0, <1>6, <2>1, <2>3 DEF SignalReload, ManagerType, Pending
  <2> QED
    BY <2>2, <2>3
<1>7. ASSUME NEW stores \in SUBSET Stores, PerformReload(Main, updater, stores), calls[Main] = None,
             UNCHANGED <<db, redis, manager, unsignalled, threads>>,
             \A i \in DOMAIN inbox : inbox[i] = stores \/ \E j \in DOMAIN inbox' : inbox'[j] = inbox[i]
      PROVE  Pending(s)'
  <2>1. /\ Pending(s)
        /\ calls' = [calls EXCEPT ![Main] = [stores |-> stores, pc |-> "count"]]
        /\ calls' \in [Callers -> Call \union {None}]
        /\ \A u \in Threads :
             /\ updater'[u].pc = updater[u].pc /\ updater'[u].at = updater[u].at
             /\ updater'[u].found = updater[u].found /\ updater[u].flags \subseteq updater'[u].flags
    BY <1>0, <1>2, <1>7, ReloadFacts DEF Thread
  <2>2. calls'[Main] = [stores |-> stores, pc |-> "count"] /\ calls'[Main] # None /\ Main \in Callers
    <3>1. calls'[Main] = [stores |-> stores, pc |-> "count"] /\ Main \in Callers
      BY <1>0, <2>1, CallerFacts DEF ManagerType
    <3>2. calls'[Main] \in Call
      BY <3>1 DEF Call
    <3> QED
      BY <3>1, <3>2, NoneAssumption
  <2>3. \A q \in Callers \ {Main} : calls'[q] = calls[q]
    BY <1>0, <2>1 DEF ManagerType
  <2>4. Range(threads) \subseteq Threads
    BY <1>0 DEF ManagerType, Range
  <2>5. \A u \in Threads : WillUpdate(u, s) => WillUpdate(u, s)'
    BY <1>7, <2>1 DEF WillUpdate
  <2>6. s \in stores => \E p \in Callers : calls'[p] # None /\ s \in calls'[p].stores
    BY <2>2
  <2>7. (\E i \in DOMAIN inbox : s \in inbox[i]) => s \in stores \/ \E j \in DOMAIN inbox' : s \in inbox'[j]
    BY <1>7
  <2>8. (\E p \in Callers : calls[p] # None /\ s \in calls[p].stores)
           => \E p \in Callers : calls'[p] # None /\ s \in calls'[p].stores
    BY <1>7, <2>3
  <2>9. (\E t \in Range(threads) : WillUpdate(t, s)) => \E t \in Range(threads') : WillUpdate(t, s)'
    BY <1>7, <2>4, <2>5
  <2> QED
    BY <1>7, <2>1, <2>6, <2>7, <2>8, <2>9 DEF Pending
<1>8. CASE InitialReload
  <2>1. /\ calls' = [calls EXCEPT ![Main] = [stores |-> Stores, pc |-> "count"]]
        /\ [stores |-> Stores, pc |-> "count"] \in Call
    BY <1>0, <1>8 DEF InitialReload, PerformReload, Call
  <2>2. calls'[Main] # None /\ s \in calls'[Main].stores /\ Main \in Callers
    BY <1>0, <2>1, NoneAssumption, CallerFacts DEF ManagerType
  <2> QED
    BY <2>2 DEF Pending
<1>9. CASE ReceiveMessage
  <2>1. /\ inbox \in Seq(SUBSET Stores) /\ inbox # << >> /\ inbox' = Tail(inbox) /\ calls[Main] = None
        /\ UNCHANGED <<db, redis, manager, unsignalled, threads>>
    BY <1>0, <1>9 DEF ReceiveMessage, ManagerType
  <2>2. Head(inbox) \in SUBSET Stores /\ Head(inbox) = inbox[1]
    BY <2>1
  <2>3. \A i \in DOMAIN inbox : i # 1 => i - 1 \in DOMAIN inbox' /\ inbox'[i - 1] = inbox[i]
    BY <2>1
  <2>4. \A i \in DOMAIN inbox : inbox[i] = Head(inbox) \/ \E j \in DOMAIN inbox' : inbox'[j] = inbox[i]
    BY <2>2, <2>3
  <2>5. CASE Head(inbox) # {}
    <3>1. PerformReload(Main, updater, Head(inbox))
      BY <1>9, <2>5 DEF ReceiveMessage
    <3> QED
      BY <1>7, <2>1, <2>2, <2>4, <3>1
  <2>6. CASE Head(inbox) = {}
    <3>1. UNCHANGED <<calls, updater>> /\ Pending(s)
      BY <1>2, <1>9, <2>6 DEF ReceiveMessage
    <3>2. \A t : WillUpdate(t, s)' <=> WillUpdate(t, s)
      BY <2>1, <3>1 DEF WillUpdate
    <3>3. (\E i \in DOMAIN inbox : s \in inbox[i]) => \E j \in DOMAIN inbox' : s \in inbox'[j]
      BY <2>4, <2>6
    <3> QED
      BY <2>1, <3>1, <3>2, <3>3 DEF Pending
  <2> QED
    BY <2>5, <2>6
<1>10. ASSUME NEW p \in Callers, CountThreads(p) PROVE Pending(s)'
  <2>1. /\ Pending(s) /\ threads' = RemoveDead /\ threads \in Seq(Threads)
        /\ UNCHANGED <<db, unsignalled, manager, inbox, updater>>
        /\ calls[p] # None /\ calls[p] \in Call
    BY <1>0, <1>2, <1>10 DEF CountThreads, ManagerType
  <2>2. \A t \in Range(threads) : updater[t].pc # "dead" => t \in Range(threads')
    BY <2>1, RemoveDeadFacts DEF Alive
  <2>3. \A t : WillUpdate(t, s) => WillUpdate(t, s)' /\ updater[t].pc # "dead"
    BY <2>1 DEF WillUpdate
  <2>4. \A q \in Callers \ {p} : calls'[q] = calls[q]
    BY <1>0, <1>10 DEF CountThreads, ManagerType
  <2>5. s \in calls[p].stores => Pending(s)'
    <3>1. CASE Len(RemoveDead) > 1
      <4>1. \A t \in Threads : updater[t].pc # "ending"
        BY <1>10, <3>1 DEF CountThreads
      <4>2. PICK t \in Range(threads) : updater[t].pc = "waiting" /\ calls[p].stores \subseteq updater[t].flags
        BY <2>1, <3>1, <4>1, LeftToFacts
      <4>3. s \in calls[p].stores => WillUpdate(t, s)'
        BY <2>1, <4>2 DEF WillUpdate
      <4>4. t \in Range(threads')
        BY <2>2, <4>2
      <4> QED
        BY <4>3, <4>4 DEF Pending
    <3>2. CASE ~(Len(RemoveDead) > 1)
      <4>1. calls' = [calls EXCEPT ![p].pc = "start"]
        BY <1>10, <3>2 DEF CountThreads
      <4>2. calls'[p].stores = calls[p].stores /\ calls'[p] \in Call
        BY <1>0, <2>1, <4>1 DEF ManagerType, Call
      <4> QED
        BY <4>2, NoneAssumption DEF Pending
    <3> QED
      BY <3>1, <3>2
  <2> QED
    BY <2>1, <2>2, <2>3, <2>4, <2>5 DEF Pending
<1>11. ASSUME NEW p \in Callers, StartThread(p) PROVE Pending(s)'
  <2>1. PICK new \in Threads :
             /\ new \notin Range(threads) /\ updater[new].pc = "dead"
             /\ threads' = Append(threads, new)
             /\ updater' = [updater EXCEPT ![new] = Thread("waiting", calls[p].stores, 1, << >>)]
             /\ calls' = [calls EXCEPT ![p] = None]
    BY <1>0, <1>11, StartFacts
  <2>2. Pending(s) /\ UNCHANGED <<db, unsignalled, manager, inbox>>
    BY <1>2, <1>11 DEF StartThread
  <2>3. /\ updater'[new].pc = "waiting" /\ updater'[new].flags = calls[p].stores
        /\ \A t \in Threads \ {new} : updater'[t] = updater[t]
    BY <1>0, <2>1 DEF UpdaterType, Thread
  <2>4. Range(threads') = Range(threads) \union {new} /\ Range(threads) \subseteq Threads
    <3>1. /\ DOMAIN threads' = 1..Len(threads) + 1 /\ threads'[Len(threads) + 1] = new
          /\ DOMAIN threads = 1..Len(threads) /\ Len(threads) \in Nat
          /\ \A i \in 1..Len(threads) : threads'[i] = threads[i] /\ threads[i] \in Threads
      BY <1>0, <2>1 DEF ManagerType
    <3> QED
      BY <3>1 DEF Range
  <2>5. \A t \in Threads \ {new} : WillUpdate(t, s) => WillUpdate(t, s)'
    BY <2>2, <2>3 DEF WillUpdate
  <2>6. s \in calls[p].stores => WillUpdate(new, s)'
    BY <2>3 DEF WillUpdate
  <2>7. \A q \in Callers \ {p} : calls'[q] = calls[q]
    BY <1>0, <2>1 DEF ManagerType
  <2> QED
    BY <2>1, <2>2, <2>4, <2>5, <2>6, <2>7 DEF Pending
<1>12. ASSUME NEW t \in Threads, PreloadUpdateError(t) \/ UpdateException(t) PROVE Pending(s)'
  <2>1. calls' = [calls EXCEPT ![t] = [stores |-> Stores, pc |-> "count"]]
    BY <1>0, <1>12, ErrorFacts
  <2>2. /\ calls'[t] = [stores |-> Stores, pc |-> "count"] /\ t \in Callers
        /\ [stores |-> Stores, pc |-> "count"] \in Call
    BY <1>0, <2>1, CallerFacts DEF ManagerType, Call
  <2> QED
    BY <2>2, NoneAssumption DEF Pending
<1>13. CASE Transactions
  BY <1>5, <1>6, <1>13 DEF Transactions, LoseSignal
<1>14. CASE Manager
  <2>1. CASE ClearExistingData
    BY <2>1 DEF ClearExistingData, Pending
  <2>2. CASE Subscribe
    <3>1. /\ UNCHANGED <<db, redis, unsignalled, inbox, calls, threads, updater>>
          /\ manager = "subscribe"
      BY <2>2 DEF Subscribe
    <3> QED
      BY <1>2, <3>1 DEF Pending, WillUpdate
  <2> QED
    BY <1>8, <1>9, <1>10, <1>11, <1>14, <2>1, <2>2, CallerFacts DEF Manager
<1>15. ASSUME NEW w \in Workers, Worker(w) \/ LoseWorkerConnection(w) PROVE Pending(s)'
  BY <1>4, <1>15 DEF Worker, SubscribeWorker, StartLoading, LoadStore, LoseWorkerConnection, managerVars
<1>16. CASE LoseManagerConnection
  BY <1>16 DEF LoseManagerConnection, Pending
<1>17. CASE UNCHANGED vars
  BY <1>4, <1>17 DEF vars, managerVars
<1>18. ASSUME NEW t \in Threads, NEW v, v = updater[t],
              Acquire(t) \/ CheckFlag(t) \/ QueryMembers(t) \/ UpdateStore(t)
              \/ SignalRedisStoreUpdated(t) \/ Release(t) \/ EndThread(t)
       PROVE  Pending(s)'
  <2>1. UNCHANGED <<db, manager, unsignalled, inbox, calls, threads>>
    BY <1>18 DEF Acquire, CheckFlag, QueryMembers, UpdateStore, SignalRedisStoreUpdated, Release, EndThread
  <2>2. \A u \in Threads \ {t} : updater'[u] = updater[u]
    BY <1>0, <1>18, WorkFields
  <2>3. CASE Acquire(t)
    <3>1. v.pc = "waiting" /\ v.at = 1 /\ redis' = redis
      BY <1>0, <1>18, <2>3 DEF Acquire, FoundInv, FoundOK
    <3>2. updater'[t].pc = "check" /\ updater'[t].at = 1 /\ updater'[t].flags = v.flags
      BY <1>0, <1>18, <2>3, <3>1, WorkFields
    <3>3. \E i \in 1 + 0 .. Len(StoreOrder) : StoreOrder[i] = s
      BY StoreFacts
    <3>4. WillUpdate(t, s) => WillUpdate(t, s)'
      BY <1>18, <3>1, <3>2, <3>3 DEF WillUpdate
    <3> QED
      BY <1>2, <1>3, <2>1, <2>2, <3>1, <3>4
  <2>4. CASE CheckFlag(t)
    <3> DEFINE x == StoreOrder[v.at]
    <3>1. v.pc = "check" /\ v.at \in 1..3 /\ x \in Stores /\ redis' = redis
      BY <1>0, <1>18, <2>4, AtFacts DEF CheckFlag
    <3>2. WillUpdate(t, s) => s \in v.flags /\ \E i \in v.at..3 : StoreOrder[i] = s
      BY <1>18, <3>1, StoreFacts DEF WillUpdate
    <3>3. CASE x \notin v.flags
      <4>1. /\ updater'[t].pc = (IF v.at = 3 THEN "signal" ELSE "check") /\ updater'[t].at = v.at + 1
            /\ updater'[t].flags = v.flags
        BY <1>0, <1>18, <2>4, <3>3, WorkFields
      <4>2. ASSUME WillUpdate(t, s) PROVE WillUpdate(t, s)'
        <5>1. PICK i \in v.at..3 : StoreOrder[i] = s /\ s \in v.flags
          BY <3>2, <4>2
        <5>2. i # v.at
          BY <3>3, <5>1
        <5>3. v.at # 3 /\ i \in updater'[t].at + 0 .. Len(StoreOrder) /\ updater'[t].pc = "check"
          BY <3>1, <4>1, <5>1, <5>2, StoreFacts
        <5> QED
          BY <4>1, <5>1, <5>3 DEF WillUpdate
      <4> QED
        BY <1>2, <1>3, <2>1, <2>2, <3>1, <4>2
    <3>4. CASE x \in v.flags
      <4>1. /\ updater'[t].pc = (IF MemberQuery(x) = {} THEN "write" ELSE "members")
            /\ updater'[t].at = v.at /\ updater'[t].found = QueryResult(FirstQuery(x))
            /\ updater'[t].flags = v.flags
        BY <1>0, <1>18, <2>4, <3>4, WorkFields
      <4>2. ASSUME WillUpdate(t, s) PROVE WillUpdate(t, s)'
        <5>1. PICK i \in v.at..3 : StoreOrder[i] = s /\ s \in v.flags
          BY <3>2, <4>2
        <5>2. updater'[t].pc \in {"members", "write"}
          BY <4>1
        <5>3. CASE i = v.at
          <6>1. \A c \in DOMAIN updater'[t].found : updater'[t].found[c] = db'[c]
            BY <2>1, <4>1 DEF QueryResult
          <6> QED
            BY <4>1, <5>1, <5>2, <5>3, <6>1 DEF WillUpdate
        <5>4. CASE i # v.at
          <6>1. i \in v.at + 1 .. 3
            BY <3>1, <5>1, <5>4
          <6> QED
            BY <4>1, <5>1, <5>2, <6>1, StoreFacts DEF WillUpdate
        <5> QED
          BY <5>3, <5>4
      <4> QED
        BY <1>2, <1>3, <2>1, <2>2, <3>1, <4>2
    <3> QED
      BY <3>3, <3>4
  <2>5. CASE QueryMembers(t)
    <3> DEFINE x == StoreOrder[v.at]
               found == WithMembers(v.found, QueryResult(MemberQuery(x)))
    <3>1. v.pc = "members" /\ redis' = redis
      BY <1>18, <2>5 DEF QueryMembers
    <3>2. /\ updater'[t].pc = "write" /\ updater'[t].at = v.at /\ updater'[t].flags = v.flags
          /\ updater'[t].found = found
      BY <1>0, <1>18, <2>5, WorkFields
    <3>3. (\A c \in DOMAIN v.found : v.found[c] = db[c]) => \A c \in DOMAIN found : found[c] = db[c]
      BY DEF WithMembers, QueryResult
    <3> HIDE DEF found
    <3>4. WillUpdate(t, s) => WillUpdate(t, s)'
      BY <1>18, <2>1, <3>1, <3>2, <3>3 DEF WillUpdate
    <3> QED
      BY <1>2, <1>3, <2>1, <2>2, <3>1, <3>4
  <2>6. CASE UpdateStore(t)
    <3> DEFINE x == StoreOrder[v.at]
    <3>1. v.pc = "write" /\ v.at \in 1..3 /\ x \in Stores /\ redis' = [redis EXCEPT ![x] = v.found]
      BY <1>0, <1>18, <2>6, AtFacts DEF UpdateStore
    <3>2. /\ updater'[t].pc = (IF v.at = 3 THEN "signal" ELSE "check") /\ updater'[t].at = v.at + 1
          /\ updater'[t].flags = v.flags
      BY <1>0, <1>18, <2>6, WorkFields
    <3>3. redis'[x] = v.found /\ \A y \in Stores \ {x} : redis'[y] = redis[y]
      BY <1>0, <3>1 DEF StoresType, CopyOK
    <3>4. ASSUME NEW i \in v.at + 1 .. 3, StoreOrder[i] = s, s \in v.flags PROVE WillUpdate(t, s)'
      <4>1. v.at # 3 /\ i \in updater'[t].at + 0 .. Len(StoreOrder) /\ updater'[t].pc = "check"
        BY <3>1, <3>2, <3>4, StoreFacts
      <4> QED
        BY <3>2, <3>4, <4>1 DEF WillUpdate
    <3>5. Current(s)' = Current(s)
      BY <2>1 DEF Current
    <3>6. CASE s # x
      <4>1. Pending(s)
        BY <1>1, <3>3, <3>5, <3>6
      <4>2. WillUpdate(t, s) => WillUpdate(t, s)'
        BY <1>18, <3>1, <3>4, <3>6, StoreFacts DEF WillUpdate
      <4> QED
        BY <1>3, <2>1, <2>2, <4>1, <4>2
    <3>7. CASE s = x
      <4>1. /\ v.found \in StoreType(s) /\ Current(s) \in StoreType(s) /\ v.found # Current(s)
            /\ \A c \in FirstQuery(s) \union MemberQuery(s) : Current(s)[c] = db[c] /\ db[c] \in Nat
        BY <1>0, <1>18, <3>1, <3>3, <3>5, <3>7, QueryType DEF FoundInv, FoundOK
      <4>2. PICK c \in FirstQuery(s) \union MemberQuery(s) : v.found[c] # db[c]
        BY <4>1 DEF StoreType
      <4>3. /\ c \in DOMAIN v.found /\ v.found[c] \in Nat /\ v.found[c] <= db[c]
            /\ redis[s] # None => redis[s][c] \in Nat /\ redis[s][c] <= v.found[c]
        BY <1>0, <1>18, <3>1, <3>7, <4>1, FoundFacts DEF StoreType
      <4>4. redis[s] # Current(s)
        BY <4>1, <4>2, <4>3, NoneAssumption
      <4>5. ~WillUpdate(t, s)
        <5>1. ~\E i \in v.at + 1 .. Len(StoreOrder) : StoreOrder[i] = s
          BY <3>1, <3>7, OrderFacts, StoreFacts
        <5> QED
          BY <1>18, <3>1, <4>2, <4>3, <5>1 DEF WillUpdate
      <4> QED
        BY <1>1, <1>3, <2>1, <2>2, <4>4, <4>5
    <3> QED
      BY <3>6, <3>7
  <2>7. CASE SignalRedisStoreUpdated(t) \/ Release(t) \/ EndThread(t)
    <3>1. redis' = redis /\ updater[t].pc \in {"signal", "release", "ending"}
      BY <2>7 DEF SignalRedisStoreUpdated, Release, EndThread
    <3>2. ~WillUpdate(t, s)
      BY <3>1 DEF WillUpdate
    <3> QED
      BY <1>2, <1>3, <2>1, <2>2, <3>1, <3>2
  <2> QED
    BY <1>18, <2>3, <2>4, <2>5, <2>6, <2>7
<1>19. ASSUME NEW t \in Threads, Updater(t) PROVE Pending(s)'
  BY <1>10, <1>11, <1>18, <1>19, CallerFacts DEF Updater
<1> QED
  BY <1>12, <1>13, <1>14, <1>15, <1>16, <1>17, <1>19 DEF Next, Errors

\* No reload is forgotten, for any classes, transactions and errors: a store that is
\* out of date will be updated, unless a signal was missed.
THEOREM ReloadsNotForgotten == Spec => []ReloadPending
<1>1. PreloadInv /\ CallInv /\ ReloadPending /\ [Next]_vars
        => (PreloadInv /\ CallInv /\ ReloadPending)'
  BY PreloadNext, CallNext, PendingNext
<1> QED
  BY <1>1, PreloadInit, PTL DEF Spec
=============================================================================
