------------------------------ MODULE Preload ------------------------------
(***************************************************************************)
(* irrd.storage.preload: how a committed change gets to the memory of the  *)
(* processes that answer queries.                                          *)
(*                                                                         *)
(* A transaction signals the object classes it has changed over a Redis    *)
(* channel. The PreloadStoreManager starts PreloadUpdater threads, one at  *)
(* work and one waiting for it, that query the database, replace the       *)
(* stores in Redis and signal over a second channel. Each Preloader has a  *)
(* thread that then copies the stores to memory.                           *)
(*                                                                         *)
(* The state of an object class is the number of transactions that have    *)
(* changed it. Instances that are a readonly standby are left out.         *)
(***************************************************************************)
EXTENDS Integers, Sequences, FiniteSets, FiniteSetsExt, SequencesExt

CONSTANTS
    Workers,        \* processes with a Preloader that answers queries
    Classes,        \* object classes that transactions change
    Operations,     \* what happens beside changes and reloads
    MaxEvents,      \* bound on transactions, errors and lost connections
    None            \* absent store, nothing to do

ASSUME BoundsAssumption == MaxEvents \in Nat
ASSUME ClassesAssumption ==
    Classes \subseteq {"route", "as-set", "aut-num", "route-set", "inetnum"}

VARIABLES
    db,           \* the committed state of each object class
    changes,      \* number of transactions
    unsignalled,  \* committed transactions that have yet to signal
    \* Redis
    redis,        \* the stores
    \* the PreloadStoreManager
    manager,      \* where main() is
    inbox,        \* messages of the reload channel
    calls,        \* running perform_reload(), of the manager and of each thread
    threads,      \* _threads
    updater,      \* state of each thread
    lock,         \* _reload_lock
    \* each query process
    worker,       \* its PersistentPubSubWorkerThread
    memory,       \* its in-memory store
    \* bounds and observers
    failures,     \* number of errors and lost connections
    missed        \* a signal went to a subscriber that was not there or was left to a
                  \* thread that had ended its work, or two perform_reload() overlapped

managerVars == <<manager, inbox, calls, threads, updater, lock>>
workerVars == <<worker, memory>>
vars == <<db, changes, unsignalled, redis, managerVars, workerVars, failures, missed>>

-----------------------------------------------------------------------------
(* Object classes and stores. *)

\* In the order in which they are updated and loaded.
StoreOrder == <<"routes", "asSets", "routeSets">>
Stores == Range(StoreOrder)
Done == Len(StoreOrder) + 1

\* The classes of the first query for a store. "route" stands for route6 too.
FirstQuery(s) ==
    Classes \intersect (CASE s = "routes" -> {"route"}
                          [] s = "asSets" -> {"as-set"}
                          [] s = "routeSets" -> {"route-set"})

\* The classes of the second query of _update_set(), for members.
MemberQuery(s) ==
    Classes \intersect (CASE s = "routes" -> {}
                          [] s = "asSets" -> {"aut-num"}
                          [] s = "routeSets" -> {"route"})

\* What a store holds when it is up to date.
Current(s) == [c \in FirstQuery(s) \union MemberQuery(s) |-> db[c]]

\* The stores perform_reload() updates for a message.
Relevant(classes) ==
    {s \in Stores : classes \intersect
        (CASE s = "routes" -> {"route"}
           [] s = "asSets" -> {"as-set", "aut-num"}
           [] s = "routeSets" -> {"route-set", "route"}) # {}}

\* Two calls at the same time can make it three threads.
Threads == {1, 2, 3}
Main == 0
Call == [stores : SUBSET Stores, pc : {"count", "start"}]
StoreType(s) == [FirstQuery(s) \union MemberQuery(s) -> Nat]

\* None is neither a thread, a store nor a call.
ASSUME NoneAssumption ==
    /\ None \notin Threads
    /\ \A s \in Stores : None \notin StoreType(s)
    /\ None \notin Call

Callers == Threads \union {Main}
NoThread == [pc |-> "dead", flags |-> {}, at |-> 1, found |-> << >>]
NothingFound == [s \in Stores |-> None]

\* is_alive(): also a thread that has released the lock, until it ends.
Alive(t) == updater[t].pc # "dead"

\* Redis holds the stores of an earlier run of IRRd, which are outdated.
Init ==
    /\ db = [c \in Classes |-> 1]
    /\ changes = 0
    /\ unsignalled = {}
    /\ redis = [s \in Stores |-> [c \in DOMAIN Current(s) |-> 0]]
    /\ manager = "clear"
    /\ inbox = << >>
    /\ calls = [p \in Callers |-> None]
    /\ threads = << >>
    /\ updater = [t \in Threads |-> NoThread]
    /\ lock = None
    /\ worker = [w \in Workers |-> [pc |-> "off", inbox |-> 0, at |-> 1, found |-> NothingFound]]
    /\ memory = [w \in Workers |-> None]
    /\ failures = 0
    /\ missed = FALSE

-----------------------------------------------------------------------------
(* Transactions *)

Commit(classes) ==
    /\ changes + failures < MaxEvents
    /\ changes' = changes + 1
    /\ db' = [c \in Classes |-> IF c \in classes THEN db[c] + 1 ELSE db[c]]
    /\ unsignalled' = unsignalled \union {[id |-> changes + 1, classes |-> classes]}
    /\ UNCHANGED <<redis, managerVars, workerVars, failures, missed>>

\* SessionChangedObjectsTracker.commit(): signal_reload() publishes the classes.
\* Redis delivers the message to those that are subscribed at that time.
SignalReload(u) ==
    /\ unsignalled' = unsignalled \ {u}
    /\ IF manager = "listening"
       THEN inbox' = Append(inbox, Relevant(u.classes)) /\ UNCHANGED missed
       ELSE missed' = (missed \/ manager = "subscribe") /\ UNCHANGED inbox
    /\ UNCHANGED <<db, changes, redis, manager, calls, threads, updater, lock, workerVars, failures>>

\* The process ends after the commit, or Redis cannot be reached.
LoseSignal(u) ==
    /\ "lose" \in Operations
    /\ changes + failures < MaxEvents
    /\ failures' = failures + 1
    /\ unsignalled' = unsignalled \ {u}
    /\ missed' = TRUE
    /\ UNCHANGED <<db, changes, redis, managerVars, workerVars>>

-----------------------------------------------------------------------------
(* PreloadStoreManager.main() *)

\* _clear_existing_data() deletes the routes and the as-sets.
ClearExistingData ==
    /\ manager = "clear"
    /\ redis' = [redis EXCEPT !["routes"] = None, !["asSets"] = None]
    /\ manager' = "reload"
    /\ UNCHANGED <<db, changes, unsignalled, inbox, calls, threads, updater, lock, workerVars, failures, missed>>

\* Mutant: a queued thread is not told.
UpdateNone(us, stores) == us

\* "Update any queued threads to include the correct objects".
UpdateFlags(us, stores) ==
    [t \in Threads |-> IF t \in Range(threads)
                       THEN [us[t] EXCEPT !.flags = @ \union stores] ELSE us[t]]

\* perform_reload() by p, for the updaters us: up to the flags of the threads there
\* are. The manager and threads that try again can be in it at the same time.
PerformReload(p, us, stores) ==
    /\ updater' = UpdateFlags(us, stores)
    /\ calls' = [calls EXCEPT ![p] = [stores |-> stores, pc |-> "count"]]
    /\ missed' = (missed \/ \E q \in Callers \ {p} : calls[q] # None)

\* The entries of a list at some positions, in their order.
Pick(list, kept) ==
    [n \in 1..Cardinality(kept) |->
        list[CHOOSE i \in kept : Cardinality({j \in kept : j <= i}) = n]]

\* _remove_dead_threads() removes from the list it iterates over, so that it skips
\* the thread after one that it removes: of dead threads that follow one another it
\* removes the first, the third and so on.
Removed(i) ==
    \E first \in 1..i :
        /\ (i - first) % 2 = 0
        /\ first = 1 \/ Alive(threads[first - 1])
        /\ \A j \in first..i : ~Alive(threads[j])
RemoveDead == Pick(threads, {i \in DOMAIN threads : ~Removed(i)})

\* Nothing to do if "Another thread is already scheduled to follow".
CountThreads(p) ==
    /\ calls[p] # None
    /\ calls[p].pc = "count"
    /\ threads' = RemoveDead
    /\ IF Len(RemoveDead) > 1
       THEN /\ calls' = [calls EXCEPT ![p] = None]
            /\ missed' = (missed \/ \E t \in Threads : updater[t].pc = "ending")
       ELSE /\ calls' = [calls EXCEPT ![p].pc = "start"]
            /\ UNCHANGED missed
    /\ UNCHANGED <<db, changes, unsignalled, redis, manager, inbox, updater, lock, workerVars, failures>>

StartThread(p) ==
    /\ calls[p] # None
    /\ calls[p].pc = "start"
    /\ LET new == CHOOSE t \in Threads : t \notin Range(threads)
       IN  /\ threads' = Append(threads, new)
           /\ updater' = [updater EXCEPT ![new] =
                             [pc |-> "waiting", flags |-> calls[p].stores, at |-> 1, found |-> << >>]]
    /\ calls' = [calls EXCEPT ![p] = None]
    /\ UNCHANGED <<db, changes, unsignalled, redis, manager, inbox, lock, workerVars, failures, missed>>

\* perform_reload() at the start, and again after the connection was lost.
InitialReload ==
    /\ manager = "reload"
    /\ manager' = "subscribe"
    /\ PerformReload(Main, updater, Stores)
    /\ UNCHANGED <<db, changes, unsignalled, redis, inbox, threads, lock, workerVars, failures>>

Subscribe ==
    /\ manager = "subscribe"
    /\ calls[Main] = None
    /\ manager' = "listening"
    /\ UNCHANGED <<db, changes, unsignalled, redis, inbox, calls, threads, updater, lock, workerVars, failures, missed>>

\* A message arrives. One that concerns no store is passed over.
ReceiveMessage ==
    /\ manager = "listening"
    /\ calls[Main] = None
    /\ inbox # << >>
    /\ inbox' = Tail(inbox)
    /\ IF Head(inbox) = {}
       THEN UNCHANGED <<calls, updater, missed>>
       ELSE PerformReload(Main, updater, Head(inbox))
    /\ UNCHANGED <<db, changes, unsignalled, redis, manager, threads, lock, workerVars, failures>>

\* redis.ConnectionError in listen().
LoseManagerConnection ==
    /\ "managerConnection" \in Operations
    /\ manager = "listening"
    /\ calls[Main] = None
    /\ changes + failures < MaxEvents
    /\ failures' = failures + 1
    /\ inbox' = << >>
    /\ manager' = "reload"
    /\ UNCHANGED <<db, changes, unsignalled, redis, calls, threads, updater, lock, workerVars, missed>>

-----------------------------------------------------------------------------
(* PreloadUpdater.run() *)

\* Mutant: the lock is not there.
AcquireWithoutLock(t) ==
    /\ updater[t].pc = "waiting"
    /\ lock' = t
    /\ updater' = [updater EXCEPT ![t].pc = "check"]
    /\ UNCHANGED <<db, changes, unsignalled, redis, manager, inbox, calls, threads, workerVars, failures, missed>>

Acquire(t) ==
    /\ updater[t].pc = "waiting"
    /\ lock = None
    /\ lock' = t
    /\ updater' = [updater EXCEPT ![t].pc = "check"]
    /\ UNCHANGED <<db, changes, unsignalled, redis, manager, inbox, calls, threads, workerVars, failures, missed>>

\* What a query for some classes returns now.
QueryResult(classes) == [c \in classes |-> db[c]]

\* The thread goes on to the next store, or to the end.
NextStore(u) ==
    [u EXCEPT !.at = @ + 1, !.pc = IF u.at = Len(StoreOrder) THEN "signal" ELSE "check",
              !.found = << >>]

\* The flag of the next store, and the first query if it is set.
CheckFlag(t) ==
    /\ updater[t].pc = "check"
    /\ LET u == updater[t]
           s == StoreOrder[u.at]
       IN  updater' = [updater EXCEPT ![t] =
              IF s \notin u.flags THEN NextStore(u)
              ELSE [u EXCEPT !.pc = IF MemberQuery(s) = {} THEN "write" ELSE "members",
                             !.found = QueryResult(FirstQuery(s))]]
    /\ UNCHANGED <<db, changes, unsignalled, redis, manager, inbox, calls, threads, lock, workerVars, failures, missed>>

WithMembers(found, members) ==
    [c \in DOMAIN found \union DOMAIN members |->
        IF c \in DOMAIN found THEN found[c] ELSE members[c]]

\* The second query of _update_set(), at a later time: no transaction spans them.
QueryMembers(t) ==
    /\ updater[t].pc = "members"
    /\ updater' = [updater EXCEPT ![t].pc = "write",
          ![t].found = WithMembers(@, QueryResult(MemberQuery(StoreOrder[updater[t].at])))]
    /\ UNCHANGED <<db, changes, unsignalled, redis, manager, inbox, calls, threads, lock, workerVars, failures, missed>>

\* update_route_store() and update_set_store(): one Redis transaction.
UpdateStore(t) ==
    /\ updater[t].pc = "write"
    /\ redis' = [redis EXCEPT ![StoreOrder[updater[t].at]] = updater[t].found]
    /\ updater' = [updater EXCEPT ![t] = NextStore(@)]
    /\ UNCHANGED <<db, changes, unsignalled, manager, inbox, calls, threads, lock, workerVars, failures, missed>>

\* signal_redis_store_updated(), to the workers that are subscribed.
SignalRedisStoreUpdated(t) ==
    /\ updater[t].pc = "signal"
    /\ worker' = [w \in Workers |-> IF worker[w].pc = "off" THEN worker[w]
                                    ELSE [worker[w] EXCEPT !.inbox = @ + 1]]
    /\ missed' = (missed \/ \E w \in Workers : worker[w].pc = "off")
    /\ updater' = [updater EXCEPT ![t].pc = "release"]
    /\ UNCHANGED <<db, changes, unsignalled, redis, manager, inbox, calls, threads, lock, memory, failures>>

\* Mutant: the update is not tried again.
GiveUp(t, us) == updater' = us /\ UNCHANGED <<calls, missed>>

\* perform_reload() of everything by the thread, after an error.
Retry(t, us) == PerformReload(t, us, Stores)

\* _handle_preload_update_error(): a store could not be written, or the signal not
\* be sent. The thread goes on.
PreloadUpdateError(t) ==
    /\ "fail" \in Operations
    /\ changes + failures < MaxEvents
    /\ failures' = failures + 1
    /\ \/ updater[t].pc = "write" /\ Retry(t, [updater EXCEPT ![t] = NextStore(@)])
       \/ updater[t].pc = "signal" /\ Retry(t, [updater EXCEPT ![t].pc = "release"])
    /\ UNCHANGED <<db, changes, unsignalled, redis, manager, inbox, threads, lock, workerVars>>

\* Any other exception, with the lock held: one of the queries.
UpdateException(t) ==
    /\ "fail" \in Operations
    /\ changes + failures < MaxEvents
    /\ failures' = failures + 1
    /\ updater[t].pc \in {"check", "members"}
    /\ Retry(t, [updater EXCEPT ![t].pc = "release"])
    /\ UNCHANGED <<db, changes, unsignalled, redis, manager, inbox, threads, lock, workerVars>>

\* The lock is released, after which the thread ends.
Release(t) ==
    /\ updater[t].pc = "release"
    /\ lock' = None
    /\ updater' = [updater EXCEPT ![t].pc = "ending"]
    /\ UNCHANGED <<db, changes, unsignalled, redis, manager, inbox, calls, threads, workerVars, failures, missed>>

EndThread(t) ==
    /\ updater[t].pc = "ending"
    /\ updater' = [updater EXCEPT ![t] = NoThread]
    /\ UNCHANGED <<db, changes, unsignalled, redis, manager, inbox, calls, threads, lock, workerVars, failures, missed>>

-----------------------------------------------------------------------------
(* Preloader *)

\* PersistentPubSubWorkerThread.run() subscribes, also after an error.
SubscribeWorker(w) ==
    /\ worker[w].pc = "off"
    /\ worker' = [worker EXCEPT ![w].pc = "listening"]
    /\ UNCHANGED <<db, changes, unsignalled, redis, managerVars, memory, failures, missed>>

\* _load_preload_data_into_memory() waits until there are routes.
StartLoading(w) ==
    /\ worker[w].pc = "listening"
    /\ worker[w].inbox > 0
    /\ redis["routes"] # None
    /\ worker' = [worker EXCEPT ![w].pc = "loading", ![w].inbox = @ - 1, ![w].at = 1]
    /\ UNCHANGED <<db, changes, unsignalled, redis, managerVars, memory, failures, missed>>

Loaded(w) == [worker[w].found EXCEPT ![StoreOrder[worker[w].at]] = redis[StoreOrder[worker[w].at]]]

\* One HGETALL per store; after the last one the new stores replace the old.
LoadStore(w) ==
    /\ worker[w].pc = "loading"
    /\ IF worker[w].at + 1 = Done
       THEN /\ memory' = [memory EXCEPT ![w] = Loaded(w)]
            /\ worker' = [worker EXCEPT ![w] = [pc |-> "listening", inbox |-> @.inbox, at |-> 1,
                                                found |-> NothingFound]]
       ELSE /\ worker' = [worker EXCEPT ![w] = [pc |-> "loading", inbox |-> @.inbox, at |-> @.at + 1,
                                                found |-> Loaded(w)]]
            /\ UNCHANGED memory
    /\ UNCHANGED <<db, changes, unsignalled, redis, managerVars, failures, missed>>

\* A lost connection, or another error: the thread subscribes again.
LoseWorkerConnection(w) ==
    /\ "workerConnection" \in Operations
    /\ worker[w].pc # "off"
    /\ changes + failures < MaxEvents
    /\ failures' = failures + 1
    /\ worker' = [worker EXCEPT ![w] = [pc |-> "off", inbox |-> 0, at |-> 1, found |-> NothingFound]]
    /\ missed' = (missed \/ worker[w].pc = "loading" \/ worker[w].inbox > 0)
    /\ UNCHANGED <<db, changes, unsignalled, redis, managerVars, memory>>

-----------------------------------------------------------------------------

Transactions ==
    \/ \E classes \in SUBSET Classes \ {{}} : Commit(classes)
    \/ \E u \in unsignalled : SignalReload(u) \/ LoseSignal(u)

Manager ==
    ClearExistingData \/ InitialReload \/ Subscribe \/ ReceiveMessage
    \/ CountThreads(Main) \/ StartThread(Main)

Updater(t) ==
    \/ CountThreads(t) \/ StartThread(t)
    \/ /\ calls[t] = None
       /\ \/ Acquire(t) \/ CheckFlag(t) \/ QueryMembers(t) \/ UpdateStore(t)
          \/ SignalRedisStoreUpdated(t) \/ Release(t) \/ EndThread(t)

Worker(w) == SubscribeWorker(w) \/ StartLoading(w) \/ LoadStore(w)

Errors ==
    \/ LoseManagerConnection
    \/ \E t \in Threads : calls[t] = None /\ (PreloadUpdateError(t) \/ UpdateException(t))
    \/ \E w \in Workers : LoseWorkerConnection(w)

Next ==
    \/ Transactions
    \/ Manager
    \/ \E t \in Threads : Updater(t)
    \/ \E w \in Workers : Worker(w)
    \/ Errors

Spec == Init /\ [][Next]_vars

\* Processes and threads go on, and a transaction that is committed signals.
FairSpec ==
    /\ Spec
    /\ WF_vars(\E u \in unsignalled : SignalReload(u))
    /\ WF_vars(Manager)
    /\ \A t \in Threads : WF_vars(Updater(t))
    /\ \A w \in Workers : WF_vars(Worker(w))

-----------------------------------------------------------------------------
(* Properties *)

\* A copy of the stores, of which some may be absent.
CopyOK(f) ==
    /\ f = [s \in Stores |-> f[s]]
    /\ \A s \in Stores : f[s] \in StoreType(s) \union {None}

\* The type of every variable.
StoresType ==
    /\ db \in [Classes -> Nat]
    /\ \A u \in unsignalled : u.classes \subseteq Classes
    /\ CopyOK(redis)
ManagerType ==
    /\ manager \in {"clear", "reload", "subscribe", "listening"}
    /\ inbox \in Seq(SUBSET Stores)
    /\ calls \in [Callers -> Call \union {None}]
    /\ threads \in Seq(Threads)
    /\ lock \in Threads \union {None}
UpdaterType ==
    /\ updater = [t \in Threads |-> [pc |-> updater[t].pc, flags |-> updater[t].flags,
                                     at |-> updater[t].at, found |-> updater[t].found]]
    /\ \A t \in Threads :
         /\ updater[t].pc \in {"dead", "waiting", "check", "members", "write", "signal",
                               "release", "ending"}
         /\ updater[t].flags \subseteq Stores
         /\ updater[t].at \in 1..Done
WorkerType ==
    /\ worker = [w \in Workers |-> [pc |-> worker[w].pc, inbox |-> worker[w].inbox,
                                    at |-> worker[w].at, found |-> worker[w].found]]
    /\ \A w \in Workers :
         /\ worker[w].pc \in {"off", "listening", "loading"}
         /\ worker[w].inbox \in Nat
         /\ worker[w].at \in 1..Len(StoreOrder)
         /\ CopyOK(worker[w].found)
    /\ memory = [w \in Workers |-> memory[w]]
    /\ \A w \in Workers : memory[w] = None \/ CopyOK(memory[w])
TypeOK == StoresType /\ ManagerType /\ UpdaterType /\ WorkerType

\* The thread will still write this store, from what the database holds now.
WillUpdate(t, s) ==
    LET u == updater[t]
    IN  \/ u.pc = "waiting" /\ s \in u.flags
        \/ u.pc \in {"check", "members", "write"} /\ s \in u.flags
           /\ \E i \in u.at + (IF u.pc = "check" THEN 0 ELSE 1) .. Len(StoreOrder) : StoreOrder[i] = s
        \/ /\ u.pc \in {"members", "write"}
           /\ StoreOrder[u.at] = s
           /\ \A c \in DOMAIN u.found : u.found[c] = db[c]

\* No reload is forgotten: if none was missed, a store that is out of date
\* will be updated by the reload at the start, by a signal under way, by the call
\* that is running or by a thread that has yet to query the database. This is what
\* perform_reload() relies on when it starts no thread (preload.py 299-347).
ReloadPending ==
    ~missed =>
        \A s \in Stores : redis[s] # Current(s) =>
            \/ manager \in {"clear", "reload"}
            \/ \E u \in unsignalled : s \in Relevant(u.classes)
            \/ \E i \in DOMAIN inbox : s \in inbox[i]
            \/ \E p \in Callers : calls[p] # None /\ s \in calls[p].stores
            \/ \E t \in Range(threads) : WillUpdate(t, s)

NotOlder(new, old) ==
    new # None /\ old # None => \A c \in DOMAIN old : old[c] <= new[c]

\* Answers do not go back in time: a worker that has loaded a store never replaces
\* it by an older one, whatever threads overlap and connections are lost
\* (preload.py 194-231, 455-480).
AnswersAdvance ==
    [][\A w \in Workers, s \in Stores :
          memory[w] # None /\ memory'[w] # None => NotOlder(memory'[w][s], memory[w][s])]_memory

\* Every committed change gets to every worker: once no more transactions are
\* committed, all answers are up to date, whatever fails and is tried again. The
\* exceptions are signals nobody receives, which are not repeated (preload.py 102-121, 394-401).
AnswersCatchUp ==
    <>[](\/ missed
         \/ \A w \in Workers : memory[w] # None /\ \A s \in Stores : memory[w][s] = Current(s))
=============================================================================
