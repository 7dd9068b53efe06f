------------------------------ MODULE Queries ------------------------------
(***************************************************************************)
(* Queries over whois: the pool of workers and their connections, the      *)
(* parser with the state it keeps for a connection, searches in the        *)
(* database, and the resolving of sets from the preload store in memory,   *)
(* which its own thread replaces while queries run. A GraphQL request for  *)
(* the members of a set is a line of a connection of its own.              *)
(***************************************************************************)
EXTENDS Integers, Sequences, FiniteSets, SequencesExt

CONSTANTS
    None, Connections, Workers,
    Sources,        \* names of the configured sources, a sequence
    Aliases,        \* source_aliases: a function from names to sequences of sources
    SourcesDefault, \* sources_default, <<>> if not set
    RpkiAware,      \* rpki.roa_source is set
    Objects,        \* the rows of rpsl_objects
    ASNs, RoutePrefixes, \* members of sets that are not sets
    Stores,         \* the successive contents of the preload store
    Setup           \* scenarios: records with the fields below

StoreNames == <<"route4", "route6", "as-set", "route-set">>

ASSUME QueriesAssumption ==
    /\ Range(SourcesDefault) \subseteq Range(Sources) \union DOMAIN Aliases
    /\ \A n \in DOMAIN Aliases : Range(Aliases[n]) \subseteq Range(Sources)
    /\ Len(Stores) > 0
    /\ \A n \in DOMAIN Setup :
          /\ Setup[n].connections \subseteq Connections
          /\ Setup[n].denied \subseteq Connections \* not in server.whois.access_list
          /\ Setup[n].lines # {}                   \* what clients send
          /\ Setup[n].length \in Nat               \* bound on the lines of a connection
          /\ Setup[n].ahead \in Nat                \* bound on the lines that are not read yet
          /\ Setup[n].loaded \in BOOLEAN           \* the preload store is in memory
          /\ Setup[n].versions \in 1..Len(Stores)  \* bound on Publish

VARIABLES
    scenario,
    published,  \* version of the preload store in Redis
    loader,     \* [Workers -> version being loaded, and the next store to replace]
    memory,     \* [Workers -> version of each store in memory, 0 before the first]
    queue,      \* connections accepted and not taken by a worker
    socket,     \* [Connections -> state, and lines that were not read]
    session,    \* [Workers -> WhoisQueryParser of the connection, or None]
    task,       \* [Workers -> query on the preload store in progress, or None]
    answer,     \* last answer of each connection
    log         \* lines processed on each connection

preloadVars == <<published, loader, memory>>
poolVars == <<queue, socket, session>>
vars == <<scenario, preloadVars, poolVars, task, answer, log>>

-----------------------------------------------------------------------------
(* Sources *)

AllValidSources == Sources \o SetToSeq(DOMAIN Aliases)

SelectedByDefault == IF SourcesDefault # <<>> THEN SourcesDefault ELSE AllValidSources

ValidSources(names) == Range(names) \subseteq Range(AllValidSources)

\* Real sources, with aliases resolved, each of them once.
SourcesResolved(names) ==
    LET real(n) == IF n \in DOMAIN Aliases THEN Aliases[n] ELSE <<n>>
        add(list, n) == IF Contains(list, n) THEN list ELSE Append(list, n)
    IN  FoldLeft(add, <<>>, FlattenSeq([i \in DOMAIN names |-> real(names[i])]))

DefaultSources == SourcesResolved(SelectedByDefault)

-----------------------------------------------------------------------------
(* The parser of a connection, with the sources resolved *)

NewSession(c) ==
    [conn |-> c, multiple |-> FALSE, excluded |-> {}, sources |-> DefaultSources,
     classes |-> {}, rpki |-> RpkiAware, scope |-> TRUE, preference |-> TRUE]

\* _prepare_query: rows that pass the filters of the connection.
Prepared(s) ==
    {o \in Objects : /\ o.source \in Range(s.sources)
                     /\ s.classes # {} => o.class \in s.classes
                     /\ s.rpki => o.rpki # "invalid"
                     /\ s.scope => o.scope = "in_scope"
                     /\ s.preference => o.preference = "visible"}

HasIp(o) == o.ip # <<>>
Size(ip) == ip[2] - ip[1]
Within(a, b) == b[1] <= a[1] /\ b[2] >= a[2]

\* ip_exact, ip_less_specific, ip_more_specific
IpMatches(o, ip, how) ==
    /\ HasIp(o)
    /\ CASE how = "exact" -> o.ip = ip
         [] how = "less"  -> Within(ip, o.ip)
         [] how = "more"  -> Within(o.ip, ip) /\ o.ip # ip

\* Mutant: the smallest less specific is that of all objects, not of those selected.
SmallestOverall(rows, ip) ==
    LET less == {o \in Objects : IpMatches(o, ip, "less") /\ o.ip # ip}
    IN  {o \in rows \intersect less : \A p \in less : Size(o.ip) <= Size(p.ip)}

\* ip_less_specific_one_level: the subquery repeats the filters set so far.
OneLevel(rows, ip) ==
    LET less == {o \in rows : IpMatches(o, ip, "less") /\ o.ip # ip}
    IN  {o \in less : \A p \in less : Size(o.ip) <= Size(p.ip)}

RouteSearch(rows, q) ==
    LET routes == {o \in rows : o.class \in {"route", "route6"}}
    IN  IF q.how = "one level" THEN OneLevel(routes, q.ip)
        ELSE {o \in routes : IpMatches(o, q.ip, q.how)}

TextSearch(rows, q) ==
    CASE q.by = "asn" -> {o \in rows : /\ o.class \in {"as-block", "as-set", "aut-num"}
                                       /\ o.asn # <<>> /\ Within(<<q.value, q.value>>, o.asn)}
      [] q.by = "ip"  -> {o \in rows : IpMatches(o, q.value, "less")}
      [] q.by = "key" -> {o \in rows : o.pk = q.value}

\* The first row in the order of the sources.
KeyLookup(rows, q, sources) ==
    LET found == {o \in rows : o.class = q.class /\ o.pk = q.pk}
        rank(o) == CHOOSE i \in DOMAIN sources : sources[i] = o.source
    IN  {o \in found : \A p \in found : rank(o) <= rank(p)}

Searches == {"key", "route", "inverse", "text"}

\* A query without a valid parameter raises before _prepare_query.
Search(s, q) ==
    LET rows == Prepared(s)
    IN  CASE q.kind = "key"     -> KeyLookup(rows, q, s.sources)
          [] q.kind = "route"   -> RouteSearch(rows, q)
          [] q.kind = "inverse" -> {o \in rows : q.mntner \in o.mnts}
          [] q.kind = "text"    -> TextSearch(rows, q)

\* handle_ripe_command, one component: searches but the free text ones end the line.
RipeFlag(acc, q) ==
    CASE acc.done -> acc
      [] ~q.ok -> [acc EXCEPT !.done = TRUE, !.result = {}, !.error = TRUE]
      [] q.kind = "k" -> [acc EXCEPT !.session.multiple = TRUE]
      [] q.kind = "sources" ->
            IF ValidSources(q.names) THEN [acc EXCEPT !.session.sources = SourcesResolved(q.names)]
            ELSE [acc EXCEPT !.done = TRUE, !.result = {}, !.error = TRUE]
      [] q.kind = "a" -> [acc EXCEPT !.session.sources = DefaultSources]
      [] q.kind = "T" -> [acc EXCEPT !.session.classes = q.classes]
      [] q.kind = "t" -> [acc EXCEPT !.done = TRUE, !.result = {}]
      [] q.kind = "report" -> [acc EXCEPT !.result = {}]
      [] q.kind \in Searches ->
            [acc EXCEPT !.result = Search(acc.session, q), !.session.classes = {},
                        !.done = (q.kind # "text")]

RipeCommand(s, line) ==
    FoldLeft(RipeFlag, [session |-> s, result |-> {}, error |-> FALSE, done |-> FALSE], line.flags)

\* handle_irrd_command, the commands that need no preload store. The others
\* (version, timeout, user agent, serials, status, lists) leave queries alone.
IrrdCommand(s, line) ==
    LET ok(t, r) == [session |-> t, result |-> r, error |-> FALSE]
        failed == [session |-> s, result |-> {}, error |-> TRUE]
    IN  CASE ~line.ok -> failed
          [] line.kind = "!" -> ok([s EXCEPT !.multiple = TRUE], {})
          [] line.kind = "no-rpki-filter" -> ok([s EXCEPT !.rpki = FALSE], {})
          [] line.kind = "no-scope-filter" -> ok([s EXCEPT !.scope = FALSE], {})
          [] line.kind = "no-preference-filter" -> ok([s EXCEPT !.preference = FALSE], {})
          [] line.kind = "sources" -> IF ValidSources(line.names) THEN ok([s EXCEPT !.sources = SourcesResolved(line.names)], {})
                                      ELSE failed
          [] line.kind = "exclude" -> ok([s EXCEPT !.excluded = line.names], {})
          [] line.kind = "other" -> ok(s, {})
          [] line.kind \in Searches -> ok([s EXCEPT !.classes = {}], Search(s, line))

Resolving == {"origin", "routes", "members", "graphql"}

-----------------------------------------------------------------------------
(* Resolving sets *)

\* set_members: where a set is looked for, in order.
Places(class, sources) ==
    LET in(store) == [i \in DOMAIN sources |-> <<store, sources[i]>>]
    IN  IF class = "as-set" THEN in("as-set") ELSE in("as-set") \o in("route-set")

Loaded(w) == \A i \in DOMAIN StoreNames : memory[w][StoreNames[i]] > 0

Entries(v, store) == Stores[v][store]

Origins(asns, s, ip) ==
    {<<store, source, asn>> : store \in (IF ip = None THEN {"route4", "route6"} ELSE {ip}),
                              source \in Range(s.sources), asn \in asns}

\* Mutant: sets at every level are only looked for in the source of the root.
LevelInRoot(t, names, s) ==
    [t EXCEPT !.stage = "find", !.seen = @ \union names, !.names = names, !.name = None, !.place = 1,
              !.members = {}, !.leaf = {},
              !.places = Places(t.class, IF t.root = None THEN s.sources ELSE <<t.root>>)]

\* The task of a level of _recursive_set_resolve.
Level(t, names, s) ==
    [t EXCEPT !.stage = "find", !.seen = @ \union names, !.names = names, !.name = None, !.place = 1,
              !.members = {}, !.leaf = {},
              !.places = Places(t.class, IF t.root = None THEN s.sources ELSE <<t.root>>),
              !.root = None]

NewTask(w, line, s) ==
    LET t == [line |-> line, stage |-> "routes", from |-> memory[w], todo |-> {}, result |-> {},
              class |-> IF line.kind = "routes" THEN "as-set" ELSE None,
              depth |-> IF line.kind = "graphql" THEN line.depth ELSE 0,
              root |-> IF line.kind = "graphql" THEN line.source ELSE None,
              seen |-> {}, names |-> {}, name |-> None, places |-> <<>>, place |-> 1,
              members |-> {}, leaf |-> {}]
    IN  IF line.kind = "origin" THEN [t EXCEPT !.todo = Origins({line.asn}, s, line.ip)]
        ELSE Level(t, {line.set}, s)

\* One access to a store in memory for one name.
Lookup(w) ==
    LET t == task[w] IN
    /\ t # None /\ t.stage = "find" /\ t.names # {}
    /\ Loaded(w)
    /\ \E n \in (IF t.name = None THEN t.names ELSE {t.name}) :
          LET store == t.places[t.place][1]
              found == Entries(memory[w][store], store)
              key == <<t.places[t.place][2], n>>
              next == [t EXCEPT !.names = @ \ {n}, !.name = None, !.place = 1]
          IN  task' = [task EXCEPT ![w] =
                  IF key \in DOMAIN found
                  THEN [next EXCEPT !.members = @ \union found[key],
                                    !.class = IF @ = None THEN store ELSE @]
                  ELSE IF t.place < Len(t.places) THEN [t EXCEPT !.name = n, !.place = @ + 1]
                  ELSE [next EXCEPT !.leaf = @ \union {n}]]
    /\ UNCHANGED <<scenario, preloadVars, poolVars, answer, log>>

Direct(t) ==
    (IF t.class \in {None, "route-set"} THEN t.members \intersect RoutePrefixes ELSE {})
        \union (IF t.class = "route-set" THEN {} ELSE t.members \intersect ASNs)

\* The members found at a level, before its AS numbers become prefixes.
Collect(w) ==
    LET t == task[w]
        s == session[w]
    IN
    /\ t # None /\ t.stage = "find" /\ t.names = {}
    /\ task' = [task EXCEPT ![w] =
          IF t.line.kind = "members" /\ ~t.line.recursive
          THEN [t EXCEPT !.stage = "routes", !.result = t.members \union t.leaf]
          ELSE [t EXCEPT !.stage = "expand", !.result = @ \union Direct(t),
                         !.todo = IF t.class = "route-set" THEN Origins(t.members \intersect ASNs, s, None)
                                  ELSE {}]]
    /\ UNCHANGED <<scenario, preloadVars, poolVars, answer, log>>

\* routes_for_origins: one access to a store in memory.
Expand(w) ==
    LET t == task[w] IN
    /\ t # None /\ t.stage \in {"expand", "routes"} /\ t.todo # {}
    /\ Loaded(w)
    /\ \E x \in t.todo :
          LET found == Entries(memory[w][x[1]], x[1])
              key == <<x[2], x[3]>>
          IN  task' = [task EXCEPT ![w].todo = @ \ {x},
                                   ![w].result = @ \union (IF key \in DOMAIN found THEN found[key] ELSE {})]
    /\ UNCHANGED <<scenario, preloadVars, poolVars, answer, log>>

Further(t, s) ==
    t.members \ (Direct(t) \union (t.members \intersect ASNs) \union t.seen
                           \union (IF t.line.kind = "graphql" THEN t.line.excluded ELSE s.excluded))

\* The rest of _recursive_set_resolve: the depth, and the next level.
Deepen(w) ==
    LET t == [task[w] EXCEPT !.depth = @ - 1]
        s == session[w]
        ended == t.depth = 0 \/ Further(t, s) = {}
        all == IF t.depth = 0 THEN t.result \union t.members \union t.leaf ELSE t.result
    IN
    /\ task[w] # None /\ task[w].stage = "expand" /\ task[w].todo = {}
    /\ task' = [task EXCEPT ![w] =
          IF ~ended THEN Level(t, Further(t, s), s)
          ELSE IF t.line.kind = "routes"
          THEN [t EXCEPT !.stage = "routes", !.result = {}, !.todo = Origins(all, s, t.line.ip)]
          ELSE [t EXCEPT !.stage = "routes", !.result = all \ {t.line.set}]]
    /\ UNCHANGED <<scenario, preloadVars, poolVars, answer, log>>

-----------------------------------------------------------------------------
(* The preload store *)

\* External: PreloadStoreManager has updated Redis.
Publish ==
    /\ published < Setup[scenario].versions
    /\ published' = published + 1
    /\ UNCHANGED <<scenario, loader, memory, poolVars, task, answer, log>>

\* _load_preload_data_into_memory, which reads Redis ...
BeginLoad(w) ==
    /\ loader[w].next > Len(StoreNames)
    /\ loader[w].version < published
    /\ loader' = [loader EXCEPT ![w] = [version |-> published, next |-> 1]]
    /\ UNCHANGED <<scenario, published, memory, poolVars, task, answer, log>>

\* ... and then replaces the stores one after the other.
Swap(w) ==
    /\ loader[w].next <= Len(StoreNames)
    /\ memory' = [memory EXCEPT ![w][StoreNames[loader[w].next]] = loader[w].version]
    /\ loader' = [loader EXCEPT ![w].next = @ + 1]
    /\ UNCHANGED <<scenario, published, poolVars, task, answer, log>>

-----------------------------------------------------------------------------
(* Workers and connections *)

\* WhoisTCPServer.process_request
Connect(c) ==
    /\ c \in Setup[scenario].connections
    /\ socket[c].state = "none"
    /\ socket' = [socket EXCEPT ![c].state = "open"]
    /\ queue' = Append(queue, c)
    /\ UNCHANGED <<scenario, preloadVars, session, task, answer, log>>

Send(c, line) ==
    /\ socket[c].state = "open"
    /\ Len(log[c]) + Len(socket[c].lines) < Setup[scenario].length
    /\ Len(socket[c].lines) < Setup[scenario].ahead
    /\ socket' = [socket EXCEPT ![c].lines = Append(@, line)]
    /\ UNCHANGED <<scenario, preloadVars, queue, session, task, answer, log>>

HangUp(c) ==
    /\ socket[c].state = "open"
    /\ socket' = [socket EXCEPT ![c].state = "gone"]
    /\ UNCHANGED <<scenario, preloadVars, queue, session, task, answer, log>>

\* is_client_permitted, for server.whois.access_list
Permitted(c) == c \notin Setup[scenario].denied

\* WhoisWorker.run takes a connection.
Take(w) ==
    /\ session[w] = None /\ queue # <<>>
    /\ LET c == Head(queue) IN
       IF ~Permitted(c)
       THEN /\ socket' = [socket EXCEPT ![c] = [state |-> "closed", lines |-> <<>>]]
            /\ UNCHANGED session
       ELSE /\ session' = [session EXCEPT ![w] = NewSession(c)]
            /\ UNCHANGED socket
    /\ queue' = Tail(queue)
    /\ UNCHANGED <<scenario, preloadVars, task, answer, log>>

Close(w) ==
    /\ session' = [session EXCEPT ![w] = None]
    /\ socket' = [socket EXCEPT ![session[w].conn] = [state |-> "closed", lines |-> <<>>]]

\* The answer is written, with the parser as the line leaves it. The connection
\* stays in multiple command mode, unless writing fails.
Respond(w, s, left) ==
    \/ /\ s.multiple
       /\ session' = [session EXCEPT ![w] = s]
       /\ socket' = [socket EXCEPT ![s.conn].lines = left]
    \/ /\ ~s.multiple \/ socket[s.conn].state = "gone"
       /\ Close(w)

Reading(w) == session[w] # None /\ task[w] = None

\* WhoisWorker.handle_query, for a line that needs no preload store.
Handle(w) ==
    /\ Reading(w)
    /\ LET s == session[w]
           lines == socket[s.conn].lines
       IN  /\ lines # <<>> /\ Head(lines).kind \notin Resolving \union {"quit"}
           /\ LET line == Head(lines)
                  done == IF line.kind = "ripe" THEN RipeCommand(s, line) ELSE IrrdCommand(s, line)
              IN  /\ answer' = [answer EXCEPT ![s.conn] = [line |-> line, result |-> done.result, error |-> done.error]]
                  /\ log' = [log EXCEPT ![s.conn] = Append(@, line)]
                  /\ Respond(w, done.session, Tail(lines))
    /\ UNCHANGED <<scenario, preloadVars, queue, task>>

\* A line that is answered from the preload store.
Begin(w) ==
    /\ Reading(w)
    /\ LET s == session[w]
           lines == socket[s.conn].lines
       IN  /\ lines # <<>> /\ Head(lines).kind \in Resolving
           /\ task' = [task EXCEPT ![w] = NewTask(w, Head(lines), s)]
           /\ log' = [log EXCEPT ![s.conn] = Append(@, Head(lines))]
           /\ socket' = [socket EXCEPT ![s.conn].lines = Tail(lines)]
    /\ UNCHANGED <<scenario, preloadVars, queue, session, answer>>

Finish(w) ==
    LET t == task[w]
        s == session[w]
    IN
    /\ t # None /\ t.stage = "routes" /\ t.todo = {}
    /\ answer' = [answer EXCEPT ![s.conn] =
          [line |-> t.line, result |-> t.result, from |-> t.from, to |-> memory[w],
           sources |-> s.sources, class |-> t.class,
           excluded |-> IF t.line.kind = "graphql" THEN t.line.excluded ELSE s.excluded]]
    /\ task' = [task EXCEPT ![w] = None]
    /\ Respond(w, s, socket[s.conn].lines)
    /\ UNCHANGED <<scenario, preloadVars, queue, log>>

Quit(w) ==
    /\ Reading(w)
    /\ LET lines == socket[session[w].conn].lines
       IN  lines # <<>> /\ Head(lines).kind = "quit"
    /\ Close(w)
    /\ UNCHANGED <<scenario, preloadVars, queue, task, answer, log>>

\* Mutant: without the timer.
NoTimer(w) == FALSE /\ UNCHANGED vars

\* The timer for a line closes the connection, also when the line has just arrived.
TimeOut(w) ==
    /\ Reading(w)
    /\ socket[session[w].conn].state = "open"
    /\ socket' = [socket EXCEPT ![session[w].conn].state = "gone"]
    /\ UNCHANGED <<scenario, preloadVars, queue, session, task, answer, log>>

EndOfFile(w) ==
    /\ Reading(w)
    /\ socket[session[w].conn].state = "gone"
    /\ socket[session[w].conn].lines = <<>>
    /\ Close(w)
    /\ UNCHANGED <<scenario, preloadVars, queue, task, answer, log>>

-----------------------------------------------------------------------------

Init ==
    /\ scenario \in DOMAIN Setup
    /\ published = 1
    /\ LET v == IF Setup[scenario].loaded THEN 1 ELSE 0
       IN  /\ loader = [w \in Workers |-> [version |-> v, next |-> Len(StoreNames) + 1]]
           /\ memory = [w \in Workers |-> [n \in Range(StoreNames) |-> v]]
    /\ queue = <<>>
    /\ socket = [c \in Connections |-> [state |-> "none", lines |-> <<>>]]
    /\ session = [w \in Workers |-> None]
    /\ task = [w \in Workers |-> None]
    /\ answer = [c \in Connections |-> None]
    /\ log = [c \in Connections |-> <<>>]

Client(c) == Connect(c) \/ HangUp(c) \/ \E line \in Setup[scenario].lines : Send(c, line)

Process(w) == Handle(w) \/ Begin(w) \/ Lookup(w) \/ Collect(w) \/ Expand(w) \/ Deepen(w) \/ Finish(w)
                  \/ Quit(w) \/ EndOfFile(w)

Next ==
    \/ Publish
    \/ \E c \in Connections : Client(c)
    \/ \E w \in Workers : BeginLoad(w) \/ Swap(w) \/ Take(w) \/ Process(w) \/ TimeOut(w)

\* The threads of a worker go on; clients and new data need not.
Fairness ==
    \A w \in Workers : /\ WF_vars(BeginLoad(w)) /\ WF_vars(Swap(w))
                       /\ WF_vars(Take(w)) /\ WF_vars(Process(w)) /\ WF_vars(TimeOut(w))

Spec == Init /\ [][Next]_vars /\ Fairness

-----------------------------------------------------------------------------
(* Answers from the preload store *)

Names == UNION {{key[2] : key \in DOMAIN Stores[v][store]} : v \in DOMAIN Stores, store \in {"as-set", "route-set"}}
             \union UNION UNION {{Stores[v][store][key] : key \in DOMAIN Stores[v][store]} :
                                     v \in DOMAIN Stores, store \in {"as-set", "route-set"}}

\* The versions of a store that were in memory while a query ran.
Versions(a, store) == (IF a.from[store] = 0 THEN 1 ELSE a.from[store])..a.to[store]

Contents(v, store, source, name) ==
    LET found == Entries(v, store) IN IF <<source, name>> \in DOMAIN found THEN found[<<source, name>>] ELSE {}

PlacesOf(a, name) ==
    IF name # a.line.set THEN Places(a.class, a.sources)
    ELSE Places(a.class, IF a.line.kind = "graphql" THEN <<a.line.source>> ELSE a.sources)

Ever(a, p, name) == \E v \in Versions(a, p[1]) : <<p[2], name>> \in DOMAIN Entries(v, p[1])
Always(a, p, name) == \A v \in Versions(a, p[1]) : <<p[2], name>> \in DOMAIN Entries(v, p[1])

\* Members that the set has in every version, in the place that comes first in all.
MustHave(a, name) ==
    LET places == PlacesOf(a, name)
        first == {i \in DOMAIN places : /\ Always(a, places[i], name)
                                        /\ \A j \in 1..(i - 1) : ~Ever(a, places[j], name)}
    IN  {m \in Names : \E i \in first : \A v \in Versions(a, places[i][1]) :
                            m \in Contents(v, places[i][1], places[i][2], name)}

\* Members that the set has in some version, in a place that may come first.
MayHave(a, name) ==
    LET places == PlacesOf(a, name)
        first == {i \in DOMAIN places : \A j \in 1..(i - 1) : ~Always(a, places[j], name)}
    IN  {m \in Names : \E i \in first : \E v \in Versions(a, places[i][1]) :
                            m \in Contents(v, places[i][1], places[i][2], name)}

\* Names at a distance of at most k sets from the one that is asked for.
Reached(a, members(_), k) ==
    LET near[n \in 0..k] ==
            IF n = 0 THEN {a.line.set}
            ELSE near[n - 1] \union (UNION {members(m) : m \in near[n - 1]} \ (a.excluded \union ASNs))
    IN  near[k]

RoutesIn(a, asns, routes(_, _, _), ip) ==
    UNION {routes(store, source, asn) : store \in (IF ip = None THEN {"route4", "route6"} ELSE {ip}),
                                        source \in Range(a.sources), asn \in asns}

\* AS numbers, or prefixes for a route-set or a query for routes.
ResolvedTo(a, members(_), routes(_, _, _)) ==
    LET k == IF a.line.kind = "graphql" /\ a.line.depth > 0 THEN a.line.depth - 1 ELSE Cardinality(Names)
        found == UNION {members(n) : n \in Reached(a, members, k)}
    IN  CASE a.line.kind = "origin" -> RoutesIn(a, {a.line.asn}, routes, a.line.ip)
          [] a.line.kind = "routes" -> RoutesIn(a, found \intersect ASNs, routes, a.line.ip)
          [] a.class = "route-set" -> (found \intersect RoutePrefixes) \union RoutesIn(a, found \intersect ASNs, routes, None)
          [] OTHER -> found \intersect ASNs

\* Names that a limited depth leaves unresolved, when the stores do not change.
Unresolved(a) ==
    LET members(n) == MayHave(a, n)
        last == Reached(a, members, a.line.depth - 1)
                    \ (IF a.line.depth = 1 THEN {} ELSE Reached(a, members, a.line.depth - 2))
        missing == {n \in last : \A i \in DOMAIN PlacesOf(a, n) : ~Ever(a, PlacesOf(a, n)[i], n)}
    IN  IF a.line.kind = "graphql" /\ a.line.depth > 0 /\ last # {}
        THEN (UNION {members(n) : n \in last} \union missing) \ {a.line.set}
        ELSE {}

\* The AS numbers or prefixes in the answer to a query on the preload store are
\* at least those which all versions of the store in memory during the query
\* agree on, and only such that one of the versions justifies, along every
\* chain of sets from the one asked for, although the thread that replaces the
\* stores interleaves with each access (_recursive_set_resolve, set_members,
\* routes_for_origins). When the stores do not change, the answer is exactly
\* what they contain, with cycles, excluded sets, sources and a depth.
AnswersBracketed ==
    \A c \in Connections :
        LET a == answer[c]
            must(n) == MustHave(a, n)
            may(n) == MayHave(a, n)
            mustRoutes(st, src, asn) == {p \in RoutePrefixes : \A v \in Versions(a, st) : p \in Contents(v, st, src, asn)}
            mayRoutes(st, src, asn) == {p \in RoutePrefixes : \E v \in Versions(a, st) : p \in Contents(v, st, src, asn)}
            most == ResolvedTo(a, may, mayRoutes)
        IN  a # None /\ a.line.kind \in Resolving =>
                IF a.line.kind = "members" /\ ~a.line.recursive
                THEN /\ must(a.line.set) \subseteq a.result \union {a.line.set}
                     /\ a.result \subseteq may(a.line.set) \union {a.line.set}
                ELSE /\ ResolvedTo(a, must, mustRoutes) \subseteq a.result
                     /\ a.result \intersect (IF a.class = "as-set" /\ a.line.kind # "routes" THEN ASNs ELSE RoutePrefixes)
                            \subseteq most
                     /\ a.from = a.to => a.result = most \union Unresolved(a)

-----------------------------------------------------------------------------
(* Answers from the database *)

\* What a connection has asked for, flag by flag.
FlagsOf(lines) ==
    FlattenSeq([i \in DOMAIN lines |-> IF lines[i].kind = "ripe" THEN lines[i].flags ELSE <<lines[i]>>])

Kinds(flags) == {flags[i].kind : i \in DOMAIN flags}

LastFlag(flags, kinds) ==
    LET at == {i \in DOMAIN flags : flags[i].kind \in kinds}
    IN  IF at = {} THEN None ELSE flags[CHOOSE i \in at : \A j \in at : j <= i]

\* The sources of the last flag that selects valid ones.
SelectedSources(flags) ==
    LET valid == SelectSeq(flags, LAMBDA f : f.kind = "a" \/ (f.kind = "sources" /\ ValidSources(f.names)))
    IN  IF valid = <<>> \/ Last(valid).kind = "a" THEN DefaultSources ELSE SourcesResolved(Last(valid).names)

VisibleTo(flags) ==
    LET sources == Range(SelectedSources(flags))
        kinds == Kinds(flags)
    IN  {o \in Objects : /\ o.source \in sources
                         /\ o.rpki # "invalid" \/ ~RpkiAware \/ "no-rpki-filter" \in kinds
                         /\ o.scope = "in_scope" \/ "no-scope-filter" \in kinds
                         /\ o.preference = "visible" \/ "no-preference-filter" \in kinds}

Addresses(ip) == ip[1]..ip[2]

\* Strictly less specific objects.
Above(rows, ip) == {o \in rows : HasIp(o) /\ Addresses(ip) \subseteq Addresses(o.ip) /\ o.ip # ip}

Asked(rows, q, sources) ==
    LET routes == {o \in rows : o.class \in {"route", "route6"}}
        before(o, p) == \E i, j \in DOMAIN sources : i < j /\ sources[i] = o.source /\ sources[j] = p.source
        keyed == {o \in rows : q.kind = "key" /\ o.class = q.class /\ o.pk = q.pk}
    IN  CASE q.kind = "key" -> {o \in keyed : ~ \E p \in keyed : before(p, o)}
          [] q.kind = "inverse" -> {o \in rows : q.mntner \in o.mnts}
          [] q.kind = "text" -> TextSearch(rows, q)
          [] q.how = "exact" -> {o \in routes : o.ip = q.ip}
          [] q.how = "less" -> {o \in routes : Addresses(q.ip) \subseteq Addresses(o.ip)}
          [] q.how = "more" -> {o \in routes : Addresses(o.ip) \subseteq Addresses(q.ip) /\ o.ip # q.ip}
          [] q.how = "one level" -> {o \in Above(routes, q.ip) :
                                        \A p \in Above(routes, q.ip) : ~(Addresses(p.ip) \subseteq Addresses(o.ip) /\ p.ip # o.ip)}

\* The answer to a search depends on the flags of its connection alone, and on
\* the object classes of its own line alone.
AnswerIsAsAsked(c) ==
    LET flags == FlagsOf(log[c])
        own == FlagsOf(<<answer[c].line>>)
        T == LastFlag(own, {"T"})
        q == LastFlag(own, Searches)
        rows == {o \in VisibleTo(flags) : T = None \/ o.class \in T.classes}
    IN  answer[c].result = Asked(rows, q, SelectedSources(flags))

SearchAnswered(c) ==
    /\ answer[c] # None
    /\ answer[c].line.kind \notin Resolving
    /\ ~answer[c].error
    /\ Kinds(FlagsOf(<<answer[c].line>>)) \intersect Searches # {}

\* An earlier line had -T, and no search that used it.
ClassesLeftOver(c) ==
    \E i \in 1..(Len(log[c]) - 1) :
        LET flags == FlagsOf(<<log[c][i]>>)
        IN  "T" \in Kinds(flags) /\ ~ \E j \in DOMAIN flags : flags[j].kind \in Searches /\ flags[j].ok

\* The objects in the answer to a search are those that match it, in the sources
\* selected last on this connection, without suppressed ones unless this very
\* connection disabled the filter: nothing of another connection of the worker,
\* and nothing of a line with errors (handle_query, _prepare_query).
SearchesHonourFilters ==
    \A c \in Connections : SearchAnswered(c) /\ ~ClassesLeftOver(c) => AnswerIsAsAsked(c)

\* Every connection is served and closed in the end, with fewer workers than
\* connections, clients that stay silent and a preload store that is not
\* loaded when the first query arrives (WhoisWorker.run, the timer of
\* handle_connection, set_members).
ConnectionsEnd == \A c \in Connections : socket[c].state # "none" ~> socket[c].state = "closed"
=============================================================================
