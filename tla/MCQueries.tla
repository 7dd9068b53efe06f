----------------------------- MODULE MCQueries -----------------------------
EXTENDS Queries

CONSTANTS c1, c2, w1

MCSources == <<"A", "B">>
MCDefault == <<>>
MCAliases == [X |-> <<"B", "A">>]

Object(class, pk, source, ip) ==
    [class |-> class, pk |-> pk, source |-> source, ip |-> ip, asn |-> <<>>, mnts |-> {"M"},
     rpki |-> "not_found", scope |-> "in_scope", preference |-> "visible"]

MCObjects ==
    {Object("route", "0-7", "A", <<0, 7>>),
     Object("route", "0-7", "B", <<0, 7>>),
     [Object("route", "0-3", "A", <<0, 3>>) EXCEPT !.rpki = "invalid", !.mnts = {"N"}],
     [Object("route", "0-3", "B", <<0, 3>>) EXCEPT !.scope = "out_scope_as"],
     [Object("route", "0-1", "A", <<0, 1>>) EXCEPT !.preference = "suppressed"],
     Object("inetnum", "0-5", "A", <<0, 5>>),
     [Object("aut-num", "AS1", "B", <<>>) EXCEPT !.asn = <<1, 1>>],
     [Object("as-block", "AS0-AS2", "A", <<>>) EXCEPT !.asn = <<0, 2>>]}

\* Lines
Cmd(k) == [kind |-> k, ok |-> TRUE]
Failing(k) == [kind |-> k, ok |-> FALSE]
Select(names) == [kind |-> "sources", ok |-> TRUE, names |-> names]
Key(class, pk) == [kind |-> "key", ok |-> TRUE, class |-> class, pk |-> pk]
Route(ip, how) == [kind |-> "route", ok |-> TRUE, ip |-> ip, how |-> how]
MaintainedBy(m) == [kind |-> "inverse", ok |-> TRUE, mntner |-> m]
Text(by, v) == [kind |-> "text", ok |-> TRUE, by |-> by, value |-> v]
T(classes) == [kind |-> "T", ok |-> TRUE, classes |-> classes]
Ripe(flags) == [kind |-> "ripe", flags |-> flags]

Flags == {Cmd("!"), Cmd("no-rpki-filter"), Cmd("no-scope-filter"), Cmd("no-preference-filter"), Cmd("other"),
          Failing("other"), Select(<<"B">>), Select(<<"X">>), Select(<<"A", "Z">>), [kind |-> "quit", ok |-> TRUE],
          Ripe(<<Cmd("k"), Select(<<"B">>)>>), Ripe(<<Cmd("k"), Cmd("a"), Text("ip", <<0, 3>>)>>),
          Ripe(<<Cmd("k"), Select(<<"Z">>)>>), Ripe(<<Cmd("k"), T({"route"}), Cmd("t")>>),
          Ripe(<<Cmd("k"), T({"inetnum"}), Text("ip", <<0, 1>>)>>),
          Ripe(<<Cmd("report"), Text("asn", 1)>>), Ripe(<<T({"route"}), Failing("inverse")>>)}
SearchLines == {Key("route", "0-7"), Route(<<0, 1>>, "exact"), Route(<<0, 1>>, "less"), Route(<<0, 1>>, "one level"),
                Route(<<0, 7>>, "more"), MaintainedBy("N"), Text("key", "AS1"), Ripe(<<Text("ip", <<0, 1>>)>>)}

Bounds(C, D, L, n, k, loaded, v) ==
    [connections |-> C, denied |-> D, lines |-> L, length |-> n, ahead |-> k, loaded |-> loaded, versions |-> v]

\* The state of a connection.
Lines == Bounds({c1}, {}, Flags \union SearchLines, 3, 1, TRUE, 1)
\* Connections that share a worker.
Pool == Bounds({c1, c2}, {}, {Cmd("!"), Cmd("no-rpki-filter"), Select(<<"B">>), MaintainedBy("N")}, 2, 2, TRUE, 1)
Denied == Bounds({c1, c2}, {c2}, {Cmd("!"), [kind |-> "origin", asn |-> "AS1", ip |-> "route4"]}, 2, 2, FALSE, 1)

\* Sets with a cycle, a set in both sources, a set that moves and one that does
\* not exist.
Store(r4, r6, as, rs) ==
    [n \in {"route4", "route6", "as-set", "route-set"} |->
        CASE n = "route4" -> r4 [] n = "route6" -> r6 [] n = "as-set" -> as [] n = "route-set" -> rs]
Entry(source, name, members) == <<source, name>> :> members
First ==
    Store(Entry("A", "AS1", {"p1"}) @@ Entry("B", "AS2", {"p2"}), Entry("A", "AS2", {"q2"}),
          Entry("A", "AS-A", {"AS-B", "AS-C", "AS1"}) @@ Entry("B", "AS-B", {"AS-A", "AS2"})
              @@ Entry("B", "AS-A", {"AS3"}) @@ Entry("B", "AS-C", {"AS3", "AS-NONE"}),
          Entry("A", "RS-A", {"p3", "AS2", "AS-C"}))
Second ==
    Store(Entry("A", "AS1", {"p1", "p3"}), Entry("A", "AS2", {"q2"}),
          Entry("A", "AS-A", {"AS-C", "AS2"}) @@ Entry("A", "AS-B", {"AS1"})
              @@ Entry("B", "AS-A", {"AS3"}) @@ Entry("A", "AS-C", {"AS3", "AS-B"}),
          Entry("A", "RS-A", {"p3", "AS-B"}))
MCStores == <<First, Second>>

Members(s, r) == [kind |-> "members", set |-> s, recursive |-> r]
GraphQL(s, source, depth, excluded) ==
    [kind |-> "graphql", set |-> s, source |-> source, depth |-> depth, excluded |-> excluded]
Exclude == [kind |-> "exclude", ok |-> TRUE, names |-> {"AS-B"}]
SetLines == {Members("AS-A", TRUE), Members("RS-A", TRUE), Members("AS-A", FALSE), Members("AS-NONE", TRUE),
             [kind |-> "routes", set |-> "AS-A", ip |-> None], [kind |-> "routes", set |-> "AS-A", ip |-> "route4"],
             GraphQL("AS-A", "B", 0, {}), GraphQL("RS-A", "A", 2, {}), GraphQL("AS-A", "A", 1, {}),
             GraphQL("AS-A", "A", 2, {"AS-C"}), GraphQL("AS-A", "A", 3, {}), GraphQL("AS-A", "A", 2, {})}
Sets == Bounds({c1}, {}, SetLines, 1, 1, TRUE, 2)
Sessions == Bounds({c1}, {}, {Cmd("!"), Exclude, Select(<<"X">>), Members("AS-A", TRUE)}, 3, 2, TRUE, 1)

MCSetup == [lines |-> Lines, pool |-> Pool, denied |-> Denied, sets |-> Sets, sessions |-> Sessions]
=============================================================================
