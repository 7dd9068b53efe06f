--------------------------- MODULE MCSuppression ---------------------------
EXTENDS Suppression

CONSTANTS a, b

Route(bits, asn, source) == [key |-> [prefix |-> bits, asn |-> asn], source |-> source]
ROA(bits, asn, max) == [prefix |-> bits, asn |-> asn, max |-> max]
NoSlurm == [asns |-> {}, prefixes |-> {}, combined |-> {}, assertions |-> {}]
File(R) == [roas |-> R, slurm |-> NoSlurm]
Bounds(w, r, f, x) == [writes |-> w, reloads |-> r, files |-> f, failures |-> x]
NoFilter == [prefixes |-> {}, asns |-> {}]

MCKeys == {[prefix |-> <<0, 1>>, asn |-> 1], [prefix |-> <<0>>, asn |-> 2]}

\* A route that is not found, valid or invalid, in a mirror and in an
\* authoritative source.
Roas == [routes |-> {Route(<<0, 1>>, 1, a)},
         files |-> {File({}), File({ROA(<<0>>, 2, 2)}), File({ROA(<<0, 1>>, 1, 2), ROA(<<0>>, 2, 1)})},
         filters |-> {NoFilter}, max |-> Bounds(2, 0, 2, 1)]
Submitted == [Roas EXCEPT !.routes = {Route(<<0>>, 2, b)}, !.filters = {NoFilter, [prefixes |-> {<<0>>}, asns |-> {}]},
              !.max = Bounds(2, 1, 1, 0)]

\* The scope filter: a prefix, an AS number.
Scopes == [routes |-> {Route(<<0, 1>>, 1, a), Route(<<0>>, 2, a)},
           files |-> {File({})},
           filters |-> {NoFilter, [prefixes |-> {<<0, 1>>}, asns |-> {}], [prefixes |-> {}, asns |-> {1}]},
           max |-> Bounds(2, 1, 0, 1)]

\* All ROA files with up to two ROAs, and SLURM.
SomeRoas == {ROA(p, n, m) : p \in {<<>>, <<0>>, <<0, 1>>}, n \in {0, 1}, m \in {1, 2}}
Slurms == {NoSlurm,
           [NoSlurm EXCEPT !.asns = {1}, !.assertions = {[prefix |-> <<0, 1>>, asn |-> 1, max |-> None]}],
           [NoSlurm EXCEPT !.prefixes = {<<0>>}, !.combined = {[prefix |-> <<>>, asn |-> 1]}]}
Files == [routes |-> {},
          files |-> {[roas |-> {x, y}, slurm |-> s] : x \in SomeRoas, y \in SomeRoas, s \in Slurms},
          filters |-> {NoFilter}, max |-> Bounds(0, 0, 0, 0)]

MCSetup == [roas |-> Roas, submitted |-> Submitted, scopes |-> Scopes, files |-> Files]
=============================================================================
