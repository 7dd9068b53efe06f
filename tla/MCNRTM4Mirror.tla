--------------------------- MODULE MCNRTM4Mirror ---------------------------
(***************************************************************************)
(* NRTM4Mirror for TLC.                                                    *)
(***************************************************************************)
EXTENDS NRTM4Mirror

CONSTANTS p1, p2

Bounds(P, ops, serials, ends, imports, n) ==
    [servers |-> P, operations |-> ops, serials |-> serials,
     crashes |-> ends, reloads |-> imports, sessions |-> n]

\* Two servers, whose runs overlap.
Overlap == Bounds({p1, p2}, {"elsewhere", "day"}, 2, 0, 0, 1)

\* One server, with a crash and days without a run.
Recovery == Bounds({p1}, {"outage"}, 2, 1, 0, 4)

\* One server, with a crash, and an import that reloads the source, also when the
\* operator forces it.
Reloads == Bounds({p1}, {"reload", "force"}, 2, 1, 1, 3)

\* The three of them.
Together == Bounds({p1}, {"reload", "force", "outage"}, 1, 1, 1, 5)

\* A client that is made to reload, and aborts.
Following == Bounds({p1}, {"client", "clientForce"}, 2, 1, 0, 2)

\* A client that does not run for a day.
Lagging == Bounds({p1}, {"client", "day"}, 2, 0, 0, 1)

MCSetup ==
    [overlap |-> Overlap, recovery |-> Recovery, reloads |-> Reloads, together |-> Together,
     following |-> Following]
LagSetup == [lagging |-> Lagging]
=============================================================================
