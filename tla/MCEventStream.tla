--------------------------- MODULE MCEventStream ---------------------------
(***************************************************************************)
(* EventStream for TLC: two sources with an object each.                   *)
(***************************************************************************)
EXTENDS EventStream

CONSTANTS A, B, a1, b1

MCSources == <<A, B>>
MCSourceOf == [o \in Objects |-> IF o = a1 THEN A ELSE B]

Bounds(objects, copies, serials, imports, lost) ==
    [objects |-> objects, copies |-> copies, serials |-> serials, imports |-> imports, drops |-> lost]

\* Connections that are lost anywhere, with one and with two sources; a full import;
\* a client that keeps no copy.
MCSetup ==
    [one |-> Bounds({a1}, TRUE, 3, {}, 2),
     two |-> Bounds({a1, b1}, TRUE, 3, {}, 1),
     import |-> Bounds({a1, b1}, TRUE, 2, {A}, 1),
     follow |-> Bounds({a1, b1}, FALSE, 2, {A}, 1)]
=============================================================================
