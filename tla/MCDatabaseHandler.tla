------------------------- MODULE MCDatabaseHandler -------------------------
(***************************************************************************)
(* Instances of DatabaseHandler for TLC: two sources, A and B, with up to *)
(* two objects each; b1 overlaps a1.                                      *)
(***************************************************************************)
EXTENDS DatabaseHandler, TLC

CONSTANTS A, B, a1, a2, b1

MCSourceOf == [o \in Objects |-> IF o = b1 THEN B ELSE A]
MCOverlapping == {<<a1, b1>>} \intersect (Objects \X Objects)
NoPreference == [s \in Sources |-> 0]
PreferA == [s \in Sources |-> IF s = A THEN 2 ELSE 1]

HandlerSymmetry == Permutations(Handlers)
=============================================================================
