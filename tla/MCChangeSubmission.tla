------------------------- MODULE MCChangeSubmission -------------------------
(***************************************************************************)
(* ChangeSubmission for TLC: two maintainers, a person that everything     *)
(* refers to, an aut-num and an as-set under its number.                   *)
(***************************************************************************)
EXTENDS ChangeSubmission

CONSTANTS m1, m2, p, a, s, c1, c2

Text(mntBy, refs, auth) == [mntBy |-> mntBy, refs |-> refs, auth |-> auth]

MCRelated == [k \in Keys |-> IF k = s THEN <<a>> ELSE <<>>]

\* A new aut-num is out of scope.
MCForbidden == {<<"CREATE", a>>}

\* m1 maintains everything; there is no m2 and no as-set.
MCInitial ==
    [k \in Keys |->
        CASE k = m1 -> Text({m1}, {p}, c1)
          [] k \in {p, a} -> Text({m1}, {}, None)
          [] OTHER -> None]

\* The texts that are submitted for each key.
TextsOf(k) ==
    CASE k = m1 -> {Text({m1}, {p}, c1), Text({m2}, {}, c1)}
      [] k = m2 -> {Text({m2}, {p}, c2), Text({m1}, {}, c2)}
      [] k = p -> {Text({m1}, {}, None), Text({m2}, {}, None)}
      [] k = a -> {Text({m1}, {}, None)}
      [] k = s -> {Text({m2}, {}, None), Text({m1, m2}, {}, None)}
      [] OTHER -> {}

Puts == UNION {{[kind |-> "put", key |-> k, text |-> t] : t \in TextsOf(k)} : k \in Keys}

\* The text of a deletion decides only by its mnt-by and auth.
AuthOf(k) == CASE k = m1 -> c1 [] k = m2 -> c2 [] OTHER -> None
Deletes == {[kind |-> "delete", key |-> k, text |-> Text({m1, m2}, {}, AuthOf(k))] : k \in Keys}
Suspensions == [kind : {"suspend", "reactivate"}, key : Mntners, text : {None}]

\* Lists of one or two requests for different keys.
Lists(R) == {<<q>> : q \in R} \union {l \in R \X R : l[1].key # l[2].key}

\* Users have one credential, administrators override.
ByUsers(L) == [requests : L, creds : {{c1}, {c2}}, override : {FALSE}]
ByAdmins(L) == [requests : L, creds : {{}}, override : {TRUE}]

ChangesOrSuspensions ==
    ByUsers(Lists(Puts \union Deletes)) \union ByAdmins(Lists(Puts \union Deletes))
        \union ByAdmins(Lists(Suspensions))
=============================================================================
