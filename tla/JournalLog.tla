----------------------------- MODULE JournalLog -----------------------------
(***************************************************************************)
(* What the readers of the journal rely on: NRTMv3 queries and exports     *)
(* (serial_nrtm per source), NRTMv4 delta files and the event stream       *)
(* (serial_global). The journal is a log per source that only ever grows   *)
(* at its newest end and shrinks at its oldest end, in steps that are the  *)
(* commits of transactions.                                                *)
(***************************************************************************)
EXTENDS Integers

CONSTANTS
    Sources,     \* configured IRR sources
    SyncSources  \* sources whose serials are assigned elsewhere

VARIABLE journal \* the entries readers see

Newer(e, f) == e.glob > f.glob
SerialsIn(J, s) == {e.serial : e \in {f \in J : f.source = s}}

\* A reader that remembers the newest serial_global it has seen misses nothing.
AppendsNewest ==
    \A e \in journal' \ journal, f \in journal : Newer(e, f)

\* What disappears from a source is older than what stays.
RemovesOldest ==
    \A e \in journal \ journal', f \in journal' : e.source = f.source => Newer(f, e)

\* The serials of a source that numbers its own operations have no gaps, and
\* grow with serial_global.
KeepsNumbering ==
    \A e, f \in journal' : e.source = f.source /\ e.source \notin SyncSources =>
        /\ e.serial < f.serial <=> Newer(f, e)
        /\ \A n \in e.serial .. f.serial : n \in SerialsIn(journal', e.source)

Init == journal = {}
Next == AppendsNewest /\ RemovesOldest /\ KeepsNumbering
Spec == Init /\ [][Next]_journal
=============================================================================
