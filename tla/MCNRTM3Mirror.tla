-------------------------- MODULE MCNRTM3Mirror --------------------------
EXTENDS NRTM3Mirror

NRTM(with, loaded) == [with |-> {"nrtm"} \union with, loaded |-> loaded, rangeLimit |-> 0]

\* Reloads, expiry, an update file and a range limit, synchronised serials; no NRTM.
Forced == NRTM({"force"}, 0)
Expiring == NRTM({"expire"}, 1)
Limited == [NRTM({"file", "reexport"}, 0) EXCEPT !.rangeLimit = 1]
Periodic == [with |-> {"force"}, loaded |-> 1, rangeLimit |-> 0]
Synchronised == NRTM({"sync"}, 0)
MCScenarios == {Forced, Expiring, Limited, Periodic, Synchronised}
==========================================================================
