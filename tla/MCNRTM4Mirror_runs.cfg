SPECIFICATION FairMirrorSpec
CONSTANTS
    p1 = p1
    p2 = p2
    Servers = {p1, p2}
    Objects = {o1}
    Texts = {t1}
    Setup <- MCSetup
    None = None
INVARIANTS NothingLost Servable ClientMissesNothing
PROPERTIES VersionAdvances HistoryKept Recovers CatchesUp
