SPECIFICATION MirrorSpec
CONSTANTS
    p1 = p1
    p2 = p2
    Servers = {p1, p2}
    Objects = {o1}
    Texts = {t1}
    Setup <- LagSetup
    None = None
INVARIANTS ClientMissesNothing
