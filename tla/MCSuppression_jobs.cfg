SPECIFICATION FairSpec
CONSTANTS
    a = a
    b = b
    None = None
    Keys <- MCKeys
    Sources = {a, b}
    Authoritative = {b}
    RpkiExcluded = {}
    ScopeExcluded = {}
    Texts = {t1, t2}
    Setup <- MCSetup
INVARIANTS MirrorsFollow ValidatorsAgree
PROPERTIES RpkiSettles ScopeSettles
