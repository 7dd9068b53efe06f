SPECIFICATION Spec
CONSTANTS
    None = None
    c1 = c1
    c2 = c2
    w1 = w1
    Connections = {c1, c2}
    Workers = {w1}
    Sources <- MCSources
    Aliases <- MCAliases
    SourcesDefault <- MCDefault
    RpkiAware = TRUE
    Objects <- MCObjects
    ASNs = {"AS1", "AS2", "AS3"}
    RoutePrefixes = {"p1", "p2", "p3", "q2"}
    Stores <- MCStores
    Setup <- MCSetup
CHECK_DEADLOCK FALSE
INVARIANTS AnswersBracketed 
PROPERTIES ConnectionsEnd
