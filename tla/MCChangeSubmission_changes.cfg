SPECIFICATION Spec
CONSTANTS
    m1 = m1
    m2 = m2
    p = p
    a = a
    s = s
    c1 = c1
    c2 = c2
    None = None
    Untouched = Untouched
    Handlers = {h1}
    Keys = {m1, m2, p, a, s}
    Mntners = {m1, m2}
    ProtectedNames = {m1, m2, p}
    Credentials = {c1, c2}
    Related <- MCRelated
    RequireRelated = {s}
    Forbidden <- MCForbidden
    Initial <- MCInitial
    Submissions <- ChangesOrSuspensions
    MaxSubmissions = 3
CHECK_DEADLOCK FALSE
INVARIANTS ReferencesResolve LoopSettles
PROPERTIES Authorised NoTakeover SuspensionReversible SuspensionConserves
