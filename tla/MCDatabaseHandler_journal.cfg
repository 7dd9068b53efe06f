SPECIFICATION Spec
CONSTANTS
    A = A
    B = B
    a1 = a1
    a2 = a2
    b1 = b1
    None = None
    Untouched = Untouched
    h1 = h1
    h2 = h2
    t1 = t1
    Handlers = {h1, h2}
    Sources = {A, B}
    Objects = {a1, b1}
    Texts = {t1}
    SourceOf <- MCSourceOf
    KeepJournal = {A, B}
    SyncSources = {B}
    SourceSerials = {5}
    Suppressed = {}
    Preference <- NoPreference
    Overlapping <- MCOverlapping
    Recorded = {}
    Operations = {"expire", "reload"}
    MaxBuffer = 1
    MaxSerial = 2
SYMMETRY HandlerSymmetry
INVARIANTS StatusCoversJournal
PROPERTIES SerialsNotReused JournalRefinement
