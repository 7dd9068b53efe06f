SPECIFICATION Spec
CONSTANTS
    A = A
    B = B
    a1 = a1
    a2 = a2
    b1 = b1
    None = None
    Untouched = Untouched
    h1 = h1
    h2 = h2
    t1 = t1
    Handlers = {h1, h2}
    Sources = {A, B}
    Objects = {a1, a2, b1}
    Texts = {t1}
    SourceOf <- MCSourceOf
    KeepJournal = {A, B}
    SyncSources = {}
    SourceSerials = {}
    Suppressed = {a2}
    Preference <- PreferA
    Overlapping <- MCOverlapping
    Recorded = {B}
    Operations = {"runner"}
    MaxBuffer = 1
    MaxSerial = 3
SYMMETRY HandlerSymmetry
INVARIANTS MirrorFollows 
PROPERTIES GlobalSerialsInOrder
