SPECIFICATION Spec
CONSTANTS
    q1 = q1
    q2 = q2
    s1 = s1
    s2 = s2
    s3 = s3
    c1 = c1
    c2 = c2
    l1 = l1
    None = None
    Questions = {q1, q2}
    Sids = {s1, s2, s3}
    Convs = {c1, c2}
    MaxTokens = 1
    MaxContent = 1
    ListLimit = 2
    Loads = {l1}
    MaxSessions = 2
    Faults = {"get"}
    Clicks = {"new", "select"}
SYMMETRY Symmetric
INVARIANTS
    TypeOK
    DisplayAgrees
    FiledWithItsSession
    LoadedIsStored
CHECK_DEADLOCK FALSE
