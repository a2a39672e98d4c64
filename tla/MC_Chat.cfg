SPECIFICATION ClearsOnce
CONSTANTS
    q1 = q1
    q2 = q2
    s1 = s1
    s2 = s2
    s3 = s3
    c1 = c1
    c2 = c2
    l1 = l1
    None = None
    Questions = {q1, q2}
    Sids = {s1, s2}
    Convs = {c1, c2}
    MaxTokens = 2
    MaxContent = 1
    ListLimit = 1
    Loads = {}
    MaxSessions = 2
    Faults = {"stream", "post"}
    Clicks = {"select", "new", "clear"}
SYMMETRY Symmetric
INVARIANTS
    SessionsKeptApart
    DisplayAgrees
    NoTokenLost
    StoredOnce
    AnswersStoredWhole
    OneConversation
    FiledWithItsSession
CHECK_DEADLOCK FALSE
