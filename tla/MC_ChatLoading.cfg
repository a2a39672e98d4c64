SPECIFICATION FairSpec
CONSTANTS
    q1 = q1
    q2 = q2
    s1 = s1
    s2 = s2
    s3 = s3
    c1 = c1
    c2 = c2
    l1 = l1
    None = None
    Questions = {q1, q2}
    Sids = {s1, s2}
    Convs = {c1}
    MaxTokens = 1
    MaxContent = 1
    ListLimit = 1
    Loads = {l1}
    MaxSessions = 1
    Faults = {"stream", "post", "get"}
    Clicks = {"new"}
PROPERTIES
    LoadingEnds
CHECK_DEADLOCK FALSE
