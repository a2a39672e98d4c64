SPECIFICATION Spec
CONSTANTS
    s1 = s1
    s2 = s2
    d1 = d1
    d2 = d2
    a1 = a1
    a2 = a2
    hr = hr
    Engineering = Engineering
    Untagged = Untagged
    Blank = Blank
    None = None
    Seed = Seed
    w1 = w1
    w2 = w2
    Workers = {w1, w2}
    Sources = {s1}
    Demo = s1
    Docs = {d1, d2}
    Authors = {a1, a2}
    Tags = {Engineering, hr}
    Files <- MCFiles
    Author <- MCAuthor
    DefaultTag <- MCDefaultTag
    Unsupported = {}
    Contents <- MCContents
    Drafts <- MCDrafts
    MaxJobs = 7
    MaxSize = 2
    MaxRetries = 1
    ProgressEvery = 2
    MaxCrashes = 1
    MaxEdits = 1
    MinChunks = 1
    MinPersons = 1
    Disturbances <- MCNoDisturbance
INVARIANTS
    SeedWorks
CHECK_DEADLOCK FALSE
