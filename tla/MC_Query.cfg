SPECIFICATION Spec
CONSTANTS
    p1 = p1
    p2 = p2
    s1 = s1
    t1 = t1
    t2 = t2
    u1 = u1
    u2 = u2
    Wildcard = Wildcard
    NoUrl = NoUrl
    Nobody = Nobody
    Queries = {p1, p2, s1}
    Streamed = {s1}
    Tags = {t1, t2}
    Urls = {u1, u2}
    InGraph = {u1}
    Experts = {e}
    Permissions <- MCPermissions
    Overhead <- MCOverhead
    Corpora <- MCCorpora
    TopK = 2
    LowScore = 30
    MaxTokens = 12
    GraphTokens = 1
    Addendum = 1
    MaxCitations = 5
    MaxRequests = 2
    PoolSize = 2
    MaxAnswer = 2
    Preview = 1
    MaxAttempts = 3
    StreamAttempts = 2
INVARIANTS
    TypeOK
    AnsweredFromTheBest
    AuditTellsTheAnswer
PROPERTIES
    StreamsAsPromised
    RequestsEnd
CHECK_DEADLOCK FALSE
