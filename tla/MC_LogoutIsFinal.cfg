SPECIFICATION Spec
CONSTANTS
    u1 = u1
    u2 = u2
    s1 = s1
    s2 = s2
    h1 = h1
    h2 = h2
    t1 = t1
    t2 = t2
    admin = admin
    user = user
    None = None
    Roles <- MCRoles
    Admin = admin
    Users = {u1}
    Sids = {s1}
    Handlers = {h1, h2}
    Tags = {t1}
    Calls <- UserCalls
    Faults = {"evict"}
INVARIANTS
    LogoutIsFinal
CHECK_DEADLOCK FALSE
