\* One account, one session, room in the cache.
CONSTANTS
    u1 = u1
    t1 = t1
    t2 = t2
    r1 = r1
    r2 = r2
    a1 = a1
    full = full
    less = less
    NoOp = NoOp
    NoToken = NoToken
    Users = {u1}
    Tokens = {t1}
    Requests = {r1}
    Admins = {a1}
    Roles = {full, less}
    MaxEntries = 2
    CacheTTL = 2
    SessionTTL = 2
    MaxDelay = 1
    MaxNow = 2
SPECIFICATION Spec
PROPERTY RoleChangeReaches
CHECK_DEADLOCK FALSE
