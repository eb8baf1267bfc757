SPECIFICATION AccessSpec
CONSTANTS
    None = None
    Users = {u1}
    Sids = {s1, s2}
    Workers = {w1, w2}
    MaxCrashes = 1
    Phones = {p1, p2}
    Bound = {p1, p2}
    Callers = {c1, c2}
    MaxRestarts = 1
    MaxTokens = 3
    Accounts = {a1}
    Senders = {d1, d2}
    DailyLimit = 1
    IpLimit = 2
    Attempts = {r1, r2}
    FailedTimes = 3
    Roles = {o1, o2}
    Auths = {x1}
    Requests = {q1, q2}
INVARIANTS
    
    QrSound
PROPERTIES
    DeadLeave
    
    LockSound
    
CHECK_DEADLOCK FALSE
