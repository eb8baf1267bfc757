SPECIFICATION Spec
CONSTANTS
    Guest = Guest
    Unknown = Unknown
    None = None
    Members = {m1}
    Orders = {o1, o2}
    Pendings = {p1}
    Reqs = {r1, r2}
    Amounts = {1}
    Baskets <- ScanBaskets
    EditBalances = {}
    EditPoints = {1}
    Settings <- OnePointPerCent
    MaxBooks = 2
INVARIANTS
    PendingChargedOnce
