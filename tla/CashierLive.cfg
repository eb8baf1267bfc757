SPECIFICATION FairSpec
CONSTANTS
    Guest = Guest
    Unknown = Unknown
    None = None
    Members = {m1}
    Orders = {o1}
    Pendings = {p1}
    Reqs = {r1, r2}
    Amounts = {1}
    Baskets <- ScanBaskets
    EditBalances = {1}
    EditPoints = {}
    Settings <- OnePointPerCent
    MaxBooks = 1
PROPERTIES
    RequestsAnswer
