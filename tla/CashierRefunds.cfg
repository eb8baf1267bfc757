SPECIFICATION Spec
CONSTANTS
    Guest = Guest
    Unknown = Unknown
    None = None
    Members = {m1}
    Orders = {o1, o2}
    Pendings = {}
    Reqs = {r1, r2}
    Amounts = {1, 2}
    Baskets <- AllBaskets
    EditBalances = {}
    EditPoints = {}
    Settings <- OnePointPerCent
    MaxBooks = 2
SYMMETRY Symmetry
INVARIANTS
    RefundBooks
    RefundReadsCurrent
    BalanceExplained
PROPERTIES
    PointsReversedOnce
    ImplementsLedger
