SPECIFICATION StoreSpec
CONSTANTS
    None = None
    v1 = v1
    v2 = v2
    Versions = {v1, v2}
    Orders = {o1, o2}
    Reqs = {r1, r2}
    Baskets <- MCBaskets
    FreeOrders = 2
    Counts = {1}
    Stores = {s1, s2}
    LastDay = 2
    Payments = {p1}
    Purchases = {q1}
    BusyDays = {b1}
    Jobs = {r1, r2}
    LastMonth = 2
    Images = {o1, o2}
    Pictured = {v1, v2}
    Applications = {a1, a2}
    Admins = {r1, r2}
    FreeQuota = 1
    MaxUploads = 4
    Goods = {g1, g2, g3}
    Categories = {k1, k2}
    Merchants = {r1, r2}
    MaxShelfCalls = 5
    Callers = {r1, r2}
    MaxReviewCalls = 6
SYMMETRY Symmetry
INVARIANTS
    StockLedger
    
    
    QuotaHolds
PROPERTIES
    OrdersFollowActions
    
    ApprovalsStand
CHECK_DEADLOCK FALSE
