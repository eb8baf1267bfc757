SPECIFICATION Spec
CONSTANTS
    None = None
    Users = {u1, u2}
    Stores = {s1, s2, s3}
    QuotaOrders = {o1, o2}
    Codes = {c1, c2}
    Reqs = {r1, r2}
    Quotas = {1}
    FreeStores = 1
    FreeMembers = 0
    MaxMembers = 1
SYMMETRY Symmetry
INVARIANTS
    ExtraWithinCodes
    StoreCodesOpenOne
PROPERTIES
    SpentCodesStay
