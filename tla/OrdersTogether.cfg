\* Three requests of one user that overlap in any way, and sellers that archive.
SPECIFICATION FairSpec
CONSTANTS
    p1 = p1 p2 = p2 u = u a = a o1 = o1 o2 = o2 r1 = r1 r2 = r2 r3 = r3
    NoOne = NoOne
    Users = {u}
    Admins = {}
    Products = {p1, p2}
    Orders = {o1, o2}
    Requests = {r1, r2, r3}
    Baskets <- JustBoth
    Qualifying = {}
    InitialStock <- MCStock
    StockLevels = {}
    MaxUses = 1
    RateLimitMinutes = 1
    Overlap = "all"
INVARIANTS LocksHeld StockNotNegative
PROPERTIES RequestsAnswered OnlyActiveSold CanceledForGood
