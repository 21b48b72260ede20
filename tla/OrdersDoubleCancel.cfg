\* Two cancellations of one order.
SPECIFICATION Spec
CONSTANTS
    p1 = p1 p2 = p2 u = u a = a o1 = o1 o2 = o2 r1 = r1 r2 = r2 r3 = r3
    NoOne = NoOne
    Users = {u}
    Admins = {}
    Products = {p1, p2}
    Orders = {o1, o2}
    Requests = {r1, r2, r3}
    Baskets <- JustOne
    Qualifying = {}
    InitialStock <- MCStock
    StockLevels = {}
    MaxUses = 1
    RateLimitMinutes = 0
    Overlap = "all"
SYMMETRY Symmetry
INVARIANTS StockConserved
