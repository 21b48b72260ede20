\* Three requests that share no order, no promo code and, as creates, no user;
\* item lists that name a product twice.
SPECIFICATION Spec
CONSTANTS
    p1 = p1 p2 = p2 u = u a = a o1 = o1 o2 = o2 r1 = r1 r2 = r2 r3 = r3
    NoOne = NoOne
    Users = {u, a}
    Admins = {a}
    Products = {p1, p2}
    Orders = {o1, o2}
    Requests = {r1, r2, r3}
    Baskets <- BothTwice
    Qualifying <- JustBoth
    InitialStock <- MCStock
    StockLevels = {1}
    MaxUses = 1
    RateLimitMinutes = 0
    Overlap = "apart"
SYMMETRY Symmetry
INVARIANTS TypeOK PromoCounted StockConserved OneActiveOrder
