\* One product, two orders of three pieces each, two sellers' sessions.
SPECIFICATION Spec
CONSTANTS
    NoOne = NoOne
    Products = {p1}
    Orders = {o1, o2}
    Codes = {c1}
    Actors = {seller, buyer}
    Sessions = {s1, s2}
    Admins = {}
    SellersToBe = {seller}
    Prices = {1, 5}
    StockLevels = {3}
    NewBodies <- MCNewBodies
    Bodies <- MCBodies
    PromoBodies <- MCPromoBodies
    Baskets <- MCBaskets
SYMMETRY Symmetry
INVARIANTS IInv AmountsAdd PromoEarned StockExplained
PROPERTIES PricesCurrent ArchiveSticks
