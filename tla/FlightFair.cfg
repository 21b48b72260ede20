\* Two writers and a reader through a Redis that may fail, under fairness.
SPECIFICATION FairSpec
CONSTANTS
    f1 = f1 f2 = f2 b1 = b1 b2 = b2 w1 = w1 w2 = w2 r1 = r1
    Flights = {f1}
    Bookings = {b1}
    Writers = {w1, w2}
    Readers = {r1}
    NoFlight = NoFlight NoWriter = NoWriter Miss = Miss
    Total <- OneTotal
    SeatCounts = {1}
    FlightNames = {"f1", "ghost"}
    RowOf <- GhostRowOf
    Canonical <- OneCanonical
    BadIds = {}
    SearchKeys = {"search"}
    Route <- OneRoute
    RedisFails = TRUE
PROPERTIES RequestsAnswered CacheConverges
