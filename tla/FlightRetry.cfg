\* A ReserveSeats call and its retry run side by side.
SPECIFICATION Spec
CONSTANTS
    f1 = f1 f2 = f2 b1 = b1 b2 = b2 w1 = w1 w2 = w2 r1 = r1
    Flights = {f1}
    Bookings = {b1, b2}
    Writers = {w1, w2}
    Readers = {}
    NoFlight = NoFlight NoWriter = NoWriter Miss = Miss
    Total <- OneTotal
    SeatCounts = {1, 2}
    FlightNames = {"f1"}
    RowOf <- OneName
    Canonical <- OneCanonical
    BadIds = {}
    SearchKeys = {}
    Route <- NoRoute
    RedisFails = FALSE
INVARIANTS ReserveIdempotent
