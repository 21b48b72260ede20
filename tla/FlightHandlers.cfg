\* Two concurrent writers, two flights, every kind of request.
SPECIFICATION Spec
CONSTANTS
    f1 = f1 f2 = f2 b1 = b1 b2 = b2 w1 = w1 w2 = w2 r1 = r1
    Flights = {f1, f2}
    Bookings = {b1, b2}
    Writers = {w1, w2}
    Readers = {}
    NoFlight = NoFlight NoWriter = NoWriter Miss = Miss
    Total <- MCTotal
    SeatCounts <- MCSeatCounts
    FlightNames = {"f1", "f2", "ghost"}
    RowOf <- MCRowOf
    Canonical <- MCCanonical
    BadIds = {"bad"}
    SearchKeys = {}
    Route <- NoRoute
    RedisFails = FALSE
SYMMETRY Symmetry
INVARIANTS IInv LockedCounterCurrent SeatsConserved
    ReleaseFits OneReleaseAnswered ReserveAnsweredTruthfully
PROPERTIES InventorySpec ReservationUsedOnce
