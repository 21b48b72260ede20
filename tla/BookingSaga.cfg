\* Three requests, two booking ids, two attempts at every call.
SPECIFICATION Spec
CONSTANTS
    f1 = f1 b1 = b1 b2 = b2 t1 = t1 t2 = t2 t3 = t3
    Flights = {f1}
    Bookings = {b1, b2}
    Total <- MCTotal
    SeatCounts = {0, 1, 2}
    NoFlight = NoFlight NoBooking = NoBooking
    Tasks = {t1, t2, t3}
    MaxAttempts = 2
SYMMETRY Symmetry
CHECK_DEADLOCK FALSE
INVARIANTS IInv OnlyCancelsOversell AnswersHold
PROPERTIES LifecycleImplemented
