\* One request for two seats: can its reservation be left without a booking?
SPECIFICATION Spec
CONSTANTS
    f1 = f1 b1 = b1 b2 = b2 t1 = t1 t2 = t2 t3 = t3
    Flights = {f1}
    Bookings = {b1, b2}
    Total <- MCTotal
    SeatCounts = {0, 1, 2}
    NoFlight = NoFlight NoBooking = NoBooking
    Tasks = {t1}
    MaxAttempts = 3
CHECK_DEADLOCK FALSE
INVARIANTS ReservationsHaveBookings
