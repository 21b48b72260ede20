--------------------------- MODULE SeatInventory ---------------------------
(***************************************************************************)
(* What the flight database promises its callers, with no locks, sessions  *)
(* or caches: a reservation is made or given back in one indivisible step. *)
(* FlightService is shown to implement this module; BookingService uses it *)
(* as the server at the other end of its calls.                            *)
(***************************************************************************)
EXTENDS Integers, FiniteSets

CONSTANTS
    Flights,        \* the rows of table flights
    Bookings,       \* the booking ids that callers may send
    Total,          \* [Flights -> Nat \ {0}]: flights.total_seats
    SeatCounts,     \* the seat counts that callers ask for
    NoFlight        \* stands for "no flight row"

ASSUME InventoryAssumption ==
    /\ Total \in [Flights -> Nat \ {0}]     \* ck_flights_total_seats_positive
    /\ SeatCounts \subseteq Int
    /\ NoFlight \notin Flights

VARIABLES
    available,      \* [Flights -> Int]: flights.available_seats
    reservation     \* the row of seat_reservations each booking id has, or NoRow

inventory == <<available, reservation>>

-----------------------------------------------------------------------------
NoRow == [status |-> "NONE", flight |-> NoFlight, seats |-> 0]

ActiveRow(f, n) == [status |-> "ACTIVE", flight |-> f, seats |-> n]

Rows == [status : {"NONE", "ACTIVE", "RELEASED"},
         flight : Flights \cup {NoFlight},
         seats  : Int]

\* The CHECK constraints on flights.available_seats.
SeatsInRange(f, n) == 0 <= n /\ n <= Total[f]

InventoryInit ==
    /\ available = Total
    /\ reservation = [b \in Bookings |-> NoRow]

\* A first reservation for a booking id; UNIQUE(booking_id) refuses a second one
\* for ever, whatever became of the first.
Reserve(b, f, n) ==
    /\ reservation[b].status = "NONE"
    /\ n > 0
    /\ n <= available[f]
    /\ available' = [available EXCEPT ![f] = @ - n]
    /\ reservation' = [reservation EXCEPT ![b] = ActiveRow(f, n)]

\* The seats of an ACTIVE reservation go back to its flight.
Release(b) ==
    /\ reservation[b].status = "ACTIVE"
    /\ available' = [available EXCEPT ![reservation[b].flight] =
                                          @ + reservation[b].seats]
    /\ reservation' = [reservation EXCEPT ![b].status = "RELEASED"]

InventoryNext ==
    \/ \E b \in Bookings, f \in Flights, n \in SeatCounts : Reserve(b, f, n)
    \/ \E b \in Bookings : Release(b)

InventorySpec == InventoryInit /\ [][InventoryNext]_inventory

-----------------------------------------------------------------------------
InventoryTypeOK ==
    /\ available \in [Flights -> Int]
    /\ reservation \in [Bookings -> Rows]

Holders(f) == {b \in Bookings : /\ reservation[b].status = "ACTIVE"
                                /\ reservation[b].flight = f}

SeatsOf(b) == {b} \X (1 .. reservation[b].seats)

\* One token <<b, i>> for each seat that an ACTIVE reservation holds on f.
HeldSeats(f) == UNION {SeatsOf(b) : b \in Holders(f)}

\* A row that exists names a flight and a positive number of seats.
RowsWellFormed ==
    \A b \in Bookings :
        IF reservation[b].status = "NONE"
        THEN reservation[b] = NoRow
        ELSE reservation[b].flight \in Flights /\ reservation[b].seats > 0

\* No seat is lost and none is sold twice: the counter on the flight row and the
\* ACTIVE reservations, two separately updated tables, always add up to the
\* aircraft (reserve_seats and release_reservation).
SeatsConserved ==
    \A f \in Flights : /\ available[f] >= 0
                       /\ available[f] + Cardinality(HeldSeats(f)) = Total[f]

\* A reservation is used once: rows never disappear, a RELEASED one never comes
\* back to life, and flight and seat count never change under it (UNIQUE on
\* booking_id together with the ACTIVE-only idempotency check of reserve_seats).
ReservationUsedOnce ==
    [][\A b \in Bookings :
          \/ reservation[b] = reservation'[b]
          \/ reservation[b] = NoRow /\ reservation'[b].status = "ACTIVE"
          \/ /\ reservation[b].status = "ACTIVE"
             /\ reservation'[b] = [reservation[b] EXCEPT !.status = "RELEASED"]
      ]_inventory
=============================================================================
