--------------------------- MODULE BookingService ---------------------------
(***************************************************************************)
(* create_booking and cancel_booking: two databases, no common             *)
(* transaction.  The flight service answers with the one-step operations   *)
(* of SeatInventory, which FlightService implements.  Between the two is a *)
(* network: a call is attempted up to MaxAttempts times, an attempt may be *)
(* executed late or never, and its answer may be lost.  A task is one HTTP *)
(* request; it may die anywhere.                                           *)
(***************************************************************************)
EXTENDS SeatInventory

CONSTANTS
    Tasks,          \* the HTTP requests POST /bookings and .../cancel
    MaxAttempts,    \* the length of RetryInterceptor._DELAYS
    NoBooking       \* no booking id has been drawn yet

ASSUME BookingServiceAssumption ==
    /\ MaxAttempts \in Nat \ {0}
    /\ NoBooking \notin Bookings

VARIABLES
    booking,        \* table bookings: a row for each booking id, or NoBookingRow
    issued,         \* the ids that uuid4() has returned
    task,           \* what each request is about
    pc,             \* where it is
    attempt,        \* the attempt its call is at
    answer,         \* the status of that attempt, "WAIT" while there is none
    outcome,        \* the HTTP status it was answered with
    net             \* <<t, k>>: attempt k of t's call, not yet executed

vars == <<available, reservation, booking, issued, task, pc, attempt, answer,
          outcome, net>>

-----------------------------------------------------------------------------
NoBookingRow == [status |-> "NONE", flight |-> NoFlight, seats |-> 0]

BookingRows == [status : {"NONE", "CONFIRMED", "CANCELLED"},
                flight : Flights \cup {NoFlight}, seats : Int]

NoTask == [op |-> "none", booking |-> NoBooking, flight |-> NoFlight, seats |-> 0]

TaskRecords == [op : {"none", "create", "cancel"},
                booking : Bookings \cup {NoBooking},
                flight : Flights \cup {NoFlight},
                seats : SeatCounts \cup {0}]

Codes == {"WAIT", "OK", "NOT_FOUND", "RESOURCE_EXHAUSTED", "UNAVAILABLE", "UNKNOWN"}

TaskStates == {"new", "fetch", "reserve", "store", "release", "mark", "done"}

Outcomes == {"none", "201", "200", "404", "409", "503", "500"}

Init ==
    /\ InventoryInit
    /\ booking = [b \in Bookings |-> NoBookingRow]
    /\ issued = {}
    /\ task = [t \in Tasks |-> NoTask]
    /\ pc = [t \in Tasks |-> "new"]
    /\ attempt = [t \in Tasks |-> 0]
    /\ answer = [t \in Tasks |-> "WAIT"]
    /\ outcome = [t \in Tasks |-> "none"]
    /\ net = {}

-----------------------------------------------------------------------------
(* The steps of a request                                                  *)

GoTo(t, label) == pc' = [pc EXCEPT ![t] = label]

Finish(t, status) ==
    /\ GoTo(t, "done")
    /\ outcome' = [outcome EXCEPT ![t] = status]

\* The circuit breaker lets the call through and the first attempt is sent.
SendFirst(t) ==
    /\ attempt' = [attempt EXCEPT ![t] = 1]
    /\ answer' = [answer EXCEPT ![t] = "WAIT"]
    /\ net' = net \cup {<<t, 1>>}

NoCall == UNCHANGED <<attempt, answer, net>>

\* POST /bookings for a flight that may not exist.
StartCreate(t, f, n) ==
    /\ pc[t] = "new"
    /\ task' = [task EXCEPT ![t] = [op |-> "create", booking |-> NoBooking,
                                    flight |-> f, seats |-> n]]
    /\ GoTo(t, "fetch")
    /\ NoCall
    /\ UNCHANGED <<available, reservation, booking, issued, outcome>>

\* GetFlight changes nothing wherever it runs, so its attempts are one step.  A
\* flight that is found gives the price; the booking gets a fresh id and the
\* seats are asked for, unless the breaker is open.
FetchFlight(t) ==
    /\ pc[t] = "fetch"
    /\ \/ /\ task[t].flight = NoFlight
          /\ Finish(t, "404")
          /\ NoCall
          /\ UNCHANGED <<issued, task>>
       \/ /\ Finish(t, "503")
          /\ NoCall
          /\ UNCHANGED <<issued, task>>
       \/ /\ task[t].flight # NoFlight
          /\ \E b \in Bookings \ issued :
                /\ issued' = issued \cup {b}
                /\ task' = [task EXCEPT ![t].booking = b]
          /\ \/ Finish(t, "503") /\ NoCall
             \/ GoTo(t, "reserve") /\ SendFirst(t) /\ UNCHANGED outcome
    /\ UNCHANGED <<available, reservation, booking>>

\* The RetryInterceptor sees UNAVAILABLE, sleeps and tries again.
MoreAttempts(t) == attempt[t] < MaxAttempts

Retry(t) ==
    /\ pc[t] \in {"reserve", "release"}
    /\ answer[t] = "UNAVAILABLE"
    /\ MoreAttempts(t)
    /\ attempt' = [attempt EXCEPT ![t] = @ + 1]
    /\ answer' = [answer EXCEPT ![t] = "WAIT"]
    /\ net' = net \cup {<<t, attempt[t] + 1>>}
    /\ UNCHANGED <<available, reservation, booking, issued, task, pc, outcome>>

\* The call is over: an answer that is not retried, or the last attempt failed.
CallEnded(t) == answer[t] # "WAIT" /\ (answer[t] = "UNAVAILABLE" => ~MoreAttempts(t))

HttpStatus(code) == CASE code = "RESOURCE_EXHAUSTED" -> "409"
                      [] code = "NOT_FOUND"          -> "404"
                      [] code = "UNAVAILABLE"        -> "503"
                      [] OTHER                       -> "500"

\* A status that no except clause names is raised again.
Sloppy_Reserved(code) == code \notin {"RESOURCE_EXHAUSTED", "NOT_FOUND", "UNAVAILABLE"}

Reserved(code) == code = "OK"

\* After a failed ReserveSeats nothing is taken back: the handler only reports.
ReserveAnswered(t) ==
    /\ pc[t] = "reserve"
    /\ CallEnded(t)
    /\ IF Reserved(answer[t])
       THEN GoTo(t, "store") /\ UNCHANGED outcome
       ELSE Finish(t, HttpStatus(answer[t]))
    /\ NoCall
    /\ UNCHANGED <<available, reservation, booking, issued, task>>

\* INSERT INTO bookings and COMMIT.  Afterwards the answer may still get lost.
StoreBooking(t) ==
    /\ pc[t] = "store"
    /\ booking' = [booking EXCEPT ![task[t].booking] =
                      [status |-> "CONFIRMED", flight |-> task[t].flight,
                       seats  |-> task[t].seats]]
    /\ Finish(t, "201") \/ Finish(t, "500")
    /\ NoCall
    /\ UNCHANGED <<available, reservation, issued, task>>

\* POST /bookings/{b}/cancel reads the row once and acts on what it read.
StartCancel(t, b) ==
    /\ pc[t] = "new"
    /\ task' = [task EXCEPT ![t] = [op |-> "cancel", booking |-> b,
                                    flight |-> NoFlight, seats |-> 0]]
    /\ \/ booking[b].status = "NONE" /\ Finish(t, "404") /\ NoCall
       \/ booking[b].status = "CANCELLED" /\ Finish(t, "409") /\ NoCall
       \/ /\ booking[b].status = "CONFIRMED"
          /\ \/ Finish(t, "503") /\ NoCall
             \/ GoTo(t, "release") /\ SendFirst(t) /\ UNCHANGED outcome
    /\ UNCHANGED <<available, reservation, booking, issued>>

\* NOT_FOUND is taken to mean "already released".
Lax_GoesOn(code) == code \in {"OK", "NOT_FOUND", "UNAVAILABLE"}

GoesOn(code) == code \in {"OK", "NOT_FOUND"}

ReleaseAnswered(t) ==
    /\ pc[t] = "release"
    /\ CallEnded(t)
    /\ IF GoesOn(answer[t])
       THEN GoTo(t, "mark") /\ UNCHANGED outcome
       ELSE Finish(t, HttpStatus(answer[t]))
    /\ NoCall
    /\ UNCHANGED <<available, reservation, booking, issued, task>>

\* UPDATE bookings SET status and COMMIT; the other columns are not written.
MarkCancelled(t) ==
    /\ pc[t] = "mark"
    /\ booking' = [booking EXCEPT ![task[t].booking].status = "CANCELLED"]
    /\ Finish(t, "200") \/ Finish(t, "500")
    /\ NoCall
    /\ UNCHANGED <<available, reservation, issued, task>>

\* The process stops, or the booking database refuses the transaction.
Die(t) ==
    /\ pc[t] \notin {"new", "done"}
    /\ Finish(t, "500")
    /\ NoCall
    /\ UNCHANGED <<available, reservation, booking, issued, task>>

-----------------------------------------------------------------------------
(* The other end of the calls                                              *)

\* Attempt k of t has left the network with this status.  The status reaches t if
\* t still waits for that attempt and the connection lives that long.
Respond(t, k, code) ==
    /\ net' = net \ {<<t, k>>}
    /\ \/ /\ pc[t] \in {"reserve", "release"} /\ attempt[t] = k /\ answer[t] = "WAIT"
          /\ answer' = [answer EXCEPT ![t] = code]
       \/ UNCHANGED answer
    /\ UNCHANGED <<booking, issued, task, pc, attempt, outcome>>

\* What ReserveSeats answers when it reserves nothing.  The last case is a retry
\* that overlapped the attempt that did the work.
ReserveRefusals(t, k) ==
    LET row == reservation[task[t].booking]
        n   == task[t].seats
    IN  {code \in Codes :
            \/ code = "OK" /\ row.status = "ACTIVE"
            \/ code = "RESOURCE_EXHAUSTED"
               /\ (row.status # "ACTIVE" \/ k > 1) /\ n > available[task[t].flight]
            \/ code = "UNKNOWN"
               /\ (row.status = "RELEASED" \/ n <= 0 \/ (row.status = "ACTIVE" /\ k > 1))}

ServeReserve(t, k) ==
    /\ <<t, k>> \in net
    /\ task[t].op = "create"
    /\ \/ /\ Reserve(task[t].booking, task[t].flight, task[t].seats)
          /\ Respond(t, k, "OK")
       \/ /\ \E code \in ReserveRefusals(t, k) : Respond(t, k, code)
          /\ UNCHANGED <<available, reservation>>

ServeRelease(t, k) ==
    /\ <<t, k>> \in net
    /\ task[t].op = "cancel"
    /\ \/ /\ Release(task[t].booking)
          /\ Respond(t, k, "OK")
       \/ /\ reservation[task[t].booking].status # "ACTIVE"
          /\ Respond(t, k, "NOT_FOUND")
          /\ UNCHANGED <<available, reservation>>

\* The attempt never reaches the flight service, or the transaction there fails.
LoseAttempt(t, k) ==
    /\ <<t, k>> \in net
    /\ Respond(t, k, "UNKNOWN")
    /\ UNCHANGED <<available, reservation>>

\* The connection breaks: the attempt may be executed all the same, later.
ConnectionBreaks(t) ==
    /\ pc[t] \in {"reserve", "release"}
    /\ answer[t] = "WAIT"
    /\ answer' = [answer EXCEPT ![t] = "UNAVAILABLE"]
    /\ UNCHANGED <<available, reservation, booking, issued, task, pc, attempt,
                   outcome, net>>

Next ==
    \/ \E t \in Tasks :
          \/ \E f \in Flights \cup {NoFlight}, n \in SeatCounts : StartCreate(t, f, n)
          \/ \E b \in Bookings : StartCancel(t, b)
          \/ FetchFlight(t) \/ ReserveAnswered(t) \/ StoreBooking(t)
          \/ ReleaseAnswered(t) \/ MarkCancelled(t)
          \/ Retry(t) \/ ConnectionBreaks(t) \/ Die(t)
    \/ \E t \in Tasks, k \in 1 .. MaxAttempts :
          ServeReserve(t, k) \/ ServeRelease(t, k) \/ LoseAttempt(t, k)

Spec == Init /\ [][Next]_vars

-----------------------------------------------------------------------------
TypeOK ==
    /\ InventoryTypeOK
    /\ booking \in [Bookings -> BookingRows]
    /\ issued \subseteq Bookings
    /\ task \in [Tasks -> TaskRecords]
    /\ pc \in [Tasks -> TaskStates]
    /\ attempt \in [Tasks -> 0 .. MaxAttempts]
    /\ answer \in [Tasks -> Codes]
    /\ outcome \in [Tasks -> Outcomes]
    /\ net \subseteq Tasks \X (1 .. MaxAttempts)

\* Where a booking is in its life, seen from both databases at once.
PhaseOf(b) ==
    LET row == booking[b].status
        res == reservation[b].status
    IN  CASE row = "NONE"      /\ res = "NONE"     -> "absent"
          [] row = "NONE"      /\ res = "ACTIVE"   -> "held"
          [] row = "CONFIRMED" /\ res = "ACTIVE"   -> "confirmed"
          [] row = "CONFIRMED" /\ res = "RELEASED" -> "released"
          [] row = "CANCELLED" /\ res = "RELEASED" -> "cancelled"
          [] OTHER                                 -> "broken"

Lifecycle == INSTANCE BookingLifecycle
                 WITH LifecycleBookings <- Bookings,
                      phase <- [b \in Bookings |-> PhaseOf(b)]

\* The two databases never contradict each other, whatever is retried, lost, late
\* or killed: no booking without a reservation behind it, no cancelled booking
\* that still holds seats, no seats given back under a booking nobody cancelled.
LifecycleImplemented == Lifecycle!LifecycleSpec

\* Some cancellation of b has read CONFIRMED and sent its ReleaseReservation, whatever
\* became of it.
CancelBegun(b) ==
    \E t \in Tasks : task[t].op = "cancel" /\ task[t].booking = b /\ attempt[t] > 0

\* Seats of the bookings that table bookings calls CONFIRMED, by its own seat counts and
\* whatever the flight database knows of them, unless somebody has begun to cancel them.
KeptSeats(f) == UNION {{b} \X (1 .. booking[b].seats) :
                           b \in {c \in Bookings : /\ booking[c].status = "CONFIRMED"
                                                   /\ booking[c].flight = f
                                                   /\ ~CancelBegun(c)}}

\* Nobody loses a seat without having asked for it: the CONFIRMED bookings that nobody
\* has begun to cancel, and what is still on offer, fit into the aircraft.  A cancellation
\* that ends between the release and the UPDATE leaves a CONFIRMED booking whose seats
\* are sold again, so that by their status alone bookings may exceed the aircraft; this is
\* the only way: no retry, late attempt or lost answer of a create does it.
OnlyCancelsOversell ==
    \A f \in Flights : available[f] + Cardinality(KeptSeats(f)) <= Total[f]

\* What a request was told stays true, whatever attempts are still on their way:
\* 201 has a booking that matches its reservation, 200 has a cancelled booking
\* whose seats are back.
AnswersHold ==
    \A t \in Tasks :
        LET b == task[t].booking IN
        /\ outcome[t] = "201" =>
              /\ booking[b].status # "NONE" /\ reservation[b].status # "NONE"
              /\ booking[b].flight = reservation[b].flight
              /\ booking[b].seats = reservation[b].seats
        /\ outcome[t] = "200" =>
              booking[b].status = "CANCELLED" /\ reservation[b].status = "RELEASED"

\* docs/er-diagram.md: seat_reservations.booking_id is a foreign key into the
\* booking service, enforced by the application.  When nothing is under way any
\* more, every reservation that holds seats has its booking.
ReservationsHaveBookings ==
    net = {} /\ (\A t \in Tasks : pc[t] \in {"new", "done"})
    => \A b \in Bookings :
          reservation[b].status = "ACTIVE" => booking[b].status # "NONE"

-----------------------------------------------------------------------------
\* Calls that are under way were made by the task that they are said to be from.
CallsFit ==
    /\ \A t \in Tasks :
          /\ pc[t] \in {"fetch", "reserve", "store"} => task[t].op = "create"
          /\ pc[t] \in {"release", "mark"} => task[t].op = "cancel"
          /\ pc[t] = "new" => task[t] = NoTask /\ outcome[t] = "none"
          /\ pc[t] = "fetch" => task[t].booking = NoBooking /\ outcome[t] = "none"
          /\ pc[t] \in {"reserve", "store"} =>
                task[t].flight \in Flights /\ task[t].booking \in Bookings
          /\ pc[t] \in {"release", "mark"} => task[t].booking \in Bookings
          /\ outcome[t] \in {"200", "201"} => task[t].booking \in Bookings
          /\ pc[t] \in {"new", "fetch"} => \A k \in 1 .. MaxAttempts : <<t, k>> \notin net
    /\ \A t \in Tasks, k \in 1 .. MaxAttempts : <<t, k>> \in net =>
          /\ task[t].booking \in Bookings
          /\ task[t].op = "create" => task[t].flight \in Flights

\* A booking id belongs to one request.
IdsUnique ==
    /\ \A t \in Tasks : task[t].op = "create" /\ task[t].booking # NoBooking =>
          /\ task[t].booking \in issued
          /\ \A u \in Tasks \ {t} :
                ~(task[u].op = "create" /\ task[u].booking = task[t].booking)
    /\ \A b \in Bookings \ issued : booking[b] = NoBookingRow /\ reservation[b] = NoRow

\* The reservation carries what the request asked for, the booking what was reserved.
RowsMatch ==
    /\ \A t \in Tasks : task[t].op = "create" /\ task[t].booking # NoBooking =>
          LET row == reservation[task[t].booking] IN
          row.status # "NONE" => row.flight = task[t].flight /\ row.seats = task[t].seats
    /\ \A b \in Bookings : booking[b].status # "NONE" =>
          /\ booking[b].flight = reservation[b].flight
          /\ booking[b].seats = reservation[b].seats

\* What each step may rely on when it crosses from one database to the other.
StepsJustified ==
    /\ \A b \in Bookings : PhaseOf(b) # "broken"
    /\ \A t \in Tasks :
          LET b == task[t].booking IN
          /\ pc[t] \in {"reserve", "store"} => booking[b].status = "NONE"
          /\ pc[t] = "reserve" /\ answer[t] = "OK" => reservation[b].status = "ACTIVE"
          /\ pc[t] = "store" => reservation[b].status = "ACTIVE"
          /\ pc[t] = "release" => booking[b].status # "NONE"
          /\ pc[t] = "release" /\ answer[t] \in {"OK", "NOT_FOUND"} =>
                reservation[b].status = "RELEASED"
          /\ pc[t] = "mark" => reservation[b].status = "RELEASED"
    /\ \A t \in Tasks, k \in 1 .. MaxAttempts :
          <<t, k>> \in net /\ task[t].op = "cancel" =>
              booking[task[t].booking].status # "NONE"

\* The inductive invariant behind LifecycleImplemented and OnlyCancelsOversell.
IInv == /\ TypeOK /\ RowsWellFormed /\ CallsFit /\ IdsUnique /\ RowsMatch
        /\ StepsJustified /\ AnswersHold
=============================================================================
