--------------------------- MODULE FlightService ---------------------------
(***************************************************************************)
(* The gRPC handlers of the flight service, one statement or await at a    *)
(* time.  A writer is a task that serves ReserveSeats or                   *)
(* ReleaseReservation in a READ COMMITTED transaction of its own; a reader *)
(* is a task that serves GetFlight or SearchFlights through the Redis      *)
(* cache.  Tasks interleave freely, wait for row locks, and may be         *)
(* cancelled between any two steps.                                        *)
(***************************************************************************)
EXTENDS SeatInventory

CONSTANTS
    Writers, Readers,   \* the tasks of the gRPC server
    NoWriter,           \* "the row is not locked"
    FlightNames,        \* spellings of flight ids that callers send
    RowOf,              \* [FlightNames -> Flights \cup {NoFlight}]
    Canonical,          \* [Flights -> FlightNames]: str(flight.id)
    BadIds,             \* strings that uuid.UUID refuses
    SearchKeys,         \* the search:... cache keys
    Route,              \* [SearchKeys -> SUBSET Flights]: what a search selects
    Miss,               \* no entry in Redis
    RedisFails          \* may a Redis command fail?

ASSUME FlightServiceAssumption ==
    /\ NoWriter \notin Writers
    /\ RowOf \in [FlightNames -> Flights \cup {NoFlight}]
    /\ Canonical \in [Flights -> FlightNames]
    /\ \A f \in Flights : RowOf[Canonical[f]] = f
    /\ BadIds \cap (FlightNames \cup Bookings) = {}
    /\ FlightNames \cap SearchKeys = {}
    /\ Route \in [SearchKeys -> SUBSET Flights]
    /\ RedisFails \in BOOLEAN

VARIABLES
    flightLock,     \* [Flights -> Writers \cup {NoWriter}]: FOR UPDATE on a flight
    rowLock,        \* the same for the reservation row of each booking id
    pc,             \* where each writer is
    req,            \* the request it serves, or served last
    seen,           \* flight.available_seats as loaded into its session
    reply,          \* the status it answered its last request with
    cache,          \* [Keys -> cached rows or Miss]: Redis
    rpc,            \* where each reader is
    key,            \* the cache key of its request
    got             \* the rows it selected

locks   == <<flightLock, rowLock>>
writers == <<pc, req, seen, reply>>
readers == <<rpc, key, got>>
redis   == <<cache, rpc, key, got>>
vars    == <<available, reservation, flightLock, rowLock, pc, req, seen, reply,
             cache, rpc, key, got>>

-----------------------------------------------------------------------------
Keys == FlightNames \cup SearchKeys

\* The flight rows that the query behind a key selects.
Selected(k) == IF k \in SearchKeys THEN Route[k] ELSE {RowOf[k]} \ {NoFlight}

ReserveRequests == [op : {"reserve"}, name : FlightNames \cup BadIds,
                    booking : Bookings \cup BadIds, seats : SeatCounts]
ReleaseRequests == [op : {"release"}, booking : Bookings \cup BadIds]
Requests == ReserveRequests \cup ReleaseRequests

NoRequest == [op |-> "none"]

\* What Redis stores: the seat counters of the rows that a query selected.
Snapshots == UNION {[S -> Int] : S \in SUBSET Flights}

Parses(r) == /\ r.booking \notin BadIds
             /\ r.op = "reserve" => r.name \notin BadIds

Codes == {"OK", "NOT_FOUND", "RESOURCE_EXHAUSTED", "INVALID_ARGUMENT",
          "UNKNOWN", "NONE"}

WriterStates == {"idle", "check", "lock_flight", "insert", "commit",
                 "find", "lock_return", "commit_return", "invalidate"}

BookingOf(w) == req[w].booking

\* The flight row that a writer works on.
FlightOf(w) == IF req[w].op = "reserve" THEN RowOf[req[w].name]
                                        ELSE reservation[BookingOf(w)].flight

Init ==
    /\ InventoryInit
    /\ flightLock = [f \in Flights |-> NoWriter]
    /\ rowLock = [b \in Bookings |-> NoWriter]
    /\ pc = [w \in Writers |-> "idle"]
    /\ req = [w \in Writers |-> NoRequest]
    /\ seen = [w \in Writers |-> 0]
    /\ reply = [w \in Writers |-> "NONE"]
    /\ cache = [k \in Keys |-> Miss]
    /\ rpc = [r \in Readers |-> "idle"]
    /\ key = [r \in Readers |-> Miss]
    /\ got = [r \in Readers |-> Miss]

-----------------------------------------------------------------------------
(* The transaction of a writer.  A definition with a prefix such as        *)
(* Leaky_ or Blind_ is the next one with a defect: it shows that the       *)
(* properties below would notice.                                          *)

\* SELECT ... FOR UPDATE goes ahead only on a row that nobody has locked.
Blind_FlightFree(f) == TRUE

FlightFree(f) == flightLock[f] = NoWriter

Blind_RowFree(b) == TRUE

RowFree(b) == rowLock[b] = NoWriter

Leaky_EndTransaction(w) ==
    /\ flightLock' = [f \in Flights |-> IF flightLock[f] = w THEN NoWriter
                                                             ELSE flightLock[f]]
    /\ UNCHANGED rowLock
    /\ seen' = [seen EXCEPT ![w] = 0]

\* The session ends: COMMIT or ROLLBACK, both give up every row lock.
EndTransaction(w) ==
    /\ flightLock' = [f \in Flights |-> IF flightLock[f] = w THEN NoWriter
                                                             ELSE flightLock[f]]
    /\ rowLock' = [b \in Bookings |-> IF rowLock[b] = w THEN NoWriter
                                                        ELSE rowLock[b]]
    /\ seen' = [seen EXCEPT ![w] = 0]

\* The handler answers with code and is ready for another request.
Answer(w, code) ==
    /\ pc' = [pc EXCEPT ![w] = "idle"]
    /\ reply' = [reply EXCEPT ![w] = code]

\* An exception leaves the session block: nothing was written.
Fail(w, code) ==
    /\ Answer(w, code)
    /\ EndTransaction(w)
    /\ UNCHANGED <<available, reservation, req, redis>>

GoTo(w, label) == pc' = [pc EXCEPT ![w] = label]

Receive(w, r) ==
    /\ pc[w] = "idle"
    /\ req' = [req EXCEPT ![w] = r]
    /\ \/ /\ ~Parses(r)
          /\ Answer(w, "INVALID_ARGUMENT")
       \/ /\ Parses(r)
          /\ GoTo(w, IF r.op = "reserve" THEN "check" ELSE "find")
          /\ reply' = [reply EXCEPT ![w] = "NONE"]
    /\ UNCHANGED <<available, reservation, locks, seen, redis>>

-----------------------------------------------------------------------------
(* ReserveSeats                                                            *)

\* A unique index makes an insert wait for an uncommitted insert of its key.
Blind_InsertPending(b) == FALSE

InsertPending(b) == \E v \in Writers : pc[v] = "commit" /\ BookingOf(v) = b

\* The query of the idempotency check sees committed rows only.
Dirty_AlreadyReserved(b) == reservation[b].status = "ACTIVE" \/ InsertPending(b)

AlreadyReserved(b) == reservation[b].status = "ACTIVE"

\* An unlocked SELECT: what it finds may change before the flight is locked.
CheckIdempotent(w) ==
    /\ pc[w] = "check"
    /\ \/ /\ AlreadyReserved(BookingOf(w))
          /\ Answer(w, "OK")
       \/ /\ ~AlreadyReserved(BookingOf(w))
          /\ GoTo(w, "lock_flight")
          /\ UNCHANGED reply
    /\ UNCHANGED <<available, reservation, locks, req, seen, redis>>

LockFlight(w) ==
    LET f == FlightOf(w) IN
    /\ pc[w] = "lock_flight"
    /\ \/ /\ f = NoFlight
          /\ Fail(w, "NOT_FOUND")
       \/ /\ f # NoFlight
          /\ FlightFree(f)
          /\ available[f] < req[w].seats
          /\ Fail(w, "RESOURCE_EXHAUSTED")
       \/ /\ f # NoFlight
          /\ FlightFree(f)
          /\ available[f] >= req[w].seats
          /\ flightLock' = [flightLock EXCEPT ![f] = w]
          /\ seen' = [seen EXCEPT ![w] = available[f]]
          /\ GoTo(w, "insert")
          /\ UNCHANGED <<available, reservation, rowLock, req, reply, redis>>

\* flight.available_seats as the reservation writes it.
PerCall_Remaining(w) == seen[w] - 1

Remaining(w) == seen[w] - req[w].seats

\* The constraints the flush runs into: the CHECKs on both rows and
\* UNIQUE(booking_id).
NotUnique_ReserveAccepted(w) ==
    /\ req[w].seats > 0
    /\ SeatsInRange(FlightOf(w), Remaining(w))
    /\ ~AlreadyReserved(BookingOf(w))

ReserveAccepted(w) ==
    /\ req[w].seats > 0
    /\ SeatsInRange(FlightOf(w), Remaining(w))
    /\ reservation[BookingOf(w)] = NoRow

\* The flush inside commit(): UPDATE flights, INSERT INTO seat_reservations.
\* An IntegrityError is caught nowhere, so the caller sees UNKNOWN.
FlushReserve(w) ==
    /\ pc[w] = "insert"
    /\ ~InsertPending(BookingOf(w))
    /\ \/ /\ ReserveAccepted(w)
          /\ GoTo(w, "commit")
          /\ UNCHANGED <<available, reservation, locks, req, seen, reply, redis>>
       \/ /\ ~ReserveAccepted(w)
          /\ Fail(w, "UNKNOWN")

CommitReserve(w) ==
    LET f == FlightOf(w) IN
    /\ pc[w] = "commit"
    /\ available' = [available EXCEPT ![f] = Remaining(w)]
    /\ reservation' = [reservation EXCEPT ![BookingOf(w)] =
                                              ActiveRow(f, req[w].seats)]
    /\ EndTransaction(w)
    /\ GoTo(w, "invalidate")
    /\ UNCHANGED <<req, reply, redis>>

-----------------------------------------------------------------------------
(* ReleaseReservation                                                      *)

\* SELECT ... WHERE status = 'ACTIVE' FOR UPDATE: waits while another release
\* holds the row, then evaluates the condition on what that one committed.
FindReservation(w) ==
    LET b == BookingOf(w) IN
    /\ pc[w] = "find"
    /\ \/ /\ reservation[b].status # "ACTIVE"
          /\ Fail(w, "NOT_FOUND")
       \/ /\ reservation[b].status = "ACTIVE"
          /\ RowFree(b)
          /\ rowLock' = [rowLock EXCEPT ![b] = w]
          /\ GoTo(w, "lock_return")
          /\ UNCHANGED <<available, reservation, flightLock, req, seen, reply, redis>>

LockReturn(w) ==
    LET f == FlightOf(w) IN
    /\ pc[w] = "lock_return"
    /\ FlightFree(f)
    /\ flightLock' = [flightLock EXCEPT ![f] = w]
    /\ seen' = [seen EXCEPT ![w] = available[f]]
    /\ GoTo(w, "commit_return")
    /\ UNCHANGED <<available, reservation, rowLock, req, reply, redis>>

\* flight.available_seats as the release writes it.
Returned(w) == seen[w] + reservation[BookingOf(w)].seats

CommitReturn(w) ==
    /\ pc[w] = "commit_return"
    /\ \/ /\ SeatsInRange(FlightOf(w), Returned(w))
          /\ available' = [available EXCEPT ![FlightOf(w)] = Returned(w)]
          /\ reservation' = [reservation EXCEPT ![BookingOf(w)].status = "RELEASED"]
          /\ EndTransaction(w)
          /\ GoTo(w, "invalidate")
          /\ UNCHANGED <<req, reply, redis>>
       \/ /\ ~SeatsInRange(FlightOf(w), Returned(w))
          /\ Fail(w, "UNKNOWN")

-----------------------------------------------------------------------------
(* The cache                                                               *)

\* A Redis command takes effect or, if Redis fails, is swallowed.
Store(k, value) ==
    \/ cache' = [cache EXCEPT ![k] = value]
    \/ RedisFails /\ UNCHANGED cache

\* reserve_seats deletes the key spelled as the caller spelled the flight id,
\* release_reservation the canonical one.
InvalidatedKey(w) == IF req[w].op = "reserve" THEN req[w].name
                                              ELSE Canonical[FlightOf(w)]

InvalidateCache(w) ==
    /\ pc[w] = "invalidate"
    /\ Store(InvalidatedKey(w), Miss)
    /\ Answer(w, "OK")
    /\ UNCHANGED <<available, reservation, locks, req, seen, readers>>

\* A cache hit is answered at once and changes nothing: no action.  A miss, or a
\* failed get, goes on to the database.
CacheMiss(r, k) ==
    /\ rpc[r] = "idle"
    /\ cache[k] = Miss \/ RedisFails
    /\ rpc' = [rpc EXCEPT ![r] = "select"]
    /\ key' = [key EXCEPT ![r] = k]
    /\ UNCHANGED <<available, reservation, locks, writers, cache, got>>

\* GetFlight answers NOT_FOUND for a row that is not there and caches nothing;
\* SearchFlights caches an empty result like any other.
SelectRows(r) ==
    /\ rpc[r] = "select"
    /\ \/ /\ key[r] \in FlightNames /\ Selected(key[r]) = {}
          /\ rpc' = [rpc EXCEPT ![r] = "idle"]
          /\ key' = [key EXCEPT ![r] = Miss]
          /\ UNCHANGED got
       \/ /\ key[r] \in SearchKeys \/ Selected(key[r]) # {}
          /\ got' = [got EXCEPT ![r] = [f \in Selected(key[r]) |-> available[f]]]
          /\ rpc' = [rpc EXCEPT ![r] = "fill"]
          /\ UNCHANGED key
    /\ UNCHANGED <<available, reservation, locks, writers, cache>>

ReaderDone(r) ==
    /\ rpc' = [rpc EXCEPT ![r] = "idle"]
    /\ key' = [key EXCEPT ![r] = Miss]
    /\ got' = [got EXCEPT ![r] = Miss]
    /\ UNCHANGED <<available, reservation, locks, writers>>

FillCache(r) ==
    /\ rpc[r] = "fill"
    /\ Store(key[r], got[r])
    /\ ReaderDone(r)

\* The TTL of an entry runs out, or a Sentinel failover loses it.
Forgetful_Expire(k) ==
    /\ k \in FlightNames
    /\ cache[k] # Miss
    /\ cache' = [cache EXCEPT ![k] = Miss]
    /\ UNCHANGED <<available, reservation, locks, writers, readers>>

Expire(k) ==
    /\ cache[k] # Miss
    /\ cache' = [cache EXCEPT ![k] = Miss]
    /\ UNCHANGED <<available, reservation, locks, writers, readers>>

-----------------------------------------------------------------------------
\* A task is cancelled (the caller went away, the connection to the database
\* broke, the process stopped): an open transaction is rolled back, one that has
\* committed stays committed and its cache entry is not deleted.
AbortWriter(w) ==
    /\ pc[w] # "idle"
    /\ Fail(w, "NONE")

AbortReader(r) ==
    /\ rpc[r] # "idle"
    /\ ReaderDone(r)
    /\ UNCHANGED cache

Next ==
    \/ \E w \in Writers :
          \/ \E r \in Requests : Receive(w, r)
          \/ CheckIdempotent(w) \/ LockFlight(w) \/ FlushReserve(w) \/ CommitReserve(w)
          \/ FindReservation(w) \/ LockReturn(w) \/ CommitReturn(w)
          \/ InvalidateCache(w)
          \/ AbortWriter(w)
    \/ \E r \in Readers :
          \/ \E k \in Keys : CacheMiss(r, k)
          \/ SelectRows(r) \/ FillCache(r)
          \/ AbortReader(r)
    \/ \E k \in Keys : Expire(k)

Spec == Init /\ [][Next]_vars

\* A step of the transaction of a writer.
Transact(w) ==
    \/ CheckIdempotent(w) \/ LockFlight(w) \/ FlushReserve(w) \/ CommitReserve(w)
    \/ FindReservation(w) \/ LockReturn(w) \/ CommitReturn(w)

\* Every task goes on with its request as long as it can, and a row lock goes to
\* those who wait for it in turn (PostgreSQL queues them), hence SF; Redis drops
\* every entry redis_ttl_seconds after it was set.
Fairness ==
    /\ \A w \in Writers : SF_vars(Transact(w)) /\ WF_vars(InvalidateCache(w))
    /\ \A k \in Keys : WF_vars(Expire(k))

FairSpec == Spec /\ Fairness

-----------------------------------------------------------------------------
TypeOK ==
    /\ InventoryTypeOK
    /\ flightLock \in [Flights -> Writers \cup {NoWriter}]
    /\ rowLock \in [Bookings -> Writers \cup {NoWriter}]
    /\ pc \in [Writers -> WriterStates]
    /\ req \in [Writers -> Requests \cup {NoRequest}]
    /\ seen \in [Writers -> Int]
    /\ reply \in [Writers -> Codes]
    /\ cache \in [Keys -> Snapshots \cup {Miss}]
    /\ rpc \in [Readers -> {"idle", "select", "fill"}]
    /\ key \in [Readers -> Keys \cup {Miss}]
    /\ got \in [Readers -> Snapshots \cup {Miss}]

\* The states in which a writer holds a lock on its flight, on its reservation.
HoldsFlight(w) == pc[w] \in {"insert", "commit", "commit_return"}
HoldsRow(w)    == pc[w] \in {"lock_return", "commit_return"}

\* What a task is doing fits its request.
RequestsFit ==
    /\ \A w \in Writers :
          /\ pc[w] \in {"check", "lock_flight", "insert", "commit"} =>
                 req[w].op = "reserve" /\ Parses(req[w])
          /\ pc[w] \in {"find", "lock_return", "commit_return"} =>
                 req[w].op = "release" /\ Parses(req[w])
          /\ pc[w] = "invalidate" => req[w].op # "none" /\ Parses(req[w])
    /\ \A r \in Readers : rpc[r] # "idle" => key[r] \in Keys

\* A row lock has at most one owner, who is where FOR UPDATE put it and nowhere
\* else: a request that ends, in whatever way, keeps no lock.
LocksOwned ==
    /\ \A w \in Writers :
          /\ HoldsFlight(w) =>
                FlightOf(w) \in Flights /\ flightLock[FlightOf(w)] = w
          /\ HoldsRow(w) => rowLock[BookingOf(w)] = w
    /\ \A f \in Flights : flightLock[f] \in Writers =>
          HoldsFlight(flightLock[f]) /\ FlightOf(flightLock[f]) = f
    /\ \A b \in Bookings : rowLock[b] \in Writers =>
          HoldsRow(rowLock[b]) /\ BookingOf(rowLock[b]) = b

\* No lost update: the seat counter that a session loaded under FOR UPDATE is
\* still the committed one whenever the session is about to write it back
\* (reserve_seats and release_reservation write the counter as a value).
LockedCounterCurrent ==
    \A w \in Writers :
        /\ HoldsFlight(w) => seen[w] = available[FlightOf(w)]
        /\ pc[w] = "insert" => req[w].seats <= seen[w]

\* What the flush established about the reservation row holds until COMMIT.
PendingRowsFree ==
    \A w \in Writers :
        /\ pc[w] = "commit" =>
              /\ reservation[BookingOf(w)] = NoRow
              /\ 0 < req[w].seats /\ req[w].seats <= seen[w]
              /\ \A v \in Writers \ {w} :
                    ~(pc[v] = "commit" /\ BookingOf(v) = BookingOf(w))
        /\ HoldsRow(w) => reservation[BookingOf(w)].status = "ACTIVE"

\* ck_flights_available_lte_total never stops a release: seats always find room
\* to come back to, so a cancellation cannot fail on a constraint.
ReleaseFits ==
    \A w \in Writers :
        pc[w] = "commit_return" => SeatsInRange(FlightOf(w), Returned(w))

\* Two ReleaseReservation calls for one booking, however they interleave, are not
\* both told that they released it (FOR UPDATE on the ACTIVE row).
OneReleaseAnswered ==
    \A v, w \in Writers :
        /\ v # w
        /\ req[v].op = "release" /\ pc[v] = "idle" /\ reply[v] = "OK"
        /\ req[w] = req[v] /\ pc[w] = "idle"
        => reply[w] # "OK"

\* The inductive invariant behind SeatsConserved and the implementation of
\* InventorySpec: together its parts survive every step of every task.
IInv ==
    /\ TypeOK
    /\ RowsWellFormed
    /\ RequestsFit
    /\ LocksOwned
    /\ LockedCounterCurrent
    /\ PendingRowsFree

\* A ReserveSeats answered with OK left a row behind, even when another call for
\* the same booking did the work, and it stays on record after a release.
ReserveAnsweredTruthfully ==
    \A w \in Writers :
        /\ pc[w] = "idle" /\ req[w].op = "reserve" /\ reply[w] = "OK"
        => reservation[BookingOf(w)].status # "NONE"

\* Nobody waits for ever: every request is answered, so the two lock orders
\* (flight only; reservation, then flight) never wait in a circle.
RequestsAnswered == \A w \in Writers : pc[w] # "idle" ~> pc[w] = "idle"

Stale(k) == /\ cache[k] # Miss
            /\ \E f \in Selected(k) : cache[k][f] # available[f]

\* Once seats stop changing hands, every cache entry ends up right or gone, for
\* good: whatever was raced, not deleted or deleted under another key, the TTL
\* mends (cache_service.set never stores without ex=).
CacheConverges ==
    <>[][UNCHANGED available]_vars => \A k \in Keys : <>[]~Stale(k)

\* The docstring of reserve_seats: a call for a booking that has an ACTIVE
\* reservation returns it.  So a call that is over, and asked for the flight and the
\* seats of the reservation that its booking now has, was answered with it, or never.
\* (A call that races the first one is told UNKNOWN, or that the seats are gone.)
ReserveIdempotent ==
    \A w \in Writers :
        /\ pc[w] = "idle" /\ req[w].op = "reserve"
        /\ Parses(req[w])
        /\ reservation[BookingOf(w)] =
               ActiveRow(RowOf[req[w].name], req[w].seats)
        => reply[w] \in {"OK", "NONE"}
=============================================================================
