# Verification of the flight booking system and the marketplace

TLA+ models of the two microservices of the flight booking system (booking service
and flight service) and of the marketplace service next to them, the TLC
configurations that check them on small instances, and TLAPS proofs for instances of
every size. Paths below are relative to `src/services/`.

    Client --REST--> booking-service --[circuit breaker [retries]]--gRPC--> flight-service
                       PostgreSQL                                      PostgreSQL, Redis
    Client --REST--> marketplace --> PostgreSQL

## 1. The system

### Components, their state, their operations

| Component | State | Operations that change it | What makes it correct |
|---|---|---|---|
| Seat inventory: the tables `flights`, `seat_reservations` | `available_seats`, one row per `booking_id` | reserve, release | every seat is on offer or in exactly one ACTIVE reservation; a row is used once |
| Flight handlers (`flight-service/app/services/flight_service.py`, `app/grpc/servicer.py`) | sessions, row locks | ReserveSeats, ReleaseReservation; GetFlight and SearchFlights fill the cache | the handlers behave like the atomic inventory; every request is answered |
| Redis cache (`app/services/cache_service.py`) | cached rows | get, set with expiry, delete | wrong entries disappear |
| Booking saga (`booking-service/app/services/booking_service.py`) | table `bookings`; calls under way | create_booking, cancel_booking | the two databases never contradict each other; answers stay true |
| Retry interceptor (`app/core/retry_interceptor.py`) | attempt, delay | attempts, sleeps | bounded; what was done already is not done again |
| Circuit breaker (`app/core/circuit_breaker.py`) | `_state`, `_failure_count`, `_open_until` | admit, record success, record failure | while OPEN only the retries of calls under way go out; it recovers |
| Orders (`marketplace/app/services/order_service.py`) | `orders`, `order_items`, `products.stock`, `user_operations` | create, update, cancel | stock conserved and not negative, one active order, only ACTIVE products |
| Promo codes (`promo_service.py`) | `promo_codes`, `current_uses` | create, apply, release | the counter counts; a discount is earned and at most 70 % |
| Products (`product_service.py`) | `price`, `stock`, `status`, `seller_id` | create, update, archive | sellers and orders do not undo each other; lines have current prices |
| Authentication (`auth_service.py`) | `users`, `refresh_tokens` | register, login, refresh | accounts are unique and stay; a token is revoked exactly when a successor is stored |

`PROJECT.json` lists the parts without state of interest (logging, mapping, start-up,
migrations, contracts) with the reason why they are not modelled; see also section 5.

### How they interact

- create_booking calls GetFlight, then ReserveSeats, then inserts its own row;
  cancel_booking reads its row, calls ReleaseReservation, then updates the row. There
  is no common transaction, no compensation and no outbox: between the two databases
  is only the order of the steps and the idempotency of the flight service.
- Every call passes the circuit breaker first and the retries inside it, so that
  three failed attempts count as one failure. The breaker is shared by all requests of
  a process.
- A flight handler runs in a READ COMMITTED transaction that locks rows with SELECT
  FOR UPDATE; the cache is written outside the transaction, and a failing Redis is
  ignored.
- Marketplace requests share the tables `products`, `promo_codes` and `orders`. Orders
  lock product rows; sellers read them without a lock and wait for it only when they
  write. The other rows are not locked.
- Registrations meet in the unique index on `users.email`, refreshes of one token in
  the UPDATE that revokes its row.

### What is hard

Handlers that interleave at every `await`; values read before a lock and used after
it; attempts that are executed late or whose answer is lost; processes that stop
between the two databases; reports to the breaker in any order; cached rows that are
stored after they were invalidated; row locks taken in different orders; a seller who
writes back what a sale has changed meanwhile; two refreshes of one token. The list
`hazards` of `PROJECT.json` names the line where each of them bites, and the
properties that watch it.

## 2. Modules

| Module | What it is |
|---|---|
| `SeatInventory` | abstract specification: Reserve and Release in one step |
| `FlightService` | the gRPC handlers step by step; implements `SeatInventory` |
| `BookingLifecycle` | abstract specification: the phases of a booking over both services |
| `BookingService` | the saga over `SeatInventory`'s steps; implements `BookingLifecycle` and `SeatInventory` |
| `CircuitBreaker` | breaker and retries around overlapping calls, with time in ticks |
| `BreakerLoad` | `CircuitBreaker` with a count (history) of the attempts made while it is OPEN |
| `OrderService` | marketplace orders by overlapping requests: stock, promo counter, rate limit |
| `PromoPricing` | amounts in cents, the discount and its rounding |
| `Shop` | products, sellers' sessions against orders' sessions, prices, promo codes, amounts |
| `AuthService` | registration, login, rotation of refresh tokens |
| `MC...` | instances of the above for TLC |
| `...Proofs` | theorems about the module of that name |
| `SumProofs` | lemmas about sums over finite sets, used by `OrderServiceProofs` and `ShopProofs` |

`FlightService` is shown to implement `SeatInventory`, and `BookingService` is built
from the steps of `SeatInventory`: the saga is thus checked against what the handlers
really do without repeating their steps.

Orders appear in two modules. `OrderService` has every check, the order of the reads and
any number of requests on one order, but no amounts; `Shop` has prices, totals, discounts
and the sellers' unlocked reads, but one session per order. Together they would be too
large to check, and what goes wrong in one hardly depends on the other.

Definitions with a prefix (`Blind_RowFree`, `Lax_GoesOn`, ...) stand before the
definition they resemble. They contain a defect on purpose; no specification uses
them. Put in place of the right definition, each makes the property that
`PROJECT.json` names with it fail.

### FlightService and the code

`pc[w]` is the statement of `reserve_seats` or `release_reservation` at which writer w
waits. `CheckIdempotent` is lines 102-112, `LockFlight` 114-123, `FlushReserve` and
`CommitReserve` 125-134, `FindReservation` 148-158, `LockReturn` 161-165,
`CommitReturn` 166-169, `InvalidateCache` 136-139 and 171-172. An INSERT that is not
yet committed holds its key in the unique index: `InsertPending`. `seen` is the
`available_seats` that the session loaded; the UPDATE writes `seen` plus or minus the
seats, as SQLAlchemy does for `flight.available_seats -= n`, so the model would show
a lost update. A task may be cancelled between any two steps (`AbortWriter`,
`AbortReader`). Names of flights are distinct from flights because the cache key
contains the caller's spelling, while `uuid.UUID` accepts several spellings.

### BookingService and the code

A task is one HTTP request. `net` is the set of attempts that have left and are not
executed yet; an attempt stays there when the client has given up (`ConnectionBreaks`
turns the wait into UNAVAILABLE but leaves the attempt), so that it may be executed
much later. `ServeReserve` and `ServeRelease` are one step of `SeatInventory` each, or
a refusal; `ReserveRefusals` also contains the refusals that an overlapping retry may
get, which `FlightService` shows (run `flight_retry`). `Die` is a process that stops
or a booking database that refuses the transaction. After a COMMIT the answer may
still be lost.

### CircuitBreaker and the code

The breaker's critical sections contain no `await` and are single steps. `attempt` and
`backoff` follow the loop of the retry interceptor; `Delays` is `_DELAYS`. A call is
counted when all its attempts have failed (`GiveUp`).
`failures` is counted up to the threshold, since the code only compares it.
`BreakerLoad` adds `sent`, the attempts that go out while the breaker is OPEN, without
restricting anything. None of them is a new call, but retries run inside the breaker and
are not asked again, and late failures prolong the time. `MaxLoad` is reached: with 3
calls of 3 attempts, the breaker lets 4 retries through after it has opened.
One remark on the library: in `grpc.aio` `await continuation(...)` may return the
call object before the RPC has ended; the model follows the code's reading, by which
it raises the RPC's error.

### OrderService and the code

A request passes the labels "read", "rate", "active", "items", "return", "validate",
"promo", "commit" in the order of create_order (37-90), update_order (126-191) and
cancel_order (194-223). Order, lines and promo counter are kept as they were read
(`seenOrder`, `seenItems`, `seenUses`); product rows are locked one by one
(`LockProduct`: the code gives no order) and held to the end of the session. COMMIT
writes what the ORM would: columns that were assigned, the counter as the value read
plus or minus one, stock as loaded under the lock. An item list is reduced to two
numbers for each product: the sum, which is subtracted, and the largest single item,
which is what `_load_and_validate_products` compares. Amounts are reduced to whether
the total reaches the promo code's minimum. PAYMENT_PENDING and later statuses are
left out: `transition_order_status` is called from nowhere.

`Overlap` restricts which requests run together. "all" is the code, which restricts
nothing. "apart" is an assumption about traffic: no two requests for one order, no two
uses of the promo code and no two creates of one user at the same time. It separates
what the row locks guarantee (`orders_together`) from what holds only as long as nobody
is in a hurry (`orders_apart`).

### Shop and the code

A seller's session is `edit[s]` and `read[s]`: `OpenEdit` is the request, with
`require_role`; `ReadProduct` is `get_product` and `_assert_product_ownership`
(`product_service.py`), which lock nothing; `CommitEdit` is the flush at COMMIT, which
writes the fields of the body that differ from what was read (`Written`) and waits for a
row lock only if there are any. A price is read as a Decimal and compared with a float,
so that an equal one may be written again or not. An order's session is `ask[o]`:
`LockProduct` is SELECT FOR UPDATE, row by row, and keeps the row as it was loaded;
`CommitCreate`, `CommitUpdate` and `CommitCancel` price the lines from those rows, compute
total and discount and write the stock. A refused request rolls back like a failed one:
`AbandonOrder` and `AbandonEdit` stand for both. Amounts are in cents; a percentage is in
hundredths of a percent, as DECIMAL(12, 2) keeps it. `Rounded` leaves open which of two
equally near cents binary floating point yields.

### AuthService and the code

A request passes "insert" (register), "lookup" (login) or "select" and "revoke" (refresh)
and then "commit". An email is what the client types, an address what the table holds:
`Lower` is `email.lower()`. An INSERT that is not committed holds its address
(`Inserting`), an UPDATE that is not committed its token (`Revoking`); rivals wait, and
then the INSERT is refused (409) while the UPDATE goes ahead, since its WHERE names the id
only. A token is named after the request that inserted it; `parent` (history) is the token
that was traded in. The answer may be lost after the COMMIT, so that a token is revoked
and nobody holds its successor. Passwords and tokens are values: bcrypt and the JWT
library are taken to be faithful.

## 3. Runs

Every module has one type invariant; where a module has an inductive invariant `IInv`,
the type invariant is a part of it and the run checks `IInv`. All runs but the "violation"
ones pass.

| Run | Bounds | Shows |
|---|---|---|
| `flight_handlers` | 2 handlers, 2 flights of 2 and 1 seats, 2 booking ids, an unknown flight, a malformed id, seat counts -1, 1, 2 | handlers implement `SeatInventory`: no lost update, seats conserved, a row used once, one release answered OK, OK only with a reservation; the inductive invariant of the proof |
| `flight_fair` | 2 handlers, 1 reader, 1 booking id, a known and an unknown flight, 1 search, failing Redis | every request answered: the lock orders cannot deadlock; when seats stop changing, the cache becomes right and stays so |
| `flight_retry` (violation) | 2 handlers, 1 flight | a retry that overlaps its first attempt is refused |
| `booking_saga` | 3 requests, 2 ids, 2 attempts each, seat counts 0, 1, 2 | bookings and reservations agree, answers stay true; a seat of a CONFIRMED booking is sold again only if somebody has begun to cancel that booking; 626,413 states |
| `booking_orphan` (violation) | 1 request, 3 attempts | seats reserved for a booking that never exists |
| `breaker` | 3 calls of 3 attempts, threshold 2, delays 1, 2, 4, recovery 2 | the breaker's state is what the reports justify; while it is OPEN only the retries left to earlier calls go out; OPEN ends; refusals end when the service is reachable |
| `orders_apart` | 3 requests that share no order, no use of the code and no creating user, 2 users, 2 orders, 2 products, item lists that name a product twice, no rate limit, sellers that archive and restock; 1,086,409 states | stock conserved, promo counter right, one active order |
| `orders_together` | 3 requests of one user, any overlap, 2 products in every order, rate limit, sellers that archive | what locks and partial UPDATEs still guarantee; deadlocks are ended, requests answered |
| `orders_double_cancel`, `orders_two_active` (violation) | 3 requests | see section 6 |
| `shop` | 1 product, 2 orders of 3 pieces, 2 sellers' sessions, 1 code which is 90 % (cut to 70 %) from 10 cents on, or 6 cents from 3 cents on; prices 1 and 5; 681,912 states | rows current under lock, lines at current prices, totals and discounts add up, stock explained by the sellers' word, archiving not undone by a stale session |
| `auth` | 4 requests, one address in 2 spellings and another, 2 passwords, 2 roles; 354,676 states | one registration per address, pairs of tokens backed by accounts, rotation atomic, a second successor only by overlap |

Why these bounds are enough to be interesting: a lost update, a double release or a
race with a retry needs two handlers; two booking ids compete for a flight whose seats
serve one of two large requests, and one id for two flights (its inserts then meet in
the unique index); the two requests of `flight_fair` cover a release that holds the
reservation row and a reservation that holds the flight row, and its search is a cache
entry that no handler deletes, like one stored under another spelling of the id;
two attempts of a call overlap with a cancellation by another request; the breaker's threshold of two is
reached by two of three calls while the third reports late; two products are what
opposite lock orders need; stock is small enough for requests to be refused. In `shop` the
stock serves one of two orders, 70 % of three pieces at 5 cents is a tie for the rounding,
and the same pieces at 1 cent miss the minimum; two sellers' sessions are what a stale one
needs. In `auth` four requests make a registration and three refreshes of its tokens, or
two registrations of one address and two logins.
`CHECK_DEADLOCK FALSE` stands only in the booking runs and in `auth`, where all requests
may be answered and nothing is left to do.

### Fairness

- `FlightService`: a transaction that can go on again and again does (strong fairness
  of `Transact`), since PostgreSQL queues those who wait for a row and no request
  waits in Python; after the COMMIT the handler answers; an entry stored in Redis
  expires, since `set` never stores without `ex=`. No fairness for readers, failures
  and cancellations.
- `BookingService`: none. Its runs check safety; the code sets no deadline for its
  calls, so that a request is answered would have to be assumed of the transport.
- `CircuitBreaker`: time passes, sleeps and attempts end, clients keep calling.
- `OrderService`: a transaction goes on when it can; PostgreSQL's deadlock detection
  aborts some member of each cycle (`Deadlocked`).
- `Shop`, `AuthService`: none; their runs check safety.

## 4. Theorems

| Module | Theorems | Argument |
|---|---|---|
| `SeatInventoryProofs` | `InventoryConservesSeats`, `InventoryUsesOnce` | cardinality of the set of held seats (pairs booking, number) grows and shrinks by the seats of one row |
| `FlightServiceProofs` | `FlightServiceInvariant`, `NoLostUpdate`, `FlightServiceImplementsInventory`, `FlightServiceConservesSeats`, `FlightServiceUsesOnce`, `ReleaseAlwaysFits`, `ReleaseAnsweredOnce`, `ReserveAnswersTruthful` | `IInv`, then refinement; `AnswersInv` for the answers |
| `BookingServiceProofs` | `BookingServiceInvariant`, `AnswersStayTrue`, `BookingImplementsLifecycle`, `BookingImplementsInventory`, `CancelsAloneOversell` | `IInv`, then two refinements; `ReleasesAsked` |
| `CircuitBreakerProofs` | `BreakerInvariant`, `BreakerTyped`, `ClosedMeansBelowThreshold`, `OpenOnlyLeftByProbe`, `LoadIsBounded` | type invariant plus threshold; each retry sent is one that is not left any more |
| `OrderServiceProofs`, any overlap | `OrderTyped`, `OrderLocks`, `ActiveWhenSold`, `CanceledStays`, `StockStaysCovered` | who holds which row; what is checked under a lock stays so |
| `OrderServiceProofs`, requests apart | `OneActiveIfApart`, `StockConservedIfApart`, `PromoCountedIfApart` | what a request has read of its order and of the code is still so |
| `ShopProofs` | `ShopInvariant`, `LinesAtCurrentPrice`, `ArchivedStaysArchived`, `DiscountBounded`, `StoredAmountsAdd`, `DiscountsAreEarned`, `NoSaleIsLost` | a row loaded under lock is the committed one; integer arithmetic of the rounding; sums over lines and orders |
| `AuthServiceProofs` | `AuthInvariant`, `RegistrationsHold`, `GrantsAreBacked`, `RotationIsAtomic`, `TokensRotateOnce` | what every request may rely on at its label |

They hold for every number of flights, bookings, handlers, requests, attempts, calls,
products, orders, sessions, codes and addresses that the modules' named assumptions allow
(sets of flights and bookings as given, thresholds positive, special values outside the
sets they mark, finitely many calls in one process, and finitely many products and orders,
whose ids are UUIDs). Some need
more, as hypotheses of the theorem: `OneActiveIfApart`,
`StockConservedIfApart` and `PromoCountedIfApart` assume `Overlap = "apart"`;
`StockStaysCovered` assumes that no item list names a product twice. Without them the
properties fail (section 6), so each hypothesis says what the code relies on.

- `FlightService!IInv`. That seats are conserved is not inductive: a handler at
  "commit" writes back `seen`, so one must know that `seen` is the committed counter;
  that is so because it holds the lock; that the lock is exclusive and in the hands of
  a handler at such a label is the part about locks; and that a pending row is still
  free at COMMIT is the part about the unique index. With `IInv`, each handler's COMMIT
  is a step of `SeatInventory` and everything else a stutter; conservation and
  use-once follow by citing the theorems about `SeatInventory`. What a handler answers
  becomes true at its COMMIT, before it answers: `AnswersInv` speaks of both places.
- `BookingService!IInv`. That 201 stays true needs that no late attempt can undo it:
  a late ReserveSeats finds the reservation ACTIVE (no effect) or RELEASED (refused),
  because `SeatInventory` never revives a row; a late ReleaseReservation exists only
  for a booking whose row was read as CONFIRMED. `CallsFit`, `IdsUnique`, `RowsMatch`
  and `StepsJustified` say so for every label and every attempt in `net`. The phases
  of `BookingLifecycle` are a function of both tables (`PhaseOf`), and exactly four
  actions move them.
- `OnlyCancelsOversell` counts the bookings that are CONFIRMED by their status, whatever the
  flight database says of them. `ReleasesAsked`: a reservation is RELEASED, and a
  ReleaseReservation is in `net`, only if a cancellation of its booking has sent one. So a
  CONFIRMED booking that nobody has begun to cancel has its ACTIVE reservation of as many
  seats (`RowsMatch`), the seats counted are among those that `SeatInventory` counts, and
  `InventoryConservesSeats` bounds them.
- `BreakerLoad!LoadInv`. Let a call have left as many retries as attempts it has not begun
  (none when idle). While OPEN, `sent` and the retries left to all calls are together at
  most `MaxLoad`: a retry adds one to `sent` and takes one from what is left, nothing is
  admitted, and the call whose failure opens the breaker has none left. The sum is the
  cardinality of a set of pairs, call and attempt.
- `OrderService`, any overlap. `OrderInv`: rows in `want` and `lock` add up to the
  request's products from the check on. `TypeInv` is `TypeOK` with `Stage`, which operation
  may be at which label, and that the lines which a request has read, or an order has,
  belong to requests that are done, so that their quantities do not change any more.
  `StockInv` is what makes `StockNotNegative` inductive: from "return" on a request holds
  the rows of the lines it gives back (`HoldsReturns`), and from "promo" on there still is
  in stock, to the last piece, what it found there (`HoldsChecks`). A commit of another
  request does not disturb that, since it changes only rows which that one has locked; a
  seller's UPDATE waits for the lock.
- `OrderService`, requests apart. `Alone`: no two requests have one order, one promo code
  or, as creates, one user. `Fresh`: what a request has read of its order is still so; only
  with it do the lines that an update replaces or a cancel returns equal the lines the
  order has, and the units which the stock gets equal those which live orders lose
  (`CommitConserves`). `Alone` itself is delicate in one place: a create with a promo code
  may bring it to an update that waits to read the new order; the create was the only one
  that had the code, and it ends with that step (`CreateKeepsApart`). `PromoInv` adds that
  `current_uses` is still what a request at "commit" read, because at most one request
  writes it; then each commit moves the counter and the set of live orders with the code
  alike. `ActiveInv` says that creates under way have different users and that what
  `_check_no_active_order` found is still so.
- `Shop!IInv` is `TypeOK` and `LoadedCurrent`: a row in `loaded` is locked by its order
  and is the committed row, so that prices copied from it are current at COMMIT. Sellers
  keep to it because `CommitEdit` waits for the lock when it writes. It also carries that
  a row keeps its seller, without which a stale session might write another's product.
  `DiscountBounded` is about `CalculateDiscount` alone. For the amounts `TablesInv` says
  that a session's request still fits the order it is for, that the lines and the code of an
  order are on record, and that an order not yet placed has no lines. `NoSaleIsLost` follows since
  a COMMIT of an order adds to the row as it is (`StockWritten`), and a COMMIT of a seller
  who does not name the stock leaves it alone.
- Sums. `StockConserved`, `AmountsAdd` and `StockExplained` speak of sums over sets,
  `SumFunctionOnSet` of the community modules, a fold that takes elements in an order left
  to CHOOSE. `SumProofs` does without an induction over the set: the cardinality of a set of
  pairs <<x, i>>, i in 1 .. f[x], satisfies the equation that defines the fold, and facts
  about cardinalities (an element added, taken out, changed) become facts about sums.
- `AuthService!IInv`: `RotationAtomic` needs that the token of a refresh at "commit" is
  stored and that nothing has been stored yet for the refresh itself (`RequestsOk`,
  `TokensOk`);
  `RegistrationHolds` needs that one INSERT per address is under way (`OneInserts`);
  `RotatedOnce` needs that a refresh which was not refused found no successor older than
  itself, which is what `Valid` tells at "select" and nothing changes afterwards.

Every invariant and every action property that a passing run checks, and every refinement,
is stated by one of these theorems. Only model-checked: everything under fairness, namely
that requests are answered and deadlocks ended (`RequestsAnswered` of `FlightService` and
of `OrderService`), that the cache converges (`CacheConverges`) and that an outage and its
refusals end (`OpenEnds`, `RefusalsEnd`).

## 5. Not modelled

- Read-only endpoints, the flight search of the booking service, response mapping:
  they change nothing.
- Prices and passenger data of bookings; name, description and category of products:
  no property tells them apart.
- Hashing and JWT encoding, the API key check: library calls and one comparison.
- The activity and the validity period of a promo code: they refuse an order and change
  nothing, and nothing in the code makes a code inactive.
- `transition_order_status`, `create_token_pair` and `core/security copy.py`: used by
  nothing.
- Sentinel failover beyond failing commands; connection pools; logging, start-up and
  migrations (I/O and wiring).

## 6. Disagreements between code and documentation

| Run | Code | Says otherwise |
|---|---|---|
| `flight_retry` | the idempotency check is not protected against an overlapping call for the same booking | `flight_service.py:93` "Idempotent: if booking_id already has an ACTIVE reservation, return its id" |
| `booking_orphan` | a failed or interrupted create_booking leaves its reservation behind | `docs/er-diagram.md:55` "enforced by app logic" |
| `orders_double_cancel` | overlapping cancellations return stock twice | `openapi/spec.yaml:950` |
| `orders_two_active` | overlapping creations give a user two active orders, later creations end in 500 | `core/exceptions.py:80` |

Seen in the models, without a run of their own:

- A cancellation that ends in 500 or 503, or whose process stops, may have released the
  seats, or may still release them, while the booking stays CONFIRMED
  (`booking_service.py:143-155`). The seats are then sold again: counted by status alone, the
  CONFIRMED bookings of a flight can exceed the aircraft until the client cancels again.
  Hence `OnlyCancelsOversell`, which excuses the bookings that somebody has begun to cancel
  and no others.
- A reader that selected a flight before a COMMIT may store it after the invalidation
  (`flight_service.py:85` and `:137`), which is why `CacheConverges` speaks of expiry.
- The retry interceptor's first delay is never slept (`retry_interceptor.py:26`; its
  docstring lists 100 ms first).
- Overlapping orders with one promo code write the same `current_uses`
  (`promo_service.py:90`), which is why `PromoCounted` is checked for "apart".
- A rate limit is passed by requests that overlap (`order_service.py:249`).
- An item list that names a product twice is compared item by item
  (`order_service.py:306`): the stock goes below zero in `orders_apart`, although
  `openapi/spec.yaml:226-228` gives it "minimum: 0". `StockNotNegative` is checked in
  `orders_together`, whose lists name a product once.
- Two updates of one order that overlap leave the lines of both.
- Two refreshes of one token that overlap are both given a pair (`auth_service.py:90`),
  which is why `RotatedOnce` speaks of refreshes one after the other.
- A seller who names the stock it has read has nothing written, although orders may have
  changed it meanwhile and the answer is 200 (`product_service.py:86`).

## 7. Plan

Done, in this order: seat inventory and flight handlers, the saga, the circuit breaker,
orders; then refresh tokens, the shop with prices and discounts, and the theorems about
them, about the handlers' answers and about one active order; then the theorems about sums:
stock and promo counter of `OrderService`, amounts and stock of `Shop`. Left:

1. `Warehouse`: reserve and return of units as an abstract specification that `OrderService`
   under "apart" and `Shop` both implement, step by step, from `CommitConserves` and
   `CommitExplained`.
2. `CircuitBreaker` and `BookingService` composed: requests refused while OPEN, the
   attempts of the saga as the calls of the breaker.
3. Connection pools: requests that each hold a session while they wait for a lock or a
   remote call.
