------------------------ MODULE FlightServiceProofs ------------------------
(***************************************************************************)
(* For every number of tasks, flights, bookings and cache keys, with or    *)
(* without Redis failures: IInv is an invariant of the handlers, they      *)
(* implement SeatInventory, and so they inherit its conservation of seats. *)
(***************************************************************************)
EXTENDS FlightService, SeatInventoryProofs

\* A request that parses names a booking; a reservation also names a flight and
\* asks for a number of seats.
LEMMA RequestParts ==
    ASSUME TypeOK, NEW w \in Writers, Parses(req[w])
    PROVE  /\ req[w].op # "none" => BookingOf(w) \in Bookings
           /\ req[w].op = "reserve" =>
                 req[w].name \in FlightNames /\ req[w].seats \in SeatCounts
BY DEF TypeOK, Parses, BookingOf, Requests, ReserveRequests, ReleaseRequests,
       NoRequest

LEMMA InitIInv == Init => IInv
<1> SUFFICES ASSUME Init PROVE IInv
  OBVIOUS
<1>0. InventoryInv
  BY InventoryInitInv DEF Init
<1>1. TypeOK
  <2>1. InventoryTypeOK
    BY <1>0 DEF InventoryInv
  <2> QED
    BY <2>1 DEF Init, TypeOK, WriterStates, Codes, NoRequest
<1>2. RowsWellFormed
  BY <1>0 DEF InventoryInv
<1>3. RequestsFit /\ LocksOwned /\ LockedCounterCurrent /\ PendingRowsFree
  BY FlightServiceAssumption
     DEF Init, RequestsFit, LocksOwned, LockedCounterCurrent, PendingRowsFree,
         HoldsFlight, HoldsRow
<1> QED
  BY <1>1, <1>2, <1>3 DEF IInv

-----------------------------------------------------------------------------
\* Whatever stops a handler before its COMMIT, the rollback leaves nothing of it.
LEMMA FailKeepsIInv ==
    ASSUME IInv, NEW w \in Writers, NEW code \in Codes, Fail(w, code)
    PROVE  IInv'
<1> USE FlightServiceAssumption DEF IInv
<1>f. /\ pc' = [pc EXCEPT ![w] = "idle"]
      /\ UNCHANGED <<available, reservation, req>>
      /\ seen' = [seen EXCEPT ![w] = 0]
      /\ flightLock' = [f \in Flights |-> IF flightLock[f] = w THEN NoWriter
                                                               ELSE flightLock[f]]
      /\ rowLock' = [b \in Bookings |-> IF rowLock[b] = w THEN NoWriter
                                                          ELSE rowLock[b]]
  BY DEF Fail, Answer, EndTransaction
<1>1. TypeOK'
  BY DEF Fail, Answer, EndTransaction, TypeOK, WriterStates, InventoryTypeOK, redis
<1>2. RowsWellFormed'
  BY <1>f DEF RowsWellFormed
<1>3. RequestsFit'
  BY <1>f DEF TypeOK, RequestsFit, Parses, Fail, redis
<1>o. \A v \in Writers \ {w} : pc'[v] = pc[v] /\ seen'[v] = seen[v]
  BY <1>f DEF TypeOK
<1>w. pc'[w] = "idle"
  BY <1>f DEF TypeOK
<1>4. LocksOwned'
  <2>1. \A v \in Writers : FlightOf(v)' = FlightOf(v) /\ BookingOf(v)' = BookingOf(v)
    BY <1>f DEF FlightOf, BookingOf
  <2>2. ASSUME NEW v \in Writers, HoldsFlight(v)'
        PROVE  FlightOf(v)' \in Flights /\ flightLock'[FlightOf(v)'] = v
    BY <1>f, <1>o, <1>w, <2>1, <2>2 DEF LocksOwned, HoldsFlight
  <2>3. ASSUME NEW v \in Writers, HoldsRow(v)' PROVE rowLock'[BookingOf(v)'] = v
    <3>1. v # w /\ HoldsRow(v) /\ rowLock[BookingOf(v)] = v
      BY <1>f, <1>o, <1>w, <2>3 DEF LocksOwned, HoldsRow
    <3>2. BookingOf(v) \in Bookings
      BY <3>1, RequestParts DEF RequestsFit, HoldsRow
    <3> QED
      BY <1>f, <2>1, <3>1, <3>2
  <2>4. ASSUME NEW f \in Flights, (flightLock[f] \in Writers)'
        PROVE  (HoldsFlight(flightLock[f]) /\ FlightOf(flightLock[f]) = f)'
    BY <1>f, <1>o, <2>1, <2>4 DEF LocksOwned, HoldsFlight
  <2>5. ASSUME NEW b \in Bookings, (rowLock[b] \in Writers)'
        PROVE  (HoldsRow(rowLock[b]) /\ BookingOf(rowLock[b]) = b)'
    BY <1>f, <1>o, <2>1, <2>5 DEF LocksOwned, HoldsRow
  <2> QED
    BY <2>2, <2>3, <2>4, <2>5 DEF LocksOwned
<1>5. LockedCounterCurrent'
  BY <1>f, <1>o, <1>w DEF LockedCounterCurrent, HoldsFlight, FlightOf, BookingOf
<1>6. PendingRowsFree'
  BY <1>f, <1>o, <1>w DEF PendingRowsFree, HoldsRow, BookingOf
<1> QED
  BY <1>1, <1>2, <1>3, <1>4, <1>5, <1>6

\* The states in which a task holds no lock.
Unlocked == {"idle", "check", "lock_flight", "find", "invalidate"}

\* A step of w from one of these to another disturbs nothing.
LEMMA UnlockedStepKeepsIInv ==
    ASSUME IInv, NEW w \in Writers,
           UNCHANGED <<available, reservation, flightLock, rowLock, seen>>,
           \A v \in Writers \ {w} : pc'[v] = pc[v] /\ req'[v] = req[v],
           pc[w] \in Unlocked, pc'[w] \in Unlocked,
           TypeOK', RequestsFit'
    PROVE  IInv'
<1> USE FlightServiceAssumption DEF IInv, Unlocked
<1>1. RowsWellFormed'
  BY DEF RowsWellFormed
<1>2. \A v \in Writers \ {w} : FlightOf(v)' = FlightOf(v) /\ BookingOf(v)' = BookingOf(v)
  BY DEF FlightOf, BookingOf
<1>3. LocksOwned'
  BY <1>2 DEF LocksOwned, HoldsFlight, HoldsRow
<1>4. LockedCounterCurrent'
  BY <1>2 DEF LockedCounterCurrent, HoldsFlight
<1>5. PendingRowsFree'
  BY <1>2 DEF PendingRowsFree, HoldsRow
<1> QED
  BY <1>1, <1>3, <1>4, <1>5

LEMMA ReceiveKeepsIInv ==
    ASSUME IInv, NEW w \in Writers, NEW r \in Requests, Receive(w, r)
    PROVE  IInv'
<1> USE DEF IInv
<1>1. TypeOK'
  BY DEF TypeOK, InventoryTypeOK, Receive, Answer, GoTo, WriterStates, Codes, locks, redis
<1>2. r.op \in {"reserve", "release"}
  BY DEF Requests, ReserveRequests, ReleaseRequests
<1>3. RequestsFit'
  BY <1>2 DEF TypeOK, RequestsFit, Receive, Answer, GoTo, redis
<1>4. /\ \A v \in Writers \ {w} : pc'[v] = pc[v] /\ req'[v] = req[v]
      /\ pc[w] \in Unlocked /\ pc'[w] \in Unlocked
  BY DEF TypeOK, Receive, Answer, GoTo, Unlocked
<1> QED
  BY <1>1, <1>3, <1>4, UnlockedStepKeepsIInv DEF Receive, locks

LEMMA CheckIdempotentKeepsIInv ==
    ASSUME IInv, NEW w \in Writers, CheckIdempotent(w)
    PROVE  IInv'
<1> USE DEF IInv
<1>1. TypeOK'
  BY DEF TypeOK, InventoryTypeOK, CheckIdempotent, Answer, GoTo, WriterStates, Codes, locks, redis
<1>2. RequestsFit'
  BY DEF TypeOK, RequestsFit, CheckIdempotent, Answer, GoTo, redis
<1>3. /\ \A v \in Writers \ {w} : pc'[v] = pc[v] /\ req'[v] = req[v]
      /\ pc[w] \in Unlocked /\ pc'[w] \in Unlocked
  BY DEF TypeOK, CheckIdempotent, Answer, GoTo, Unlocked
<1> QED
  BY <1>1, <1>2, <1>3, UnlockedStepKeepsIInv DEF CheckIdempotent, locks

LEMMA InvalidateCacheKeepsIInv ==
    ASSUME IInv, NEW w \in Writers, InvalidateCache(w)
    PROVE  IInv'
<1> USE DEF IInv
<1>1. TypeOK'
  BY DEF TypeOK, InventoryTypeOK, InvalidateCache, Store, Answer, WriterStates,
         Codes, locks, readers
<1>2. RequestsFit'
  BY DEF TypeOK, RequestsFit, InvalidateCache, Answer, readers
<1>3. /\ \A v \in Writers \ {w} : pc'[v] = pc[v] /\ req'[v] = req[v]
      /\ pc[w] \in Unlocked /\ pc'[w] \in Unlocked
  BY DEF TypeOK, InvalidateCache, Answer, Unlocked
<1> QED
  BY <1>1, <1>2, <1>3, UnlockedStepKeepsIInv DEF InvalidateCache, locks

\* Readers and the TTL touch the cache only.
LEMMA ReaderKeepsIInv ==
    ASSUME IInv,
           \/ \E r \in Readers : \/ \E k \in Keys : CacheMiss(r, k)
                                 \/ SelectRows(r) \/ FillCache(r) \/ AbortReader(r)
           \/ \E k \in Keys : Expire(k)
    PROVE  IInv'
<1> USE FlightServiceAssumption DEF IInv
<1>u. UNCHANGED <<available, reservation, flightLock, rowLock, pc, req, seen, reply>>
  BY DEF CacheMiss, SelectRows, FillCache, AbortReader, ReaderDone, Expire, locks, writers
<1>s. ASSUME NEW S \in SUBSET Flights
      PROVE  [f \in S |-> available[f]] \in Snapshots
  BY DEF Snapshots, TypeOK, InventoryTypeOK
<1>1. cache' \in [Keys -> Snapshots \cup {Miss}]
  BY DEF TypeOK, CacheMiss, SelectRows, FillCache, AbortReader, ReaderDone, Expire, Store
<1>2. rpc' \in [Readers -> {"idle", "select", "fill"}]
  BY DEF TypeOK, CacheMiss, SelectRows, FillCache, AbortReader, ReaderDone, Expire, readers
<1>3. key' \in [Readers -> Keys \cup {Miss}]
  BY DEF TypeOK, CacheMiss, SelectRows, FillCache, AbortReader, ReaderDone, Expire, readers
<1>4. got' \in [Readers -> Snapshots \cup {Miss}]
  <2>1. ASSUME NEW r \in Readers, SelectRows(r)
        PROVE  got' \in [Readers -> Snapshots \cup {Miss}]
    <3>1. key[r] \in Keys
      BY <2>1 DEF SelectRows, RequestsFit
    <3>2. Selected(key[r]) \in SUBSET Flights
      BY <3>1 DEF Selected, Keys
    <3> QED
      BY <2>1, <3>2, <1>s DEF SelectRows, TypeOK
  <2> QED
    BY <2>1 DEF TypeOK, CacheMiss, FillCache, AbortReader, ReaderDone, Expire, readers
<1>5. TypeOK'
  BY <1>u, <1>1, <1>2, <1>3, <1>4 DEF TypeOK, InventoryTypeOK
<1>6. RowsWellFormed'
  BY <1>u DEF RowsWellFormed
<1>7. \A r \in Readers : rpc'[r] # "idle" => key'[r] \in Keys
  BY DEF TypeOK, RequestsFit, CacheMiss, SelectRows, FillCache, AbortReader,
         ReaderDone, Expire, readers
<1>8. RequestsFit'
  BY <1>u, <1>7 DEF RequestsFit
<1>9. LocksOwned'
  BY <1>u DEF LocksOwned, HoldsFlight, HoldsRow, FlightOf, BookingOf
<1>10. LockedCounterCurrent'
  BY <1>u DEF LockedCounterCurrent, HoldsFlight, FlightOf, BookingOf
<1>11. PendingRowsFree'
  BY <1>u DEF PendingRowsFree, HoldsRow, BookingOf
<1> QED
  BY <1>5, <1>6, <1>8, <1>9, <1>10, <1>11

-----------------------------------------------------------------------------
\* Steps that take a lock.  The other tasks keep what they have, because the lock
\* was free.
LEMMA LockFlightKeepsIInv ==
    ASSUME IInv, NEW w \in Writers, LockFlight(w)
    PROVE  IInv'
<1> USE FlightServiceAssumption DEF IInv
<1> DEFINE f == FlightOf(w)
<1>p. /\ pc[w] = "lock_flight" /\ req[w].op = "reserve" /\ Parses(req[w])
      /\ BookingOf(w) \in Bookings /\ req[w].seats \in Int
      /\ f = RowOf[req[w].name] /\ f \in Flights \cup {NoFlight}
  BY RequestParts, InventoryAssumption DEF LockFlight, RequestsFit, FlightOf
<1>1. CASE Fail(w, "NOT_FOUND") \/ Fail(w, "RESOURCE_EXHAUSTED")
  BY <1>1, FailKeepsIInv DEF Codes
<1>2. CASE /\ f # NoFlight /\ FlightFree(f) /\ available[f] >= req[w].seats
           /\ flightLock' = [flightLock EXCEPT ![f] = w]
           /\ seen' = [seen EXCEPT ![w] = available[f]]
           /\ GoTo(w, "insert")
           /\ UNCHANGED <<available, reservation, rowLock, req, reply, redis>>
  <2>f. f \in Flights /\ flightLock[f] = NoWriter
    BY <1>p, <1>2 DEF FlightFree
  <2>o. /\ \A v \in Writers \ {w} : pc'[v] = pc[v] /\ seen'[v] = seen[v]
        /\ pc'[w] = "insert" /\ seen'[w] = available[f]
        /\ flightLock'[f] = w
        /\ \A g \in Flights \ {f} : flightLock'[g] = flightLock[g]
    BY <1>2, <2>f DEF TypeOK, GoTo
  <2>e. \A v \in Writers : FlightOf(v)' = FlightOf(v) /\ BookingOf(v)' = BookingOf(v)
    BY <1>2 DEF FlightOf, BookingOf
  <2>1. TypeOK'
    BY <1>2, <2>f DEF TypeOK, InventoryTypeOK, GoTo, WriterStates, redis
  <2>2. RowsWellFormed'
    BY <1>2 DEF RowsWellFormed
  <2>3. RequestsFit'
    BY <1>p, <1>2, <2>o DEF RequestsFit, redis
  <2>4. LocksOwned'
    BY <1>p, <1>2, <2>f, <2>o, <2>e DEF LocksOwned, HoldsFlight, HoldsRow
  <2>5. LockedCounterCurrent'
    BY <1>p, <1>2, <2>o, <2>e DEF LockedCounterCurrent, HoldsFlight
  <2>6. PendingRowsFree'
    BY <1>p, <1>2, <2>o, <2>e DEF PendingRowsFree, HoldsRow
  <2> QED
    BY <2>1, <2>2, <2>3, <2>4, <2>5, <2>6
<1> QED
  BY <1>1, <1>2 DEF LockFlight

LEMMA FindReservationKeepsIInv ==
    ASSUME IInv, NEW w \in Writers, FindReservation(w)
    PROVE  IInv'
<1> USE FlightServiceAssumption DEF IInv
<1> DEFINE b == BookingOf(w)
<1>p. /\ pc[w] = "find" /\ req[w].op = "release" /\ Parses(req[w])
      /\ b \in Bookings
  BY RequestParts DEF FindReservation, RequestsFit
<1>1. CASE Fail(w, "NOT_FOUND")
  BY <1>1, FailKeepsIInv DEF Codes
<1>2. CASE /\ reservation[b].status = "ACTIVE" /\ RowFree(b)
           /\ rowLock' = [rowLock EXCEPT ![b] = w]
           /\ GoTo(w, "lock_return")
           /\ UNCHANGED <<available, reservation, flightLock, req, seen, reply, redis>>
  <2>f. rowLock[b] = NoWriter
    BY <1>2 DEF RowFree
  <2>o. /\ \A v \in Writers \ {w} : pc'[v] = pc[v]
        /\ pc'[w] = "lock_return"
        /\ rowLock'[b] = w
        /\ \A c \in Bookings \ {b} : rowLock'[c] = rowLock[c]
    BY <1>p, <1>2 DEF TypeOK, GoTo
  <2>e. \A v \in Writers : FlightOf(v)' = FlightOf(v) /\ BookingOf(v)' = BookingOf(v)
    BY <1>2 DEF FlightOf, BookingOf
  <2>1. TypeOK'
    BY <1>p, <1>2 DEF TypeOK, InventoryTypeOK, GoTo, WriterStates, redis
  <2>2. RowsWellFormed'
    BY <1>2 DEF RowsWellFormed
  <2>3. RequestsFit'
    BY <1>p, <1>2, <2>o DEF RequestsFit, redis
  <2>b. \A v \in Writers : HoldsRow(v) => BookingOf(v) \in Bookings
    BY RequestParts DEF RequestsFit, HoldsRow
  <2>4. LocksOwned'
    BY <1>p, <1>2, <2>f, <2>o, <2>e, <2>b DEF LocksOwned, HoldsFlight, HoldsRow
  <2>5. LockedCounterCurrent'
    BY <1>p, <1>2, <2>o, <2>e DEF LockedCounterCurrent, HoldsFlight
  <2>6. PendingRowsFree'
    BY <1>p, <1>2, <2>o, <2>e DEF PendingRowsFree, HoldsRow
  <2> QED
    BY <2>1, <2>2, <2>3, <2>4, <2>5, <2>6
<1> QED
  BY <1>1, <1>2 DEF FindReservation

LEMMA LockReturnKeepsIInv ==
    ASSUME IInv, NEW w \in Writers, LockReturn(w)
    PROVE  IInv'
<1> USE FlightServiceAssumption DEF IInv
<1> DEFINE f == FlightOf(w)
<1>p. /\ pc[w] = "lock_return" /\ req[w].op = "release" /\ Parses(req[w])
      /\ BookingOf(w) \in Bookings /\ rowLock[BookingOf(w)] = w
      /\ reservation[BookingOf(w)].status = "ACTIVE"
  BY RequestParts
     DEF LockReturn, RequestsFit, LocksOwned, PendingRowsFree, HoldsRow
<1>q. f = reservation[BookingOf(w)].flight /\ f \in Flights
  BY <1>p DEF FlightOf, RowsWellFormed
<1>u. /\ flightLock[f] = NoWriter
      /\ flightLock' = [flightLock EXCEPT ![f] = w]
      /\ seen' = [seen EXCEPT ![w] = available[f]]
      /\ pc' = [pc EXCEPT ![w] = "commit_return"]
      /\ UNCHANGED <<available, reservation, rowLock, req, reply, redis>>
  BY DEF LockReturn, FlightFree, GoTo
<1>o. /\ \A v \in Writers \ {w} : pc'[v] = pc[v] /\ seen'[v] = seen[v]
      /\ pc'[w] = "commit_return" /\ seen'[w] = available[f]
      /\ flightLock'[f] = w
      /\ \A g \in Flights \ {f} : flightLock'[g] = flightLock[g]
  BY <1>q, <1>u DEF TypeOK
<1>e. \A v \in Writers : FlightOf(v)' = FlightOf(v) /\ BookingOf(v)' = BookingOf(v)
  BY <1>u DEF FlightOf, BookingOf
<1>1. TypeOK'
  BY <1>q, <1>u DEF TypeOK, InventoryTypeOK, WriterStates, redis
<1>2. RowsWellFormed'
  BY <1>u DEF RowsWellFormed
<1>3. RequestsFit'
  BY <1>p, <1>u, <1>o DEF RequestsFit, redis
<1>4. LocksOwned'
  BY <1>p, <1>q, <1>u, <1>o, <1>e DEF LocksOwned, HoldsFlight, HoldsRow
<1>5. LockedCounterCurrent'
  BY <1>p, <1>u, <1>o, <1>e DEF LockedCounterCurrent, HoldsFlight
<1>6. PendingRowsFree'
  BY <1>p, <1>u, <1>o, <1>e DEF PendingRowsFree, HoldsRow
<1> QED
  BY <1>1, <1>2, <1>3, <1>4, <1>5, <1>6

LEMMA FlushReserveKeepsIInv ==
    ASSUME IInv, NEW w \in Writers, FlushReserve(w)
    PROVE  IInv'
<1> USE FlightServiceAssumption DEF IInv
<1>p. /\ pc[w] = "insert" /\ req[w].op = "reserve" /\ Parses(req[w])
      /\ BookingOf(w) \in Bookings /\ req[w].seats \in Int
      /\ ~InsertPending(BookingOf(w))
  BY RequestParts, InventoryAssumption DEF FlushReserve, RequestsFit
<1>1. CASE Fail(w, "UNKNOWN")
  BY <1>1, FailKeepsIInv DEF Codes
<1>2. CASE /\ ReserveAccepted(w)
           /\ GoTo(w, "commit")
           /\ UNCHANGED <<available, reservation, locks, req, seen, reply, redis>>
  <2>o. /\ \A v \in Writers \ {w} : pc'[v] = pc[v]
        /\ pc'[w] = "commit"
    BY <1>2 DEF TypeOK, GoTo
  <2>e. \A v \in Writers : FlightOf(v)' = FlightOf(v) /\ BookingOf(v)' = BookingOf(v)
    BY <1>2 DEF FlightOf, BookingOf
  <2>1. TypeOK'
    BY <1>2 DEF TypeOK, InventoryTypeOK, GoTo, WriterStates, locks, redis
  <2>2. RowsWellFormed'
    BY <1>2 DEF RowsWellFormed
  <2>3. RequestsFit'
    BY <1>p, <1>2, <2>o DEF RequestsFit, redis
  <2>4. LocksOwned'
    BY <1>p, <1>2, <2>o, <2>e DEF LocksOwned, HoldsFlight, HoldsRow, locks
  <2>5. LockedCounterCurrent'
    BY <1>p, <1>2, <2>o, <2>e DEF LockedCounterCurrent, HoldsFlight
  <2>6. PendingRowsFree'
    BY <1>p, <1>2, <2>o, <2>e
       DEF PendingRowsFree, HoldsRow, ReserveAccepted, InsertPending,
           LockedCounterCurrent
  <2> QED
    BY <2>1, <2>2, <2>3, <2>4, <2>5, <2>6
<1> QED
  BY <1>1, <1>2 DEF FlushReserve

-----------------------------------------------------------------------------
\* What IInv says of a writer that is about to commit a reservation or a release:
\* everything the abstract operation asks for.
LEMMA CommitReserveReady ==
    ASSUME IInv, NEW w \in Writers, pc[w] = "commit"
    PROVE  /\ req[w].op = "reserve" /\ Parses(req[w])
           /\ BookingOf(w) \in Bookings /\ reservation[BookingOf(w)] = NoRow
           /\ FlightOf(w) \in Flights /\ flightLock[FlightOf(w)] = w
           /\ req[w].seats \in SeatCounts /\ req[w].seats \in Int
           /\ 0 < req[w].seats /\ req[w].seats <= available[FlightOf(w)]
           /\ seen[w] = available[FlightOf(w)] /\ seen[w] \in Int
<1> USE DEF IInv
<1>1. req[w].op = "reserve" /\ Parses(req[w])
  BY DEF RequestsFit
<1>2. /\ BookingOf(w) \in Bookings
      /\ req[w].seats \in SeatCounts /\ req[w].seats \in Int
  BY <1>1, RequestParts, InventoryAssumption
<1>3. /\ reservation[BookingOf(w)] = NoRow
      /\ 0 < req[w].seats /\ req[w].seats <= seen[w]
  BY DEF PendingRowsFree
<1>4. FlightOf(w) \in Flights /\ flightLock[FlightOf(w)] = w
  BY DEF LocksOwned, HoldsFlight
<1>5. seen[w] = available[FlightOf(w)] /\ seen[w] \in Int
  BY DEF LockedCounterCurrent, HoldsFlight, TypeOK
<1> QED
  BY <1>1, <1>2, <1>3, <1>4, <1>5

LEMMA CommitReturnReady ==
    ASSUME IInv, NEW w \in Writers, pc[w] = "commit_return"
    PROVE  /\ req[w].op = "release" /\ Parses(req[w])
           /\ BookingOf(w) \in Bookings /\ rowLock[BookingOf(w)] = w
           /\ reservation[BookingOf(w)].status = "ACTIVE"
           /\ FlightOf(w) = reservation[BookingOf(w)].flight
           /\ FlightOf(w) \in Flights /\ flightLock[FlightOf(w)] = w
           /\ seen[w] = available[FlightOf(w)] /\ seen[w] \in Int
<1> USE DEF IInv
<1>1. req[w].op = "release" /\ Parses(req[w])
  BY DEF RequestsFit
<1>2. BookingOf(w) \in Bookings
  BY <1>1, RequestParts
<1>3. /\ rowLock[BookingOf(w)] = w
      /\ FlightOf(w) \in Flights /\ flightLock[FlightOf(w)] = w
  BY DEF LocksOwned, HoldsFlight, HoldsRow
<1>4. reservation[BookingOf(w)].status = "ACTIVE"
  BY DEF PendingRowsFree, HoldsRow
<1>5. seen[w] = available[FlightOf(w)] /\ seen[w] \in Int
  BY DEF LockedCounterCurrent, HoldsFlight, TypeOK
<1> QED
  BY <1>1, <1>2, <1>3, <1>4, <1>5 DEF FlightOf

LEMMA CommitReserveKeepsIInv ==
    ASSUME IInv, NEW w \in Writers, CommitReserve(w)
    PROVE  IInv'
<1> USE FlightServiceAssumption DEF IInv
<1> DEFINE f == FlightOf(w)
           b == BookingOf(w)
<1>p. /\ pc[w] = "commit" /\ req[w].op = "reserve" /\ Parses(req[w])
      /\ b \in Bookings /\ reservation[b] = NoRow
      /\ f \in Flights /\ flightLock[f] = w
      /\ req[w].seats \in Int /\ 0 < req[w].seats /\ seen[w] \in Int
  BY CommitReserveReady DEF CommitReserve
<1>u. /\ available' = [available EXCEPT ![f] = Remaining(w)]
      /\ reservation' = [reservation EXCEPT ![b] = ActiveRow(f, req[w].seats)]
      /\ pc' = [pc EXCEPT ![w] = "invalidate"]
      /\ seen' = [seen EXCEPT ![w] = 0]
      /\ flightLock' = [g \in Flights |-> IF flightLock[g] = w THEN NoWriter
                                                               ELSE flightLock[g]]
      /\ rowLock' = [c \in Bookings |-> IF rowLock[c] = w THEN NoWriter
                                                          ELSE rowLock[c]]
      /\ UNCHANGED <<req, reply, redis>>
  BY DEF CommitReserve, EndTransaction, GoTo
<1>o. /\ \A v \in Writers \ {w} : pc'[v] = pc[v] /\ seen'[v] = seen[v]
      /\ pc'[w] = "invalidate"
      /\ reservation'[b] = ActiveRow(f, req[w].seats)
      /\ \A c \in Bookings \ {b} : reservation'[c] = reservation[c]
      /\ \A g \in Flights \ {f} : available'[g] = available[g]
  BY <1>p, <1>u DEF TypeOK, InventoryTypeOK
<1>b. \A v \in Writers : BookingOf(v)' = BookingOf(v)
  BY <1>u DEF BookingOf
\* A task that holds a lock is not at work on this booking's (absent) row.
<1>h. ASSUME NEW v \in Writers \ {w}, HoldsFlight(v) \/ HoldsRow(v)
      PROVE  BookingOf(v) \in Bookings /\ FlightOf(v)' = FlightOf(v)
  <2>1. BookingOf(v) \in Bookings
    BY <1>h, RequestParts DEF RequestsFit, HoldsFlight, HoldsRow
  <2>2. CASE HoldsRow(v)
    <3>1. reservation[BookingOf(v)].status = "ACTIVE"
      BY <2>2 DEF PendingRowsFree
    <3>2. BookingOf(v) # b
      BY <1>p, <3>1 DEF NoRow
    <3> QED
      BY <1>u, <1>o, <1>b, <2>1, <3>2 DEF FlightOf
  <2>3. CASE ~HoldsRow(v)
    <3>1. req[v].op = "reserve"
      BY <1>h, <2>3 DEF RequestsFit, HoldsFlight, HoldsRow
    <3> QED
      BY <1>u, <2>1, <3>1 DEF FlightOf
  <2> QED
    BY <2>2, <2>3
<1>1. TypeOK'
  BY <1>p, <1>u DEF TypeOK, InventoryTypeOK, WriterStates, Remaining, ActiveRow, Rows, redis
<1>2. RowsWellFormed'
  BY <1>p, <1>o DEF RowsWellFormed, ActiveRow
<1>3. RequestsFit'
  BY <1>p, <1>u, <1>o DEF RequestsFit, redis
<1>4. LocksOwned'
  <2>1. ASSUME NEW v \in Writers, HoldsFlight(v)'
        PROVE  FlightOf(v)' \in Flights /\ flightLock'[FlightOf(v)'] = v
    BY <1>u, <1>o, <1>h, <2>1 DEF LocksOwned, HoldsFlight
  <2>2. ASSUME NEW v \in Writers, HoldsRow(v)' PROVE rowLock'[BookingOf(v)'] = v
    BY <1>u, <1>o, <1>b, <1>h, <2>2 DEF LocksOwned, HoldsRow
  <2>3. ASSUME NEW g \in Flights, (flightLock[g] \in Writers)'
        PROVE  (HoldsFlight(flightLock[g]) /\ FlightOf(flightLock[g]) = g)'
    <3>1. flightLock'[g] = flightLock[g] /\ flightLock[g] \in Writers \ {w}
      BY <1>u, <2>3
    <3>2. HoldsFlight(flightLock[g]) /\ FlightOf(flightLock[g]) = g
      BY <3>1 DEF LocksOwned
    <3>3. \A v \in Writers \ {w} : HoldsFlight(v) => HoldsFlight(v)'
      BY <1>o DEF HoldsFlight
    <3> QED
      BY <1>h, <3>1, <3>2, <3>3
  <2>4. ASSUME NEW c \in Bookings, (rowLock[c] \in Writers)'
        PROVE  (HoldsRow(rowLock[c]) /\ BookingOf(rowLock[c]) = c)'
    BY <1>u, <1>o, <1>b, <2>4 DEF LocksOwned, HoldsRow
  <2> QED
    BY <2>1, <2>2, <2>3, <2>4 DEF LocksOwned
<1>5. LockedCounterCurrent'
  <2>1. ASSUME NEW v \in Writers, HoldsFlight(v)'
        PROVE  /\ v # w /\ HoldsFlight(v)
               /\ FlightOf(v)' = FlightOf(v) /\ FlightOf(v) \in Flights \ {f}
    BY <1>p, <1>o, <1>h, <2>1 DEF LocksOwned, HoldsFlight
  <2>2. ASSUME NEW v \in Writers, HoldsFlight(v)'
        PROVE  seen'[v] = available'[FlightOf(v)']
    BY <1>o, <2>1, <2>2 DEF LockedCounterCurrent
  <2>3. ASSUME NEW v \in Writers, pc'[v] = "insert"
        PROVE  req'[v].seats <= seen'[v]
    BY <1>u, <1>o, <2>3 DEF LockedCounterCurrent
  <2> QED
    BY <2>2, <2>3 DEF LockedCounterCurrent
<1>6. PendingRowsFree'
  <2>1. ASSUME NEW v \in Writers, pc'[v] = "commit"
        PROVE  /\ v # w /\ pc[v] = "commit"
               /\ BookingOf(v) \in Bookings /\ BookingOf(v) # b
    BY <1>p, <1>o, <2>1, CommitReserveReady DEF PendingRowsFree
  <2>2. ASSUME NEW v \in Writers, pc'[v] = "commit"
        PROVE  /\ (reservation[BookingOf(v)] = NoRow)'
               /\ (0 < req[v].seats /\ req[v].seats <= seen[v])'
               /\ \A x \in Writers \ {v} :
                     ~(pc[x] = "commit" /\ BookingOf(x) = BookingOf(v))'
    BY <1>u, <1>o, <1>b, <2>1, <2>2 DEF PendingRowsFree
  <2>3. ASSUME NEW v \in Writers, HoldsRow(v)'
        PROVE  (reservation[BookingOf(v)].status = "ACTIVE")'
    <3>1. v # w /\ HoldsRow(v)
      BY <1>o, <2>3 DEF HoldsRow
    <3> QED
      BY <1>o, <1>b, <1>h, <3>1 DEF PendingRowsFree, ActiveRow
  <2> QED
    BY <2>2, <2>3 DEF PendingRowsFree
<1> QED
  BY <1>1, <1>2, <1>3, <1>4, <1>5, <1>6

LEMMA CommitReturnKeepsIInv ==
    ASSUME IInv, NEW w \in Writers, CommitReturn(w)
    PROVE  IInv'
<1> USE FlightServiceAssumption DEF IInv
<1> DEFINE f == FlightOf(w)
           b == BookingOf(w)
<1>p. /\ pc[w] = "commit_return" /\ req[w].op = "release" /\ Parses(req[w])
      /\ b \in Bookings /\ rowLock[b] = w
      /\ reservation[b] \in Rows /\ reservation[b].status = "ACTIVE"
      /\ f = reservation[b].flight
      /\ f \in Flights /\ flightLock[f] = w /\ seen[w] \in Int
  BY CommitReturnReady DEF CommitReturn, TypeOK, InventoryTypeOK
<1>1. CASE Fail(w, "UNKNOWN")
  BY <1>1, FailKeepsIInv DEF Codes
<1>2. CASE /\ SeatsInRange(f, Returned(w))
           /\ available' = [available EXCEPT ![f] = Returned(w)]
           /\ reservation' = [reservation EXCEPT ![b].status = "RELEASED"]
           /\ EndTransaction(w)
           /\ GoTo(w, "invalidate")
           /\ UNCHANGED <<req, reply, redis>>
  <2>u. /\ pc' = [pc EXCEPT ![w] = "invalidate"]
        /\ seen' = [seen EXCEPT ![w] = 0]
        /\ flightLock' = [g \in Flights |-> IF flightLock[g] = w THEN NoWriter
                                                                 ELSE flightLock[g]]
        /\ rowLock' = [c \in Bookings |-> IF rowLock[c] = w THEN NoWriter
                                                            ELSE rowLock[c]]
    BY <1>2 DEF EndTransaction, GoTo
  <2>o. /\ \A v \in Writers \ {w} : pc'[v] = pc[v] /\ seen'[v] = seen[v]
        /\ pc'[w] = "invalidate"
        /\ reservation'[b] = [reservation[b] EXCEPT !.status = "RELEASED"]
        /\ \A c \in Bookings \ {b} : reservation'[c] = reservation[c]
        /\ \A g \in Flights \ {f} : available'[g] = available[g]
    BY <1>p, <1>2, <2>u DEF TypeOK, InventoryTypeOK
  <2>b. \A v \in Writers : BookingOf(v)' = BookingOf(v)
    BY <1>2 DEF BookingOf
  <2>h. ASSUME NEW v \in Writers, HoldsFlight(v) \/ HoldsRow(v)
        PROVE  BookingOf(v) \in Bookings /\ FlightOf(v)' = FlightOf(v)
    <3>1. BookingOf(v) \in Bookings
      BY <2>h, RequestParts DEF RequestsFit, HoldsFlight, HoldsRow
    <3>2. reservation'[BookingOf(v)].flight = reservation[BookingOf(v)].flight
      BY <1>p, <2>o, <3>1 DEF Rows
    <3> QED
      BY <1>2, <2>b, <3>1, <3>2 DEF FlightOf
  <2>1. TypeOK'
    BY <1>p, <1>2, <2>u DEF TypeOK, InventoryTypeOK, WriterStates, Returned, Rows, redis
  <2>2. RowsWellFormed'
    BY <1>p, <2>o DEF RowsWellFormed, Rows
  <2>3. RequestsFit'
    BY <1>p, <1>2, <2>o DEF RequestsFit, redis
  <2>4. LocksOwned'
    <3>1. ASSUME NEW v \in Writers, HoldsFlight(v)'
          PROVE  FlightOf(v)' \in Flights /\ flightLock'[FlightOf(v)'] = v
      BY <2>u, <2>o, <2>h, <3>1 DEF LocksOwned, HoldsFlight
    <3>2. ASSUME NEW v \in Writers, HoldsRow(v)' PROVE rowLock'[BookingOf(v)'] = v
      BY <2>u, <2>o, <2>b, <2>h, <3>2 DEF LocksOwned, HoldsRow
    <3>3. ASSUME NEW g \in Flights, (flightLock[g] \in Writers)'
          PROVE  (HoldsFlight(flightLock[g]) /\ FlightOf(flightLock[g]) = g)'
      <4>1. flightLock'[g] = flightLock[g] /\ flightLock[g] \in Writers \ {w}
        BY <2>u, <3>3
      <4>2. HoldsFlight(flightLock[g]) /\ FlightOf(flightLock[g]) = g
        BY <4>1 DEF LocksOwned
      <4>3. \A v \in Writers \ {w} : HoldsFlight(v) => HoldsFlight(v)'
        BY <2>o DEF HoldsFlight
      <4> QED
        BY <2>h, <4>1, <4>2, <4>3
    <3>4. ASSUME NEW c \in Bookings, (rowLock[c] \in Writers)'
          PROVE  (HoldsRow(rowLock[c]) /\ BookingOf(rowLock[c]) = c)'
      BY <2>u, <2>o, <2>b, <3>4 DEF LocksOwned, HoldsRow
    <3> QED
      BY <3>1, <3>2, <3>3, <3>4 DEF LocksOwned
  <2>5. LockedCounterCurrent'
    <3>1. ASSUME NEW v \in Writers, HoldsFlight(v)'
          PROVE  /\ v # w /\ HoldsFlight(v)
                 /\ FlightOf(v)' = FlightOf(v) /\ FlightOf(v) \in Flights \ {f}
      BY <1>p, <2>o, <2>h, <3>1 DEF LocksOwned, HoldsFlight
    <3>2. ASSUME NEW v \in Writers, HoldsFlight(v)'
          PROVE  seen'[v] = available'[FlightOf(v)']
      BY <2>o, <3>1, <3>2 DEF LockedCounterCurrent
    <3>3. ASSUME NEW v \in Writers, pc'[v] = "insert"
          PROVE  req'[v].seats <= seen'[v]
      BY <1>2, <2>o, <3>3 DEF LockedCounterCurrent
    <3> QED
      BY <3>2, <3>3 DEF LockedCounterCurrent
  <2>6. PendingRowsFree'
    <3>1. ASSUME NEW v \in Writers, pc'[v] = "commit"
          PROVE  /\ (reservation[BookingOf(v)] = NoRow)'
                 /\ (0 < req[v].seats /\ req[v].seats <= seen[v])'
                 /\ \A x \in Writers \ {v} :
                       ~(pc[x] = "commit" /\ BookingOf(x) = BookingOf(v))'
      <4>1. /\ v # w /\ pc[v] = "commit"
            /\ BookingOf(v) \in Bookings /\ reservation[BookingOf(v)] = NoRow
        BY <2>o, <3>1, CommitReserveReady
      <4>2. BookingOf(v) # b
        BY <1>p, <4>1 DEF NoRow
      <4> QED
        BY <1>2, <2>o, <2>b, <4>1, <4>2 DEF PendingRowsFree
    <3>2. ASSUME NEW v \in Writers, HoldsRow(v)'
          PROVE  (reservation[BookingOf(v)].status = "ACTIVE")'
      <4>1. v # w /\ HoldsRow(v) /\ rowLock[BookingOf(v)] = v
        BY <2>o, <3>2 DEF HoldsRow, LocksOwned
      <4>2. BookingOf(v) # b
        BY <1>p, <4>1
      <4> QED
        BY <2>o, <2>b, <2>h, <4>1, <4>2 DEF PendingRowsFree
    <3> QED
      BY <3>1, <3>2 DEF PendingRowsFree
  <2> QED
    BY <2>1, <2>2, <2>3, <2>4, <2>5, <2>6
<1> QED
  BY <1>1, <1>2 DEF CommitReturn

LEMMA StutterKeepsIInv ==
    ASSUME IInv, UNCHANGED vars
    PROVE  IInv'
BY DEF vars, IInv, TypeOK, InventoryTypeOK, RowsWellFormed, RequestsFit, LocksOwned,
       LockedCounterCurrent, PendingRowsFree, HoldsFlight, HoldsRow, FlightOf, BookingOf

LEMMA NextKeepsIInv ==
    ASSUME IInv, [Next]_vars
    PROVE  IInv'
<1>1. ASSUME NEW w \in Writers, NEW r \in Requests, Receive(w, r) PROVE IInv'
  BY <1>1, ReceiveKeepsIInv
<1>2. ASSUME NEW w \in Writers, CheckIdempotent(w) PROVE IInv'
  BY <1>2, CheckIdempotentKeepsIInv
<1>3. ASSUME NEW w \in Writers, LockFlight(w) PROVE IInv'
  BY <1>3, LockFlightKeepsIInv
<1>4. ASSUME NEW w \in Writers, FlushReserve(w) PROVE IInv'
  BY <1>4, FlushReserveKeepsIInv
<1>5. ASSUME NEW w \in Writers, CommitReserve(w) PROVE IInv'
  BY <1>5, CommitReserveKeepsIInv
<1>6. ASSUME NEW w \in Writers, FindReservation(w) PROVE IInv'
  BY <1>6, FindReservationKeepsIInv
<1>7. ASSUME NEW w \in Writers, LockReturn(w) PROVE IInv'
  BY <1>7, LockReturnKeepsIInv
<1>8. ASSUME NEW w \in Writers, CommitReturn(w) PROVE IInv'
  BY <1>8, CommitReturnKeepsIInv
<1>9. ASSUME NEW w \in Writers, InvalidateCache(w) PROVE IInv'
  BY <1>9, InvalidateCacheKeepsIInv
<1>10. ASSUME NEW w \in Writers, AbortWriter(w) PROVE IInv'
  BY <1>10, FailKeepsIInv DEF AbortWriter, Codes
<1> QED
  BY <1>1, <1>2, <1>3, <1>4, <1>5, <1>6, <1>7, <1>8, <1>9, <1>10,
     ReaderKeepsIInv, StutterKeepsIInv DEF Next

\* The inductive invariant: every lock is where its owner is, every locked counter
\* is the committed one, every pending row is still free (reserve_seats,
\* release_reservation).
THEOREM FlightServiceInvariant == Spec => []IInv
<1> QED
  BY InitIInv, NextKeepsIInv, PTL DEF Spec

\* No lost update: a handler that is about to write back a seat counter holds the
\* flight row and the committed counter (with_for_update).
THEOREM NoLostUpdate == Spec => []LockedCounterCurrent
<1>1. IInv => LockedCounterCurrent
  BY DEF IInv
<1> QED
  BY FlightServiceInvariant, <1>1, PTL

-----------------------------------------------------------------------------
\* Only the two commits change what SeatInventory speaks of.
LEMMA OnlyCommitsWrite ==
    ASSUME [Next]_vars,
           ~ \E w \in Writers : CommitReserve(w) \/ CommitReturn(w)
    PROVE  UNCHANGED inventory
BY DEF Next, vars, inventory, Receive, CheckIdempotent, LockFlight, FlushReserve,
       FindReservation, LockReturn, InvalidateCache, AbortWriter, Fail,
       CacheMiss, SelectRows, FillCache, AbortReader, ReaderDone, Expire

LEMMA CommitReserveIsReserve ==
    ASSUME IInv, NEW w \in Writers, CommitReserve(w)
    PROVE  Reserve(BookingOf(w), FlightOf(w), req[w].seats)
<1>1. /\ reservation[BookingOf(w)] = NoRow
      /\ req[w].seats > 0 /\ req[w].seats <= available[FlightOf(w)]
  BY CommitReserveReady DEF CommitReserve
<1>2. Remaining(w) = available[FlightOf(w)] - req[w].seats
  BY CommitReserveReady DEF CommitReserve, Remaining
<1>3. reservation[BookingOf(w)].status = "NONE"
  BY <1>1 DEF NoRow
<1> QED
  BY <1>1, <1>2, <1>3 DEF CommitReserve, Reserve

LEMMA CommitReturnIsRelease ==
    ASSUME IInv, NEW w \in Writers, CommitReturn(w)
    PROVE  Release(BookingOf(w)) \/ UNCHANGED inventory
<1>1. CASE Fail(w, "UNKNOWN")
  BY <1>1 DEF Fail, inventory
<1>2. CASE /\ available' = [available EXCEPT ![FlightOf(w)] = Returned(w)]
           /\ reservation' = [reservation EXCEPT ![BookingOf(w)].status = "RELEASED"]
  <2>1. /\ reservation[BookingOf(w)].status = "ACTIVE"
        /\ FlightOf(w) = reservation[BookingOf(w)].flight
        /\ seen[w] = available[FlightOf(w)]
    BY CommitReturnReady DEF CommitReturn
  <2>2. Returned(w) = available[FlightOf(w)] + reservation[BookingOf(w)].seats
    BY <2>1 DEF Returned
  <2> QED
    BY <1>2, <2>1, <2>2 DEF Release
<1> QED
  BY <1>1, <1>2 DEF CommitReturn

LEMMA StepImplementsInventory ==
    ASSUME IInv, [Next]_vars
    PROVE  [InventoryNext]_inventory
<1>1. CASE ~ \E w \in Writers : CommitReserve(w) \/ CommitReturn(w)
  BY <1>1, OnlyCommitsWrite
<1>2. ASSUME NEW w \in Writers, CommitReserve(w) PROVE InventoryNext
  <2>1. pc[w] = "commit"
    BY <1>2 DEF CommitReserve
  <2> QED
    BY <1>2, <2>1, CommitReserveReady, CommitReserveIsReserve DEF InventoryNext
<1>3. ASSUME NEW w \in Writers, CommitReturn(w) PROVE [InventoryNext]_inventory
  <2>1. pc[w] = "commit_return"
    BY <1>3 DEF CommitReturn
  <2> QED
    BY <1>3, <2>1, CommitReturnReady, CommitReturnIsRelease DEF InventoryNext
<1> QED
  BY <1>1, <1>2, <1>3

\* The handlers, with their locks, failures and caches, do what the one-step
\* operations of SeatInventory do (the docstring's "Atomically reserve seats").
THEOREM FlightServiceImplementsInventory == Spec => InventorySpec
<1>1. Init => InventoryInit
  BY DEF Init
<1>2. IInv /\ [Next]_vars => [InventoryNext]_inventory
  BY StepImplementsInventory
<1> QED
  BY <1>1, <1>2, FlightServiceInvariant, PTL DEF Spec, InventorySpec

\* No seat is lost or sold twice by any interleaving of any number of handlers.
THEOREM FlightServiceConservesSeats == Spec => []SeatsConserved
BY FlightServiceImplementsInventory, InventoryConservesSeats, PTL

\* No interleaving brings a RELEASED reservation back or rewrites a row.
THEOREM FlightServiceUsesOnce == Spec => ReservationUsedOnce
BY FlightServiceImplementsInventory, InventoryUsesOnce, PTL

\* A release never runs into ck_flights_available_lte_total: the seats it gives
\* back are among those the counter is short of.
THEOREM ReleaseAlwaysFits == Spec => []ReleaseFits
<1>1. ASSUME IInv, InventoryInv, NEW w \in Writers, pc[w] = "commit_return"
      PROVE  SeatsInRange(FlightOf(w), Returned(w))
  <2> DEFINE f == FlightOf(w)
             b == BookingOf(w)
             n == reservation[b].seats
  <2>1. /\ b \in Bookings /\ reservation[b].status = "ACTIVE"
        /\ f = reservation[b].flight /\ f \in Flights
        /\ Returned(w) = available[f] + n
    BY <1>1, CommitReturnReady DEF Returned
  <2>2. n \in Nat /\ n > 0
    BY <1>1, <2>1 DEF InventoryInv, InventoryTypeOK, RowsWellFormed, Rows
  <2>3. /\ IsFiniteSet(HeldSeats(f)) /\ available[f] \in Nat
        /\ available[f] + Cardinality(HeldSeats(f)) = Total[f]
    BY <1>1, <2>1 DEF InventoryInv
  <2>4. SeatsOf(b) \subseteq HeldSeats(f)
    BY <2>1 DEF HeldSeats, Holders
  <2>5. IsFiniteSet(SeatsOf(b)) /\ Cardinality(SeatsOf(b)) = n
    BY <2>2, TokenCount DEF SeatsOf
  <2>6. n <= Cardinality(HeldSeats(f)) /\ Cardinality(HeldSeats(f)) \in Nat
    BY <2>3, <2>4, <2>5, FS_Subset, FS_CardinalityType
  <2> QED
    BY <2>1, <2>2, <2>3, <2>6 DEF SeatsInRange
<1>2. IInv /\ InventoryInv => ReleaseFits
  BY <1>1 DEF ReleaseFits
<1> QED
  BY <1>2, FlightServiceInvariant, FlightServiceImplementsInventory,
     InventoryInvAlways, PTL
-----------------------------------------------------------------------------
(* What the handlers answer                                                *)

\* Told "OK", or about to be.
Answered(w) == pc[w] = "invalidate" \/ (pc[w] = "idle" /\ reply[w] = "OK")

\* An answer is about a row that is there, and only one release is answered for it.
AnswersInv ==
    /\ \A w \in Writers : Answered(w) =>
          /\ BookingOf(w) \in Bookings
          /\ req[w].op = "reserve" => reservation[BookingOf(w)].status # "NONE"
          /\ req[w].op = "release" => reservation[BookingOf(w)].status = "RELEASED"
    /\ \A v, w \in Writers :
          /\ v # w /\ Answered(v) /\ Answered(w)
          /\ req[v].op = "release" /\ req[w].op = "release"
          => BookingOf(v) # BookingOf(w)

\* Rows are never deleted, and RELEASED ones stay so.
LEMMA RowsAdvance ==
    ASSUME IInv, [Next]_vars, NEW b \in Bookings
    PROVE  /\ reservation[b].status # "NONE" => reservation'[b].status # "NONE"
           /\ reservation[b].status = "RELEASED" => reservation'[b].status = "RELEASED"
<1>1. [InventoryNext]_inventory
  BY StepImplementsInventory
<1>2. reservation \in [Bookings -> Rows]
  BY DEF IInv, TypeOK, InventoryTypeOK
<1> QED
  BY <1>1, <1>2 DEF InventoryNext, Reserve, Release, ActiveRow, Rows, inventory

\* A handler's session that has failed has not answered "OK".
LEMMA FailAnswersNobody ==
    ASSUME TypeOK, NEW w \in Writers, NEW x \in Writers, NEW code \in Codes \ {"OK"},
           Fail(x, code), Answered(w)'
    PROVE  Answered(w) /\ req'[w] = req[w]
BY DEF TypeOK, Fail, Answer, Answered

\* The ways to come by an answer: an idempotent reservation and the two COMMITs.
AnswerJustified(w) ==
    /\ req'[w] = req[w]
    /\ \/ Answered(w)
       \/ pc[w] \in {"check", "commit"} /\ reservation'[BookingOf(w)].status # "NONE"
       \/ pc[w] = "commit_return" /\ reservation'[BookingOf(w)].status = "RELEASED"

LEMMA NewAnswers ==
    ASSUME IInv, [Next]_vars, NEW w \in Writers, Answered(w)'
    PROVE  AnswerJustified(w)
<1>t. /\ TypeOK /\ pc \in [Writers -> WriterStates] /\ req \in [Writers -> Requests \cup {NoRequest}]
      /\ reply \in [Writers -> Codes] /\ reservation \in [Bookings -> Rows]
  BY DEF IInv, TypeOK, InventoryTypeOK
<1>1. ASSUME NEW x \in Writers, NEW r \in Requests, Receive(x, r) PROVE AnswerJustified(w)
  BY <1>t, <1>1 DEF Receive, Answer, GoTo, Answered, AnswerJustified
<1>2. ASSUME NEW x \in Writers, CheckIdempotent(x) PROVE AnswerJustified(w)
  BY <1>t, <1>2 DEF CheckIdempotent, Answer, GoTo, Answered, AlreadyReserved, AnswerJustified
<1>3. ASSUME NEW x \in Writers, LockFlight(x) PROVE AnswerJustified(w)
  BY <1>t, <1>3, FailAnswersNobody DEF LockFlight, GoTo, Answered, Codes, AnswerJustified
<1>4. ASSUME NEW x \in Writers, FlushReserve(x) PROVE AnswerJustified(w)
  BY <1>t, <1>4, FailAnswersNobody DEF FlushReserve, GoTo, Answered, Codes, AnswerJustified
<1>5. ASSUME NEW x \in Writers, CommitReserve(x) PROVE AnswerJustified(w)
  <2>1. BookingOf(x) \in Bookings /\ pc[x] = "commit"
    BY <1>5, CommitReserveReady DEF CommitReserve
  <2>2. reservation'[BookingOf(x)].status # "NONE"
    BY <1>t, <1>5, <2>1 DEF CommitReserve, ActiveRow
  <2> QED
    BY <1>t, <1>5, <2>1, <2>2 DEF CommitReserve, GoTo, Answered, AnswerJustified
<1>6. ASSUME NEW x \in Writers, FindReservation(x) PROVE AnswerJustified(w)
  BY <1>t, <1>6, FailAnswersNobody DEF FindReservation, GoTo, Answered, Codes, AnswerJustified
<1>7. ASSUME NEW x \in Writers, LockReturn(x) PROVE AnswerJustified(w)
  BY <1>t, <1>7 DEF LockReturn, GoTo, Answered, AnswerJustified
<1>8. ASSUME NEW x \in Writers, CommitReturn(x) PROVE AnswerJustified(w)
  <2>1. BookingOf(x) \in Bookings /\ pc[x] = "commit_return"
    BY <1>8, CommitReturnReady DEF CommitReturn
  <2>2. CASE Fail(x, "UNKNOWN")
    BY <1>t, <2>2, FailAnswersNobody DEF Codes, AnswerJustified
  <2>3. CASE /\ reservation' = [reservation EXCEPT ![BookingOf(x)].status = "RELEASED"]
             /\ GoTo(x, "invalidate") /\ UNCHANGED <<req, reply, redis>>
    <3>1. reservation'[BookingOf(x)].status = "RELEASED"
      BY <1>t, <2>1, <2>3 DEF Rows
    <3> QED
      BY <1>t, <2>1, <2>3, <3>1 DEF GoTo, Answered, AnswerJustified
  <2> QED
    BY <1>8, <2>2, <2>3 DEF CommitReturn
<1>9. ASSUME NEW x \in Writers, InvalidateCache(x) PROVE AnswerJustified(w)
  BY <1>t, <1>9 DEF InvalidateCache, Answer, Answered, AnswerJustified
<1>10. ASSUME NEW x \in Writers, AbortWriter(x) PROVE AnswerJustified(w)
  BY <1>t, <1>10, FailAnswersNobody DEF AbortWriter, Codes, AnswerJustified
<1>11. ASSUME \/ \E r \in Readers : \/ \E k \in Keys : CacheMiss(r, k)
                                    \/ SelectRows(r) \/ FillCache(r) \/ AbortReader(r)
              \/ \E k \in Keys : Expire(k)
              \/ UNCHANGED vars
       PROVE  AnswerJustified(w)
  <2>1. UNCHANGED <<pc, req, reply>>
    BY <1>11 DEF CacheMiss, SelectRows, FillCache, AbortReader, ReaderDone, Expire, writers, vars
  <2> QED
    BY <2>1 DEF Answered, AnswerJustified
<1>12. CASE Next
  BY <1>1, <1>2, <1>3, <1>4, <1>5, <1>6, <1>7, <1>8, <1>9, <1>10, <1>11, <1>12 DEF Next
<1> QED
  BY <1>11, <1>12

LEMMA AnswersStep ==
    ASSUME IInv, AnswersInv, [Next]_vars
    PROVE  AnswersInv'
<1>i. IInv'
  BY NextKeepsIInv
<1>p. ASSUME NEW w \in Writers, pc[w] \in {"check", "commit", "commit_return"}
      PROVE  /\ BookingOf(w) \in Bookings
             /\ pc[w] \in {"check", "commit"} => req[w].op = "reserve"
             /\ pc[w] = "commit_return" =>
                   /\ req[w].op = "release" /\ rowLock[BookingOf(w)] = w
                   /\ reservation[BookingOf(w)].status = "ACTIVE"
  BY <1>p, RequestParts, CommitReturnReady DEF IInv, RequestsFit
<1>b. \A w \in Writers : Answered(w)' => BookingOf(w)' = BookingOf(w)
  BY NewAnswers DEF AnswerJustified, BookingOf
<1>1. ASSUME NEW w \in Writers, Answered(w)'
      PROVE  /\ BookingOf(w)' \in Bookings
             /\ req'[w].op = "reserve" => reservation'[BookingOf(w)'].status # "NONE"
             /\ req'[w].op = "release" => reservation'[BookingOf(w)'].status = "RELEASED"
  <2>1. CASE Answered(w)
    <3>1. /\ BookingOf(w) \in Bookings
          /\ req[w].op = "reserve" => reservation[BookingOf(w)].status # "NONE"
          /\ req[w].op = "release" => reservation[BookingOf(w)].status = "RELEASED"
      BY <2>1 DEF AnswersInv
    <3> QED
      BY <1>1, <1>b, <3>1, RowsAdvance, NewAnswers DEF AnswerJustified
  <2>2. CASE ~Answered(w)
    BY <1>1, <1>b, <1>p, <2>2, NewAnswers DEF AnswerJustified
  <2> QED
    BY <2>1, <2>2
<1>2. ASSUME NEW v \in Writers, NEW w \in Writers, v # w, Answered(v)', Answered(w)',
             req'[v].op = "release", req'[w].op = "release"
      PROVE  BookingOf(v)' # BookingOf(w)'
  <2>1. \A x \in {v, w} : /\ req[x].op = "release"
                          /\ Answered(x) \/ pc[x] = "commit_return"
    BY <1>2, <1>p, NewAnswers DEF AnswerJustified
  <2>2. CASE Answered(v) /\ Answered(w)
    BY <1>2, <1>b, <2>1, <2>2 DEF AnswersInv
  <2>3. ASSUME NEW x \in {v, w}, NEW y \in {v, w}, pc[x] = "commit_return", Answered(y)
        PROVE  BookingOf(x) # BookingOf(y)
    BY <1>p, <2>1, <2>3 DEF AnswersInv
  <2>4. CASE pc[v] = "commit_return" /\ pc[w] = "commit_return"
    BY <1>2, <1>b, <1>p, <2>4
  <2> QED
    BY <1>2, <1>b, <2>1, <2>2, <2>3, <2>4
<1> QED
  BY <1>1, <1>2 DEF AnswersInv

THEOREM AnswersAlways == Spec => []AnswersInv
<1>1. Init => AnswersInv
  BY DEF Init, AnswersInv, Answered
<1> QED
  BY <1>1, AnswersStep, FlightServiceInvariant, PTL DEF Spec

\* release_reservation: of all calls for one booking, one is told that it released.
THEOREM ReleaseAnsweredOnce == Spec => []OneReleaseAnswered
<1>1. AnswersInv => OneReleaseAnswered
  BY DEF AnswersInv, Answered, OneReleaseAnswered, BookingOf
<1> QED
  BY <1>1, AnswersAlways, PTL

\* reserve_seats: "OK" means that the reservation was stored, and by now perhaps released.
THEOREM ReserveAnswersTruthful == Spec => []ReserveAnsweredTruthfully
<1>1. AnswersInv => ReserveAnsweredTruthfully
  BY DEF AnswersInv, Answered, ReserveAnsweredTruthfully
<1> QED
  BY <1>1, AnswersAlways, PTL
=============================================================================
