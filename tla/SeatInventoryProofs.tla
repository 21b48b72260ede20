------------------------ MODULE SeatInventoryProofs ------------------------
(***************************************************************************)
(* Seats are conserved by the abstract inventory, for every set of         *)
(* flights, bookings and seat counts.                                      *)
(***************************************************************************)
EXTENDS SeatInventory, FiniteSetTheorems, TLAPS

\* The inductive invariant: SeatsConserved speaks of cardinalities, so the held
\* seats must be known to be finite, and the rows to be well formed.
InventoryInv ==
    /\ InventoryTypeOK
    /\ RowsWellFormed
    /\ \A f \in Flights : /\ IsFiniteSet(HeldSeats(f))
                          /\ available[f] \in Nat
                          /\ available[f] + Cardinality(HeldSeats(f)) = Total[f]

\* A row of n seats stands for n tokens.
LEMMA TokenCount ==
    ASSUME NEW b, NEW n \in Nat
    PROVE  /\ IsFiniteSet({b} \X (1 .. n))
           /\ Cardinality({b} \X (1 .. n)) = n
<1>1. IsFiniteSet({b}) /\ Cardinality({b}) = 1
  BY FS_Singleton
<1>2. IsFiniteSet(1 .. n) /\ Cardinality(1 .. n) = n
  BY FS_Interval
<1>3. /\ IsFiniteSet({b} \X (1 .. n))
      /\ Cardinality({b} \X (1 .. n)) = Cardinality({b}) * Cardinality(1 .. n)
  BY <1>1, <1>2, FS_Product, Zenon
<1>4. 1 * n = n
  OBVIOUS
<1> QED
  BY <1>1, <1>2, <1>3, <1>4

\* Cardinalities of a disjoint union and of a difference with a subset.
LEMMA DisjointUnion ==
    ASSUME NEW S, NEW T, IsFiniteSet(S), IsFiniteSet(T), S \cap T = {}
    PROVE  /\ IsFiniteSet(S \cup T)
           /\ Cardinality(S \cup T) = Cardinality(S) + Cardinality(T)
<1>1. /\ IsFiniteSet(S \cup T)
      /\ Cardinality(S \cup T) =
            Cardinality(S) + Cardinality(T) - Cardinality(S \cap T)
  BY FS_Union
<1>2. Cardinality(S) \in Nat /\ Cardinality(T) \in Nat /\ Cardinality({}) = 0
  BY FS_EmptySet, FS_CardinalityType
<1>3. Cardinality(S \cap T) = 0
  BY <1>2, Zenon
<1> QED
  BY <1>1, <1>2, <1>3

LEMMA SubsetDifference ==
    ASSUME NEW S, NEW T, IsFiniteSet(S), T \subseteq S
    PROVE  /\ IsFiniteSet(S \ T)
           /\ Cardinality(S \ T) = Cardinality(S) - Cardinality(T)
<1>1. S \cap T = T
  OBVIOUS
<1> QED
  BY <1>1, FS_Difference

\* Before any reservation no seat is held.
LEMMA InventoryInitInv == InventoryInit => InventoryInv
<1> SUFFICES ASSUME InventoryInit PROVE InventoryInv
  OBVIOUS
<1> USE InventoryAssumption
<1>1. InventoryTypeOK
  BY DEF InventoryInit, InventoryTypeOK, NoRow, Rows
<1>2. RowsWellFormed
  BY DEF InventoryInit, RowsWellFormed, NoRow
<1>3. \A f \in Flights : HeldSeats(f) = {}
  BY DEF InventoryInit, HeldSeats, Holders, NoRow
<1>4. ASSUME NEW f \in Flights
      PROVE  /\ IsFiniteSet(HeldSeats(f))
             /\ available[f] \in Nat
             /\ available[f] + Cardinality(HeldSeats(f)) = Total[f]
  <2>1. available[f] = Total[f] /\ Total[f] \in Nat
    BY DEF InventoryInit
  <2> QED
    BY <1>3, <2>1, FS_EmptySet
<1> QED
  BY <1>1, <1>2, <1>4 DEF InventoryInv

\* Reserve takes n seats off the counter and adds n tokens of a booking that had
\* none.
LEMMA ReserveKeepsInv ==
    ASSUME InventoryInv,
           NEW b \in Bookings, NEW f \in Flights, NEW n \in SeatCounts,
           Reserve(b, f, n)
    PROVE  InventoryInv'
<1> USE InventoryAssumption
<1>n. n \in Nat /\ n > 0 /\ n <= available[f] /\ reservation[b] = NoRow
  BY DEF Reserve, InventoryInv, RowsWellFormed
<1>1. InventoryTypeOK'
  BY <1>n DEF InventoryInv, InventoryTypeOK, Reserve, ActiveRow, Rows
<1>2. RowsWellFormed'
  BY <1>n DEF InventoryInv, InventoryTypeOK, RowsWellFormed, Reserve, ActiveRow, NoRow
<1>3. ASSUME NEW g \in Flights
      PROVE  /\ IsFiniteSet(HeldSeats(g)')
             /\ available[g]' \in Nat
             /\ available[g]' + Cardinality(HeldSeats(g)') = Total[g]
  <2> DEFINE New == {b} \X (1 .. n)
  <2>h. /\ IsFiniteSet(HeldSeats(g)) /\ available[g] \in Nat
        /\ available[g] + Cardinality(HeldSeats(g)) = Total[g]
    BY DEF InventoryInv
  <2>r. /\ reservation'[b] = ActiveRow(f, n)
        /\ \A c \in Bookings \ {b} : reservation'[c] = reservation[c]
    BY DEF Reserve, InventoryInv, InventoryTypeOK
  <2>1. CASE g = f
    <3>1. Holders(g)' = Holders(g) \cup {b} /\ b \notin Holders(g)
      BY <1>n, <2>r, <2>1 DEF Holders, ActiveRow, NoRow
    <3>2. SeatsOf(b)' = New
      BY <2>r DEF SeatsOf, ActiveRow
    <3>3. \A c \in Holders(g) : SeatsOf(c)' = SeatsOf(c)
      BY <2>r, <3>1 DEF SeatsOf, Holders
    <3>4. HeldSeats(g)' = HeldSeats(g) \cup New
      BY <3>1, <3>2, <3>3 DEF HeldSeats
    <3>5. HeldSeats(g) \cap New = {}
      BY <3>1 DEF HeldSeats, SeatsOf
    <3>6. IsFiniteSet(New) /\ Cardinality(New) = n
      BY <1>n, TokenCount
    <3>7. /\ IsFiniteSet(HeldSeats(g)')
          /\ Cardinality(HeldSeats(g)') = Cardinality(HeldSeats(g)) + n
      <4>1. /\ IsFiniteSet(HeldSeats(g) \cup New)
            /\ Cardinality(HeldSeats(g) \cup New) =
                  Cardinality(HeldSeats(g)) + Cardinality(New)
        BY <2>h, <3>5, <3>6, DisjointUnion
      <4> QED
        BY <3>4, <3>6, <4>1, Zenon
    <3>8. available[g]' = available[g] - n
      BY <2>1 DEF Reserve, InventoryInv, InventoryTypeOK
    <3>9. Cardinality(HeldSeats(g)) \in Nat
      BY <2>h, FS_CardinalityType
    <3> QED
      BY <1>n, <2>h, <2>1, <3>7, <3>8, <3>9
  <2>2. CASE g # f
    <3>1. Holders(g)' = Holders(g) /\ b \notin Holders(g)
      BY <1>n, <2>r, <2>2 DEF Holders, ActiveRow, NoRow
    <3>2. HeldSeats(g)' = HeldSeats(g)
      BY <2>r, <3>1 DEF HeldSeats, SeatsOf, Holders
    <3>3. available[g]' = available[g]
      BY <2>2 DEF Reserve, InventoryInv, InventoryTypeOK
    <3> QED
      BY <2>h, <3>2, <3>3
  <2> QED
    BY <2>1, <2>2
<1> QED
  BY <1>1, <1>2, <1>3 DEF InventoryInv

\* Release puts the seats of a row back and takes its tokens away.
LEMMA ReleaseKeepsInv ==
    ASSUME InventoryInv, NEW b \in Bookings, Release(b)
    PROVE  InventoryInv'
<1> USE InventoryAssumption
<1> DEFINE f == reservation[b].flight
           n == reservation[b].seats
<1>n. n \in Nat /\ n > 0 /\ f \in Flights
  BY DEF Release, InventoryInv, InventoryTypeOK, RowsWellFormed, Rows
<1>r. /\ reservation'[b] = [reservation[b] EXCEPT !.status = "RELEASED"]
      /\ \A c \in Bookings \ {b} : reservation'[c] = reservation[c]
      /\ reservation[b] \in Rows
  BY DEF Release, InventoryInv, InventoryTypeOK
<1>1. InventoryTypeOK'
  BY <1>n, <1>r DEF InventoryInv, InventoryTypeOK, Release, Rows
<1>2. RowsWellFormed'
  BY <1>n, <1>r DEF InventoryInv, InventoryTypeOK, RowsWellFormed, Release, Rows
<1>3. ASSUME NEW g \in Flights
      PROVE  /\ IsFiniteSet(HeldSeats(g)')
             /\ available[g]' \in Nat
             /\ available[g]' + Cardinality(HeldSeats(g)') = Total[g]
  <2>h. /\ IsFiniteSet(HeldSeats(g)) /\ available[g] \in Nat
        /\ available[g] + Cardinality(HeldSeats(g)) = Total[g]
    BY DEF InventoryInv
  <2>a. Holders(g)' = Holders(g) \ {b}
    BY <1>r DEF Holders, Rows
  <2>s. \A c \in Holders(g) \ {b} : SeatsOf(c)' = SeatsOf(c)
    BY <1>r DEF SeatsOf, Holders
  <2>1. CASE g = f
    <3>1. b \in Holders(g)
      BY <2>1 DEF Release, Holders
    <3>2. HeldSeats(g)' = HeldSeats(g) \ SeatsOf(b)
      BY <2>a, <2>s, <3>1 DEF HeldSeats, SeatsOf
    <3>3. SeatsOf(b) \subseteq HeldSeats(g)
      BY <3>1 DEF HeldSeats
    <3>4. IsFiniteSet(SeatsOf(b)) /\ Cardinality(SeatsOf(b)) = n
      BY <1>n, TokenCount DEF SeatsOf
    <3>5. /\ IsFiniteSet(HeldSeats(g)')
          /\ Cardinality(HeldSeats(g)') = Cardinality(HeldSeats(g)) - n
      BY <2>h, <3>2, <3>3, <3>4, SubsetDifference, Zenon
    <3>6. available[g]' = available[g] + n
      BY <2>1 DEF Release, InventoryInv, InventoryTypeOK
    <3>7. Cardinality(HeldSeats(g)) \in Nat
      BY <2>h, FS_CardinalityType
    <3> QED
      BY <1>n, <2>h, <3>5, <3>6, <3>7
  <2>2. CASE g # f
    <3>1. b \notin Holders(g)
      BY <2>2 DEF Holders
    <3>2. HeldSeats(g)' = HeldSeats(g)
      BY <2>a, <2>s, <3>1 DEF HeldSeats
    <3>3. available[g]' = available[g]
      BY <2>2 DEF Release, InventoryInv, InventoryTypeOK
    <3> QED
      BY <2>h, <3>2, <3>3
  <2> QED
    BY <2>1, <2>2
<1> QED
  BY <1>1, <1>2, <1>3 DEF InventoryInv

LEMMA StutterKeepsInv ==
    ASSUME InventoryInv, UNCHANGED inventory
    PROVE  InventoryInv'
<1>1. \A f \in Flights : HeldSeats(f)' = HeldSeats(f)
  BY DEF inventory, HeldSeats, Holders, SeatsOf
<1> QED
  BY <1>1 DEF inventory, InventoryInv, InventoryTypeOK, RowsWellFormed

LEMMA InventoryInvAlways == InventorySpec => []InventoryInv
<1>1. InventoryInv /\ [InventoryNext]_inventory => InventoryInv'
  BY ReserveKeepsInv, ReleaseKeepsInv, StutterKeepsInv DEF InventoryNext
<1> QED
  BY InventoryInitInv, <1>1, PTL DEF InventorySpec

\* Whatever is reserved and released, in whatever order, the counter of a flight
\* and its ACTIVE reservations add up to the aircraft (reserve_seats,
\* release_reservation).
THEOREM InventoryConservesSeats == InventorySpec => []SeatsConserved
<1>1. InventoryInv => SeatsConserved
  BY DEF InventoryInv, SeatsConserved
<1> QED
  BY InventoryInvAlways, <1>1, PTL

\* A reservation row goes from absent to ACTIVE to RELEASED and keeps its flight
\* and seats (UNIQUE(booking_id), ReservationStatus).
THEOREM InventoryUsesOnce == InventorySpec => ReservationUsedOnce
<1> DEFINE Step == \A b \in Bookings :
          \/ reservation[b] = reservation'[b]
          \/ reservation[b] = NoRow /\ reservation'[b].status = "ACTIVE"
          \/ /\ reservation[b].status = "ACTIVE"
             /\ reservation'[b] = [reservation[b] EXCEPT !.status = "RELEASED"]
<1>1. ASSUME InventoryInv, InventoryNext PROVE Step
  <2>1. ASSUME NEW b \in Bookings, NEW f \in Flights, NEW n \in SeatCounts,
               Reserve(b, f, n)
        PROVE  Step
    BY <1>1, <2>1 DEF Reserve, ActiveRow, InventoryInv, InventoryTypeOK, RowsWellFormed
  <2>2. ASSUME NEW b \in Bookings, Release(b) PROVE Step
    BY <1>1, <2>2 DEF Release, InventoryInv, InventoryTypeOK
  <2> QED
    BY <1>1, <2>1, <2>2 DEF InventoryNext
<1>2. InventoryInv /\ [InventoryNext]_inventory => [Step]_inventory
  BY <1>1
<1> QED
  BY InventoryInvAlways, <1>2, PTL DEF InventorySpec, ReservationUsedOnce
=============================================================================
