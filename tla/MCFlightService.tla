-------------------------- MODULE MCFlightService --------------------------
(* Instances of FlightService for TLC.                                     *)
EXTENDS FlightService, TLC

CONSTANTS f1, f2, b1, b2, w1, w2, r1

\* One flight of two seats, asked for by its canonical id or by an id of no flight,
\* and found by one search.
OneTotal     == f1 :> 2
OneCanonical == f1 :> "f1"
OneName      == "f1" :> f1
GhostRowOf   == OneName @@ "ghost" :> NoFlight
OneRoute     == "search" :> {f1}
NoRoute      == [k \in {} |-> {}]

\* Two flights, and "ghost", the id of no flight; a count that only the table refuses.
MCTotal      == f1 :> 2 @@ f2 :> 1
MCCanonical  == f1 :> "f1" @@ f2 :> "f2"
MCRowOf      == "f1" :> f1 @@ "f2" :> f2 @@ "ghost" :> NoFlight
MCSeatCounts == {-1, 1, 2}

Symmetry == Permutations({w1, w2}) \cup Permutations({b1, b2})
=============================================================================
