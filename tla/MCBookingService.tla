-------------------------- MODULE MCBookingService --------------------------
(* Instances of BookingService for TLC.                                    *)
EXTENDS BookingService, TLC

CONSTANTS f1, b1, b2, t1, t2, t3

MCTotal  == f1 :> 2
Symmetry == Permutations({t1, t2, t3}) \cup Permutations({b1, b2})
=============================================================================
