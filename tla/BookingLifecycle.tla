-------------------------- MODULE BookingLifecycle --------------------------
(***************************************************************************)
(* The life of a booking as its owner may think of it, over both services  *)
(* and both databases: seats are held, the booking is confirmed, the seats *)
(* are given back, the booking is cancelled.  No other order, no way back. *)
(***************************************************************************)
CONSTANTS LifecycleBookings

VARIABLES phase

Phases == {"absent", "held", "confirmed", "released", "cancelled"}

LifecycleInit == phase = [b \in LifecycleBookings |-> "absent"]

Advance(b, from, to) ==
    /\ phase[b] = from
    /\ phase' = [phase EXCEPT ![b] = to]

\* ReserveSeats, the insert of the booking, ReleaseReservation, the update to
\* CANCELLED.  Every one but the first may be the last.
LifecycleNext ==
    \E b \in LifecycleBookings :
        \/ Advance(b, "absent", "held")
        \/ Advance(b, "held", "confirmed")
        \/ Advance(b, "confirmed", "released")
        \/ Advance(b, "released", "cancelled")

LifecycleSpec == LifecycleInit /\ [][LifecycleNext]_phase
=============================================================================
