--------------------------- MODULE MCBooking ---------------------------
(***************************************************************************)
(* MCBooking: two bookings and a meeting of the host's in a Google         *)
(* calendar of two days of two minutes, where a meeting put across the     *)
(* midnight between them touches both; the clock stands still, so that     *)
(* reminders and purge have nothing to do.                                 *)
(* MCBookingUpkeep: one booking in a CalDAV calendar, reminded of and past *)
(* retention before the clock stops, with two crashes, lost claims or      *)
(* moves that keep the start.                                              *)
(***************************************************************************)
EXTENDS Booking, TLC

\* The bookings are interchangeable.
Symmetry == Permutations(Booker)

\* The observers none of MCBooking's properties reads tell no states apart, and neither does
\* which booking an event loop at rest names.
SafetyView ==
    <<now, when, access, rows, pending, IF loop = Idle THEN {} ELSE loop, faults, blind>>

==========================================================================
