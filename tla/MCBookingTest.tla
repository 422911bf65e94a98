--------------------------- MODULE MCBookingTest ---------------------------
(* Instances of BookingTest for TLC. *)
EXTENDS BookingTest
=============================================================================
