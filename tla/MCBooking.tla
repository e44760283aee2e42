------------------------------- MODULE MCBooking -------------------------------
(* Small instances of Booking for TLC. *)
EXTENDS Booking, TLC

Everything == Trips \cup Packages \cup Deals \cup Users
OneCarrier == [p \in Trips |-> CHOOSE u \in Users : TRUE]

Symmetric == Permutations(Events) \cup Permutations(Requests)
=============================================================================
