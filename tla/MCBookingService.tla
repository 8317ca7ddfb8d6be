-------------------------- MODULE MCBookingService --------------------------
(* Finite instances of BookingService: one active route with all the seats, *)
(* and one route id that names no active route.                             *)
EXTENDS BookingService, TLC

CONSTANTS r1, r2

MCRouteIds == {r1, r2}
MCActiveRoutes == {r1}
MCSeatRoute == [s \in Seats |-> r1]

MCSymmetry ==
    Permutations(Requests) \cup Permutations(Users) \cup Permutations(Seats)
=============================================================================
