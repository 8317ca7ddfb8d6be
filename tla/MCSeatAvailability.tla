------------------------- MODULE MCSeatAvailability -------------------------
(* Finite instances of SeatAvailability: one route with all the seats, and  *)
(* one that has none.                                                       *)
EXTENDS SeatAvailability, TLC

CONSTANTS r1, r2

MCRouteIds == {r1, r2}
MCActiveRoutes == {r1}
MCSeatRoute == [s \in Seats |-> r1]
=============================================================================
