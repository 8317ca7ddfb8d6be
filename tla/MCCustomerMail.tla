--------------------------- MODULE MCCustomerMail ---------------------------
(* Finite instances of CustomerMail: one active route with all the seats,   *)
(* and one route id that names no active route.                             *)
EXTENDS CustomerMail, MCNotifications

CONSTANTS r1, r2

MCRouteIds == {r1, r2}
MCActiveRoutes == {r1}
MCSeatRoute == [s \in Seats |-> r1]
=============================================================================
