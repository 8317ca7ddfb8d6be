--------------------------- MODULE MCRouteCatalog ---------------------------
(* A finite instance of RouteCatalog: the route that exists leaves last, and *)
(* the two that are created share a date, so that each moves it to another   *)
(* page and the order of the two is open.                                    *)
EXTENDS RouteCatalog

CONSTANTS c1, c2, c3

MCDeparture == [c \in Creations |-> IF c = c3 THEN 2 ELSE 1]
=============================================================================
