--------------------------- MODULE MCNotifications ---------------------------
(* Finite instances of Notifications.                                       *)
EXTENDS Notifications, TLC

\* booking.dlq as an operator can bind it in the management console.
MCBoundByHand ==
    { [exchange |-> "booking.dlx", key |-> "booking.dead", queue |-> "booking.dlq"] }

MCNoBindings == {}
=============================================================================
