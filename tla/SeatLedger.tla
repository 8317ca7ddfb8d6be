----------------------------- MODULE SeatLedger -----------------------------
(***************************************************************************)
(* What the booking service promises about a seat, without requests,       *)
(* sessions or tables: a seat is free, then held by one booking, then      *)
(* released by the cancellation of that booking and never held again; and  *)
(* each of these two changes has been announced before it happens.         *)
(***************************************************************************)
CONSTANTS
    Seats,
    Ids,     \* ids of bookings
    None

VARIABLES
    ledger,     \* the state of every seat, and the booking responsible for it
    announced   \* the events handed to the message broker

vars == <<ledger, announced>>

Free == [state |-> "free", by |-> None]

TypeOK ==
    /\ ledger \in [Seats -> [state : {"free", "held", "released"},
                             by : Ids \cup {None}]]
    /\ announced \subseteq Ids \X {"confirmed", "cancelled"}

Init ==
    /\ ledger = [s \in Seats |-> Free]
    /\ announced = {}

\* An event may be announced for a change that then never happens.
Announce(b, kind) ==
    /\ kind = "cancelled" => <<b, "confirmed">> \in announced
    /\ announced' = announced \cup {<<b, kind>>}
    /\ UNCHANGED ledger

Hold(s, b) ==
    /\ ledger[s] = Free
    /\ \A t \in Seats : ledger[t].by # b
    /\ <<b, "confirmed">> \in announced
    /\ ledger' = [ledger EXCEPT ![s] = [state |-> "held", by |-> b]]
    /\ UNCHANGED announced

Release(s) ==
    /\ ledger[s].state = "held"
    /\ <<ledger[s].by, "cancelled">> \in announced
    /\ ledger' = [ledger EXCEPT ![s].state = "released"]
    /\ UNCHANGED announced

Next ==
    \/ \E b \in Ids, kind \in {"confirmed", "cancelled"} : Announce(b, kind)
    \/ \E s \in Seats, b \in Ids : Hold(s, b)
    \/ \E s \in Seats : Release(s)

Spec == Init /\ [][Next]_vars
=============================================================================
