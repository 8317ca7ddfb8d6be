---------------------------- MODULE CustomerMail ----------------------------
(***************************************************************************)
(* The booking service and the notifications worker as they run: two parts *)
(* of one process that meet in RabbitMQ.  What a handler of BookingService *)
(* publishes is a message of Notifications, published before the commit;   *)
(* the process dies with both parts; one count bounds the faults of all.   *)
(***************************************************************************)
EXTENDS Notifications

CONSTANTS
    \* of BookingService, whose Requests are the Senders here
    Users, RouteIds, ActiveRoutes, Seats, SeatRoute, None

ASSUME MailAssumption ==
    /\ ActiveRoutes \subseteq RouteIds
    /\ SeatRoute \in [Seats -> RouteIds]
    /\ None \notin Senders \cup Users \cup Seats

VARIABLES
    \* of BookingService
    seatBooked, bookings, published, pc, req, session, answer

bookingVars == <<seatBooked, bookings, published, pc, req, session, answer>>
mailVars == <<added, broker, redelivered, stage, attempts, emails>>
mailAllVars == <<bookingVars, mailVars, faults>>

Booking == INSTANCE BookingService WITH Requests <- Senders

MailInit == Booking!Init /\ Init

-----------------------------------------------------------------------------

\* What the event loop runs for an accepted request, but for its publish.
Work(r) ==
    \/ Booking!Insert(r)
    \/ Booking!Confirm(r)
    \/ Booking!UpdateStatus(r)
    \/ Booking!MarkFree(r)
    \/ Booking!Invalidate(r)
    \/ Booking!Commit(r)
    \/ Booking!Reply(r)

BookingStep(r) ==
    /\ \/ Work(r)
       \/ Booking!Arrive(r)
       \/ Booking!Fail(r)
       \/ Booking!CommitUnacknowledged(r)
    /\ UNCHANGED mailVars

\* Mutant of Send: no queue is bound to the routing key, the message vanishes.
SendUnrouted(r) ==
    /\ Booking!Publish(r) \/ Booking!PublishUnacknowledged(r)
    /\ UNCHANGED mailVars

\* The publish, which puts the message into a queue.
Send(r) ==
    /\ Booking!Publish(r) \/ Booking!PublishUnacknowledged(r)
    /\ Enqueue(<<r, Booking!EventKind(r)>>)
    /\ UNCHANGED added

\* RabbitMQ and the worker.
WorkerStep ==
    /\ \/ \E m \in Messages : Transport(m)
       \/ \E x \in Runs : Handle(x) \/ SendUnacknowledged(x)
       \/ ConnectionLost
       \/ BrokerRestart
    /\ UNCHANGED <<bookingVars, added>>

\* The process dies, with its handlers of requests and of messages.
ProcessCrash ==
    /\ \/ Booking!Crash /\ Crash
       \/ /\ Booking!Crash
          /\ \A x \in Runs : stage[x] \notin Running
          /\ UNCHANGED mailVars
       \/ /\ Crash
          /\ \A r \in Senders : pc[r] \notin Booking!InFlight
          /\ UNCHANGED bookingVars
    /\ UNCHANGED added

MailNext ==
    \/ \E r \in Senders : BookingStep(r) \/ Send(r)
    \/ WorkerStep
    \/ ProcessCrash
    \/ Booking!AllDone /\ Idle /\ UNCHANGED added

MailSpec == MailInit /\ [][MailNext]_mailAllVars

\* The event loop goes on with what it can go on with, and RabbitMQ delivers.
\* Every request and every delivery has finitely many steps, so that it is
\* enough for some request, some message and some run to go on.
FairMailSpec ==
    /\ MailSpec
    /\ WF_mailAllVars(\E r \in Senders :
           (Work(r) /\ UNCHANGED mailVars) \/ (Booking!Publish(r) /\ Send(r)))
    /\ WF_mailAllVars(\E m \in Messages : Transport(m) /\ UNCHANGED <<bookingVars, added>>)
    /\ WF_mailAllVars(\E x \in Runs : Handle(x) /\ UNCHANGED <<bookingVars, added>>)

-----------------------------------------------------------------------------
(* Properties                                                              *)

\* While nothing fails, e-mails tell the truth: once the request is answered,
\* what its e-mail says has been committed, although the e-mail may have been
\* sent before, and although another request may have run into this one.
MailTellsTheTruth ==
    \A r \in Senders :
        /\ faults = 0
        /\ pc[r] = "done"
        => /\ emails[<<r, "confirmed">>] > 0 => r \in DOMAIN bookings
           /\ emails[<<r, "cancelled">>] > 0 =>
                  bookings[req[r].booking].status = "cancelled"

\* A customer who is told of a cancellation has been told of the booking, or
\* its message is on the way or was given up: it has at least been published,
\* whatever failed, crashed or overtook.
CancellationFollowsConfirmation ==
    \A r \in Senders :
        emails[<<r, "cancelled">>] > 0 =>
            broker[<<req[r].booking, "confirmed">>] # "unpublished"

\* A committed booking is not passed over: its customer gets the e-mail, unless
\* every attempt to send it failed or RabbitMQ lost the message.  A cancelled
\* one likewise, by the message of some cancellation.
Told(r, kind) ==
    \/ emails[<<r, kind>>] > 0
    \/ broker[<<r, kind>>] \in {"dropped", "logged", "lost"}

CustomersAreTold ==
    <>[](\A b \in DOMAIN bookings :
             /\ Told(b, "confirmed")
             /\ bookings[b].status = "cancelled" =>
                    \E r \in Senders : req[r].booking = b /\ Told(r, "cancelled"))

\* The bookings that RabbitMQ was told of, by kind.
Sent == {e \in Senders \X Kinds :
            \E r \in Senders : /\ req[r].op # "none"
                               /\ req[r].booking = e[1]
                               /\ broker[<<r, e[2]>>] # "unpublished"}

SentLedger == INSTANCE SeatLedger WITH
                  Ids <- Senders,
                  ledger <- Booking!SeatsHeld,
                  announced <- Sent

\* The whole process implements the ledger of seats, with the messages that
\* RabbitMQ was given, whatever became of them, as its announcements: no seat
\* is held or released of which the mailer could not have heard before.
MailImplementsLedger == SentLedger!Spec

-----------------------------------------------------------------------------
(* The inductive invariant behind them, next to those of both parts        *)

\* What the accepted request r was to do is done.
Done(r) ==
    /\ req[r].op = "create" => r \in DOMAIN bookings
    /\ req[r].op = "cancel" => bookings[req[r].booking].status = "cancelled"

\* The message of a request is the one that its handler has published, which
\* then had only the commit left to do: without failures it is done.
SenderShape(r) ==
    /\ \A k \in Kinds : broker[<<r, k>>] # "unpublished" =>
           /\ k = Booking!EventKind(r)
           /\ req[r].op # "none"
           /\ pc[r] \in {"commit", "reply", "done"}
           /\ published[req[r].booking][k] > 0
           /\ pc[r] = "done" /\ faults = 0 => Done(r)
    /\ published[r]["confirmed"] > 0 => broker[<<r, "confirmed">>] # "unpublished"

\* Nobody handles what nobody has published.
Untouched(m) ==
    broker[m] = "unpublished" => redelivered[m] = 0 /\ emails[m] = 0

MailInv ==
    /\ Booking!IInv
    /\ WorkerInv
    /\ \A r \in Senders : SenderShape(r)
    /\ \A m \in Messages : Untouched(m)

-----------------------------------------------------------------------------

\* Of what the e-mail says: a customer told of a confirmed booking has one.
\* (The event is published before the commit, which may fail.)
ConfirmedBookingExists ==
    \A r \in Senders :
        emails[<<r, "confirmed">>] > 0 /\ pc[r] = "done" => r \in DOMAIN bookings
=============================================================================
