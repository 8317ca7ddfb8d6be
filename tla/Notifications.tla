---------------------------- MODULE Notifications ----------------------------
(***************************************************************************)
(* From a published event to the e-mail of a customer: the topology of     *)
(* app/services/broker.py, the subscribers of app/services/worker.py and   *)
(* what RabbitMQ does around them.                                         *)
(*                                                                         *)
(* A subscriber has no prefetch limit, so every message of a queue is      *)
(* delivered at once and handled by a task of its own; nothing orders two  *)
(* messages.  FastStream acknowledges a message when the handler returns   *)
(* and rejects it, without requeueing, when the handler raises.  When a    *)
(* connection is lost RabbitMQ delivers what was not acknowledged again,   *)
(* while the task of the first delivery goes on: a run of a handler is a   *)
(* pair of a message and the number of times it had been redelivered.      *)
(***************************************************************************)
EXTENDS Naturals, FiniteSets

CONSTANTS
    Senders,        \* the requests that publish events, each at most one of a kind
    MaxAttempts,    \* MAX_ATTEMPTS
    HandBindings,   \* bindings somebody may have added; the code adds none of these
    MaxFaults       \* bound on crashes, lost connections and lost answers

ASSUME NotificationsAssumption ==
    /\ MaxAttempts \in Nat \ {0}
    /\ MaxFaults \in Nat

VARIABLES
    added,        \* the bindings of HandBindings that RabbitMQ has
    broker,       \* where RabbitMQ has a message
    redelivered,  \* how often it delivered the message again
    stage,        \* where the run of a handler is
    attempts,     \* attempts of _with_retry started in a run
    emails,       \* e-mails the customer got for a message
    faults        \* faults of the environment so far

vars == <<added, broker, redelivered, stage, attempts, emails, faults>>

-----------------------------------------------------------------------------

Kinds == {"confirmed", "cancelled"}
Messages == Senders \X Kinds
Runs == Messages \X (0..MaxFaults)

\* The run that the latest delivery of m started.
CurrentRun(m) == <<m, redelivered[m]>>

Settled == {"acked", "dropped", "logged", "lost"}
Running == {"trying", "sleeping", "sent", "failed"}

TypeOK ==
    /\ added \subseteq HandBindings
    /\ broker \in [Messages -> {"unpublished", "ready", "unacked", "dead"} \cup Settled]
    /\ redelivered \in [Messages -> 0..MaxFaults]
    /\ stage \in [Runs -> {"none", "done"} \cup Running]
    /\ attempts \in [Runs -> 0..MaxAttempts]
    /\ emails \in [Messages -> Nat]
    /\ faults \in 0..MaxFaults

Init ==
    /\ added \in SUBSET HandBindings
    /\ broker = [m \in Messages |-> "unpublished"]
    /\ redelivered = [m \in Messages |-> 0]
    /\ stage = [x \in Runs |-> "none"]
    /\ attempts = [x \in Runs |-> 0]
    /\ emails = [m \in Messages |-> 0]
    /\ faults = 0

-----------------------------------------------------------------------------
(* The topology                                                            *)

\* What the start of the subscribers and lifespan bind.  The subscriber of
\* booking.dlq names no exchange and declare_queue binds nothing, so that
\* booking.dlq is only bound to the default exchange, under its own name.
CodeBindings ==
    { [exchange |-> "booking.events", key |-> "confirmed", queue |-> "confirmed"],
      [exchange |-> "booking.events", key |-> "cancelled", queue |-> "cancelled"],
      [exchange |-> "default", key |-> "booking.dlq", queue |-> "booking.dlq"] }

\* Starting adds its bindings to those RabbitMQ has, and removes none.
Bindings == CodeBindings \cup added

Routed(exchange, key) ==
    \E b \in Bindings : b.exchange = exchange /\ b.key = key

-----------------------------------------------------------------------------

\* A published message is routed to its queue.
Enqueue(m) ==
    /\ broker[m] = "unpublished"
    /\ Routed("booking.events", m[2])
    /\ broker' = [broker EXCEPT ![m] = "ready"]
    /\ UNCHANGED <<redelivered, stage, attempts, emails>>

\* A handler of BookingService publishes.
Publish(m) == Enqueue(m) /\ UNCHANGED faults

\* A message reaches its subscriber, whose handler enters _with_retry.
Deliver(m) ==
    /\ broker[m] = "ready"
    /\ broker' = [broker EXCEPT ![m] = "unacked"]
    /\ stage' = [stage EXCEPT ![CurrentRun(m)] = "trying"]
    /\ attempts' = [attempts EXCEPT ![CurrentRun(m)] = 1]
    /\ UNCHANGED <<redelivered, emails, faults>>

\* Mutant of SendSucceeds: _with_retry does not return after a success.
SendGoesOn(x) ==
    /\ stage[x] = "trying"
    /\ emails' = [emails EXCEPT ![x[1]] = @ + 1]
    /\ stage' = [stage EXCEPT ![x] = IF attempts[x] < MaxAttempts
                                     THEN "sleeping" ELSE "sent"]
    /\ UNCHANGED <<broker, redelivered, attempts, faults>>

\* The attempt succeeds: _with_retry and the handler return.
SendSucceeds(x) ==
    /\ stage[x] = "trying"
    /\ emails' = [emails EXCEPT ![x[1]] = @ + 1]
    /\ stage' = [stage EXCEPT ![x] = "sent"]
    /\ UNCHANGED <<broker, redelivered, attempts, faults>>

\* Mutant of AttemptFailed: one attempt too many.
AttemptFailedLate(x) ==
    /\ stage[x] = "trying"
    /\ stage' = [stage EXCEPT ![x] = IF attempts[x] <= MaxAttempts
                                     THEN "sleeping" ELSE "failed"]
    /\ UNCHANGED <<broker, redelivered, attempts>>

\* The attempt raises: sleep and try again, or give up and raise.
AttemptFailed(x) ==
    /\ stage[x] = "trying"
    /\ stage' = [stage EXCEPT ![x] = IF attempts[x] < MaxAttempts
                                     THEN "sleeping" ELSE "failed"]
    /\ UNCHANGED <<broker, redelivered, attempts>>

SendFails(x) == AttemptFailed(x) /\ UNCHANGED <<emails, faults>>

\* asyncio.sleep(RETRY_DELAY_SECONDS) is over.
Retry(x) ==
    /\ stage[x] = "sleeping"
    /\ stage' = [stage EXCEPT ![x] = "trying"]
    /\ attempts' = [attempts EXCEPT ![x] = @ + 1]
    /\ UNCHANGED <<broker, redelivered, emails, faults>>

\* RabbitMQ listens to an answer only on the channel of the delivery.
Settle(x, outcome) ==
    broker' = IF x = CurrentRun(x[1]) /\ broker[x[1]] = "unacked"
              THEN [broker EXCEPT ![x[1]] = outcome]
              ELSE broker

\* Mutant of Ack: the handler ends without an answer to RabbitMQ.
AckForgotten(x) ==
    /\ stage[x] = "sent"
    /\ stage' = [stage EXCEPT ![x] = "done"]
    /\ UNCHANGED <<broker, redelivered, attempts, emails, faults>>

\* The handler returns, and FastStream acknowledges.
Ack(x) ==
    /\ stage[x] = "sent"
    /\ stage' = [stage EXCEPT ![x] = "done"]
    /\ Settle(x, "acked")
    /\ UNCHANGED <<redelivered, attempts, emails, faults>>

\* Mutant of Reject: the last exception is swallowed, the message acknowledged.
RejectSwallowed(x) ==
    /\ stage[x] = "failed"
    /\ stage' = [stage EXCEPT ![x] = "done"]
    /\ Settle(x, "acked")
    /\ UNCHANGED <<redelivered, attempts, emails, faults>>

\* Rejected messages go to x-dead-letter-exchange with
\* x-dead-letter-routing-key, and nowhere if nothing is bound there.
Reject(x) ==
    /\ stage[x] = "failed"
    /\ stage' = [stage EXCEPT ![x] = "done"]
    /\ Settle(x, IF Routed("booking.dlx", "booking.dead") THEN "dead" ELSE "dropped")
    /\ UNCHANGED <<redelivered, attempts, emails, faults>>

\* on_dead_letter
LogDeadLetter(m) ==
    /\ broker[m] = "dead"
    /\ broker' = [broker EXCEPT ![m] = "logged"]
    /\ UNCHANGED <<redelivered, stage, attempts, emails, faults>>

-----------------------------------------------------------------------------
(* Faults                                                                  *)

Fault == faults < MaxFaults /\ faults' = faults + 1

\* The provider sends the e-mail, but its answer is an error or a timeout.
SendUnacknowledged(x) ==
    /\ Fault
    /\ AttemptFailed(x)
    /\ emails' = [emails EXCEPT ![x[1]] = @ + 1]

\* RabbitMQ takes back what the closed channels have not acknowledged.
Requeue ==
    /\ broker' = [m \in Messages |-> IF broker[m] = "unacked"
                                     THEN "ready" ELSE broker[m]]
    /\ redelivered' = [m \in Messages |-> IF broker[m] = "unacked"
                                          THEN redelivered[m] + 1
                                          ELSE redelivered[m]]

\* The process dies and is started again.
Crash ==
    /\ \E x \in Runs : stage[x] \in Running
    /\ Fault
    /\ Requeue
    /\ stage' = [x \in Runs |-> IF stage[x] \in Running THEN "done" ELSE stage[x]]
    /\ UNCHANGED <<attempts, emails>>

\* The connection breaks and is opened again; the handlers do not notice.
ConnectionLost ==
    /\ \E m \in Messages : broker[m] = "unacked"
    /\ Fault
    /\ Requeue
    /\ UNCHANGED <<stage, attempts, emails>>

\* RabbitMQ restarts.  The queues are durable, but publish does not ask for
\* persistent messages.
BrokerRestart ==
    /\ Fault
    /\ \E m \in Messages : broker[m] \in {"ready", "unacked", "dead"}
    /\ broker' = [m \in Messages |-> IF broker[m] \in {"ready", "unacked", "dead"}
                                     THEN "lost" ELSE broker[m]]
    /\ UNCHANGED <<redelivered, stage, attempts, emails>>

-----------------------------------------------------------------------------

\* What the worker and RabbitMQ do by themselves.
Handle(x) ==
    \/ SendSucceeds(x)
    \/ SendFails(x)
    \/ Retry(x)
    \/ Ack(x)
    \/ Reject(x)

Transport(m) == Deliver(m) \/ LogDeadLetter(m)

\* Nothing is published any more and nothing is left to do.
Idle ==
    /\ \A m \in Messages : broker[m] \notin {"ready", "dead"}
    /\ \A x \in Runs : stage[x] \in {"none", "done"}
    /\ UNCHANGED vars

Next ==
    /\ \/ \E m \in Messages : Publish(m) \/ Transport(m)
       \/ \E x \in Runs : Handle(x) \/ SendUnacknowledged(x)
       \/ Crash
       \/ ConnectionLost
       \/ BrokerRestart
       \/ Idle
    /\ UNCHANGED added

Spec == Init /\ [][Next]_vars

\* RabbitMQ delivers what is ready, every send ends, every sleep is over, and
\* FastStream answers for every handler that ends.
FairSpec ==
    /\ Spec
    /\ \A m \in Messages : WF_vars(Transport(m) /\ UNCHANGED added)
    /\ \A x \in Runs : WF_vars(Handle(x) /\ UNCHANGED added)

-----------------------------------------------------------------------------
(* Properties                                                              *)

\* RabbitMQ forgets a message for the worker's sake only when the customer
\* has the e-mail, or all MAX_ATTEMPTS attempts of one delivery have failed,
\* whichever of the concurrent runs of its handler answers.
ForgottenWithReason ==
    \A m \in Messages :
        /\ broker[m] = "acked" => emails[m] > 0
        /\ broker[m] \in {"dead", "dropped", "logged"} =>
               attempts[CurrentRun(m)] = MaxAttempts

\* The customer gets a second e-mail about an event only if something failed.
NoSpuriousEmail == \A m \in Messages : emails[m] <= 1 + faults

\* In the end nothing is on the way any more: RabbitMQ keeps no message that
\* waits for a worker, whatever was delivered again or answered too late.
EveryMessageSettles ==
    <>[](\A m \in Messages : broker[m] \in {"unpublished"} \cup Settled)

-----------------------------------------------------------------------------
(* The inductive invariant behind them                                     *)

\* The deliveries of m whose runs may still send.
Live(m) == {i \in 0..MaxFaults : stage[<<m, i>>] \in {"trying", "sleeping"}}

\* E-mails sent and still to come: a delivery yields one, a fault one more.
Budget(m) ==
    emails[m] + Cardinality(Live(m))
        + (IF broker[m] \in {"unpublished", "ready"} THEN 1 ELSE 0) <= 1 + faults

DeliveryShape(m) ==
    /\ redelivered[m] <= faults
    /\ \A i \in 0..MaxFaults : i > redelivered[m] => stage[<<m, i>>] = "none"
    /\ broker[m] \in {"unpublished", "ready"} => stage[CurrentRun(m)] = "none"
    /\ broker[m] \in {"dead", "dropped", "logged"} => stage[CurrentRun(m)] = "done"

RunShape(x) ==
    /\ stage[x] = "sent" => emails[x[1]] > 0
    /\ stage[x] = "failed" => attempts[x] = MaxAttempts
    /\ stage[x] = "sleeping" => attempts[x] < MaxAttempts

WorkerInv ==
    /\ TypeOK
    /\ \A m \in Messages : DeliveryShape(m) /\ Budget(m)
    /\ \A x \in Runs : RunShape(x)
    /\ ForgottenWithReason

-----------------------------------------------------------------------------

\* Of what the documentation says: a message whose attempts have all failed
\* is handed to booking.dlq.  (Nothing binds booking.dlq to booking.dlx.)
FailedReachDeadLetters == \A m \in Messages : broker[m] # "dropped"
=============================================================================
