------------------------- MODULE CustomerMailProofs -------------------------
(* Theorems about the bookings and the worker together, for every number of *)
(* requests, seats, attempts and faults.                                    *)
EXTENDS NotificationsProofs

Proved == INSTANCE BookingServiceProofs WITH Requests <- Senders

(***************************************************************************)
(* The theorems about BookingService, for its requests as senders.         *)
(***************************************************************************)
\* BookingServiceProofs speaks of the same invariant as CustomerMail.
LEMMA SameInvariant ==
    (Booking!IInv <=> Proved!IInv) /\ (Booking!IInv' <=> Proved!IInv')
BY DEF Booking!IInv, Proved!IInv, Booking!TypeOK, Proved!TypeOK,
       Booking!Row, Proved!Row, Booking!Kinds, Proved!Kinds,
       Booking!InFlight, Proved!InFlight, Booking!Request, Proved!Request,
       Booking!Session, Proved!Session, Booking!Codes, Proved!Codes,
       Booking!BookingStatus, Proved!BookingStatus,
       Booking!SessionShape, Proved!SessionShape,
       Booking!RequestShape, Proved!RequestShape,
       Booking!NoWrites, Proved!NoWrites, Booking!Writing, Proved!Writing,
       Booking!RowsSettled, Proved!RowsSettled,
       Booking!RepliesHold, Proved!RepliesHold,
       Booking!InsertsExclusive, Proved!InsertsExclusive,
       Booking!LocksExclusive, Proved!LocksExclusive,
       Booking!Inserted, Proved!Inserted, Booking!RowsOn, Proved!RowsOn,
       Booking!FreedAlready, Proved!FreedAlready,
       Booking!PublishedBeforeCommit, Proved!PublishedBeforeCommit,
       Booking!EventKind, Proved!EventKind,
       Booking!OneRowPerSeat, Proved!OneRowPerSeat,
       Booking!SeatFlagAgrees, Proved!SeatFlagAgrees,
       Booking!AnnouncedBeforeVisible, Proved!AnnouncedBeforeVisible,
       Booking!AnswersAreDurable, Proved!AnswersAreDurable

\* And of the same steps.
LEMMA SameSteps ==
    /\ Booking!Init <=> Proved!Init
    /\ \A r : Booking!Arrive(r) <=> Proved!Arrive(r)
    /\ \A r : Booking!Step(r) <=> Proved!Step(r)
    /\ \A r : Booking!Environment(r) <=> Proved!Environment(r)
    /\ Booking!Crash <=> Proved!Crash
BY DEF Booking!Init, Proved!Init, Booking!Kinds, Proved!Kinds,
       Booking!NoRequest, Proved!NoRequest, Booking!NoWrites, Proved!NoWrites,
       Booking!Arrive, Proved!Arrive,
       Booking!RequestBooking, Proved!RequestBooking,
       Booking!RequestCancel, Proved!RequestCancel,
       Booking!SeatOnRoute, Proved!SeatOnRoute, Booking!Reject, Proved!Reject,
       Booking!Finish, Proved!Finish, Booking!Goto, Proved!Goto,
       Booking!dbVars, Proved!dbVars, Booking!Step, Proved!Step,
       Booking!Insert, Proved!Insert, Booking!Inserted, Proved!Inserted,
       Booking!RowsOn, Proved!RowsOn, Booking!Confirm, Proved!Confirm,
       Booking!LocksSeat, Proved!LocksSeat,
       Booking!UpdateStatus, Proved!UpdateStatus,
       Booking!LocksBooking, Proved!LocksBooking,
       Booking!MarkFree, Proved!MarkFree, Booking!Invalidate, Proved!Invalidate,
       Booking!Publish, Proved!Publish, Booking!Emit, Proved!Emit,
       Booking!EventKind, Proved!EventKind, Booking!Commit, Proved!Commit,
       Booking!CanCommit, Proved!CanCommit, Booking!Apply, Proved!Apply,
       Booking!Written, Proved!Written, Booking!Reply, Proved!Reply,
       Booking!SuccessCode, Proved!SuccessCode, Booking!Fault, Proved!Fault,
       Booking!Environment, Proved!Environment, Booking!Fail, Proved!Fail,
       Booking!PublishUnacknowledged, Proved!PublishUnacknowledged,
       Booking!CommitUnacknowledged, Proved!CommitUnacknowledged,
       Booking!Crash, Proved!Crash, Booking!InFlight, Proved!InFlight

\* The constants are those of a booking service.
LEMMA ServiceConstants == Proved!BookingAssumption
BY MailAssumption, NotificationsAssumption DEF Proved!BookingAssumption

\* Its steps keep the invariant of the bookings.
LEMMA BookingsGoOn ==
    ASSUME Booking!IInv,
           \/ \E r \in Senders : Booking!Arrive(r) \/ Booking!Step(r) \/ Booking!Environment(r)
           \/ Booking!Crash
    PROVE  Booking!IInv'
<1>1. Proved!IInv
  BY SameInvariant
<1>2. \/ \E r \in Senders : Proved!Arrive(r) \/ Proved!Step(r) \/ Proved!Environment(r)
      \/ Proved!Crash
  BY SameSteps
<1>3. Proved!IInv'
  BY <1>1, <1>2, ServiceConstants, Proved!ArriveInvariant, Proved!StepInvariant,
     Proved!EnvironmentInvariant, Proved!CrashInvariant
<1>4. QED
  BY <1>3, SameInvariant

(***************************************************************************)
(* What a step of the service does to requests, tables and events.         *)
(***************************************************************************)
Late == {"commit", "reply", "done"}

\* A request that is done is so for good: no row disappears, and no cancelled
\* booking is confirmed again.
RowsStay ==
    \A b \in DOMAIN bookings :
        /\ b \in DOMAIN bookings'
        /\ bookings[b].status = "cancelled" => bookings'[b].status = "cancelled"

LEMMA RowsStayCommitted ==
    ASSUME Booking!IInv, NEW x \in Senders, pc[x] = "commit", Booking!Apply(x)
    PROVE  RowsStay
<1> DEFINE b == req[x].booking
           status == IF req[x].op = "create" THEN "confirmed" ELSE "cancelled"
<1>1. Proved!IInv /\ Proved!Apply(x)
  BY SameInvariant DEF Booking!Apply, Proved!Apply, Booking!Written, Proved!Written
<1>2. /\ req[x].op = "create" => b = x
      /\ req[x].op \in {"create", "cancel"}
      /\ DOMAIN bookings' = DOMAIN bookings \cup {b}
      /\ bookings'[b].status = status
      /\ \A c \in DOMAIN bookings \ {b} : bookings'[c] = bookings[c]
  BY <1>1, ServiceConstants, Proved!ApplyEffect
<1>3. x \notin DOMAIN bookings
  BY DEF Booking!IInv, Booking!RowsSettled
<1>4. QED
  BY <1>2, <1>3 DEF RowsStay

\* Requests go on, towards an answer; without failures an answer means that
\* what was asked for is done.
RequestsGoOn ==
    \A r \in Senders :
        /\ pc[r] # "new" => req'[r] = req[r]
        /\ pc[r] \in Late => pc'[r] \in Late
        /\ pc[r] \in Late /\ pc'[r] = "done" =>
               pc[r] \in {"reply", "done"} \/ faults' # 0

LEMMA AdvanceRequest ==
    ASSUME Booking!IInv, NEW x \in Senders, NEW label,
           pc[x] \notin Late \/ (label = "reply" /\ pc[x] = "commit")
               \/ (label = "done" /\ (pc[x] = "reply" \/ faults' # 0)),
           pc' = [pc EXCEPT ![x] = label],
           \A r \in Senders : pc[r] # "new" => req'[r] = req[r]
    PROVE  RequestsGoOn
<1>1. pc'[x] = label /\ \A r \in Senders : r # x => pc'[r] = pc[r]
  BY DEF Booking!IInv, Booking!TypeOK
<1>2. QED
  BY <1>1 DEF RequestsGoOn, Late

\* A fault is counted.
LEMMA FaultCounts ==
    ASSUME WorkerInv, Booking!Fault
    PROVE  faults' # 0
BY NotificationsAssumption DEF Booking!Fault, WorkerInv, TypeOK

\* The steps of a request other than its publish.
LEMMA ServiceStep ==
    ASSUME MailInv, NEW x \in Senders,
           \/ Work(x) \/ Booking!Arrive(x)
           \/ Booking!Fail(x) \/ Booking!CommitUnacknowledged(x)
    PROVE  RequestsGoOn /\ RowsStay /\ UNCHANGED published
<1> USE DEF Booking!Goto, Booking!Finish, Booking!dbVars
<1>0. Booking!IInv /\ WorkerInv
  BY DEF MailInv
<1>1. UNCHANGED bookings => RowsStay
  BY DEF RowsStay
<1>2. CASE Booking!Arrive(x)
  <2>1. /\ pc[x] = "new" /\ UNCHANGED <<bookings, published>>
        /\ \E label : pc' = [pc EXCEPT ![x] = label]
        /\ \A r \in Senders : r # x => req'[r] = req[r]
    <3>1. ASSUME NEW u, NEW route, NEW seat, Booking!RequestBooking(x, u, route, seat)
          PROVE  /\ pc[x] = "new" /\ UNCHANGED <<bookings, published>>
                 /\ \E label : pc' = [pc EXCEPT ![x] = label]
                 /\ \A r \in Senders : r # x => req'[r] = req[r]
      BY <1>0, <3>1 DEF Booking!RequestBooking, Booking!Reject, Booking!IInv, Booking!TypeOK
    <3>2. ASSUME NEW u, NEW b, Booking!RequestCancel(x, u, b)
          PROVE  /\ pc[x] = "new" /\ UNCHANGED <<bookings, published>>
                 /\ \E label : pc' = [pc EXCEPT ![x] = label]
                 /\ \A r \in Senders : r # x => req'[r] = req[r]
      BY <1>0, <3>2 DEF Booking!RequestCancel, Booking!Reject, Booking!IInv, Booking!TypeOK
    <3>3. QED
      BY <1>2, <3>1, <3>2 DEF Booking!Arrive
  <2>2. QED
    BY <1>0, <1>1, <2>1, AdvanceRequest DEF Late
<1>3. CASE Booking!Insert(x)
  BY <1>0, <1>1, <1>3, AdvanceRequest DEF Booking!Insert, Late
<1>4. CASE Booking!Confirm(x)
  BY <1>0, <1>1, <1>4, AdvanceRequest DEF Booking!Confirm, Late
<1>5. CASE Booking!UpdateStatus(x)
  BY <1>0, <1>1, <1>5, AdvanceRequest DEF Booking!UpdateStatus, Late
<1>6. CASE Booking!MarkFree(x)
  BY <1>0, <1>1, <1>6, AdvanceRequest DEF Booking!MarkFree, Late
<1>7. CASE Booking!Invalidate(x)
  BY <1>0, <1>1, <1>7, AdvanceRequest DEF Booking!Invalidate, Late
<1>8. CASE Booking!Reply(x)
  BY <1>0, <1>1, <1>8, AdvanceRequest DEF Booking!Reply
<1>9. CASE Booking!Fail(x)
  BY <1>0, <1>1, <1>9, AdvanceRequest, FaultCounts DEF Booking!Fail
<1>10. CASE Booking!Commit(x)
  BY <1>0, <1>10, AdvanceRequest, RowsStayCommitted DEF Booking!Commit, Booking!CanCommit
<1>11. CASE Booking!CommitUnacknowledged(x)
  BY <1>0, <1>11, AdvanceRequest, FaultCounts, RowsStayCommitted
     DEF Booking!CommitUnacknowledged, Booking!CanCommit
<1>12. QED
  BY <1>2, <1>3, <1>4, <1>5, <1>6, <1>7, <1>8, <1>9, <1>10, <1>11 DEF Work

(***************************************************************************)
(* Requests and their messages.                                            *)
(***************************************************************************)
MessagesStay ==
    \A m \in Messages : broker'[m] = "unpublished" <=> broker[m] = "unpublished"

\* A message that nobody publishes now says no less than before.
LEMMA SenderKept ==
    ASSUME MailInv, FaultsGoOn, RequestsGoOn, RowsStay, NEW r \in Senders,
           \A k \in Kinds : published[req[r].booking][k] > 0
                                => published'[req[r].booking][k] > 0,
           published'[r]["confirmed"] > 0 => published[r]["confirmed"] > 0,
           \A k \in Kinds : broker'[<<r, k>>] = "unpublished"
                                <=> broker[<<r, k>>] = "unpublished"
    PROVE  SenderShape(r)'
<1>1. Booking!IInv /\ WorkerInv /\ SenderShape(r)
  BY DEF MailInv
<1>2. ASSUME NEW k \in Kinds, broker'[<<r, k>>] # "unpublished"
      PROVE  /\ k = Booking!EventKind(r)'
             /\ req'[r].op # "none"
             /\ pc'[r] \in {"commit", "reply", "done"}
             /\ published'[req'[r].booking][k] > 0
             /\ pc'[r] = "done" /\ faults' = 0 => Done(r)'
  <2>1. /\ k = Booking!EventKind(r)
        /\ req[r].op # "none"
        /\ pc[r] \in Late
        /\ published[req[r].booking][k] > 0
        /\ pc[r] = "done" /\ faults = 0 => Done(r)
    BY <1>1, <1>2 DEF SenderShape, Late
  <2>2. req'[r] = req[r] /\ pc'[r] \in Late
    BY <2>1 DEF RequestsGoOn, Late
  <2>3. Booking!EventKind(r)' = Booking!EventKind(r)
    BY <2>2 DEF Booking!EventKind
  <2>4. ASSUME pc'[r] = "done", faults' = 0
        PROVE  Done(r)'
    <3>1. pc[r] \in {"reply", "done"} /\ faults = 0
      BY <1>1, <2>1, <2>4, NotificationsAssumption
         DEF RequestsGoOn, FaultsGoOn, WorkerInv, TypeOK
    <3>2. Done(r)
      BY <1>1, <2>1, <3>1 DEF Booking!IInv, Booking!RepliesHold, Done
    <3>3. req[r].op = "cancel" => req[r].booking \in DOMAIN bookings
      BY <1>1 DEF Booking!IInv, Booking!RequestShape
    <3>4. QED
      BY <2>2, <3>2, <3>3 DEF Done, RowsStay
  <2>5. QED
    BY <2>1, <2>2, <2>3, <2>4 DEF Late
<1>3. published'[r]["confirmed"] > 0 => broker'[<<r, "confirmed">>] # "unpublished"
  BY <1>1 DEF SenderShape, Kinds
<1>4. QED
  BY <1>2, <1>3 DEF SenderShape

\* The same of all requests and messages, when none is published.
LEMMA NothingPublished ==
    ASSUME MailInv, FaultsGoOn, RequestsGoOn, RowsStay, MessagesStay,
           UNCHANGED published
    PROVE  \A r \in Senders : SenderShape(r)'
BY SenderKept DEF MessagesStay, Messages

\* What a publish does to the count of events.
LEMMA EmitCounts ==
    ASSUME Booking!IInv, NEW x \in Senders, pc[x] = "publish", Booking!Emit(x)
    PROVE  /\ published'[req[x].booking][Booking!EventKind(x)] > 0
           /\ \A b \in Senders, k \in Kinds :
                  published[b][k] > 0 => published'[b][k] > 0
           /\ \A b \in Senders :
                  published'[b]["confirmed"] > 0 =>
                      \/ published[b]["confirmed"] > 0
                      \/ (b = x /\ Booking!EventKind(x) = "confirmed")
<1>1. Proved!IInv /\ Proved!Emit(x)
  BY SameInvariant DEF Booking!Emit, Proved!Emit, Booking!EventKind, Proved!EventKind
<1>2. /\ published' \in [Senders -> [Kinds -> Nat]]
      /\ \A b \in Senders, k \in Kinds : published'[b][k] >= published[b][k]
      /\ published'[req[x].booking][Booking!EventKind(x)] > 0
  BY <1>1, ServiceConstants, Proved!EmitEffect
     DEF Kinds, Proved!Kinds, Booking!EventKind, Proved!EventKind
<1>3. published \in [Senders -> [Kinds -> Nat]]
  BY DEF Booking!IInv, Booking!TypeOK, Booking!Kinds, Kinds
<1>4. ASSUME NEW b \in Senders, NEW k \in Kinds, published[b][k] > 0
      PROVE  published'[b][k] > 0
  <2>1. published[b][k] \in Nat /\ published'[b][k] \in Nat
    BY <1>2, <1>3
  <2>2. published'[b][k] >= published[b][k]
    BY <1>2
  <2>3. QED
    BY <1>4, <2>1, <2>2
<1>5. ASSUME NEW b \in Senders, published'[b]["confirmed"] > 0,
             ~(b = x /\ Booking!EventKind(x) = "confirmed")
      PROVE  published[b]["confirmed"] > 0
  <2>1. Booking!EventKind(x) = "confirmed" => req[x].booking = x
    BY DEF Booking!EventKind, Booking!IInv, Booking!RequestShape
  <2>2. published'[b]["confirmed"] = published[b]["confirmed"]
    BY <1>3, <1>5, <2>1 DEF Booking!Emit, Kinds
  <2>3. QED
    BY <1>5, <2>2
<1>6. QED
  BY <1>2, <1>4, <1>5

\* The publish of a request puts its message into a queue.
LEMMA SendStep ==
    ASSUME MailInv, FaultsGoOn, NEW x \in Senders, Send(x)
    PROVE  \A r \in Senders : SenderShape(r)'
<1> DEFINE kind == Booking!EventKind(x)
<1>1. Booking!IInv /\ WorkerInv
  BY DEF MailInv
<1>2. /\ pc[x] = "publish" /\ Booking!Emit(x) /\ UNCHANGED <<bookings, req>>
      /\ \E label : /\ pc' = [pc EXCEPT ![x] = label]
                    /\ label = "commit" \/ (label = "done" /\ faults' # 0)
  BY <1>1, FaultCounts
     DEF Send, Booking!Publish, Booking!PublishUnacknowledged, Booking!Goto,
         Booking!Finish, Booking!dbVars
<1>3. kind \in Kinds /\ broker' = [broker EXCEPT ![<<x, kind>>] = "ready"]
  BY DEF Send, Enqueue, Booking!EventKind, Kinds
<1>4. broker \in [Messages -> {"unpublished", "ready", "unacked", "dead"} \cup Settled]
  BY <1>1 DEF WorkerInv, TypeOK
<1>5. \A r \in Senders, k \in Kinds :
          broker'[<<r, k>>] = IF r = x /\ k = kind THEN "ready" ELSE broker[<<r, k>>]
  BY <1>3, <1>4 DEF Messages
<1>6. RequestsGoOn /\ RowsStay
  BY <1>1, <1>2, AdvanceRequest DEF RowsStay, Late
<1>7. \A r \in Senders : req[r].op # "none" => req[r].booking \in Senders
  BY <1>1 DEF Booking!IInv, Booking!TypeOK, Booking!Request, Booking!RequestShape
<1>8. SenderShape(x)'
  <2>1. /\ req[x].op # "none" /\ pc'[x] \in {"commit", "done"}
        /\ pc'[x] = "done" => faults' # 0
    BY <1>1, <1>2 DEF Booking!IInv, Booking!TypeOK, Booking!SessionShape, Booking!InFlight
  <2>2. \A k \in Kinds : broker'[<<x, k>>] # "unpublished" => k = kind
    BY <1>2, <1>5 DEF MailInv, SenderShape
  <2>3. published'[req[x].booking][kind] > 0
    BY <1>1, <1>2, EmitCounts
  <2>4. Booking!EventKind(x)' = kind
    BY <1>2 DEF Booking!EventKind
  <2>5. published'[x]["confirmed"] > 0 => broker'[<<x, "confirmed">>] # "unpublished"
    BY <1>1, <1>2, <1>5, EmitCounts DEF MailInv, SenderShape, Kinds
  <2>6. QED
    BY <1>2, <2>1, <2>2, <2>3, <2>4, <2>5 DEF SenderShape
<1>9. ASSUME NEW r \in Senders, r # x PROVE SenderShape(r)'
  <2>1. \A k \in Kinds : broker'[<<r, k>>] = broker[<<r, k>>]
    BY <1>5, <1>9
  <2>2. published'[r]["confirmed"] > 0 => published[r]["confirmed"] > 0
    BY <1>1, <1>2, <1>9, EmitCounts
  <2>3. CASE req[r].op = "none"
    <3>1. \A k \in Kinds : broker'[<<r, k>>] = "unpublished"
      BY <2>1, <2>3 DEF MailInv, SenderShape
    <3>2. QED
      BY <2>1, <2>2, <3>1 DEF MailInv, SenderShape, Kinds
  <2>4. CASE req[r].op # "none"
    <3>1. req[r].booking \in Senders
      BY <1>7, <2>4
    <3>2. \A k \in Kinds : published[req[r].booking][k] > 0
                               => published'[req[r].booking][k] > 0
      BY <1>1, <1>2, <3>1, EmitCounts
    <3>3. QED
      BY <1>6, <2>1, <2>2, <3>2, SenderKept
  <2>5. QED
    BY <2>3, <2>4
<1>10. QED
  BY <1>8, <1>9

(***************************************************************************)
(* The worker.                                                             *)
(***************************************************************************)
\* Nobody runs for a message that nobody has published.
LEMMA NoRunYet ==
    ASSUME MailInv, NEW x \in Runs, broker[x[1]] = "unpublished"
    PROVE  stage[x] = "none"
<1>1. PICK m \in Messages, i \in 0..MaxFaults : x = <<m, i>>
  BY DEF Runs
<1>2. redelivered[m] = 0 /\ DeliveryShape(m)
  BY <1>1 DEF MailInv, Untouched, WorkerInv
<1>3. CASE i = 0
  BY <1>1, <1>2, <1>3 DEF DeliveryShape, CurrentRun
<1>4. CASE i # 0
  <2>1. i > 0
    BY <1>4
  <2>2. QED
    BY <1>1, <1>2, <2>1 DEF DeliveryShape
<1>5. QED
  BY <1>3, <1>4

\* What leaves an unpublished message as it is.
LEMMA UntouchedKept ==
    ASSUME MailInv,
           \A m \in Messages : broker'[m] = "unpublished" =>
               /\ broker[m] = "unpublished"
               /\ redelivered'[m] = redelivered[m] /\ emails'[m] = emails[m]
    PROVE  \A m \in Messages : Untouched(m)'
BY DEF MailInv, Untouched

\* The steps of the worker and of RabbitMQ leave it so.
LEMMA WorkerKeepsUnpublished ==
    ASSUME MailInv, WorkerStep \/ Crash
    PROVE  MessagesStay /\ \A m \in Messages : Untouched(m)'
<1>1. /\ broker \in [Messages -> {"unpublished", "ready", "unacked", "dead"} \cup Settled]
      /\ redelivered \in [Messages -> 0..MaxFaults]
      /\ emails \in [Messages -> Nat]
  BY DEF MailInv, WorkerInv, TypeOK
<1>2. ASSUME NEW m \in Messages, Transport(m)
      PROVE  MessagesStay /\ UNCHANGED <<redelivered, emails>>
  BY <1>1, <1>2 DEF Transport, Deliver, LogDeadLetter, MessagesStay
<1>3. ASSUME NEW x \in Runs, Handle(x) \/ SendUnacknowledged(x)
      PROVE  /\ MessagesStay /\ UNCHANGED redelivered
             /\ \A m \in Messages : broker[m] = "unpublished" => emails'[m] = emails[m]
  <2>1. x[1] \in Messages /\ broker[x[1]] # "unpublished"
    <3>1. stage[x] # "none"
      BY <1>3 DEF Handle, SendSucceeds, SendFails, AttemptFailed, Retry, Ack, Reject,
                  SendUnacknowledged
    <3>2. QED
      BY <3>1, NoRunYet DEF Runs
  <2>2. CASE Ack(x) \/ Reject(x)
    <3>1. \E outcome \in Settled \cup {"dead"} : Settle(x, outcome)
      BY <2>2 DEF Ack, Reject, Settled
    <3>2. MessagesStay
      BY <1>1, <2>1, <3>1 DEF Settle, MessagesStay, Settled
    <3>3. QED
      BY <2>2, <3>2 DEF Ack, Reject
  <2>3. CASE SendSucceeds(x) \/ SendFails(x) \/ Retry(x) \/ SendUnacknowledged(x)
    BY <1>1, <2>1, <2>3 DEF SendSucceeds, SendFails, AttemptFailed, Retry,
                            SendUnacknowledged, MessagesStay
  <2>4. QED
    BY <1>3, <2>2, <2>3 DEF Handle
<1>4. ASSUME Requeue
      PROVE  MessagesStay /\ \A m \in Messages :
                 broker[m] = "unpublished" => redelivered'[m] = redelivered[m]
  BY <1>4 DEF Requeue, MessagesStay
<1>5. CASE BrokerRestart
  BY <1>5, UntouchedKept DEF BrokerRestart, MessagesStay
<1>6. CASE ConnectionLost \/ Crash
  BY <1>4, <1>6, UntouchedKept DEF ConnectionLost, Crash, MessagesStay
<1>7. CASE \E m \in Messages : Transport(m)
  BY <1>2, <1>7, UntouchedKept DEF MessagesStay
<1>8. CASE \E x \in Runs : Handle(x) \/ SendUnacknowledged(x)
  BY <1>3, <1>8, UntouchedKept DEF MessagesStay
<1>9. QED
  BY <1>5, <1>6, <1>7, <1>8 DEF WorkerStep

\* They count their faults.
LEMMA WorkerFaults ==
    ASSUME WorkerInv, WorkerStep \/ Crash
    PROVE  FaultsGoOn
<1>1. faults \in 0..MaxFaults /\ MaxFaults \in Nat
  BY NotificationsAssumption DEF WorkerInv, TypeOK
<1>2. faults' = faults \/ Fault
  BY DEF WorkerStep, Transport, Deliver, LogDeadLetter, Handle, SendSucceeds,
         SendFails, Retry, Ack, Reject, SendUnacknowledged, ConnectionLost,
         BrokerRestart, Crash
<1>3. QED
  BY <1>1, <1>2 DEF Fault, FaultsGoOn

(***************************************************************************)
(* Both parts together.                                                    *)
(***************************************************************************)
\* Steps beside the bookings keep their invariant: they may count a fault.
LEMMA BookingsUntouched ==
    ASSUME Booking!IInv, UNCHANGED bookingVars, faults' \in 0..MaxFaults
    PROVE  Booking!IInv'
BY DEF bookingVars, Booking!IInv, Booking!TypeOK, Booking!SessionShape,
       Booking!RequestShape, Booking!RowsSettled, Booking!RepliesHold,
       Booking!InsertsExclusive, Booking!LocksExclusive, Booking!Inserted,
       Booking!RowsOn, Booking!FreedAlready, Booking!PublishedBeforeCommit,
       Booking!EventKind, Booking!OneRowPerSeat, Booking!SeatFlagAgrees,
       Booking!AnnouncedBeforeVisible, Booking!AnswersAreDurable

\* Where nothing of the bookings changes, requests are as they were.
LEMMA RequestsUntouched ==
    ASSUME UNCHANGED bookingVars
    PROVE  RequestsGoOn /\ RowsStay /\ UNCHANGED published
BY DEF bookingVars, RequestsGoOn, RowsStay

\* A step of a request.
LEMMA BookingStepInvariant ==
    ASSUME MailInv, WorkerInv', NEW x \in Senders, BookingStep(x) \/ Send(x)
    PROVE  MailInv'
<1>1. Booking!IInv /\ WorkerInv
  BY DEF MailInv
<1>2. FaultsGoOn
  BY <1>1, BookingFaults DEF BookingStep, Send
<1>3. Booking!IInv'
  <2>1. Work(x) \/ Booking!Publish(x) => Booking!Step(x)
    BY DEF Work, Booking!Step
  <2>2. Booking!Arrive(x) \/ Booking!Step(x) \/ Booking!Environment(x)
    BY <2>1 DEF BookingStep, Send, Booking!Environment
  <2>3. QED
    BY <1>1, <2>2, BookingsGoOn
<1>4. CASE BookingStep(x)
  <2>1. MessagesStay /\ \A m \in Messages : Untouched(m)'
    BY <1>4, UntouchedKept DEF BookingStep, mailVars, MessagesStay
  <2>2. RequestsGoOn /\ RowsStay /\ UNCHANGED published
    BY <1>4, ServiceStep DEF BookingStep
  <2>3. QED
    BY <1>2, <1>3, <2>1, <2>2, NothingPublished DEF MailInv
<1>5. CASE Send(x)
  <2>1. \A m \in Messages : Untouched(m)'
    <3>1. broker \in [Messages -> {"unpublished", "ready", "unacked", "dead"} \cup Settled]
      BY <1>1 DEF WorkerInv, TypeOK
    <3>2. QED
      BY <1>5, <3>1, UntouchedKept DEF Send, Enqueue
  <2>2. QED
    BY <1>2, <1>3, <1>5, <2>1, SendStep DEF MailInv
<1>6. QED
  BY <1>4, <1>5

\* A step of the worker or of RabbitMQ.
LEMMA WorkerStepInvariant ==
    ASSUME MailInv, WorkerInv', (WorkerStep \/ Crash) /\ UNCHANGED bookingVars
    PROVE  MailInv'
<1>1. FaultsGoOn
  BY WorkerFaults DEF MailInv
<1>2. Booking!IInv'
  BY <1>1, BookingsUntouched DEF MailInv, FaultsGoOn
<1>3. MessagesStay /\ \A m \in Messages : Untouched(m)'
  BY WorkerKeepsUnpublished
<1>4. QED
  BY <1>1, <1>2, <1>3, RequestsUntouched, NothingPublished DEF MailInv

\* The death of the process, with both parts or with one that is at work.
LEMMA ProcessCrashInvariant ==
    ASSUME MailInv, WorkerInv', ProcessCrash
    PROVE  MailInv'
<1>1. Booking!IInv /\ WorkerInv
  BY DEF MailInv
<1>2. CASE Booking!Crash
  <2>1. Booking!IInv'
    BY <1>1, <1>2, BookingsGoOn
  <2>2. FaultsGoOn /\ faults' # 0
    <3>1. Booking!Fault
      BY <1>2 DEF Booking!Crash
    <3>2. QED
      BY <1>1, <3>1, FaultCounts, NotificationsAssumption
         DEF Booking!Fault, FaultsGoOn, WorkerInv, TypeOK
  <2>3. RequestsGoOn /\ RowsStay /\ UNCHANGED published
    BY <1>2, <2>2 DEF Booking!Crash, Booking!dbVars, Booking!InFlight, RequestsGoOn,
                      RowsStay, Late
  <2>4. MessagesStay /\ \A m \in Messages : Untouched(m)'
    <3>1. CASE Crash
      BY <3>1, WorkerKeepsUnpublished
    <3>2. CASE UNCHANGED mailVars
      BY <3>2, UntouchedKept DEF mailVars, MessagesStay
    <3>3. QED
      BY <1>2, <3>1, <3>2 DEF ProcessCrash
  <2>5. QED
    BY <2>1, <2>2, <2>3, <2>4, NothingPublished DEF MailInv
<1>3. CASE Crash /\ UNCHANGED bookingVars
  BY <1>3, WorkerStepInvariant
<1>4. QED
  BY <1>2, <1>3 DEF ProcessCrash

\* Nothing has been asked or published at the start.
LEMMA MailInitInvariant == MailInit => MailInv
<1> SUFFICES ASSUME MailInit PROVE MailInv
  OBVIOUS
<1>1. Booking!IInv
  <2>1. Proved!Init
    BY SameSteps DEF MailInit
  <2>2. Proved!IInv
    BY <2>1, ServiceConstants, Proved!InitInvariant
  <2>3. QED
    BY <2>2, SameInvariant
<1>2. WorkerInv
  BY StartOfWorker DEF MailInit
<1>3. \A r \in Senders : SenderShape(r)
  BY DEF MailInit, Init, Booking!Init, SenderShape, Messages, Kinds, Booking!Kinds
<1>4. \A m \in Messages : Untouched(m)
  BY DEF MailInit, Init, Untouched
<1>5. QED
  BY <1>1, <1>2, <1>3, <1>4 DEF MailInv

\* The inductive invariant of both parts.
THEOREM CustomerMailInvariant == MailSpec => []MailInv
<1>1. MailInv /\ WorkerInv' /\ [MailNext]_mailAllVars => MailInv'
  <2> SUFFICES ASSUME MailInv, WorkerInv', [MailNext]_mailAllVars
               PROVE  MailInv'
    OBVIOUS
  <2>1. CASE UNCHANGED mailAllVars
    <3>1. FaultsGoOn /\ UNCHANGED bookingVars
      BY <2>1, NotificationsAssumption
         DEF mailAllVars, FaultsGoOn, MailInv, WorkerInv, TypeOK
    <3>2. Booking!IInv'
      BY <3>1, BookingsUntouched DEF MailInv, FaultsGoOn
    <3>3. MessagesStay /\ \A m \in Messages : Untouched(m)'
      BY <2>1, UntouchedKept DEF mailAllVars, mailVars, MessagesStay
    <3>4. QED
      BY <3>1, <3>2, <3>3, RequestsUntouched, NothingPublished DEF MailInv
  <2>2. CASE Idle /\ UNCHANGED added /\ Booking!AllDone
    BY <2>1, <2>2 DEF Idle, vars, Booking!AllDone, Booking!vars, mailAllVars,
                      mailVars, bookingVars
  <2>3. QED
    BY <2>1, <2>2, BookingStepInvariant, WorkerStepInvariant, ProcessCrashInvariant
       DEF MailNext, WorkerStep
<1>2. QED
  BY <1>1, MailInitInvariant, MailInvariant, PTL DEF MailSpec

(***************************************************************************)
(* The ledger of the whole process.                                        *)
(***************************************************************************)
\* Request r has told RabbitMQ of the booking and kind e.
Tells(r, e) ==
    /\ req[r].op # "none"
    /\ req[r].booking = e[1]
    /\ broker[<<r, e[2]>>] # "unpublished"

\* Every event that was published is one that RabbitMQ was told of.
PublishedIsTold ==
    \A e \in Senders \X Kinds :
        published[e[1]][e[2]] > 0 => \E r \in Senders : Tells(r, e)

\* So RabbitMQ was told of what the handlers have published, and of no more.
SentAgrees == Sent = Booking!Announced

LEMMA SentIsPublished == MailInv /\ PublishedIsTold => SentAgrees
<1> SUFFICES ASSUME MailInv, PublishedIsTold PROVE Sent = Booking!Announced
  BY DEF SentAgrees
<1>1. Sent = {e \in Senders \X Kinds : \E r \in Senders : Tells(r, e)}
  BY DEF Sent, Tells
<1>2. Booking!Announced = {e \in Senders \X Kinds : published[e[1]][e[2]] > 0}
  BY DEF Booking!Announced, Booking!Kinds, Kinds
<1>3. ASSUME NEW e \in Senders \X Kinds, NEW r \in Senders, Tells(r, e)
      PROVE  published[e[1]][e[2]] > 0
  BY <1>3 DEF MailInv, SenderShape, Tells
<1>4. QED
  BY <1>1, <1>2, <1>3 DEF PublishedIsTold

\* Nothing that RabbitMQ was told is taken back.
LEMMA TellsStill ==
    ASSUME MailInv, RequestsGoOn, NEW r \in Senders, NEW e \in Senders \X Kinds,
           Tells(r, e), broker'[<<r, e[2]>>] # "unpublished"
    PROVE  Tells(r, e)'
<1>1. pc[r] # "new"
  BY DEF MailInv, SenderShape, Tells
<1>2. req'[r] = req[r]
  BY <1>1 DEF RequestsGoOn
<1>3. QED
  BY <1>2 DEF Tells

\* A step that publishes nothing.
LEMMA ToldKept ==
    ASSUME MailInv, PublishedIsTold, RequestsGoOn, MessagesStay, UNCHANGED published
    PROVE  PublishedIsTold'
<1> SUFFICES ASSUME NEW e \in Senders \X Kinds, published'[e[1]][e[2]] > 0
             PROVE  \E r \in Senders : Tells(r, e)'
  BY DEF PublishedIsTold
<1>1. PICK r \in Senders : Tells(r, e)
  BY DEF PublishedIsTold
<1>2. <<r, e[2]>> \in Messages
  BY DEF Messages
<1>3. broker'[<<r, e[2]>>] # "unpublished"
  BY <1>1, <1>2 DEF MessagesStay, Tells
<1>4. QED
  BY <1>1, <1>3, TellsStill

\* A step that publishes.
LEMMA ToldBySend ==
    ASSUME MailInv, PublishedIsTold, NEW x \in Senders, Send(x)
    PROVE  PublishedIsTold'
<1> DEFINE kind == Booking!EventKind(x)
           b == req[x].booking
<1>1. Booking!IInv /\ WorkerInv
  BY DEF MailInv
<1>2. /\ pc[x] = "publish" /\ Booking!Emit(x) /\ UNCHANGED <<bookings, req>>
      /\ \E label : /\ pc' = [pc EXCEPT ![x] = label]
                    /\ label = "commit" \/ (label = "done" /\ faults' # 0)
  BY <1>1, FaultCounts
     DEF Send, Booking!Publish, Booking!PublishUnacknowledged, Booking!Goto,
         Booking!Finish, Booking!dbVars
<1>3. kind \in Kinds /\ broker' = [broker EXCEPT ![<<x, kind>>] = "ready"]
  BY DEF Send, Enqueue, Booking!EventKind, Kinds
<1>4. \A m \in Messages :
          broker'[m] = IF m = <<x, kind>> THEN "ready" ELSE broker[m]
  BY <1>1, <1>3 DEF WorkerInv, TypeOK
<1>5. RequestsGoOn
  BY <1>1, <1>2, AdvanceRequest DEF Late
<1>6. /\ req'[x].op # "none" /\ req'[x].booking = b /\ b \in Senders
      /\ published \in [Senders -> [Kinds -> Nat]]
  BY <1>1, <1>2 DEF Booking!IInv, Booking!TypeOK, Booking!Request, Booking!InFlight,
                    Booking!RequestShape, Booking!SessionShape, Booking!Kinds, Kinds
<1>7. SUFFICES ASSUME NEW e \in Senders \X Kinds, published'[e[1]][e[2]] > 0
               PROVE  \E r \in Senders : Tells(r, e)'
  BY DEF PublishedIsTold
<1>8. CASE e = <<b, kind>>
  <2>1. <<x, e[2]>> = <<x, kind>> /\ <<x, kind>> \in Messages
    BY <1>3, <1>8 DEF Messages
  <2>2. Tells(x, e)'
    BY <1>4, <1>6, <1>8, <2>1 DEF Tells
  <2>3. QED
    BY <2>2
<1>9. CASE e # <<b, kind>>
  <2>1. e[1] # b \/ e[2] # kind
    BY <1>9
  <2>2. published'[e[1]][e[2]] = published[e[1]][e[2]]
    BY <1>2, <1>6, <2>1 DEF Booking!Emit
  <2>3. PICK r \in Senders : Tells(r, e)
    BY <1>7, <2>2 DEF PublishedIsTold
  <2>4. <<r, e[2]>> \in Messages /\ broker[<<r, e[2]>>] # "unpublished"
    BY <2>3 DEF Messages, Tells
  <2>5. broker'[<<r, e[2]>>] # "unpublished"
    BY <1>4, <2>4
  <2>6. QED
    BY <1>5, <2>3, <2>5, TellsStill
<1>10. QED
  BY <1>8, <1>9

\* Steps beside the bookings.
LEMMA ToldBeside ==
    ASSUME MailInv, PublishedIsTold, UNCHANGED bookingVars, MessagesStay
    PROVE  PublishedIsTold'
BY RequestsUntouched, ToldKept

LEMMA ToldStep == MailInv /\ PublishedIsTold /\ [MailNext]_mailAllVars => PublishedIsTold'
<1> SUFFICES ASSUME MailInv, PublishedIsTold, [MailNext]_mailAllVars
             PROVE  PublishedIsTold'
  OBVIOUS
<1>1. Booking!IInv /\ WorkerInv
  BY DEF MailInv
<1>2. CASE UNCHANGED mailAllVars
  BY <1>2, ToldBeside DEF mailAllVars, mailVars, MessagesStay
<1>3. ASSUME NEW r \in Senders, BookingStep(r)
      PROVE  PublishedIsTold'
  <2>1. RequestsGoOn /\ UNCHANGED published
    BY <1>3, ServiceStep DEF BookingStep
  <2>2. MessagesStay
    BY <1>3 DEF BookingStep, mailVars, MessagesStay
  <2>3. QED
    BY <2>1, <2>2, ToldKept
<1>4. ASSUME NEW r \in Senders, Send(r)
      PROVE  PublishedIsTold'
  BY <1>4, ToldBySend
<1>5. CASE WorkerStep
  BY <1>5, WorkerKeepsUnpublished, ToldBeside DEF WorkerStep
<1>6. CASE ProcessCrash
  <2>1. MessagesStay
    BY <1>6, WorkerKeepsUnpublished DEF ProcessCrash, mailVars, MessagesStay
  <2>2. CASE Booking!Crash
    <3>1. RequestsGoOn /\ UNCHANGED published
      BY <1>1, <2>2, FaultCounts
         DEF Booking!Crash, Booking!dbVars, Booking!InFlight, RequestsGoOn, Late
    <3>2. QED
      BY <2>1, <3>1, ToldKept
  <2>3. CASE UNCHANGED bookingVars
    BY <2>1, <2>3, ToldBeside
  <2>4. QED
    BY <1>6, <2>2, <2>3 DEF ProcessCrash
<1>7. CASE Booking!AllDone /\ Idle /\ UNCHANGED added
  BY <1>2, <1>7 DEF Idle, vars, Booking!AllDone, Booking!vars, mailAllVars,
                    mailVars, bookingVars
<1>8. QED
  BY <1>2, <1>3, <1>4, <1>5, <1>6, <1>7 DEF MailNext

LEMMA PublishedAlwaysTold == MailSpec => []PublishedIsTold
<1>1. MailInit => PublishedIsTold
  BY DEF MailInit, Booking!Init, PublishedIsTold, Booking!Kinds, Kinds
<1>2. QED
  BY <1>1, ToldStep, CustomerMailInvariant, PTL DEF MailSpec

\* A step of the process is one of the service, or leaves the bookings alone.
LEMMA StepOfTheService ==
    ASSUME [MailNext]_mailAllVars
    PROVE  [Proved!Next]_(Proved!vars) \/ UNCHANGED <<bookings, published>>
<1>1. CASE UNCHANGED mailAllVars \/ WorkerStep
  BY <1>1 DEF mailAllVars, bookingVars, WorkerStep
<1>2. ASSUME NEW r \in Senders, BookingStep(r) \/ Send(r)
      PROVE  Proved!Next
  <2>1. Booking!Arrive(r) \/ Booking!Step(r) \/ Booking!Environment(r)
    BY <1>2 DEF BookingStep, Send, Work, Booking!Step, Booking!Environment
  <2>2. QED
    BY <2>1, SameSteps DEF Proved!Next
<1>3. CASE ProcessCrash
  <2>1. Booking!Crash => Proved!Next
    BY SameSteps DEF Proved!Next
  <2>2. QED
    BY <1>3, <2>1 DEF ProcessCrash, bookingVars
<1>4. CASE Booking!AllDone
  BY <1>4 DEF Booking!AllDone, Booking!vars
<1>5. QED
  BY <1>1, <1>2, <1>3, <1>4 DEF MailNext

\* What RabbitMQ was told of names the same ledger as what was published.
LEMMA SameLedger ==
    /\ Proved!SeatsHeld = Booking!SeatsHeld
    /\ Proved!Announced = Booking!Announced
    /\ (Proved!SeatsHeld)' = (Booking!SeatsHeld)'
    /\ (Proved!Announced)' = (Booking!Announced)'
BY DEF Proved!SeatsHeld, Booking!SeatsHeld, Proved!Announced, Booking!Announced,
       Proved!LedgerEntry, Booking!LedgerEntry, Proved!RowsOn, Booking!RowsOn,
       Proved!Kinds, Booking!Kinds

LEMMA SentLedgerInit == MailInit => SentLedger!Init
<1> SUFFICES ASSUME MailInit PROVE SentLedger!Init
  OBVIOUS
<1>1. Proved!Ledger!Init
  BY SameSteps, ServiceConstants, Proved!LedgerInit DEF MailInit
<1>2. Sent = {}
  BY DEF MailInit, Booking!Init, Booking!NoRequest, Sent
<1>3. QED
  BY <1>1, <1>2, SameLedger
     DEF Proved!Ledger!Init, SentLedger!Init, Proved!Ledger!Free, SentLedger!Free

LEMMA SentLedgerStep ==
    MailInv /\ SentAgrees /\ SentAgrees' /\ [MailNext]_mailAllVars
        => [SentLedger!Next]_(SentLedger!vars)
<1> SUFFICES ASSUME MailInv, SentAgrees, SentAgrees', [MailNext]_mailAllVars
             PROVE  [SentLedger!Next]_(SentLedger!vars)
  OBVIOUS
<1> USE DEF SentAgrees
<1>1. CASE UNCHANGED <<bookings, published>>
  BY <1>1, SameLedger
     DEF SentLedger!vars, Booking!SeatsHeld, Booking!Announced, Booking!LedgerEntry,
         Booking!RowsOn
<1>2. CASE [Proved!Next]_(Proved!vars)
  <2>1. Proved!IInv
    BY SameInvariant DEF MailInv
  <2>2. [Proved!Ledger!Next]_(Proved!Ledger!vars)
    BY <1>2, <2>1, ServiceConstants, Proved!LedgerStep
  <2>3. QED
    BY <2>2, SameLedger
       DEF Proved!Ledger!Next, SentLedger!Next, Proved!Ledger!vars, SentLedger!vars,
           Proved!Ledger!Announce, SentLedger!Announce, Proved!Ledger!Hold,
           SentLedger!Hold, Proved!Ledger!Release, SentLedger!Release,
           Proved!Ledger!Free, SentLedger!Free
<1>3. QED
  BY <1>1, <1>2, StepOfTheService

\* The process of the service and the worker implements the ledger of seats,
\* with what RabbitMQ was given as its announcements: a message that is routed,
\* lost or handled twice changes nothing that was promised of a seat, and no
\* seat is held or released before RabbitMQ has the message.
THEOREM ProcessImplementsLedger == MailSpec => MailImplementsLedger
BY PublishedAlwaysTold, SentLedgerStep, SentIsPublished, SentLedgerInit, CustomerMailInvariant, PTL
     DEF MailSpec, MailImplementsLedger, SentLedger!Spec

\* The bookings stay correct in a process that also runs the worker: no double
\* booking, no flag that disagrees, no event that is missing.
THEOREM BookingsStayCorrect == MailSpec => []Booking!IInv
<1>1. MailInv => Booking!IInv
  BY DEF MailInv
<1>2. QED
  BY <1>1, CustomerMailInvariant, PTL

\* Nobody is told of a cancellation whose confirmation was not published
\* before, whatever fails, however often messages are delivered.
THEOREM CancellationsFollow == MailSpec => []CancellationFollowsConfirmation
<1>1. MailInv => CancellationFollowsConfirmation
  <2> SUFFICES ASSUME MailInv, NEW r \in Senders, emails[<<r, "cancelled">>] > 0
               PROVE  broker[<<req[r].booking, "confirmed">>] # "unpublished"
    BY DEF CancellationFollowsConfirmation
  <2>1. <<r, "cancelled">> \in Messages /\ "cancelled" \in Kinds
    BY DEF Messages, Kinds
  <2>2. broker[<<r, "cancelled">>] # "unpublished"
    BY <2>1 DEF MailInv, Untouched
  <2>3. /\ req[r].op # "none" /\ published[req[r].booking]["cancelled"] > 0
    BY <2>1, <2>2 DEF MailInv, SenderShape
  <2>4. req[r].booking \in Senders
    BY <2>3 DEF MailInv, Booking!IInv, Booking!TypeOK, Booking!Request,
                Booking!RequestShape
  <2>5. published[req[r].booking]["confirmed"] > 0
    BY <2>3, <2>4 DEF MailInv, Booking!IInv, Booking!AnnouncedBeforeVisible
  <2>6. QED
    BY <2>4, <2>5 DEF MailInv, SenderShape
<1>2. QED
  BY <1>1, CustomerMailInvariant, PTL

\* The e-mail is sent from an event that precedes the commit; as long as
\* nothing fails it tells the truth once its request is answered.
THEOREM MailsTellTheTruth == MailSpec => []MailTellsTheTruth
<1>1. MailInv => MailTellsTheTruth
  <2> SUFFICES ASSUME MailInv, NEW r \in Senders, faults = 0, pc[r] = "done"
               PROVE  /\ emails[<<r, "confirmed">>] > 0 => r \in DOMAIN bookings
                      /\ emails[<<r, "cancelled">>] > 0 =>
                             bookings[req[r].booking].status = "cancelled"
    BY DEF MailTellsTheTruth
  <2>1. ASSUME NEW k \in Kinds, emails[<<r, k>>] > 0
        PROVE  k = Booking!EventKind(r) /\ req[r].op # "none" /\ Done(r)
    <3>1. <<r, k>> \in Messages
      BY DEF Messages
    <3>2. broker[<<r, k>>] # "unpublished"
      BY <2>1, <3>1 DEF MailInv, Untouched
    <3>3. QED
      BY <3>2 DEF MailInv, SenderShape
  <2>2. req[r].op \in {"none", "create", "cancel"}
    BY DEF MailInv, Booking!IInv, Booking!TypeOK, Booking!Request
  <2>3. QED
    BY <2>1, <2>2 DEF Kinds, Booking!EventKind, Done
<1>2. QED
  BY <1>1, CustomerMailInvariant, PTL

(***************************************************************************)
(* The customers.                                                          *)
(***************************************************************************)
OnTheWay == {"ready", "unacked", "dead"}

\* The message of r is on the way to its customer, or has come to an end.
Noticed(r, kind) == Told(r, kind) \/ broker[<<r, kind>>] \in OnTheWay

\* RabbitMQ has, or had, a message of every committed booking, and of every
\* cancelled one: it was given to a customer, given up after all attempts or
\* lost by RabbitMQ, or it is still being worked on.
NobodyIsForgotten ==
    \A b \in DOMAIN bookings :
        /\ Noticed(b, "confirmed")
        /\ bookings[b].status = "cancelled" =>
               \E r \in Senders : req[r].booking = b /\ Noticed(r, "cancelled")

\* What has been published is worked on or settled, and acknowledged only if
\* the e-mail was sent.
LEMMA PublishedIsNoticed ==
    ASSUME MailInv, NEW r \in Senders, NEW kind \in Kinds,
           broker[<<r, kind>>] # "unpublished"
    PROVE  Noticed(r, kind)
<1>1. <<r, kind>> \in Messages
  BY DEF Messages
<1>2. broker[<<r, kind>>] \in {"ready", "unacked", "dead"} \cup Settled
  BY <1>1 DEF MailInv, WorkerInv, TypeOK
<1>3. broker[<<r, kind>>] = "acked" => emails[<<r, kind>>] > 0
  BY <1>1 DEF MailInv, WorkerInv, ForgottenWithReason
<1>4. QED
  BY <1>2, <1>3 DEF Noticed, Told, OnTheWay, Settled

LEMMA NoticedWhenPublished == MailInv /\ PublishedIsTold => NobodyIsForgotten
<1> SUFFICES ASSUME MailInv, PublishedIsTold, NEW b \in DOMAIN bookings
             PROVE  /\ Noticed(b, "confirmed")
                    /\ bookings[b].status = "cancelled" =>
                           \E r \in Senders : req[r].booking = b /\ Noticed(r, "cancelled")
  BY DEF NobodyIsForgotten
<1>1. b \in Senders /\ "confirmed" \in Kinds /\ "cancelled" \in Kinds
  BY DEF MailInv, Booking!IInv, Booking!TypeOK, Kinds
<1>2. /\ published[b]["confirmed"] > 0
      /\ bookings[b].status = "cancelled" => published[b]["cancelled"] > 0
  BY DEF MailInv, Booking!IInv, Booking!AnnouncedBeforeVisible
<1>3. Noticed(b, "confirmed")
  BY <1>1, <1>2, PublishedIsNoticed DEF MailInv, SenderShape
<1>4. ASSUME bookings[b].status = "cancelled"
      PROVE  \E r \in Senders : req[r].booking = b /\ Noticed(r, "cancelled")
  <2>1. <<b, "cancelled">> \in Senders \X Kinds
    BY <1>1
  <2>2. PICK r \in Senders : Tells(r, <<b, "cancelled">>)
    BY <1>2, <1>4, <2>1 DEF PublishedIsTold
  <2>3. QED
    BY <1>1, <2>2, PublishedIsNoticed DEF Tells
<1>5. QED
  BY <1>3, <1>4

\* No booking is committed, and none cancelled, without its message in RabbitMQ,
\* in every order of handlers and workers, crash, redelivery and restart: the
\* mailer can only fail by its own attempts or by RabbitMQ's loss.
THEOREM EveryBookingIsNoticed == MailSpec => []NobodyIsForgotten
BY PublishedAlwaysTold, NoticedWhenPublished, CustomerMailInvariant, PTL

\* So every customer is told in the end, if the worker leaves nothing on the
\* way: all the liveness there is in CustomersAreTold is that of the worker.
THEOREM ToldWhenSettled == MailSpec /\ EveryMessageSettles => CustomersAreTold
<1> DEFINE AllSettled == \A m \in Messages : broker[m] \in {"unpublished"} \cup Settled
           AllTold == \A b \in DOMAIN bookings :
                          /\ Told(b, "confirmed")
                          /\ bookings[b].status = "cancelled" =>
                                 \E r \in Senders : req[r].booking = b /\ Told(r, "cancelled")
<1>1. MailInv /\ NobodyIsForgotten /\ AllSettled => AllTold
  <2> SUFFICES ASSUME MailInv, NobodyIsForgotten, AllSettled
               PROVE  AllTold
    OBVIOUS
  <2>1. ASSUME NEW r \in Senders, NEW kind \in Kinds, Noticed(r, kind)
        PROVE  Told(r, kind)
    <3>1. broker[<<r, kind>>] \notin OnTheWay
      BY DEF Messages, OnTheWay, Settled
    <3>2. QED
      BY <2>1, <3>1 DEF Noticed
  <2>2. DOMAIN bookings \subseteq Senders /\ "confirmed" \in Kinds /\ "cancelled" \in Kinds
    BY DEF MailInv, Booking!IInv, Booking!TypeOK, Kinds
  <2>3. QED
    BY <2>1, <2>2 DEF NobodyIsForgotten
<1>2. QED
  BY <1>1, CustomerMailInvariant, EveryBookingIsNoticed, PTL
     DEF EveryMessageSettles, CustomersAreTold

\* With the worker that leaves nothing on the way (AllMessagesSettle): the whole
\* of what FairMailSpec promises the customers; no handler of requests has to go
\* on for it.
THEOREM CustomersAreToldInTheEnd ==
    MailSpec /\ HandlersGoOn /\ RabbitGoesOn /\ ComeTogether => CustomersAreTold
BY AllMessagesSettle, ToldWhenSettled
=============================================================================
