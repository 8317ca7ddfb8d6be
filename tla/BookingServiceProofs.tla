------------------------ MODULE BookingServiceProofs ------------------------
(* Theorems about BookingService, for every set of requests, users, routes *)
(* and seats and every number of failures.                                 *)
EXTENDS BookingService, TLAPS

(***************************************************************************)
(* The empty tables satisfy the invariant.                                 *)
(***************************************************************************)
LEMMA InitInvariant == Init => IInv
<1> SUFFICES ASSUME Init PROVE IInv
  OBVIOUS
<1> USE DEF Init
<1>1. DOMAIN bookings = {}
  OBVIOUS
<1>2. TypeOK
  <2>1. NoRequest \in Request
    BY DEF NoRequest, Request
  <2>2. NoWrites \in Session
    BY DEF NoWrites, Session
  <2>3. faults \in 0..MaxFaults
    BY BookingAssumption
  <2>4. bookings \in [DOMAIN bookings -> Row]
    OBVIOUS
  <2>5. QED
    BY <1>1, <2>1, <2>2, <2>3, <2>4 DEF TypeOK, Codes
<1>3. \A r \in Requests : SessionShape(r) /\ RequestShape(r)
  BY DEF SessionShape, RequestShape, InFlight, Writing, NoRequest
<1>4. InsertsExclusive /\ LocksExclusive
  BY DEF InsertsExclusive, LocksExclusive, Inserted, NoRequest
<1>5. FreedAlready /\ PublishedBeforeCommit
  BY DEF FreedAlready, PublishedBeforeCommit, Writing
<1>6. RowsSettled /\ RepliesHold /\ OneRowPerSeat
  BY <1>1 DEF RowsSettled, RepliesHold, OneRowPerSeat
<1>7. SeatFlagAgrees
  BY <1>1 DEF SeatFlagAgrees, RowsOn
<1>8. AnnouncedBeforeVisible
  BY <1>1 DEF AnnouncedBeforeVisible, Kinds
<1>9. AnswersAreDurable
  <2> SUFFICES ASSUME NEW r \in Requests
               PROVE  /\ answer[r] = 201 => r \in DOMAIN bookings
                      /\ answer[r] = 200 =>
                            /\ req[r].booking \in DOMAIN bookings
                            /\ bookings[req[r].booking].status = "cancelled"
                      /\ answer[r] \in {400, 403, 404, 409} =>
                            r \notin DOMAIN bookings
    BY Zenon DEF AnswersAreDurable
  <2>1. answer[r] = 0
    OBVIOUS
  <2> QED
    BY <2>1
<1>10. QED
  BY <1>2, <1>3, <1>4, <1>5, <1>6, <1>7, <1>8, <1>9 DEF IInv

(***************************************************************************)
(* A request in flight is a creation or a cancellation, of a booking id.   *)
(***************************************************************************)
LEMMA BookedByRequest ==
    ASSUME IInv, NEW r \in Requests, pc[r] \in InFlight
    PROVE  /\ req[r].op \in {"create", "cancel"}
           /\ req[r].booking \in Requests
           /\ req[r].seat \in Seats
<1>1. SessionShape(r) /\ RequestShape(r) /\ TypeOK
  BY DEF IInv
<1>2. req[r] \in Request /\ req[r].op # "none"
  BY <1>1 DEF TypeOK, SessionShape
<1>3. req[r].op \in {"create", "cancel"}
  BY <1>2 DEF Request
<1>4. CASE req[r].op = "create"
  BY <1>1, <1>4 DEF RequestShape
<1>5. CASE req[r].op = "cancel"
  <2>1. req[r].booking \in DOMAIN bookings /\ DOMAIN bookings \subseteq Requests
    BY <1>1, <1>5 DEF RequestShape, TypeOK
  <2>2. bookings[req[r].booking] \in Row
    BY <1>1, <2>1 DEF TypeOK
  <2>3. bookings[req[r].booking].seat \in Seats
    BY <2>2 DEF Row
  <2>4. QED
    BY <1>1, <1>3, <1>5, <2>1, <2>3 DEF RequestShape
<1>6. QED
  BY <1>3, <1>4, <1>5

(***************************************************************************)
(* A handler that ends without a commit and without success: a rejected    *)
(* request, the loser of the unique index, a failed call.                  *)
(***************************************************************************)
LEMMA FinishInvariant ==
    ASSUME IInv,
           NEW r \in Requests,
           NEW code \in {400, 403, 404, 409, 500},
           pc[r] \in {"new"} \cup (InFlight \ {"reply"}),
           Finish(r, code),
           UNCHANGED <<dbVars, req>>,
           faults' \in 0..MaxFaults,
           published' \in [Requests -> [Kinds -> Nat]],
           \A b \in Requests, k \in Kinds : published'[b][k] >= published[b][k],
           \A b \in Requests :
               published'[b]["cancelled"] > 0 => published'[b]["confirmed"] > 0
    PROVE  IInv'
<1>1. TypeOK
  BY DEF IInv
<1>2. /\ bookings' = bookings
      /\ seatBooked' = seatBooked
      /\ \A x \in Requests : req'[x] = req[x]
      /\ \A s : RowsOn(s)' = RowsOn(s)
  BY DEF dbVars, RowsOn
<1>3. /\ pc'[r] = "done"
      /\ session'[r] = NoWrites
      /\ answer'[r] = code
      /\ \A x \in Requests \ {r} : /\ pc'[x] = pc[x]
                                  /\ session'[x] = session[x]
                                  /\ answer'[x] = answer[x]
  BY <1>1 DEF TypeOK, Finish
<1>4. NoWrites.status = "none" /\ NoWrites.flag = "none"
  BY DEF NoWrites
<1>5. r \notin DOMAIN bookings /\ DOMAIN bookings \subseteq Requests
  BY DEF IInv, RowsSettled, InFlight, TypeOK
<1>6. TypeOK'
  <2>1. pc' \in [Requests -> {"new", "done"} \cup InFlight]
    BY <1>1 DEF TypeOK, Finish
  <2>2. session' \in [Requests -> Session]
    BY <1>1 DEF TypeOK, NoWrites, Session, Finish
  <2>3. answer' \in [Requests -> Codes]
    BY <1>1 DEF TypeOK, Codes, Finish
  <2>4. QED
    BY <1>1, <1>2, <2>1, <2>2, <2>3 DEF TypeOK
<1>7. ASSUME NEW x \in Requests
      PROVE  SessionShape(x)' /\ RequestShape(x)'
  <2>1. SessionShape(x) /\ RequestShape(x)
    BY DEF IInv
  <2>2. CASE x = r
    BY <1>2, <1>3, <2>1, <2>2 DEF SessionShape, RequestShape, InFlight, Writing
  <2>3. CASE x # r
    BY <1>2, <1>3, <2>1, <2>3 DEF SessionShape, RequestShape
  <2>4. QED
    BY <2>2, <2>3
<1>8. RowsSettled'
  BY <1>2, <1>3, <1>5 DEF IInv, RowsSettled
<1>9. \A x \in Requests, s \in Seats : Inserted(x, s)' => Inserted(x, s)
  BY <1>2, <1>3, <1>4 DEF Inserted
<1>10. InsertsExclusive'
  BY <1>2, <1>9 DEF IInv, InsertsExclusive
<1>11. LocksExclusive'
  BY <1>2, <1>3, <1>4 DEF IInv, LocksExclusive
<1>12. FreedAlready'
  BY <1>2, <1>3 DEF IInv, FreedAlready, Writing
<1>13. PublishedBeforeCommit'
  <2> SUFFICES ASSUME NEW x \in Requests, pc'[x] = "commit"
               PROVE  published'[req[x].booking][EventKind(x)] > 0
    BY <1>2 DEF PublishedBeforeCommit, EventKind
  <2>1. pc[x] = "commit"
    BY <1>3
  <2>2. published[req[x].booking][EventKind(x)] > 0
    BY <2>1 DEF IInv, PublishedBeforeCommit
  <2>3. EventKind(x) \in Kinds
    BY DEF EventKind, Kinds
  <2>4. req[x].booking \in Requests
    BY <2>1, BookedByRequest DEF InFlight
  <2>5. QED
    BY <1>1, <2>2, <2>3, <2>4 DEF TypeOK
<1>14. OneRowPerSeat' /\ SeatFlagAgrees'
  BY <1>2 DEF IInv, OneRowPerSeat, SeatFlagAgrees
<1>15. AnnouncedBeforeVisible'
  BY <1>1, <1>2, <1>5 DEF IInv, AnnouncedBeforeVisible, TypeOK, Kinds
<1>16. AnswersAreDurable'
  BY <1>2, <1>3, <1>5 DEF IInv, AnswersAreDurable
<1>17. RepliesHold'
  BY <1>2, <1>3 DEF IInv, RepliesHold
<1>18. QED
  BY <1>6, <1>7, <1>8, <1>10, <1>11, <1>12, <1>13, <1>14, <1>15, <1>16, <1>17
     DEF IInv

(***************************************************************************)
(* A request that passes the checks of its handler.                        *)
(***************************************************************************)
LEMMA AcceptInvariant ==
    ASSUME IInv,
           NEW r \in Requests,
           NEW label,
           NEW q \in Request,
           pc[r] = "new",
           Goto(r, label),
           req' = [req EXCEPT ![r] = q],
           \/ /\ label = "insert"
              /\ q.op = "create"
              /\ q.user \in Users
              /\ q.seat \in Seats
              /\ q.booking = r
           \/ /\ label = "update"
              /\ q.op = "cancel"
              /\ q.booking \in DOMAIN bookings
              /\ q.seat = bookings[q.booking].seat,
           UNCHANGED <<dbVars, published, session, answer, faults>>
    PROVE  IInv'
<1>1. TypeOK /\ SessionShape(r)
  BY DEF IInv
<1>2. /\ bookings' = bookings
      /\ seatBooked' = seatBooked
      /\ published' = published
      /\ session' = session
      /\ answer' = answer
      /\ \A s : RowsOn(s)' = RowsOn(s)
  BY DEF dbVars, RowsOn
<1>3. /\ pc'[r] = label
      /\ req'[r] = q
      /\ \A x \in Requests \ {r} : pc'[x] = pc[x] /\ req'[x] = req[x]
  BY <1>1 DEF TypeOK, Goto
<1>4. /\ session[r] = NoWrites
      /\ answer[r] = 0
      /\ NoWrites.status = "none"
      /\ NoWrites.flag = "none"
  BY <1>1 DEF SessionShape, NoWrites
<1>5. r \notin DOMAIN bookings /\ DOMAIN bookings \subseteq Requests
  BY <1>1 DEF IInv, RowsSettled, TypeOK
<1>6. TypeOK'
  <2>1. pc' \in [Requests -> {"new", "done"} \cup InFlight]
    BY <1>1 DEF TypeOK, Goto, InFlight
  <2>2. req' \in [Requests -> Request]
    BY <1>1 DEF TypeOK
  <2>3. QED
    BY <1>1, <1>2, <2>1, <2>2 DEF TypeOK
<1>7. ASSUME NEW x \in Requests
      PROVE  SessionShape(x)' /\ RequestShape(x)'
  <2>1. SessionShape(x) /\ RequestShape(x)
    BY DEF IInv
  <2>2. CASE x = r
    BY <1>2, <1>3, <1>4, <2>1, <2>2 DEF SessionShape, RequestShape, InFlight, Writing
  <2>3. CASE x # r
    BY <1>2, <1>3, <2>1, <2>3 DEF SessionShape, RequestShape
  <2>4. QED
    BY <2>2, <2>3
<1>8. RowsSettled'
  BY <1>2, <1>3, <1>5 DEF IInv, RowsSettled
<1>9. \A x \in Requests, s \in Seats : Inserted(x, s)' => Inserted(x, s)
  BY <1>2, <1>3, <1>4 DEF Inserted
<1>10. InsertsExclusive'
  BY <1>2, <1>9 DEF IInv, InsertsExclusive
<1>11. LocksExclusive'
  BY <1>2, <1>3, <1>4 DEF IInv, LocksExclusive
<1>12. FreedAlready'
  BY <1>2, <1>3 DEF IInv, FreedAlready, Writing
<1>13. PublishedBeforeCommit'
  BY <1>2, <1>3 DEF IInv, PublishedBeforeCommit, EventKind
<1>14. OneRowPerSeat' /\ SeatFlagAgrees'
  BY <1>2 DEF IInv, OneRowPerSeat, SeatFlagAgrees
<1>15. AnnouncedBeforeVisible'
  BY <1>2 DEF IInv, AnnouncedBeforeVisible
<1>16. AnswersAreDurable'
  BY <1>2, <1>3, <1>4, <1>5 DEF IInv, AnswersAreDurable
<1>17. RepliesHold'
  BY <1>2, <1>3 DEF IInv, RepliesHold
<1>18. QED
  BY <1>6, <1>7, <1>8, <1>10, <1>11, <1>12, <1>13, <1>14, <1>15, <1>16, <1>17
     DEF IInv

(***************************************************************************)
(* A step of a handler that neither commits nor ends: what it has to       *)
(* respect is said of its own request only.                                *)
(***************************************************************************)
LEMMA ProgressInvariant ==
    ASSUME IInv,
           NEW r \in Requests,
           NEW label \in InFlight \ {"reply"},
           NEW w \in Session,
           pc[r] \in InFlight \ {"reply"},
           Goto(r, label),
           session' = [session EXCEPT ![r] = w],
           UNCHANGED <<dbVars, req, answer, faults>>,
           published' \in [Requests -> [Kinds -> Nat]],
           \A b \in Requests, k \in Kinds : published'[b][k] >= published[b][k],
           \A b \in Requests :
               published'[b]["cancelled"] > 0 => published'[b]["confirmed"] > 0,
           SessionShape(r)',
           req[r].op = "create" /\ w.status # "none" =>
               \/ session[r].status # "none"
               \/ /\ RowsOn(req[r].seat) = {}
                  /\ \A x \in Requests : ~Inserted(x, req[r].seat),
           req[r].op = "cancel" /\ w.status # "none" =>
               \/ session[r].status # "none"
               \/ \A x \in Requests \ {r} : ~LocksBooking(x, req[r].booking),
           label \in Writing /\ req[r].op = "cancel" /\ w.flag = "none" =>
               ~seatBooked[req[r].seat],
           label = "commit" => published'[req[r].booking][EventKind(r)] > 0
    PROVE  IInv'
<1>1. TypeOK
  BY DEF IInv
<1>2. /\ bookings' = bookings
      /\ seatBooked' = seatBooked
      /\ req' = req
      /\ answer' = answer
      /\ \A s : RowsOn(s)' = RowsOn(s)
      /\ \A x : EventKind(x)' = EventKind(x)
  BY DEF dbVars, RowsOn, EventKind
<1>3. /\ pc'[r] = label
      /\ session'[r] = w
      /\ \A x \in Requests \ {r} : pc'[x] = pc[x] /\ session'[x] = session[x]
  BY <1>1 DEF TypeOK, Goto
<1>4. r \notin DOMAIN bookings /\ DOMAIN bookings \subseteq Requests
  BY <1>1 DEF IInv, RowsSettled, InFlight, TypeOK
<1>5. TypeOK'
  <2>1. pc' \in [Requests -> {"new", "done"} \cup InFlight]
    BY <1>1 DEF TypeOK, Goto
  <2>2. session' \in [Requests -> Session]
    BY <1>1 DEF TypeOK
  <2>3. QED
    BY <1>1, <1>2, <2>1, <2>2 DEF TypeOK
<1>6. ASSUME NEW x \in Requests
      PROVE  SessionShape(x)' /\ RequestShape(x)'
  <2>1. SessionShape(x) /\ RequestShape(x)
    BY DEF IInv
  <2>2. SessionShape(x)'
    BY <1>2, <1>3, <2>1 DEF SessionShape
  <2>3. RequestShape(x)'
    BY <1>2, <2>1 DEF RequestShape
  <2>4. QED
    BY <2>2, <2>3
<1>7. RowsSettled'
  BY <1>2, <1>3, <1>4 DEF IInv, RowsSettled
<1>8. InsertsExclusive'
  <2> SUFFICES ASSUME NEW x \in Requests, NEW s \in Seats, Inserted(x, s)'
               PROVE  /\ RowsOn(s) = {}
                      /\ \A y \in Requests : Inserted(y, s)' => y = x
    BY <1>2 DEF InsertsExclusive
  <2>1. \A y \in Requests \ {r} : Inserted(y, s)' <=> Inserted(y, s)
    BY <1>2, <1>3 DEF Inserted
  <2>2. Inserted(r, s)' =>
            \/ Inserted(r, s)
            \/ RowsOn(s) = {} /\ \A y \in Requests : ~Inserted(y, s)
    BY <1>2, <1>3 DEF Inserted
  <2>3. QED
    BY <2>1, <2>2 DEF IInv, InsertsExclusive
<1>9. LocksExclusive'
  BY <1>2, <1>3 DEF IInv, LocksExclusive, LocksBooking
<1>10. FreedAlready'
  BY <1>2, <1>3 DEF IInv, FreedAlready
<1>11. PublishedBeforeCommit'
  <2> SUFFICES ASSUME NEW x \in Requests, pc'[x] = "commit"
               PROVE  published'[req[x].booking][EventKind(x)] > 0
    BY <1>2 DEF PublishedBeforeCommit
  <2>1. CASE x = r
    BY <1>3, <2>1
  <2>2. CASE x # r
    <3>1. pc[x] = "commit"
      BY <1>3, <2>2
    <3>2. published[req[x].booking][EventKind(x)] > 0
      BY <3>1 DEF IInv, PublishedBeforeCommit
    <3>3. EventKind(x) \in Kinds
      BY DEF EventKind, Kinds
    <3>4. req[x].booking \in Requests
      BY <3>1, BookedByRequest DEF InFlight
    <3>5. QED
      BY <1>1, <3>2, <3>3, <3>4 DEF TypeOK
  <2>3. QED
    BY <2>1, <2>2
<1>12. OneRowPerSeat' /\ SeatFlagAgrees'
  BY <1>2 DEF IInv, OneRowPerSeat, SeatFlagAgrees
<1>13. AnnouncedBeforeVisible'
  BY <1>1, <1>2, <1>4 DEF IInv, AnnouncedBeforeVisible, TypeOK, Kinds
<1>14. AnswersAreDurable'
  BY <1>2 DEF IInv, AnswersAreDurable
<1>15. RepliesHold'
  BY <1>2, <1>3 DEF IInv, RepliesHold
<1>16. QED
  BY <1>5, <1>6, <1>7, <1>8, <1>9, <1>10, <1>11, <1>12, <1>13, <1>14, <1>15 DEF IInv

(***************************************************************************)
(* What a session that is about to commit changes in the two tables: a     *)
(* creation adds the first row of its seat, a cancellation rewrites the    *)
(* only row of its seat, and the flag is left as the new status says.      *)
(***************************************************************************)
LEMMA ApplyEffect ==
    ASSUME IInv,
           NEW r \in Requests,
           pc[r] = "commit",
           Apply(r)
    PROVE  LET b == req[r].booking
               s == req[r].seat
               status == IF req[r].op = "create" THEN "confirmed" ELSE "cancelled"
           IN  /\ b \in Requests /\ s \in Seats
               /\ req[r].op = "create" => b = r /\ RowsOn(s) = {}
               /\ req[r].op = "cancel" => b # r /\ RowsOn(s) = {b}
               /\ req[r].op \in {"create", "cancel"}
               /\ DOMAIN bookings' = DOMAIN bookings \cup {b}
               /\ bookings' \in [DOMAIN bookings' -> Row]
               /\ bookings'[b].seat = s /\ bookings'[b].status = status
               /\ \A c \in DOMAIN bookings \ {b} : bookings'[c] = bookings[c]
               /\ seatBooked' \in [Seats -> BOOLEAN]
               /\ seatBooked'[s] <=> req[r].op = "create"
               /\ \A t \in Seats \ {s} : seatBooked'[t] = seatBooked[t]
<1> DEFINE b == req[r].booking
           s == req[r].seat
           status == IF req[r].op = "create" THEN "confirmed" ELSE "cancelled"
<1>1. TypeOK /\ SessionShape(r) /\ RequestShape(r)
  BY DEF IInv
<1>2. /\ req[r].op \in {"create", "cancel"}
      /\ b \in Requests
      /\ s \in Seats
  BY BookedByRequest DEF InFlight
<1>3. session[r].status = status
  BY <1>1, <1>2 DEF SessionShape, Writing
<1>4. CASE req[r].op = "create"
  <2>1. b = r /\ req[r].user \in Users
    BY <1>1, <1>4 DEF RequestShape
  <2>2. session[r].flag = "booked"
    BY <1>1, <1>4 DEF SessionShape, Writing
  <2>3. RowsOn(s) = {}
    BY <1>2, <1>3, <1>4 DEF IInv, InsertsExclusive, Inserted
  <2>4. Written(r) = [user |-> req[r].user, seat |-> s, status |-> "confirmed"]
    BY <1>3, <1>4 DEF Written
  <2>5. Written(r) \in Row
    BY <1>2, <2>1, <2>4 DEF Row, BookingStatus
  <2>6. /\ DOMAIN bookings' = DOMAIN bookings \cup {b}
        /\ bookings'[b] = Written(r)
        /\ \A c \in DOMAIN bookings \ {b} : bookings'[c] = bookings[c]
    BY DEF Apply
  <2>7. bookings' \in [DOMAIN bookings' -> Row]
    BY <1>1, <2>5 DEF Apply, TypeOK
  <2>8. seatBooked' = [seatBooked EXCEPT ![s] = TRUE]
    BY <2>2 DEF Apply
  <2>9. /\ seatBooked' \in [Seats -> BOOLEAN]
        /\ seatBooked'[s] = TRUE
        /\ \A t \in Seats \ {s} : seatBooked'[t] = seatBooked[t]
    BY <1>1, <1>2, <2>8 DEF TypeOK
  <2>10. QED
    BY <1>2, <1>4, <2>1, <2>3, <2>4, <2>6, <2>7, <2>9
<1>5. CASE req[r].op = "cancel"
  <2>1. b \in DOMAIN bookings /\ s = bookings[b].seat
    BY <1>1, <1>5 DEF RequestShape
  <2>2. b # r
    BY <2>1 DEF IInv, RowsSettled
  <2>3. RowsOn(s) = {b}
    BY <2>1 DEF IInv, OneRowPerSeat, RowsOn
  <2>4. bookings[b] \in Row
    BY <1>1, <2>1 DEF TypeOK
  <2>5. Written(r) = [bookings[b] EXCEPT !.status = "cancelled"]
    BY <1>3, <1>5 DEF Written
  <2>6. Written(r) \in Row /\ Written(r).seat = s /\ Written(r).status = "cancelled"
    BY <2>1, <2>4, <2>5 DEF Row, BookingStatus
  <2>7. /\ DOMAIN bookings' = DOMAIN bookings \cup {b}
        /\ bookings'[b] = Written(r)
        /\ \A c \in DOMAIN bookings \ {b} : bookings'[c] = bookings[c]
    BY DEF Apply
  <2>8. bookings' \in [DOMAIN bookings' -> Row]
    BY <1>1, <2>6 DEF Apply, TypeOK
  <2>9. /\ seatBooked' \in [Seats -> BOOLEAN]
        /\ seatBooked'[s] = FALSE
        /\ \A t \in Seats \ {s} : seatBooked'[t] = seatBooked[t]
    <3>1. CASE session[r].flag = "none"
      <4>1. seatBooked' = seatBooked
        BY <3>1 DEF Apply
      <4>2. ~seatBooked[s]
        BY <1>5, <3>1 DEF IInv, FreedAlready, Writing
      <4>3. QED
        BY <1>1, <1>2, <4>1, <4>2 DEF TypeOK
    <3>2. CASE session[r].flag # "none"
      <4>1. session[r].flag # "booked"
        BY <1>1, <1>5 DEF SessionShape, Writing
      <4>2. seatBooked' = [seatBooked EXCEPT ![s] = FALSE]
        BY <3>2, <4>1 DEF Apply
      <4>3. QED
        BY <1>1, <1>2, <4>2 DEF TypeOK
    <3>3. QED
      BY <3>1, <3>2
  <2>10. QED
    BY <1>2, <1>5, <2>2, <2>3, <2>6, <2>7, <2>8, <2>9
<1>6. QED
  BY <1>2, <1>4, <1>5

(***************************************************************************)
(* A commit, acknowledged (a reply follows) or not (the answer is 500).    *)
(***************************************************************************)
LEMMA CommitInvariant ==
    ASSUME IInv,
           NEW r \in Requests,
           NEW label, NEW code,
           pc[r] = "commit",
           Apply(r),
           \/ label = "reply" /\ code = 0
           \/ label = "done" /\ code = 500,
           Goto(r, label),
           session' = [session EXCEPT ![r] = NoWrites],
           answer' = [answer EXCEPT ![r] = code],
           UNCHANGED <<published, req>>,
           faults' \in 0..MaxFaults
    PROVE  IInv'
<1> DEFINE b == req[r].booking
           s == req[r].seat
           status == IF req[r].op = "create" THEN "confirmed" ELSE "cancelled"
<1>1. TypeOK
  BY DEF IInv
<1>2. /\ b \in Requests /\ s \in Seats
      /\ req[r].op = "create" => b = r /\ RowsOn(s) = {}
      /\ req[r].op = "cancel" => b # r /\ RowsOn(s) = {b}
      /\ req[r].op \in {"create", "cancel"}
      /\ DOMAIN bookings' = DOMAIN bookings \cup {b}
      /\ bookings' \in [DOMAIN bookings' -> Row]
      /\ bookings'[b].seat = s /\ bookings'[b].status = status
      /\ \A c \in DOMAIN bookings \ {b} : bookings'[c] = bookings[c]
      /\ seatBooked' \in [Seats -> BOOLEAN]
      /\ seatBooked'[s] <=> req[r].op = "create"
      /\ \A t \in Seats \ {s} : seatBooked'[t] = seatBooked[t]
  BY ApplyEffect
<1>3. /\ pc'[r] = label
      /\ session'[r] = NoWrites
      /\ answer'[r] = code
      /\ \A x \in Requests \ {r} : /\ pc'[x] = pc[x]
                                  /\ session'[x] = session[x]
                                  /\ answer'[x] = answer[x]
  BY <1>1 DEF TypeOK, Goto
<1>4. /\ req' = req
      /\ published' = published
      /\ \A x : EventKind(x)' = EventKind(x)
  BY DEF EventKind
<1>5. NoWrites.status = "none" /\ NoWrites.flag = "none"
  BY DEF NoWrites
<1>6. r \notin DOMAIN bookings /\ DOMAIN bookings \subseteq Requests
  BY <1>1 DEF IInv, RowsSettled, TypeOK
<1>7. code \in {0, 500} /\ label \in {"reply", "done"}
  OBVIOUS
<1>8. \A t \in Seats : RowsOn(t)' = IF t = s THEN {b} ELSE RowsOn(t)
  <2> SUFFICES ASSUME NEW t \in Seats, NEW c
               PROVE  c \in RowsOn(t)' <=>
                          IF t = s THEN c = b ELSE c \in RowsOn(t)
    OBVIOUS
  <2>1. c \in RowsOn(t)' <=> c \in DOMAIN bookings' /\ bookings'[c].seat = t
    BY DEF RowsOn
  <2>2. c \in RowsOn(t) <=> c \in DOMAIN bookings /\ bookings[c].seat = t
    BY DEF RowsOn
  <2>3. b \in DOMAIN bookings => bookings[b].seat = s
    BY <1>2, <1>6 DEF RowsOn
  <2>4. c \in DOMAIN bookings /\ bookings[c].seat = s => c = b
    BY <1>2 DEF RowsOn
  <2>5. QED
    BY <1>2, <2>1, <2>2, <2>3, <2>4
<1>9. TypeOK'
  <2>1. pc' \in [Requests -> {"new", "done"} \cup InFlight]
    BY <1>1, <1>7 DEF TypeOK, Goto, InFlight
  <2>2. session' \in [Requests -> Session]
    BY <1>1 DEF TypeOK, NoWrites, Session
  <2>3. answer' \in [Requests -> Codes]
    BY <1>1, <1>7 DEF TypeOK, Codes
  <2>4. QED
    BY <1>1, <1>2, <1>4, <1>6, <2>1, <2>2, <2>3 DEF TypeOK
<1>10. ASSUME NEW x \in Requests
       PROVE  SessionShape(x)' /\ RequestShape(x)'
  <2>1. SessionShape(x) /\ RequestShape(x)
    BY DEF IInv
  <2>2. SessionShape(x)'
    <3>1. CASE x = r
      BY <1>2, <1>3, <1>4, <1>7, <3>1 DEF SessionShape, InFlight, Writing
    <3>2. CASE x # r
      BY <1>3, <1>4, <2>1, <3>2 DEF SessionShape
    <3>3. QED
      BY <3>1, <3>2
  <2>3. RequestShape(x)'
    <3>1. req[x].op = "cancel" =>
              /\ req[x].booking \in DOMAIN bookings'
              /\ req[x].seat = bookings'[req[x].booking].seat
      <4> SUFFICES ASSUME req[x].op = "cancel"
                   PROVE  /\ req[x].booking \in DOMAIN bookings'
                          /\ req[x].seat = bookings'[req[x].booking].seat
        OBVIOUS
      <4>1. /\ req[x].booking \in DOMAIN bookings
            /\ req[x].seat = bookings[req[x].booking].seat
        BY <2>1 DEF RequestShape
      <4>2. b \in DOMAIN bookings => bookings[b].seat = s
        BY <1>2, <1>6 DEF RowsOn
      <4>3. QED
        BY <1>2, <4>1, <4>2
    <3>2. QED
      BY <1>4, <2>1, <3>1 DEF RequestShape
  <2>4. QED
    BY <2>2, <2>3
<1>11. RowsSettled'
  <2> SUFFICES ASSUME NEW c \in DOMAIN bookings'
               PROVE  /\ req'[c].op = "create"
                      /\ \/ pc'[c] = "reply"
                         \/ pc'[c] = "done" /\ answer'[c] \in {0, 201, 500}
    BY DEF RowsSettled
  <2>1. CASE c \in DOMAIN bookings
    BY <1>3, <1>4, <1>6, <2>1 DEF IInv, RowsSettled
  <2>2. CASE c \notin DOMAIN bookings
    <3>1. c = r /\ req[r].op = "create"
      BY <1>2, <2>2 DEF RowsOn
    <3>2. QED
      BY <1>3, <1>4, <1>7, <3>1
  <2>3. QED
    BY <2>1, <2>2
<1>12. InsertsExclusive'
  <2> SUFFICES ASSUME NEW x \in Requests, NEW t \in Seats, Inserted(x, t)'
               PROVE  /\ RowsOn(t)' = {}
                      /\ \A y \in Requests : Inserted(y, t)' => y = x
    BY DEF InsertsExclusive
  <2>1. \A y \in Requests, u \in Seats :
            Inserted(y, u)' => y # r /\ Inserted(y, u)
    BY <1>3, <1>4, <1>5 DEF Inserted
  <2>2. RowsOn(t) = {} /\ \A y \in Requests : Inserted(y, t)' => y = x
    BY <2>1 DEF IInv, InsertsExclusive
  <2>3. SessionShape(r)
    BY DEF IInv
  <2>4. req[r].op = "create" => Inserted(r, s)
    BY <2>3 DEF SessionShape, Inserted, Writing
  <2>5. t # s
    <3>1. ASSUME t = s PROVE FALSE
      <4>1. req[r].op = "create" => x = r
        BY <2>1, <2>4, <3>1 DEF IInv, InsertsExclusive
      <4>2. req[r].op = "create"
        BY <1>2, <2>2, <3>1
      <4>3. QED
        BY <2>1, <4>1, <4>2
    <3>2. QED
      BY <3>1
  <2>6. QED
    BY <1>8, <2>2, <2>5
<1>13. LocksExclusive'
  BY <1>3, <1>4, <1>5 DEF IInv, LocksExclusive
<1>14. FreedAlready'
  <2> SUFFICES ASSUME NEW x \in Requests, pc'[x] \in Writing,
                      req[x].op = "cancel", session'[x].flag = "none"
               PROVE  ~seatBooked'[req[x].seat]
    BY <1>4 DEF FreedAlready
  <2>1. x # r
    BY <1>3, <1>7 DEF Writing
  <2>2. ~seatBooked[req[x].seat]
    BY <1>3, <2>1 DEF IInv, FreedAlready
  <2>3. RequestShape(x)
    BY DEF IInv
  <2>4. req[x].booking \in RowsOn(req[x].seat)
    BY <2>3 DEF RequestShape, RowsOn
  <2>5. req[x].seat \in Seats
    BY <1>3, <2>1, BookedByRequest DEF Writing, InFlight
  <2>6. QED
    BY <1>2, <2>2, <2>4, <2>5
<1>15. PublishedBeforeCommit'
  BY <1>3, <1>4, <1>7 DEF IInv, PublishedBeforeCommit
<1>16. OneRowPerSeat'
  <2> SUFFICES ASSUME NEW c \in DOMAIN bookings', NEW d \in DOMAIN bookings',
                      bookings'[c].seat = bookings'[d].seat
               PROVE  c = d
    BY DEF OneRowPerSeat
  <2>1. \A e \in DOMAIN bookings \ {b} : bookings'[e].seat # s
    BY <1>2 DEF RowsOn
  <2>2. QED
    BY <1>2, <2>1 DEF IInv, OneRowPerSeat
<1>17. SeatFlagAgrees'
  <2> SUFFICES ASSUME NEW t \in Seats
               PROVE  seatBooked'[t] <=>
                          \E c \in RowsOn(t)' : bookings'[c].status = "confirmed"
    BY DEF SeatFlagAgrees
  <2>1. CASE t = s
    BY <1>2, <1>8, <2>1
  <2>2. CASE t # s
    <3>1. RowsOn(t)' = RowsOn(t)
      BY <1>8, <2>2
    <3>2. \A c \in RowsOn(t) : bookings'[c] = bookings[c]
      <4>1. \A c \in RowsOn(t) : c \in DOMAIN bookings /\ bookings[c].seat = t
        BY DEF RowsOn
      <4>2. b \in DOMAIN bookings => bookings[b].seat = s
        BY <1>2, <1>6 DEF RowsOn
      <4>3. QED
        BY <1>2, <2>2, <4>1, <4>2
    <3>3. seatBooked'[t] = seatBooked[t]
      BY <1>2, <2>2
    <3>4. QED
      BY <3>1, <3>2, <3>3 DEF IInv, SeatFlagAgrees
  <2>3. QED
    BY <2>1, <2>2
<1>18. AnnouncedBeforeVisible'
  <2>1. published[b][EventKind(r)] > 0
    BY DEF IInv, PublishedBeforeCommit
  <2>2. published[b]["confirmed"] > 0
    BY <1>1, <1>2, <2>1 DEF IInv, AnnouncedBeforeVisible, EventKind
  <2>3. req[r].op = "cancel" => published[b]["cancelled"] > 0
    BY <2>1 DEF EventKind
  <2>4. ASSUME NEW c \in DOMAIN bookings'
        PROVE  /\ published[c]["confirmed"] > 0
               /\ bookings'[c].status = "cancelled" => published[c]["cancelled"] > 0
    <3>1. CASE c = b
      BY <1>2, <2>2, <2>3, <3>1
    <3>2. CASE c # b
      BY <1>2, <3>2 DEF IInv, AnnouncedBeforeVisible
    <3>3. QED
      BY <3>1, <3>2
  <2>5. QED
    BY <1>4, <2>4 DEF IInv, AnnouncedBeforeVisible
<1>19. AnswersAreDurable'
  <2> SUFFICES ASSUME NEW x \in Requests
               PROVE  /\ answer'[x] = 201 => x \in DOMAIN bookings'
                      /\ answer'[x] = 200 =>
                            /\ req'[x].booking \in DOMAIN bookings'
                            /\ bookings'[req'[x].booking].status = "cancelled"
                      /\ answer'[x] \in {400, 403, 404, 409} =>
                            x \notin DOMAIN bookings'
    BY Zenon DEF AnswersAreDurable
  <2>1. CASE x = r
    BY <1>2, <1>3, <1>4, <1>7, <2>1
  <2>2. CASE x # r
    <3>1. answer'[x] = answer[x]
      BY <1>3, <2>2
    <3>2. answer[x] = 201 => x \in DOMAIN bookings
      BY DEF IInv, AnswersAreDurable
    <3>3. answer[x] = 200 => /\ req[x].booking \in DOMAIN bookings
                             /\ bookings[req[x].booking].status = "cancelled"
      BY DEF IInv, AnswersAreDurable
    <3>4. answer[x] = 200 => /\ req[x].booking \in DOMAIN bookings'
                             /\ bookings'[req[x].booking].status = "cancelled"
      BY <1>2, <1>6, <3>3
    <3>5. answer[x] \in {400, 403, 404, 409} => x \notin DOMAIN bookings'
      <4>1. answer[x] \in {400, 403, 404, 409} => x \notin DOMAIN bookings
        BY DEF IInv, AnswersAreDurable
      <4>2. x \in DOMAIN bookings' => x \in DOMAIN bookings
        BY <1>2, <2>2 DEF RowsOn
      <4>3. QED
        BY <4>1, <4>2
    <3>6. QED
      BY <1>2, <1>4, <3>1, <3>2, <3>4, <3>5
  <2>3. QED
    BY <2>1, <2>2
<1>20. RepliesHold'
  <2> SUFFICES ASSUME NEW x \in Requests, pc'[x] = "reply"
               PROVE  /\ req[x].op = "create" => x \in DOMAIN bookings'
                      /\ req[x].op = "cancel" =>
                            bookings'[req[x].booking].status = "cancelled"
    BY <1>4 DEF RepliesHold
  <2>1. CASE x = r
    BY <1>2, <2>1
  <2>2. CASE x # r
    <3>1. /\ req[x].op = "create" => x \in DOMAIN bookings
          /\ req[x].op = "cancel" => bookings[req[x].booking].status = "cancelled"
      BY <1>3, <2>2 DEF IInv, RepliesHold
    <3>2. req[x].op = "cancel" => req[x].booking \in DOMAIN bookings
      BY DEF IInv, RequestShape
    <3>3. QED
      BY <1>2, <1>6, <3>1, <3>2
  <2>3. QED
    BY <2>1, <2>2
<1>21. QED
  BY <1>9, <1>10, <1>11, <1>12, <1>13, <1>14, <1>15, <1>16, <1>17, <1>18, <1>19, <1>20
     DEF IInv

(***************************************************************************)
(* The response after a commit.                                            *)
(***************************************************************************)
LEMMA ReplyInvariant ==
    ASSUME IInv, NEW r \in Requests, Reply(r)
    PROVE  IInv'
<1>1. TypeOK /\ SessionShape(r) /\ RequestShape(r)
  BY DEF IInv
<1>2. /\ bookings' = bookings
      /\ seatBooked' = seatBooked
      /\ published' = published
      /\ req' = req
      /\ faults' = faults
      /\ \A s : RowsOn(s)' = RowsOn(s)
      /\ \A x : EventKind(x)' = EventKind(x)
  BY DEF Reply, dbVars, RowsOn, EventKind
<1>3. pc[r] = "reply" /\ Finish(r, SuccessCode(r))
  BY DEF Reply
<1>4. session' = session
  BY <1>1, <1>3 DEF SessionShape, Finish, TypeOK
<1>5. /\ pc'[r] = "done"
      /\ answer'[r] = SuccessCode(r)
      /\ \A x \in Requests \ {r} : pc'[x] = pc[x] /\ answer'[x] = answer[x]
  BY <1>1, <1>3 DEF TypeOK, Finish
<1>6. \/ /\ req[r].op = "create"
         /\ SuccessCode(r) = 201
         /\ r \in DOMAIN bookings
      \/ /\ req[r].op = "cancel"
         /\ SuccessCode(r) = 200
         /\ r \notin DOMAIN bookings
         /\ req[r].booking \in DOMAIN bookings
         /\ bookings[req[r].booking].status = "cancelled"
  <2>1. req[r].op \in {"create", "cancel"}
    BY <1>3, BookedByRequest DEF InFlight
  <2>2. CASE req[r].op = "create"
    BY <1>3, <2>2 DEF IInv, RepliesHold, SuccessCode
  <2>3. CASE req[r].op = "cancel"
    BY <1>1, <1>3, <2>3 DEF IInv, RowsSettled, RepliesHold, RequestShape, SuccessCode
  <2>4. QED
    BY <2>1, <2>2, <2>3
<1>7. TypeOK'
  <2>1. pc' \in [Requests -> {"new", "done"} \cup InFlight]
    BY <1>1, <1>3 DEF TypeOK, Finish
  <2>2. answer' \in [Requests -> Codes]
    BY <1>1, <1>3, <1>6 DEF TypeOK, Codes, Finish
  <2>3. QED
    BY <1>1, <1>2, <1>4, <2>1, <2>2 DEF TypeOK
<1>8. ASSUME NEW x \in Requests
      PROVE  SessionShape(x)' /\ RequestShape(x)'
  <2>1. SessionShape(x) /\ RequestShape(x)
    BY DEF IInv
  <2>2. RequestShape(x)'
    BY <1>2, <2>1 DEF RequestShape
  <2>3. CASE x = r
    BY <1>1, <1>3, <1>4, <1>5, <2>2, <2>3 DEF SessionShape, InFlight, Writing
  <2>4. CASE x # r
    BY <1>2, <1>4, <1>5, <2>1, <2>2, <2>4 DEF SessionShape
  <2>5. QED
    BY <2>3, <2>4
<1>9. RowsSettled'
  <2> SUFFICES ASSUME NEW b \in DOMAIN bookings
               PROVE  /\ req[b].op = "create"
                      /\ \/ pc'[b] = "reply"
                         \/ pc'[b] = "done" /\ answer'[b] \in {0, 201, 500}
    BY <1>2 DEF RowsSettled
  <2>1. b \in Requests /\ req[b].op = "create"
    BY <1>1 DEF IInv, RowsSettled, TypeOK
  <2>2. CASE b = r
    BY <1>5, <1>6, <2>1, <2>2
  <2>3. CASE b # r
    BY <1>5, <2>1, <2>3 DEF IInv, RowsSettled
  <2>4. QED
    BY <2>1, <2>2, <2>3
<1>10. InsertsExclusive' /\ LocksExclusive'
  BY <1>2, <1>4 DEF IInv, InsertsExclusive, Inserted, LocksExclusive
<1>11. FreedAlready'
  BY <1>2, <1>4, <1>5 DEF IInv, FreedAlready, Writing
<1>12. PublishedBeforeCommit' /\ RepliesHold'
  BY <1>2, <1>5 DEF IInv, PublishedBeforeCommit, RepliesHold
<1>13. OneRowPerSeat' /\ SeatFlagAgrees' /\ AnnouncedBeforeVisible'
  BY <1>2 DEF IInv, OneRowPerSeat, SeatFlagAgrees, AnnouncedBeforeVisible
<1>14. AnswersAreDurable'
  BY <1>2, <1>5, <1>6 DEF IInv, AnswersAreDurable
<1>15. QED
  BY <1>7, <1>8, <1>9, <1>10, <1>11, <1>12, <1>13, <1>14 DEF IInv

(***************************************************************************)
(* The death of the process.                                               *)
(***************************************************************************)
LEMMA CrashInvariant ==
    ASSUME IInv, Crash
    PROVE  IInv'
<1>1. TypeOK
  BY DEF IInv
<1>2. /\ bookings' = bookings
      /\ seatBooked' = seatBooked
      /\ published' = published
      /\ req' = req
      /\ answer' = answer
      /\ faults' \in 0..MaxFaults
      /\ \A s : RowsOn(s)' = RowsOn(s)
  <2>1. /\ UNCHANGED <<dbVars, published, req, answer>>
        /\ faults' \in 0..MaxFaults
    BY <1>1, BookingAssumption DEF Crash, Fault, TypeOK
  <2>2. QED
    BY <2>1 DEF dbVars, RowsOn
<1>3. /\ session' = [x \in Requests |-> NoWrites]
      /\ pc' = [x \in Requests |-> IF pc[x] \in InFlight THEN "done" ELSE pc[x]]
  BY DEF Crash
<1>4. \A x \in Requests : /\ session'[x] = NoWrites
                          /\ pc'[x] \in {"new", "done"}
                          /\ pc'[x] = "new" => pc[x] = "new"
                          /\ pc[x] = "done" => pc'[x] = "done"
  BY <1>1, <1>3 DEF TypeOK, InFlight
<1>5. NoWrites.status = "none" /\ NoWrites \in Session
  BY DEF NoWrites, Session
<1>6. TypeOK'
  <2>1. pc' \in [Requests -> {"new", "done"} \cup InFlight]
    BY <1>3, <1>4
  <2>2. session' \in [Requests -> Session]
    BY <1>3, <1>5
  <2>3. QED
    BY <1>1, <1>2, <2>1, <2>2 DEF TypeOK
<1>7. ASSUME NEW x \in Requests
      PROVE  SessionShape(x)' /\ RequestShape(x)'
  <2>1. SessionShape(x) /\ RequestShape(x)
    BY DEF IInv
  <2>2. QED
    BY <1>2, <1>4, <2>1 DEF SessionShape, RequestShape, InFlight, Writing
<1>8. RowsSettled'
  <2>1. \A b \in DOMAIN bookings :
            pc[b] = "reply" => pc'[b] = "done" /\ answer[b] = 0
    BY <1>1, <1>3 DEF IInv, SessionShape, InFlight, TypeOK
  <2>2. QED
    BY <1>1, <1>2, <1>4, <2>1 DEF IInv, RowsSettled, TypeOK
<1>9. InsertsExclusive' /\ LocksExclusive'
  BY <1>4, <1>5 DEF InsertsExclusive, LocksExclusive, Inserted
<1>10. FreedAlready' /\ PublishedBeforeCommit'
  BY <1>4 DEF FreedAlready, PublishedBeforeCommit, Writing
<1>11. OneRowPerSeat' /\ SeatFlagAgrees' /\ AnnouncedBeforeVisible'
  BY <1>2 DEF IInv, OneRowPerSeat, SeatFlagAgrees, AnnouncedBeforeVisible
<1>12. AnswersAreDurable' /\ RepliesHold'
  BY <1>2, <1>4 DEF IInv, AnswersAreDurable, RepliesHold
<1>13. QED
  BY <1>6, <1>7, <1>8, <1>9, <1>10, <1>11, <1>12 DEF IInv

(***************************************************************************)
(* RabbitMQ taking the event of a request in flight.                       *)
(***************************************************************************)
LEMMA EmitEffect ==
    ASSUME IInv, NEW r \in Requests, pc[r] = "publish", Emit(r)
    PROVE  /\ published' \in [Requests -> [Kinds -> Nat]]
           /\ \A b \in Requests, k \in Kinds : published'[b][k] >= published[b][k]
           /\ \A b \in Requests :
                  published'[b]["cancelled"] > 0 => published'[b]["confirmed"] > 0
           /\ published'[req[r].booking][EventKind(r)] > 0
<1> DEFINE b == req[r].booking
<1>1. TypeOK /\ RequestShape(r)
  BY DEF IInv
<1>2. b \in Requests /\ req[r].op \in {"create", "cancel"}
  BY BookedByRequest DEF InFlight
<1>3. EventKind(r) \in Kinds
  BY DEF EventKind, Kinds
<1>4. published \in [Requests -> [Kinds -> Nat]]
  BY <1>1 DEF TypeOK
<1>5. published[b][EventKind(r)] \in Nat
  BY <1>2, <1>3, <1>4
<1>6. published' = [published EXCEPT ![b] =
                        [published[b] EXCEPT ![EventKind(r)] = published[b][EventKind(r)] + 1]]
  BY DEF Emit
<1>7. published' \in [Requests -> [Kinds -> Nat]]
  BY <1>2, <1>3, <1>4, <1>5, <1>6
<1>8. \A c \in Requests, k \in Kinds :
          published'[c][k] = IF c = b /\ k = EventKind(r)
                             THEN published[c][k] + 1 ELSE published[c][k]
  BY <1>2, <1>3, <1>4, <1>6
<1>9. ASSUME NEW c \in Requests, NEW k \in Kinds
      PROVE  published'[c][k] >= published[c][k]
  BY <1>4, <1>8, <1>9
<1>10. published'[b][EventKind(r)] > 0
  BY <1>2, <1>3, <1>5, <1>8
<1>11. ASSUME NEW c \in Requests, published'[c]["cancelled"] > 0
       PROVE  published'[c]["confirmed"] > 0
  <2>1. "confirmed" \in Kinds /\ "cancelled" \in Kinds
    BY DEF Kinds
  <2>2. published[c]["confirmed"] > 0 => published'[c]["confirmed"] > 0
    BY <1>4, <1>7, <1>9, <2>1
  <2>3. published[c]["cancelled"] > 0 => published[c]["confirmed"] > 0
    BY DEF IInv, AnnouncedBeforeVisible
  <2>4. CASE c = b /\ req[r].op = "cancel"
    BY <1>1, <2>2, <2>4 DEF IInv, AnnouncedBeforeVisible, RequestShape
  <2>5. CASE c = b /\ req[r].op = "create"
    BY <1>10, <2>5 DEF EventKind
  <2>6. CASE c # b
    BY <1>8, <1>11, <2>1, <2>3, <2>6
  <2>7. QED
    BY <1>2, <2>4, <2>5, <2>6
<1>12. QED
  BY <1>7, <1>9, <1>10, <1>11

(***************************************************************************)
(* Every step preserves the invariant.                                     *)
(***************************************************************************)
LEMMA ArriveInvariant ==
    ASSUME IInv, NEW r \in Requests, Arrive(r)
    PROVE  IInv'
<1>1. TypeOK
  BY DEF IInv
<1>2. ASSUME NEW code \in {400, 403, 404, 409}, pc[r] = "new", Reject(r, code)
      PROVE  IInv'
  <2>1. Finish(r, code) /\ UNCHANGED <<dbVars, published, req, faults>>
    BY <1>2 DEF Reject
  <2>2. /\ published' \in [Requests -> [Kinds -> Nat]]
        /\ \A b \in Requests, k \in Kinds : published'[b][k] >= published[b][k]
        /\ \A b \in Requests :
               published'[b]["cancelled"] > 0 => published'[b]["confirmed"] > 0
        /\ faults' \in 0..MaxFaults
    BY <1>1, <2>1 DEF TypeOK, IInv, AnnouncedBeforeVisible
  <2>3. QED
    BY <1>2, <2>1, <2>2, FinishInvariant
<1>3. ASSUME NEW u \in Users, NEW route \in RouteIds, NEW s \in Seats \cup {None},
             RequestBooking(r, u, route, s)
      PROVE  IInv'
  <2>1. pc[r] = "new"
    BY <1>3 DEF RequestBooking
  <2>2. CASE \E code \in {404, 409} : Reject(r, code)
    BY <1>2, <2>1, <2>2
  <2>3. CASE ~ \E code \in {404, 409} : Reject(r, code)
    <3> DEFINE q == [op |-> "create", user |-> u, seat |-> s, booking |-> r]
    <3>1. /\ SeatOnRoute(s, route)
          /\ Goto(r, "insert")
          /\ req' = [req EXCEPT ![r] = q]
          /\ UNCHANGED <<dbVars, published, session, answer, faults>>
      BY <1>3, <2>3 DEF RequestBooking
    <3>2. s \in Seats
      BY <3>1 DEF SeatOnRoute
    <3>3. q \in Request
      BY <3>2 DEF Request
    <3>4. QED
      BY <2>1, <3>1, <3>2, <3>3, AcceptInvariant
  <2>4. QED
    BY <2>2, <2>3
<1>4. ASSUME NEW u \in Users, NEW b \in Requests, RequestCancel(r, u, b)
      PROVE  IInv'
  <2>1. pc[r] = "new"
    BY <1>4 DEF RequestCancel
  <2>2. CASE \E code \in {400, 403, 404} : Reject(r, code)
    BY <1>2, <2>1, <2>2
  <2>3. CASE ~ \E code \in {400, 403, 404} : Reject(r, code)
    <3> DEFINE q == [op |-> "cancel", user |-> u,
                     seat |-> bookings[b].seat, booking |-> b]
    <3>1. /\ b \in DOMAIN bookings
          /\ Goto(r, "update")
          /\ req' = [req EXCEPT ![r] = q]
          /\ UNCHANGED <<dbVars, published, session, answer, faults>>
      BY <1>4, <2>3 DEF RequestCancel
    <3>2. bookings[b] \in Row
      BY <1>1, <3>1 DEF TypeOK
    <3>3. bookings[b].seat \in Seats
      BY <3>2 DEF Row
    <3>4. q \in Request
      BY <3>3 DEF Request
    <3>5. QED
      BY <2>1, <3>1, <3>4, AcceptInvariant
  <2>4. QED
    BY <2>2, <2>3
<1>5. QED
  BY <1>3, <1>4 DEF Arrive

\* What the handler of one request does on its own.
LEMMA StepInvariant ==
    ASSUME IInv, NEW r \in Requests, Step(r)
    PROVE  IInv'
<1>1. TypeOK /\ SessionShape(r) /\ RequestShape(r)
  BY DEF IInv
<1>2. /\ published \in [Requests -> [Kinds -> Nat]]
      /\ \A b \in Requests, k \in Kinds : published[b][k] >= published[b][k]
      /\ \A b \in Requests :
             published[b]["cancelled"] > 0 => published[b]["confirmed"] > 0
      /\ faults \in 0..MaxFaults
  BY <1>1 DEF TypeOK, IInv, AnnouncedBeforeVisible
<1>3. session[r] \in Session
  BY <1>1 DEF TypeOK
<1>4. CASE Insert(r)
  <2>1. /\ pc[r] = "insert"
        /\ \A x \in Requests : ~Inserted(x, req[r].seat)
        /\ UNCHANGED <<dbVars, published, req, faults>>
    BY <1>4 DEF Insert
  <2>2. CASE Finish(r, 500)
    BY <1>2, <2>1, <2>2, FinishInvariant DEF InFlight
  <2>3. CASE ~Finish(r, 500)
    <3> DEFINE w == [status |-> "pending", flag |-> "none"]
    <3>1. session[r] = NoWrites /\ req[r].op = "create"
      BY <1>1, <2>1 DEF SessionShape
    <3>2. /\ RowsOn(req[r].seat) = {}
          /\ session' = [session EXCEPT ![r].status = "pending"]
          /\ Goto(r, "confirm")
          /\ UNCHANGED answer
      BY <1>4, <2>3 DEF Insert
    <3>3. session' = [session EXCEPT ![r] = w]
      <4>1. [session[r] EXCEPT !.status = "pending"] = w
        BY <3>1 DEF NoWrites
      <4>2. QED
        BY <3>2, <4>1
    <3>4. w \in Session
      BY DEF Session, BookingStatus
    <3>5. SessionShape(r)'
      <4>1. pc'[r] = "confirm" /\ session'[r] = w /\ answer'[r] = 0
            /\ req'[r].op = "create"
        BY <1>1, <2>1, <3>1, <3>2, <3>3 DEF Goto, TypeOK, SessionShape, InFlight
      <4>2. QED
        BY <4>1 DEF SessionShape, InFlight, Writing
    <3>6. QED
      BY <1>2, <2>1, <3>1, <3>2, <3>3, <3>4, <3>5, ProgressInvariant
         DEF InFlight, Writing
  <2>4. QED
    BY <2>2, <2>3
<1>5. CASE Confirm(r)
  <2> DEFINE w == [status |-> "confirmed", flag |-> "booked"]
  <2>1. /\ pc[r] = "confirm"
        /\ session' = [session EXCEPT ![r] = w]
        /\ Goto(r, "invalidate")
        /\ UNCHANGED <<dbVars, published, req, answer, faults>>
    BY <1>5 DEF Confirm
  <2>2. session[r].status # "none" /\ req[r].op = "create" /\ answer[r] = 0
    BY <1>1, <2>1 DEF SessionShape, InFlight
  <2>3. w \in Session
    BY DEF Session, BookingStatus
  <2>4. pc'[r] = "invalidate" /\ session'[r] = w
    BY <1>1, <2>1 DEF Goto, TypeOK
  <2>5. SessionShape(r)'
    BY <2>1, <2>2, <2>4 DEF SessionShape, InFlight, Writing
  <2>6. QED
    BY <1>2, <2>1, <2>2, <2>3, <2>5, ProgressInvariant DEF InFlight
<1>6. CASE UpdateStatus(r)
  <2> DEFINE w == [status |-> "cancelled", flag |-> "none"]
  <2>1. /\ pc[r] = "update"
        /\ \A x \in Requests \ {r} : ~LocksBooking(x, req[r].booking)
        /\ session' = [session EXCEPT ![r].status = "cancelled"]
        /\ Goto(r, "free")
        /\ UNCHANGED <<dbVars, published, req, answer, faults>>
    BY <1>6 DEF UpdateStatus
  <2>2. session[r] = NoWrites /\ req[r].op = "cancel" /\ answer[r] = 0
    BY <1>1, <2>1 DEF SessionShape, InFlight
  <2>3. session' = [session EXCEPT ![r] = w]
    <3>1. [session[r] EXCEPT !.status = "cancelled"] = w
      BY <2>2 DEF NoWrites
    <3>2. QED
      BY <2>1, <3>1
  <2>4. w \in Session
    BY DEF Session, BookingStatus
  <2>5. pc'[r] = "free" /\ session'[r] = w
    BY <1>1, <2>1, <2>3 DEF Goto, TypeOK
  <2>6. SessionShape(r)'
    BY <2>1, <2>2, <2>5 DEF SessionShape, InFlight, Writing
  <2>7. QED
    BY <1>2, <2>1, <2>2, <2>3, <2>4, <2>6, ProgressInvariant DEF InFlight, Writing
<1>7. CASE MarkFree(r)
  <2> DEFINE f == IF seatBooked[req[r].seat] THEN "free" ELSE "none"
             w == [status |-> "cancelled", flag |-> f]
  <2>1. /\ pc[r] = "free"
        /\ session' = [session EXCEPT ![r].flag = f]
        /\ Goto(r, "invalidate")
        /\ UNCHANGED <<dbVars, published, req, answer, faults>>
    BY <1>7 DEF MarkFree
  <2>2. /\ session[r] = [status |-> "cancelled", flag |-> "none"]
        /\ req[r].op = "cancel"
        /\ answer[r] = 0
    BY <1>1, <2>1 DEF SessionShape, InFlight
  <2>3. session' = [session EXCEPT ![r] = w]
    <3>1. [session[r] EXCEPT !.flag = f] = w
      BY <2>2
    <3>2. QED
      BY <2>1, <3>1
  <2>4. w \in Session
    BY DEF Session, BookingStatus
  <2>5. pc'[r] = "invalidate" /\ session'[r] = w
    BY <1>1, <2>1, <2>3 DEF Goto, TypeOK
  <2>6. SessionShape(r)'
    BY <2>1, <2>2, <2>5 DEF SessionShape, InFlight, Writing
  <2>7. w.flag = "none" => ~seatBooked[req[r].seat]
    OBVIOUS
  <2>8. session[r].status # "none"
    BY <2>2
  <2> HIDE DEF w
  <2>9. QED
    BY <1>2, <2>1, <2>2, <2>3, <2>4, <2>6, <2>7, <2>8, ProgressInvariant DEF InFlight
<1>8. CASE Invalidate(r)
  <2>1. /\ pc[r] = "invalidate"
        /\ Goto(r, "publish")
        /\ UNCHANGED <<dbVars, published, req, session, answer, faults>>
    BY <1>8 DEF Invalidate
  <2>2. session' = [session EXCEPT ![r] = session[r]]
    BY <1>1, <2>1 DEF TypeOK
  <2>3. pc'[r] = "publish"
    BY <1>1, <2>1 DEF Goto, TypeOK
  <2>4. SessionShape(r)'
    BY <1>1, <2>1, <2>3 DEF SessionShape, InFlight, Writing
  <2>5. session[r].status # "none"
    BY <1>1, <2>1 DEF SessionShape, Writing
  <2>6. req[r].op = "cancel" /\ session[r].flag = "none" => ~seatBooked[req[r].seat]
    BY <2>1 DEF IInv, FreedAlready, Writing
  <2>7. QED
    BY <1>2, <1>3, <2>1, <2>2, <2>4, <2>5, <2>6, ProgressInvariant DEF InFlight
<1>9. CASE Publish(r)
  <2>1. /\ pc[r] = "publish"
        /\ Emit(r)
        /\ Goto(r, "commit")
        /\ UNCHANGED <<dbVars, req, session, answer, faults>>
    BY <1>9 DEF Publish
  <2>2. session' = [session EXCEPT ![r] = session[r]]
    BY <1>1, <2>1 DEF TypeOK
  <2>3. pc'[r] = "commit"
    BY <1>1, <2>1 DEF Goto, TypeOK
  <2>4. SessionShape(r)'
    BY <1>1, <2>1, <2>3 DEF SessionShape, InFlight, Writing
  <2>5. session[r].status # "none"
    BY <1>1, <2>1 DEF SessionShape, Writing
  <2>6. req[r].op = "cancel" /\ session[r].flag = "none" => ~seatBooked[req[r].seat]
    BY <2>1 DEF IInv, FreedAlready, Writing
  <2>7. QED
    BY <1>3, <2>1, <2>2, <2>4, <2>5, <2>6, EmitEffect, ProgressInvariant DEF InFlight
<1>10. CASE Commit(r)
  <2>1. /\ pc[r] = "commit"
        /\ Apply(r)
        /\ Goto(r, "reply")
        /\ session' = [session EXCEPT ![r] = NoWrites]
        /\ UNCHANGED <<published, req, answer, faults>>
    BY <1>10 DEF Commit, CanCommit
  <2>2. answer' = [answer EXCEPT ![r] = 0]
    BY <1>1, <2>1 DEF SessionShape, InFlight, TypeOK
  <2>3. QED
    BY <1>2, <2>1, <2>2, CommitInvariant
<1>11. CASE Reply(r)
  BY <1>11, ReplyInvariant
<1>12. QED
  BY <1>4, <1>5, <1>6, <1>7, <1>8, <1>9, <1>10, <1>11 DEF Step

\* What fails under the handler of one request.
LEMMA EnvironmentInvariant ==
    ASSUME IInv, NEW r \in Requests, Environment(r)
    PROVE  IInv'
<1>1. TypeOK
  BY DEF IInv
<1>2. Fault => faults' \in 0..MaxFaults
  BY <1>1, BookingAssumption DEF Fault, TypeOK
<1>3. CASE Fail(r)
  <2>1. /\ pc[r] \in {"new"} \cup (InFlight \ {"reply"})
        /\ Finish(r, 500)
        /\ UNCHANGED <<dbVars, published, req>>
        /\ faults' \in 0..MaxFaults
    BY <1>2, <1>3 DEF Fail
  <2>2. /\ published' \in [Requests -> [Kinds -> Nat]]
        /\ \A b \in Requests, k \in Kinds : published'[b][k] >= published[b][k]
        /\ \A b \in Requests :
               published'[b]["cancelled"] > 0 => published'[b]["confirmed"] > 0
    BY <1>1, <2>1 DEF TypeOK, IInv, AnnouncedBeforeVisible
  <2>3. QED
    BY <2>1, <2>2, FinishInvariant
<1>4. CASE PublishUnacknowledged(r)
  <2>1. /\ pc[r] = "publish"
        /\ Emit(r)
        /\ Finish(r, 500)
        /\ UNCHANGED <<dbVars, req>>
        /\ faults' \in 0..MaxFaults
    BY <1>2, <1>4 DEF PublishUnacknowledged
  <2>2. QED
    BY <2>1, EmitEffect, FinishInvariant DEF InFlight
<1>5. CASE CommitUnacknowledged(r)
  BY <1>2, <1>5, CommitInvariant DEF CommitUnacknowledged, CanCommit, Finish, Goto
<1>6. QED
  BY <1>3, <1>4, <1>5 DEF Environment

\* What changes no variable keeps the invariant.
LEMMA StutterInvariant ==
    ASSUME IInv, UNCHANGED vars
    PROVE  IInv'
<1>1. /\ UNCHANGED <<seatBooked, bookings, published, pc, req, session, answer, faults>>
      /\ \A s : RowsOn(s)' = RowsOn(s)
      /\ \A x : EventKind(x)' = EventKind(x)
      /\ \A x, s : Inserted(x, s)' = Inserted(x, s)
  BY DEF vars, RowsOn, EventKind, Inserted
<1>2. TypeOK'
  BY <1>1 DEF IInv, TypeOK
<1>3. \A r \in Requests : SessionShape(r)' /\ RequestShape(r)'
  BY <1>1 DEF IInv, SessionShape, RequestShape
<1>4. RowsSettled' /\ RepliesHold' /\ InsertsExclusive' /\ LocksExclusive'
  BY <1>1 DEF IInv, RowsSettled, RepliesHold, InsertsExclusive, LocksExclusive
<1>5. FreedAlready' /\ PublishedBeforeCommit'
  BY <1>1 DEF IInv, FreedAlready, PublishedBeforeCommit
<1>6. OneRowPerSeat' /\ SeatFlagAgrees'
  BY <1>1 DEF IInv, OneRowPerSeat, SeatFlagAgrees
<1>7. AnnouncedBeforeVisible' /\ AnswersAreDurable'
  BY <1>1 DEF IInv, AnnouncedBeforeVisible, AnswersAreDurable
<1>8. QED
  BY <1>2, <1>3, <1>4, <1>5, <1>6, <1>7 DEF IInv

\* Every step of the specification keeps the invariant.
LEMMA NextInvariant ==
    ASSUME IInv, [Next]_vars
    PROVE  IInv'
<1>1. ASSUME NEW r \in Requests, Arrive(r) \/ Step(r) \/ Environment(r)
      PROVE  IInv'
  BY <1>1, ArriveInvariant, StepInvariant, EnvironmentInvariant
<1>2. CASE Crash
  BY <1>2, CrashInvariant
<1>3. CASE AllDone \/ UNCHANGED vars
  BY <1>3, StutterInvariant DEF AllDone
<1>4. QED
  BY <1>1, <1>2, <1>3 DEF Next

-----------------------------------------------------------------------------

(***************************************************************************)
(* The inductive invariant holds of every behaviour of the service: what   *)
(* handlers have written, requested and locked is always consistent with   *)
(* the committed tables.                                                   *)
(***************************************************************************)
THEOREM InductiveInvariant == Spec => []IInv
<1>1. Init => IInv
  BY InitInvariant
<1>2. IInv /\ [Next]_vars => IInv'
  BY NextInvariant
<1>3. QED
  BY <1>1, <1>2, PTL DEF Spec

(***************************************************************************)
(* The tables, sessions and answers only hold values of their types.       *)
(***************************************************************************)
THEOREM TypeCorrect == Spec => []TypeOK
<1>1. IInv => TypeOK
  BY DEF IInv
<1>2. QED
  BY <1>1, InductiveInvariant, PTL

(***************************************************************************)
(* No double booking: whatever number of create_booking handlers saw a     *)
(* seat free, at most one of their rows is ever committed for it.          *)
(***************************************************************************)
THEOREM NoDoubleBooking == Spec => []OneRowPerSeat
<1>1. IInv => OneRowPerSeat
  BY DEF IInv
<1>2. QED
  BY <1>1, InductiveInvariant, PTL

(***************************************************************************)
(* seats.is_booked and the status of the bookings agree in every committed *)
(* state: no interleaving of create_booking and cancel_booking, no failure *)
(* and no crash can make them drift apart.                                 *)
(***************************************************************************)
THEOREM FlagAgreesWithBookings == Spec => []SeatFlagAgrees
<1>1. IInv => SeatFlagAgrees
  BY DEF IInv
<1>2. QED
  BY <1>1, InductiveInvariant, PTL

(***************************************************************************)
(* No committed booking or cancellation lacks its event in RabbitMQ: the   *)
(* handlers publish before get_db commits.                                 *)
(***************************************************************************)
THEOREM NoEventIsLost == Spec => []AnnouncedBeforeVisible
<1>1. IInv => AnnouncedBeforeVisible
  BY DEF IInv
<1>2. QED
  BY <1>1, InductiveInvariant, PTL

(***************************************************************************)
(* The HTTP status a client got is true of the database from then on.      *)
(***************************************************************************)
THEOREM AnswersHold == Spec => []AnswersAreDurable
<1>1. IInv => AnswersAreDurable
  BY DEF IInv
<1>2. QED
  BY <1>1, InductiveInvariant, PTL

-----------------------------------------------------------------------------
(* Locks: who holds one waits for none, and so gives it back               *)

\* A seat is locked for the creation that has inserted its row.
LEMMA SeatLockersInserted ==
    ASSUME IInv, NEW x \in Requests, NEW s, LocksSeat(x, s)
    PROVE  Inserted(x, s)
<1>1. SessionShape(x) /\ TypeOK
  BY DEF IInv
<1>2. pc[x] \in Writing /\ session[x].status = "confirmed"
  <2>1. pc[x] \in {"new", "done"} \cup InFlight
    BY <1>1 DEF TypeOK
  <2>2. session[x].flag # "none" /\ req[x].op = "create"
    BY DEF LocksSeat
  <2>3. QED
    BY <1>1, <2>1, <2>2 DEF SessionShape, InFlight, Writing, NoWrites
<1>3. QED
  BY <1>2 DEF LocksSeat, Inserted

\* Two writers do not meet in a seat: an uncommitted insert excludes another
\* one, and the committed row that a cancellation is about.
LEMMA SeatLocksUncontended ==
    ASSUME IInv,
           NEW r \in Requests, NEW x \in Requests,
           session[r].flag # "none" \/ pc[r] = "confirm",
           pc[r] \in InFlight, LocksSeat(x, req[r].seat)
    PROVE  x = r
<1>1. /\ SessionShape(r) /\ RequestShape(r) /\ TypeOK /\ InsertsExclusive
      /\ SessionShape(x)
  BY DEF IInv
<1>2. req[r].op \in {"create", "cancel"} /\ req[r].seat \in Seats
  BY BookedByRequest
<1>3. Inserted(x, req[r].seat)
  BY SeatLockersInserted
<1>4. CASE req[r].op = "create"
  <2>1. session[r].status # "none"
    BY <1>1, <1>4 DEF SessionShape, InFlight, Writing, NoWrites
  <2>2. Inserted(r, req[r].seat)
    BY <1>4, <2>1 DEF Inserted
  <2>3. QED
    BY <1>1, <1>2, <1>3, <2>2 DEF InsertsExclusive
<1>5. CASE req[r].op = "cancel"
  <2>1. req[r].booking \in RowsOn(req[r].seat)
    BY <1>1, <1>5 DEF RequestShape, RowsOn
  <2>2. QED
    BY <1>1, <1>2, <1>3, <2>1 DEF InsertsExclusive
<1>6. QED
  BY <1>2, <1>4, <1>5

\* Whoever has written anything, and so holds a lock, waits for nobody.
LEMMA HoldersDoNotWait ==
    ASSUME IInv, NEW r \in Requests, NEW x \in Requests, session[r] # NoWrites
    PROVE  ~WaitsFor(r, x)
<1>1. SessionShape(r)
  BY DEF IInv
<1>2. pc[r] \notin {"insert", "update"}
  BY <1>1 DEF SessionShape
<1>3. ASSUME pc[r] = "confirm" \/ (pc[r] = "commit" /\ session[r].flag # "none"),
             LocksSeat(x, req[r].seat)
      PROVE  x = r
  BY <1>3, SeatLocksUncontended DEF InFlight
<1>4. QED
  BY <1>2, <1>3 DEF WaitsFor

\* Whoever is waited for has written something.
LEMMA WaitedForHold ==
    ASSUME NEW r \in Requests, NEW x \in Requests, WaitsFor(r, x)
    PROVE  session[x] # NoWrites
BY DEF WaitsFor, Inserted, LocksBooking, LocksSeat, NoWrites

(***************************************************************************)
(* The handlers of bookings cannot deadlock in PostgreSQL: none that is    *)
(* waited for waits itself, although each keeps its locks while it talks   *)
(* to Redis and RabbitMQ, and writes two tables.                           *)
(***************************************************************************)
THEOREM NoDeadlock == Spec => []NobodyWaitsForAWaiter
<1>1. IInv => NobodyWaitsForAWaiter
  BY HoldersDoNotWait, WaitedForHold DEF NobodyWaitsForAWaiter
<1>2. QED
  BY <1>1, InductiveInvariant, PTL

\* The stage of a handler that holds a lock is followed by another one.
Holding == {"confirm", "free", "invalidate", "publish", "commit"}

After == [insert |-> "confirm", update |-> "free",
          confirm |-> "invalidate", free |-> "invalidate",
          invalidate |-> "publish", publish |-> "commit", commit |-> "reply",
          reply |-> "done"]

LEMMA HoldersAdvance ==
    ASSUME IInv, NEW r \in Requests, pc[r] \in Holding, Step(r)
    PROVE  pc'[r] = After[pc[r]]
<1>1. pc \in [Requests -> {"new", "done"} \cup InFlight]
  BY DEF IInv, TypeOK
<1>2. QED
  BY <1>1 DEF Step, Insert, Confirm, UpdateStatus, MarkFree, Invalidate, Publish,
     Commit, CanCommit, Reply, Goto, Holding, After

\* Others do not move it, but by the end of the process.
LEMMA HoldersMove ==
    ASSUME IInv, [Next]_vars, NEW r \in Requests, pc[r] \in Holding
    PROVE  pc'[r] \in {pc[r], After[pc[r]], "done"}
<1>1. pc \in [Requests -> {"new", "done"} \cup InFlight]
  BY DEF IInv, TypeOK
<1>2. CASE Crash
  BY <1>1, <1>2 DEF Crash
<1>3. CASE AllDone \/ UNCHANGED vars
  BY <1>1, <1>3 DEF AllDone, vars
<1>4. ASSUME NEW q \in Requests, Arrive(q)
      PROVE  pc'[r] = pc[r]
  <2>1. pc[q] = "new" /\ \E label : pc' = [pc EXCEPT ![q] = label]
    BY <1>4 DEF Arrive, RequestBooking, RequestCancel, Reject, Finish, Goto
  <2>2. QED
    BY <1>1, <2>1 DEF Holding
<1>5. ASSUME NEW q \in Requests, Environment(q)
      PROVE  pc'[r] \in {pc[r], "done"}
  BY <1>1, <1>5 DEF Environment, Fail, PublishUnacknowledged, CommitUnacknowledged, Finish
<1>6. ASSUME NEW q \in Requests, Step(q)
      PROVE  pc'[r] \in {pc[r], After[pc[r]]}
  <2>1. CASE q = r
    BY <1>6, <2>1, HoldersAdvance
  <2>2. CASE q # r
    BY <1>1, <1>6, <2>2 DEF Step, Insert, Confirm, UpdateStatus, MarkFree, Invalidate,
       Publish, Commit, Reply, Finish, Goto
  <2>3. QED
    BY <2>1, <2>2
<1>7. QED
  BY <1>2, <1>3, <1>4, <1>5, <1>6 DEF Next

\* Weak fairness of Step(r), with what OnlyLocksHoldUp says for its ENABLED.
GoesOn(r) == []<>(~CanStep(r)) \/ []<><<Step(r)>>_vars

\* Whatever r locks, it gives back; and the wait of q for r has an end.
Releases(r) == (session[r] # NoWrites) ~> (session[r] = NoWrites)
WaitEnds(q, r) == WaitsFor(q, r) ~> ~WaitsFor(q, r)

(***************************************************************************)
(* No lock is held for ever: as long as the event loop goes on with the    *)
(* handler of r, what r has locked is free again, by its commit or by a    *)
(* rollback, whatever all the others do; and so the wait of any q for r    *)
(* ends.                                                                   *)
(***************************************************************************)
THEOREM LocksAreReleased ==
    ASSUME NEW r \in Requests, NEW q \in Requests
    PROVE  Spec /\ GoesOn(r) => Releases(r) /\ WaitEnds(q, r)
<1> DEFINE At(label) == pc[r] = label
           Over == pc[r] \in {"reply", "done"}
<1>1. IInv /\ session[r] # NoWrites =>
          At("confirm") \/ At("free") \/ At("invalidate") \/ At("publish") \/ At("commit")
  BY DEF IInv, TypeOK, SessionShape, InFlight
<1>2. IInv /\ Over => session[r] = NoWrites
  BY DEF IInv, SessionShape
<1>3. ASSUME IInv, NEW label \in Holding, At(label)
      PROVE  CanStep(r)
  <2>1. session[r] # NoWrites
    BY <1>3 DEF IInv, SessionShape, Holding, Writing, NoWrites
  <2>2. QED
    BY <1>3, <2>1, HoldersDoNotWait DEF CanStep, Holding, InFlight
<1>4. ASSUME IInv, NEW label \in Holding, At(label), [Next]_vars
      PROVE  (At(label) \/ At(After[label]) \/ Over)'
  BY <1>4, HoldersMove
<1>5. ASSUME IInv, NEW label \in Holding, At(label), <<Step(r)>>_vars
      PROVE  At(After[label])'
  BY <1>5, HoldersAdvance
<1>6. Spec /\ GoesOn(r) => (At("confirm") ~> (At("invalidate") \/ Over))
  <2>1. IInv /\ At("confirm") => CanStep(r)
    BY <1>3 DEF Holding
  <2>2. IInv /\ At("confirm") /\ [Next]_vars => (At("confirm") \/ At("invalidate") \/ Over)'
    BY <1>4 DEF Holding, After
  <2>3. IInv /\ At("confirm") /\ <<Step(r)>>_vars => At("invalidate")'
    BY <1>5 DEF Holding, After
  <2>4. QED
    BY <2>1, <2>2, <2>3, InductiveInvariant, PTL DEF Spec, GoesOn
<1>7. Spec /\ GoesOn(r) => (At("free") ~> (At("invalidate") \/ Over))
  <2>1. IInv /\ At("free") => CanStep(r)
    BY <1>3 DEF Holding
  <2>2. IInv /\ At("free") /\ [Next]_vars => (At("free") \/ At("invalidate") \/ Over)'
    BY <1>4 DEF Holding, After
  <2>3. IInv /\ At("free") /\ <<Step(r)>>_vars => At("invalidate")'
    BY <1>5 DEF Holding, After
  <2>4. QED
    BY <2>1, <2>2, <2>3, InductiveInvariant, PTL DEF Spec, GoesOn
<1>8. Spec /\ GoesOn(r) => (At("invalidate") ~> (At("publish") \/ Over))
  <2>1. IInv /\ At("invalidate") => CanStep(r)
    BY <1>3 DEF Holding
  <2>2. IInv /\ At("invalidate") /\ [Next]_vars => (At("invalidate") \/ At("publish") \/ Over)'
    BY <1>4 DEF Holding, After
  <2>3. IInv /\ At("invalidate") /\ <<Step(r)>>_vars => At("publish")'
    BY <1>5 DEF Holding, After
  <2>4. QED
    BY <2>1, <2>2, <2>3, InductiveInvariant, PTL DEF Spec, GoesOn
<1>9. Spec /\ GoesOn(r) => (At("publish") ~> (At("commit") \/ Over))
  <2>1. IInv /\ At("publish") => CanStep(r)
    BY <1>3 DEF Holding
  <2>2. IInv /\ At("publish") /\ [Next]_vars => (At("publish") \/ At("commit") \/ Over)'
    BY <1>4 DEF Holding, After
  <2>3. IInv /\ At("publish") /\ <<Step(r)>>_vars => At("commit")'
    BY <1>5 DEF Holding, After
  <2>4. QED
    BY <2>1, <2>2, <2>3, InductiveInvariant, PTL DEF Spec, GoesOn
<1>10. Spec /\ GoesOn(r) => (At("commit") ~> (At("reply") \/ Over))
  <2>1. IInv /\ At("commit") => CanStep(r)
    BY <1>3 DEF Holding
  <2>2. IInv /\ At("commit") /\ [Next]_vars => (At("commit") \/ At("reply") \/ Over)'
    BY <1>4 DEF Holding, After
  <2>3. IInv /\ At("commit") /\ <<Step(r)>>_vars => At("reply")'
    BY <1>5 DEF Holding, After
  <2>4. QED
    BY <2>1, <2>2, <2>3, InductiveInvariant, PTL DEF Spec, GoesOn
<1>11. At("reply") => Over
  OBVIOUS
<1>12. WaitsFor(q, r) => session[r] # NoWrites
  BY WaitedForHold
<1>13. session[r] = NoWrites => ~WaitsFor(q, r)
  BY <1>12
<1>14. QED
  BY <1>1, <1>2, <1>6, <1>7, <1>8, <1>9, <1>10, <1>11, <1>12, <1>13,
     InductiveInvariant, PTL DEF Spec, Releases, WaitEnds

-----------------------------------------------------------------------------
(* Steps: who can take one, and where they lead                            *)

\* A step is only taken by a handler that no lock holds up.
LEMMA StepsRespectLocks ==
    ASSUME NEW r \in Requests, Step(r)
    PROVE  CanStep(r)
<1>1. pc[r] \in InFlight
  BY DEF Step, Insert, Confirm, UpdateStatus, MarkFree, Invalidate, Publish,
         Commit, CanCommit, Reply, InFlight
<1>2. ASSUME NEW x \in Requests
      PROVE  ~WaitsFor(r, x)
  BY DEF Step, Insert, Confirm, UpdateStatus, MarkFree, Invalidate, Publish,
         Commit, CanCommit, Reply, WaitsFor
<1>3. QED
  BY <1>1, <1>2 DEF CanStep

\* What one step of r makes of the variables.
Resumed(r) ==
    LET stage == pc[r]
        b == req[r].booking
        taken == stage = "insert" /\ RowsOn(req[r].seat) # {}
    IN  << IF stage = "commit" /\ session[r].flag # "none"
           THEN [seatBooked EXCEPT ![req[r].seat] = (session[r].flag = "booked")]
           ELSE seatBooked,
           IF stage = "commit"
           THEN [c \in DOMAIN bookings \cup {b} |-> IF c = b THEN Written(r) ELSE bookings[c]]
           ELSE bookings,
           IF stage = "publish"
           THEN [published EXCEPT ![b][EventKind(r)] = @ + 1] ELSE published,
           [pc EXCEPT ![r] = IF taken THEN "done" ELSE After[stage]],
           req,
           [session EXCEPT ![r] =
               IF stage \in {"invalidate", "publish"} THEN session[r]
               ELSE IF taken \/ stage \in {"commit", "reply"} THEN NoWrites
               ELSE IF stage = "insert" THEN [session[r] EXCEPT !.status = "pending"]
               ELSE IF stage = "update" THEN [session[r] EXCEPT !.status = "cancelled"]
               ELSE IF stage = "confirm" THEN [status |-> "confirmed", flag |-> "booked"]
               ELSE [session[r] EXCEPT !.flag =
                        IF seatBooked[req[r].seat] THEN "free" ELSE "none"]],
           IF taken THEN [answer EXCEPT ![r] = 500]
           ELSE IF stage = "reply" THEN [answer EXCEPT ![r] = SuccessCode(r)]
           ELSE answer,
           faults >>

(***************************************************************************)
(* Nothing but a lock or a unique entry of another session holds up a      *)
(* handler.  A step of r is only taken where CanStep(r), and where         *)
(* CanStep(r) the assignment vars' = Resumed(r), which every state has, is *)
(* one: the two directions of OnlyLocksHoldUp, with ENABLED written out.   *)
(***************************************************************************)
THEOREM OnlyLocksHoldUpSteps ==
    ASSUME IInv, NEW r \in Requests
    PROVE  /\ <<Step(r)>>_vars => CanStep(r)
           /\ CanStep(r) /\ vars' = Resumed(r) => <<Step(r)>>_vars
<1>1. <<Step(r)>>_vars => CanStep(r)
  BY StepsRespectLocks
<1>2. ASSUME CanStep(r), vars' = Resumed(r)
      PROVE  <<Step(r)>>_vars
  <2>1. /\ pc \in [Requests -> {"new", "done"} \cup InFlight]
        /\ session \in [Requests -> Session]
    BY DEF IInv, TypeOK
  <2>2. pc[r] \in InFlight /\ \A x \in Requests : ~WaitsFor(r, x)
    BY <1>2 DEF CanStep
  <2>3. session' = [session EXCEPT ![r] = session[r]] => session' = session
    BY <2>1
  <2> USE <1>2, <2>1 DEF Resumed, vars, dbVars, After, Goto, Finish
  <2>4. CASE pc[r] = "insert"
    <3>1. \A x \in Requests : ~Inserted(x, req[r].seat)
      BY <2>2, <2>4 DEF WaitsFor
    <3>2. CASE RowsOn(req[r].seat) # {}
      BY <2>4, <3>1, <3>2 DEF Insert, Step
    <3>3. CASE RowsOn(req[r].seat) = {}
      <4>1. /\ pc' = [pc EXCEPT ![r] = "confirm"]
            /\ session' = [session EXCEPT ![r] = [session[r] EXCEPT !.status = "pending"]]
            /\ UNCHANGED <<seatBooked, bookings, published, req, answer, faults>>
        BY <2>4, <3>3
      <4>2. Insert(r)
        BY <2>4, <3>1, <3>3, <4>1 DEF Insert
      <4>3. QED
        BY <2>4, <4>1, <4>2 DEF Step
    <3>4. QED
      BY <3>2, <3>3
  <2>5. CASE pc[r] = "confirm"
    <3>1. \A x \in Requests \ {r} : ~LocksSeat(x, req[r].seat)
      BY <2>2, <2>5 DEF WaitsFor
    <3>2. Confirm(r)
      BY <2>5, <3>1 DEF Confirm
    <3>3. QED
      BY <2>5, <3>2 DEF Step
  <2>6. CASE pc[r] = "update"
    <3>1. \A x \in Requests \ {r} : ~LocksBooking(x, req[r].booking)
      BY <2>2, <2>6 DEF WaitsFor
    <3>2. UpdateStatus(r)
      BY <2>6, <3>1 DEF UpdateStatus
    <3>3. QED
      BY <2>6, <3>2 DEF Step
  <2>7. CASE pc[r] = "free"
    <3>1. MarkFree(r)
      BY <2>7 DEF MarkFree
    <3>2. QED
      BY <2>7, <3>1 DEF Step
  <2>8. CASE pc[r] = "invalidate"
    <3>1. Invalidate(r)
      BY <2>3, <2>8 DEF Invalidate
    <3>2. QED
      BY <2>8, <3>1 DEF Step
  <2>9. CASE pc[r] = "publish"
    <3>1. Publish(r)
      BY <2>3, <2>9 DEF Publish, Emit
    <3>2. QED
      BY <2>9, <3>1 DEF Step
  <2>10. CASE pc[r] = "commit"
    <3>1. CanCommit(r)
      BY <2>2, <2>10 DEF WaitsFor, CanCommit
    <3>2. Commit(r)
      BY <2>10, <3>1 DEF Commit, Apply
    <3>3. QED
      BY <2>10, <3>2 DEF Step
  <2>11. CASE pc[r] = "reply"
    <3>1. Reply(r)
      BY <2>11 DEF Reply
    <3>2. QED
      BY <2>11, <3>1 DEF Step
  <2>12. QED
    BY <2>2, <2>4, <2>5, <2>6, <2>7, <2>8, <2>9, <2>10, <2>11 DEF InFlight
<1>3. QED
  BY <1>1, <1>2

(***************************************************************************)
(* While any request is in flight, some handler can take a step: the       *)
(* service as a whole never gets stuck, whatever its handlers have locked. *)
(***************************************************************************)
THEOREM SomebodyGoesOn ==
    Spec => []((\E r \in Requests : pc[r] \in InFlight)
                   => \E r \in Requests : CanStep(r))
<1>1. ASSUME IInv, NEW r \in Requests, pc[r] \in InFlight
      PROVE  \E x \in Requests : CanStep(x)
  <2>1. CASE CanStep(r)
    BY <2>1
  <2>2. CASE ~CanStep(r)
    <3>1. PICK x \in Requests : WaitsFor(r, x)
      BY <1>1, <2>2 DEF CanStep
    <3>2. session[x] # NoWrites
      BY <3>1, WaitedForHold
    <3>3. pc[x] \in InFlight
      BY <1>1, <3>2 DEF IInv, TypeOK, SessionShape
    <3>4. QED
      BY <1>1, <3>2, <3>3, HoldersDoNotWait DEF CanStep
  <2>3. QED
    BY <2>1, <2>2
<1>2. IInv => ((\E r \in Requests : pc[r] \in InFlight)
                   => \E r \in Requests : CanStep(r))
  BY <1>1
<1>3. QED
  BY <1>2, InductiveInvariant, PTL

-----------------------------------------------------------------------------
(* How far requests are: the way to the end of each of them                *)

\* The stages that a handler may still have before it.
Left == [new |-> 7, insert |-> 6, update |-> 6, confirm |-> 5, free |-> 5,
         invalidate |-> 4, publish |-> 3, commit |-> 2, reply |-> 1, done |-> 0]

LEMMA LeftValues ==
    /\ Left["new"] = 7 /\ Left["insert"] = 6 /\ Left["update"] = 6
    /\ Left["confirm"] = 5 /\ Left["free"] = 5 /\ Left["invalidate"] = 4
    /\ Left["publish"] = 3 /\ Left["commit"] = 2 /\ Left["reply"] = 1
    /\ Left["done"] = 0
BY DEF Left

\* A step of r is the next stage of r, or the end of it.
Onward(r) ==
    /\ \A q \in Requests \ {r} : pc'[q] = pc[q]
    /\ pc'[r] \in {"done"} \cup InFlight
    /\ Left[pc'[r]] < Left[pc[r]]

LEMMA RequestOnward ==
    ASSUME IInv, NEW r \in Requests, Arrive(r) \/ Step(r) \/ Environment(r)
    PROVE  Onward(r)
<1>1. pc \in [Requests -> {"new", "done"} \cup InFlight]
  BY DEF IInv, TypeOK
<1>2. ASSUME NEW label \in {"done"} \cup InFlight, pc' = [pc EXCEPT ![r] = label],
             Left[label] < Left[pc[r]]
      PROVE  Onward(r)
  BY <1>1, <1>2 DEF Onward
<1>3. CASE Arrive(r)
  <2>1. pc[r] = "new" /\ \E label \in {"insert", "update", "done"} :
                             pc' = [pc EXCEPT ![r] = label]
    BY <1>3 DEF Arrive, RequestBooking, RequestCancel, Reject, Finish, Goto
  <2>2. QED
    <3>1. \A label \in {"insert", "update", "done"} : Left[label] < Left[pc[r]]
      BY <2>1, LeftValues
    <3>2. QED
      BY <1>2, <2>1, <3>1 DEF InFlight
<1>4. CASE Environment(r)
  <2>1. pc[r] \in {"new"} \cup InFlight /\ pc' = [pc EXCEPT ![r] = "done"]
    BY <1>4 DEF Environment, Fail, PublishUnacknowledged, CommitUnacknowledged,
                CanCommit, Finish, InFlight
  <2>2. QED
    BY <1>2, <2>1, LeftValues DEF InFlight
<1>5. CASE Step(r)
  <2>1. pc[r] \in InFlight /\ \E label \in {After[pc[r]], "done"} :
                                  pc' = [pc EXCEPT ![r] = label]
    BY <1>5 DEF Step, Insert, Confirm, UpdateStatus, MarkFree, Invalidate, Publish,
                Commit, CanCommit, Reply, Finish, Goto, InFlight, After
  <2>2. QED
    <3>1. /\ Left[After[pc[r]]] < Left[pc[r]] /\ Left["done"] < Left[pc[r]]
          /\ After[pc[r]] \in {"done"} \cup InFlight
      BY <2>1, LeftValues DEF After, InFlight
    <3>2. QED
      BY <1>2, <2>1, <3>1
<1>6. QED
  BY <1>3, <1>4, <1>5

\* No request goes back a stage, and one of them goes on.
Forward ==
    /\ \A r \in Requests : Left[pc'[r]] <= Left[pc[r]]
    /\ \E r \in Requests : Left[pc'[r]] < Left[pc[r]]

LEMMA StepForward ==
    ASSUME IInv, [Next]_vars
    PROVE  [Forward]_vars
<1>1. pc \in [Requests -> {"new", "done"} \cup InFlight]
  BY DEF IInv, TypeOK
<1>2. \A r \in Requests : Left[pc[r]] \in Nat
  BY <1>1, LeftValues DEF InFlight
<1>3. ASSUME NEW r \in Requests, Onward(r)
      PROVE  Forward
  <2>1. Left[pc'[r]] \in Nat
    BY <1>3, LeftValues DEF Onward, InFlight
  <2>2. \A q \in Requests \ {r} : Left[pc'[q]] <= Left[pc[q]]
    BY <1>2, <1>3 DEF Onward
  <2>3. QED
    BY <1>2, <1>3, <2>1, <2>2 DEF Onward, Forward
<1>4. CASE \E r \in Requests : Arrive(r) \/ Step(r) \/ Environment(r)
  BY <1>3, <1>4, RequestOnward
<1>5. CASE Crash
  BY <1>1, <1>5, LeftValues DEF Crash, Forward, InFlight
<1>6. CASE AllDone \/ UNCHANGED vars
  BY <1>6 DEF AllDone
<1>7. QED
  BY <1>4, <1>5, <1>6 DEF Next

(***************************************************************************)
(* Every step of the service, be it a failure or a crash, brings some      *)
(* request closer to its end and none back: no handler retries, and so N   *)
(* requests are over after at most 7 * N steps.                            *)
(***************************************************************************)
THEOREM RequestsOnlyGoForward == Spec => [][Forward]_vars
<1>1. IInv /\ [Next]_vars => [Forward]_vars
  BY StepForward
<1>2. QED
  BY <1>1, InductiveInvariant, PTL DEF Spec

\* r never waits for x any more.
NeverAgain(r, x) == <>[](~WaitsFor(r, x))

(***************************************************************************)
(* As long as the event loop goes on with the handler of x, no other one   *)
(* waits for it for ever, nor again and again: it locks once.              *)
(***************************************************************************)
THEOREM WaitsEndForGood ==
    ASSUME NEW r \in Requests, NEW x \in Requests
    PROVE  Spec /\ GoesOn(x) => NeverAgain(r, x)
<1> DEFINE Holds == session[x] # NoWrites
           Over == pc[x] \in {"reply", "done"}
<1>1. IInv /\ Over => ~Holds
  BY DEF IInv, SessionShape
<1>2. IInv /\ Holds /\ IInv' /\ [Next]_vars => Holds' \/ Over'
  <2> SUFFICES ASSUME IInv, Holds, IInv', [Next]_vars, ~Over', ~Holds'
               PROVE  FALSE
    OBVIOUS
  <2>1. pc[x] \in Holding
    BY DEF IInv, TypeOK, SessionShape, InFlight, Holding
  <2>2. pc'[x] \in Holding
    BY <2>1, HoldersMove DEF Holding, After
  <2>3. QED
    BY <2>2 DEF IInv, SessionShape, Holding, Writing, NoWrites
<1>3. IInv /\ Over /\ [Next]_vars => Over'
  <2> SUFFICES ASSUME IInv, Over, [Next]_vars
               PROVE  Over'
    OBVIOUS
  <2>1. pc \in [Requests -> {"new", "done"} \cup InFlight]
    BY DEF IInv, TypeOK
  <2>2. ASSUME NEW q \in Requests, Onward(q)
        PROVE  Over'
    <3>1. pc'[x] = pc[x] \/ q = x
      BY <2>2 DEF Onward
    <3>2. CASE q = x
      BY <2>2, <3>2, LeftValues DEF Onward, InFlight
    <3>3. QED
      BY <3>1, <3>2
  <2>3. CASE Crash
    BY <2>1, <2>3 DEF Crash
  <2>4. CASE AllDone \/ UNCHANGED vars
    BY <2>4 DEF AllDone, vars
  <2>5. QED
    BY <2>2, <2>3, <2>4, RequestOnward DEF Next
<1>4. WaitsFor(r, x) => Holds
  BY WaitedForHold
<1>5. Spec /\ GoesOn(x) => Releases(x)
  BY LocksAreReleased
<1>6. session[x] = NoWrites => ~Holds
  OBVIOUS
<1>7. Spec => []IInv /\ [][Next]_vars
  BY InductiveInvariant, PTL DEF Spec
<1>8. QED
  BY <1>1, <1>2, <1>3, <1>4, <1>5, <1>6, <1>7, PTL DEF NeverAgain, Releases

\* r comes to its end for good; it is held up again and again; no more.
EndsForGood(r) == <>[](pc[r] \notin InFlight)
HeldUpAgain(r) == []<>(\E x \in Requests : WaitsFor(r, x))
HeldUpNoMore(r) == <>[](\A x \in Requests : ~WaitsFor(r, x))

(***************************************************************************)
(* A request that the event loop goes on with ends, unless it is held up   *)
(* by locks or unique entries again and again without end.                 *)
(***************************************************************************)
THEOREM RequestEnds ==
    ASSUME NEW r \in Requests
    PROVE  Spec /\ GoesOn(r) => EndsForGood(r) \/ HeldUpAgain(r)
<1> DEFINE Below(k) == Left[pc[r]] <= k
           Busy == pc[r] \in InFlight
           HeldUp == \E x \in Requests : WaitsFor(r, x)
<1>1. ASSUME IInv PROVE Left[pc[r]] \in Nat
  <2>1. pc[r] \in {"new", "done"} \cup InFlight
    BY <1>1 DEF IInv, TypeOK
  <2>2. QED
    BY <2>1, LeftValues DEF InFlight
<1>2. ASSUME IInv, IInv', [Next]_vars, NEW k \in Nat, Below(k)
      PROVE  Below(k)'
  <2>1. Left[pc'[r]] <= Left[pc[r]]
    <3>1. Forward \/ vars' = vars
      BY <1>2, StepForward
    <3>2. QED
      BY <1>1, <1>2, <3>1 DEF Forward, vars
  <2>2. Left[pc[r]] \in Nat /\ Left[pc'[r]] \in Nat
    <3>1. pc'[r] \in {"new", "done"} \cup InFlight
      BY <1>2 DEF IInv, TypeOK
    <3>2. QED
      BY <1>1, <1>2, <3>1, LeftValues DEF InFlight
  <2>3. QED
    BY <1>2, <2>1, <2>2
<1>3. ASSUME IInv, IInv', <<Step(r)>>_vars, NEW k \in Nat, Below(k + 1)
      PROVE  Below(k)'
  <2>1. Left[pc'[r]] < Left[pc[r]]
    BY <1>3, RequestOnward DEF Onward
  <2>2. Left[pc[r]] \in Nat /\ Left[pc'[r]] \in Nat
    <3>1. pc'[r] \in {"new", "done"} \cup InFlight
      BY <1>3 DEF IInv, TypeOK
    <3>2. QED
      BY <1>1, <1>3, <3>1, LeftValues DEF InFlight
  <2>3. QED
    BY <1>3, <2>1, <2>2
<1>4. IInv /\ Busy => Below(6)
  BY LeftValues DEF InFlight
<1>5. IInv /\ ~Busy /\ Below(6) => Below(0)
  BY LeftValues DEF IInv, TypeOK, InFlight
<1>6. Below(0) => ~Busy
  BY LeftValues DEF InFlight
<1>7. ~CanStep(r) /\ ~HeldUp => ~Busy
  BY DEF CanStep
<1>8. /\ IInv /\ IInv' /\ [Next]_vars /\ Below(6) => Below(6)'
      /\ IInv /\ IInv' /\ [Next]_vars /\ Below(5) => Below(5)'
      /\ IInv /\ IInv' /\ [Next]_vars /\ Below(4) => Below(4)'
      /\ IInv /\ IInv' /\ [Next]_vars /\ Below(3) => Below(3)'
      /\ IInv /\ IInv' /\ [Next]_vars /\ Below(2) => Below(2)'
      /\ IInv /\ IInv' /\ [Next]_vars /\ Below(1) => Below(1)'
      /\ IInv /\ IInv' /\ [Next]_vars /\ Below(0) => Below(0)'
  BY <1>2
<1>9. /\ IInv /\ IInv' /\ Below(6) /\ <<Step(r)>>_vars => Below(5)'
      /\ IInv /\ IInv' /\ Below(5) /\ <<Step(r)>>_vars => Below(4)'
      /\ IInv /\ IInv' /\ Below(4) /\ <<Step(r)>>_vars => Below(3)'
      /\ IInv /\ IInv' /\ Below(3) /\ <<Step(r)>>_vars => Below(2)'
      /\ IInv /\ IInv' /\ Below(2) /\ <<Step(r)>>_vars => Below(1)'
      /\ IInv /\ IInv' /\ Below(1) /\ <<Step(r)>>_vars => Below(0)'
  BY <1>3
<1>10. Spec => []IInv /\ [][Next]_vars
  BY InductiveInvariant, PTL DEF Spec
<1>11. []IInv /\ [][Next]_vars /\ GoesOn(r) => <>[](~Busy) \/ []<>HeldUp
  BY <1>4, <1>5, <1>6, <1>7, <1>8, <1>9, PTL DEF GoesOn
<1>12. ~Busy => pc[r] \notin InFlight
  OBVIOUS
<1>13. QED
  BY <1>10, <1>11, <1>12, PTL DEF EndsForGood, HeldUpAgain

\* The event loop goes on with every handler, as in FairSpec.
HandlersGoOn == \A r \in Requests : GoesOn(r)

\* What holds of any finite set of requests: what each of them comes to for
\* good, all of them come to together.
ComeTogether ==
    /\ \A r \in Requests :
           (\A x \in Requests : NeverAgain(r, x)) => HeldUpNoMore(r)
    /\ (\A r \in Requests : EndsForGood(r)) => EveryRequestEnds

(***************************************************************************)
(* No request waits for ever: if the event loop goes on with every handler,*)
(* in the end none is on the way.  (ComeTogether is a tautology for finite *)
(* Requests, by an induction over temporal formulas.)                      *)
(***************************************************************************)
THEOREM RequestsEnd == Spec /\ HandlersGoOn /\ ComeTogether => EveryRequestEnds
<1>1. ASSUME NEW r \in Requests
      PROVE  Spec /\ HandlersGoOn /\ ComeTogether => EndsForGood(r)
  <2>1. \A x \in Requests : Spec /\ GoesOn(x) => NeverAgain(r, x)
    BY WaitsEndForGood
  <2>2. Spec /\ HandlersGoOn /\ ComeTogether => HeldUpNoMore(r)
    BY <2>1 DEF HandlersGoOn, ComeTogether
  <2>3. Spec /\ HandlersGoOn => EndsForGood(r) \/ HeldUpAgain(r)
    BY RequestEnds DEF HandlersGoOn
  <2>4. HeldUpNoMore(r) => ~HeldUpAgain(r)
    <3>1. (\A x \in Requests : ~WaitsFor(r, x)) => ~\E x \in Requests : WaitsFor(r, x)
      OBVIOUS
    <3>2. QED
      BY <3>1, PTL DEF HeldUpNoMore, HeldUpAgain
  <2>5. QED
    BY <2>2, <2>3, <2>4
<1>2. Spec /\ HandlersGoOn /\ ComeTogether => \A r \in Requests : EndsForGood(r)
  BY <1>1
<1>3. QED
  BY <1>2 DEF ComeTogether

-----------------------------------------------------------------------------
(* The refinement of SeatLedger                                            *)

\* Only a commit changes rows of bookings.
LEMMA OnlyCommitsWrite ==
    ASSUME [Next]_vars
    PROVE  \/ bookings' = bookings
           \/ \E r \in Requests : /\ pc[r] = "commit"
                                  /\ Apply(r)
                                  /\ published' = published
<1>1. ASSUME NEW r \in Requests, Arrive(r)
      PROVE  bookings' = bookings
  BY <1>1 DEF Arrive, RequestBooking, RequestCancel, Reject, dbVars
<1>2. ASSUME NEW r \in Requests, Step(r)
      PROVE  bookings' = bookings \/ Commit(r)
  BY <1>2 DEF Step, Insert, Confirm, UpdateStatus, MarkFree, Invalidate,
              Publish, Reply, dbVars
<1>3. ASSUME NEW r \in Requests, Environment(r)
      PROVE  bookings' = bookings \/ CommitUnacknowledged(r)
  BY <1>3 DEF Environment, Fail, PublishUnacknowledged, dbVars
<1>4. CASE Crash \/ AllDone \/ UNCHANGED vars
  BY <1>4 DEF Crash, AllDone, vars, dbVars
<1>5. ASSUME NEW r \in Requests, Commit(r) \/ CommitUnacknowledged(r)
      PROVE  pc[r] = "commit" /\ Apply(r) /\ published' = published
  BY <1>5 DEF Commit, CommitUnacknowledged, CanCommit
<1>6. QED
  BY <1>1, <1>2, <1>3, <1>4, <1>5 DEF Next

\* Only a publish hands an event to RabbitMQ.
LEMMA OnlyPublishAnnounces ==
    ASSUME [Next]_vars
    PROVE  \/ published' = published
           \/ \E r \in Requests : /\ pc[r] = "publish"
                                  /\ Emit(r)
                                  /\ bookings' = bookings
<1>1. ASSUME NEW r \in Requests, Arrive(r)
      PROVE  published' = published
  BY <1>1 DEF Arrive, RequestBooking, RequestCancel, Reject
<1>2. ASSUME NEW r \in Requests, Step(r)
      PROVE  published' = published \/ Publish(r)
  BY <1>2 DEF Step, Insert, Confirm, UpdateStatus, MarkFree, Invalidate,
              Commit, Reply
<1>3. ASSUME NEW r \in Requests, Environment(r)
      PROVE  published' = published \/ PublishUnacknowledged(r)
  BY <1>3 DEF Environment, Fail, CommitUnacknowledged
<1>4. CASE Crash \/ AllDone \/ UNCHANGED vars
  BY <1>4 DEF Crash, AllDone, vars
<1>5. ASSUME NEW r \in Requests, Publish(r) \/ PublishUnacknowledged(r)
      PROVE  pc[r] = "publish" /\ Emit(r) /\ bookings' = bookings
  BY <1>5 DEF Publish, PublishUnacknowledged, dbVars
<1>6. QED
  BY <1>1, <1>2, <1>3, <1>4, <1>5 DEF Next

\* A publish announces the event of its request, or announces it again.
LEMMA EmitAnnounces ==
    ASSUME IInv, NEW r \in Requests, pc[r] = "publish", Emit(r),
           bookings' = bookings
    PROVE  Ledger!Announce(req[r].booking, EventKind(r))
<1> DEFINE b == req[r].booking
           k == EventKind(r)
<1>1. TypeOK
  BY DEF IInv
<1>2. b \in Requests
  BY BookedByRequest DEF InFlight
<1>3. k \in Kinds
  BY DEF EventKind, Kinds
<1>4. published \in [Requests -> [Kinds -> Nat]]
  BY <1>1 DEF TypeOK
<1>5. \A c \in Requests, j \in Kinds :
          published'[c][j] = IF c = b /\ j = k THEN published[c][j] + 1
                                               ELSE published[c][j]
  BY <1>2, <1>3, <1>4 DEF Emit
<1>6. published[b][k] \in Nat
  BY <1>2, <1>3, <1>4
<1>7. Announced' = Announced \cup {<<b, k>>}
  <2> SUFFICES ASSUME NEW c \in Requests, NEW j \in Kinds
               PROVE  published'[c][j] > 0 <=>
                          published[c][j] > 0 \/ (c = b /\ j = k)
    BY <1>2, <1>3 DEF Announced
  <2>1. published[c][j] \in Nat
    BY <1>4
  <2>2. QED
    BY <1>5, <2>1
<1>8. SeatsHeld' = SeatsHeld
  BY DEF SeatsHeld, LedgerEntry, RowsOn
<1>9. k = "cancelled" => <<b, "confirmed">> \in Announced
  <2> HAVE k = "cancelled"
  <2>1. req[r].op = "cancel"
    BY BookedByRequest DEF EventKind, InFlight
  <2>2. b \in DOMAIN bookings
    BY <2>1 DEF IInv, RequestShape
  <2>3. published[b]["confirmed"] > 0
    BY <2>2 DEF IInv, AnnouncedBeforeVisible
  <2>4. QED
    BY <1>2, <2>3 DEF Announced, Kinds
<1>10. QED
  BY <1>7, <1>8, <1>9 DEF Ledger!Announce

\* The ledger and what a step makes of it, seat by seat.
LEMMA LedgerBySeat ==
    /\ SeatsHeld = [t \in Seats |-> SeatsHeld[t]]
    /\ SeatsHeld' = [t \in Seats |-> SeatsHeld'[t]]
    /\ \A t \in Seats : SeatsHeld[t] = LedgerEntry(t)
BY DEF SeatsHeld, LedgerEntry, RowsOn

\* How the ledger reads after a step that leaves the rows of other seats.
LEMMA LedgerAfter ==
    ASSUME NEW s \in Seats
    PROVE  SeatsHeld'[s] = LedgerEntry(s)'
BY DEF SeatsHeld, LedgerEntry, RowsOn

\* The commit of a creation is the one Hold of its seat.
LEMMA CreationHolds ==
    ASSUME IInv, NEW r \in Requests, pc[r] = "commit", Apply(r),
           published' = published, req[r].op = "create",
           NEW s \in Seats, s = req[r].seat
    PROVE  Ledger!Hold(s, r)
<1>1. /\ req[r].booking = r
      /\ RowsOn(s) = {}
      /\ DOMAIN bookings' = DOMAIN bookings \cup {r}
      /\ bookings'[r].seat = s
      /\ bookings'[r].status = "confirmed"
      /\ \A c \in DOMAIN bookings \ {r} : bookings'[c] = bookings[c]
  BY ApplyEffect
<1>2. r \notin DOMAIN bookings
  BY DEF IInv, RowsSettled
<1>3. RowsOn(s)' = {r}
  <2>1. \A c \in DOMAIN bookings : c # r /\ bookings[c].seat # s
    BY <1>1, <1>2 DEF RowsOn
  <2>2. \A c \in DOMAIN bookings' : bookings'[c].seat = s <=> c = r
    BY <1>1, <2>1
  <2>3. r \in DOMAIN bookings'
    BY <1>1
  <2>4. QED
    BY <2>2, <2>3 DEF RowsOn
<1>4. SeatsHeld'[s] = [state |-> "held", by |-> r]
  BY <1>1, <1>3, LedgerAfter DEF LedgerEntry
<1>5. ASSUME NEW t \in Seats \ {s}
      PROVE  SeatsHeld'[t] = SeatsHeld[t]
  <2>1. RowsOn(t)' = RowsOn(t)
    BY <1>1, <1>2 DEF RowsOn
  <2>2. \A c \in RowsOn(t) : bookings'[c] = bookings[c]
    BY <1>1, <1>2 DEF RowsOn
  <2>3. CASE RowsOn(t) = {}
    BY <2>1, <2>3, LedgerAfter, LedgerBySeat DEF LedgerEntry
  <2>4. CASE RowsOn(t) # {}
    <3> DEFINE c == CHOOSE c \in RowsOn(t) : TRUE
    <3>1. c \in RowsOn(t)
      BY <2>4
    <3>2. SeatsHeld'[t] = [state |-> IF bookings'[c].status = "cancelled"
                                     THEN "released" ELSE "held",
                           by |-> c]
      BY <2>1, <2>4, LedgerAfter DEF LedgerEntry
    <3>3. SeatsHeld[t] = [state |-> IF bookings[c].status = "cancelled"
                                    THEN "released" ELSE "held",
                          by |-> c]
      BY <2>4, LedgerBySeat DEF LedgerEntry
    <3>4. QED
      BY <2>2, <3>1, <3>2, <3>3
  <2>5. QED
    BY <2>3, <2>4
<1>6. SeatsHeld' = [SeatsHeld EXCEPT ![s] = [state |-> "held", by |-> r]]
  BY <1>1, <1>4, <1>5, LedgerBySeat
<1>7. SeatsHeld[s] = Ledger!Free
  BY <1>1 DEF SeatsHeld, LedgerEntry, Ledger!Free
<1>8. \A t \in Seats : SeatsHeld[t].by # r
  <2> TAKE t \in Seats
  <2>1. CASE RowsOn(t) = {}
    BY <2>1, BookingAssumption DEF SeatsHeld, LedgerEntry
  <2>2. CASE RowsOn(t) # {}
    BY <1>2, <2>2 DEF SeatsHeld, LedgerEntry, RowsOn
  <2>3. QED
    BY <2>1, <2>2
<1>9. <<r, "confirmed">> \in Announced
  BY <1>1 DEF IInv, PublishedBeforeCommit, EventKind, Announced, Kinds
<1>10. Announced' = Announced
  BY DEF Announced
<1>11. QED
  BY <1>6, <1>7, <1>8, <1>9, <1>10 DEF Ledger!Hold

\* The commit of a cancellation is the Release of its seat, the first time.
LEMMA CancellationReleases ==
    ASSUME IInv, NEW r \in Requests, pc[r] = "commit", Apply(r),
           published' = published, req[r].op = "cancel",
           NEW s \in Seats, s = req[r].seat,
           NEW b \in Requests, b = req[r].booking
    PROVE  Ledger!Release(s) \/ UNCHANGED <<SeatsHeld, Announced>>
<1>1. /\ b \in Requests
      /\ RowsOn(s) = {b}
      /\ DOMAIN bookings' = DOMAIN bookings \cup {b}
      /\ bookings'[b].seat = s
      /\ bookings'[b].status = "cancelled"
      /\ \A c \in DOMAIN bookings \ {b} : bookings'[c] = bookings[c]
  BY ApplyEffect
<1>2. b \in DOMAIN bookings /\ bookings[b].seat = s
  BY DEF IInv, RequestShape
<1>3. \A t \in Seats : RowsOn(t)' = RowsOn(t)
  <2> TAKE t \in Seats
  <2>1. DOMAIN bookings' = DOMAIN bookings
    BY <1>1, <1>2
  <2>2. \A c \in DOMAIN bookings : bookings'[c].seat = bookings[c].seat
    BY <1>1, <1>2
  <2>3. QED
    BY <2>1, <2>2 DEF RowsOn
<1>4. SeatsHeld'[s] = [state |-> "released", by |-> b]
  BY <1>1, <1>3, LedgerAfter DEF LedgerEntry
<1>5. LedgerEntry(s) = [state |-> IF bookings[b].status = "cancelled"
                                  THEN "released" ELSE "held",
                        by |-> b]
  BY <1>1 DEF LedgerEntry
<1>6. ASSUME NEW t \in Seats \ {s}
      PROVE  SeatsHeld'[t] = SeatsHeld[t]
  <2>1. RowsOn(t)' = RowsOn(t)
    BY <1>3
  <2>2. \A c \in RowsOn(t) : bookings'[c] = bookings[c]
    BY <1>1, <1>2 DEF RowsOn
  <2>3. CASE RowsOn(t) = {}
    BY <2>1, <2>3, LedgerAfter, LedgerBySeat DEF LedgerEntry
  <2>4. CASE RowsOn(t) # {}
    <3> DEFINE c == CHOOSE c \in RowsOn(t) : TRUE
    <3>1. c \in RowsOn(t)
      BY <2>4
    <3>2. SeatsHeld'[t] = [state |-> IF bookings'[c].status = "cancelled"
                                     THEN "released" ELSE "held",
                           by |-> c]
      BY <2>1, <2>4, LedgerAfter DEF LedgerEntry
    <3>3. SeatsHeld[t] = [state |-> IF bookings[c].status = "cancelled"
                                    THEN "released" ELSE "held",
                          by |-> c]
      BY <2>4, LedgerBySeat DEF LedgerEntry
    <3>4. QED
      BY <2>2, <3>1, <3>2, <3>3
  <2>5. QED
    BY <2>3, <2>4
<1>7. Announced' = Announced
  BY DEF Announced
<1>8. CASE bookings[b].status = "cancelled"
  BY <1>1, <1>4, <1>5, <1>6, <1>7, <1>8, LedgerBySeat
<1>9. CASE bookings[b].status # "cancelled"
  <2>1. SeatsHeld[s] = [state |-> "held", by |-> b]
    BY <1>1, <1>5, <1>9 DEF SeatsHeld
  <2>2. SeatsHeld' = [SeatsHeld EXCEPT ![s] = [state |-> "released", by |-> b]]
    BY <1>1, <1>4, <1>6, LedgerBySeat
  <2>3. [SeatsHeld[s] EXCEPT !.state = "released"] = [state |-> "released", by |-> b]
    BY <2>1
  <2>4. SeatsHeld' = [SeatsHeld EXCEPT ![s].state = "released"]
    BY <2>2, <2>3
  <2>5. <<b, "cancelled">> \in Announced
    BY <1>1 DEF IInv, PublishedBeforeCommit, EventKind, Announced, Kinds
  <2>6. QED
    BY <1>7, <2>1, <2>4, <2>5 DEF Ledger!Release
<1>10. QED
  BY <1>8, <1>9

\* The empty tables are the initial ledger.
LEMMA LedgerInit == Init => Ledger!Init
<1> SUFFICES ASSUME Init PROVE Ledger!Init
  OBVIOUS
<1>1. \A s \in Seats : RowsOn(s) = {}
  BY DEF Init, RowsOn
<1>2. SeatsHeld = [s \in Seats |-> Ledger!Free]
  BY <1>1 DEF SeatsHeld, LedgerEntry, Ledger!Free
<1>3. ASSUME NEW b \in Requests, NEW k \in Kinds
      PROVE  ~(published[b][k] > 0)
  BY <1>3 DEF Init
<1>4. Announced = {}
  BY <1>3 DEF Announced
<1>5. QED
  BY <1>2, <1>4 DEF Ledger!Init

\* What a step does to the ledger is a step of the ledger, or nothing.
LEMMA LedgerStep == IInv /\ [Next]_vars => [Ledger!Next]_(Ledger!vars)
<1> SUFFICES ASSUME IInv, [Next]_vars
             PROVE  Ledger!Next \/ UNCHANGED <<SeatsHeld, Announced>>
  BY DEF Ledger!vars
<1>1. CASE bookings' = bookings /\ published' = published
  BY <1>1 DEF SeatsHeld, LedgerEntry, RowsOn, Announced
<1>2. ASSUME NEW r \in Requests, pc[r] = "publish", Emit(r), bookings' = bookings
      PROVE  Ledger!Next
  <2>1. req[r].booking \in Requests
    BY <1>2, BookedByRequest DEF InFlight
  <2>2. EventKind(r) \in {"confirmed", "cancelled"}
    BY DEF EventKind
  <2>3. QED
    BY <1>2, <2>1, <2>2, EmitAnnounces DEF Ledger!Next
<1>3. ASSUME NEW r \in Requests, pc[r] = "commit", Apply(r), published' = published
      PROVE  Ledger!Next \/ UNCHANGED <<SeatsHeld, Announced>>
  <2>1. /\ req[r].op \in {"create", "cancel"}
        /\ \E s \in Seats : s = req[r].seat
        /\ \E b \in Requests : b = req[r].booking
    BY <1>3, BookedByRequest DEF InFlight
  <2>2. CASE req[r].op = "create"
    BY <1>3, <2>1, <2>2, CreationHolds DEF Ledger!Next
  <2>3. CASE req[r].op = "cancel"
    BY <1>3, <2>1, <2>3, CancellationReleases DEF Ledger!Next
  <2>4. QED
    BY <2>1, <2>2, <2>3
<1>4. \/ bookings' = bookings
      \/ \E r \in Requests : /\ pc[r] = "commit"
                             /\ Apply(r)
                             /\ published' = published
  BY OnlyCommitsWrite
<1>5. \/ published' = published
      \/ \E r \in Requests : /\ pc[r] = "publish"
                             /\ Emit(r)
                             /\ bookings' = bookings
  BY OnlyPublishAnnounces
<1>6. CASE bookings' = bookings
  BY <1>1, <1>2, <1>5, <1>6
<1>7. CASE bookings' # bookings
  BY <1>3, <1>4, <1>7
<1>8. QED
  BY <1>6, <1>7

(***************************************************************************)
(* The handlers implement the ledger: a seat is free, then held by one     *)
(* booking, then released, each change announced before it happens.        *)
(***************************************************************************)
THEOREM Refinement == Spec => ImplementsLedger
  BY LedgerInit, LedgerStep, InductiveInvariant, PTL
     DEF Spec, ImplementsLedger, Ledger!Spec

-----------------------------------------------------------------------------
(* What is never undone                                                    *)

\* No row is deleted or given to another customer or seat, and no cancelled
\* booking comes back; what a request asked for and was answered stands; no
\* event is taken back.
Kept ==
    /\ \A b \in DOMAIN bookings :
           /\ b \in DOMAIN bookings'
           /\ bookings'[b].user = bookings[b].user
           /\ bookings'[b].seat = bookings[b].seat
           /\ bookings[b].status = "cancelled" => bookings'[b].status = "cancelled"
    /\ \A r \in Requests :
           pc[r] = "done" => pc'[r] = "done" /\ req'[r] = req[r] /\ answer'[r] = answer[r]
    /\ \A b \in Requests, k \in Kinds : published'[b][k] >= published[b][k]

\* A commit adds a row or cancels one.
LEMMA ApplyKeepsRows ==
    ASSUME IInv, NEW r \in Requests, pc[r] = "commit", Apply(r),
           NEW b \in DOMAIN bookings
    PROVE  /\ b \in DOMAIN bookings'
           /\ bookings'[b].user = bookings[b].user
           /\ bookings'[b].seat = bookings[b].seat
           /\ bookings[b].status = "cancelled" => bookings'[b].status = "cancelled"
<1> DEFINE c == req[r].booking
<1>1. /\ req[r].op \in {"create", "cancel"}
      /\ req[r].op = "create" => c = r
      /\ DOMAIN bookings' = DOMAIN bookings \cup {c}
      /\ \A d \in DOMAIN bookings \ {c} : bookings'[d] = bookings[d]
  BY ApplyEffect
<1>2. CASE b # c
  BY <1>1, <1>2
<1>3. CASE b = c
  <2>1. r \notin DOMAIN bookings
    BY DEF IInv, RowsSettled
  <2>2. req[r].op = "cancel"
    BY <1>1, <1>3, <2>1
  <2>3. session[r].status = "cancelled"
    BY <2>2 DEF IInv, SessionShape, Writing
  <2>4. bookings'[b] = [bookings[b] EXCEPT !.status = "cancelled"]
    BY <1>3, <2>2, <2>3 DEF Apply, Written
  <2>5. bookings[b] \in Row
    BY DEF IInv, TypeOK
  <2>6. QED
    BY <1>1, <2>4, <2>5 DEF Row
<1>4. QED
  BY <1>2, <1>3

(***************************************************************************)
(* The past is not rewritten, by no order of requests, failure or crash.   *)
(***************************************************************************)
THEOREM HistoryIsKept == Spec => [][Kept]_vars
<1>1. ASSUME IInv, [Next]_vars
      PROVE  Kept
  <2>1. /\ pc \in [Requests -> {"new", "done"} \cup InFlight]
        /\ published \in [Requests -> [Kinds -> Nat]]
        /\ req \in [Requests -> Request] /\ answer \in [Requests -> Codes]
    BY <1>1 DEF IInv, TypeOK
  <2>2. ASSUME NEW b \in DOMAIN bookings
        PROVE  /\ b \in DOMAIN bookings'
               /\ bookings'[b].user = bookings[b].user
               /\ bookings'[b].seat = bookings[b].seat
               /\ bookings[b].status = "cancelled" => bookings'[b].status = "cancelled"
    <3>1. CASE bookings' = bookings
      BY <2>2, <3>1
    <3>2. CASE \E r \in Requests : pc[r] = "commit" /\ Apply(r)
      BY <1>1, <2>2, <3>2, ApplyKeepsRows
    <3>3. QED
      BY <1>1, <3>1, <3>2, OnlyCommitsWrite
  <2>3. ASSUME NEW b \in Requests, NEW k \in Kinds
        PROVE  published'[b][k] >= published[b][k]
    <3>1. CASE published' = published
      <4>1. published[b][k] \in Nat
        BY <2>1
      <4>2. QED
        BY <3>1, <4>1
    <3>2. CASE \E r \in Requests : pc[r] = "publish" /\ Emit(r)
      BY <1>1, <3>2, EmitEffect
    <3>3. QED
      BY <1>1, <3>1, <3>2, OnlyPublishAnnounces
  <2>4. ASSUME NEW r \in Requests, pc[r] = "done"
        PROVE  pc'[r] = "done" /\ req'[r] = req[r] /\ answer'[r] = answer[r]
    <3>1. ASSUME NEW q \in Requests, Arrive(q) \/ Step(q) \/ Environment(q)
          PROVE  /\ q # r
                 /\ req'[r] = req[r] /\ answer'[r] = answer[r] /\ pc'[r] = pc[r]
      <4>1. Onward(q)
        BY <1>1, <3>1, RequestOnward
      <4>2. q # r
        BY <2>4, <4>1, LeftValues DEF Onward, InFlight
      <4>3. pc'[r] = pc[r]
        BY <4>1, <4>2 DEF Onward
      <4>4. CASE Arrive(q)
        <5>1. ASSUME NEW u, NEW route, NEW s, RequestBooking(q, u, route, s)
              PROVE  req'[r] = req[r] /\ answer'[r] = answer[r]
          BY <2>1, <4>2, <5>1 DEF RequestBooking, Reject, Finish
        <5>2. ASSUME NEW u, NEW b, RequestCancel(q, u, b)
              PROVE  req'[r] = req[r] /\ answer'[r] = answer[r]
          BY <2>1, <4>2, <5>2 DEF RequestCancel, Reject, Finish
        <5>3. QED
          BY <4>2, <4>3, <4>4, <5>1, <5>2 DEF Arrive
      <4>5. CASE Step(q)
        <5>1. req' = req /\ (answer' = answer \/ \E code : Finish(q, code))
          BY <4>5 DEF Step, Insert, Confirm, UpdateStatus, MarkFree, Invalidate,
                      Publish, Commit, Reply
        <5>2. QED
          BY <2>1, <4>2, <4>3, <5>1 DEF Finish
      <4>6. CASE Environment(q)
        BY <2>1, <4>2, <4>6 DEF Environment, Fail, PublishUnacknowledged,
                           CommitUnacknowledged, Finish
      <4>7. QED
        BY <3>1, <4>2, <4>3, <4>4, <4>5, <4>6
    <3>2. CASE Crash \/ AllDone \/ UNCHANGED vars
      BY <2>1, <2>4, <3>2 DEF Crash, AllDone, vars, InFlight
    <3>3. QED
      BY <1>1, <2>4, <3>1, <3>2 DEF Next
  <2>5. QED
    BY <2>2, <2>3, <2>4 DEF Kept
<1>2. IInv /\ [Next]_vars => [Kept]_vars
  BY <1>1
<1>3. QED
  BY <1>2, InductiveInvariant, PTL DEF Spec
=============================================================================
