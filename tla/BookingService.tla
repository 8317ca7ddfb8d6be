--------------------------- MODULE BookingService ---------------------------
(***************************************************************************)
(* The booking service: POST /bookings and DELETE /bookings/{id}, handled  *)
(* concurrently by one asyncio process over PostgreSQL.                    *)
(*                                                                         *)
(* A handler runs in one SQLAlchemy session, that is in one READ COMMITTED *)
(* transaction which get_db commits after the handler has returned and     *)
(* before the response leaves.  It can be interleaved with every other     *)
(* handler at each await; an action below is what it does between two of   *)
(* them.  Reads see committed rows; writes stay in the session until the   *)
(* commit; a row the session has written is locked until it ends, and an   *)
(* INSERT waits for an unfinished INSERT of the same bookings.seat_id.     *)
(*                                                                         *)
(* Every request is handled once; a retry is a request of its own.  The id *)
(* of a bookings row is written as the request that inserts it: ids come   *)
(* from a sequence, are never reused and are only compared for equality.   *)
(***************************************************************************)
EXTENDS Naturals

CONSTANTS
    Requests,      \* the requests clients send, and the ids of bookings
    Users,         \* authenticated user ids
    RouteIds,      \* route ids a client may name
    ActiveRoutes,  \* the routes that exist and have is_active
    Seats,         \* the rows of seats
    SeatRoute,     \* seats.route_id
    MaxFaults,     \* bound on the failures of the environment
    None           \* a seat id without a row, and "nothing yet"

ASSUME BookingAssumption ==
    /\ ActiveRoutes \subseteq RouteIds
    /\ SeatRoute \in [Seats -> RouteIds]
    /\ None \notin Requests \cup Users \cup Seats
    /\ MaxFaults \in Nat

VARIABLES
    seatBooked,    \* seats.is_booked, as committed
    bookings,      \* the committed rows of bookings, by id
    published,     \* how many events of each kind RabbitMQ took, per booking
    pc,            \* where the handler of a request is
    req,           \* what the request asks for
    session,       \* the uncommitted writes of the handler's session
    answer,        \* the HTTP status sent, 0 while there is none
    faults         \* failures of the environment so far

dbVars == <<seatBooked, bookings>>
vars == <<seatBooked, bookings, published, pc, req, session, answer, faults>>

-----------------------------------------------------------------------------

BookingStatus == {"pending", "confirmed", "cancelled"}
Kinds == {"confirmed", "cancelled"}
InFlight == {"insert", "confirm", "update", "free",
             "invalidate", "publish", "commit", "reply"}
Codes == {0, 200, 201, 400, 403, 404, 409, 500}

Row == [user : Users, seat : Seats, status : BookingStatus]
Request == [op : {"none", "create", "cancel"},
            user : Users \cup {None},
            seat : Seats \cup {None},
            booking : Requests \cup {None}]
Session == [status : BookingStatus \cup {"none"},
            flag : {"none", "booked", "free"}]

NoRequest == [op |-> "none", user |-> None, seat |-> None, booking |-> None]
NoWrites == [status |-> "none", flag |-> "none"]

TypeOK ==
    /\ seatBooked \in [Seats -> BOOLEAN]
    /\ DOMAIN bookings \subseteq Requests
    /\ bookings \in [DOMAIN bookings -> Row]
    /\ published \in [Requests -> [Kinds -> Nat]]
    /\ pc \in [Requests -> {"new", "done"} \cup InFlight]
    /\ req \in [Requests -> Request]
    /\ session \in [Requests -> Session]
    /\ answer \in [Requests -> Codes]
    /\ faults \in 0..MaxFaults

Init ==
    /\ seatBooked = [s \in Seats |-> FALSE]
    /\ bookings = [b \in {} |-> None]
    /\ published = [b \in Requests |-> [k \in Kinds |-> 0]]
    /\ pc = [r \in Requests |-> "new"]
    /\ req = [r \in Requests |-> NoRequest]
    /\ session = [r \in Requests |-> NoWrites]
    /\ answer = [r \in Requests |-> 0]
    /\ faults = 0

-----------------------------------------------------------------------------
(* What the database shows a session, and what makes it wait.              *)

RowsOn(s) == {b \in DOMAIN bookings : bookings[b].seat = s}

\* An unfinished session of x has inserted a bookings row for seat s.
Inserted(x, s) ==
    req[x].op = "create" /\ req[x].seat = s /\ session[x].status # "none"

\* The session of x has updated row b of bookings, or is about to commit an
\* insert of it, and so holds its lock.
LocksBooking(x, b) == req[x].booking = b /\ session[x].status # "none"

\* The session of x has flushed an UPDATE of seat s.  create_booking flushes
\* it with the new status; cancel_booking leaves it to the flush of the commit.
LocksSeat(x, s) ==
    req[x].op = "create" /\ req[x].seat = s /\ session[x].flag # "none"

\* The handler ends: with the response it sends, and with its session closed.
Finish(r, code) ==
    /\ pc' = [pc EXCEPT ![r] = "done"]
    /\ session' = [session EXCEPT ![r] = NoWrites]
    /\ answer' = [answer EXCEPT ![r] = code]

Goto(r, label) == pc' = [pc EXCEPT ![r] = label]

\* HTTPException before any write: get_db rolls back, the status is sent.
Reject(r, code) ==
    /\ Finish(r, code)
    /\ UNCHANGED <<dbVars, published, req, faults>>

-----------------------------------------------------------------------------
(* create_booking                                                          *)

SeatOnRoute(s, route) == s # None /\ SeatRoute[s] = route

\* The route and the seat are read and checked.  Routes do not change once
\* created, so that the two reads are one step.
RequestBooking(r, u, route, s) ==
    /\ pc[r] = "new"
    /\ \/ route \notin ActiveRoutes /\ Reject(r, 404)
       \/ /\ route \in ActiveRoutes
          /\ ~SeatOnRoute(s, route)
          /\ Reject(r, 404)
       \/ /\ route \in ActiveRoutes
          /\ SeatOnRoute(s, route)
          /\ seatBooked[s]
          /\ Reject(r, 409)
       \/ /\ route \in ActiveRoutes
          /\ SeatOnRoute(s, route)
          /\ ~seatBooked[s]
          /\ Goto(r, "insert")
          /\ req' = [req EXCEPT ![r] = [op |-> "create", user |-> u,
                                        seat |-> s, booking |-> r]]
          /\ UNCHANGED <<dbVars, published, session, answer, faults>>

\* Mutant of Insert: bookings.seat_id is not unique.
InsertAnyway(r) ==
    /\ pc[r] = "insert"
    /\ session' = [session EXCEPT ![r].status = "pending"]
    /\ Goto(r, "confirm")
    /\ UNCHANGED <<dbVars, published, req, answer, faults>>

\* Mutant of Insert: an IntegrityError is answered by trying again.
InsertRetries(r) ==
    /\ pc[r] = "insert"
    /\ \A x \in Requests : ~Inserted(x, req[r].seat)
    /\ \/ RowsOn(req[r].seat) # {} /\ UNCHANGED <<session, pc>>
       \/ /\ RowsOn(req[r].seat) = {}
          /\ session' = [session EXCEPT ![r].status = "pending"]
          /\ Goto(r, "confirm")
    /\ UNCHANGED <<dbVars, published, req, answer, faults>>

\* BookingRepository.create: INSERT with status PENDING.  The unique index on
\* seat_id makes it wait for the end of any session that inserted the same
\* seat; then a committed row, whatever its status, is an IntegrityError,
\* which no handler turns into anything but 500.
Insert(r) ==
    /\ pc[r] = "insert"
    /\ \A x \in Requests : ~Inserted(x, req[r].seat)
    /\ \/ /\ RowsOn(req[r].seat) # {}
          /\ Finish(r, 500)
       \/ /\ RowsOn(req[r].seat) = {}
          /\ session' = [session EXCEPT ![r].status = "pending"]
          /\ Goto(r, "confirm")
          /\ UNCHANGED answer
    /\ UNCHANGED <<dbVars, published, req, faults>>

\* Mutant of Confirm: the seat is not marked.
ConfirmUnmarked(r) ==
    /\ pc[r] = "confirm"
    /\ session' = [session EXCEPT ![r].status = "confirmed"]
    /\ Goto(r, "invalidate")
    /\ UNCHANGED <<dbVars, published, req, answer, faults>>

\* mark_booked, then update_status(CONFIRMED), whose flush sends both UPDATEs.
Confirm(r) ==
    /\ pc[r] = "confirm"
    /\ \A x \in Requests \ {r} : ~LocksSeat(x, req[r].seat)
    /\ session' = [session EXCEPT ![r] = [status |-> "confirmed",
                                          flag |-> "booked"]]
    /\ Goto(r, "invalidate")
    /\ UNCHANGED <<dbVars, published, req, answer, faults>>

-----------------------------------------------------------------------------
(* cancel_booking                                                          *)

\* The booking is read and checked.
RequestCancel(r, u, b) ==
    /\ pc[r] = "new"
    /\ \/ b \notin DOMAIN bookings /\ Reject(r, 404)
       \/ /\ b \in DOMAIN bookings
          /\ bookings[b].user # u
          /\ Reject(r, 403)
       \/ /\ b \in DOMAIN bookings
          /\ bookings[b].user = u
          /\ bookings[b].status = "cancelled"
          /\ Reject(r, 400)
       \/ /\ b \in DOMAIN bookings
          /\ bookings[b].user = u
          /\ bookings[b].status # "cancelled"
          /\ Goto(r, "update")
          /\ req' = [req EXCEPT ![r] = [op |-> "cancel", user |-> u,
                                        seat |-> bookings[b].seat,
                                        booking |-> b]]
          /\ UNCHANGED <<dbVars, published, session, answer, faults>>

\* update_status(CANCELLED).  The session's identity map keeps the status
\* read by RequestCancel, so the UPDATE is sent whatever the row says by now;
\* it waits for the lock and then changes the row it finds.
UpdateStatus(r) ==
    /\ pc[r] = "update"
    /\ \A x \in Requests \ {r} : ~LocksBooking(x, req[r].booking)
    /\ session' = [session EXCEPT ![r].status = "cancelled"]
    /\ Goto(r, "free")
    /\ UNCHANGED <<dbVars, published, req, answer, faults>>

\* Mutant of MarkFree: cancel_booking forgets the seat.
MarkFreeForgotten(r) ==
    /\ pc[r] = "free"
    /\ Goto(r, "invalidate")
    /\ UNCHANGED <<dbVars, published, req, session, answer, faults>>

\* mark_free: the seat is read and set free in the session only; setting a
\* flag to the value just read leaves nothing to flush.
MarkFree(r) ==
    /\ pc[r] = "free"
    /\ session' = [session EXCEPT ![r].flag =
                       IF seatBooked[req[r].seat] THEN "free" ELSE "none"]
    /\ Goto(r, "invalidate")
    /\ UNCHANGED <<dbVars, published, req, answer, faults>>

-----------------------------------------------------------------------------
(* The common end of both handlers                                         *)

\* Mutant of Invalidate: the event is left for after the commit, and lost.
InvalidateThenCommit(r) ==
    /\ pc[r] = "invalidate"
    /\ Goto(r, "commit")
    /\ UNCHANGED <<dbVars, published, req, session, answer, faults>>

\* cache.delete_pattern on the seats of the route.
Invalidate(r) ==
    /\ pc[r] = "invalidate"
    /\ Goto(r, "publish")
    /\ UNCHANGED <<dbVars, published, req, session, answer, faults>>

\* Mutant of EventKind: both handlers publish to the queue of the second.
EventKindCopied(r) == "cancelled"

EventKind(r) == IF req[r].op = "create" THEN "confirmed" ELSE "cancelled"

\* RabbitMQ takes the event of r.
Emit(r) ==
    published' = [published EXCEPT ![req[r].booking][EventKind(r)] = @ + 1]

\* broker.publish, before the commit.
Publish(r) ==
    /\ pc[r] = "publish"
    /\ Emit(r)
    /\ Goto(r, "commit")
    /\ UNCHANGED <<dbVars, req, session, answer, faults>>

\* The row of bookings as the session leaves it.
Written(r) ==
    IF req[r].op = "create"
    THEN [user |-> req[r].user, seat |-> req[r].seat,
          status |-> session[r].status]
    ELSE [bookings[req[r].booking] EXCEPT !.status = session[r].status]

\* Mutant of Apply: a cancellation deletes the row.
ApplyDeletes(r) ==
    /\ IF req[r].op = "create"
       THEN bookings' = [b \in DOMAIN bookings \cup {r} |->
                            IF b = r THEN Written(r) ELSE bookings[b]]
       ELSE bookings' = [b \in DOMAIN bookings \ {req[r].booking} |-> bookings[b]]
    /\ seatBooked' = [seatBooked EXCEPT ![req[r].seat] = (req[r].op = "create")]

\* COMMIT makes the session's writes visible, all of them at once.
Apply(r) ==
    /\ bookings' = [b \in DOMAIN bookings \cup {req[r].booking} |->
                       IF b = req[r].booking THEN Written(r) ELSE bookings[b]]
    /\ seatBooked' = IF session[r].flag = "none"
                     THEN seatBooked
                     ELSE [seatBooked EXCEPT ![req[r].seat] =
                               (session[r].flag = "booked")]

\* The commit flushes what is still dirty, so it may wait for the seat's lock.
CanCommit(r) ==
    /\ pc[r] = "commit"
    /\ session[r].flag # "none" =>
           \A x \in Requests \ {r} : ~LocksSeat(x, req[r].seat)

\* Mutant of SuccessCode: a cancellation has no content to answer with.
NoContent(r) == IF req[r].op = "create" THEN 201 ELSE 204

SuccessCode(r) == IF req[r].op = "create" THEN 201 ELSE 200

\* get_db's session.commit, which ends the transaction.
Commit(r) ==
    /\ CanCommit(r)
    /\ Apply(r)
    /\ Goto(r, "reply")
    /\ session' = [session EXCEPT ![r] = NoWrites]
    /\ UNCHANGED <<published, req, answer, faults>>

\* The response leaves.
Reply(r) ==
    /\ pc[r] = "reply"
    /\ Finish(r, SuccessCode(r))
    /\ UNCHANGED <<dbVars, published, req, faults>>

-----------------------------------------------------------------------------
(* Failures                                                                *)

Fault == faults < MaxFaults /\ faults' = faults + 1

\* Mutant of Fail: the exception is logged, and success answered.
FailSwallowed(r) ==
    /\ pc[r] \in ({"new"} \cup InFlight) \ {"reply"}
    /\ Fault
    /\ Finish(r, SuccessCode(r))
    /\ UNCHANGED <<dbVars, published, req>>

\* An awaited call raises (PostgreSQL, Redis or RabbitMQ), of the reads before
\* the first write also: get_db rolls back and the catch-all handler answers 500.
Fail(r) ==
    /\ pc[r] \in ({"new"} \cup InFlight) \ {"reply"}
    /\ Fault
    /\ Finish(r, 500)
    /\ UNCHANGED <<dbVars, published, req>>

\* RabbitMQ took the message, but its confirmation is lost and publish raises.
PublishUnacknowledged(r) ==
    /\ pc[r] = "publish"
    /\ Fault
    /\ Emit(r)
    /\ Finish(r, 500)
    /\ UNCHANGED <<dbVars, req>>

\* PostgreSQL committed, but the connection breaks before it says so.
CommitUnacknowledged(r) ==
    /\ CanCommit(r)
    /\ Fault
    /\ Apply(r)
    /\ Finish(r, 500)
    /\ UNCHANGED <<published, req>>

\* The process dies and is started again: the handlers in flight are gone,
\* PostgreSQL rolls open transactions back, nobody gets an answer.
Crash ==
    /\ \E r \in Requests : pc[r] \in InFlight
    /\ Fault
    /\ pc' = [r \in Requests |-> IF pc[r] \in InFlight THEN "done" ELSE pc[r]]
    /\ session' = [r \in Requests |-> NoWrites]
    /\ UNCHANGED <<dbVars, published, req, answer>>

-----------------------------------------------------------------------------

\* What the event loop runs on behalf of a request it has accepted.
Step(r) ==
    \/ Insert(r)
    \/ Confirm(r)
    \/ UpdateStatus(r)
    \/ MarkFree(r)
    \/ Invalidate(r)
    \/ Publish(r)
    \/ Commit(r)
    \/ Reply(r)

\* A client sends request r.
Arrive(r) ==
    \E u \in Users :
        \/ \E route \in RouteIds, s \in Seats \cup {None} :
               RequestBooking(r, u, route, s)
        \/ \E b \in Requests : RequestCancel(r, u, b)

Environment(r) ==
    \/ Fail(r)
    \/ PublishUnacknowledged(r)
    \/ CommitUnacknowledged(r)

\* Every request has been handled; the service waits for more of them.
AllDone == (\A r \in Requests : pc[r] = "done") /\ UNCHANGED vars

Next ==
    \/ \E r \in Requests : Arrive(r) \/ Step(r) \/ Environment(r)
    \/ Crash
    \/ AllDone

Spec == Init /\ [][Next]_vars

\* The event loop resumes every handler whose awaited call has completed, and
\* PostgreSQL grants a lock to a session that waits for it.
FairSpec == Spec /\ \A r \in Requests : WF_vars(Step(r))

-----------------------------------------------------------------------------
(* Properties                                                              *)

\* No seat is in two committed bookings, however many requests saw it free.
OneRowPerSeat ==
    \A b, c \in DOMAIN bookings : bookings[b].seat = bookings[c].seat => b = c

\* The flag that create_booking tests and GET /seats shows agrees with the
\* bookings: a seat is marked booked iff some committed booking of it is
\* confirmed, after any race, failure or crash between the two tables' writes.
SeatFlagAgrees ==
    \A s \in Seats :
        seatBooked[s] <=> \E b \in RowsOn(s) : bookings[b].status = "confirmed"

\* No change of a booking becomes visible before its event is in RabbitMQ, so
\* no failure or crash can lose the event of a booking that exists, and the
\* cancelled event of a booking never precedes its confirmed event.
AnnouncedBeforeVisible ==
    /\ \A b \in DOMAIN bookings :
           /\ published[b]["confirmed"] > 0
           /\ bookings[b].status = "cancelled" => published[b]["cancelled"] > 0
    /\ \A b \in Requests :
           published[b]["cancelled"] > 0 => published[b]["confirmed"] > 0

\* An answer is about what is durable: 201 means the row is committed, 200
\* that it is cancelled for good, and a refused creation leaves no row.
AnswersAreDurable ==
    \A r \in Requests :
        /\ answer[r] = 201 => r \in DOMAIN bookings
        /\ answer[r] = 200 => /\ req[r].booking \in DOMAIN bookings
                              /\ bookings[req[r].booking].status = "cancelled"
        /\ answer[r] \in {400, 403, 404, 409} => r \notin DOMAIN bookings

\* x holds what the session of r needs for its next statement.
WaitsFor(r, x) ==
    \/ pc[r] = "insert" /\ Inserted(x, req[r].seat)
    \/ pc[r] = "update" /\ x # r /\ LocksBooking(x, req[r].booking)
    \/ pc[r] = "confirm" /\ x # r /\ LocksSeat(x, req[r].seat)
    \/ /\ pc[r] = "commit" /\ session[r].flag # "none"
       /\ x # r /\ LocksSeat(x, req[r].seat)

\* Handlers keep their locks over awaits of Redis and RabbitMQ, and take those
\* of two tables one after the other.  Yet none that is waited for waits: there
\* is no chain of waits, and so no circle for PostgreSQL to break, and whoever
\* holds a lock can go on to its commit by itself.
NobodyWaitsForAWaiter ==
    \A r, x, y \in Requests : WaitsFor(r, x) => ~WaitsFor(x, y)

\* Nothing but a lock or unique entry of another session holds up a handler
\* in flight, once its awaited calls return: no handler can get stuck.
CanStep(r) == pc[r] \in InFlight /\ \A x \in Requests : ~WaitsFor(r, x)

OnlyLocksHoldUp ==
    \A r \in Requests : CanStep(r) <=> ENABLED <<Step(r)>>_vars

\* No request waits for ever: whatever locks and unique entries the others
\* hold, in the end none of the accepted requests is still on the way.
EveryRequestEnds == <>[](\A r \in Requests : pc[r] \notin InFlight)

-----------------------------------------------------------------------------
(* The inductive invariant behind the safety properties                    *)

Writing == {"invalidate", "publish", "commit"}

\* What a session has written is determined by how far its handler is.
SessionShape(r) ==
    /\ pc[r] \in {"new", "reply", "done"} => session[r] = NoWrites
    /\ pc[r] = "new" => req[r].op = "none" /\ answer[r] = 0
    /\ pc[r] \in InFlight => req[r].op # "none" /\ answer[r] = 0
    /\ pc[r] = "insert" => req[r].op = "create" /\ session[r] = NoWrites
    /\ pc[r] = "update" => req[r].op = "cancel" /\ session[r] = NoWrites
    /\ pc[r] = "confirm" => /\ req[r].op = "create"
                            /\ session[r] = [status |-> "pending", flag |-> "none"]
    /\ pc[r] = "free" => /\ req[r].op = "cancel"
                         /\ session[r] = [status |-> "cancelled", flag |-> "none"]
    /\ pc[r] \in Writing =>
           IF req[r].op = "create"
           THEN session[r] = [status |-> "confirmed", flag |-> "booked"]
           ELSE session[r].status = "cancelled" /\ session[r].flag # "booked"

\* What a request asks for stays true of the tables while it is handled.
RequestShape(r) ==
    /\ req[r].op = "create" => /\ req[r].booking = r
                               /\ req[r].user \in Users
                               /\ req[r].seat \in Seats
    /\ req[r].op = "cancel" => /\ req[r].booking \in DOMAIN bookings
                               /\ req[r].seat = bookings[req[r].booking].seat

\* A committed row is that of a creation which is over, or about to reply.
RowsSettled ==
    \A b \in DOMAIN bookings :
        /\ req[b].op = "create"
        /\ \/ pc[b] = "reply"
           \/ pc[b] = "done" /\ answer[b] \in {0, 201, 500}

\* What a handler is about to reply is true, and stays true.
RepliesHold ==
    \A r \in Requests :
        pc[r] = "reply" =>
            /\ req[r].op = "create" => r \in DOMAIN bookings
            /\ req[r].op = "cancel" => bookings[req[r].booking].status = "cancelled"

\* An uncommitted INSERT has its seat to itself: no committed row, no other
\* uncommitted one.  This is the unique index.
InsertsExclusive ==
    \A x \in Requests, s \in Seats :
        Inserted(x, s) =>
            /\ RowsOn(s) = {}
            /\ \A y \in Requests : Inserted(y, s) => y = x

\* Row locks exclude each other.
LocksExclusive ==
    \A x, y \in Requests :
        /\ req[x].op = "cancel" /\ session[x].status # "none"
        /\ req[y].op = "cancel" /\ session[y].status # "none"
        /\ req[x].booking = req[y].booking
        => x = y

\* A cancellation with no seat to free found it free, and it stays free.
FreedAlready ==
    \A r \in Requests :
        pc[r] \in Writing /\ req[r].op = "cancel" /\ session[r].flag = "none"
            => ~seatBooked[req[r].seat]

\* The event precedes the commit.
PublishedBeforeCommit ==
    \A r \in Requests :
        pc[r] = "commit" => published[req[r].booking][EventKind(r)] > 0

IInv ==
    /\ TypeOK
    /\ \A r \in Requests : SessionShape(r) /\ RequestShape(r)
    /\ RowsSettled
    /\ RepliesHold
    /\ InsertsExclusive
    /\ LocksExclusive
    /\ FreedAlready
    /\ PublishedBeforeCommit
    /\ OneRowPerSeat
    /\ SeatFlagAgrees
    /\ AnnouncedBeforeVisible
    /\ AnswersAreDurable

-----------------------------------------------------------------------------
(* The promise to clients and consumers: SeatLedger, read off the tables.  *)

LedgerEntry(s) ==
    IF RowsOn(s) = {}
    THEN [state |-> "free", by |-> None]
    ELSE LET b == CHOOSE b \in RowsOn(s) : TRUE
         IN  [state |-> IF bookings[b].status = "cancelled"
                        THEN "released" ELSE "held",
              by |-> b]

SeatsHeld == [s \in Seats |-> LedgerEntry(s)]

Announced == {e \in Requests \X Kinds : published[e[1]][e[2]] > 0}

Ledger == INSTANCE SeatLedger WITH
              Ids <- Requests,
              ledger <- SeatsHeld,
              announced <- Announced

\* The handlers, however they interleave and fail, implement the ledger: one
\* commit is one Hold or one Release, one publish at most one Announce, and
\* everything else, the second of two racing cancellations included, is
\* invisible.
ImplementsLedger == Ledger!Spec

-----------------------------------------------------------------------------
(* Statements of the documentation and the tests that the code contradicts *)

\* Without failures, a creation that loses its seat to a live booking is
\* answered 409.  (Two creations that both read the seat as free race for
\* the unique index, and the IntegrityError of the loser becomes 500.)
DuplicateGets409 ==
    \A r \in Requests :
        /\ faults = 0
        /\ req[r].op = "create"
        /\ answer[r] = 500
        => \A b \in RowsOn(req[r].seat) : bookings[b].status # "confirmed"

\* Without failures, a booking is cancelled once: one event, one refund.
\* (Two cancellations that both read the booking as confirmed both go on.)
CancelledOnce ==
    faults = 0 => \A b \in Requests : published[b]["cancelled"] <= 1

\* Without failures, a seat shown as available can be booked: a creation
\* that runs alone and whose seat is not marked booked can insert its row.
\* (The row of a cancelled booking keeps the unique seat_id for ever.)
CancelFreesSeat ==
    \A r \in Requests :
        /\ faults = 0
        /\ pc[r] = "insert"
        /\ ~seatBooked[req[r].seat]
        /\ \A x \in Requests \ {r} : pc[x] \notin InFlight
        => RowsOn(req[r].seat) = {}
=============================================================================
