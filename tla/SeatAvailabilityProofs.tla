----------------------- MODULE SeatAvailabilityProofs -----------------------
(* Theorems about SeatAvailability, for every number of requests, readers,  *)
(* routes, seats and failures.                                              *)
EXTENDS SeatAvailability, BookingServiceProofs

allVars == <<vars, cacheVars>>

Window == {"publish", "commit"}

(***************************************************************************)
(* The handlers of bookings do next to the cache what they do without it.  *)
(***************************************************************************)
LEMMA CacheStepIsBookingStep == CacheSpecNext => [Next]_vars
<1> SUFFICES ASSUME CacheSpecNext PROVE [Next]_vars
  OBVIOUS
<1>1. ASSUME NEW r \in Requests, InvalidateSeats(r)
      PROVE  Next
  BY <1>1 DEF InvalidateSeats, Next, Step
<1>2. ASSUME NEW r \in Requests, BookingStep(r)
      PROVE  Next
  BY <1>2 DEF BookingStep, Next, Step
<1>3. ASSUME NEW g \in Readers, ReaderStep(g)
      PROVE  UNCHANGED vars
  BY <1>3 DEF ReaderStep
<1>4. QED
  BY <1>1, <1>2, <1>3 DEF CacheSpecNext, CrashAll, Next

\* So that whatever holds of the booking service holds next to the cache.
THEOREM CacheRunsBookings == CacheSpec => Spec
<1>1. [CacheSpecNext]_allVars => [Next]_vars
  BY CacheStepIsBookingStep DEF allVars
<1>2. QED
  BY <1>1, PTL DEF CacheSpec, Spec, allVars

(***************************************************************************)
(* The empty cache satisfies the invariant.                                *)
(***************************************************************************)
LEMMA CacheInitInvariant == Init /\ CacheInit => CacheInv
<1> SUFFICES ASSUME Init, CacheInit PROVE CacheInv
  OBVIOUS
<1>1. CacheTypeOK
  BY DEF CacheInit, CacheTypeOK, EntriesOK
<1>2. FreshUnlessRaced /\ SeenUnlessRaced /\ SavedUnlessRaced
  BY DEF CacheInit, FreshUnlessRaced, SeenUnlessRaced, SavedUnlessRaced
<1>3. WindowRaced
  BY DEF Init, WindowRaced, InWindow
<1>4. QED
  BY <1>1, <1>2, <1>3 DEF CacheInv

(***************************************************************************)
(* A step of the bookings that leaves the cache alone: nobody enters the   *)
(* window, and whoever writes a seat is in it.                             *)
(***************************************************************************)
LEMMA QuietStep ==
    ASSUME CacheInv,
           UNCHANGED cacheVars,
           \A x \in Requests : pc'[x] \in Window => pc[x] \in Window /\ req'[x] = req[x],
           \/ seatBooked' = seatBooked
           \/ \E r \in Requests :
                  /\ pc[r] = "commit"
                  /\ \A s \in Seats : s # req[r].seat => seatBooked'[s] = seatBooked[s]
    PROVE  CacheInv'
<1> USE DEF cacheVars
<1>1. CacheTypeOK'
  BY DEF CacheInv, CacheTypeOK, EntriesOK
<1>2. WindowRaced'
  BY DEF CacheInv, WindowRaced, InWindow, Window
<1>3. CASE seatBooked' = seatBooked
  BY <1>1, <1>2, <1>3
     DEF CacheInv, FreshUnlessRaced, SeenUnlessRaced, SavedUnlessRaced, Committed
<1>4. ASSUME NEW r \in Requests,
             pc[r] = "commit",
             \A s \in Seats : s # req[r].seat => seatBooked'[s] = seatBooked[s]
      PROVE  FreshUnlessRaced' /\ SeenUnlessRaced' /\ SavedUnlessRaced'
  <2> DEFINE home == SeatRoute[req[r].seat]
  <2>1. ASSUME NEW route \in RouteIds, route # home
        PROVE  Committed(route)' = Committed(route)
    <3>1. \A s \in SeatsOf(route) : s \in Seats /\ s # req[r].seat
      BY <2>1 DEF SeatsOf
    <3>2. QED
      BY <1>4, <3>1 DEF Committed
  <2>2. InWindow(r, home)
    BY <1>4 DEF InWindow
  <2>3. FreshUnlessRaced'
    BY <2>1, <2>2 DEF CacheInv, FreshUnlessRaced, WindowRaced
  <2>4. SeenUnlessRaced'
    BY <2>1, <2>2 DEF CacheInv, CacheTypeOK, SeenUnlessRaced, WindowRaced
  <2>5. SavedUnlessRaced'
    BY <2>1, <2>2 DEF CacheInv, SavedUnlessRaced, WindowRaced
  <2>6. QED
    BY <2>3, <2>4, <2>5
<1>5. QED
  BY <1>1, <1>2, <1>3, <1>4 DEF CacheInv

\* Neither a handler of bookings at any other step, nor its end, nor a crash
\* enters the window; a commit writes the seat of its request.
LEMMA BookingStepInvariant ==
    ASSUME IInv, CacheInv, NEW r \in Requests, BookingStep(r)
    PROVE  CacheInv'
<1> USE DEF Window
<1>1. pc \in [Requests -> {"new", "done"} \cup InFlight] /\ seatBooked \in [Seats -> BOOLEAN]
  BY DEF IInv, TypeOK
<1>2. UNCHANGED cacheVars
  BY DEF BookingStep
<1>3. CASE Arrive(r)
  <2>1. pc[r] = "new" /\ seatBooked' = seatBooked
    BY <1>3 DEF Arrive, RequestBooking, RequestCancel, Reject, dbVars
  <2>2. pc' = [pc EXCEPT ![r] = "done"] \/ pc' = [pc EXCEPT ![r] = "insert"]
                                       \/ pc' = [pc EXCEPT ![r] = "update"]
    BY <1>3 DEF Arrive, RequestBooking, RequestCancel, Reject, Finish, Goto
  <2>3. \A x \in Requests : x # r => pc'[x] = pc[x] /\ (req'[x] = req[x] \/ req' = req)
    BY <1>1, <1>3, <2>2 DEF Arrive, RequestBooking, RequestCancel, Reject, IInv, TypeOK
  <2>4. QED
    BY <1>1, <1>2, <2>1, <2>2, <2>3, QuietStep
<1>4. CASE \/ Insert(r) \/ Confirm(r) \/ UpdateStatus(r) \/ MarkFree(r)
           \/ Reply(r) \/ Fail(r) \/ PublishUnacknowledged(r)
  <2>1. UNCHANGED <<seatBooked, req>>
    BY <1>4 DEF Insert, Confirm, UpdateStatus, MarkFree, Reply, Fail,
                PublishUnacknowledged, dbVars
  <2>2. \/ pc' = [pc EXCEPT ![r] = "done"] \/ pc' = [pc EXCEPT ![r] = "confirm"]
        \/ pc' = [pc EXCEPT ![r] = "free"] \/ pc' = [pc EXCEPT ![r] = "invalidate"]
    BY <1>4 DEF Insert, Confirm, UpdateStatus, MarkFree, Reply, Fail,
                PublishUnacknowledged, Finish, Goto
  <2>3. QED
    BY <1>1, <1>2, <2>1, <2>2, QuietStep
<1>5. CASE Publish(r)
  BY <1>1, <1>2, <1>5, QuietStep DEF Publish, Goto, dbVars
<1>6. CASE Commit(r) \/ CommitUnacknowledged(r)
  <2>1. pc[r] = "commit" /\ Apply(r) /\ req' = req
    BY <1>6 DEF Commit, CommitUnacknowledged, CanCommit
  <2>2. pc' = [pc EXCEPT ![r] = "reply"] \/ pc' = [pc EXCEPT ![r] = "done"]
    BY <1>6 DEF Commit, CommitUnacknowledged, Finish, Goto
  <2>3. \A s \in Seats : s # req[r].seat => seatBooked'[s] = seatBooked[s]
    BY <1>1, <2>1 DEF Apply
  <2>4. \A x \in Requests : pc'[x] \in Window => pc[x] \in Window /\ req'[x] = req[x]
    BY <1>1, <2>1, <2>2
  <2>5. QED
    BY <1>2, <2>1, <2>3, <2>4, QuietStep
<1>7. QED
  BY <1>3, <1>4, <1>5, <1>6 DEF BookingStep, Environment

(***************************************************************************)
(* An invalidation opens the window of its route, after it has dropped the *)
(* entry and disqualified the rows that readers still hold, and the copy   *)
(* of the entry that Redis has on disk.                                    *)
(***************************************************************************)
LEMMA InvalidateInvariant ==
    ASSUME IInv, CacheInv, NEW r \in Requests, InvalidateSeats(r)
    PROVE  CacheInv'
<1> DEFINE home == SeatRoute[req[r].seat]
<1>1. /\ pc[r] = "invalidate"
      /\ pc' = [pc EXCEPT ![r] = "publish"]
      /\ UNCHANGED <<seatBooked, req>>
      /\ UNCHANGED <<at, asked, seen, saved>>
      /\ savedRaced' = [savedRaced EXCEPT ![home] = (saved[home] # NoEntry)]
      /\ cache' = [cache EXCEPT ![home] = NoEntry]
      /\ entryRaced' = [entryRaced EXCEPT ![home] = FALSE]
      /\ raced' = [g \in Readers |-> raced[g] \/ (at[g] = "fill" /\ asked[g] = home)]
  BY DEF InvalidateSeats, Invalidate, Goto, DropEntry, dbVars
<1>2. pc \in [Requests -> {"new", "done"} \cup InFlight]
  BY DEF IInv, TypeOK
<1>3. home \in RouteIds
  BY <1>1, BookedByRequest, BookingAssumption DEF InFlight
<1>4. /\ CacheTypeOK /\ FreshUnlessRaced /\ WindowRaced /\ SeenUnlessRaced
      /\ SavedUnlessRaced
      /\ EntriesOK(cache, entryRaced) /\ EntriesOK(saved, savedRaced)
  BY DEF CacheInv, CacheTypeOK
<1>5. CacheTypeOK'
  <2>1. raced' \in [Readers -> BOOLEAN]
    BY <1>1
  <2>2. EntriesOK(cache, entryRaced)'
    BY <1>1, <1>4 DEF EntriesOK
  <2>3. EntriesOK(saved, savedRaced)'
    BY <1>1, <1>4 DEF EntriesOK
  <2>4. QED
    BY <1>1, <1>4, <2>1, <2>2, <2>3 DEF CacheTypeOK
<1>6. FreshUnlessRaced' /\ SavedUnlessRaced'
  BY <1>1, <1>3, <1>4 DEF EntriesOK, FreshUnlessRaced, SavedUnlessRaced, Committed
<1>7. SeenUnlessRaced'
  BY <1>1, <1>4 DEF SeenUnlessRaced, CacheTypeOK, Committed
<1>8. WindowRaced'
  <2> SUFFICES ASSUME NEW x \in Requests, NEW route \in RouteIds, InWindow(x, route)'
               PROVE  /\ cache'[route] = NoEntry \/ entryRaced'[route]
                      /\ saved'[route] = NoEntry \/ savedRaced'[route]
                      /\ \A g \in Readers : at'[g] = "fill" /\ asked'[g] = route => raced'[g]
    BY DEF WindowRaced
  <2>1. CASE route = home
    BY <1>1, <1>3, <1>4, <2>1 DEF CacheTypeOK, EntriesOK
  <2>2. CASE route # home
    <3>1. InWindow(x, route)
      BY <1>1, <1>2, <2>2 DEF InWindow
    <3>2. QED
      BY <1>1, <1>3, <1>4, <2>2, <3>1 DEF CacheTypeOK, EntriesOK, WindowRaced
  <2>3. QED
    BY <2>1, <2>2
<1>9. QED
  BY <1>5, <1>6, <1>7, <1>8 DEF CacheInv

(***************************************************************************)
(* Readers and Redis: the tables do not change.                            *)
(***************************************************************************)
LEMMA ReaderInvariant ==
    ASSUME CacheInv, NEW g \in Readers, ReaderStep(g), seatBooked \in [Seats -> BOOLEAN]
    PROVE  CacheInv'
<1>1. /\ CacheTypeOK /\ FreshUnlessRaced /\ WindowRaced /\ SeenUnlessRaced
      /\ SavedUnlessRaced
      /\ EntriesOK(cache, entryRaced) /\ EntriesOK(saved, savedRaced)
  BY DEF CacheInv, CacheTypeOK
<1>2. UNCHANGED <<seatBooked, pc, req, saved, savedRaced>>
  BY DEF ReaderStep, Miss, Select, Fill, ReadFails, savedVars, vars
<1>3. \A route \in RouteIds : Committed(route) \in [SeatsOf(route) -> BOOLEAN]
  BY DEF Committed, SeatsOf
<1>4. SavedUnlessRaced' /\ EntriesOK(saved, savedRaced)'
  BY <1>1, <1>2 DEF SavedUnlessRaced, EntriesOK, Committed
<1>5. ASSUME NEW route \in RouteIds, Miss(g, route)
      PROVE  CacheInv'
  <2> USE <1>1, <1>2, <1>4, <1>5 DEF Miss
  <2>1. CacheTypeOK'
    BY DEF CacheTypeOK
  <2>2. FreshUnlessRaced' /\ SeenUnlessRaced'
    BY DEF FreshUnlessRaced, SeenUnlessRaced, Committed, CacheTypeOK, EntriesOK
  <2>3. WindowRaced'
    BY DEF WindowRaced, InWindow, CacheTypeOK, EntriesOK
  <2>4. QED
    BY <2>1, <2>2, <2>3 DEF CacheInv
<1>6. CASE Select(g)
  <2> USE <1>1, <1>2, <1>4, <1>6 DEF Select
  <2>1. asked[g] \in RouteIds
    BY DEF CacheTypeOK
  <2>2. seen' \in [Readers -> {NoEntry} \cup Rows]
    BY <1>3, <2>1 DEF CacheTypeOK, Rows
  <2>3. CacheTypeOK'
    BY <1>3, <2>1, <2>2 DEF CacheTypeOK
  <2>4. FreshUnlessRaced' /\ SeenUnlessRaced'
    BY DEF FreshUnlessRaced, SeenUnlessRaced, Committed, CacheTypeOK, EntriesOK
  <2>5. WindowRaced'
    BY DEF WindowRaced, InWindow, CacheTypeOK, EntriesOK
  <2>6. QED
    BY <2>3, <2>4, <2>5 DEF CacheInv
<1>7. CASE Fill(g)
  <2> USE <1>1, <1>2, <1>4, <1>7 DEF Fill, Forget
  <2>1. asked[g] \in RouteIds /\ seen[g] \in [SeatsOf(asked[g]) -> BOOLEAN]
    BY DEF CacheTypeOK
  <2>2. EntriesOK(cache, entryRaced)'
    BY <2>1 DEF CacheTypeOK, EntriesOK, Rows
  <2>3. CacheTypeOK'
    BY <2>1, <2>2 DEF CacheTypeOK
  <2>4. SeenUnlessRaced'
    BY DEF SeenUnlessRaced, Committed, CacheTypeOK, EntriesOK
  <2>5. FreshUnlessRaced'
    BY <2>1 DEF FreshUnlessRaced, SeenUnlessRaced, Committed, CacheTypeOK, EntriesOK
  <2>6. WindowRaced'
    BY <2>1 DEF WindowRaced, InWindow, CacheTypeOK, EntriesOK
  <2>7. QED
    BY <2>3, <2>4, <2>5, <2>6 DEF CacheInv
<1>8. CASE ReadFails(g)
  <2> USE <1>1, <1>2, <1>4, <1>8 DEF ReadFails, Forget
  <2>1. CacheTypeOK'
    BY DEF CacheTypeOK
  <2>2. FreshUnlessRaced' /\ SeenUnlessRaced'
    BY DEF FreshUnlessRaced, SeenUnlessRaced, Committed, CacheTypeOK, EntriesOK
  <2>3. WindowRaced'
    BY DEF WindowRaced, InWindow, CacheTypeOK, EntriesOK
  <2>4. QED
    BY <2>1, <2>2, <2>3 DEF CacheInv
<1>9. QED
  BY <1>5, <1>6, <1>7, <1>8 DEF ReaderStep

\* Redis by itself: the tables and readers do not change, and what it holds or
\* has on disk is what it held or had, or nothing.
LEMMA RedisInvariant ==
    ASSUME CacheInv, UNCHANGED vars, UNCHANGED <<at, asked, seen, raced>>,
           CacheTypeOK',
           \A route \in RouteIds :
               /\ \/ cache'[route] = NoEntry
                  \/ cache'[route] = cache[route] /\ entryRaced'[route] = entryRaced[route]
                  \/ cache'[route] = saved[route] /\ entryRaced'[route] = savedRaced[route]
               /\ \/ saved'[route] = NoEntry
                  \/ saved'[route] = cache[route] /\ savedRaced'[route] = entryRaced[route]
                  \/ saved'[route] = saved[route] /\ savedRaced'[route] = savedRaced[route]
    PROVE  CacheInv'
<1> USE DEF CacheInv, vars
<1>1. FreshUnlessRaced' /\ SeenUnlessRaced' /\ SavedUnlessRaced'
  BY DEF FreshUnlessRaced, SeenUnlessRaced, SavedUnlessRaced, Committed
<1>2. WindowRaced'
  BY DEF WindowRaced, InWindow
<1>3. QED
  BY <1>1, <1>2

\* The end of a TTL, a snapshot, a restart.
LEMMA RedisStep ==
    ASSUME CacheInv, UNCHANGED vars,
           \/ \E route \in RouteIds : Expire(route) \/ ExpireSaved(route)
           \/ Save \/ RedisRestart
    PROVE  CacheInv'
<1>1. CacheTypeOK /\ EntriesOK(cache, entryRaced) /\ EntriesOK(saved, savedRaced)
  BY DEF CacheInv, CacheTypeOK
<1>2. ASSUME NEW route \in RouteIds, Expire(route)
      PROVE  CacheInv'
  <2>1. EntriesOK(cache, entryRaced)' /\ EntriesOK(saved, savedRaced)'
    BY <1>1, <1>2 DEF EntriesOK, Expire
  <2>2. CacheTypeOK'
    BY <1>1, <1>2, <2>1 DEF CacheTypeOK, Expire
  <2>3. QED
    BY <1>1, <1>2, <2>2, RedisInvariant DEF Expire, EntriesOK
<1>3. ASSUME NEW route \in RouteIds, ExpireSaved(route)
      PROVE  CacheInv'
  <2>1. EntriesOK(cache, entryRaced)' /\ EntriesOK(saved, savedRaced)'
    BY <1>1, <1>3 DEF EntriesOK, ExpireSaved
  <2>2. CacheTypeOK'
    BY <1>1, <1>3, <2>1 DEF CacheTypeOK, ExpireSaved
  <2>3. QED
    BY <1>1, <1>3, <2>2, RedisInvariant DEF ExpireSaved, EntriesOK
<1>4. CASE Save \/ RedisRestart
  <2>1. EntriesOK(cache, entryRaced)' /\ EntriesOK(saved, savedRaced)'
    BY <1>1, <1>4 DEF EntriesOK, Save, RedisRestart, savedVars
  <2>2. CacheTypeOK'
    BY <1>1, <1>4, <2>1 DEF CacheTypeOK, Save, RedisRestart
  <2>3. QED
    BY <1>1, <1>4, <2>2, RedisInvariant DEF Save, RedisRestart, savedVars
<1>5. QED
  BY <1>2, <1>3, <1>4

(***************************************************************************)
(* The invariant of the cache next to that of the bookings.                *)
(***************************************************************************)
THEOREM CacheInvariant == CacheSpec => []CacheInv
<1>1. IInv /\ CacheInv /\ [CacheSpecNext]_allVars => CacheInv'
  <2> SUFFICES ASSUME IInv, CacheInv, [CacheSpecNext]_allVars
               PROVE  CacheInv'
    OBVIOUS
  <2>1. CASE CrashAll
    <3>1. /\ pc' = [r \in Requests |-> IF pc[r] \in InFlight THEN "done" ELSE pc[r]]
          /\ UNCHANGED <<seatBooked, req>>
          /\ UNCHANGED cacheVars
      BY <2>1 DEF CrashAll, Crash, dbVars
    <3>2. QED
      BY <3>1, QuietStep DEF Window, InFlight
  <2>2. CASE UNCHANGED allVars
    BY <2>2, QuietStep DEF allVars, vars
  <2>3. seatBooked \in [Seats -> BOOLEAN]
    BY DEF IInv, TypeOK
  <2>4. QED
    BY <2>1, <2>2, <2>3, InvalidateInvariant, BookingStepInvariant,
       ReaderInvariant, RedisStep DEF CacheSpecNext
<1>2. CacheSpec => Init /\ CacheInit /\ [][CacheSpecNext]_allVars
  BY DEF CacheSpec, allVars
<1>3. QED
  BY <1>1, <1>2, CacheInitInvariant, CacheRunsBookings, InductiveInvariant, PTL

\* An entry whose rows were read outside of every window shows what is
\* committed (CacheSpec of list_seats and the bookings).
THEOREM EntriesFreshUnlessRaced == CacheSpec => []FreshUnlessRaced
<1>1. CacheInv => FreshUnlessRaced
  BY DEF CacheInv
<1>2. QED
  BY <1>1, CacheInvariant, PTL

\* The cache has its type.
THEOREM CacheTypeCorrect == CacheSpec => []CacheTypeOK
<1>1. CacheInv => CacheTypeOK
  BY DEF CacheInv
<1>2. QED
  BY <1>1, CacheInvariant, PTL

(***************************************************************************)
(* The end of a raced entry.                                               *)
(***************************************************************************)
\* No booking of the route is between its invalidation and its commit, and no
\* reader of the route remains that was raced by one.
Calm(route) ==
    /\ \A r \in Requests : ~InWindow(r, route)
    /\ \A g \in Readers : asked[g] = route => ~raced[g]

\* Weak fairness of Expire(route), whose only condition is that there is an
\* entry.
Expires(route) ==
    []<>(cache[route] = NoEntry) \/ []<><<Expire(route) /\ UNCHANGED vars>>_allVars

\* Neither the entry nor its copy on disk counts as raced.
Unraced(route) ==
    /\ cache[route] = NoEntry \/ ~entryRaced[route]
    /\ saved[route] = NoEntry \/ ~savedRaced[route]

\* An invalidation of the route opens a window.
LEMMA InvalidationIsNotCalm ==
    ASSUME TypeOK, NEW r \in Requests, InvalidateSeats(r),
           NEW route, Calm(route)'
    PROVE  route # SeatRoute[req[r].seat]
<1>1. pc'[r] = "publish" /\ req' = req
  BY DEF InvalidateSeats, Invalidate, Goto, TypeOK
<1>2. ~InWindow(r, route)'
  BY DEF Calm
<1>3. QED
  BY <1>1, <1>2 DEF InWindow

LEMMA UnracedStays ==
    ASSUME TypeOK, CacheInv, NEW route \in RouteIds, Calm(route), Unraced(route),
           Calm(route)', [CacheSpecNext]_allVars
    PROVE  Unraced(route)'
<1>1. CacheTypeOK /\ EntriesOK(cache, entryRaced) /\ EntriesOK(saved, savedRaced)
  BY DEF CacheInv, CacheTypeOK
<1>2. ASSUME UNCHANGED <<cache, entryRaced, saved, savedRaced>>
      PROVE  Unraced(route)'
  BY <1>2 DEF Unraced
<1>3. ASSUME NEW r \in Requests, InvalidateSeats(r)
      PROVE  Unraced(route)'
  <2>1. route # SeatRoute[req[r].seat]
    BY <1>3, InvalidationIsNotCalm
  <2>2. QED
    BY <1>1, <1>3, <2>1 DEF InvalidateSeats, DropEntry, Unraced, EntriesOK
<1>4. ASSUME NEW g \in Readers, ReaderStep(g)
      PROVE  Unraced(route)'
  <2>1. CASE Fill(g)
    BY <1>1, <2>1 DEF Fill, Calm, Unraced, CacheTypeOK, EntriesOK, savedVars
  <2>2. CASE (\E q \in RouteIds : Miss(g, q)) \/ Select(g) \/ ReadFails(g)
    BY <1>2, <2>2 DEF Miss, Select, ReadFails, savedVars
  <2>3. QED
    BY <1>4, <2>1, <2>2 DEF ReaderStep
<1>5. ASSUME NEW q \in RouteIds, Expire(q) \/ ExpireSaved(q)
      PROVE  Unraced(route)'
  BY <1>1, <1>5 DEF Expire, ExpireSaved, Unraced, EntriesOK
<1>6. CASE Save \/ RedisRestart
  BY <1>6 DEF Save, RedisRestart, savedVars, Unraced
<1>7. CASE (\E r \in Requests : BookingStep(r)) \/ CrashAll \/ UNCHANGED allVars
  BY <1>2, <1>7 DEF BookingStep, CrashAll, cacheVars, allVars
<1>8. QED
  BY <1>3, <1>4, <1>5, <1>6, <1>7 DEF CacheSpecNext

\* While no booking is between the two, only the end of its TTL, or a restart
\* that finds no copy of it, takes an entry away; either leaves none that is
\* raced.
LEMMA RacedEntryStays ==
    ASSUME TypeOK, CacheInv, NEW route \in RouteIds, Calm(route), Calm(route)',
           cache[route] # NoEntry, [CacheSpecNext]_allVars
    PROVE  cache'[route] # NoEntry \/ Unraced(route)'
<1>1. CacheTypeOK /\ EntriesOK(cache, entryRaced) /\ EntriesOK(saved, savedRaced)
  BY DEF CacheInv, CacheTypeOK
<1>2. ASSUME NEW r \in Requests, InvalidateSeats(r)
      PROVE  cache'[route] # NoEntry
  <2>1. route # SeatRoute[req[r].seat]
    BY <1>2, InvalidationIsNotCalm
  <2>2. QED
    BY <1>1, <1>2, <2>1 DEF InvalidateSeats, DropEntry, EntriesOK
<1>3. ASSUME NEW g \in Readers, ReaderStep(g)
      PROVE  cache'[route] # NoEntry
  <2>1. CASE Fill(g)
    <3>1. seen[g] # NoEntry
      BY <1>1, <2>1, CacheAssumption DEF Fill, CacheTypeOK, Rows
    <3>2. QED
      BY <1>1, <2>1, <3>1 DEF Fill, EntriesOK
  <2>2. CASE (\E q \in RouteIds : Miss(g, q)) \/ Select(g) \/ ReadFails(g)
    BY <2>2 DEF Miss, Select, ReadFails
  <2>3. QED
    BY <1>3, <2>1, <2>2 DEF ReaderStep
<1>4. ASSUME NEW q \in RouteIds, Expire(q)
      PROVE  cache'[route] # NoEntry \/ Unraced(route)'
  BY <1>1, <1>4 DEF Expire, Unraced, EntriesOK
<1>5. CASE RedisRestart
  BY <1>5 DEF RedisRestart, savedVars, Unraced
<1>6. CASE \/ \E r \in Requests : BookingStep(r)
           \/ \E q \in RouteIds : ExpireSaved(q)
           \/ Save \/ CrashAll \/ UNCHANGED allVars
  BY <1>6 DEF BookingStep, ExpireSaved, Save, CrashAll, cacheVars, allVars
<1>7. QED
  BY <1>2, <1>3, <1>4, <1>5, <1>6 DEF CacheSpecNext

\* The entry of the route shows the committed seats, or there is none, for good.
EntrySettles(route) == <>[](cache[route] \in {NoEntry, Committed(route)})
CalmInTheEnd(route) == <>[]Calm(route)

(***************************************************************************)
(* The race between list_seats and a booking does no lasting damage: once  *)
(* the bookings of a route have come to rest and the readers that one of   *)
(* them raced have ended, the TTL of the entry leaves a cache that never   *)
(* shows anything but the committed seats of the route.                    *)
(***************************************************************************)
THEOREM RacedEntriesEnd ==
    ASSUME NEW route \in RouteIds
    PROVE  CacheSpec /\ Expires(route) /\ CalmInTheEnd(route) => EntrySettles(route)
<1> DEFINE Empty == cache[route] = NoEntry
           Right == cache[route] \in {NoEntry, Committed(route)}
<1>1. IInv /\ CacheInv /\ Calm(route) /\ Calm(route)' /\ Unraced(route)
          /\ [CacheSpecNext]_allVars => Unraced(route)'
  BY UnracedStays DEF IInv
<1>2. IInv /\ CacheInv /\ Calm(route) /\ Calm(route)' /\ ~Empty
          /\ [CacheSpecNext]_allVars => ~Empty' \/ Unraced(route)'
  BY RacedEntryStays DEF IInv
<1>3. CacheInv /\ <<Expire(route) /\ UNCHANGED vars>>_allVars => Unraced(route)'
  BY DEF Expire, Unraced, CacheInv, CacheTypeOK, EntriesOK
<1>4. CacheInv /\ Unraced(route) => Right
  BY DEF Unraced, CacheInv, FreshUnlessRaced
<1>5. Empty => Right
  OBVIOUS
<1>6. CacheSpec => [][CacheSpecNext]_allVars
  BY DEF CacheSpec, allVars
<1>7. QED
  BY <1>1, <1>2, <1>3, <1>4, <1>5, <1>6, CacheInvariant, CacheRunsBookings,
     InductiveInvariant, PTL
     DEF Expires, CalmInTheEnd, EntrySettles

-----------------------------------------------------------------------------
(* The end of the readers that were raced                                  *)

\* Only a reader at work counts as raced.
RacedReads(g) == raced[g] => at[g] # "idle"

LEMMA RacedReadersRead ==
    ASSUME NEW g \in Readers
    PROVE  CacheSpec => []RacedReads(g)
<1>1. CacheInit => RacedReads(g)
  BY DEF CacheInit, RacedReads
<1>2. CacheInv /\ RacedReads(g) /\ [CacheSpecNext]_allVars => RacedReads(g)'
  <2> SUFFICES ASSUME CacheInv, RacedReads(g), [CacheSpecNext]_allVars
               PROVE  RacedReads(g)'
    OBVIOUS
  <2> USE DEF RacedReads
  <2>1. CacheTypeOK
    BY DEF CacheInv
  <2>2. ASSUME NEW r \in Requests, InvalidateSeats(r)
        PROVE  RacedReads(g)'
    BY <2>2 DEF InvalidateSeats
  <2>3. ASSUME NEW h \in Readers, ReaderStep(h)
        PROVE  RacedReads(g)'
    BY <2>1, <2>3 DEF ReaderStep, Miss, Select, Fill, ReadFails, Forget, CacheTypeOK
  <2>4. CASE \/ \E r \in Requests : BookingStep(r)
             \/ \E route \in RouteIds : Expire(route) \/ ExpireSaved(route)
             \/ Save \/ RedisRestart
             \/ CrashAll
             \/ UNCHANGED allVars
    BY <2>4 DEF BookingStep, Expire, ExpireSaved, Save, RedisRestart, CrashAll, cacheVars,
                allVars
  <2>5. QED
    BY <2>2, <2>3, <2>4 DEF CacheSpecNext
<1>3. CacheSpec => CacheInit /\ [][CacheSpecNext]_allVars
  BY DEF CacheSpec, allVars
<1>4. QED
  BY <1>1, <1>2, <1>3, CacheInvariant, PTL

\* No booking is on the way: none is in a window, none opens one.
Rest == \A r \in Requests : pc[r] \notin InFlight

LEMMA NoWindowAtRest ==
    ASSUME Rest, NEW route
    PROVE  \A r \in Requests : ~InWindow(r, route)
BY DEF Rest, InWindow, InFlight

LEMMA UnracedReadersStay ==
    ASSUME CacheInv, Rest, NEW g \in Readers, ~raced[g], [CacheSpecNext]_allVars
    PROVE  ~raced'[g]
<1>1. CacheTypeOK
  BY DEF CacheInv
<1>2. ASSUME NEW r \in Requests
      PROVE  ~InvalidateSeats(r)
  BY DEF InvalidateSeats, Invalidate, Rest, InFlight
<1>3. ASSUME NEW h \in Readers, ReaderStep(h)
      PROVE  ~raced'[g]
  <2>1. CASE Select(h)
    BY <1>1, <2>1, NoWindowAtRest DEF Select, CacheTypeOK
  <2>2. CASE (\E route \in RouteIds : Miss(h, route)) \/ Fill(h) \/ ReadFails(h)
    BY <1>1, <2>2 DEF Miss, Fill, ReadFails, CacheTypeOK
  <2>3. QED
    BY <1>3, <2>1, <2>2 DEF ReaderStep
<1>4. CASE \/ \E r \in Requests : BookingStep(r)
           \/ \E route \in RouteIds : Expire(route) \/ ExpireSaved(route)
           \/ Save \/ RedisRestart
           \/ CrashAll
           \/ UNCHANGED allVars
  BY <1>4 DEF BookingStep, Expire, ExpireSaved, Save, RedisRestart, CrashAll, cacheVars,
              allVars
<1>5. QED
  BY <1>2, <1>3, <1>4 DEF CacheSpecNext

\* Weak fairness of the steps of a reader at work, each of which ReadFails can
\* be.
ReaderGoesOn(g) ==
    []<>(at[g] = "idle") \/ []<><<ReaderStep(g) /\ at[g] # "idle">>_allVars

ReaderUnraced(g) == <>[](~raced[g])

(***************************************************************************)
(* A reader that was raced ends, and no later one is: there is nobody left *)
(* to race it.                                                             *)
(***************************************************************************)
THEOREM RacedReadersEnd ==
    ASSUME NEW g \in Readers
    PROVE  CacheSpec /\ EveryRequestEnds /\ ReaderGoesOn(g) => ReaderUnraced(g)
<1> DEFINE Idle == at[g] = "idle"
           Raced == raced[g]
<1>1. CacheInv /\ Rest /\ ~Raced /\ [CacheSpecNext]_allVars => ~Raced'
  BY UnracedReadersStay
<1>2. CacheInv /\ Rest /\ <<ReaderStep(g) /\ at[g] # "idle">>_allVars => ~Raced'
  <2> SUFFICES ASSUME CacheInv, Rest, ReaderStep(g), at[g] # "idle"
               PROVE  ~Raced'
    OBVIOUS
  <2>1. CacheTypeOK
    BY DEF CacheInv
  <2>2. CASE Select(g)
    BY <2>1, <2>2, NoWindowAtRest DEF Select, CacheTypeOK
  <2>3. CASE Fill(g) \/ ReadFails(g)
    BY <2>1, <2>3 DEF Fill, ReadFails, CacheTypeOK
  <2>4. QED
    BY <2>2, <2>3 DEF ReaderStep, Miss
<1>3. RacedReads(g) /\ Idle => ~Raced
  BY DEF RacedReads
<1>4. CacheSpec => [][CacheSpecNext]_allVars
  BY DEF CacheSpec, allVars
<1>5. EveryRequestEnds => <>[]Rest
  BY DEF EveryRequestEnds, Rest
<1>6. CacheSpec => []RacedReads(g)
  BY RacedReadersRead
<1>7. QED
  BY <1>1, <1>2, <1>3, <1>4, <1>5, <1>6, CacheInvariant, PTL
     DEF ReaderGoesOn, ReaderUnraced

-----------------------------------------------------------------------------
(* The cache settles                                                       *)

\* The event loop goes on with every reader, and Redis ends every TTL, as in
\* FairCacheSpec.
ReadersGoOn == \A g \in Readers : ReaderGoesOn(g)
EntriesExpire == \A route \in RouteIds : Expires(route)

NobodyRaced == <>[](\A g \in Readers : ~raced[g])

\* What holds of any finite set of readers, and of routes: what each of them
\* comes to for good, all of them come to together.
CacheComesTogether ==
    /\ (\A g \in Readers : ReaderUnraced(g)) => NobodyRaced
    /\ (\A route \in RouteIds : EntrySettles(route)) => CacheSettles

(***************************************************************************)
(* Once the bookings have settled, the cache does: the readers they raced  *)
(* end, the TTL ends the entries these have set, and from then on it only  *)
(* shows what is committed.                                                *)
(***************************************************************************)
THEOREM CacheSettlesAtRest ==
    CacheSpec /\ EveryRequestEnds /\ ReadersGoOn /\ EntriesExpire /\ CacheComesTogether
        => CacheSettles
<1>1. CacheSpec /\ EveryRequestEnds /\ ReadersGoOn => \A g \in Readers : ReaderUnraced(g)
  <2>1. \A g \in Readers : CacheSpec /\ EveryRequestEnds /\ ReaderGoesOn(g) => ReaderUnraced(g)
    BY RacedReadersEnd
  <2>2. QED
    BY <2>1 DEF ReadersGoOn
<1>2. CacheSpec /\ EveryRequestEnds /\ ReadersGoOn /\ CacheComesTogether => NobodyRaced
  BY <1>1 DEF CacheComesTogether
<1>3. ASSUME NEW route \in RouteIds
      PROVE  EveryRequestEnds /\ NobodyRaced => CalmInTheEnd(route)
  <2>1. Rest /\ (\A g \in Readers : ~raced[g]) => Calm(route)
    BY NoWindowAtRest DEF Calm
  <2>2. EveryRequestEnds => <>[]Rest
    BY DEF EveryRequestEnds, Rest
  <2>3. QED
    BY <2>1, <2>2, PTL DEF NobodyRaced, CalmInTheEnd
<1>4. \A route \in RouteIds :
          CacheSpec /\ Expires(route) /\ CalmInTheEnd(route) => EntrySettles(route)
  BY RacedEntriesEnd
<1>5. CacheSpec /\ EveryRequestEnds /\ NobodyRaced /\ EntriesExpire
          => \A route \in RouteIds : EntrySettles(route)
  BY <1>3, <1>4 DEF EntriesExpire
<1>6. QED
  BY <1>2, <1>5 DEF CacheComesTogether

\* With the bookings that settle by themselves (RequestsEnd): the whole of what
\* FairCacheSpec promises of the cache.
THEOREM CacheSettlesInTheEnd ==
    /\ CacheSpec
    /\ HandlersGoOn
    /\ ComeTogether
    /\ ReadersGoOn
    /\ EntriesExpire
    /\ CacheComesTogether
    => CacheSettles
BY CacheRunsBookings, RequestsEnd, CacheSettlesAtRest
=============================================================================
