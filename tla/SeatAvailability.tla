-------------------------- MODULE SeatAvailability --------------------------
(***************************************************************************)
(* GET /routes/{id}/seats next to the booking service: a read-through      *)
(* cache in Redis (app/services/cache.py), filled by list_seats and        *)
(* dropped by create_booking and cancel_booking before they commit.        *)
(*                                                                         *)
(* The key pattern of delete_pattern matches one key per route, so KEYS    *)
(* and DEL take effect together: at the KEYS that finds no key, or at the  *)
(* DEL.  Redis saves what it holds to disk now and then, and starts again  *)
(* with that: a restart may bring back an entry that was dropped since.    *)
(***************************************************************************)
EXTENDS BookingService

CONSTANTS
    Readers,   \* handlers of list_seats
    NoEntry    \* nothing in the cache, nothing read, nothing asked

VARIABLES
    cache,    \* the entry seats:{route}:all, or NoEntry
    at,       \* where a reader is
    asked,    \* the route it reads, or NoEntry
    seen,     \* the rows it has selected, or NoEntry
    saved,    \* the entries in the last snapshot of Redis
    \* History: what a reader selected, or an entry holds, was selected while
    \* a booking of the route was between its invalidation and its commit, or
    \* a booking of the route invalidated before the entry was set; or one has
    \* invalidated since the entry was saved.
    raced,
    entryRaced,
    savedRaced

savedVars == <<saved, savedRaced>>
cacheVars == <<cache, at, asked, seen, raced, entryRaced, saved, savedRaced>>

SeatsOf(route) == {s \in Seats : SeatRoute[s] = route}

\* What SELECT ... FROM seats WHERE route_id = route returns.
Committed(route) == [s \in SeatsOf(route) |-> seatBooked[s]]

Rows == UNION {[SeatsOf(route) -> BOOLEAN] : route \in RouteIds}

ASSUME CacheAssumption == NoEntry \notin Rows

\* A content of the cache, and the history of its entries.
EntriesOK(entries, racedEntries) ==
    /\ entries \in [RouteIds -> {NoEntry} \cup Rows]
    /\ \A route \in RouteIds :
           entries[route] = NoEntry \/ entries[route] \in [SeatsOf(route) -> BOOLEAN]
    /\ racedEntries \in [RouteIds -> BOOLEAN]

CacheTypeOK ==
    /\ EntriesOK(cache, entryRaced)
    /\ EntriesOK(saved, savedRaced)
    /\ at \in [Readers -> {"idle", "select", "fill"}]
    /\ asked \in [Readers -> RouteIds \cup {NoEntry}]
    /\ seen \in [Readers -> {NoEntry} \cup Rows]
    /\ \A g \in Readers :
           /\ at[g] # "idle" => asked[g] \in RouteIds
           /\ at[g] = "fill" => seen[g] \in [SeatsOf(asked[g]) -> BOOLEAN]
    /\ raced \in [Readers -> BOOLEAN]

CacheInit ==
    /\ cache = [route \in RouteIds |-> NoEntry]
    /\ at = [g \in Readers |-> "idle"]
    /\ asked = [g \in Readers |-> NoEntry]
    /\ seen = [g \in Readers |-> NoEntry]
    /\ raced = [g \in Readers |-> FALSE]
    /\ entryRaced = [route \in RouteIds |-> FALSE]
    /\ saved = cache
    /\ savedRaced = entryRaced

-----------------------------------------------------------------------------
(* list_seats                                                              *)

\* cache.get finds nothing, or an empty list, which is as good as nothing.
\* (A hit answers with the entry and changes nothing.)
Miss(g, route) ==
    /\ at[g] = "idle"
    /\ cache[route] = NoEntry \/ SeatsOf(route) = {}
    /\ at' = [at EXCEPT ![g] = "select"]
    /\ asked' = [asked EXCEPT ![g] = route]
    /\ UNCHANGED <<cache, seen, raced, entryRaced, savedVars>>

\* A booking of the route has invalidated the entry and not yet committed.
InWindow(r, route) ==
    pc[r] \in {"publish", "commit"} /\ SeatRoute[req[r].seat] = route

Select(g) ==
    /\ at[g] = "select"
    /\ at' = [at EXCEPT ![g] = "fill"]
    /\ seen' = [seen EXCEPT ![g] = Committed(asked[g])]
    /\ raced' = [raced EXCEPT ![g] = \E r \in Requests : InWindow(r, asked[g])]
    /\ UNCHANGED <<cache, asked, entryRaced, savedVars>>

Forget(g) ==
    /\ at' = [at EXCEPT ![g] = "idle"]
    /\ asked' = [asked EXCEPT ![g] = NoEntry]
    /\ seen' = [seen EXCEPT ![g] = NoEntry]

\* Mutant of Fill: the rows of one route are set under the key of all of them.
FillAll(g) ==
    /\ at[g] = "fill"
    /\ cache' = [route \in RouteIds |-> seen[g]]
    /\ entryRaced' = [route \in RouteIds |-> raced[g]]
    /\ raced' = [raced EXCEPT ![g] = FALSE]
    /\ Forget(g)
    /\ UNCHANGED savedVars

\* cache.set, and the answer.
Fill(g) ==
    /\ at[g] = "fill"
    /\ cache' = [cache EXCEPT ![asked[g]] = seen[g]]
    /\ entryRaced' = [entryRaced EXCEPT ![asked[g]] = raced[g]]
    /\ raced' = [raced EXCEPT ![g] = FALSE]
    /\ Forget(g)
    /\ UNCHANGED savedVars

\* PostgreSQL or Redis raises, or the process dies, under the reader.
ReadFails(g) ==
    /\ at[g] # "idle"
    /\ raced' = [raced EXCEPT ![g] = FALSE]
    /\ Forget(g)
    /\ UNCHANGED <<cache, entryRaced, savedVars>>

\* Mutant of Expire: the entry is set without a TTL.
ExpireNever(route) == FALSE /\ UNCHANGED cacheVars

\* The TTL of the entry is over, and with it that of the saved entry, which was
\* not set later: a snapshot keeps the time at which a key expires.
Expire(route) ==
    /\ cache[route] # NoEntry
    /\ cache' = [cache EXCEPT ![route] = NoEntry]
    /\ entryRaced' = [entryRaced EXCEPT ![route] = FALSE]
    /\ saved' = [saved EXCEPT ![route] = NoEntry]
    /\ savedRaced' = [savedRaced EXCEPT ![route] = FALSE]
    /\ UNCHANGED <<at, asked, seen, raced>>

\* The TTL of the saved entry is over, or the snapshot is lost.
ExpireSaved(route) ==
    /\ saved[route] # NoEntry
    /\ saved' = [saved EXCEPT ![route] = NoEntry]
    /\ savedRaced' = [savedRaced EXCEPT ![route] = FALSE]
    /\ UNCHANGED <<cache, at, asked, seen, raced, entryRaced>>

\* Redis saves what it holds: by its rules for saving, or as it is stopped.
Save ==
    /\ saved' = cache
    /\ savedRaced' = entryRaced
    /\ UNCHANGED <<cache, at, asked, seen, raced, entryRaced>>

RedisRestart ==
    /\ cache' = saved
    /\ entryRaced' = savedRaced
    /\ UNCHANGED <<at, asked, seen, raced, savedVars>>

-----------------------------------------------------------------------------
(* The booking service, whose Invalidate now has something to invalidate   *)

\* Mutant of DropEntry: the pattern does not match the key.
DropNothing(route) == UNCHANGED <<cache, entryRaced>>

\* cache.delete_pattern(f"seats:{route_id}:*")
DropEntry(route) ==
    /\ cache' = [cache EXCEPT ![route] = NoEntry]
    /\ entryRaced' = [entryRaced EXCEPT ![route] = FALSE]

InvalidateSeats(r) ==
    /\ Invalidate(r)
    /\ LET route == SeatRoute[req[r].seat]
       IN  /\ DropEntry(route)
           /\ raced' = [g \in Readers |->
                           raced[g] \/ (at[g] = "fill" /\ asked[g] = route)]
           /\ savedRaced' = [savedRaced EXCEPT ![route] = (saved[route] # NoEntry)]
    /\ UNCHANGED <<at, asked, seen, saved>>

BookingStep(r) ==
    /\ \/ Arrive(r)
       \/ Insert(r)
       \/ Confirm(r)
       \/ UpdateStatus(r)
       \/ MarkFree(r)
       \/ Publish(r)
       \/ Commit(r)
       \/ Reply(r)
       \/ Environment(r)
    /\ UNCHANGED cacheVars

ReaderStep(g) ==
    /\ \/ \E route \in RouteIds : Miss(g, route)
       \/ Select(g)
       \/ Fill(g)
       \/ ReadFails(g)
    /\ UNCHANGED vars

\* The readers in flight die with the process, or ReadFails has stopped them.
CrashAll ==
    /\ Crash
    /\ \A g \in Readers : at[g] = "idle"
    /\ UNCHANGED cacheVars

CacheSpecNext ==
    \/ \E r \in Requests : InvalidateSeats(r) \/ BookingStep(r)
    \/ \E g \in Readers : ReaderStep(g)
    \/ \E route \in RouteIds : (Expire(route) \/ ExpireSaved(route)) /\ UNCHANGED vars
    \/ (Save \/ RedisRestart) /\ UNCHANGED vars
    \/ CrashAll

CacheSpec == Init /\ CacheInit /\ [][CacheSpecNext]_<<vars, cacheVars>>

\* The event loop goes on with bookings and readers, and Redis expires every
\* key that has a TTL.
FairCacheSpec ==
    /\ CacheSpec
    /\ \A r \in Requests :
           WF_<<vars, cacheVars>>(InvalidateSeats(r) \/ (Step(r) /\ BookingStep(r)))
    /\ \A g \in Readers :
           WF_<<vars, cacheVars>>(ReaderStep(g) /\ at[g] # "idle")
    /\ \A route \in RouteIds :
           WF_<<vars, cacheVars>>(Expire(route) /\ UNCHANGED vars)

-----------------------------------------------------------------------------
(* Properties                                                              *)

\* A commit behind a filled entry is the only way to a wrong one: an entry
\* whose rows were selected outside of every booking's window between
\* invalidation and commit, set before the next invalidation, and not brought
\* back by a restart of Redis after it, shows the committed seats for as long
\* as it lives.
FreshUnlessRaced ==
    \A route \in RouteIds :
        cache[route] # NoEntry /\ ~entryRaced[route]
            => cache[route] = Committed(route)

\* What makes it so: while a booking of the route is in its window, there is
\* neither an entry, saved or not, nor rows about to be one that do not count as
\* raced, and what does not is as committed.
WindowRaced ==
    \A r \in Requests, route \in RouteIds :
        InWindow(r, route) =>
            /\ cache[route] = NoEntry \/ entryRaced[route]
            /\ saved[route] = NoEntry \/ savedRaced[route]
            /\ \A g \in Readers : at[g] = "fill" /\ asked[g] = route => raced[g]

SeenUnlessRaced ==
    \A g \in Readers :
        at[g] = "fill" /\ ~raced[g] => seen[g] = Committed(asked[g])

SavedUnlessRaced ==
    \A route \in RouteIds :
        saved[route] # NoEntry /\ ~savedRaced[route]
            => saved[route] = Committed(route)

CacheInv ==
    /\ CacheTypeOK
    /\ FreshUnlessRaced
    /\ WindowRaced
    /\ SeenUnlessRaced
    /\ SavedUnlessRaced

\* The race leaves no lasting damage: once the bookings have settled, the last
\* raced reader sets its rows, the TTL ends that entry and every copy of it that
\* restarts of Redis may bring back, and from then on the cache never shows
\* anything but the committed seats.
CacheSettles ==
    <>[](\A route \in RouteIds : cache[route] \in {NoEntry, Committed(route)})

\* Of what the documentation says: booking a seat invalidates the cached
\* seats of its route, so that an entry does not show as free a seat whose
\* booking has been answered 201.  (The entry is dropped before the commit;
\* list_seats may set the old rows again before it.)
BookedSeatNotShownFree ==
    \A r \in Requests :
        /\ answer[r] = 201
        /\ bookings[r].status = "confirmed"
        => LET entry == cache[SeatRoute[req[r].seat]]
           IN  entry = NoEntry \/ entry[req[r].seat]
=============================================================================
