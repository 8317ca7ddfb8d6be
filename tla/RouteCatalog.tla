---------------------------- MODULE RouteCatalog ----------------------------
(***************************************************************************)
(* The catalogue of routes: POST /routes creates a route with its seats    *)
(* and drops the cached pages before it commits; GET /routes counts the    *)
(* active routes, selects a page of them and caches both for a while.      *)
(*                                                                         *)
(* One combination of filters and page size; a page has a key of its own,  *)
(* so that KEYS and DEL of delete_pattern are two steps here.  A route is  *)
(* written as the request that creates it, is active from the start and    *)
(* never changes.  Who may create one is decided before the handler runs.  *)
(* Redis may restart from a snapshot and bring back pages dropped since.   *)
(***************************************************************************)
EXTENDS Naturals, FiniteSets, SequencesExt

CONSTANTS
    Creations,   \* the requests POST /routes, and the ids of routes
    Existing,    \* those whose routes the database holds when the service starts
    Departure,   \* routes.departure_at, a date
    Listings,    \* handlers of list_routes
    PageSize,    \* size
    MaxPage,     \* bound on the pages clients ask for
    MaxFaults,   \* bound on the failures of the environment
    NoPage       \* nothing in the cache

ASSUME CatalogAssumption ==
    /\ Departure \in [Creations -> Nat]
    /\ Existing \subseteq Creations /\ IsFiniteSet(Existing)
    /\ {PageSize, MaxPage} \subseteq Nat \ {0}
    /\ MaxFaults \in Nat
    /\ NoPage \notin [total : Nat, items : Seq(Creations)]

VARIABLES
    routes,      \* the committed rows of routes
    pc,          \* where a creation is
    found,       \* the pages whose keys it found
    cache,       \* the cached pages
    saved,       \* those in the last snapshot of Redis
    at,          \* where a listing is
    page,        \* the page it was asked for, 1 when idle
    read,        \* what it has read of it
    \* History: a creation had looked for keys and was not committed when the
    \* listing began, or looked for them after that; the same of what is cached;
    \* and of what is saved, or a creation looked for keys since it was.
    raced,
    cacheRaced,
    savedRaced,
    faults

vars == <<routes, pc, found, cache, saved, at, page, read, raced, cacheRaced,
          savedRaced, faults>>
creationVars == <<routes, pc, found>>
savedVars == <<saved, savedRaced>>
redisVars == <<cache, cacheRaced, saved, savedRaced>>
listingVars == <<at, page, read, raced>>

Pages == 1..MaxPage
Creating == {"route", "seats", "keys", "delete", "commit"}

Page == [total : Nat,
         items : UNION {[1..n -> Creations] : n \in 0..PageSize}]
Nothing == [total |-> 0, items |-> <<>>]

CatalogTypeOK ==
    /\ routes \subseteq Creations
    /\ pc \in [Creations -> {"new", "done"} \cup Creating]
    /\ found \in [Creations -> SUBSET Pages]
    /\ {cache, saved} \subseteq [Pages -> Page \cup {NoPage}]
    /\ at \in [Listings -> {"idle", "count", "select", "fill"}]
    /\ page \in [Listings -> Pages]
    /\ read \in [Listings -> Page]
    /\ raced \in [Listings -> BOOLEAN]
    /\ {cacheRaced, savedRaced} \subseteq [Pages -> BOOLEAN]
    /\ faults \in 0..MaxFaults

Init ==
    /\ routes = Existing
    /\ pc = [c \in Creations |-> IF c \in Existing THEN "done" ELSE "new"]
    /\ found = [c \in Creations |-> {}]
    /\ cache = [p \in Pages |-> NoPage]
    /\ at = [g \in Listings |-> "idle"]
    /\ page = [g \in Listings |-> 1]
    /\ read = [g \in Listings |-> Nothing]
    /\ raced = [g \in Listings |-> FALSE]
    /\ cacheRaced = [p \in Pages |-> FALSE]
    /\ saved = cache
    /\ savedRaced = cacheRaced
    /\ faults = 0

-----------------------------------------------------------------------------
(* create_route                                                            *)

Goto(c, label) == pc' = [pc EXCEPT ![c] = label]

\* The request is valid, and its sender an administrator.
Post(c) ==
    /\ pc[c] = "new"
    /\ Goto(c, "route")
    /\ UNCHANGED <<routes, found, redisVars, listingVars, faults>>

\* RouteRepository.create: the route is inserted, then its seats.  Nobody
\* sees either before the commit.
InsertRoute(c) ==
    /\ pc[c] = "route"
    /\ Goto(c, "seats")
    /\ UNCHANGED <<routes, found, redisVars, listingVars, faults>>

InsertSeats(c) ==
    /\ pc[c] = "seats"
    /\ Goto(c, "keys")
    /\ UNCHANGED <<routes, found, redisVars, listingVars, faults>>

\* delete_pattern: KEYS routes:*
FindKeys(c) ==
    /\ pc[c] = "keys"
    /\ found' = [found EXCEPT ![c] = {p \in Pages : cache[p] # NoPage}]
    /\ raced' = [g \in Listings |-> raced[g] \/ at[g] \in {"select", "fill"}]
    /\ savedRaced' = [p \in Pages |-> saved[p] # NoPage]
    /\ Goto(c, "delete")
    /\ UNCHANGED <<routes, cache, at, page, read, cacheRaced, saved, faults>>

Drop(pages) ==
    /\ cache' = [p \in Pages |-> IF p \in pages THEN NoPage ELSE cache[p]]
    /\ cacheRaced' = [p \in Pages |-> cacheRaced[p] /\ p \notin pages]

\* Mutant of DeleteKeys: the pattern matches the first page only.
DeleteFirst(c) ==
    /\ pc[c] = "delete"
    /\ Drop(found[c] \cap {1})
    /\ found' = [found EXCEPT ![c] = {}]
    /\ Goto(c, "commit")
    /\ UNCHANGED <<routes, savedVars, listingVars, faults>>

\* delete_pattern: DEL of the keys that KEYS has found
DeleteKeys(c) ==
    /\ pc[c] = "delete"
    /\ Drop(found[c])
    /\ found' = [found EXCEPT ![c] = {}]
    /\ Goto(c, "commit")
    /\ UNCHANGED <<routes, savedVars, listingVars, faults>>

\* get_db's session.commit, and the answer 201.
Commit(c) ==
    /\ pc[c] = "commit"
    /\ routes' = routes \cup {c}
    /\ Goto(c, "done")
    /\ UNCHANGED <<found, redisVars, listingVars, faults>>

-----------------------------------------------------------------------------
(* list_routes                                                             *)

\* A creation has looked for keys and is not committed.
Pending == \E c \in Creations : pc[c] \in {"delete", "commit"}

\* cache.get finds nothing.  (A hit answers with the cached page.)
Miss(g, p) ==
    /\ at[g] = "idle"
    /\ cache[p] = NoPage
    /\ at' = [at EXCEPT ![g] = "count"]
    /\ page' = [page EXCEPT ![g] = p]
    /\ UNCHANGED <<creationVars, redisVars, read, raced, faults>>

\* list_active: SELECT count(*)
Count(g) ==
    /\ at[g] = "count"
    /\ at' = [at EXCEPT ![g] = "select"]
    /\ read' = [read EXCEPT ![g].total = Cardinality(routes)]
    /\ raced' = [raced EXCEPT ![g] = Pending]
    /\ UNCHANGED <<creationVars, redisVars, page, faults>>

\* Mutant of Orders: ORDER BY is forgotten.
OrdersUnsorted == SetToSeqs(routes)

\* ORDER BY departure_at leaves the order of equal dates to PostgreSQL.
Orders ==
    {o \in SetToSeqs(routes) :
        \A i, j \in DOMAIN o : i < j => Departure[o[i]] <= Departure[o[j]]}

\* Mutant of PageOf: LIMIT is forgotten.
PageUnlimited(order, p) == SubSeq(order, (p - 1) * PageSize + 1, Len(order))

Least(a, b) == IF a < b THEN a ELSE b

\* OFFSET (page - 1) * size LIMIT size
PageOf(order, p) ==
    SubSeq(order, (p - 1) * PageSize + 1, Least(p * PageSize, Len(order)))

\* list_active: SELECT of the page, a statement of its own
Select(g) ==
    /\ at[g] = "select"
    /\ at' = [at EXCEPT ![g] = "fill"]
    /\ \E o \in Orders : read' = [read EXCEPT ![g].items = PageOf(o, page[g])]
    /\ UNCHANGED <<creationVars, redisVars, page, raced, faults>>

Forget(g) ==
    /\ at' = [at EXCEPT ![g] = "idle"]
    /\ page' = [page EXCEPT ![g] = 1]
    /\ read' = [read EXCEPT ![g] = Nothing]
    /\ raced' = [raced EXCEPT ![g] = FALSE]

\* Mutant of Fill: the routes are counted after the page was selected.
FillCounted(g) ==
    /\ at[g] = "fill"
    /\ cache' = [cache EXCEPT ![page[g]] =
                     [read[g] EXCEPT !.total = Cardinality(routes)]]
    /\ cacheRaced' = [cacheRaced EXCEPT ![page[g]] = raced[g]]
    /\ Forget(g)
    /\ UNCHANGED <<creationVars, savedVars, faults>>

\* cache.set, and the answer.
Fill(g) ==
    /\ at[g] = "fill"
    /\ cache' = [cache EXCEPT ![page[g]] = read[g]]
    /\ cacheRaced' = [cacheRaced EXCEPT ![page[g]] = raced[g]]
    /\ Forget(g)
    /\ UNCHANGED <<creationVars, savedVars, faults>>

\* Mutant of Expire: the pages are set without a TTL.
ExpireNever(p) == FALSE /\ UNCHANGED vars

DropSaved(p) ==
    /\ saved' = [saved EXCEPT ![p] = NoPage]
    /\ savedRaced' = [savedRaced EXCEPT ![p] = FALSE]

\* The TTL of a page is over, and with it that of the saved page, which was
\* not set later: a snapshot keeps the time at which a key expires.
Expire(p) ==
    /\ cache[p] # NoPage
    /\ Drop({p})
    /\ DropSaved(p)
    /\ UNCHANGED <<creationVars, listingVars, faults>>

\* The TTL of a saved page is over, or the snapshot is lost.
ExpireSaved(p) ==
    /\ saved[p] # NoPage
    /\ DropSaved(p)
    /\ UNCHANGED <<creationVars, cache, cacheRaced, listingVars, faults>>

\* Redis saves what it holds: by its rules for saving, or as it is stopped.
\* (A snapshot that no restart is left to read makes no difference.)
Save ==
    /\ faults < MaxFaults
    /\ saved' = cache
    /\ savedRaced' = [p \in Pages |-> cacheRaced[p] \/ (cache[p] # NoPage /\ Pending)]
    /\ UNCHANGED <<creationVars, cache, cacheRaced, listingVars, faults>>

-----------------------------------------------------------------------------
(* Failures                                                                *)

Fault == faults < MaxFaults /\ faults' = faults + 1

\* An awaited call raises: get_db rolls back, the answer is 500.
Fail(c) ==
    /\ pc[c] \in Creating
    /\ Fault
    /\ found' = [found EXCEPT ![c] = {}]
    /\ Goto(c, "done")
    /\ UNCHANGED <<routes, redisVars, listingVars>>

\* PostgreSQL committed, but the connection breaks before it says so.
CommitUnacknowledged(c) ==
    /\ Fault
    /\ pc[c] = "commit"
    /\ routes' = routes \cup {c}
    /\ Goto(c, "done")
    /\ UNCHANGED <<found, redisVars, listingVars>>

\* PostgreSQL or Redis raises under a listing.
ListingFails(g) ==
    /\ at[g] # "idle"
    /\ Fault
    /\ Forget(g)
    /\ UNCHANGED <<creationVars, redisVars>>

\* The process dies and is started again.
Crash ==
    /\ Fault
    /\ \/ \E c \in Creations : pc[c] \in Creating
       \/ \E g \in Listings : at[g] # "idle"
    /\ pc' = [c \in Creations |-> IF pc[c] \in Creating THEN "done" ELSE pc[c]]
    /\ found' = [c \in Creations |-> {}]
    /\ at' = [g \in Listings |-> "idle"]
    /\ page' = [g \in Listings |-> 1]
    /\ read' = [g \in Listings |-> Nothing]
    /\ raced' = [g \in Listings |-> FALSE]
    /\ UNCHANGED <<routes, redisVars>>

RedisRestart ==
    /\ Fault
    /\ cache' = saved
    /\ cacheRaced' = savedRaced
    /\ UNCHANGED <<creationVars, listingVars, savedVars>>

-----------------------------------------------------------------------------

Create(c) ==
    \/ InsertRoute(c)
    \/ InsertSeats(c)
    \/ FindKeys(c)
    \/ DeleteKeys(c)
    \/ Commit(c)

List(g) ==
    \/ Count(g)
    \/ Select(g)
    \/ Fill(g)

Next ==
    \/ \E c \in Creations : Post(c) \/ Create(c) \/ Fail(c) \/ CommitUnacknowledged(c)
    \/ \E g \in Listings, p \in Pages : Miss(g, p)
    \/ \E g \in Listings : List(g) \/ ListingFails(g)
    \/ \E p \in Pages : Expire(p) \/ ExpireSaved(p)
    \/ Save
    \/ RedisRestart
    \/ Crash

Spec == Init /\ [][Next]_vars

\* The event loop goes on with every handler, and Redis expires what has a TTL.
FairSpec ==
    /\ Spec
    /\ \A c \in Creations : WF_vars(Create(c))
    /\ \A g \in Listings : WF_vars(List(g))
    /\ \A p \in Pages : WF_vars(Expire(p))

-----------------------------------------------------------------------------
(* Properties                                                              *)

Cached == {p \in Pages : cache[p] # NoPage}

\* The committed routes have this page p, for one order of equal dates.
Shows(entry, p) ==
    /\ entry.total = Cardinality(routes)
    /\ \E o \in Orders : entry.items = PageOf(o, p)

\* The page is full, or there is nothing after it that its total promises.
Covers(entry, p) ==
    \/ entry.total <= (p - 1) * PageSize + Len(entry.items)
    \/ Len(entry.items) = PageSize

\* The total and the page of an answer are read by two statements, between
\* which routes may be committed.  Yet a page is never shorter than its total
\* promises, so that a client which pages up to the total misses no row that
\* was counted for want of a page: the count comes first and routes only grow.
PageCoversTotal ==
    /\ \A p \in Cached : Covers(cache[p], p)
    /\ \A g \in Listings : at[g] = "fill" => Covers(read[g], page[g])

\* A cached page is the committed one for as long as it lives, unless its
\* listing overlapped a creation between its KEYS and its commit, or a restart
\* of Redis brought it back after one.
PagesFreshUnlessRaced ==
    \A p \in Cached : ~cacheRaced[p] => Shows(cache[p], p)

Tied(c) == \E d \in routes : d # c /\ Departure[d] = Departure[c]
Earlier(c) == {d \in routes : Departure[d] < Departure[c]}
Has(entry, c) == \E i \in DOMAIN entry.items : entry.items[i] = c
Place(p) == (p - 1) * PageSize .. p * PageSize - 1

\* Pages are ordered by departure_at alone, and each is selected for itself:
\* routes of one date may repeat on the next page or be on none.  No other
\* route does: whatever order PostgreSQL gives the ties around it, a route
\* alone on its date is on the page that its rank says, and on no other.
OnlyTiesRepeat ==
    \A p \in Cached : ~cacheRaced[p] =>
        \A c \in routes : ~Tied(c) =>
            (Has(cache[p], c) <=> Cardinality(Earlier(c)) \in Place(p))

\* Whatever was raced, in the end every cached page is that of the committed
\* routes for good.
CatalogSettles == <>[](\A p \in Cached : Shows(cache[p], p))

-----------------------------------------------------------------------------
(* The inductive invariant behind them                                     *)

\* A creation between its KEYS and its commit knows the pages that are cached
\* and not raced; past its DEL there are none.
CreationShape(c) ==
    \A p \in Cached : ~cacheRaced[p] =>
        /\ pc[c] # "commit"
        /\ pc[c] = "delete" => p \in found[c]

\* What a listing has read is still so, unless it was raced by a creation.
ListingShape(g) ==
    /\ at[g] = "select" => read[g].total <= Cardinality(routes)
    /\ at[g] \in {"select", "fill"} /\ ~raced[g] =>
           /\ ~Pending
           /\ read[g].total = Cardinality(routes)
    /\ at[g] = "fill" /\ ~raced[g] => Shows(read[g], page[g])

\* A saved page is as good as a cached one, and outlives no KEYS as unraced.
SavedShape(p) ==
    saved[p] # NoPage =>
        /\ Covers(saved[p], p)
        /\ ~savedRaced[p] => ~Pending /\ Shows(saved[p], p)

CatalogInv ==
    /\ CatalogTypeOK
    /\ IsFiniteSet(routes)
    /\ \A c \in Creations : CreationShape(c)
    /\ \A g \in Listings : ListingShape(g)
    /\ \A p \in Pages : SavedShape(p)
    /\ PageCoversTotal
    /\ PagesFreshUnlessRaced
=============================================================================
