# Bus booking service: specifications and proofs

TLA+ modules that model the bus booking service, the TLC configurations that
check them on small instances, and the theorems that TLAPS proves about
instances of every size. `PROJECT.json` lists the runs, the source lines of every
definition, the findings, the hazards and the theorems.

    tlc -workers 2 -config Booking.cfg MCBookingService
    tlapm BookingServiceProofs.tla          (and the seven other *Proofs.tla)

## 1. The system

One asyncio process (uvicorn with one worker, `run.sh`) serves HTTP and runs the
consumers of RabbitMQ. It keeps its state in PostgreSQL, Redis and RabbitMQ.
Nothing restarts a container by itself; whoever does is the environment here.

| Component | Source | State | Operations | Interacts with |
|---|---|---|---|---|
| Booking service | `services/booking_services.py`, `repositories/booking_repo.py`, `SeatRepository`, `api/v1/bookings.py`, `db/database.py`, `exception/` | tables `bookings`, `seats`; one session per request | `POST /bookings`, `DELETE /bookings/{id}`, `GET /bookings/my` | drops cache entries, publishes events; commit by `get_db` after the handler has returned |
| Seat availability | `api/v1/routes_api.py: list_seats`, `services/cache.py` | Redis keys `seats:{route}:all`, TTL 15 s | `GET /routes/{id}/seats`; invalidation | reads `seats`; invalidated by the booking service |
| Notifications | `services/broker.py`, `worker.py`, `notification.py`, `main.py: lifespan` | exchanges, queues and messages of RabbitMQ; runs of handlers | publish, consume with up to 3 attempts, ack, reject, dead letters | fed by the booking service |
| Rate limiter | `services/rate_limiter.py`, `core/rate_limit.py` | one Redis sorted set per client address and path | `is_allowed` | guards auth and bookings |
| Accounts | `api/v1/auth.py`, `core/security.py`, `UserRepository` | table `users`; tokens, which clients keep | register, login, current user, current admin; an operator deactivates and promotes | its user id is an input of the booking service, its admin check precedes `create_route` |
| Route catalogue | `api/v1/routes_api.py`, `RouteRepository` | tables `routes`, `seats`; Redis keys `routes:*`, TTL 30 s | create a route with its seats, list a page | creates what the booking service books |
| Migrations | `migration/versions/*`, `migration/env.py`, `run.sh` | the schema and `alembic_version` | three revisions up and down, one transaction for an upgrade | `run.sh` starts the service even if they fail; an operator may downgrade under the running service |
| Wiring | `main.py: create_app`, `router.py`, `health.py`, `config.py`, `logging_config.py`, `schemas/` | none | - | - |

What is hard in it: handlers are interleaved at every await, and the reads on
which they decide lock nothing (READ COMMITTED, no `FOR UPDATE`); the cache and
RabbitMQ are written inside the transaction, before its commit, and cannot be
rolled back with it; any awaited call may raise and the process may die between
any two of them; RabbitMQ delivers again what was not acknowledged; the rate
limiter reads its clock before it awaits Redis.

What makes each component correct: a seat is in at most one booking, the flag of
a seat agrees with its bookings, no committed change is without its event, no
answer is about what was rolled back, everybody who waits for a lock gets it
(booking service); an entry shows committed seats (cache); a message is given up
or acknowledged only for a reason, and always settled (notifications); a window
lets no more than the limit pass and denies nobody for less (rate limiter); one
account per e-mail, a token for nobody without its password, and no admin action
of a deactivated account (accounts); a page of the catalogue is never shorter than
its total promises, and fresh unless raced (catalogue); the tables are those of the
revision they are said to be, and no upgrade touches an account (migrations); an
e-mail says what the tables say, and everybody is told (bookings and notifications
together).

## 2. The modules

    SeatLedger <--(refinement)-- BookingService <--(EXTENDS)-- SeatAvailability
                                      ^
                                      | INSTANCE
    Notifications <--(EXTENDS)-- CustomerMail

    Accounts <--(EXTENDS, refinement)-- Deployment      RateLimiter      RouteCatalog

Each component module has a module of theorems (`BookingServiceProofs`,
`SeatAvailabilityProofs`, `NotificationsProofs`, `CustomerMailProofs`,
`AccountsProofs`, `DeploymentProofs`, `RateLimiterProofs`, `RouteCatalogProofs`),
and the `MC*` modules are finite instances for TLC. Operators whose comment begins
with "Mutant of" are used by no specification: each is what a likely mistake would
make of a definition, and the property it names in `PROJECT.json` catches it.

### BookingService

One action is what a handler does between two awaits. `RequestBooking` and
`RequestCancel` are the reads and the early returns of the two handlers
(404, 409; 404, 403, 400); `Insert`, `Confirm`, `UpdateStatus`, `MarkFree` the
writes in their order; `Invalidate`, `Publish`, `Commit`, `Reply` the common end.
`Commit` is separate from the handler since the dependency `get_db` commits after
the handler has returned, and before the response is sent.

| Variable | Code |
|---|---|
| `seatBooked`, `bookings` | committed `seats.is_booked`, committed rows of `bookings` |
| `session[r]` | what r's session has written and not committed: the status of its row, and whether the flag of its seat was set or cleared |
| `pc`, `req`, `answer` | where r's handler is, what it was asked, the HTTP status it sent |
| `published` | the events RabbitMQ took, a history of `publish` |
| `faults` | how often the environment failed |

PostgreSQL is modelled by what these transactions can see of it. Reads show
committed rows. `LocksBooking` and `LocksSeat` are the row locks of UPDATEs that
were flushed: `create_booking` flushes the flag together with the status,
`cancel_booking` leaves it to the flush of the commit (`autoflush=False`), where
`CanCommit` waits for the lock. `Inserted` is an unfinished INSERT, for whose end
another INSERT of the same `seat_id` waits; after that a committed row makes it
fail. An UPDATE of the status acts on the row it finds when it gets the lock, but
whether it is sent at all was decided by the status which the session had read,
and keeps in its identity map. For the same reason `MarkFree` writes nothing if
it read the seat as free.

`Fail` is any awaited call raising (rollback, 500), from the first read to the
commit; `PublishUnacknowledged` and
`CommitUnacknowledged` the two calls that may have had their effect and raise
nevertheless, `Crash` the death of the process.

Routes do not change once created, so that the route and the seat are read in one
step. The ids of bookings are the requests that create them. Prices, users'
names and the text of events are left out. `GET /bookings/my` reads only.

`SeatLedger` is what the service promises, without handlers: a seat is free, then
held by one booking, then released by its cancellation; both changes have been
announced before they happen. `ImplementsLedger` is the refinement, with the
ledger read off the tables. It says that a released seat is not held again, for
this is what the code does; the documentation promises otherwise (section 4).

### SeatAvailability

Extends BookingService by readers (`Miss`, `Select`, `Fill`: `list_seats` between
its awaits), the cache, and what `Invalidate` now does to it. A hit changes
nothing. KEYS and DEL of `delete_pattern` concern one key, so that they take
effect at one of the two; a fill between them is dropped with the rest. `raced`
and `entryRaced` are history variables that record whether a fill overlapped an
invalidation of its route, or the time between one and its commit.

Redis runs with its default rules for saving (`docker-compose.yml:38-47` gives it
no others), so that it may restart from a snapshot: `saved` is the last one, `Save`
takes it at any time, `RedisRestart` starts with what is left of it. A key keeps the
time of its expiry in a snapshot, and what was saved was set no later than what is
cached: so `Expire` of an entry is the end of its copy too, while the copy may
end earlier (`ExpireSaved`). A restart may bring back an entry that a booking has
dropped since it was saved, which `savedRaced` records.

### Notifications

`Bindings` is what `lifespan` and the subscribers bind. `added` holds bindings
somebody may have made by hand; the code makes none of them. A run of a handler
is a message with its redelivery count, since after a lost connection the first
run goes on while RabbitMQ delivers the message again; only the run of the
current delivery is listened to (`Settle`). `BrokerRestart` loses the messages,
which are not published as persistent. E-mails are sent by a provider that may
also fail after it has sent (`SendUnacknowledged`); the code has a stub in its
place and a TODO.

A message is named by the request that publishes it (`Senders`) and its kind, so
that two cancellations of one booking have a message each. Here the senders are
anybody; what publishes, and when, is the next module.

### CustomerMail

The process as it runs: an INSTANCE of BookingService, whose requests are the
senders of Notifications. `Send` is `Publish` of the one and `Enqueue` of the
other in one step, `ProcessCrash` ends the handlers of both, and one bound counts
the faults of all. `WorkerStep` is RabbitMQ and the worker. With it the properties
can speak of tables and e-mails at once: `MailTellsTheTruth`,
`CancellationFollowsConfirmation`, `CustomersAreTold`. `MailImplementsLedger` is the
refinement of `SeatLedger` once more, now by the whole process, and with the messages
that RabbitMQ was given (`Sent`) for the announcements, instead of a count of calls.

### Accounts

`Register` and `Login` are the handlers up to the first write or token; `Insert`,
`Commit` and `Reply` the rest of a registration, `Issue` that of a login, which
lies a bcrypt later. `Use` is `get_current_user_id` in front of a request for
bookings, `Administer` and `CheckAdmin` are the two dependencies of
`create_route`, of which only the second reads `users`. Nothing in the code
deactivates or promotes an account, yet `login` and `get_current_admin_user` read
`is_active` and `role`: `Deactivate` and `Promote` are an operator with SQL. A
token is its `sub` and `exp`; that nobody but `login` can make one is an
assumption about HMAC, not modelled. bcrypt is a constructor that
`verify_password` can only compare. `grantedAt` and `offSince` are history.
`Unavailable` and `FailElsewhere` are what Accounts allows of a schema or a
migration that fails, and what Deployment then does.

### Deployment

Extends Accounts by the schema, `run.sh` and alembic. The three revisions are
functions of a schema (`CreateTables`, `SplitName`, `AddRole` and back), of which
the model keeps the columns of `users` that differ and the enum types, since those
are what depends on existing rows and on earlier revisions. `Applicable` says when
PostgreSQL takes a revision: a NOT NULL column without a default only fits an empty
table, and CREATE TYPE fails where a downgrade left the type behind.
`BeginUpgrade`, `ApplyRevision`, `CommitUpgrade` and `AbortUpgrade` are the single
transaction of `env.py`; `Start` follows in either case. The service answers 500
to whatever reads `users` while the mapped class `User` names a column that is not
there (`UsersReadable`). `Downgrade` is `alembic downgrade -1` by hand, which waits
for the locks of the handlers.

### RateLimiter

One key. `Stamp` reads the clock, `LoadScript` is SCRIPT LOAD (once per request,
as each request builds a new `RateLimiter`), `Evaluate` the Lua script, in one
step as Redis runs it. Redis may be unreachable (`FailOpen`), lose its answer
(`AnswerLost`) or restart, with all, some or none of its data and without its
scripts (`RedisRestart`, then `NoScript`). `Tick` is time, which also ends the
TTL. The script draws the second part of a member with `math.random`; `Tags` is
what it may draw, and nothing is assumed of the draw. The process and Redis share
one clock, which does not go back. `kept`, `late` and `struck` are history: whose
members Redis has not lost, how late scripts have run, and which requests were under
way when Redis failed.

A collision of two members makes two requests count as one. The comment in
`rate_limiter.py:25` takes members for unique even at equal timestamps; Redis
seeds `math.random` anew for every call of a script, so that two requests of one
millisecond always draw the same member. The model allows that and any other draw,
and `WindowLimit` therefore speaks of members.

The limiter fails open. `FailuresAreBounded` says what that costs: whoever passes
uncounted was under way at a failure, and each failure lets at most another limit
pass in a window. It depends on the script being loaded anew by each request: a SHA
kept from one request to the next would outlive the scripts that a restart of Redis
drops, and everything would pass from then on.

### RouteCatalog

`Post`, `InsertRoute`, `InsertSeats`, `FindKeys`, `DeleteKeys` and `Commit` are
`create_route` between its awaits, `Miss`, `Count`, `Select` and `Fill` are
`list_routes`. Every page has a key of its own, so that KEYS and DEL are two steps
here. A listing counts and selects by two statements, between which a creation may
commit. Dates have no time of day, so that routes of equal `departure_at` are the
normal case, and `Orders` leaves their order open. Nothing in the code
deactivates a route. `raced`, `cacheRaced` and `savedRaced` are history variables,
and `Save`, `ExpireSaved` and `RedisRestart` the snapshots of Redis, as in
SeatAvailability. Here a restart of Redis counts as a fault, and nothing is saved
which no restart is left to read: that would make no difference to the pages.
Filters are fixed; the check of the administrator precedes `Post`.
`Existing` are the routes that the database holds when the service starts.

## 3. The runs

All runs check for deadlock; where nothing is left to do the modules have a
stuttering disjunct (`AllDone`, `Idle`), so that a deadlock is a handler stuck.

| Run | Shows |
|---|---|
| `booking` | For four requests of two users for two seats with two failures: `OneRowPerSeat`, `SeatFlagAgrees`, `AnnouncedBeforeVisible`, `AnswersAreDurable`; `NobodyWaitsForAWaiter`: no chain of waiting handlers is longer than one; `OnlyLocksHoldUp`: a handler in flight is held up by the locks of another, and by nothing else; the invariant `IInv` of the proofs, and the refinement `ImplementsLedger` |
| `seat_cache` | `FreshUnlessRaced`: a wrong entry needs a fill that raced an invalidation or a commit, or a restart of Redis from a snapshot older than one; `CacheSettles`: in the end the cache is right for good; `EveryRequestEnds`: no handler waits for ever for the locks of others |
| `mail` | `ForgottenWithReason`, `NoSpuriousEmail` and `EveryMessageSettles` of the worker; `MailTellsTheTruth`, `CancellationFollowsConfirmation` and `CustomersAreTold` of both parts, with and without `booking.dlq` bound by hand; the refinement `MailImplementsLedger` |
| `rate_limit` | `WindowLimit`: no window lets more members pass than the limit; `FailuresAreBounded`: what passes for want of a working Redis is bounded by its failures; `DeniedWithReason`: nobody is denied by expired requests |
| `catalog` | `PageCoversTotal`: no page is shorter than its total promises; `PagesFreshUnlessRaced`, `CatalogSettles` as for seats; `OnlyTiesRepeat`: only routes that share a date may repeat or be missing from page to page |
| `deployment` | `OneAccountPerEmail`, `AnswersHold`, `TokensEarned`, `DeactivationTakesEffect` of the accounts; `SchemaIsRevision`, `OldSchemaExplained`, `HandlersKeepSchema`, `NothingInvented` of the schema under them; `ServiceKeepsAccounts`: the deployment implements the specification of the accounts |
| six `violation` runs of section 4 | each refutes one statement of a document, comment or test |

Bounds, and why they are enough. `booking`: four requests are a creation, two
racing cancellations of it and a second creation, or two pairs racing for two
seats; two users are owner and stranger; two failures let a failure follow a
failure (a lost commit answer, then a crash). A third seat or user would only
repeat what two do, as requests meet in one seat or one booking; the proofs
drop these bounds altogether. Requests, users and seats are symmetric; symmetry is
used only in runs without liveness. `seat_cache`: three requests for one seat are
the smallest instance in which somebody waits behind somebody who waits, and a
booking and its cancellation give two invalidations and two commits; there is one
reader, as readers meet only in the entry, and the theorems hold for any number.
`mail`: a booking and its cancellation, one fault, hence at most two concurrent
runs of one handler; two attempts instead of the code's three, as only the last
differs from those before it and every run may fail (the theorems hold for
all). `rate_limit`: four requests around a limit of one, so that a window may hold
what a failure lets pass again and one request more; a window of three ticks,
timestamps up to one tick old, five ticks, so that requests leave the window and the
key may expire; `MaxTime` and `MaxDelay` are the bounds of clock and delay.
`catalog`: one route is there, and two are created on one date before it, and pages
have one route, so that each creation shifts what is listed to the next page and the
order of the two is open; two listings give a fill over a fill; the one fault is a
failure, a crash or a restart of Redis. In `seat_cache` restarts of Redis are not
bounded. `deployment`: three requests
are two racing registrations and a login, or a registration, a login and a use of
the token; a lifetime of one tick and a clock of three let a token expire after its
account was deactivated; revisions and restarts are not bounded.

Fairness. `seat_cache` and `catalog` assume weak fairness of what the event loop runs
for each request: asyncio resumes a task whose awaited call completed, and PostgreSQL
grants a lock to a waiter once it is free. For `Insert`, `Confirm` and `CanCommit`
weak fairness is enough, since requests are finitely many and a lock that is free
and wanted is held by nobody after the last of them. No request has to arrive, and
no failure or crash has to happen. Both add that Redis expires keys with a TTL.
`mail` assumes that some request that can go on does (`FairMailSpec`), that RabbitMQ
delivers what is ready, that every send ends, every sleep is over, and that
FastStream answers for each handler that ends; it does not assume that any send
succeeds. One weak fairness condition for all requests, and one for all messages
and all runs, are no stronger than one for each: each of them has finitely many
steps, so that no one of them can go on for ever at the cost of another. For the
same reason liveness is stated as "in the end, for good": requests are finitely many.

Limits that are properties of the code and not of the model: `NoSpuriousEmail`
allows one more e-mail for each fault, as delivery is at least once;
`WindowLimit` speaks of members (section 2), and of a window shortened by how
late scripts run; with a script one tick late the whole window does let more pass.
Requests that failed open are not counted in it (they are what `FailuresAreBounded`
is about), and denied ones are.

## 4. What the code contradicts

| Run | Statement | What happens |
|---|---|---|
| `mail_phantom` | `README.md:34-36`: the service creates the booking, then publishes; `notification.py:52`: the e-mail says it is confirmed | the event precedes the commit; if that fails the customer has the e-mail of a booking that never was |
| `booking_duplicate` | `test_exception_handlers.py:67`: a duplicate booking is answered 409 | two creations read the seat as free; the loser's `IntegrityError` is a 500 |
| `booking_cancel_twice` | `booking_services.py:142`, `worker.py:108`: a cancelled booking is not cancelled again, and each event starts a refund | two cancellations read the status before either commits; both succeed and publish |
| `booking_rebook` | `routes_api.py:70`, `README.md:182`: what is shown is availability | `seat_id` is unique over cancelled rows too: a released seat is shown as free and cannot be booked |
| `seat_cache_stale` | `README.md:287`: seats are invalidated on booking | invalidated before the commit; a reader sets the old rows again |
| `notifications_dead_letters` | `broker.py:11-12`, `README.md:302`: failed messages go to `booking.dlq` | nothing binds it to `booking.dlx`; they are dropped |

## 5. The proofs

All theorems hold for all values of the constants that satisfy the named
assumption of their module: any sets of requests, users, routes and seats, and any
number of failures. The safety theorems include infinite sets. So do the theorems
about what happens in the end to all requests, readers, pages or messages
(`RequestsEnd`, `CacheSettlesInTheEnd`, `AllMessagesSettle`,
`CustomersAreToldInTheEnd`, `CatalogSettlesInTheEnd`) in their letter only: the
hypothesis `ComeTogether` that they have, explained under *Finitely many*, is what
finite sets give, so that they say something of finite instances of every size. The
assumptions hold a Redis entry that is not there apart from any rows it may have
(`CacheAssumption`), and name the ranges of numbers.

| Module | Theorems | State |
|---|---|---|
| `BookingServiceProofs` | `InductiveInvariant`, `TypeCorrect`, `NoDoubleBooking`, `FlagAgreesWithBookings`, `NoEventIsLost`, `AnswersHold`, `NoDeadlock`, `LocksAreReleased`, `OnlyLocksHoldUpSteps`, `SomebodyGoesOn`, `RequestsOnlyGoForward`, `WaitsEndForGood`, `RequestEnds`, `RequestsEnd`, `Refinement`, `HistoryIsKept` | `IInv`, the other invariants of the run (`OnlyLocksHoldUp` with its ENABLED written out), `Spec => ImplementsLedger`, and that locks are released and requests end |
| `SeatAvailabilityProofs` | `CacheRunsBookings`, `CacheInvariant`, `CacheTypeCorrect`, `EntriesFreshUnlessRaced`, `RacedEntriesEnd`, `RacedReadersEnd`, `CacheSettlesAtRest`, `CacheSettlesInTheEnd` | `CacheSpec => Spec` of the bookings, `FreshUnlessRaced`, and that the cache settles |
| `NotificationsProofs` | `WorkerInvariant`, `MailInvariant`, `WorkerTypeCorrect`, `MessagesForgottenWithReason`, `EmailsAreAccountedFor`, `DeliveriesAreAttended`, `CountersOnlyGrow`, `RunsStop`, `MessagesStop`, `HandlersEnd`, `MessagesSettle`, `AllMessagesSettle` | the worker alone and under the bookings, and that every message settles |
| `CustomerMailProofs` | `CustomerMailInvariant`, `BookingsStayCorrect`, `CancellationsFollow`, `MailsTellTheTruth`, `ProcessImplementsLedger`, `EveryBookingIsNoticed`, `ToldWhenSettled`, `CustomersAreToldInTheEnd` | both parts of the process together, `MailSpec => MailImplementsLedger`, and that customers are told |
| `AccountsProofs` | `AccountsTypeCorrect`, `EmailsAreUnique`, `AnswersAreTrue`, `TokensAreEarned`, `DeactivatedAccountsAreShutOut` | the account handlers, of `AccountsSpec` |
| `DeploymentProofs` | `DeploymentKeepsAccounts`, `DeploymentTypeCorrect`, `SchemaIsARevision`, `OldSchemasAreExplained`, `HandlersKeepTheirSchema`, `NoValuesInvented` | `DeploymentSpec => AccountsSpec`, and the schema |
| `RateLimiterProofs` | `LimiterInvariant`, `LimiterTypeCorrect`, `NoWindowExceedsLimit`, `FailuresCostLittle`, `DenialsAreEarned` | the limiter, for any limit, window and delay |
| `RouteCatalogProofs` | `CatalogInvariant`, `CatalogTypeCorrect`, `PagesCoverTheirTotals`, `PagesAreFreshUnlessRaced`, `OnlyTiesMayRepeat`, `RacedPagesEnd`, `EveryCreationEnds`, `RacedListingsEnd`, `CatalogSettlesInTheEnd` | the catalogue, for any page size and dates, and that its pages settle |

**Bookings.** None of the safety properties is inductive. That a commit keeps one
row per seat depends on what other sessions have not committed yet, so `IInv` adds:
what a session has written is determined by where its handler is (`SessionShape`);
what a request was accepted for stays true of the tables (`RequestShape`); a
committed row belongs to a creation that is over or about to reply (`RowsSettled`);
an uncommitted insert has its seat to itself, among the committed and the
uncommitted rows (`InsertsExclusive`, the unique index); two cancellations have not
both written the same row (`LocksExclusive`); a cancellation that found its seat
free still finds it free at its commit (`FreedAlready`), which is what saves the
flag when two cancellations race; the event precedes the commit
(`PublishedBeforeCommit`); and a reply tells the truth (`RepliesHold`).

The proof has one lemma per group of actions: handlers that end without a commit
(`FinishInvariant`), that accept (`AcceptInvariant`), that write
(`ProgressInvariant`), the commit (`ApplyEffect`, `CommitInvariant`), `Reply`,
`Crash`, and the environment. The refinement needs that only commits change the
tables (`OnlyCommitsWrite`), only publishing changes the events
(`OnlyPublishAnnounces`), and what a commit does to the ledger, seat by seat
(`LedgerBySeat`, `LedgerAfter`, `CreationHolds`, `CancellationReleases`). The
second of two racing cancellations commits a stutter of the ledger. The two facts that
make a refinement are lemmas of their own, `LedgerInit` and `LedgerStep`.

**Locks.** A handler takes its locks in the order of its statements and keeps them up
to its commit, over awaits of Redis and RabbitMQ. `NoDeadlock` needs three facts.
A seat is only ever locked by the creation that has inserted its row
(`SeatLockersInserted`), and that row keeps every other writer away from the seat
(`SeatLocksUncontended`), so that whoever has written anything waits for nobody
(`HoldersDoNotWait`); and who is waited for has written something (`WaitedForHold`).
So chains of waits have length one.
`LocksAreReleased` draws the conclusion: under fairness for the handler of r alone,
what r has locked is free again, since a holder only ever moves towards its
commit or its end (`HoldersMove`, `HoldersAdvance`). ENABLED is beyond the prover,
so that the theorems state weak fairness with `CanStep(r)` in its place
(`GoesOn`). `OnlyLocksHoldUpSteps` proves what that rests on, in both directions: a
step of r is taken only where `CanStep(r)`, and where `CanStep(r)` the next state
`Resumed(r)` is a step of r; what is left to TLC is to call this ENABLED.

**Requests end.** `Left` counts the stages that a handler may still have before it.
No step of anybody adds to it (`RequestsOnlyGoForward`), and while a request is in
flight some handler can take a step (`SomebodyGoesOn`). x is waited for only while it
holds something, which it does once: so under fairness of x nobody waits for it again
and again (`WaitsEndForGood`), and r ends or is held up without end (`RequestEnds`),
the latter being excluded if all handlers go on (`RequestsEnd`). `HistoryIsKept` is the
action property beside it: rows, cancellations, announcements and answers stay.

**Finitely many.** A formula that holds for each of finitely many x from some time
on holds from some time on for all of them. That is a tautology of temporal logic for
every finite set, but its proof is an induction over a temporal formula, which SANY
does not let a theorem of the library be instantiated with. The theorems that conclude
about all requests, readers, routes, listings, pages or messages therefore have the
instances they use as a hypothesis, `ComeTogether` (`CacheComesTogether` in
`SeatAvailabilityProofs`). In `NotificationsProofs` one more instance says that
finitely many counters which only grow and have a bound stop; that `faults` and
`attempts` are such counters is proved (`CountersOnlyGrow`, `WorkerTypeCorrect`).
Everything that depends on the code is outside of these hypotheses, and each of them
is implied by the finiteness of the sets.

**Cache.** The cache never blocks or changes a step of the bookings, so that
`CacheSpec` implements the specification of BookingService and inherits `IInv`
(`CacheRunsBookings`). `FreshUnlessRaced` alone is not inductive: `CacheInv` adds
that a reader which is not raced still sees the committed seats
(`SeenUnlessRaced`), and that between the invalidation and the commit of a request
every entry and every reader of its route is raced, or there is none (`WindowRaced`).
The same is said of saved entries (`SavedUnlessRaced`, and a part of `WindowRaced`),
for a restart makes an entry of each of them.

**Worker.** `NoSpuriousEmail` follows from a budget (`Budget`): e-mails sent, plus
the runs that may still send, plus the delivery to come, are at most one more than
the faults. Each redelivery costs a fault, and a send turns a run into an e-mail.
`ForgottenWithReason` needs where a run is when it answers (`RunShape`) and that
only the run of the current delivery is listened to (`DeliveryShape`).

**Every message settles.** `Attendance` adds to the invariant that RabbitMQ never
waits for a delivery without a handler at work on it, so that no message is left
lying (`DeliveriesAreAttended`). Attempts and faults only grow, so that they stop
(`CountersStop`). Without either, a run only moves towards its end and a message
towards being settled (`OnlyOnward`), and both stop (`RunsStop`, `MessagesStop`). Where
they stop they have ended: fairness would start an attempt for a handler that
sleeps, and deliver a message that is ready (`HandlersEnd`, `MessagesSettle`). Fairness
is that of `FairMailSpec`, some run and some message, with guards for ENABLED.
`EveryBookingIsNoticed` says that a committed booking has a message, so that
`CustomersAreTold` follows (`ToldWhenSettled`, `CustomersAreToldInTheEnd`).

**Both together.** The specification of BookingService does not hold of the
process literally, since the worker shares its count of faults; instead its step
lemmas are instantiated for the senders (`Proved`), and every other step leaves the
tables alone (`BookingsUntouched`). `SenderShape` ties a message to its request: it
was published by it, at a moment when only the commit was left, so that without
failures a request which is done has committed; and no counted event is without its
message. Rows stay and cancelled bookings stay cancelled (`RowsStay`). From there
`CancellationFollowsConfirmation` is `AnnouncedBeforeVisible` carried over to
RabbitMQ. For `ProcessImplementsLedger`, `PublishedIsTold` adds that every counted
event is a message of some request, so that `Sent` is `Announced` in every state
(`SentIsPublished`); a step of the process then is one of BookingService, whose
`LedgerStep` applies, or one that the ledger does not see (`StepOfTheService`).

**Accounts and deployment.** `AccountsInv` adds that an uncommitted INSERT has its
e-mail to itself, that a login under way has proved a password and is not older than
`MaxLag`, and that tokens of a deactivated account run out in time. `DeploymentSpec`
implements `AccountsSpec` step by step: a migration is a stutter or a failure
elsewhere, a handler over an old schema is `Unavailable`; that a downgrade
drops no account needs that version 1 is only reached without accounts, since the
column that the second revision's downgrade restores has no default either.

**Limiter.** For `WindowLimit`, take the request of a window whose script ran last:
all other members of the shortened window were recorded before and, being too young
to be pruned and their key not expired, are still in the set, so that it was counted
with them (`SetHolds`). Assumed are a positive window (one of zero would not contain
the request itself) and scripts that run no later than a window after their
timestamp. For `FailuresAreBounded`, the members that a window let pass are those
that Redis still has, which `WindowLimit` bounds, and those that it has lost. A restart
loses no more of a window than `WindowLimit` had let into it, and what is lost only
grows by restarts (`LossesBounded`). Whoever finds no script loaded it before a restart
and is waiting since (`RequestShape`).

**Catalogue.** `PageOfOrder` says what LIMIT and OFFSET leave of an order of the
routes; with `total <= Cardinality(routes)` from the count to the select
(`ListingShape`) it yields `PageCoversTotal`. `CreationShape` is the argument for
freshness: past its DEL, a creation leaves no page that is not raced. `SavedShape`
says of saved pages what must be so for a restart to keep all this. For
`OnlyTiesMayRepeat`, an order lists every route once (`OrderIsABijection`), so that
before a route which is alone on its date come as many as have an earlier date,
whatever the order of ties (`RankInAnOrder`), and a page has the rows of its places
(`RowsOfAPage`).

**The end of a race.** `CacheSettles` and `CatalogSettles` say that wrong entries
end by themselves. From the moment on at which no writer is between its invalidation
and its commit and no raced reader remains (`Calm`), an entry without a raced copy that
is not raced stays so, whatever Redis saves and restarts with (`UnracedStays`). From any
other, the end of the TTL leads there, for it ends the copy too, and so does
a restart that finds no copy, the only other way for an entry to go
(`RacedEntryStays`, `RacedPageStays`; `RacedEntriesEnd`, `RacedPagesEnd`). `Calm` comes: writers end (`RequestsEnd` for bookings, by way of
`CacheRunsBookings`; `EveryCreationEnds` for creations, which wait for nobody), and
then a raced reader ends or selects anew, with nobody left to race it
(`RacedReadersEnd`, `RacedListingsEnd`). Fairness is stated per handler, as in
`FairCacheSpec` and `FairSpec`, with guards for ENABLED.

Each inductive invariant was checked by TLC on the instance of the run before it was
proved. Only model-checked: `OnlyLocksHoldUp` as it is written, with ENABLED, and the
liveness properties under the fairness operator WF itself, whose ENABLED the prover does
not expand. The theorems have the guards of the actions in its place. For handlers of
bookings that these are the same is `OnlyLocksHoldUp`; the guards of all others only
read where a handler, a message or an entry is, and every action with such a guard has
a next state, which its assignments name.

## 6. Not modelled

The wiring (`create_app`, `router.py`, `config.py`, logging), `health.py`, and the
validation and serialisation in `schemas/` keep no state and decide nothing that
another component sees. `GET /bookings/my` and hits of the caches only read. Filters
of `list_routes` select another key and another set of routes, and are fixed. The
rate limiter is modelled for one key, as keys share nothing; how a key is made of an
address and a path is left out. Of the schema, Deployment keeps the columns and types
on which a revision can fail; lengths of columns and indexes are left out.

Some things the model lets happen because the code does, and the properties say what
is true nevertheless: members of the limiter collide within a millisecond, and
`WindowLimit` counts members; routes of one date may repeat or be missing across pages (`OnlyTiesRepeat`), and the
e-mail of a cancellation may overtake that of the confirmation
(`CancellationFollowsConfirmation`). How likely they are is not modelled.

`BeginUpgrade` is that of `run.sh`, before the service starts. An operator's `alembic
upgrade` under the running service is left out, unlike a downgrade: behind it there are
the same revisions, refused for the same reasons, with the locks that `Downgrade` waits
for. While an upgrade runs, nothing else in the model writes to the tables of users but
the operator of `Outside`.

The limiter's restart of Redis and those of the caches are modelled each for itself:
what the properties say of a key does not depend on the others.

What could follow: the keys of the limiter per client and path, composed with the
endpoints they guard; and the catalogue composed with the bookings, whose routes and
seats are constants now.
