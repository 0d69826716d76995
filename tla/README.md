# A verification development for airbnb-be

TLA+ models of the backend in `src/` (NestJS 9, TypeORM 0.3, PostgreSQL, several Node
workers under pm2), TLC runs over small instances, and theorems that TLAPS proves. Paths
below are relative to `src/src/`, unless they begin with `src/`.

## 1. The system

One HTTP request is one asynchronous handler. It runs without interruption from one
`await` to the next; between two awaits any other handler of the same worker, and at any
time those of the other workers (`src/ecosystem.config.js:10-11`, cluster mode,
`instances: 'max'`), may run. The only shared state is PostgreSQL, the connection pool of
each worker, and the mail that was sent. No operation of the code spans its queries with a
transaction that contains them:

* `@Transactional()` (`reservations.controller.ts:24`, `rooms.controller.ts:24`) opens no
  transaction. Its wrapper (`typeorm-transactional-cls-hooked`) looks up a CLS namespace
  that `initializeTransactionalContext()` makes, and neither `main.ts` nor `app.module.ts`
  calls that. So it throws before the handler: POST /reservations and POST /rooms are
  always answered with 500. With the namespace there, it would call the service, but the
  repositories of TypeORM 0.3 know nothing of its transaction;
* `signUp` and `loginWithSocialNetwork` open a transaction on a connection of their own,
  but every query goes through a repository, which takes another connection from the pool.
  The rollback of `users.service.ts:123` undoes nothing;
* only `updatePassword` writes within its transaction (`queryRunner.manager.save`), and
  that is one `save` of a row that was read before the transaction.

So each query commits by itself, and `save` is two: it reads the stored row again, then
updates, in a transaction, the columns in which the entity differs.

Because of the wrapper, `ReservationsService.reserve` and `RoomsService.create` are
services without a route that reaches them. They are modelled all the same, with the
wrapper as a constant: `WrapperOutcomes = {"throws"}` is the program as it is, and a set
with `"calls"` also lets the services run, as they do when the decorator is taken off.
The properties hold for every such set. The runs about the services take both outcomes,
so what they show of reservations and rooms that are made is about the services, and only
the rest about the routes.

| component | state | operations | what makes it correct |
|---|---|---|---|
| reservations | rows of `reservation` | reserve, cancel | no night sold twice; a refusal has a reason; a cancellation is final |
| domain rules (`Room`, `Reservation`, `Discount`, `Country`) | none | dates, intersection, price | intersection is a shared night; one discount at most; the price never falls |
| users, auth/jwt, auth/google | rows of `user`, `role`, `verification`, `oauth` | sign-up, sign-in, Google sign-in, forgot, reset, verify | one account per address; a mailed link works; a save changes only what its operation is about |
| access control | the token's user | JwtAuthGuard, JwtStrategy, RolesGuard | the request is made as the user of its token |
| rooms, discounts, photos | rows of a room | create (1 insert, then 5 in parallel) | a room that was reported lacks only what the service never links to it, keeps its country, and can be reserved |
| countries | their rows | create, remove | no name piles up; none that is used goes |
| lists, categories | none: `create` stores nothing | | |
| connection pool | connections, open transactions, who waits | connect, query, release | every request is answered; what was answered is committed |
| lifecycle | workers, their connections | boot, ready, SIGINT, kill after 5 s | accepted requests are answered before the exit; someone always listens |
| mail | links that were sent | sendVerifyEmail, sendForgotPassword | a link is sent when it works |
| filters, log | rows of `log` | HttpExceptionFilter | the status the code chose is the status sent |
| reviews; conversation, message, payment entities; interceptors; settings | none, or tables without code | | stubs and formatting |

Components call each other directly: the guards run before the controllers, which call
services, which call repositories, the domain methods of entities and `MailService`;
`AuthService`, `UsersService` and the guards share the table `user`; `ReservationsService`
reads what `RoomsService` wrote, and a room refers to a country. There are no queues,
events or timers; the one signal is SIGINT.

What is hard here: interleavings of the queries of two requests; saves of entities that
were read earlier, some of them not awaited; several inserts in parallel of which one
fails; crashes between two commits; answers that get lost and are retried; the pool at its
limit; a shutdown while requests, kept connections and saves nobody awaits are under way.
`PROJECT.json` lists each hazard at its line.

## 2. The modules

| module | models | one action or operator per |
|---|---|---|
| `Stays` | `room.entity.ts`, `reservation.entity.ts`, `discount.entity.ts`, `country.entity.ts`, `datetime.utils.ts`, both strategy files | method; no state |
| `Quotes` (extends `Stays`) | what those methods promise, for a stay or a quote at a time | case that is looked at |
| `Reservations` (extends `Stays`) | `ReservationsService.reserve` and `.cancel` with their controller | run between two awaits |
| `Ledger` | what `Reservations` promises: a book in which a booking or a cancellation is one step | promise |
| `Accounts` | `UsersService`, `AuthService.verifyEmail`, what `GoogleOauthStrategy.validate` calls, `ParallelAsync` | run between two awaits |
| `ConnectionPool` | the pool of one worker, the connections that `UsersService` keeps, their transactions, `HttpExceptionFilter` | database call, or run between two awaits |
| `UserTable` | what the guards rely on about the table `user`: all that the operations of `Accounts` may do to it | kind of write |
| `Access` | `JwtAuthGuard` (as APP_GUARD and again in `main.ts`), `JwtStrategy`, `RolesGuard` | guard |
| `Countries` (extends `Access`) | `CountriesService` | query |
| `Rooms` (extends `Countries`, `Stays`) | `RoomsService.create`, and reservations in the rooms it makes | query |
| `Lifecycle` | `main.ts`, `src/ecosystem.config.js`, what Node and pg-pool do at a shutdown | event of a worker or a connection |
| `StaysProofs`, `QuotesProofs`, `ReservationsProofs`, `AccountsProofs`, `ConnectionPoolProofs`, `RoomsProofs`, `LifecycleProofs` | | the theorems of section 5 |
| `MCStays`, `MCReservations`, `MCAccounts`, `MCConnectionPool`, `MCRooms`, `MCLifecycle` | | the instances that TLC checks |

`Access`, `Countries` and `Rooms` compose into one system: the next-state relation is in
`Rooms`, the step of a handler is named by its route once it is past the guards, and the
handlers of the three share users, countries, rooms and reservations. `Reservations` looks
closer at reserving (cancellation, time, prices with a fraction), with the rooms as a
constant; `Accounts` closer at the users, of which `Access` has only what the guards read.
The two meet in `UserTable`: `Access` takes its actions as the environment of the guards,
and `Accounts` is shown to implement it. `ConnectionPool` looks closer at the connections
that both leave out.

**Stays.** A day is an integer and `new Date()` is an instant in half days, so that a
clock can be midnight or strictly inside a day. Money is exact, in millionths, since three
percentages are multiplied; the rounding of binary fractions is not modelled. An amount
that is not a whole number is refused by the `int` column (`FitsPriceColumn`). `PricedRoom`
is a row of a room as far as its price depends on it, with any finite set of discounts.

**Quotes.** No program state: a behaviour takes a pair of stays, or a room, a number of
nights and of guests and an instant, so that what the methods promise can be checked and
proved as invariants. A room that has no price (`PricingThrows`) is not quoted.

**Reservations.** `reservations` is the table (a sequence: nothing deletes a row); `Rooms`
is a constant here. A handler has a program counter `pc`, its `request`, the rows it has
`loaded` and its last `answer`. `reserve` is `FindRoom` (one query joins the room, its
reservations and discounts), `Validate` (synchronous: `validateReservation`, in the order
of its checks, with the clock of that moment), `Insert` and `ReplyReserved`; `cancel` is
`FindReservation`, `Update` (which writes the whole row back) and `ReplyCanceled`.
`WrapperThrows` is the answer of the wrapper; `ReceiveReserve` needs that
`WrapperOutcomes` has `"calls"`. `DatabaseError` is a query that fails, or one that
commits and whose acknowledgement is lost (the steps *after* the commit can fail too);
`Crash` kills the worker; `Tick` is time. `view` and `origin` are history variables: how
many rows there were when a handler read, and who inserted a row after reading what.

**Ledger.** The abstract specification of `Reservations`: all that was ever booked. A
booking respects an initial part of the book, and all that its agent has ever written lies
in that part; a cancellation is one step. With one agent that is the whole book: no night
is sold twice. `Reservations` maps to it (`Abstract`, `ImplementsLedger`) by forgetting
prices, guests and handlers' states: a row is the entry with its room, its nights, whether
it is scheduled, and the handler that inserted it.

**Accounts.** A handler includes what the request leaves running after its answer:
`signIn`, `loginWithSocialNetwork` and `createNewPassword` answer before their `save` is
done, so `answer` may be set while `pc` is still `diff` or `write`. `Diff` is the second
read that TypeORM makes and `Write` the transaction that follows: columns in which the
*entity*, read long before, differs from that reading, and the eager relation `roles`
(role rows the entity does not have lose their user, and become `orphans`). The inserts
that run in parallel are the set `pending`; `ChildFails` is one of them failing, upon
which the 500 is sent while the others go on. `FindEmail` and `InsertUser` are shared by
sign-up and the first Google sign-in, which differ in what they insert (`Inserts`,
`NewUser`). `UserRows` is what the guards see of the tables: of each user the flag and the
set of roles that are stored with it. A mailed link is a member of `mails`; a link that is
never used is a mail that was lost. `asked`, `visited` and `activated` are history
variables.

`shouldVerify` of `CreateNewPasswordDTO` has no validator, so the global `ValidationPipe`
(`whitelist`, `forbidNonWhitelisted`, `app.module.ts:154-158`) refuses a body that has it,
and no token has `newUser`: a reset never verifies.

**ConnectionPool.** What the other modules abstract from: which connection each query runs
on. A request is the program of its kind, a sequence of database calls taken from the
service method in its order (`SignUpProgram`, ...). POST /rooms and POST /reservations
begin with two look-ups, the one of `JwtStrategy` for each of the two guards (the other
routes listed are public); what follows is the exception of the wrapper (`wrapped`) or the
service (`createRoom`, `reserve`). An early return is a program of its own. The rest of
the program is `ops`. A call joins the `queue`; `Assign` gives the first of it the
connection that was released last, or a new one; `Run` ends a query, well or badly, and
gives its connection back. `connect` keeps its connection (`Owns`) until `Release`. `tx`
and `unsaved` are the transaction of a *connection*, not of a request: that is what goes
wrong when one is released with its transaction open. An exception replaces the rest of
the program by what the `catch`, the `finally` and `HttpExceptionFilter` do (`Throw`):
rollback, release, a row of the log, the answer. The rollback may fail itself; its error
then replaces the one that was caught, and the filter does not know it. Queries that ran
in parallel with the one that failed go on. `leaks` is a history variable: the requests
that gave a connection back with a transaction open. Eleven kinds are listed: all that
keep a connection, and one or more of each way to write (one statement, a `save`, several
in parallel, one in the background). Contents of rows and locks on rows are left out here,
so a query never waits for another transaction; Accounts and Reservations have the
contents. The pool (`pg-pool`) and TypeORM are not under `src/`: `Assign`, `OpenFails`,
`IdleTimeout` and the transaction inside `save` follow how the code configures and uses
them (no `extra`, so 10 connections, no timeout for waiting, idle connections closed after
10 s). The worker runs on Node 12 (`src/Dockerfile`), where a rejected promise that nobody
awaits is a warning.

**Access.** A request has a route and a token, which is the id of the user it was issued
for, or is missing. A request passes three guards: `JwtAuthGuard` and `RolesGuard`
(`Authenticate`), and `JwtAuthGuard` once more (`AuthenticateAgain`), each a query of its
own, after which it acts as the user that the second one found (`acting`). `FoundUser` is
what `JwtStrategy` finds: since `passReqToCallback` makes the request its first argument,
the look-up has no condition and returns the user with the lowest id. What Accounts does
to a user is `SignUp` and `SaveUser`, the two steps of `UserTable`: any save, stale ones
included, at any time. `activated` is a history variable: who was ever verified.

**Countries.** `create` looks for the name and then inserts it, `remove` looks for the row
and then deletes it; each query is an action. A removed row leaves its id unused.
`UsedCountries`, the countries that the foreign key of a room protects, comes from
`Rooms`.

**Rooms.** `InsertRoom` inserts the row of the room; then `InsertPart` is one of up to
five inserts that run in parallel, in any order, each of which may fail: the first failure
is answered while the others go on (`pending`, `ParallelAsync`), and `CrashInParts` is the
worker's end among them. `NewPart` gives the row the room it refers to, which detail
choices do not have, as `rooms.service.ts:88-93` leaves the id out; amenities are not
inserted at all, since `Repository.insert` writes no many-to-many relation
(`rooms.service.ts:55`). `WrapperThrows` is that of `Reservations`. `RoomAsRead` joins
what is stored at that moment; a reservation validates the room as it then is
(`FindAndValidate`) and inserts later. Time stands still; the the stays are all ahead.
`asked`, `madeFor`, `seen` and `reported` are history: the groups of rows a body asked
for, the room a row was inserted for, the groups that a reservation's handler read, and
the rooms that were reported as made.

**Lifecycle.** One slot of the pm2 cluster: worker `w + 1` is the successor of `w`. pm2
boots it beside the old one, waits for its 'ready' (`Reload`) or in vain
(`ListenTimeout`), and sends SIGINT (`Close`); a changed file makes it do so without a
successor (`FilesChange`, from `watch: true`). `app.close()` is `ServerClosed`, which
waits for every connection, and `Exit`, which waits for the database connections in use. A
client keeps its connection; a request that comes in after SIGINT is answered with
`Connection: close` (`IsDisableKeepAlive`, `lastBusy`). A request may leave one `write`
behind that nobody awaits: `waiting` for bcrypt or for the pool, then `writing`.

## 3. The runs

| run | instance | result |
|---|---|---|
| `stays` | all pairs of stays in days 0..6; all rooms with up to two discounts out of 18 (20, 60 or 120 percent, ending on day 1 or 2) and one whose discount has no end, two fees, both tax classes, lengths around 7 and 28, clocks around the end dates | pass |
| `reserve_concurrent` | 2 handlers, 3 rows, clock 0..1, a room, a room whose price has a fraction, a missing room | pass |
| `accounts_concurrent` | 2 handlers, 1 address, 1 password | pass |
| `accounts_serial` | 1 handler, 1 address, 2 passwords | pass |
| `reset_undone` | 2 handlers, 1 address, 2 passwords, a guest | `PasswordOnlyByReset` is violated |
| `pool_mixed` | 2 connections, 3 requests: one of the 5 kinds that keep a connection (those that return early included), a sign-in or a verification, a country or a POST that the wrapper ends; two of the 5 also beside a sign-in and a room | pass |
| `pool_early_return` | 2 connections, a Google sign-in that returns early, a country | `AnsweredIsStored` is violated |
| `pool_live` | 2 connections, 3 requests, one of them a Google sign-in that returns early; fair | pass |
| `pool_exhausted` | 2 connections, 2 sign-ups; fair | `EveryRequestIsAnswered` is violated |
| `market` | 2 handlers, 1 user, 3 countries, 2 rooms, 2 reservations; every route that writes one of them, with and without a token | pass |
| `role_of_token` | 1 handler, 2 users with any of three role sets, GET /reservations | `RoleOfItsToken` is violated |
| `lifecycle` | 2 workers (one deployment), 2 clients; fair | pass |

Bounds. `MaxReservations` limits the table: `ReceiveReserve` is taken only if every
request in flight has room for its row, so no handler is stuck for lack of it (`Bounded`
of Rooms does the same for countries, rooms and reservations). Three rows suffice for a
pair of rows that collide and one that was cancelled or is newer; two handlers for every
race between two requests (the properties are proved for any number). `MaxClock` is past
the end of the discount. The stays of room 1 include one inside another, two that meet at
noon, and one quoted after the discount has ended. In Accounts one address suffices,
because an operation touches only rows of one account (`UsersAreAsAssumed` is the proof of
that, for any number of them); two saves at a time are two handlers. Nothing bounds the
behaviours there: the unique address bounds the users and `LinksAreBounded` the links. In
`market` one user is enough, because every request acts as the first one (that the token
does not matter is what `role_of_token` shows, with two); three countries let two requests
make the same name beside one that is removed and used. Two generations are one
deployment, and the successor's own life needs no third. `SYMMETRY` permutes handlers
only, and only safety is checked under it. The runs of Reservations, Accounts and Rooms
check for deadlock: no handler ever waits for another there, so the system never stops.
ConnectionPool serves each request once and stops when all are served (`CHECK_DEADLOCK
FALSE`); that it does not stop before is `EveryRequestIsAnswered`. Lifecycle stops when
the last worker is gone. Two connections and three requests are the least with which one
request keeps a connection, another runs on the second, and a third waits; `Parallel = 2`
is the least number of queries of which one fails while another waits.

Fairness. `pool_live`, `pool_exhausted`: weak fairness of each handler, since the event
loop resumes a promise that is settled; of each query, since the database answers, well or
badly; and of the queue, since the pool serves it whenever a connection is idle or may be
opened. Nothing is assumed of `IdleTimeout`, nor that a query ever succeeds. `lifecycle`:
weak fairness of the steps of a worker that is shutting down, once nothing holds them
back; of `Respond`, since requests are answered; of `EndWrite`, since the database
answers; and of `Hangup`, since Node closes a connection that stays idle for its
`keepAliveTimeout` (5 s by default, and the code does not change it). Weak fairness of
`Hangup` is not enough for a client that goes on asking on its connection: there it is
`Connection: close` that ends it. No fairness of clients, of pm2 or of `Kill`: the
shutdown ends without being killed. What the model does not measure is the time:
`keepAliveTimeout` is as long as `kill_timeout` (`src/ecosystem.config.js:16`), so in fact
pm2 may well kill a worker first; `Kill` is always possible.

The properties that pass, beyond types:

* `NoOverlapWithWhatWasRead`: a new reservation shares no night with one committed before
  its handler read the room. What goes wrong needs the second guest's read before the
  first one's insert.
* `SoldAtMostOncePerHandler`: overbooking does not pile up over time.
* `RowsOnlyGetCanceled`: `cancel` writes back a whole row read earlier; still no stay
  changes and no cancellation is undone.
* `RefusalHasAReason`: "not available" is said only because of a reservation of that room
  that was committed and not canceled when it was read, and takes one of the nights.
* `BookedAtAPriceOfThePast`: a discount may end between the validation and the insert; the
  price that is stored was nevertheless that of the stay at some moment when it still lay
  ahead, and has no fraction.
* `NobodyOwesMoreThanToday`: that outdated price is never to the cost of the guest.
* `ImplementsLedger`: every step of `Reservations` is a step of the ledger or changes
  nothing in it.
* `IntersectIsSharedNight`, `BestDiscountAlone`, `PriceNeverFalls`, `PriceIsNotNegative`
  of the domain rules.
* `OneAccountPerEmail`, `WelcomeMailIsKept` (who was mailed has all role rows and a code,
  until the code was used), `VerifiedByMail`, `AdminNeedsKey`, `LinksAreBounded`.
* `VerificationIsForever`, `PasswordOnlyByReset`, `RolesAreKept` with one handler: the
  saves of stale entities are harmful only beside each other.
* `ImplementsUserTable`: a write of `Accounts` changes what the guards see of one user at
  most, adds a user only unverified and without a role, and removes none.
* `NobodyIsStuck`: no exception, in whatever order parallel queries end, leaves a handler
  awaiting a query that is over, or at a call on a connection that it does not have. (In
  `pool_exhausted`, too: there each awaits what is in line, and the line does not move.)
* `WaitingIsNotInVain`: as long as fewer requests keep a connection than there are, some
  connection is free or about to be; even if START TRANSACTION fails, after which the
  connection is lost.
* `OnlyEarlyReturnsLoseRows`: until a Google sign-in has returned early, what was answered
  with success is committed; no failure, not even of a rollback, leaves a transaction open.
  A query may run on any connection, so this depends on every transaction before it having
  been ended. What comes after the early return is `pool_early_return`.
* `EveryRequestIsAnswered`: also when the query fails, the rollback was for nothing, or
  the log cannot be written.
* `ReportedRoomLacksOnlyTheUnlinked`: the rows that refer to a room that was reported as
  made are those that its body asked for, but its detail choices, which were inserted
  without a room, and its amenities, which were not. Other inserts, failed ones too, do not
  change that.
* `RoomsKeepTheirCountry`: a country is looked up, deleted and referred to by requests
  that know nothing of each other; the foreign key is what saves it.
* `HostsWereVerified`: between the guards and the insert the user may be saved by anyone.
* `CountryNamesAreBounded`: doubled names do not pile up.
* `OnlyHalfMadeRoomsAreBooked`: see `market` in section 4.
* `CloseAnswersAll`: only a kill resets a connection that has a request on it, also one
  that came in on a kept connection after SIGINT.
* `StartedWritesFinish`: a save that nobody awaits may be dropped before it begins, but is
  cut off only by a kill.
* `SomeoneListens`: a deployment leaves no gap, unless the successor was not ready in time
  or a changed file had the worker restarted.
* `ShutdownEnds`: a worker that got SIGINT exits, however long its clients go on asking.

Each has a mutant: an operator marked *Mutant* in the module, a plausible bug under which
TLC finds the property violated.

## 4. Disagreements with the code's own statements

With a run that shows it:

1. `reset_undone`: the background save of a sign-in (`users.service.ts:232`) writes the
   old password back over a reset that committed while bcrypt ran.
2. `pool_exhausted`: as many sign-ups as the pool has connections wait for each other for
   ever (`users.service.ts:52`), though `main.ts:62` counts on their being answered.
3. `pool_early_return`: a Google sign-in of a known user releases its connection with the
   transaction open (`users.service.ts:150, 165`). The next INSERT there is reported as done
   (`success: true`, `response.interceptor.ts:46`), and is gone when the connection is
   closed or another query on it fails.
4. `role_of_token`: every token makes its request as the user with the lowest id
   (`jwt.strategy.ts:25`), so RolesGuard looks at that user's roles, where
   `src/test/users.e2e-spec.ts` expects those of the token.
5. `market`: a room made by `RoomsService.create` has two discounts without an end date,
   and pricing it throws (`discount.entity.ts:35`). Whoever reserves it succeeds only while
   the discounts are not stored, be it not yet or never: `OnlyHalfMadeRoomsAreBooked`,
   which holds. Today the wrapper hides this: no room is made in the first place.

In the models, without a run of their own:

* The wrapper of `@Transactional()` throws, so POST /reservations and POST /rooms never do
  what they are for (`WrapperThrows`).
* `ReservationsService.reserve` books a night twice when two calls both read the room before
  either inserts (`reservations.service.ts:30-37`): `NoDoubleBooking` is proved for one
  handler and fails with two. There is no run of it, because the program as it is does not
  get there: it will as soon as the wrapper no longer throws.
* The background save of `reset_undone` can also take back the verification of an address,
  whose code is then deleted (`VerificationIsForever` fails with two handlers).
* `APP_FILTER` is given `EntityNotFoundError` in place of the filter for it
  (`app.module.ts:161`), so a missing row is answered with 500, not 404 (`MissingRow`).
* A refused sign-up is answered with 500 where `src/test/users.e2e-spec.ts:68-90` expects
  401 or 409 (`FindEmail`), and a missing token with 500 where lines 147-152 expect 401:
  `new` is applied to an arrow function (`ReceiveWithoutToken`).
* The detail choices of a room are inserted without its id (`NewPart`), and its amenities
  not at all; the host is told that the room was made. `ReportedRoomLacksOnlyTheUnlinked`
  says that nothing else is missing.
* A restart by `watch` interrupts the service, whatever `wait_ready` is for
  (`FilesChange`), and `pm2 reload` is commented out in `src/deploy.sh`, which replaces
  the files that are watched.

## 5. What is proved

All theorems hold for every value of the constants that the named assumptions allow
(`NoEndDateAssumption`, `QuotesAssumption`, `ReservationsAssumption`,
`PricedRoomsAssumption`, `AccountsAssumption`, `PoolAssumption`, `AccessAssumption`,
`RoomsAssumption`, `LifecycleAssumption`: the constants have their types, handlers,
requests and connections are finite sets, null is no value, and `WrapperOutcomes` has no
third outcome; TLC evaluates each of them). An assumption on top of these is a premise of
its theorem.

`StaysProofs` has the lemmas about the domain methods, for every room, stay and instant,
and `QuotesProofs` the theorems:

* `IntersectionIsExact`: `IntersectIsSharedNight`. The three comparisons of
  `DateRange.intersect` hold exactly when two stays, of at least one night each, share one
  (`StaysThatMeetShareANight`).
* `TheBestDiscountDecides`: `BestDiscountAlone`. `Max` is a `CHOOSE`, so that there is a
  largest fee has to be proved: `MaxExists` takes a smallest set without a maximum (that
  there is one needs no induction principle, only that the naturals are well-founded) and
  refutes it. The price is the lodging, less the discount, at a rate of the country
  (`PriceIsAShareOfLodging`), so whoever pays less lodging pays less
  (`PriceGrowsWithLodging`).
* `PricesNeverFall`: `PriceNeverFalls`. A discount's fee stays or becomes 0 (`FeeFalls`),
  and so the largest one never grows (`RoomFeeFalls`, `TotalPriceRises`). No sign of an
  amount or size of a percentage is assumed: a discount that would cost the guest something
  is outdone by the 0 that is among the fees.
* `PricesAreNotNegative`: `PriceIsNotNegative`. Its premise `HasSaneTerms` (at most 100
  percent, no negative amount) is part of the property, because no validator of the code
  asks for it.

`ReservationsProofs`:

* `Invariance`: `Spec => []IInv`. `NoOverlapWithWhatWasRead` is not inductive: it says
  nothing of a handler between its read and its insert. `IInv` follows a request through
  its steps: what was read is today's row up to a cancellation (`ReadIsFaithful`) and is
  all that the view covers (`ReadIsComplete`); after the validation the stay is apart from
  all of it (`ValidatedStaysApart`); and rows newer than the view are other handlers'
  (`NewerRowsAreOthers`, `UnseenRowsAreOthers`). Cancellations of others keep all this
  because they never create an overlap (`EvolvingKeepsApart`).
* `TypeCorrectness`, `SeenIsApart`, `CancelingIsFinal`: from `Invariance`.
* `SerialServiceIsExact`: with at most one handler, `NoDoubleBooking`.
* `OverbookingIsBounded`: of two reservations that share a night, the later one did not
  see the earlier one, so they are of different handlers: the map from the reservations of
  a night to their handlers is injective.
* `RefusalIsJustified`: `RefusalHasAReason`, whose reason is a row that was not canceled
  when the handler read it. `RefusalInv` adds to `IInv` that a handler at
  work has not answered, that it read reservations of its room only, none newer than its
  view, and that every stay that is or will be stored has a night; a verdict "unavailable"
  then names a row, and the lemma `StaysThatMeetShareANight` a night of it.
* `PricesAreOfThePast`: `BookedAtAPriceOfThePast`. `PriceInv` adds that a request about to
  be inserted has a price of the past, too, which its validation gave it and which time
  does not take away (`PastStays`).
* `NobodyIsOvercharged`: `NobodyOwesMoreThanToday`, from that and `TotalPriceRises`.
* `Refinement`: `ImplementsLedger`. `Insert` is `Book`, with the handler's view as the
  part of the book that it respects (`ValidatedStaysApart`, `NewerRowsAreOthers`);
  `Update` is `Cancel`, or nothing; no other step changes the rows.

`AccountsProofs`. A handler depends on the tables only through what is never undone: a
user exists with its address and the request that made it, a role row exists (with its
user or without), a link was visited, an account was activated. `Grown` says that a step
keeps these, so a step of one handler breaks nothing that is known of another, and only
the handler that acts has to be looked at.

* `TypeCorrectness` from `Types`, the inductive invariant: what each step holds in
  `request`, `entity`, `change` and `pending`. It includes that no role is ever inserted
  twice (`RolesAreOnce`), without which a save could keep and lose the same row.
* `OneAccount`: the unique column decides, whatever the look-ups found.
* `OnlyMailVerifies`: `SureOK` carries through loading, diff and write that a verified
  column was read from a verified account or comes from a visited link.
* `AdminsHadTheKey`: a stale save may take a role row away or give it back, but only rows
  that exist.
* `WelcomeIsKept`: who is still to be mailed has all that is not `pending` (`InsertedOK`);
  only a `DeleteCode` removes a code, after a save that activated the account.
* `LinksStayBounded`: each handler about to link found no link, and can insert one; links
  and such handlers together are at most the handlers (`LinkersAreLeft`, a count over
  finite sets).
* `SerialVerificationsLast`, `SerialResetsLast`, `SerialRolesAreKept`: if there is one
  handler (`OneAtATime`), then `VerificationIsForever`, `PasswordOnlyByReset` and
  `RolesAreKept`: what it has loaded is what is stored (`Fresh`). The interleaving is thus
  the only cause of what `reset_undone` shows.
* `UsersAreAsAssumed`: `ImplementsUserTable`, the refinement. `InsertUser` is `Insert`,
  because the new id has no role row yet; `Write` and the insert of a role are a `Save` of
  one id, and nothing else changes the tables: a role row that a save takes away or puts
  back is one of the user of its entity. So what `RoomsProofs` proves of the guards beside
  arbitrary saves holds beside the saves there are.

`ConnectionPoolProofs`:

* `PoolTypes`: types, and that no connection is idle twice or idle and in use.
* `WaitingEnds`: `WaitingIsNotInVain`, if in no workload the requests that keep a
  connection are as many as the connections (`FewerHolders`). The invariant `HoldInv`
  follows a request's one `connect` from its program (`HasConnect`) through the queue
  (`Waits`) to a connection (`Keeps`): it is in one place only, so kept connections map
  one to one to requests that keep one.
* `NobodyGetsStuck`: `NobodyIsStuck`, for every workload. `AliveInv` says three things of
  a request (`GoesOn`): an answer is ahead in what is left of its program, in which
  nothing uses an own connection before its `connect` or after its release
  (`AnswerIsAhead`); if what is left uses an own connection, the request has that or is
  about to get it (`HasWhatItUses`); and each number it awaits is that of a call in line
  or running (`AwaitsWhatIsDone`). The last needs that no two calls of a request have one
  number (`NumbersOnce`), or the end of one would be taken for that of the other.
* `NobodyWaitsInACircle`: with `FewerHolders`, while a request is unanswered some handler
  can go on, a query runs, or there is a connection for the first in the queue
  (`NoDeadlock`). It follows from `NobodyGetsStuck` and `WaitingEnds`; that the request is
  answered in the end is liveness.
* `AnswersAreStored`: `OnlyEarlyReturnsLoseRows`, for every workload. The invariant
  `CleanInv` says that only requests that return early leak (`LeaksAreEarly`), and that
  until one has done so a connection that nobody keeps has no transaction
  (`SharedIsClean`). This needs that one about to be released has none
  (`ReleasedIsClean`), which needs that in what is left of every other program a commit or
  a rollback comes right before the release (`ProgramsEnd`), and that a request about to
  release no longer waits for its connection (`ReleasersHold`). It contains `HoldInv`: a
  commit cleans the connection that is released because the request has only one. A
  rollback that fails has cleaned it, too: its connection is broken (`FailedRollback`).

`RoomsProofs`, over `Types` (a step that has the name of a route has its request, one past
the guards acts as a user, and rows refer to rows):

* `TypeCorrectness`; `CountriesOfRoomsStay`: the foreign key is checked by the insert and
  by the delete.
* `BookedRoomsAreHalfMade`: with the discounts read the verdict is never "valid"
  (`WholeRoomsAreRefused`), and what was read is kept until the insert (`NoDiscountSeen`).
* `ReportedLacksOnlyTheUnlinked`: `ReportedRoomLacksOnlyTheUnlinked`. A group that was asked
  for and is not pending is stored, unless the failure was answered (`DoneIsStored`).
* `HostsAreVerified`: whom a handler acts as was verified at some time (`VerifiedActs`);
  that is not undone by later saves.
* `NamesAreBounded`: the rows of a name and the handlers about to insert it are together
  at most the handlers (`InsertingIsBounded`); whoever becomes one of them found no row.

`LifecycleProofs`: `TypeCorrectness`, `AcceptedIsAnswered`, `BegunIsFinished` and
`NoDowntime` for any number of workers and clients. Given the types, each is inductive: a
worker leaves `closing` only when it has no client, and `draining` only when no write is
under way.

Only model-checked: liveness (`EveryRequestIsAnswered`, `ShutdownEnds`), which under
fairness is out of the prover's reach; of the first, `NobodyGetsStuck` and
`NobodyWaitsInACircle` are the safety part. Of one of the violated properties the serial
form is proved: `SerialResetsLast`. That reservations do not overlap with one handler
(`SerialServiceIsExact`) is proved only, and so is `NoDeadlock`; the types of `Access` and
`Countries` are part of those of `Rooms`.

## 6. Not modelled

* `lists` and `categories`: `create` makes an entity in memory (`Repository.create`) and
  stores nothing (`lists.service.ts:29`, `categories.service.ts:38`), so `append` and
  `delete` find no row. No operation of theirs changes a table, and a model would have one
  state.
* `reviews`, `rooms.update` and `rooms.remove`: stubs that return a string;
  `users.update`, which no route reaches.
* Formatting, logging, settings, interceptors, the passport and OAuth exchange, signing of
  tokens, the SMTP transport: no shared state.
* Tables without code (conversation, message, payment); the guests of a reservation,
  profile columns, expiry of the reset link (it only forbids).
* Row locks: a query of `ConnectionPool` waits for a connection, never for another
  transaction. The transactions here write rows of one table at a time, apart from the
  save of a user with its roles.
* Real time: 5 s of `kill_timeout` against 5 s of `keepAliveTimeout`, the timeouts of the
  pool; each may happen at any time.

What could still be added: the work of a worker in `Lifecycle` replaced by the requests of
`ConnectionPool`, and `Accounts` composed with `Rooms` in one state space. Both products
are out of TLC's reach in this detail. In place of the first, the environment actions of
`Lifecycle` allow more than `ConnectionPool` does; in place of the second there is the
refinement of `UserTable`.
