# Campus resource booking: specifications, model checking and proofs

This directory holds the TLA+ development of the campus resource booking
service (`src/web-backend`, NestJS and TypeORM over PostgreSQL 16, and
`src/web-frontend`, Next.js). Paths below are relative to `src/`.

Contents: [the system](#the-system) · [what is hard](#what-is-hard-here) ·
[modules](#modules) · [how state and actions correspond to the code](#correspondence-with-the-code) ·
[runs](#runs) · [fairness](#fairness) · [proofs](#proofs) ·
[only model-checked](#only-model-checked) · [divergences](#divergences-found) ·
[not modelled](#not-modelled) · [plan](#plan)

## The system

Students book rooms, labs and equipment by the hour for a campus date. Staff
review bookings and run check-in; administrators manage resources, closures and
accounts. Every instance of the backend is a Node process serving requests
concurrently; the only shared state is the database. Transactions run at
PostgreSQL's default isolation level, READ COMMITTED, and coordinate through
explicit row locks (`FOR UPDATE`), one advisory lock, unique indexes, CHECK
constraints and one exclusion constraint.

| component | state it keeps | operations | what makes it correct |
|---|---|---|---|
| bookings (`bookings/bookings.service.ts`) | table `bookings` | `create`, `approve`, `reject`, `requestCheckIn`, `confirmCheckIn`, `checkOut`, `markNoShow`, `cancel`; listings | blocking bookings never overlap; a booking moves along its lifecycle; a code is issued and spent once; no row breaks a CHECK constraint |
| resources and closures (`resources/resources.service.ts`) | tables `resources`, `buildings`, `resource_closures` | `create`, `update`, `updateStatus`, `createClosure`, `deleteClosure`; discovery, availability | no change strands a booking that has not ended; hours stay in order; a date is closed once |
| availability view (`resources/dto/resource-availability-response.dto.ts`) | none | free slots of a date | the slots shown are those `create` accepts |
| campus clock (`common/time/campus-clock.ts`) | none | campus date and time of an instant | SQL string comparisons and millisecond comparisons agree |
| availability events (`events/availability-events.service.ts`) | none | notify rooms after a commit | every committed change is announced |
| events gateway (`events/events.gateway.ts`) | rooms of each socket, expiry timers | connect, disconnect, join, leave, drop a user | a deactivated or expired session keeps no socket |
| users (`users/users.service.ts`) | table `users` | `create`, `updateRole`, `updateStatus`, bootstrap provisioning | there is always an active administrator |
| authentication (`auth/`) | none (signed cookie) | register, login, guards that re-read the user | requests run with the current role |
| account bootstrap (`auth/account-bootstrap.service.ts`) | none | provision administrator and staff at start-up | idempotent under several instances |
| analytics (`analytics/analytics.service.ts`) | none | summary | utilisation arithmetic |
| catalog import, demo data (`scripts/`) | the tables, from outside | import, clean, seed | does not race with bookings |
| browser (`web-frontend`) | page state, one socket | forms, slot picker, realtime refresh | pages reflect the server after an event or a reconnection |

Interactions. Controllers authenticate through the guards and call one service
method. `bookings.create` reads `resources` and `resource_closures` and takes the
resource's row lock; the other booking operations lock only the booking row.
The administrators' changes of a resource lock the resource row and read
`bookings`. After commit a method calls `AvailabilityEventsService`, which emits
to the gateway's rooms (`availability:<resource>:<date>`, the dashboard of a
date, or every socket); hooks in the browser reload the page on an event and on
every reconnection. `users.updateStatus` publishes deactivations to the gateway.

## What is hard here

* Two lock orders meet: `create` and administrators' changes serialise on the
  resource row, booking operations on the booking row, and the two families
  only meet in the constraints of the `bookings` table.
* Values are read before a wait and used after it: the clock in `create`
  (`requireValidRequest`), the clock in `requireNoActiveBookings`, the closure in
  `deleteClosure`.
* An INSERT that meets a row under rewriting by an open transaction waits inside
  the exclusion constraint while it holds the resource lock.
* Time is compared in two ways: milliseconds in TypeScript, and the campus date
  and the `HH:MM` string in SQL.
* A commit and its announcement are two steps, and the process can die between.
* What is free is computed four times, by different code: the hourly slots of the
  availability endpoint, the time filter of the directory in SQL, the interval
  picker of the browser, and `create`.
* The browser refuses a response whose fields do not fit together and shows an error
  page instead, so one odd row hides a whole list.
* Every page sends requests whose answers may be late, overtaken or lost, beside
  events and refreshes, and keeps flags that disable its controls meanwhile.
* A connection is accepted in several asynchronous steps, during which its socket can
  close, its session expire and its user be deactivated.
* The catalog scripts lock the table of bookings before resources; `create` locks
  the other way round.

`PROJECT.json` lists each hazard at its line with the property that would catch
it going wrong.

## Modules

| module | contents |
|---|---|
| `CampusClock` | instants, campus dates, times of day, weekdays |
| `BookingRules` | a row of `bookings`: the guard and the effect of each operation, the CHECK constraints |
| `ResourceRules` | a row of `resources`, partial updates, and the conditions that protect bookings from them |
| `BookingSystem` | the transactional service: state, actions, properties, refinement mapping, fairness |
| `BookingLifecycle` | the abstract specification: what a booking promises, without transactions, locks or time |
| `BookingInvariant` | the inductive invariant `IInv` and its named parts |
| `MCBookingSystem` | instances for TLC: slots, clock readings, patches and sets of operations |
| `BookingSystemProofs` | lemmas about the clock and the rules; type correctness |
| `BookingSafetyProofs` | the inductive invariant is preserved; the safety theorems |
| `BookingCommitProofs` | what a commit does: `BookingSystem` implements `BookingLifecycle`, and no operation changes availability silently |
| `UserAdministration` | the `users` table: registration, changes of role and status, provisioning at start-up, and its inductive invariant `UserInv` |
| `MCUserAdministration` | instances for TLC |
| `UserAdministrationProofs` | `UserInv` is inductive; the theorems about administrators |
| `BookingViews` | responses about bookings, the student's timeline, the selection of the staff queues, and the browser's parsers of their items |
| `StaffQueues` | a page of a staff queue read statement by statement while bookings change, and the browser's check of the page |
| `MCBookingViews` | instances of both |
| `Availability` | the availability endpoint, the directory's time filter, the slot picker, and the browser's parser |
| `Analytics` | hours booked and offered, popular resources, and the browser's check of a summary |
| `MCAvailability` | instances of both |
| `BookingViewsProofs` | bookings, lists and availabilities are readable, flags are true, what is on offer is what `create` accepts |
| `AnalyticsProofs` | sums over finite sets; utilisation is bounded and summaries are accepted |
| `EventsGateway` | connections, rooms, expiry and deactivation |
| `MCEventsGateway`, `EventsGatewayProofs` | its instance; types, caps and expiry of connections |
| `ResourcePage` | the page of a resource in the browser: live region, form, socket |
| `BookingPages` | the page of one booking, for its student or for staff |
| `ResourceManager` | the administrator's tab on the resource catalog |
| `UserManager` | the administrator's tab on the user directory, with the endpoint behind it |
| `Session` | sign-in, registration, sign-out, the cookie, the guards of all pages |
| `CatalogImport` | `catalog:import` and `catalog:clean` beside creations |
| `Parts` | the last six side by side, with the assumptions on their constants |
| `MCParts`, `PartsProofs` | small instances of them; the inductive invariant of each and its theorems |

Each module EXTENDS the one above it that it builds on (`CampusClock`,
`BookingRules`, `ResourceRules`, `BookingSystem`, `BookingInvariant`, and from
there the MC module and the proofs). `BookingLifecycle` is instantiated inside
`BookingSystem` with a refinement mapping.

`BookingViews`, `Availability` and `Analytics` EXTEND `BookingInvariant` too: they are
operators over the committed rows and a clock reading, evaluated in every state the
service reaches. `StaffQueues` EXTENDS `BookingViews` and adds a request of its own, whose
statements interleave with the steps of `BookingSystem`. The gateway, the pages and the scripts see the service through the
contract the booking modules establish (a creation succeeds or conflicts, a change
has a new version, a commit is announced to the rooms) and keep their own state.

## Correspondence with the code

State of `BookingSystem`:

| variable | code |
|---|---|
| `resources`, `closures`, `bookings` | the committed rows of the three tables, by id |
| `txn[t]` | a request in progress: its parameters, how far it is, the clock reading `requireNoActiveBookings` took, and the row version it has written but not committed |
| `now` | `this.clock()`, the wall clock of the campus |
| `unannounced` | (history) pairs of resource and date whose availability changed with no event since |

A request goes through `idle`, `queued` (its transaction is open and waits for
the row lock), `locked`, `clocked` (between the clock reading and the query of
`requireNoActiveBookings`), `written` (statement executed, not committed) and
`committed` (not announced yet). These are the points at which another request
can run, the process can die or the clock can move: each is an `await` of the
code or a wait inside the database. Between two of them everything the method
does, guards, early exits and writes, is a single action. In READ COMMITTED a
statement sees what other transactions committed before it started, so the
actions read `resources`, `closures` and `bookings` and never `txn[u].image`.
`create` makes three reads and one INSERT under the resource lock; since every
writer of the rows it reads takes the same lock, the reads and the INSERT are one
action, and only the INSERT, which meets rows guarded by other locks, can wait.

| actions | code |
|---|---|
| `Receive`, `Acquire` | what a method does before its transaction, then its `SELECT ... FOR UPDATE` (`lockBooking`, `lockStudentBooking`, `lockResource`) |
| `InsertBooking`, `RefuseCreate` | `BookingsService.create` |
| `Approve`, `Reject` | `approve`, `reject` through `review` |
| `RequestCheckIn`, `ConfirmCheckIn`, `CheckOut`, `MarkNoShow`, `Cancel`, `RefuseBookingOp` | the methods of these names and their error paths |
| `ReadClock`, `Update`, `UpdateStatus`, `CreateClosure`, `DeleteClosure`, `RefuseResourceOp` | the administrators' methods of `ResourcesService`, `requireNoActiveBookings` |
| `CommitBooking`, `CommitResource`, `CommitClosure` | COMMIT |
| `Announce` | the `AvailabilityEventsService` call after the transaction |
| `Abort` | the database rolls back: a lost connection, or the victim of a deadlock (40P01), also one found while waiting in the exclusion constraint |
| `Crash` | the process dies: open transactions roll back, announcements and sockets are lost |
| `Tick` | time passes |

Abstractions of data. Ids are model values; the id an INSERT will get is named in
its request. Times are seconds, dates are days and hours are minutes, and the
SQL predicate truncates to minutes as the code does. The digits of a check-in
code are a flag, and a wrong code is a `confirmCheckIn` that is refused although
the row admits it. The reviewer, the staff stamped on check-in, check-out and
no-show, notes and `cancelledAt` are left out, as no rule compares them; so is
the requester, because a request for another student's booking finds no row and
ends without effect. An optional field of a partial update is a set with at most
one element. The key-share lock a foreign key takes on the resource never
conflicts with another booking's, and creations of one resource already exclude
each other, so it is not modelled.

`Rewritten` and `Contested` say what the exclusion constraint does with rows of
open transactions: an INSERT neither succeeds nor fails while all the rows it
conflicts with are being rewritten, or an overlapping row is being inserted.
The second case cannot arise for two creations of the same resource, since both
hold the resource lock; it is there because the constraint behaves so.

### Accounts

`UserAdministration` stands on its own: bookings refer to users only by id.
`accounts` are the committed rows of `users`; a row is its role and its active
flag. `txn[t]` is a request with the row locks and the advisory lock it holds, and
the phases separate the statements of `updateManagedUser` and
`provisionBootstrapAccount`, since at READ COMMITTED another transaction may
commit between any two of them.

| actions | code |
|---|---|
| `Receive` | the guards (`jwt.strategy.ts`, `roles.guard.ts`) let a change in; a registration arrives; an instance starts |
| `LockRow` | one row of `SELECT ... FOR UPDATE ... ORDER BY id` |
| `Change`, `GuardLastAdmin`, `RemoveAdmin`, `RefuseChange` | the rest of `updateManagedUser` |
| `SerializeProvisioning`, `FindAccount`, `CountAdmins`, `Recover` | `provisionBootstrapAccount` |
| `Insert`, `AlreadyExists` | `UsersService.create`, and the `ON CONFLICT DO NOTHING` of provisioning |
| `Commit`, `Abort` | COMMIT; a rollback, also by a crash |

The address is unique and never changes and rows are never deleted, so an account
stands for both its address and its id; the numbering of accounts is the order of ids.
An instance provisions its administrator and then its staff account; the model lets
any configured account be provisioned at any time and any number of times, which
includes every order of starts, restarts and crashes. A request for an id without a
row answers "not found" and is left out.

### Reads

`BookingViews` turns a row and a clock reading into the response of each endpoint
(`StudentView`, the staff item) and selects the lists as the queries do, with the
campus date and the `HH:MM` string where the query compares those. The `Parses...`
operators are the parsers of `features/bookings/schema.ts`. `Availability` has the
snapshot (one REPEATABLE READ transaction), the loop over hours, the filter of the
directory, the selection of consecutive slots, and the parser of
`features/resources/schema.ts`. `Analytics` sums hours of bookings and of the
schedule, lists the most booked resources up to the limit, and states what
`features/analytics/schema.ts` accepts. Names, percentages and filters over fixed
attributes are left out.

The two staff queues are read outside a transaction. In `StaffQueues`, `Ask` takes the
clock reading, `FindIds` is the query for the ids of a page, `ReadRows` the one for their
rows, and `CountRows` the COUNT, or TypeORM's conclusion from a page that is not full.
Which bookings are on which page depends on the order, which is left open. `Offset`
and `ParsesStaffQueuePage` are the browser's check that a page has as many items
as the total leaves for it.

### Events gateway

`phase[s]` is how far `handleConnection` is: `reading` (`findById` is under way),
`read`, `joined` (in its user's room), `open` (the timer is set) or `rejected`. The
handlers of `join` and `leave` do not wait for it, nor does a disconnection.
`Ended` is what Socket.IO and `handleDisconnect` do with a socket that goes;
`Deactivate` commits, `DisconnectUser` is the event that follows. Messages are handled
one at a time, and the in-memory adapter joins at once, so counting rooms and joining
are one step.

### Pages of the browser

All follow one pattern: a handler sends (`Submit`, `Confirm`, `Send`...), the server
does its part (`Serve`, `Commit`, `Refuse`), the answer is handled with its `catch` and
`finally` (`Answer`, `Succeed`, `Fail`), or is lost (`Lose`), which a handler sees as a failure of
the network whether or not the request was served. Between any two of these, others may
change the same data, another handler may run, and an event or a refresh may arrive.

| module | code | what its state is |
|---|---|---|
| `ResourcePage` | `app/resources/[id]`, `use-availability-updates.ts`, `booking-request-form.tsx`, the client socket | the date on display and the availability rendered, the load under way and whether another must follow, the form, the messages sent and the events not handled |
| `BookingPages` | `student-bookings.tsx`, `staff-bookings.tsx`, their pages | the row of the server, the component's own booking, the row its key was made of, the request of each operation |
| `ResourceManager` | `admin-resource-manager.tsx`, its API client | versions of the rows and of what is displayed, the editor, the list of closures and the loads that fill it, one request of each kind |
| `UserManager` | `admin-user-manager.tsx`, `users/schema.ts`, `findForAdministration`, the error boundary | accounts, the filter and page on display, whether the browser has refused the page, the dialog and its request |
| `Session` | `login-form.tsx`, `register-form.tsx`, sign-out, the guards in `app/`, `auth.controller.ts` | accounts, the cookie, the page and the navigation under way, the socket's account |

A React component keeps its state over a refresh unless its key changes;
`Render` and `ReadPage` say which pages change theirs. In `UserManager` creation times are in the
microseconds the database orders by and `Accepted` compares the milliseconds the browser
gets; a page it refuses is replaced by the error boundary, whose "Try again" mounts the
directory anew. A committed change is a new
version number where its content does not matter.

### Catalog scripts

`CatalogImport` runs the script's transaction in the order of its statements: the
table lock, the read of active bookings, then an upsert and the closures of each entry of
the catalog (or the deletions of `clean`). A creation locks its resource, checks and then
inserts, which needs ROW EXCLUSIVE on the table. `AbortCreation` and `AbortScript` are
PostgreSQL's detection of the cycle; `Rollback` also stands for a script that dies.

## Runs

The runs of bookings are instances in `MCBookingSystem`. The reference campus day is a Monday, the
resource is open from 9 to 11 on Mondays and Tuesdays.

| run (cfg) | question | bounds |
|---|---|---|
| `lifecycle` (`BookingLifecycleOps`) | do concurrent creations, reviews, check-ins, check-outs, no-shows and cancellations keep bookings apart, rows within the CHECK constraints, and steps on the lifecycle? | 2 bookings, 3 slots (two adjacent, one overlapping both), 2 requests, 4 clock readings, with and without approval |
| `all_operations` (`AllOperations`) | can a change of schedule, status or closures strand a booking? is `IInv`, the invariant the proofs rest on, true, and is every availability change announced? | all twelve operations, 1 booking, 2 closures of the same date, 2 requests, readings before, inside and after the booking |
| `liveness` (`RequestsFinish`) | does every request end and every change get announced? | 2 bookings of one slot, 2 requests, operations that take both kinds of lock |
| `status_change_race` (`StatusChangeRace`) | does the documented promise about status changes hold? (it does not) | 1 booking, 2 requests |
| `late_booking` (`LateBooking`) | are bookings in the past prevented? (not quite) | 1 booking, 2 requests |
| `accounts` (`UserAdministrationOps`) | can concurrent changes remove the last administrator, or be made by somebody who no longer is one? can a restart promote an account needlessly? is `UserInv` true? | 3 accounts of any kind, 2 requests, two accounts configured as administrator by different instances, one of them also as staff |
| `account_liveness` (`UserRequestsFinish`) | can row locks, the advisory lock and waiting INSERTs form a cycle? | 2 accounts, 2 requests |
| `views` (`BookingViews`) | can the browser read every booking and every list? do flags agree with the operations? is every booking with something to do in its list? which pages of a staff queue are refused? | 1 booking of one of 3 slots (one starts at midnight), 2 requests, 8 clock readings; pages 1 and 2 of one item each, asked for in the last second before an end, and read then or later while one request at a time changes the booking |
| `availability` (`Availability`) | do the slots, the directory and the interval picker agree with `create`? does the browser accept every availability and every summary? | 2 bookings of 3 slots, 1 closure, 1 request, 4 readings, every interval from 8 to 13 o'clock, also reversed and empty ones; a second resource that can be booked but not changed, or is inactive; summaries of one popular resource |
| `gateway` (`GatewayConnections`) | does every accepted connection end with its session? do rooms stay capped? | 2 sockets of one user with sessions of different length, limit of one room of a kind, longest timer of 2, time up to 4 |
| `parts` (`Parts`) | is what a page shows, in every order of clicks, answers and changes, what it may show? do the scripts strand bookings? | one tab; 2 dates, 2 resources, 2 loads of closures, 3 accounts on pages of 2, created within one millisecond and two of them at the same microsecond, 3 roles, four instants around a booking, 2 runs of a script and 2 creations |
| `parts_finish` (`PartsFinish`) | does every form, button, dialog and navigation come to its end, does an event reach the page, do scripts and creations wait for each other forever? do displayed rows go back? | as `parts`, with one date, one resource, 2 accounts, three versions of a row, and all roles at the guards of three pages, which lead to the others |

Why these bounds are enough. The properties relate at most two bookings, two
closures or one booking and one resource, and one transaction to the tables, so
two bookings and two closures are the smallest instances where each can fail;
one resource suffices because nothing but a summary relates rows of two resources, and
`availability` has two and a limit of one for it (`PopularSize` is 5 in the code). That the
listing is in falling order takes three bookings to fail and rests on the proof. Two
requests give every pair of steps of two handlers, and a resource change with two
closures of one date gives every pair of administrators' changes. Clock readings are placed at the
boundaries the rules compare: before the check-in window, the first second of
the window, the end of a booking that is the start of another, and inside the
minute after an end. Three accounts are needed for an administrator who was demoted
in the meantime to change somebody else, and two requests for each race; the
theorems cover more of both. `WhileRead` and `OneIsChanged` bound what happens beside a staff queue being read and
beside a second resource in use. Pages of one item (`QueueSize`, 20 in the code) make the first page a full one
and the second an empty one. `Ops` is the set of operations the clients of an instance
call, `FreshBooking` bounds the number of bookings ever filed, and rows are never
removed from the model. Symmetry is used in the safety runs for requests,
bookings and closures, which are interchangeable model values; not in the
liveness runs. Deadlock is checked in the runs of bookings, views, availability and
accounts: some request can always be received or aborted. It is not in `gateway`, `parts` and
`parts_finish`, where a system may really stop: every socket is gone and an id of a connection
is used once, every client has left its page alone, every script and creation is over.

In `gateway` two sockets of one user are the smallest number for which a deactivation
reaches one and misses the other; a limit of one shows the boundary, and the proofs
cover any. In `Parts` the six instances share nothing, so a behaviour takes one at a time (`part`) and
the run adds their states instead of multiplying them. `MaxLate` and `MaxOutbox` bound requests
whose form is gone and messages not handled yet, `MaxVersion` and `MaxChanges`
what others do, `Loads` the loads of closures in flight, which two suffice for one to
overtake the other. `Visited` names the pages whose links are followed; the guards
still redirect to the rest. Directory pages of two rows and three accounts
give a full, a partial and an empty page.

Every property of a passing run has a mutant in `PROJECT.json`: an operator, next
to the one it stands for, with a plausible bug (a missing lock, a dropped guard,
a default that is not taken from the locked row, a forgotten announcement) that
makes TLC report that property.

## Fairness

`FairSpec` is used only by the runs `liveness`, `account_liveness`, `gateway` and
`parts_finish`. In `BookingSystem`:

* Strong fairness of `Acquire`: PostgreSQL queues the waiters of a row lock, so
  a lock that is released again and again is eventually granted to each.
* Strong fairness of the outcome of `create`: an INSERT that waits on a
  transaction is woken when that transaction ends and compares again.
* Weak fairness of every other step of a request in progress: the event loop and
  the database continue what they have accepted.
* No fairness of `Receive`, `Abort`, `Crash` and `Tick`: clients need not send
  anything, nothing has to fail, and no property depends on time passing.

`RequestsFinish` says that row locks and waits in the exclusion constraint form no
cycle. The order that makes it true is that an operation on a booking waits
for no second lock, so whoever a creation waits for can finish.

In `UserAdministration` a request waits in at most one action at a time, so strong
fairness of `Progress(t)` says that its lock queue serves it and that everything else
it does continues. Arrivals and rollbacks are not fair. Row locks are taken in the
order of ids; the advisory lock is taken after row locks by changes and before
one by provisioning, and the cycle does not close because provisioning reaches for a
row only when it has counted no administrator, while whoever waits for the advisory
lock with rows in hand is one.

In `EventsGateway` each `await` of `handleConnection` is resumed and a timer that is due
fires (weak fairness): the event loop does both. Time, clients and deactivations are free. `SessionsEnd`
therefore says what the timer guarantees, not that anyone hangs up.

In the browser a request is eventually answered or its connection fails, the router ends
a load it has started, and the event loop handles messages and events that have arrived:
weak fairness of the disjunction of those steps in each page. Clicks, other
people, disconnections and reconnections are not fair. So `ControlsComeBack` holds
although no answer need arrive, and `EventsReachThePage` is about an event that has
arrived; one that was sent while the socket was down is lost, by design of the hook, which
reloads on the next connection instead.

In `CatalogImport` strong fairness of the INSERT of a creation and of the script's upsert and delete stands
for PostgreSQL's lock queues, and weak fairness of the abort for its deadlock
detector (`deadlock_timeout`). Whoever is aborted is free to be either side.

## Proofs

Every invariant and every action property that a run checks is also proved, for all values of the
constants that satisfy the named assumptions; what TLC contributes to those is that the
formulas, among them each inductive invariant, were found to hold on an instance first. The
assumptions say what the constants stand for:

| assumption | says | because |
|---|---|---|
| `SlotAssumption` | the times of a slot are whole hours between 00:00 and 23:00, in any order | `CreateBookingDto` refuses others; `create` itself compares them |
| `InstantsAssumption`, `ClosureDateAssumption` | clock readings and dates of closures are natural numbers | they count seconds and days |
| `IdAssumption` | resource and booking ids are distinct; there is a resource and a slot | UUIDs |
| `PatchAssumption`, `InitialResourceAssumption` | partial updates are well-formed; resources start with hours in order | the DTOs; `create` of a resource validates them |
| `PopularSizeIsPositive`, `QueueAssumption` | a summary lists at least one resource; pages are counted from one and have at least one item, and bookings are finitely many | constants of the code and its DTOs |
| `FiniteTables` | resources and bookings are finitely many | tables are finite; needed to sum over them |
| `AccountAssumption`, `ConfiguredAssumption`, `InitialRowAssumption` | accounts are finitely many and numbered, in the order of their ids; some are configured to be provisioned; rows have a role and a flag | rows are locked in the order of ids |
| `AskedAssumption` | an interval asked for lies between whole hours of a day | the search form and its query DTO |
| `OwnerAssumption`, `ExpAssumption`, `LimitAssumption` | a socket has one user and one expiry; limits and times are natural numbers | the claims of the token |
| `DateAssumption` | the marks for "no date" and "any date" are no dates | |
| `TabAssumption` | a socket may join a room, a page may send a message | limits are positive |
| `ManagedAssumption` | a closure is of one resource, "none" is no id | the foreign key |
| `DirectoryAssumption` | ids are ordered, the page size is positive, filters can be cleared | the query's order, the DTO |
| `SessionAssumption` | links lead to pages | |
| `ImportAssumption` | the catalog is a sequence of entries; the bookings a script finds fit their resources | the type of the catalog; `UnendedBookingsAreOperational` |

**The argument.** The properties of the tables (`TablesAreSafe`) are not inductive:
they say nothing of a write that is staged and about to commit. `IInv` adds

* `LockExclusion`: two transactions never hold the same row;
* `DistinctIds`, `UnusedIds`: an id an INSERT has been given stays unused;
* `ReadingIsPast`, `StampsArePast`: clock readings do not lie ahead of the clock;
* `StagedWrites`: what each transaction established by its checks is still true of
  the committed tables when it commits. A staged booking fits its resource,
  whose date is open, and overlaps nothing; a staged resource row fits every
  booking that has not ended; the date of a staged closure has no such
  booking; a staged version of a booking is what one operation, with its guard
  true at some reading, writes into the committed row.

A check stays true because whoever could falsify it needs the row lock the
checker holds (`LockExclusion`), or starts to block nothing it did not block
before (`SafeUpdate`), or because time only moves forward: a booking that
`requireNoActiveBookings` ignored because it had ended has still ended. That last step
needs `EndsAfterNowIsExact`: the predicate over campus date and `HH:MM` decides
exactly whether an instant lies before the end of a slot, because slots end on
whole minutes.

| theorem | says |
|---|---|
| `EndsAfterNowIsExact` | the SQL predicate and the comparison of instants agree, to the second |
| `TypeCorrect` | `Spec => []TypeOK` |
| `InvariantHolds` | `Spec => []IInv` |
| `NoDoubleBooking` | blocking bookings of a resource never overlap |
| `ChangesStrandNoBooking` | pending and confirmed bookings that have not ended stand on an active resource within its schedule |
| `ClosuresStrandNoBooking` | a closed date has no blocking booking that has yet to end |
| `ClosuresAreUnique` | a date is closed at most once |
| `ConstraintsHold` | no row ever breaks a CHECK constraint |
| `HoursStayInOrder` | operating hours stay in order |
| `ServiceImplementsLifecycle` | `Spec => Lifecycle!Spec`: initial states map to initial states, and every step to a step of `BookingLifecycle` or a stutter |
| `UserInvariantHolds` | `Spec => []UserInv` |
| `AnAdminRemains` | once there is an active administrator there always is one |
| `OnlyAdminsChangeAccounts` | an existing account changes only by a current active administrator, or by recovery when there is none |
| `RecoveryIsLastResort` | provisioning changes an existing account only when there is no active administrator |
| `GuardFindsAnother` | the guard of the last administrator counts at least two |
| `AccountsWellTyped` | account administration keeps its types |
| `NoSilentChange` | a committed change of availability is owed an event by the request that made it, until it is announced |
| `BookingsAreReadable` | no booking reaches a state the browser's parsers reject |
| `FlagsAreTrue` | the cancel, check-in and confirm flags hold exactly when the service would accept |
| `ListsReadable` | of `QueueSpec`: the timeline is never refused, no item of a staff queue is, and while no booking enters or leaves a queue its pages have the true total and are accepted; the pending queue is what can be reviewed |
| `OperationsListed` | what staff can act on is listed |
| `OffersAreExact`, `DirectoryIsExact`, `AvailabilitiesAreReadable` | what a resource's page offers, by the hour and by the interval, is what `create` accepts; a search finds the resources whose page says so; no availability is refused by its parser |
| `UtilizationBounded`, `SummariesAccepted` | on dates ahead no more hours are booked than offered; which summaries the browser's parser accepts, popular resources included |
| `RoomsAreFollowed` | a connected page whose messages are handled is in the room of its date and in no other |
| `EditorIsExact`, `RowsNeverGoBack` | the editor shows closures and conflicts of its resource; rows of the list do not get older |
| `AnswersAreInOrder`, `RefreshedPagesWithdraw` | answers take a booking's page forward only; after a refresh it offers what the booking admits |
| `ImportKeepsBookings` | scripts strand no active booking |
| `DirectoryPagesFit` | every account on display passes the filter; a page of a search is refused only for two neighbours created within one millisecond, the greater id later |
| `PartsAreTyped` | the parts keep their types |
| `GatewayWellTyped`, `CapsHold`, `ConnectionsExpire` | the gateway keeps its types; no socket is in more rooms of a kind than the limit; every accepted connection has a timer that fires by the end of its session or at once |

`UserInvariantHolds` and the five after it are theorems of `UserAdministration`, for any finite set of accounts and
any requests and configurations. `UserInv` says who holds which lock in which phase
and what the holder knows: a change about to commit is authorised by an actor
whose row is locked and who therefore still is an administrator
(`LockedAdminsStay`); provisioning that counted no administrator holds the advisory
lock, without which none appears (`NoAdminAppears`). The actor is never the target,
so it remains when the target is removed: this is why there is always an
administrator, and why `LastActiveAdminError` is a second line of defence that no
request reaches. Without the row lock on the actor the count under the advisory
lock would be what protects the last administrator.

The refinement of `BookingLifecycle` rests on `IInv`: at its commit a staged version is one lifecycle
edge away from the committed row (`StagedUpdate`), and a staged booking clashes
with nothing (`StagedInsert`).

`NoSilentChange` needs `AnnouncementInv`, which adds to `IInv` that the room a request is
about to report is the one its commit changed: the booking it names exists and keeps its
resource and interval (`ReportsKnownRow`; rows are never moved or removed), the closure
whose date `deleteClosure` read before its transaction is the one it deletes unless
another request deleted it first (`DeletesNamedClosure`), and the two operations that announce
nothing, asking for a check-in code and confirming it, write rows that block exactly as
before (`SilentWriteBlocks`). Its proof shows for each commit that no room but the reported one changes,
and for each other step that nothing a waiting announcement reports is lost.

`BookingsAreReadable` and `FlagsAreTrue` follow from `IInv`: the parsers accept what the
CHECK constraints admit, together with the link between a code and the time of its
request. `ConnectionsExpire` is inductive with the types; it holds also when the
delay is clamped, because a clamped timer fires early, never late. `CapsHold` needs in
addition that sockets are in finitely many rooms, which is inductive too (`FiniteRooms`).

**Reads.** `ListsReadable` and `OperationsListed` compare the two ways time is told: a list is
selected by campus date and `HH:MM`, its items are judged by instants. `ReadingInv` says of a
request for a queue that every row it has read still met the conditions of its query when
it was read, which is why the flags fit although the clock reading is older, and that
while nothing enters or leaves the queue the rows read are as many as belong on the page and the total is
true (`RowsBelong`, `TotalIsTrue`). Finite tables make both counts natural numbers (`QueueAssumption`).
The order of a list is total because the id breaks every tie. `OffersAreExact` and `DirectoryIsExact` meet four
computations of what is free in one predicate: an interval is free hour by hour, and
because slots and opening hours are whole hours (`SlotAssumption`, `HourFrom`) what is free
hour by hour is free as a whole. The hours of a day and the intervals of a list are picked in
order by least elements, for which `LeastNatural` takes the well-founded order of the natural
numbers from the library instead of an induction of its own.

**Sums.** A sum over a finite set is defined by a fold, that is by recursion. `SumIsDefined`
shows that the recursion has a solution and `SumCounts` that the sum of the sizes of finite sets is the size
of the union of their elements, each tagged with its set. Neither uses an induction theorem with an operator
parameter: the cardinalities at which the claim fails are a set of natural numbers, and a
least one (`LeastNatural`) contradicts one step of the fold. `UtilizationBounded`
is then an injection: each booked hour maps to an hour of an open day of its resource, which exists
because a booking that has not ended stands within the schedule and off the closed dates
(`UnendedBookingsAreOperational`, `ClosedDatesAreFree`) and is the image of one hour only
because bookings do not overlap (`NoOverlap`). Averages follow from the bound.
For `SummariesAccepted` the popular resources have to be listable by falling demand at all
(`ListingExists`: a least counterexample again, without its least demanded resource); the
bookings of those listed are an injection into all bookings, because no resource is listed twice
(`PopularAddsUp`).

**Pages and scripts.** `Parts` takes one part at a time, so each has an inductive invariant of its
own, stated at the end of its module.

| invariant | what it adds, and why it is needed |
|---|---|
| `RoomsInv` (`ResourcePage`) | The outbox is a chain: the first message concerns the room the gateway has the socket in, each join is followed by the leave of the same room, and the last message joins the room of the date on display (`MessagesFit`). So handling a message leaves the rest of the chain with the same meaning, and an empty outbox leaves the page in its room. A socket that is not connected has said nothing and is in no room. Without a date there is no form (`FormsFit`), so no late answer opens one. |
| `EditorInv` (`ResourceManager`) | A load that is live is of the resource being edited, and what it has read is of that resource (`LoadsFit`); a request of a kind has an operation of that kind and its subject is the one on display (`RequestsFit`); one request is under way at most (`OneRequest`), without which the answers of two could overtake each other; an answer is no older than the row it replaces (`VersionsFit`); a closure is added once (`AddsFit`). |
| `PageInv` (`BookingPages`) | What is on the page, or on its way to it, is not ahead of the booking (`ReadsArePast`); of the requests under way at most one was admitted, and its answer is news (`AnswersAreNews`): this is where the guards of the service's operations order the answers. What is shown is what was rendered or an answer since (`ShownSince`), which makes the key of the component say enough. |
| `ImportInv` (`CatalogImport`) | A creation that has checked its resource still holds its row (`CreationsFit`); while the script holds the table nothing is inserted, and what it read is still all there is (`ShareFits`); it writes rows it holds, without active bookings (`WritesFit`). |
| `DirectoryInv` (`UserManager`) | No account is on the page twice (`OneRowEach`), so that taking off the row that no longer passes leaves none behind that fails; the account in the dialog is on the page (`DialogFits`). |
| `SessionInv` (`Session`) | A navigation that loads its data goes to a guarded page on behalf of an account that exists (`NavigationsFit`); whom the server answered for has an account (`FormsFit`). |

`DirectoryPagesFit` also needs that the accounts found can be listed in the database's order at all. The
order is strict and total (`LatestIsOrder`), so the number of accounts ahead of each is
an injection from a set of n accounts into 1..n; it is onto because both are finite and of one size
(`PlacesAreTaken`), and its inverse is the list (`OrderExists`).

The theorems cover any number of resources, loads, accounts, dates and creations; the runs two
or three of each. The bounds of the models (`MaxVersion`, `MaxLate`, `MaxOutbox`, `MaxChanges`,
`MaxRuns`) stay in the guards but are any numbers.

## Only model-checked

* Liveness, which is out of the prover's reach: `RequestsFinish`,
  `ChangesAreEventuallyAnnounced`, `AccountRequestsFinish`, `SessionsEnd`, and those of
  `parts_finish`: `EventsReachThePage`, `ControlsComeBack`, `NavigationsEnd`,
  `SignInRestoresEvents` and `ImportAndCreationsEnd`. They need fairness and ENABLED, which the
  provers do not have.
* The two violated properties, which are false.

## Divergences found

* `StatusChangeIsBlocked`. `updateStatus` looks for bookings under the resource lock;
  `confirmCheckIn` does not take that lock. In the run, staff confirm a check-in just
  before the end of a booking, the check-in has not committed when the status
  change, which reads the clock after the end, looks at the old row, finds a
  confirmed booking that has ended and ignores it; the check-in commits, then the
  status. The resource is inactive with a checked-in booking, which
  `admin-resources.controller.ts:124` excludes.
* `NoBookingInThePast`. `create` compares the start time with the clock before the
  transaction. If it then waits for the resource lock, or for a conflicting
  transaction, past the start, the booking is filed anyway (`progress.md:61`,
  and the text of the error at `bookings.service.ts:628`).

Both need a request to wait across a boundary of time, which is why tests do not
meet them. They do not disturb the proved invariants.

### Behaviours worth knowing

Met while modelling. Either nothing in the repository promises otherwise, or the
promise is a comment about one component's own state; the models contain them.

Bookings and reads:
* A pending booking that nobody reviews before it ends can no longer be approved,
  rejected or cancelled, and stays pending.
* The authority of an account is read when a request starts (`jwt.strategy.ts:34`); staff
  demoted a moment later still finish a review.
* A request to book sent again after its answer was lost conflicts with the booking the
  first one made.
* The ids, rows and total of a staff queue come from statements outside a snapshot
  (`bookings.service.ts:193`). If a review commits between them, the items and the total
  disagree, and the browser's parser (`bookings/schema.ts:480`) refuses the page: staff see an
  error page until they reload. The comment at line 178, that total and page boundaries agree,
  is about filtering in SQL; `ListsAreReadable` says it holds while no booking enters or leaves the
  queue.
* Utilisation of a past range may exceed 100 percent, as capacity follows the schedule
  and closures of today. If capacity is zero while hours are booked, the browser's
  parser refuses the summary; `SummariesAreAccepted` says in which ranges it
  cannot.

Gateway:
* An account deactivated after `handleConnection` read it and before the socket joined
  the user's room keeps that socket until the session expires.
* A socket that disconnects during `handleConnection` leaves a timer behind
  (`events.gateway.ts:175`), which fires once and finds nothing to do.

Pages:
* An event sent between the render of a page and its join, or while its socket is down,
  never reaches it. After a lost answer the form says that no new request was
  sent, which may be false. A conflict stays on display after a refresh
  (`booking-request-form.tsx:150`).
* The key of the staff page leaves out `canReview`
  (`app/staff/bookings/[id]/page.tsx:41`): its review buttons survive a refresh after
  the booking has ended. The service refuses them.
* Editing the resource again that is being edited shows its closures as loading forever
  (`admin-resource-manager.tsx:471`): the effect at line 320 depends on the id only. A closure added while
  the list loads appears twice or not at all. The page list keeps its first rows over
  a navigation, as its state has no key. A save sends every field of the form, and
  so takes back what others changed since it was loaded.
* `Refresh` in the user directory does not replace the rows, although an error message
  (`users/api/browser.ts:31`) recommends it. The directory's parser compares
  creation times in milliseconds and then ids (`users/schema.ts:74`) while the database orders by
  microseconds: two neighbours created within one millisecond, the greater id later, replace
  the directory by an error on every load. `PageFitsTheSearch` says that nothing else does.
* The registration form does not drop an old socket (`register-form.tsx:96`), as
  `login-form.tsx:74` does and explains.
* Sign-out needs a session (`auth.controller.ts:73`): when it has expired, the answer is
  "Sign-out could not be completed. Try again." each time.

Scripts:
* A closure of a catalog resource that is skipped, because it has bookings, is placed with
  the catalog's operating days (`demo-catalog.ts:1012`) and may fall on a day the resource
  is closed anyway.
* An import may be aborted as the victim of a deadlock with a creation and has to be
  run again. It announces nothing to open pages.

## Not modelled

* `ResourcesService.create` and buildings: resources exist from the start. A resource
  nobody knows yet takes no part in any race; the catalog's tab has the creation of a row.
* Filters and orders of lists over fixed attributes, dashboards, charts and
  layout: they display what is modelled.
* Password hashing and the signature of tokens: a cookie is the account it names or
  none.
* A wall clock that is set back. Check-in would then fail on
  `CHK_bookings_check_in_timeline`.
* The length of a rejection reason and of other texts, which service, database and
  browser count differently (characters or UTF-16 units).
* In `Session`, the redirect of a list from a page beyond the last to the last one: it strictly
  lowers the page number, so it adds no cycle. `UserManager` has it in its render.
* The browser's Back button, and several tabs beyond what others may change.
* Seeding of demo accounts and bookings, the order of migrations: run once, alone.
* Configuration, throttling, health, the cached building list and HTTP setup: libraries with
  parameters; they decide nothing about the tables. Load tests and benchmarks are tools outside
  the service.

## Plan

Done, in this order: the booking core and its proofs; accounts; views; availability and
analytics; the gateway; the pages; the catalog scripts; the proofs of all their invariants
and action properties. What a next step would gain most from:

1. Abstract specifications of the gateway (who hears an event) and of account administration,
   and that the detailed modules implement them.
2. Two tabs of `ResourcePage` over `BookingSystem` itself, instead of over its contract.
3. The steps towards the liveness properties that are safety facts: that a request in progress
   has an enabled step when whoever it waits for has none left, stated without ENABLED.
4. The creation of resources and buildings as actions of `BookingSystem`.
