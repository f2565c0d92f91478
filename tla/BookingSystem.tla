---------------------------- MODULE BookingSystem ----------------------------
(***************************************************************************)
(* The booking core: BookingsService and the schedule, status and closure  *)
(* operations of ResourcesService, running as concurrent PostgreSQL        *)
(* transactions (READ COMMITTED) over the tables resources,                *)
(* resource_closures and bookings.                                         *)
(*                                                                         *)
(* A request is served in the steps in which the code can be interrupted:  *)
(*                                                                         *)
(*   idle --Receive--> queued --Acquire--> locked --...--> written         *)
(*        --Commit--> committed --Announce--> idle                         *)
(*                                                                         *)
(* `queued` waits for the FOR UPDATE row lock, `locked` holds it, `clocked`*)
(* is requireNoActiveBookings between its clock reading and its query,     *)
(* `written` has executed its INSERT, UPDATE or DELETE but not committed   *)
(* (the new version is `image`, which no other transaction reads), and     *)
(* `committed` has yet to call AvailabilityEventsService.                  *)
(***************************************************************************)
EXTENDS ResourceRules

CONSTANTS
  Txn,               \* requests that may be in progress at the same time
  BookingId,         \* ids the bookings table may use
  ClosureId,         \* ids the resource_closures table may use
  ClosureDate,       \* dates an administrator may close
  Patch,             \* the bodies of PATCH /admin/resources/:id
  InitialResource,   \* the rows a resource may start with
  Ops                \* bound: the operations the clients of an instance call

BookingOps  == {"approve", "reject", "requestCheckIn", "confirmCheckIn",
                "checkOut", "markNoShow", "cancel"}
ResourceOps == {"update", "updateStatus", "createClosure", "deleteClosure"}

ASSUME IdAssumption == Resource # {} /\ Slot # {} /\ Resource \cap BookingId = {}
ASSUME ClosureDateAssumption == ClosureDate \subseteq Nat
ASSUME PatchAssumption == Patch \subseteq ResourcePatch
ASSUME InitialResourceAssumption ==
  /\ InitialResource \subseteq ResourceRow
  /\ \A row \in InitialResource : ValidOperatingHours(row)

VARIABLES
  now,          \* the campus clock
  resources,    \* committed rows, by id
  closures,
  bookings,
  txn,          \* the request each transaction serves and how far it is
  unannounced   \* committed availability changes no event has reported yet

tables == <<resources, closures, bookings>>
vars   == <<now, resources, closures, bookings, txn, unannounced>>

----------------------------------------------------------------------------
(* Requests.  An INSERT names the id the database will generate for it.    *)

CreateRequest  == [op : {"create"}, resource : Resource, slot : Slot,
                   booking : BookingId]
BookingRequest == [op : BookingOps, booking : BookingId]
UpdateRequest  == [op : {"update"}, resource : Resource, dto : Patch]
StatusRequest  == [op : {"updateStatus"}, resource : Resource,
                   status : ResourceStatus]
ClosureRequest == [op : {"createClosure", "deleteClosure"}, resource : Resource,
                   closure : ClosureId, date : ClosureDate]

Request == CreateRequest \cup BookingRequest \cup UpdateRequest
             \cup StatusRequest \cup ClosureRequest

NoRequest == [op |-> "none"]
NoImage   == [status |-> "none"]
Idle == [phase |-> "idle", request |-> NoRequest, clock |-> Never,
         image |-> NoImage]

Holding == {"locked", "clocked", "written"}     \* the row lock is held
Open    == Holding \cup {"queued"}              \* the transaction is open
Phase   == Open \cup {"idle", "committed"}

TxnState == [phase   : Phase,
             request : Request \cup {NoRequest},
             clock   : Time,
             image   : BookingRow \cup ResourceRow \cup {NoImage}]

\* Rows of resource_closures: an id is unused, names a closed date of a
\* resource, or has been deleted.
NoClosure  == [state |-> "absent"]
Reopened   == [state |-> "deleted"]
ClosureRow == [state : {"closed"}, resource : Resource, date : ClosureDate]
                \cup {NoClosure, Reopened}

Dates == {s.date : s \in Slot} \cup ClosureDate

AbsentRow == [status       |-> "absent",
              resource     |-> CHOOSE r \in Resource : TRUE,
              slot         |-> CHOOSE s \in Slot : TRUE,
              reviewed     |-> FALSE,
              code         |-> FALSE,
              requestedAt  |-> Never,
              checkedInAt  |-> Never,
              checkedOutAt |-> Never,
              noShowAt     |-> Never]

TypeOK ==
  /\ now \in Instants
  /\ resources \in [Resource -> ResourceRow]
  /\ closures \in [ClosureId -> ClosureRow]
  /\ bookings \in [BookingId -> BookingRow]
  /\ txn \in [Txn -> TxnState]
  /\ unannounced \subseteq Resource \X Dates

Init ==
  /\ now \in Instants
  /\ \A i \in Instants : now <= i
  /\ resources \in [Resource -> InitialResource]
  /\ closures = [k \in ClosureId |-> NoClosure]
  /\ bookings = [b \in BookingId |-> AbsentRow]
  /\ txn = [t \in Txn |-> Idle]
  /\ unannounced = {}

----------------------------------------------------------------------------
(* Row locks, the exclusion constraint, and what the other sessions see.   *)

Op(t) == txn[t].request.op

\* The row a request locks FOR UPDATE before it reads anything it acts on.
LockedRow(request) ==
  IF request.op \in BookingOps THEN request.booking ELSE request.resource

Holds(t, row) ==
  /\ txn[t].phase \in Holding
  /\ LockedRow(txn[t].request) = row

IsClosedOn(r, date) ==
  \E k \in ClosureId : closures[k] = [state |-> "closed", resource |-> r,
                                      date |-> date]

\* Committed rows the exclusion constraint compares a new booking with.
Conflicts(r, s) ==
  {b \in BookingId : /\ bookings[b].status \in ExclusionStatuses
                     /\ bookings[b].resource = r
                     /\ Overlap(bookings[b].slot, s)}

\* A transaction that has not finished has written a new version of the row.
Rewritten(b) ==
  \E u \in Txn : /\ txn[u].phase = "written"
                 /\ Op(u) \in BookingOps
                 /\ txn[u].request.booking = b

\* Another transaction has inserted an overlapping row and has not finished.
Contested(t, r, s) ==
  \E u \in Txn \ {t} : /\ txn[u].phase = "written"
                       /\ Op(u) = "create"
                       /\ txn[u].image.resource = r
                       /\ Overlap(txn[u].image.slot, s)

\* Rows of the locked resource that requireNoActiveBookings would list.
BookingsOf(r) == {b \in BookingId : /\ bookings[b].status # "absent"
                                    /\ bookings[b].resource = r}

\* What the availability of a resource on a date shows to a viewer.
Availability(r, date) ==
  [row    |-> resources[r],
   closed |-> IsClosedOn(r, date),
   taken  |-> {bookings[b].slot : b \in {c \in BookingsOf(r) :
                 /\ bookings[c].status \in BlockingStatuses
                 /\ bookings[c].slot.date = date}}]

----------------------------------------------------------------------------
(* A request arrives and is served up to its row lock.                     *)

FreshBooking(b) ==
  /\ bookings[b].status = "absent"
  /\ \A u \in Txn : Op(u) = "create" => txn[u].request.booking # b

FreshClosure(k) ==
  /\ closures[k] = NoClosure
  /\ \A u \in Txn : Op(u) = "createClosure" => txn[u].request.closure # k

\* create: requireValidRequest reads the clock before the transaction starts.
AcceptsCreate(request) ==
  /\ request.op = "create"
  /\ request.slot.startTime < request.slot.endTime
  /\ IsFutureCampusTime(request.slot.date, request.slot.startTime, now)
  /\ FreshBooking(request.booking)

\* A request for an id that no row has finds nothing to lock and ends there.
AcceptsBookingOp(request) ==
  /\ request.op \in BookingOps
  /\ bookings[request.booking].status # "absent"

\* deleteClosure reads the closure, whose date it announces, before it
\* starts the transaction.
AcceptsResourceOp(request) ==
  \/ request.op \in {"update", "updateStatus"}
  \/ request.op = "createClosure" /\ FreshClosure(request.closure)
  \/ /\ request.op = "deleteClosure"
     /\ closures[request.closure] = [state |-> "closed",
                                     resource |-> request.resource,
                                     date |-> request.date]

Receive(t) ==
  /\ txn[t].phase = "idle"
  /\ \E request \in Request :
       /\ request.op \in Ops
       /\ \/ AcceptsCreate(request)
          \/ AcceptsBookingOp(request)
          \/ AcceptsResourceOp(request)
       /\ txn' = [txn EXCEPT ![t] = [Idle EXCEPT !.phase = "queued",
                                                !.request = request]]
  /\ UNCHANGED <<now, tables, unannounced>>

\* Mutant: a plain SELECT, which waits for nobody.
AcquireWithoutLock(t) ==
  /\ txn[t].phase = "queued"
  /\ txn' = [txn EXCEPT ![t].phase = "locked"]
  /\ UNCHANGED <<now, tables, unannounced>>

\* SELECT ... FOR UPDATE returns once no other transaction holds the row.
Acquire(t) ==
  /\ txn[t].phase = "queued"
  /\ \A u \in Txn : ~Holds(u, LockedRow(txn[t].request))
  /\ txn' = [txn EXCEPT ![t].phase = "locked"]
  /\ UNCHANGED <<now, tables, unannounced>>

----------------------------------------------------------------------------
(* Steps under the lock.                                                   *)

Stage(t, image) ==
  /\ txn' = [txn EXCEPT ![t].phase = "written", ![t].clock = Never,
                        ![t].image = image]
  /\ UNCHANGED <<now, tables, unannounced>>

\* The operation throws: the transaction rolls back and releases its lock.
Refuse(t) ==
  /\ txn' = [txn EXCEPT ![t] = Idle]
  /\ UNCHANGED <<now, tables, unannounced>>

Serving(t, op) == txn[t].phase = "locked" /\ Op(t) = op

Booking(t)  == bookings[txn[t].request.booking]
Resrc(t)    == resources[txn[t].request.resource]

Bookable(t) ==
  LET q == txn[t].request
  IN  IsOperational(Resrc(t), q.slot) /\ ~IsClosedOn(q.resource, q.slot.date)

NewBooking(row, r, s) ==
  [AbsentRow EXCEPT
    !.status   = IF row.requiresApproval THEN "pending" ELSE "confirmed",
    !.resource = r,
    !.slot     = s]

InsertBooking(t) ==
  /\ Serving(t, "create")
  /\ LET q == txn[t].request
     IN  /\ Bookable(t)
         /\ Conflicts(q.resource, q.slot) = {}
         /\ ~Contested(t, q.resource, q.slot)
         /\ Stage(t, NewBooking(Resrc(t), q.resource, q.slot))

\* Mutant: a conflicting INSERT is tried again under the lock.
RefuseCreateUnavailable(t) ==
  /\ Serving(t, "create")
  /\ ~Bookable(t)
  /\ Refuse(t)

\* The resource is not available, or the INSERT meets a conflicting row
\* (BOOKING_OVERLAP).  While every row it meets is being rewritten, or an
\* overlapping one inserted, by a transaction that has not finished, the INSERT
\* can neither succeed nor fail: it waits.
RefuseCreate(t) ==
  /\ Serving(t, "create")
  /\ LET q == txn[t].request
     IN  \/ ~Bookable(t)
         \/ \E b \in Conflicts(q.resource, q.slot) : ~Rewritten(b)
  /\ Refuse(t)

Approve(t) ==
  /\ Serving(t, "approve")
  /\ CanReview(Booking(t), now)
  /\ Stage(t, Approved(Booking(t)))

Reject(t) ==
  /\ Serving(t, "reject")
  /\ CanReview(Booking(t), now)
  /\ Stage(t, Rejected(Booking(t)))

RequestCheckIn(t) ==
  /\ Serving(t, "requestCheckIn")
  /\ CanRequestCheckIn(Booking(t), now)
  /\ Stage(t, CheckInRequested(Booking(t), now))

ConfirmCheckIn(t) ==
  /\ Serving(t, "confirmCheckIn")
  /\ CanConfirmCheckIn(Booking(t), now)
  /\ Stage(t, CheckedIn(Booking(t), now))

CheckOut(t) ==
  /\ Serving(t, "checkOut")
  /\ CanCheckOut(Booking(t))
  /\ Stage(t, CheckedOut(Booking(t), now))

MarkNoShow(t) ==
  /\ Serving(t, "markNoShow")
  /\ CanMarkNoShow(Booking(t), now)
  /\ Stage(t, NoShown(Booking(t), now))

Cancel(t) ==
  /\ Serving(t, "cancel")
  /\ CanCancel(Booking(t), now)
  /\ Stage(t, Cancelled(Booking(t)))

\* The row does not admit the operation; a check-in is also refused when
\* the code presented is not the one generated.
RefuseBookingOp(t) ==
  /\ \/ \E op \in {"approve", "reject"} :
          Serving(t, op) /\ ~CanReview(Booking(t), now)
     \/ Serving(t, "requestCheckIn") /\ ~CanRequestCheckIn(Booking(t), now)
     \/ Serving(t, "confirmCheckIn")
     \/ Serving(t, "checkOut") /\ ~CanCheckOut(Booking(t))
     \/ Serving(t, "markNoShow") /\ ~CanMarkNoShow(Booking(t), now)
     \/ Serving(t, "cancel") /\ ~CanCancel(Booking(t), now)
  /\ Refuse(t)

----------------------------------------------------------------------------
(* Administrators' changes under the resource lock.                        *)

\* The change must be checked against the bookings of the resource.
NeedsBookingCheck(t) ==
  LET q == txn[t].request
  IN  \/ /\ q.op = "update"
         /\ ValidOperatingHours(Patched(Resrc(t), q.dto))
         /\ ChangesSchedule(Resrc(t), q.dto)
      \/ q.op = "updateStatus" /\ q.status # "active"
      \/ q.op = "createClosure"

\* requireNoActiveBookings reads the clock, and queries later.
ReadClock(t) ==
  /\ txn[t].phase = "locked"
  /\ Op(t) \in ResourceOps
  /\ NeedsBookingCheck(t)
  /\ txn' = [txn EXCEPT ![t].phase = "clocked", ![t].clock = now]
  /\ UNCHANGED <<now, tables, unannounced>>

\* The committed bookings that the change would strand.
Stranded(t) ==
  LET q     == txn[t].request
      clock == txn[t].clock
  IN  {b \in BookingsOf(q.resource) :
         \/ /\ q.op = "update"
            /\ StrandedBySchedule(bookings[b], Patched(Resrc(t), q.dto), clock)
         \/ q.op = "updateStatus" /\ StrandedByStatus(bookings[b], clock)
         \/ /\ q.op = "createClosure"
            /\ StrandedByClosure(bookings[b], q.date, clock)}

\* Either nothing had to be checked, or the query found no booking.
Cleared(t) ==
  \/ txn[t].phase = "locked" /\ ~NeedsBookingCheck(t)
  \/ txn[t].phase = "clocked" /\ Stranded(t) = {}

Update(t) ==
  /\ Op(t) = "update"
  /\ Cleared(t)
  /\ LET new == Patched(Resrc(t), txn[t].request.dto)
     IN  ValidOperatingHours(new) /\ Stage(t, new)

UpdateStatus(t) ==
  /\ Op(t) = "updateStatus"
  /\ Cleared(t)
  /\ Stage(t, [Resrc(t) EXCEPT !.status = txn[t].request.status])

\* Mutant: the table has no unique index.
CreateClosureTwice(t) ==
  /\ Op(t) = "createClosure"
  /\ Cleared(t)
  /\ Stage(t, NoImage)

\* The unique index on (resource, date) holds.
CreateClosure(t) ==
  /\ Op(t) = "createClosure"
  /\ Cleared(t)
  /\ ~IsClosedOn(txn[t].request.resource, txn[t].request.date)
  /\ Stage(t, NoImage)

DeleteClosure(t) ==
  /\ Serving(t, "deleteClosure")
  /\ closures[txn[t].request.closure] # Reopened
  /\ Stage(t, NoImage)

RefuseResourceOp(t) ==
  /\ \/ txn[t].phase = "clocked" /\ Stranded(t) # {}
     \/ /\ Serving(t, "update")
        /\ ~ValidOperatingHours(Patched(Resrc(t), txn[t].request.dto))
     \/ /\ Op(t) = "createClosure"
        /\ Cleared(t)
        /\ IsClosedOn(txn[t].request.resource, txn[t].request.date)
     \/ /\ Serving(t, "deleteClosure")
        /\ closures[txn[t].request.closure] = Reopened
  /\ Refuse(t)

----------------------------------------------------------------------------
(* Commit, announcement and failure.                                       *)

\* Mutant: the operations that only release time do not announce it.
SilentReleases == {"requestCheckIn", "confirmCheckIn", "cancel", "deleteClosure"}

\* Operations that return without calling AvailabilityEventsService.
SilentOps == {"requestCheckIn", "confirmCheckIn"}

\* The rooms a request notifies: one date of a resource, or every date.
Reported(t) ==
  LET q == txn[t].request
  IN  IF q.op \in {"update", "updateStatus"} THEN {q.resource} \X Dates
      ELSE IF q.op \in {"createClosure", "deleteClosure"}
      THEN {<<q.resource, q.date>>}
      ELSE {<<Booking(t).resource, Booking(t).slot.date>>}

Committed(t) ==
  /\ txn' = [txn EXCEPT ![t] =
               IF Op(t) \in SilentOps THEN Idle
               ELSE [@ EXCEPT !.phase = "committed", !.image = NoImage]]
  /\ unannounced' = unannounced \cup
       {p \in Resource \X Dates :
          Availability(p[1], p[2])' # Availability(p[1], p[2])}
  /\ UNCHANGED now

CommitBooking(t) ==
  /\ txn[t].phase = "written"
  /\ Op(t) \in BookingOps \cup {"create"}
  /\ bookings' = [bookings EXCEPT ![txn[t].request.booking] = txn[t].image]
  /\ UNCHANGED <<resources, closures>>
  /\ Committed(t)

CommitResource(t) ==
  /\ txn[t].phase = "written"
  /\ Op(t) \in {"update", "updateStatus"}
  /\ resources' = [resources EXCEPT ![txn[t].request.resource] = txn[t].image]
  /\ UNCHANGED <<bookings, closures>>
  /\ Committed(t)

CommitClosure(t) ==
  /\ txn[t].phase = "written"
  /\ LET q == txn[t].request
     IN  \/ /\ q.op = "createClosure"
            /\ closures' = [closures EXCEPT ![q.closure] =
                 [state |-> "closed", resource |-> q.resource, date |-> q.date]]
         \/ /\ q.op = "deleteClosure"
            /\ closures' = [closures EXCEPT ![q.closure] = Reopened]
  /\ UNCHANGED <<bookings, resources>>
  /\ Committed(t)

Announce(t) ==
  /\ txn[t].phase = "committed"
  /\ unannounced' = unannounced \ Reported(t)
  /\ txn' = [txn EXCEPT ![t] = Idle]
  /\ UNCHANGED <<now, tables>>

\* The database rolls a transaction back: lost connection, deadlock victim.
Abort(t) ==
  /\ txn[t].phase \in Open
  /\ Refuse(t)

\* The process dies.  Open transactions roll back, and announcements are lost
\* together with every socket; viewers reload when they connect again.
Crash ==
  /\ txn' = [t \in Txn |-> Idle]
  /\ unannounced' = {}
  /\ UNCHANGED <<now, tables>>

Tick ==
  /\ \E i \in Instants : i > now /\ now' = i
  /\ UNCHANGED <<tables, txn, unannounced>>

BookingStep(t) ==
  \/ InsertBooking(t) \/ RefuseCreate(t)
  \/ Approve(t) \/ Reject(t) \/ RequestCheckIn(t) \/ ConfirmCheckIn(t)
  \/ CheckOut(t) \/ MarkNoShow(t) \/ Cancel(t) \/ RefuseBookingOp(t)

ResourceStep(t) ==
  \/ ReadClock(t) \/ Update(t) \/ UpdateStatus(t)
  \/ CreateClosure(t) \/ DeleteClosure(t) \/ RefuseResourceOp(t)

CommitStep(t) == CommitBooking(t) \/ CommitResource(t) \/ CommitClosure(t)

Next ==
  \/ \E t \in Txn :
       \/ Receive(t) \/ Acquire(t) \/ BookingStep(t) \/ ResourceStep(t)
       \/ CommitStep(t) \/ Announce(t) \/ Abort(t)
  \/ Crash
  \/ Tick

Spec == Init /\ [][Next]_vars

----------------------------------------------------------------------------
(* Properties.                                                             *)

\* Blocking bookings of one resource never overlap, however creations,
\* reviews and check-ins interleave (the exclusion constraint and the list of
\* statuses it covers).
NoOverlap ==
  \A b, c \in BookingId :
    /\ b # c
    /\ bookings[b].status \in BlockingStatuses
    /\ bookings[c].status \in BlockingStatuses
    /\ bookings[b].resource = bookings[c].resource
    => ~Overlap(bookings[b].slot, bookings[c].slot)

\* A pending or confirmed booking that has not ended stands on an active
\* resource and inside its operating schedule: update and updateStatus check
\* the bookings and create checks the resource, each under the resource lock,
\* and neither can slip between the other's check and its commit.
UnendedBookingsAreOperational ==
  \A b \in BookingId :
    /\ bookings[b].status \in ReviewableStatuses
    /\ now < SlotEnd(bookings[b].slot)
    => IsOperational(resources[bookings[b].resource], bookings[b].slot)

\* Every blocking booking on a closed date has ended: closing a date and
\* booking it exclude each other through the resource lock.
ClosedDatesAreFree ==
  \A b \in BookingId :
    /\ bookings[b].status \in BlockingStatuses
    /\ IsClosedOn(bookings[b].resource, bookings[b].slot.date)
    => now >= SlotEnd(bookings[b].slot)

\* No sequence or interleaving of service calls produces a row that breaks a
\* CHECK constraint of the bookings table, which would surface as a server
\* error instead of a domain error.
ChecksHold == \A b \in BookingId : RowChecks(bookings[b])

\* Operating hours stay in order although two partial updates, each valid for
\* the row its author saw, may be applied one after the other.
HoursInOrder == \A r \in Resource : ValidOperatingHours(resources[r])

\* A date of a resource is closed by at most one closure row.
OneClosurePerDate ==
  \A k, l \in ClosureId :
    closures[k] = closures[l] /\ closures[k] \notin {NoClosure, Reopened} => k = l

\* Every committed change of what a viewer sees of a resource on a date is
\* still owed an event by the request that made it: no operation changes
\* availability silently.
ChangesAreAnnounced ==
  \A p \in unannounced :
    \E t \in Txn : txn[t].phase = "committed" /\ p \in Reported(t)

\* Setting a resource to maintenance or inactive is blocked while a booking of
\* it is checked in, or is pending or confirmed and has not ended: what the
\* API documentation of PATCH /admin/resources/:id/status says.
StatusChangeIsBlocked ==
  [][\A b \in BookingId :
       LET r == bookings[b].resource
       IN  /\ bookings[b].status # "absent"
           /\ resources[r].status = "active"
           /\ resources'[r].status # "active"
           => ~StrandedByStatus(bookings[b], now)]_vars

\* A booking only comes into existence before its start time: the release
\* checklist's "prevent bookings in the past".
NoBookingInThePast ==
  [][\A b \in BookingId :
       bookings[b].status = "absent" /\ bookings'[b].status # "absent"
         => now < SlotStart(bookings'[b].slot)]_vars

----------------------------------------------------------------------------
(* The refinement: a booking as BookingLifecycle sees it.                  *)

ClaimOf(bk) == [resource |-> bk.resource, slot |-> bk.slot]

CodeOf(bk) == IF bk.requestedAt = Never THEN "none"
              ELSE IF bk.code THEN "issued" ELSE "spent"

ClaimsClash(c, d) == c.resource = d.resource /\ Overlap(c.slot, d.slot)

Lifecycle == INSTANCE BookingLifecycle WITH
  Claim  <- [resource : Resource, slot : Slot],
  Clash  <- ClaimsClash,
  status <- [b \in BookingId |-> bookings[b].status],
  claim  <- [b \in BookingId |-> ClaimOf(bookings[b])],
  code   <- [b \in BookingId |-> CodeOf(bookings[b])]

\* Every step of the service is one step of the promised lifecycle or changes
\* nothing it can see.
ImplementsLifecycle == Lifecycle!Spec

----------------------------------------------------------------------------
(* Liveness.                                                               *)

\* A request the server has accepted is executed: PostgreSQL queues the
\* waiters of a row lock, and wakes an INSERT that waits on a conflicting
\* transaction, so neither is overtaken for ever.
Fairness ==
  \A t \in Txn :
    /\ SF_vars(Acquire(t))
    /\ SF_vars(InsertBooking(t) \/ RefuseCreate(t))
    /\ WF_vars(BookingStep(t) \/ ResourceStep(t) \/ CommitStep(t) \/ Announce(t))

FairSpec == Spec /\ Fairness

\* Every request ends: no combination of row locks and exclusion-constraint
\* waits leaves transactions waiting for one another.
RequestsFinish ==
  \A t \in Txn : txn[t].phase # "idle" ~> txn[t].phase = "idle"

\* Every availability change is eventually reported, or lost with a crash
\* that also closes every socket.
ChangesAreEventuallyAnnounced ==
  \A p \in Resource \X Dates : p \in unannounced ~> p \notin unannounced

============================================================================
