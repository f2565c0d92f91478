-------------------------- MODULE BookingInvariant --------------------------
(***************************************************************************)
(* The inductive invariant of BookingSystem.  The properties of the tables *)
(* say nothing about a write that is staged but not committed; what makes  *)
(* them inductive is what a transaction knows about the tables while it    *)
(* holds its row lock, and that two transactions never hold the same row.  *)
(***************************************************************************)
EXTENDS BookingSystem

\* A transaction that is served has a well-formed request, and stages a row
\* of the table its request writes.
StagedTypes ==
  \A t \in Txn :
    /\ txn[t].phase # "idle" => txn[t].request \in Request
    /\ txn[t].phase = "written" =>
         /\ Op(t) \in BookingOps \cup {"create"} => txn[t].image \in BookingRow
         /\ Op(t) \in {"update", "updateStatus"} => txn[t].image \in ResourceRow

\* FOR UPDATE: two transactions never hold the same row lock.
LockExclusion ==
  \A t, u \in Txn :
    t # u => \A row \in Resource \cup BookingId : ~(Holds(t, row) /\ Holds(u, row))

\* No two requests insert under the same id.
DistinctIds ==
  \A t, u \in Txn :
    /\ t # u
    => /\ Op(t) = "create" /\ Op(u) = "create"
            => txn[t].request.booking # txn[u].request.booking
       /\ Op(t) = "createClosure" /\ Op(u) = "createClosure"
            => txn[t].request.closure # txn[u].request.closure

\* The id of an INSERT is unused until it commits, and that of a DELETE is not.
UnusedIds ==
  \A t \in Txn :
    txn[t].phase \in Open =>
      /\ Op(t) = "create" => Booking(t).status = "absent"
      /\ Op(t) = "createClosure" => closures[txn[t].request.closure] = NoClosure
      /\ Op(t) = "deleteClosure" => closures[txn[t].request.closure] # NoClosure

\* Stamps a row carries are not in the future of the clock.
Stamped(bk) == bk.requestedAt <= now /\ bk.checkedInAt <= now

StampsArePast == \A b \in BookingId : Stamped(bookings[b])

----------------------------------------------------------------------------
(* What each kind of transaction has established when it stages its write. *)

ReadingIsPast(t) ==
  txn[t].phase = "clocked" => txn[t].clock \in Instants /\ txn[t].clock <= now

\* The row an operation writes, when its guard holds.
Writes(bk, new, clock) ==
  \/ CanReview(bk, clock) /\ new = Approved(bk)
  \/ CanReview(bk, clock) /\ new = Rejected(bk)
  \/ CanCancel(bk, clock) /\ new = Cancelled(bk)
  \/ CanRequestCheckIn(bk, clock) /\ new = CheckInRequested(bk, clock)
  \/ CanConfirmCheckIn(bk, clock) /\ new = CheckedIn(bk, clock)
  \/ CanCheckOut(bk) /\ new = CheckedOut(bk, clock)
  \/ CanMarkNoShow(bk, clock) /\ new = NoShown(bk, clock)

\* The new version of a booking keeps its interval, starts to block nothing
\* it did not block before, and satisfies the CHECK constraints.
SafeUpdate(old, new) ==
  /\ \E clock \in Instants : Writes(old, new, clock)
  /\ new.resource = old.resource
  /\ new.slot = old.slot
  /\ old.status # "absent" /\ new.status # "absent"
  /\ new.status \in ReviewableStatuses => old.status \in ReviewableStatuses
  /\ new.status \in BlockingStatuses => old.status \in BlockingStatuses
  /\ RowChecks(new)
  /\ Stamped(new)

StagedUpdate(t) ==
  txn[t].phase = "written" /\ Op(t) \in BookingOps =>
    SafeUpdate(Booking(t), txn[t].image)

\* A staged booking fits its resource, and nothing it overlaps is committed.
StagedInsert(t) ==
  txn[t].phase = "written" /\ Op(t) = "create" =>
    LET q   == txn[t].request
        new == txn[t].image
    IN  /\ new.resource = q.resource
        /\ new.slot = q.slot
        /\ new.status \in ReviewableStatuses
        /\ new.requestedAt = Never
        /\ Bookable(t)
        /\ Conflicts(q.resource, q.slot) = {}
        /\ RowChecks(new)
        /\ Stamped(new)

\* Every unended booking of the resource fits the staged resource row.
StagedResource(t) ==
  txn[t].phase = "written" /\ Op(t) \in {"update", "updateStatus"} =>
    /\ ValidOperatingHours(txn[t].image)
    /\ \A b \in BookingId :
         /\ bookings[b].status \in ReviewableStatuses
         /\ bookings[b].resource = txn[t].request.resource
         /\ now < SlotEnd(bookings[b].slot)
         => IsOperational(txn[t].image, bookings[b].slot)

\* Every blocking booking of the date about to be closed has ended.
StagedClosure(t) ==
  txn[t].phase = "written" /\ Op(t) = "createClosure" =>
    LET q == txn[t].request
    IN  /\ ~IsClosedOn(q.resource, q.date)
        /\ \A b \in BookingId :
             /\ bookings[b].status \in BlockingStatuses
             /\ bookings[b].resource = q.resource
             /\ bookings[b].slot.date = q.date
             => now >= SlotEnd(bookings[b].slot)

StagedWrite(t) ==
  /\ ReadingIsPast(t)
  /\ StagedUpdate(t)
  /\ StagedInsert(t)
  /\ StagedResource(t)
  /\ StagedClosure(t)

StagedWrites == \A t \in Txn : StagedWrite(t)

TablesAreSafe ==
  /\ NoOverlap
  /\ UnendedBookingsAreOperational
  /\ ClosedDatesAreFree
  /\ ChecksHold
  /\ HoursInOrder
  /\ OneClosurePerDate
  /\ StampsArePast

TypeInv == TypeOK /\ StagedTypes

IdInv == LockExclusion /\ DistinctIds /\ UnusedIds

IInv == TypeInv /\ IdInv /\ StagedWrites /\ TablesAreSafe
----------------------------------------------------------------------------
(* What keeps every change of availability owed to viewers: the rooms a    *)
(* request reports are those its commit changes, and stay so until it has  *)
(* announced them.                                                         *)

\* The booking whose room a request has yet to notify exists.
ReportsKnownRow(t) ==
  txn[t].phase = "committed" /\ Op(t) \in BookingOps \cup {"create"} =>
    Booking(t).status # "absent"

\* An operation that announces nothing writes a row that blocks as before.
SilentWriteBlocks(t) ==
  txn[t].phase = "written" /\ Op(t) \in SilentOps =>
    /\ Booking(t).status \in BlockingStatuses
    /\ txn[t].image.status \in BlockingStatuses

\* What deleteClosure read before its transaction is the row it deletes.
DeletesNamedClosure(t) ==
  txn[t].phase \in Open /\ Op(t) = "deleteClosure" =>
    LET q == txn[t].request
    IN  closures[q.closure] \in
          {[state |-> "closed", resource |-> q.resource, date |-> q.date], Reopened}

Accountable(t) == ReportsKnownRow(t) /\ SilentWriteBlocks(t) /\ DeletesNamedClosure(t)

AnnouncementInv == IInv /\ ChangesAreAnnounced /\ \A t \in Txn : Accountable(t)
=============================================================================
