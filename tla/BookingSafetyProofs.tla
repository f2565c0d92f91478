------------------------- MODULE BookingSafetyProofs -------------------------
(***************************************************************************)
(* The inductive invariant IInv: every step preserves it.                  *)
(*                                                                         *)
(* A step is one of three kinds.  A private step of one transaction leaves *)
(* the tables and the clock alone (Receive, Acquire, the steps under the   *)
(* lock, Announce, Abort), a commit changes one row of one table, and Tick *)
(* only moves the clock.                                                   *)
(***************************************************************************)
EXTENDS BookingSystemProofs

----------------------------------------------------------------------------
(* Private steps.                                                          *)

LEMMA SameTables ==
  ASSUME UNCHANGED <<now, tables>>
  PROVE  /\ TablesAreSafe => TablesAreSafe'
         /\ \A r, d : IsClosedOn(r, d)' <=> IsClosedOn(r, d)
         /\ \A r, s : Conflicts(r, s)' = Conflicts(r, s)
<1>1. now' = now /\ resources' = resources /\ closures' = closures /\ bookings' = bookings
  BY DEF tables
<1>2. \A r, d : IsClosedOn(r, d)' <=> IsClosedOn(r, d)
  BY <1>1 DEF IsClosedOn
<1>3. \A r, s : Conflicts(r, s)' = Conflicts(r, s)
  BY <1>1 DEF Conflicts
<1>4. TablesAreSafe => TablesAreSafe'
  BY <1>1, <1>2
  DEF TablesAreSafe, NoOverlap, UnendedBookingsAreOperational, ClosedDatesAreFree,
      ChecksHold, HoursInOrder, OneClosurePerDate, StampsArePast, Stamped
<1>5. QED
  BY <1>2, <1>3, <1>4

\* A transaction that does not move keeps what it knows.
LEMMA SameWrite ==
  ASSUME UNCHANGED <<now, tables>>, NEW u \in Txn, txn'[u] = txn[u], StagedWrite(u)
  PROVE  StagedWrite(u)'
<1>1. now' = now /\ resources' = resources /\ closures' = closures /\ bookings' = bookings
  BY DEF tables
<1>2. /\ \A r, d : IsClosedOn(r, d)' <=> IsClosedOn(r, d)
      /\ \A r, s : Conflicts(r, s)' = Conflicts(r, s)
  BY SameTables
<1>3. ReadingIsPast(u)'
  BY <1>1 DEF StagedWrite, ReadingIsPast
<1>4. StagedUpdate(u)'
  BY <1>1 DEF StagedWrite, StagedUpdate, SafeUpdate, Op, Booking, Stamped
<1>5. StagedInsert(u)'
  BY <1>1, <1>2 DEF StagedWrite, StagedInsert, Op, Bookable, Resrc, Stamped
<1>6. StagedResource(u)'
  BY <1>1 DEF StagedWrite, StagedResource, Op
<1>7. StagedClosure(u)'
  BY <1>1, <1>2 DEF StagedWrite, StagedClosure, Op
<1>8. QED
  BY <1>3, <1>4, <1>5, <1>6, <1>7 DEF StagedWrite

LEMMA PrivateStep ==
  ASSUME IInv, UNCHANGED <<now, tables>>,
         NEW t \in Txn, \A u \in Txn \ {t} : txn'[u] = txn[u],
         TypeInv', IdInv', StagedWrite(t)'
  PROVE  IInv'
<1>1. TablesAreSafe'
  BY SameTables DEF IInv
<1>2. \A u \in Txn : StagedWrite(u)'
  <2>1. ASSUME NEW u \in Txn, u # t
        PROVE  StagedWrite(u)'
    <3>1. txn'[u] = txn[u] /\ StagedWrite(u)
      BY <2>1 DEF IInv, StagedWrites
    <3>2. QED
      BY <3>1, SameWrite
  <2>2. QED
    BY <2>1
<1>3. StagedWrites'
  BY <1>2 DEF StagedWrites
<1>4. QED
  BY <1>1, <1>3 DEF IInv

\* A transaction that has staged nothing and read no clock knows nothing.
LEMMA QuietWrite ==
  ASSUME NEW t \in Txn, txn'[t].phase \notin {"clocked", "written"}
  PROVE  StagedWrite(t)'
BY DEF StagedWrite, ReadingIsPast, StagedUpdate, StagedInsert, StagedResource,
       StagedClosure

----------------------------------------------------------------------------
(* Row locks and ids.                                                      *)

LEMMA KeptIds ==
  ASSUME IdInv, UNCHANGED tables,
         NEW t \in Txn, \A u \in Txn \ {t} : txn'[u] = txn[u],
         txn'[t].request = txn[t].request \/ txn'[t] = Idle,
         txn'[t].phase \in Holding => txn[t].phase \in Holding,
         txn'[t].phase \in Open => txn[t].phase \in Open
  PROVE  IdInv'
<1>1. \A u \in Txn : txn'[u] = Idle \/ txn'[u].request = txn[u].request
  OBVIOUS
<1>2. \A u \in Txn : /\ txn'[u].phase \in Holding => txn[u].phase \in Holding
                     /\ txn'[u].phase \in Open => txn[u].phase \in Open
  OBVIOUS
<1>3. Idle.phase = "idle" /\ Idle.request.op = "none"
  BY DEF Idle, NoRequest
<1>4. LockExclusion'
  <2>1. \A u \in Txn : \A row : Holds(u, row)' => Holds(u, row)
    BY <1>1, <1>2, <1>3 DEF Holds, LockedRow, Holding
  <2>2. QED
    BY <2>1 DEF IdInv, LockExclusion
<1>5. DistinctIds'
  BY <1>1, <1>3 DEF IdInv, DistinctIds, Op
<1>6. UnusedIds'
  BY <1>1, <1>2, <1>3 DEF IdInv, UnusedIds, Op, Open, Holding, Booking, tables
<1>7. QED
  BY <1>4, <1>5, <1>6 DEF IdInv

LEMMA RefuseKeepsInvariant ==
  ASSUME IInv, TypeInv', NEW t \in Txn, Refuse(t)
  PROVE  IInv'
<1>1. /\ UNCHANGED <<now, tables>>
      /\ txn'[t] = Idle
      /\ \A u \in Txn \ {t} : txn'[u] = txn[u]
  BY DEF Refuse, IInv, TypeInv, TypeOK
<1>2. txn'[t].phase = "idle"
  BY <1>1 DEF Idle
<1>3. IdInv'
  BY <1>1, <1>2, KeptIds DEF IInv, Open, Holding
<1>4. StagedWrite(t)'
  BY <1>2, QuietWrite
<1>5. QED
  BY <1>1, <1>3, <1>4, PrivateStep

\* What a request has staged is all that has to be shown of a step that
\* stages a write.
LEMMA StageKeepsInvariant ==
  ASSUME IInv, TypeInv', NEW t \in Txn, NEW image, Stage(t, image),
         txn[t].phase \in Holding,
         StagedUpdate(t)', StagedInsert(t)', StagedResource(t)', StagedClosure(t)'
  PROVE  IInv'
<1>1. /\ UNCHANGED <<now, tables>>
      /\ txn'[t].phase = "written"
      /\ txn'[t].request = txn[t].request
      /\ \A u \in Txn \ {t} : txn'[u] = txn[u]
  BY DEF Stage, IInv, TypeInv, TypeOK, TxnState
<1>2. IdInv'
  BY <1>1, KeptIds DEF IInv, Open, Holding
<1>3. StagedWrite(t)'
  BY <1>1 DEF StagedWrite, ReadingIsPast
<1>4. QED
  BY <1>1, <1>2, <1>3, PrivateStep

LEMMA ReceiveKeepsInvariant ==
  ASSUME IInv, TypeInv', NEW t \in Txn, Receive(t)
  PROVE  IInv'
<1>1. PICK request \in Request :
        /\ \/ AcceptsCreate(request)
           \/ AcceptsBookingOp(request)
           \/ AcceptsResourceOp(request)
        /\ txn' = [txn EXCEPT ![t] = [Idle EXCEPT !.phase = "queued",
                                                  !.request = request]]
  BY DEF Receive
<1>2. /\ UNCHANGED <<now, tables>>
      /\ txn'[t].phase = "queued"
      /\ txn'[t].request = request
      /\ \A u \in Txn \ {t} : txn'[u] = txn[u]
  BY <1>1 DEF Receive, IInv, TypeInv, TypeOK, Idle
<1>3. /\ request.op = "create" => FreshBooking(request.booking)
      /\ request.op = "createClosure" => FreshClosure(request.closure)
      /\ request.op = "deleteClosure" => closures[request.closure] # NoClosure
  BY <1>1 DEF AcceptsCreate, AcceptsBookingOp, AcceptsResourceOp, BookingOps, NoClosure
<1>4. LockExclusion'
  <2>1. \A u \in Txn : \A row : Holds(u, row)' => Holds(u, row)
    BY <1>2 DEF Holds, LockedRow, Holding
  <2>2. QED
    BY <2>1 DEF IInv, IdInv, LockExclusion
<1>5. DistinctIds'
  BY <1>2, <1>3 DEF IInv, IdInv, DistinctIds, Op, FreshBooking, FreshClosure
<1>6. UnusedIds'
  BY <1>2, <1>3 DEF IInv, IdInv, UnusedIds, Op, Booking, FreshBooking, FreshClosure, tables
<1>7. StagedWrite(t)'
  BY <1>2, QuietWrite
<1>8. QED
  BY <1>2, <1>4, <1>5, <1>6, <1>7, PrivateStep DEF IdInv

LEMMA AcquireKeepsInvariant ==
  ASSUME IInv, TypeInv', NEW t \in Txn, Acquire(t)
  PROVE  IInv'
<1>1. /\ UNCHANGED <<now, tables>>
      /\ txn[t].phase = "queued"
      /\ txn'[t].phase = "locked"
      /\ txn'[t].request = txn[t].request
      /\ \A u \in Txn \ {t} : txn'[u] = txn[u]
      /\ \A u \in Txn : ~Holds(u, LockedRow(txn[t].request))
  BY DEF Acquire, IInv, TypeInv, TypeOK, TxnState
<1>2. LockExclusion'
  <2>1. \A row : Holds(t, row)' => row = LockedRow(txn[t].request)
    BY <1>1 DEF Holds, LockedRow
  <2>2. \A u \in Txn \ {t} : \A row : Holds(u, row)' => Holds(u, row)
    BY <1>1 DEF Holds, LockedRow
  <2>3. QED
    BY <1>1, <2>1, <2>2 DEF IInv, IdInv, LockExclusion
<1>3. DistinctIds'
  BY <1>1 DEF IInv, IdInv, DistinctIds, Op
<1>4. UnusedIds'
  BY <1>1 DEF IInv, IdInv, UnusedIds, Op, Open, Holding, Booking, tables
<1>5. StagedWrite(t)'
  BY <1>1, QuietWrite
<1>6. QED
  BY <1>1, <1>2, <1>3, <1>4, <1>5, PrivateStep DEF IdInv

LEMMA ReadClockKeepsInvariant ==
  ASSUME IInv, TypeInv', NEW t \in Txn, ReadClock(t)
  PROVE  IInv'
<1>1. /\ UNCHANGED <<now, tables>>
      /\ txn[t].phase = "locked"
      /\ txn'[t].phase = "clocked"
      /\ txn'[t].clock = now
      /\ txn'[t].request = txn[t].request
      /\ \A u \in Txn \ {t} : txn'[u] = txn[u]
  BY DEF ReadClock, IInv, TypeInv, TypeOK, TxnState
<1>2. IdInv'
  BY <1>1, KeptIds DEF IInv, Open, Holding
<1>3. now \in Instants /\ now <= now
  BY InstantsAssumption DEF IInv, TypeInv, TypeOK
<1>4. StagedWrite(t)'
  BY <1>1, <1>3
  DEF StagedWrite, ReadingIsPast, StagedUpdate, StagedInsert, StagedResource, StagedClosure
<1>5. QED
  BY <1>1, <1>2, <1>4, PrivateStep

LEMMA AnnounceKeepsInvariant ==
  ASSUME IInv, TypeInv', NEW t \in Txn, Announce(t)
  PROVE  IInv'
<1>1. /\ UNCHANGED <<now, tables>>
      /\ txn'[t] = Idle
      /\ \A u \in Txn \ {t} : txn'[u] = txn[u]
  BY DEF Announce, IInv, TypeInv, TypeOK
<1>2. txn'[t].phase = "idle"
  BY <1>1 DEF Idle
<1>3. IdInv'
  BY <1>1, <1>2, KeptIds DEF IInv, Open, Holding
<1>4. StagedWrite(t)'
  BY <1>2, QuietWrite
<1>5. QED
  BY <1>1, <1>3, <1>4, PrivateStep

----------------------------------------------------------------------------
(* Steps that stage a write: booking operations.                           *)

LEMMA WritesAreSafe ==
  ASSUME NEW bk \in BookingRow, RowChecks(bk), Stamped(bk), now \in Instants,
         NEW new, Writes(bk, new, now)
  PROVE  SafeUpdate(bk, new)
<1>1. bk.requestedAt <= now /\ bk.checkedInAt <= now /\ now <= now
  BY InstantsAssumption DEF Stamped
<1>2. RowChecks(new)
  BY <1>1, ApprovedChecks, RejectedChecks, CancelledChecks, CheckInRequestedChecks,
     CheckedInChecks, CheckedOutChecks, NoShownChecks
  DEF Writes
<1>3. Stamped(new)
  BY <1>1
  DEF Writes, Stamped, BookingRow, Approved, Rejected, Cancelled, CheckInRequested,
      CheckedIn, CheckedOut, NoShown
<1>4. /\ new.resource = bk.resource
      /\ new.slot = bk.slot
      /\ bk.status # "absent" /\ new.status # "absent"
      /\ new.status \in ReviewableStatuses => bk.status \in ReviewableStatuses
      /\ new.status \in BlockingStatuses => bk.status \in BlockingStatuses
  BY DEF Writes, BookingRow, ReviewableStatuses, BlockingStatuses,
         CanReview, CanCancel, CanRequestCheckIn, CanConfirmCheckIn, CanCheckOut,
         CanMarkNoShow, Approved, Rejected, Cancelled, CheckInRequested, CheckedIn,
         CheckedOut, NoShown
<1>5. \E clock \in Instants : Writes(bk, new, clock)
  OBVIOUS
<1>6. QED
  BY <1>2, <1>3, <1>4, <1>5 DEF SafeUpdate

LEMMA BookingOpKeepsInvariant ==
  ASSUME IInv, TypeInv', NEW t \in Txn,
         \/ Approve(t) \/ Reject(t) \/ RequestCheckIn(t) \/ ConfirmCheckIn(t)
         \/ CheckOut(t) \/ MarkNoShow(t) \/ Cancel(t)
  PROVE  IInv'
<1>1. Op(t) \in BookingOps /\ txn[t].phase = "locked"
  BY DEF Approve, Reject, RequestCheckIn, ConfirmCheckIn, CheckOut, MarkNoShow,
         Cancel, Serving, BookingOps
<1>2. PICK image : Stage(t, image) /\ Writes(Booking(t), image, now)
  BY DEF Approve, Reject, RequestCheckIn, ConfirmCheckIn, CheckOut, MarkNoShow,
         Cancel, Writes
<1>3. /\ Booking(t) \in BookingRow
      /\ txn[t].request.booking \in BookingId
      /\ now \in Instants
  BY <1>1, TxnShape DEF IInv, TypeInv, TypeOK
<1>4. RowChecks(Booking(t)) /\ Stamped(Booking(t))
  BY <1>3 DEF IInv, TablesAreSafe, ChecksHold, StampsArePast, Booking
<1>5. SafeUpdate(Booking(t), image)
  BY <1>2, <1>3, <1>4, WritesAreSafe
<1>6. /\ UNCHANGED <<now, tables>>
      /\ txn'[t].phase = "written"
      /\ txn'[t].request = txn[t].request
      /\ txn'[t].image = image
  BY <1>2 DEF Stage, IInv, TypeInv, TypeOK, TxnState
<1>7. StagedUpdate(t)'
  BY <1>5, <1>6 DEF StagedUpdate, SafeUpdate, Booking, Stamped, tables
<1>8. StagedInsert(t)' /\ StagedResource(t)' /\ StagedClosure(t)'
  BY <1>1, <1>6 DEF StagedInsert, StagedResource, StagedClosure, Op, BookingOps
<1>9. QED
  BY <1>1, <1>2, <1>7, <1>8, StageKeepsInvariant DEF Holding

LEMMA InsertKeepsInvariant ==
  ASSUME IInv, TypeInv', NEW t \in Txn, InsertBooking(t)
  PROVE  IInv'
<1> DEFINE q     == txn[t].request
           image == NewBooking(Resrc(t), q.resource, q.slot)
<1>1. /\ Op(t) = "create" /\ txn[t].phase = "locked"
      /\ Bookable(t)
      /\ Conflicts(q.resource, q.slot) = {}
      /\ Stage(t, image)
  BY DEF InsertBooking, Serving
<1>2. /\ Resrc(t) \in ResourceRow
      /\ q.resource \in Resource
      /\ q.slot \in Slot
      /\ now \in Instants
  BY <1>1, TxnShape DEF IInv, TypeInv, TypeOK
<1>3. /\ image.status \in ReviewableStatuses
      /\ image.resource = q.resource /\ image.slot = q.slot
      /\ RowChecks(image)
      /\ image.requestedAt <= now /\ image.checkedInAt <= now
      /\ image.requestedAt = Never
  <2>1. Never <= now
    BY <1>2, InstantsAssumption DEF Never
  <2>2. QED
    BY <1>2, <2>1, NewBookingType
<1>4. /\ UNCHANGED <<now, tables>>
      /\ txn'[t].phase = "written"
      /\ txn'[t].request = q
      /\ txn'[t].image = image
  BY <1>1 DEF Stage, IInv, TypeInv, TypeOK, TxnState
<1>5. StagedInsert(t)'
  <2>1. /\ \A r, d : IsClosedOn(r, d)' <=> IsClosedOn(r, d)
        /\ \A r, s : Conflicts(r, s)' = Conflicts(r, s)
    BY <1>4, SameTables
  <2>2. Bookable(t)'
    BY <1>1, <1>4, <2>1 DEF Bookable, Resrc, tables
  <2>3. Conflicts(q.resource, q.slot)' = {}
    BY <1>1, <1>4, <2>1
  <2>4. QED
    BY <1>3, <1>4, <2>1, <2>2, <2>3 DEF StagedInsert, Stamped
<1>6. StagedUpdate(t)' /\ StagedResource(t)' /\ StagedClosure(t)'
  BY <1>1, <1>4 DEF StagedUpdate, StagedResource, StagedClosure, Op, BookingOps
<1>7. QED
  BY <1>1, <1>5, <1>6, StageKeepsInvariant DEF Holding

----------------------------------------------------------------------------
(* Steps that stage a write: administrators' changes.                      *)

\* An unended booking was also unended at the earlier clock reading, which
\* the query that looks for stranded bookings compares with.
LEMMA UnendedWasUnended ==
  ASSUME IInv, NEW t \in Txn, txn[t].phase = "clocked", NEW s \in Slot,
         now < SlotEnd(s)
  PROVE  EndsAfterNow(s, txn[t].clock)
<1>1. txn[t].clock \in Instants /\ txn[t].clock <= now
  BY DEF IInv, StagedWrites, StagedWrite, ReadingIsPast
<1>2. now \in Nat /\ txn[t].clock \in Nat
  BY <1>1, InstantsAssumption DEF IInv, TypeInv, TypeOK
<1>3. SlotEnd(s) \in Int
  BY SlotAssumption DEF SlotEnd, CampusDateTime, SecondsPerDay, CampusOffset
<1>4. txn[t].clock < SlotEnd(s)
  BY <1>1, <1>2, <1>3
<1>5. QED
  BY <1>2, <1>4, EndsAfterNowIsExact

LEMMA UpdateKeepsInvariant ==
  ASSUME IInv, TypeInv', NEW t \in Txn, Update(t)
  PROVE  IInv'
<1> DEFINE r   == txn[t].request.resource
           dto == txn[t].request.dto
           new == Patched(Resrc(t), dto)
<1>1. /\ Op(t) = "update" /\ txn[t].phase \in {"locked", "clocked"}
      /\ Cleared(t)
      /\ ValidOperatingHours(new)
      /\ Stage(t, new)
  BY DEF Update, Cleared
<1>2. /\ Resrc(t) \in ResourceRow
      /\ r \in Resource
      /\ dto \in Patch
      /\ bookings \in [BookingId -> BookingRow]
  BY <1>1, TxnShape DEF ResourceOps, IInv, TypeInv, TypeOK
<1>3. new.status = Resrc(t).status
  BY <1>2, PatchedType
<1>4. ASSUME NEW b \in BookingId,
             bookings[b].status \in ReviewableStatuses,
             bookings[b].resource = r,
             now < SlotEnd(bookings[b].slot)
      PROVE  IsOperational(new, bookings[b].slot)
  <2>1. IsOperational(Resrc(t), bookings[b].slot)
    BY <1>4 DEF IInv, TablesAreSafe, UnendedBookingsAreOperational, Resrc
  <2>2. CASE txn[t].phase = "locked"
    <3>1. ~ChangesSchedule(Resrc(t), dto)
      BY <1>1, <2>2 DEF Cleared, NeedsBookingCheck, Op
    <3>2. /\ new.operatingDays = Resrc(t).operatingDays
          /\ new.opensAt = Resrc(t).opensAt
          /\ new.closesAt = Resrc(t).closesAt
      BY <3>1 DEF ChangesSchedule
    <3>3. QED
      BY <1>3, <2>1, <3>2 DEF IsOperational, WithinSchedule
  <2>3. CASE txn[t].phase = "clocked"
    <3>1. b \notin Stranded(t)
      BY <1>1, <2>3 DEF Cleared
    <3>2. b \in BookingsOf(r)
      BY <1>4 DEF BookingsOf, ReviewableStatuses
    <3>3. ~StrandedBySchedule(bookings[b], new, txn[t].clock)
      BY <1>1, <3>1, <3>2 DEF Stranded, Op
    <3>4. EndsAfterNow(bookings[b].slot, txn[t].clock)
      <4>1. bookings[b].slot \in Slot
        BY <1>2 DEF BookingRow
      <4>2. QED
        BY <1>4, <2>3, <4>1, UnendedWasUnended
    <3>5. WithinSchedule(new, bookings[b].slot)
      BY <1>4, <3>3, <3>4 DEF StrandedBySchedule
    <3>6. QED
      BY <1>3, <2>1, <3>5 DEF IsOperational
  <2>4. QED
    BY <1>1, <2>2, <2>3
<1>5. /\ UNCHANGED <<now, tables>>
      /\ txn'[t].phase = "written"
      /\ txn'[t].request = txn[t].request
      /\ txn'[t].image = new
  BY <1>1 DEF Stage, IInv, TypeInv, TypeOK, TxnState
<1>6. StagedResource(t)'
  BY <1>1, <1>4, <1>5 DEF StagedResource, tables
<1>7. StagedUpdate(t)' /\ StagedInsert(t)' /\ StagedClosure(t)'
  BY <1>1, <1>5 DEF StagedUpdate, StagedInsert, StagedClosure, Op, BookingOps
<1>8. QED
  BY <1>1, <1>6, <1>7, StageKeepsInvariant DEF Holding

LEMMA UpdateStatusKeepsInvariant ==
  ASSUME IInv, TypeInv', NEW t \in Txn, UpdateStatus(t)
  PROVE  IInv'
<1> DEFINE r   == txn[t].request.resource
           new == [Resrc(t) EXCEPT !.status = txn[t].request.status]
<1>1. /\ Op(t) = "updateStatus" /\ txn[t].phase \in {"locked", "clocked"}
      /\ Cleared(t)
      /\ Stage(t, new)
  BY DEF UpdateStatus, Cleared
<1>2. /\ Resrc(t) \in ResourceRow
      /\ r \in Resource
      /\ bookings \in [BookingId -> BookingRow]
  BY <1>1, TxnShape DEF ResourceOps, IInv, TypeInv, TypeOK
<1>3. /\ new.status = txn[t].request.status
      /\ new.operatingDays = Resrc(t).operatingDays
      /\ new.opensAt = Resrc(t).opensAt
      /\ new.closesAt = Resrc(t).closesAt
  BY <1>2 DEF ResourceRow
<1>4. ValidOperatingHours(new)
  BY <1>2, <1>3 DEF IInv, TablesAreSafe, HoursInOrder, Resrc, ValidOperatingHours
<1>5. ASSUME NEW b \in BookingId,
             bookings[b].status \in ReviewableStatuses,
             bookings[b].resource = r,
             now < SlotEnd(bookings[b].slot)
      PROVE  IsOperational(new, bookings[b].slot)
  <2>1. IsOperational(Resrc(t), bookings[b].slot)
    BY <1>5 DEF IInv, TablesAreSafe, UnendedBookingsAreOperational, Resrc
  <2>2. CASE txn[t].phase = "locked"
    <3>1. txn[t].request.status = "active"
      BY <1>1, <2>2 DEF Cleared, NeedsBookingCheck, Op
    <3>2. QED
      BY <1>3, <2>1, <3>1 DEF IsOperational, WithinSchedule
  <2>3. CASE txn[t].phase = "clocked"
    <3>1. b \notin Stranded(t)
      BY <1>1, <2>3 DEF Cleared
    <3>2. b \in BookingsOf(r)
      BY <1>5 DEF BookingsOf, ReviewableStatuses
    <3>3. ~StrandedByStatus(bookings[b], txn[t].clock)
      BY <1>1, <3>1, <3>2 DEF Stranded, Op
    <3>4. EndsAfterNow(bookings[b].slot, txn[t].clock)
      <4>1. bookings[b].slot \in Slot
        BY <1>2 DEF BookingRow
      <4>2. QED
        BY <1>5, <2>3, <4>1, UnendedWasUnended
    <3>5. QED
      BY <1>5, <3>3, <3>4 DEF StrandedByStatus
  <2>4. QED
    BY <1>1, <2>2, <2>3
<1>6. /\ UNCHANGED <<now, tables>>
      /\ txn'[t].phase = "written"
      /\ txn'[t].request = txn[t].request
      /\ txn'[t].image = new
  BY <1>1 DEF Stage, IInv, TypeInv, TypeOK, TxnState
<1>7. StagedResource(t)'
  BY <1>4, <1>5, <1>6 DEF StagedResource, tables
<1>8. StagedUpdate(t)' /\ StagedInsert(t)' /\ StagedClosure(t)'
  BY <1>1, <1>6 DEF StagedUpdate, StagedInsert, StagedClosure, Op, BookingOps
<1>9. QED
  BY <1>1, <1>7, <1>8, StageKeepsInvariant DEF Holding

LEMMA CreateClosureKeepsInvariant ==
  ASSUME IInv, TypeInv', NEW t \in Txn, CreateClosure(t)
  PROVE  IInv'
<1> DEFINE q == txn[t].request
<1>1. /\ Op(t) = "createClosure" /\ txn[t].phase \in {"locked", "clocked"}
      /\ Cleared(t)
      /\ ~IsClosedOn(q.resource, q.date)
      /\ Stage(t, NoImage)
  BY DEF CreateClosure, Cleared
<1>2. bookings \in [BookingId -> BookingRow] /\ now \in Nat
  BY InstantsAssumption DEF IInv, TypeInv, TypeOK
<1>3. txn[t].phase = "clocked" /\ Stranded(t) = {}
  BY <1>1 DEF Cleared, NeedsBookingCheck, Op
<1>4. ASSUME NEW b \in BookingId,
             bookings[b].status \in BlockingStatuses,
             bookings[b].resource = q.resource,
             bookings[b].slot.date = q.date
      PROVE  now >= SlotEnd(bookings[b].slot)
  <2>1. b \in BookingsOf(q.resource)
    BY <1>4 DEF BookingsOf, BlockingStatuses, ReviewableStatuses
  <2>2. ~EndsAfterNow(bookings[b].slot, txn[t].clock)
    BY <1>1, <1>3, <1>4, <2>1 DEF Stranded, StrandedByClosure, Op
  <2>3. bookings[b].slot \in Slot
    BY <1>2 DEF BookingRow
  <2>4. ~(now < SlotEnd(bookings[b].slot))
    BY <1>3, <2>2, <2>3, UnendedWasUnended
  <2>5. SlotEnd(bookings[b].slot) \in Int
    BY <2>3, SlotAssumption DEF SlotEnd, CampusDateTime, SecondsPerDay, CampusOffset
  <2>6. QED
    BY <1>2, <2>4, <2>5
<1>5. /\ UNCHANGED <<now, tables>>
      /\ txn'[t].phase = "written"
      /\ txn'[t].request = txn[t].request
  BY <1>1 DEF Stage, IInv, TypeInv, TypeOK, TxnState
<1>6. StagedClosure(t)'
  <2>1. ~IsClosedOn(q.resource, q.date)'
    BY <1>1, <1>5, SameTables
  <2>2. QED
    BY <1>4, <1>5, <2>1, SameTables DEF StagedClosure, tables
<1>7. StagedUpdate(t)' /\ StagedInsert(t)' /\ StagedResource(t)'
  BY <1>1, <1>5 DEF StagedUpdate, StagedInsert, StagedResource, Op, BookingOps
<1>8. QED
  BY <1>1, <1>6, <1>7, StageKeepsInvariant DEF Holding

LEMMA DeleteClosureKeepsInvariant ==
  ASSUME IInv, TypeInv', NEW t \in Txn, DeleteClosure(t)
  PROVE  IInv'
<1>1. /\ Op(t) = "deleteClosure" /\ txn[t].phase = "locked"
      /\ Stage(t, NoImage)
  BY DEF DeleteClosure, Serving
<1>2. /\ txn'[t].phase = "written"
      /\ txn'[t].request = txn[t].request
  BY <1>1 DEF Stage, IInv, TypeInv, TypeOK, TxnState
<1>3. StagedUpdate(t)' /\ StagedInsert(t)' /\ StagedResource(t)' /\ StagedClosure(t)'
  BY <1>1, <1>2
  DEF StagedUpdate, StagedInsert, StagedResource, StagedClosure, Op, BookingOps
<1>4. QED
  BY <1>1, <1>3, StageKeepsInvariant DEF Holding

----------------------------------------------------------------------------
(* Commits.                                                                *)

\* Two transactions that hold their locks hold different rows.
LEMMA DifferentRows ==
  ASSUME IInv, NEW t \in Txn, NEW u \in Txn, t # u,
         txn[t].phase \in Holding, txn[u].phase \in Holding
  PROVE  LockedRow(txn[t].request) # LockedRow(txn[u].request)
<1>1. LockedRow(txn[t].request) \in Resource \cup BookingId
  BY TxnShape DEF LockedRow, Op, BookingOps, ResourceOps, Holding, IInv
<1>2. QED
  BY <1>1 DEF IInv, IdInv, LockExclusion, Holds

\* What every commit does to the transactions.
LEMMA CommittedTxn ==
  ASSUME IInv, NEW t \in Txn, Committed(t)
  PROVE  /\ now' = now
         /\ txn'[t].phase \notin Open
         /\ txn'[t] = Idle \/ txn'[t].request = txn[t].request
         /\ \A u \in Txn \ {t} : txn'[u] = txn[u]
         /\ StagedWrite(t)'
         /\ LockExclusion' /\ DistinctIds'
<1>1. /\ now' = now
      /\ txn'[t].phase \in {"idle", "committed"}
      /\ txn'[t] = Idle \/ txn'[t].request = txn[t].request
      /\ \A u \in Txn \ {t} : txn'[u] = txn[u]
  BY DEF Committed, IInv, TypeInv, TypeOK, TxnState, Idle
<1>2. StagedWrite(t)'
  BY <1>1, QuietWrite
<1>3. LockExclusion'
  <2>1. \A u \in Txn : \A row : Holds(u, row)' => Holds(u, row)
    BY <1>1 DEF Holds, LockedRow, Holding
  <2>2. QED
    BY <2>1 DEF IInv, IdInv, LockExclusion
<1>4. DistinctIds'
  BY <1>1 DEF IInv, IdInv, DistinctIds, Op, Idle, NoRequest
<1>5. QED
  BY <1>1, <1>2, <1>3, <1>4 DEF Open, Holding

LEMMA CommitUpdateKeepsInvariant ==
  ASSUME IInv, TypeInv', NEW t \in Txn, CommitBooking(t), Op(t) \in BookingOps
  PROVE  IInv'
<1> DEFINE b == txn[t].request.booking
<1>1. /\ txn[t].phase = "written"
      /\ bookings' = [bookings EXCEPT ![b] = txn[t].image]
      /\ resources' = resources /\ closures' = closures
      /\ Committed(t)
  BY DEF CommitBooking
<1>2. b \in BookingId /\ bookings \in [BookingId -> BookingRow]
  BY <1>1, TxnShape DEF IInv, TypeInv, TypeOK
<1>3. SafeUpdate(bookings[b], txn[t].image)
  BY <1>1 DEF IInv, StagedWrites, StagedWrite, StagedUpdate, Booking
<1>4. /\ now' = now
      /\ txn'[t].phase \notin Open
      /\ \A u \in Txn \ {t} : txn'[u] = txn[u]
      /\ StagedWrite(t)'
      /\ LockExclusion' /\ DistinctIds'
  BY <1>1, CommittedTxn
<1>5. \A c \in BookingId :
        /\ bookings'[c].resource = bookings[c].resource
        /\ bookings'[c].slot = bookings[c].slot
        /\ bookings'[c].status = "absent" <=> bookings[c].status = "absent"
        /\ bookings'[c].status \in ReviewableStatuses
             => bookings[c].status \in ReviewableStatuses
        /\ bookings'[c].status \in BlockingStatuses
             => bookings[c].status \in BlockingStatuses
        /\ RowChecks(bookings[c]) => RowChecks(bookings'[c])
        /\ Stamped(bookings[c]) => Stamped(bookings'[c])
  BY <1>1, <1>2, <1>3 DEF SafeUpdate
<1>6. \A r, d : IsClosedOn(r, d)' <=> IsClosedOn(r, d)
  BY <1>1 DEF IsClosedOn
<1>7. \A r, s : Conflicts(r, s)' \subseteq Conflicts(r, s)
  BY <1>5 DEF Conflicts, ExclusionStatuses, BlockingStatuses, ReviewableStatuses
<1>8. TablesAreSafe'
  <2>1. NoOverlap'
    BY <1>5 DEF IInv, TablesAreSafe, NoOverlap
  <2>2. UnendedBookingsAreOperational' /\ HoursInOrder' /\ OneClosurePerDate'
    BY <1>1, <1>4, <1>5
    DEF IInv, TablesAreSafe, UnendedBookingsAreOperational, HoursInOrder,
        OneClosurePerDate
  <2>3. ClosedDatesAreFree'
    BY <1>4, <1>5, <1>6 DEF IInv, TablesAreSafe, ClosedDatesAreFree
  <2>4. ChecksHold'
    BY <1>5 DEF IInv, TablesAreSafe, ChecksHold
  <2>5. StampsArePast'
    BY <1>4, <1>5 DEF IInv, TablesAreSafe, StampsArePast, Stamped
  <2>6. QED
    BY <2>1, <2>2, <2>3, <2>4, <2>5 DEF TablesAreSafe
<1>9. UnusedIds'
  BY <1>1, <1>4, <1>5, TxnShape
  DEF IInv, IdInv, UnusedIds, Op, Open, Holding, Booking
<1>10. ASSUME NEW u \in Txn, u # t
       PROVE  StagedWrite(u)'
  <2>1. txn'[u] = txn[u] /\ StagedWrite(u)
    BY <1>4, <1>10 DEF IInv, StagedWrites
  <2>2. ReadingIsPast(u)'
    BY <1>4, <2>1 DEF StagedWrite, ReadingIsPast
  <2>3. StagedUpdate(u)'
    <3>1. SUFFICES ASSUME txn[u].phase = "written", Op(u) \in BookingOps
                   PROVE  SafeUpdate(Booking(u), txn[u].image)'
      BY <2>1 DEF StagedUpdate, Op
    <3>2. txn[u].request.booking # b
      BY <1>1, <1>10, <3>1, DifferentRows DEF LockedRow, Op, Holding
    <3>3. bookings'[txn[u].request.booking] = bookings[txn[u].request.booking]
      BY <1>1, <1>2, <3>1, <3>2, TxnShape DEF IInv
    <3>4. SafeUpdate(Booking(u), txn[u].image)
      BY <2>1, <3>1 DEF StagedWrite, StagedUpdate
    <3>5. QED
      BY <1>4, <2>1, <3>3, <3>4 DEF SafeUpdate, Booking, Stamped
  <2>4. StagedInsert(u)'
    BY <1>1, <1>4, <1>6, <1>7, <2>1
    DEF StagedWrite, StagedInsert, Op, Bookable, Resrc, Stamped
  <2>5. StagedResource(u)'
    BY <1>4, <1>5, <2>1 DEF StagedWrite, StagedResource, Op
  <2>6. StagedClosure(u)'
    BY <1>4, <1>5, <1>6, <2>1 DEF StagedWrite, StagedClosure, Op
  <2>7. QED
    BY <2>2, <2>3, <2>4, <2>5, <2>6 DEF StagedWrite
<1>11. StagedWrites'
  BY <1>4, <1>10 DEF StagedWrites
<1>12. QED
  BY <1>4, <1>8, <1>9, <1>11 DEF IInv, IdInv

LEMMA OverlapIsSymmetric ==
  ASSUME NEW s, NEW u, Overlap(s, u)
  PROVE  Overlap(u, s)
BY DEF Overlap

LEMMA CommitInsertKeepsInvariant ==
  ASSUME IInv, TypeInv', NEW t \in Txn, CommitBooking(t), Op(t) = "create"
  PROVE  IInv'
<1> DEFINE q   == txn[t].request
           b   == q.booking
           new == txn[t].image
<1>1. /\ txn[t].phase = "written"
      /\ bookings' = [bookings EXCEPT ![b] = new]
      /\ resources' = resources /\ closures' = closures
      /\ Committed(t)
  BY DEF CommitBooking
<1>2. /\ b \in BookingId /\ bookings \in [BookingId -> BookingRow]
      /\ q.resource \in Resource /\ q.slot \in Slot
      /\ bookings[b].status = "absent"
  BY <1>1, TxnShape
  DEF IInv, TypeInv, TypeOK, IdInv, UnusedIds, Booking, Open, Holding
<1>3. /\ new.resource = q.resource /\ new.slot = q.slot
      /\ new.status \in ReviewableStatuses
      /\ IsOperational(resources[q.resource], q.slot)
      /\ ~IsClosedOn(q.resource, q.slot.date)
      /\ Conflicts(q.resource, q.slot) = {}
      /\ RowChecks(new)
      /\ Stamped(new)
  BY <1>1 DEF IInv, StagedWrites, StagedWrite, StagedInsert, Bookable, Resrc
<1>4. /\ now' = now
      /\ txn'[t].phase \notin Open
      /\ \A u \in Txn \ {t} : txn'[u] = txn[u]
      /\ StagedWrite(t)'
      /\ LockExclusion' /\ DistinctIds'
  BY <1>1, CommittedTxn
<1>5. bookings'[b] = new /\ \A c \in BookingId \ {b} : bookings'[c] = bookings[c]
  BY <1>1, <1>2
<1>6. \A r, d : IsClosedOn(r, d)' <=> IsClosedOn(r, d)
  BY <1>1 DEF IsClosedOn
<1>7. \A c \in BookingId \ {b} :
        bookings[c].status \in BlockingStatuses /\ bookings[c].resource = q.resource
          => ~Overlap(bookings[c].slot, q.slot)
  BY <1>3 DEF Conflicts, ExclusionStatuses, BlockingStatuses, ReviewableStatuses
<1>8. TablesAreSafe'
  <2>1. NoOverlap'
    BY <1>3, <1>5, <1>7, OverlapIsSymmetric DEF IInv, TablesAreSafe, NoOverlap
  <2>2. UnendedBookingsAreOperational' /\ HoursInOrder' /\ OneClosurePerDate'
    BY <1>1, <1>3, <1>4, <1>5
    DEF IInv, TablesAreSafe, UnendedBookingsAreOperational, HoursInOrder,
        OneClosurePerDate
  <2>3. ClosedDatesAreFree'
    BY <1>3, <1>4, <1>5, <1>6 DEF IInv, TablesAreSafe, ClosedDatesAreFree
  <2>4. ChecksHold'
    BY <1>3, <1>5 DEF IInv, TablesAreSafe, ChecksHold
  <2>5. StampsArePast'
    BY <1>3, <1>4, <1>5 DEF IInv, TablesAreSafe, StampsArePast, Stamped
  <2>6. QED
    BY <2>1, <2>2, <2>3, <2>4, <2>5 DEF TablesAreSafe
<1>9. ASSUME NEW u \in Txn, u # t, txn[u].phase \in Open, Op(u) = "create"
      PROVE  txn[u].request.booking # b
  BY <1>9 DEF IInv, IdInv, DistinctIds
<1>10. UnusedIds'
  BY <1>1, <1>4, <1>5, <1>9, TxnShape
  DEF IInv, IdInv, UnusedIds, Op, Open, Holding, Booking
<1>11. ASSUME NEW u \in Txn, u # t
       PROVE  StagedWrite(u)'
  <2>1. txn'[u] = txn[u] /\ StagedWrite(u)
    BY <1>4, <1>11 DEF IInv, StagedWrites
  <2>2. ReadingIsPast(u)'
    BY <1>4, <2>1 DEF StagedWrite, ReadingIsPast
  <2>3. StagedUpdate(u)'
    <3>1. SUFFICES ASSUME txn[u].phase = "written", Op(u) \in BookingOps
                   PROVE  SafeUpdate(Booking(u), txn[u].image)'
      BY <2>1 DEF StagedUpdate, Op
    <3>2. SafeUpdate(Booking(u), txn[u].image)
      BY <2>1, <3>1 DEF StagedWrite, StagedUpdate
    <3>3. txn[u].request.booking \in BookingId \ {b}
      BY <1>2, <3>1, <3>2, TxnShape DEF IInv, SafeUpdate, Booking
    <3>4. QED
      BY <1>4, <1>5, <2>1, <3>2, <3>3 DEF SafeUpdate, Booking, Stamped
  <2>4. \* No other transaction that has locked a resource has locked this one.
        txn[u].phase = "written" /\ Op(u) \in ResourceOps \cup {"create"}
          => txn[u].request.resource # q.resource
    BY <1>1, <1>11, DifferentRows DEF LockedRow, Op, Holding, BookingOps, ResourceOps
  <2>5. StagedInsert(u)'
    <3>1. SUFFICES ASSUME txn[u].phase = "written", Op(u) = "create"
                   PROVE  StagedInsert(u)'
      BY <2>1 DEF StagedInsert, Op
    <3>2. \A s : Conflicts(txn[u].request.resource, s)'
                  = Conflicts(txn[u].request.resource, s)
      BY <1>2, <1>3, <1>5, <2>1, <2>4, <3>1
      DEF Conflicts, ExclusionStatuses
    <3>3. QED
      BY <1>1, <1>4, <1>6, <2>1, <3>1, <3>2
      DEF StagedWrite, StagedInsert, Op, Bookable, Resrc, Stamped
  <2>6. StagedResource(u)'
    BY <1>3, <1>4, <1>5, <2>1, <2>4 DEF StagedWrite, StagedResource, Op, ResourceOps
  <2>7. StagedClosure(u)'
    BY <1>3, <1>4, <1>5, <1>6, <2>1, <2>4 DEF StagedWrite, StagedClosure, Op, ResourceOps
  <2>8. QED
    BY <2>2, <2>3, <2>5, <2>6, <2>7 DEF StagedWrite
<1>12. StagedWrites'
  BY <1>4, <1>11 DEF StagedWrites
<1>13. QED
  BY <1>4, <1>8, <1>10, <1>12 DEF IInv, IdInv

LEMMA CommitResourceKeepsInvariant ==
  ASSUME IInv, TypeInv', NEW t \in Txn, CommitResource(t)
  PROVE  IInv'
<1> DEFINE r   == txn[t].request.resource
           new == txn[t].image
<1>1. /\ txn[t].phase = "written"
      /\ Op(t) \in {"update", "updateStatus"}
      /\ resources' = [resources EXCEPT ![r] = new]
      /\ bookings' = bookings /\ closures' = closures
      /\ Committed(t)
  BY DEF CommitResource
<1>2. r \in Resource /\ resources \in [Resource -> ResourceRow]
  BY <1>1, TxnShape DEF IInv, TypeInv, TypeOK, ResourceOps
<1>3. /\ ValidOperatingHours(new)
      /\ \A b \in BookingId :
           /\ bookings[b].status \in ReviewableStatuses
           /\ bookings[b].resource = r
           /\ now < SlotEnd(bookings[b].slot)
           => IsOperational(new, bookings[b].slot)
  BY <1>1 DEF IInv, StagedWrites, StagedWrite, StagedResource
<1>4. /\ now' = now
      /\ txn'[t].phase \notin Open
      /\ \A u \in Txn \ {t} : txn'[u] = txn[u]
      /\ StagedWrite(t)'
      /\ LockExclusion' /\ DistinctIds'
  BY <1>1, CommittedTxn
<1>5. resources'[r] = new /\ \A s \in Resource \ {r} : resources'[s] = resources[s]
  BY <1>1, <1>2
<1>6. /\ \A s, d : IsClosedOn(s, d)' <=> IsClosedOn(s, d)
      /\ \A s, d : Conflicts(s, d)' = Conflicts(s, d)
  BY <1>1 DEF IsClosedOn, Conflicts
<1>7. TablesAreSafe'
  <2>1. NoOverlap' /\ ChecksHold' /\ StampsArePast' /\ OneClosurePerDate'
    BY <1>1, <1>4
    DEF IInv, TablesAreSafe, NoOverlap, ChecksHold, StampsArePast, Stamped,
        OneClosurePerDate
  <2>2. UnendedBookingsAreOperational'
    <3>1. \A b \in BookingId : bookings[b].resource \in Resource
      BY DEF IInv, TypeInv, TypeOK, BookingRow
    <3>2. QED
      BY <1>1, <1>3, <1>4, <1>5, <3>1
      DEF IInv, TablesAreSafe, UnendedBookingsAreOperational
  <2>3. ClosedDatesAreFree'
    BY <1>1, <1>4, <1>6 DEF IInv, TablesAreSafe, ClosedDatesAreFree
  <2>4. HoursInOrder'
    BY <1>3, <1>5 DEF IInv, TablesAreSafe, HoursInOrder
  <2>5. QED
    BY <2>1, <2>2, <2>3, <2>4 DEF TablesAreSafe
<1>8. UnusedIds'
  BY <1>1, <1>4 DEF IInv, IdInv, UnusedIds, Op, Booking
<1>9. ASSUME NEW u \in Txn, u # t
      PROVE  StagedWrite(u)'
  <2>1. txn'[u] = txn[u] /\ StagedWrite(u)
    BY <1>4, <1>9 DEF IInv, StagedWrites
  <2>2. StagedInsert(u)'
    <3>1. SUFFICES ASSUME txn[u].phase = "written", Op(u) = "create"
                   PROVE  StagedInsert(u)'
      BY <2>1 DEF StagedInsert, Op
    <3>2. txn[u].request.resource \in Resource \ {r}
      BY <1>1, <1>9, <3>1, DifferentRows, TxnShape
      DEF IInv, LockedRow, Op, Holding, BookingOps
    <3>3. QED
      BY <1>4, <1>5, <1>6, <2>1, <3>1, <3>2
      DEF StagedWrite, StagedInsert, Op, Bookable, Resrc, Stamped
  <2>3. ReadingIsPast(u)' /\ StagedUpdate(u)'
    BY <1>1, <1>4, <2>1
    DEF StagedWrite, ReadingIsPast, StagedUpdate, SafeUpdate, Op, Booking, Stamped
  <2>4. StagedResource(u)'
    BY <1>1, <1>4, <2>1 DEF StagedWrite, StagedResource, Op
  <2>5. StagedClosure(u)'
    BY <1>1, <1>4, <1>6, <2>1 DEF StagedWrite, StagedClosure, Op
  <2>6. QED
    BY <2>2, <2>3, <2>4, <2>5 DEF StagedWrite
<1>10. StagedWrites'
  BY <1>4, <1>9 DEF StagedWrites
<1>11. QED
  BY <1>4, <1>7, <1>8, <1>10 DEF IInv, IdInv

LEMMA CommitClosureKeepsInvariant ==
  ASSUME IInv, TypeInv', NEW t \in Txn, CommitClosure(t)
  PROVE  IInv'
<1> DEFINE q   == txn[t].request
           row == [state |-> "closed", resource |-> q.resource, date |-> q.date]
<1>1. /\ txn[t].phase = "written"
      /\ bookings' = bookings /\ resources' = resources
      /\ Committed(t)
      /\ \/ Op(t) = "createClosure" /\ closures' = [closures EXCEPT ![q.closure] = row]
         \/ Op(t) = "deleteClosure" /\ closures' = [closures EXCEPT ![q.closure] = Reopened]
  BY DEF CommitClosure, Op
<1>2. /\ q.closure \in ClosureId /\ q.resource \in Resource /\ q.date \in ClosureDate
      /\ closures \in [ClosureId -> ClosureRow]
  BY <1>1, TxnShape DEF IInv, TypeInv, TypeOK, ResourceOps
<1>3. /\ now' = now
      /\ txn'[t].phase \notin Open
      /\ \A u \in Txn \ {t} : txn'[u] = txn[u]
      /\ StagedWrite(t)'
      /\ LockExclusion' /\ DistinctIds'
  BY <1>1, CommittedTxn
<1>4. Op(t) = "createClosure" =>
        /\ ~IsClosedOn(q.resource, q.date)
        /\ \A b \in BookingId :
             /\ bookings[b].status \in BlockingStatuses
             /\ bookings[b].resource = q.resource
             /\ bookings[b].slot.date = q.date
             => now >= SlotEnd(bookings[b].slot)
  BY <1>1 DEF IInv, StagedWrites, StagedWrite, StagedClosure
<1>5. Reopened.state # "closed" /\ Reopened # NoClosure /\ row # NoClosure
  <2>1. Reopened.state = "deleted" /\ NoClosure.state = "absent" /\ row.state = "closed"
    BY DEF Reopened, NoClosure
  <2>2. QED
    BY <2>1
<1>6. ASSUME NEW r, NEW d, IsClosedOn(r, d)'
      PROVE  IsClosedOn(r, d) \/ (Op(t) = "createClosure" /\ r = q.resource /\ d = q.date)
  <2>1. PICK k \in ClosureId :
          closures'[k] = [state |-> "closed", resource |-> r, date |-> d]
    BY <1>6 DEF IsClosedOn
  <2>2. closures[k] = closures'[k] \/ (k = q.closure /\ closures'[k] \in {row, Reopened})
    BY <1>1, <1>2
  <2>3. CASE closures[k] = closures'[k]
    BY <2>1, <2>3 DEF IsClosedOn
  <2>4. CASE closures'[k] = Reopened
    BY <1>5, <2>1, <2>4
  <2>5. CASE k = q.closure /\ closures'[k] = row /\ closures'[k] # Reopened
    BY <1>1, <1>2, <2>1, <2>5
  <2>6. QED
    BY <2>2, <2>3, <2>4, <2>5
<1>7. \A r, s : Conflicts(r, s)' = Conflicts(r, s)
  BY <1>1 DEF Conflicts
<1>8. TablesAreSafe'
  <2>1. NoOverlap' /\ UnendedBookingsAreOperational' /\ ChecksHold' /\ HoursInOrder'
          /\ StampsArePast'
    BY <1>1, <1>3
    DEF IInv, TablesAreSafe, NoOverlap, UnendedBookingsAreOperational, ChecksHold,
        HoursInOrder, StampsArePast, Stamped
  <2>2. ClosedDatesAreFree'
    BY <1>1, <1>3, <1>4, <1>6 DEF IInv, TablesAreSafe, ClosedDatesAreFree
  <2>3. OneClosurePerDate'
    <3>1. \A k \in ClosureId : Op(t) = "createClosure" => closures[k] # row
      BY <1>4 DEF IsClosedOn
    <3>2. QED
      BY <1>1, <1>2, <3>1 DEF IInv, TablesAreSafe, OneClosurePerDate
  <2>4. QED
    BY <2>1, <2>2, <2>3 DEF TablesAreSafe
<1>9. UnusedIds'
  <2>1. SUFFICES ASSUME NEW u \in Txn, u # t, txn[u].phase \in Open
                 PROVE  /\ Op(u) = "create" => Booking(u).status = "absent"
                        /\ Op(u) = "createClosure" =>
                             closures'[txn[u].request.closure] = NoClosure
                        /\ Op(u) = "deleteClosure" =>
                             closures'[txn[u].request.closure] # NoClosure
    BY <1>1, <1>3 DEF UnusedIds, Op, Booking
  <2>2. /\ Op(u) = "create" => Booking(u).status = "absent"
        /\ Op(u) = "createClosure" => closures[txn[u].request.closure] = NoClosure
        /\ Op(u) = "deleteClosure" => closures[txn[u].request.closure] # NoClosure
    BY <2>1 DEF IInv, IdInv, UnusedIds
  <2>3. /\ Op(t) = "createClosure" => closures[q.closure] = NoClosure
        /\ Op(t) = "deleteClosure" => closures[q.closure] # NoClosure
    BY <1>1 DEF IInv, IdInv, UnusedIds, Open, Holding
  <2>4. Op(u) = "createClosure" => txn[u].request.closure # q.closure
    BY <1>1, <2>1, <2>2, <2>3 DEF IInv, IdInv, DistinctIds
  <2>5. \A k \in ClosureId : k # q.closure => closures'[k] = closures[k]
    BY <1>1, <1>2
  <2>6. closures'[q.closure] # NoClosure
    BY <1>1, <1>2, <1>5
  <2>7. Op(u) \in {"createClosure", "deleteClosure"} => txn[u].request.closure \in ClosureId
    BY <2>1, TxnShape DEF IInv, Open, Holding
  <2>8. QED
    BY <2>2, <2>4, <2>5, <2>6, <2>7
<1>10. ASSUME NEW u \in Txn, u # t
       PROVE  StagedWrite(u)'
  <2>1. txn'[u] = txn[u] /\ StagedWrite(u)
    BY <1>3, <1>10 DEF IInv, StagedWrites
  <2>2. txn[u].phase = "written" /\ Op(u) \in ResourceOps \cup {"create"}
          => txn[u].request.resource # q.resource
    BY <1>1, <1>10, DifferentRows DEF LockedRow, Op, Holding, BookingOps, ResourceOps
  <2>3. \A d : txn[u].phase = "written" /\ Op(u) \in ResourceOps \cup {"create"}
          => (IsClosedOn(txn[u].request.resource, d)'
                => IsClosedOn(txn[u].request.resource, d))
    BY <1>6, <2>1, <2>2
  <2>4. StagedInsert(u)'
    BY <1>1, <1>3, <1>7, <2>1, <2>3
    DEF StagedWrite, StagedInsert, Op, Bookable, Resrc, Stamped
  <2>5. ReadingIsPast(u)' /\ StagedUpdate(u)' /\ StagedResource(u)'
    BY <1>1, <1>3, <2>1
    DEF StagedWrite, ReadingIsPast, StagedUpdate, SafeUpdate, StagedResource, Op,
        Booking, Stamped
  <2>6. StagedClosure(u)'
    BY <1>1, <1>3, <2>1, <2>3 DEF StagedWrite, StagedClosure, Op, ResourceOps
  <2>7. QED
    BY <2>4, <2>5, <2>6 DEF StagedWrite
<1>11. StagedWrites'
  BY <1>3, <1>10 DEF StagedWrites
<1>12. QED
  BY <1>3, <1>8, <1>9, <1>11 DEF IInv, IdInv

----------------------------------------------------------------------------
(* Steps of nobody in particular.                                          *)

LEMMA CrashKeepsInvariant ==
  ASSUME IInv, TypeInv', Crash
  PROVE  IInv'
<1>1. /\ UNCHANGED <<now, tables>>
      /\ \A u \in Txn : txn'[u] = Idle
  BY DEF Crash
<1>2. Idle.phase = "idle" /\ Idle.request.op = "none"
  BY DEF Idle, NoRequest
<1>3. IdInv'
  BY <1>1, <1>2 DEF IdInv, LockExclusion, DistinctIds, UnusedIds, Holds, Holding, Open, Op
<1>4. StagedWrites'
  BY <1>1, <1>2, QuietWrite DEF StagedWrites
<1>5. TablesAreSafe'
  BY <1>1, SameTables DEF IInv
<1>6. QED
  BY <1>3, <1>4, <1>5 DEF IInv

LEMMA TickKeepsInvariant ==
  ASSUME IInv, TypeInv', Tick
  PROVE  IInv'
<1>1. /\ txn' = txn /\ bookings' = bookings /\ closures' = closures
      /\ resources' = resources
  BY DEF Tick, tables
<1>2. now \in Nat /\ now' \in Nat /\ now < now'
  BY InstantsAssumption DEF Tick, IInv, TypeInv, TypeOK
<1>3. \A s \in Slot : SlotEnd(s) \in Int
  BY SlotAssumption DEF SlotEnd, CampusDateTime, SecondsPerDay, CampusOffset
<1>4. \A b \in BookingId : bookings[b] \in BookingRow
  BY DEF IInv, TypeInv, TypeOK
<1>5. \A b \in BookingId : SlotEnd(bookings[b].slot) \in Int
  BY <1>3, <1>4 DEF BookingRow
<1>6. ASSUME NEW row \in BookingRow, Stamped(row)
      PROVE  Stamped(row)'
  <2>1. row.requestedAt \in Time /\ row.checkedInAt \in Time
    BY DEF BookingRow
  <2>2. \A time \in Time : time \in Int
    BY InstantsAssumption DEF Time, Never
  <2>3. QED
    BY <1>2, <1>6, <2>1, <2>2 DEF Stamped
<1>7. /\ \A r, d : IsClosedOn(r, d)' <=> IsClosedOn(r, d)
      /\ \A r, s : Conflicts(r, s)' = Conflicts(r, s)
  BY <1>1 DEF IsClosedOn, Conflicts
<1>8. IdInv'
  BY <1>1
  DEF IInv, IdInv, LockExclusion, DistinctIds, UnusedIds, Holds, LockedRow, Op, Booking
<1>9. TablesAreSafe'
  <2>1. NoOverlap' /\ ChecksHold' /\ HoursInOrder' /\ OneClosurePerDate'
    BY <1>1
    DEF IInv, TablesAreSafe, NoOverlap, ChecksHold, HoursInOrder, OneClosurePerDate
  <2>2. UnendedBookingsAreOperational'
    BY <1>1, <1>2, <1>5 DEF IInv, TablesAreSafe, UnendedBookingsAreOperational
  <2>3. ClosedDatesAreFree'
    BY <1>1, <1>2, <1>5, <1>7 DEF IInv, TablesAreSafe, ClosedDatesAreFree
  <2>4. StampsArePast'
    BY <1>1, <1>4, <1>6 DEF IInv, TablesAreSafe, StampsArePast, Stamped
  <2>5. QED
    BY <2>1, <2>2, <2>3, <2>4 DEF TablesAreSafe
<1>10. ASSUME NEW u \in Txn
       PROVE  StagedWrite(u)'
  <2>1. StagedWrite(u)
    BY DEF IInv, StagedWrites
  <2>2. /\ txn[u].phase = "written" /\ Op(u) \in BookingOps \cup {"create"}
              => txn[u].image \in BookingRow
        /\ txn[u].phase = "clocked" /\ txn[u].clock \in Instants
              => txn[u].clock \in Nat
    BY InstantsAssumption DEF IInv, TypeInv, StagedTypes
  <2>3. ReadingIsPast(u)'
    BY <1>1, <1>2, <2>1, <2>2 DEF StagedWrite, ReadingIsPast
  <2>4. StagedUpdate(u)'
    BY <1>1, <1>6, <2>1, <2>2 DEF StagedWrite, StagedUpdate, SafeUpdate, Op, Booking, Stamped
  <2>5. StagedInsert(u)'
    BY <1>1, <1>6, <1>7, <2>1, <2>2
    DEF StagedWrite, StagedInsert, Op, Bookable, Resrc, Stamped
  <2>6. StagedResource(u)'
    BY <1>1, <1>2, <1>5, <2>1 DEF StagedWrite, StagedResource, Op
  <2>7. StagedClosure(u)'
    BY <1>1, <1>2, <1>5, <1>7, <2>1 DEF StagedWrite, StagedClosure, Op
  <2>8. QED
    BY <2>3, <2>4, <2>5, <2>6, <2>7 DEF StagedWrite
<1>11. StagedWrites'
  BY <1>10 DEF StagedWrites
<1>12. QED
  BY <1>8, <1>9, <1>11 DEF IInv

----------------------------------------------------------------------------
(* The theorems.                                                           *)

LEMMA InvariantHoldsInitially == Init => IInv
<1> SUFFICES ASSUME Init
             PROVE  IInv
  OBVIOUS
<1>1. TypeInv
  BY TypesHoldInitially
<1>2. /\ bookings = [b \in BookingId |-> AbsentRow]
      /\ closures = [k \in ClosureId |-> NoClosure]
      /\ resources \in [Resource -> InitialResource]
      /\ now \in Nat
      /\ \A t \in Txn : txn[t].phase = "idle" /\ Op(t) = "none"
  BY InstantsAssumption DEF Init, Idle, NoRequest, Op
<1>3. /\ RowChecks(AbsentRow)
      /\ AbsentRow.status = "absent"
      /\ AbsentRow.requestedAt = Never /\ AbsentRow.checkedInAt = Never
      /\ Never <= now
  BY <1>2, AbsentRowType DEF AbsentRow, Never
<1>4. IdInv
  BY <1>2 DEF IdInv, LockExclusion, DistinctIds, UnusedIds, Holds, Holding, Open
<1>5. StagedWrites
  BY <1>2
  DEF StagedWrites, StagedWrite, ReadingIsPast, StagedUpdate, StagedInsert,
      StagedResource, StagedClosure
<1>6. /\ NoOverlap /\ UnendedBookingsAreOperational /\ ClosedDatesAreFree
      /\ ChecksHold /\ StampsArePast
  BY <1>2, <1>3
  DEF NoOverlap, UnendedBookingsAreOperational, ClosedDatesAreFree, ChecksHold,
      StampsArePast, Stamped, BlockingStatuses, ReviewableStatuses
<1>7. HoursInOrder /\ OneClosurePerDate
  BY <1>2, InitialResourceAssumption DEF HoursInOrder, OneClosurePerDate
<1>8. QED
  BY <1>1, <1>4, <1>5, <1>6, <1>7 DEF IInv, TablesAreSafe

LEMMA InvariantPreserved == IInv /\ [Next]_vars => IInv'
<1> SUFFICES ASSUME IInv, [Next]_vars
             PROVE  IInv'
  OBVIOUS
<1>1. TypeInv'
  BY TypesPreserved DEF IInv
<1>2. ASSUME NEW t \in Txn, Receive(t) \/ Acquire(t) \/ Announce(t) \/ Abort(t)
      PROVE  IInv'
  BY <1>1, <1>2, ReceiveKeepsInvariant, AcquireKeepsInvariant, AnnounceKeepsInvariant,
     RefuseKeepsInvariant
  DEF Abort
<1>3. ASSUME NEW t \in Txn, BookingStep(t)
      PROVE  IInv'
  BY <1>1, <1>3, InsertKeepsInvariant, BookingOpKeepsInvariant, RefuseKeepsInvariant
  DEF BookingStep, RefuseCreate, RefuseBookingOp
<1>4. ASSUME NEW t \in Txn, ResourceStep(t)
      PROVE  IInv'
  BY <1>1, <1>4, ReadClockKeepsInvariant, UpdateKeepsInvariant,
     UpdateStatusKeepsInvariant, CreateClosureKeepsInvariant,
     DeleteClosureKeepsInvariant, RefuseKeepsInvariant
  DEF ResourceStep, RefuseResourceOp
<1>5. ASSUME NEW t \in Txn, CommitStep(t)
      PROVE  IInv'
  BY <1>1, <1>5, CommitUpdateKeepsInvariant, CommitInsertKeepsInvariant,
     CommitResourceKeepsInvariant, CommitClosureKeepsInvariant
  DEF CommitStep, CommitBooking
<1>6. CASE Crash
  BY <1>1, <1>6, CrashKeepsInvariant
<1>7. CASE Tick
  BY <1>1, <1>7, TickKeepsInvariant
<1>8. CASE UNCHANGED vars
  <2>1. /\ UNCHANGED <<now, tables>>
        /\ txn' = txn
    BY <1>8 DEF vars, tables
  <2>2. TablesAreSafe'
    BY <2>1, SameTables DEF IInv
  <2>3. StagedWrites'
    <3>1. ASSUME NEW u \in Txn
          PROVE  StagedWrite(u)'
      <4>1. txn'[u] = txn[u] /\ StagedWrite(u)
        BY <2>1 DEF IInv, StagedWrites
      <4>2. QED
        BY <2>1, <4>1, SameWrite
    <3>2. QED
      BY <3>1 DEF StagedWrites
  <2>4. IdInv'
    BY <2>1
    DEF IInv, IdInv, LockExclusion, DistinctIds, UnusedIds, Holds, LockedRow, Op,
        Booking, tables
  <2>5. QED
    BY <1>1, <2>2, <2>3, <2>4 DEF IInv
<1>9. QED
  BY <1>2, <1>3, <1>4, <1>5, <1>6, <1>7, <1>8 DEF Next

\* The inductive invariant: what every transaction knows while it holds its
\* row lock, and what the tables satisfy.
THEOREM InvariantHolds == Spec => []IInv
<1>1. Init => IInv
  BY InvariantHoldsInitially
<1>2. IInv /\ [Next]_vars => IInv'
  BY InvariantPreserved
<1>3. QED
  BY <1>1, <1>2, PTL DEF Spec

\* However many students, staff members and administrators act at once, two
\* blocking bookings of a resource never overlap.
THEOREM NoDoubleBooking == Spec => []NoOverlap
<1>1. IInv => NoOverlap
  BY DEF IInv, TablesAreSafe
<1>2. QED
  BY <1>1, InvariantHolds, PTL

\* An administrator's change of schedule or status never strands a booking
\* that is still to take place, whatever creation it races with.
THEOREM ChangesStrandNoBooking == Spec => []UnendedBookingsAreOperational
<1>1. IInv => UnendedBookingsAreOperational
  BY DEF IInv, TablesAreSafe
<1>2. QED
  BY <1>1, InvariantHolds, PTL

\* A date that is closed has no blocking booking that has yet to end: creating
\* a booking and closing its date exclude each other.
THEOREM ClosuresStrandNoBooking == Spec => []ClosedDatesAreFree
<1>1. IInv => ClosedDatesAreFree
  BY DEF IInv, TablesAreSafe
<1>2. QED
  BY <1>1, InvariantHolds, PTL

\* Two administrators who close the same date leave one closure row.
THEOREM ClosuresAreUnique == Spec => []OneClosurePerDate
<1>1. IInv => OneClosurePerDate
  BY DEF IInv, TablesAreSafe
<1>2. QED
  BY <1>1, InvariantHolds, PTL

\* No sequence or interleaving of calls trips a CHECK constraint of the
\* bookings table.
THEOREM ConstraintsHold == Spec => []ChecksHold
<1>1. IInv => ChecksHold
  BY DEF IInv, TablesAreSafe
<1>2. QED
  BY <1>1, InvariantHolds, PTL

\* No two partial updates put the operating hours of a resource out of order.
THEOREM HoursStayInOrder == Spec => []HoursInOrder
<1>1. IInv => HoursInOrder
  BY DEF IInv, TablesAreSafe
<1>2. QED
  BY <1>1, InvariantHolds, PTL
=============================================================================
