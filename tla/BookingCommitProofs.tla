------------------------- MODULE BookingCommitProofs -------------------------
(***************************************************************************)
(* What a commit is to the outside.  To the life of a booking it is one    *)
(* step of BookingLifecycle, and every other step is invisible; and no     *)
(* operation changes availability silently: every committed change of what *)
(* a viewer sees is owed an event by the request that made it.             *)
(***************************************************************************)
EXTENDS BookingSafetyProofs

----------------------------------------------------------------------------
(* BookingSystem implements BookingLifecycle.                              *)

Claims == [resource : Resource, slot : Slot]

\* The edge of the lifecycle that a write takes, as a relation between the old
\* and the new version of the row.
LEMMA WritesFollowEdges ==
  ASSUME NEW bk \in BookingRow, RowChecks(bk), NEW clock \in Instants,
         NEW new, Writes(bk, new, clock)
  PROVE  \/ /\ bk.status = "pending"
            /\ new.status \in {"confirmed", "rejected"}
            /\ CodeOf(new) = CodeOf(bk)
         \/ /\ bk.status \in {"pending", "confirmed"}
            /\ CodeOf(bk) = "none"
            /\ new.status = "cancelled"
            /\ CodeOf(new) = CodeOf(bk)
         \/ /\ bk.status = "confirmed"
            /\ CodeOf(bk) = "none"
            /\ new.status = bk.status
            /\ CodeOf(new) = "issued"
         \/ /\ bk.status = "confirmed"
            /\ CodeOf(bk) = "issued"
            /\ new.status = "checked_in"
            /\ CodeOf(new) = "spent"
         \/ /\ bk.status = "checked_in"
            /\ new.status = "completed"
            /\ CodeOf(new) = CodeOf(bk)
         \/ /\ bk.status = "confirmed"
            /\ new.status = "no_show"
            /\ CodeOf(new) = IF CodeOf(bk) = "issued" THEN "spent" ELSE CodeOf(bk)
<1>1. CASE CanReview(bk, clock) /\ (new = Approved(bk) \/ new = Rejected(bk))
  BY <1>1 DEF CanReview, Approved, Rejected, CodeOf, BookingRow
<1>2. CASE CanCancel(bk, clock) /\ new = Cancelled(bk)
  BY <1>2 DEF CanCancel, Cancelled, CodeOf, BookingRow
<1>3. CASE CanRequestCheckIn(bk, clock) /\ new = CheckInRequested(bk, clock)
  BY <1>3, InstantIsNotNull DEF CanRequestCheckIn, CheckInRequested, CodeOf, BookingRow
<1>4. CASE CanConfirmCheckIn(bk, clock) /\ new = CheckedIn(bk, clock)
  BY <1>4
  DEF CanConfirmCheckIn, CheckedIn, CodeOf, BookingRow, RowChecks, CheckInRequestCheck
<1>5. CASE CanCheckOut(bk) /\ new = CheckedOut(bk, clock)
  BY <1>5 DEF CanCheckOut, CheckedOut, CodeOf, BookingRow
<1>6. CASE CanMarkNoShow(bk, clock) /\ new = NoShown(bk, clock)
  BY <1>6
  DEF CanMarkNoShow, NoShown, CodeOf, BookingRow, RowChecks, CheckInRequestCheck
<1>7. QED
  BY <1>1, <1>2, <1>3, <1>4, <1>5, <1>6 DEF Writes

\* A step that leaves the bookings alone is invisible.
LEMMA OtherStepsStutter ==
  ASSUME bookings' = bookings
  PROVE  UNCHANGED Lifecycle!vars
BY DEF Lifecycle!vars

LEMMA InitImplements == Init => Lifecycle!Init
<1> SUFFICES ASSUME Init
             PROVE  Lifecycle!Init
  OBVIOUS
<1>1. bookings = [b \in BookingId |-> AbsentRow]
  BY DEF Init
<1>2. /\ AbsentRow.status = "absent"
      /\ CodeOf(AbsentRow) = "none"
      /\ ClaimOf(AbsentRow) \in Claims
  BY AbsentRowType DEF AbsentRow, CodeOf, ClaimOf, Claims, BookingRow, Never
<1>3. QED
  BY <1>1, <1>2 DEF Lifecycle!Init, Claims

LEMMA UpdateImplements ==
  ASSUME IInv, NEW b \in BookingId, NEW new, SafeUpdate(bookings[b], new),
         bookings' = [bookings EXCEPT ![b] = new]
  PROVE  Lifecycle!Next
<1> DEFINE old     == bookings[b]
           status  == [c \in BookingId |-> bookings[c].status]
           claim   == [c \in BookingId |-> ClaimOf(bookings[c])]
           code    == [c \in BookingId |-> CodeOf(bookings[c])]
<1>1. bookings \in [BookingId -> BookingRow]
  BY DEF IInv, TypeInv, TypeOK
<1>2. old \in BookingRow /\ RowChecks(old)
  BY <1>1 DEF IInv, TablesAreSafe, ChecksHold
<1>3. PICK clock \in Instants : Writes(old, new, clock)
  BY DEF SafeUpdate
<1>4. /\ status' = [status EXCEPT ![b] = new.status]
      /\ new.status = old.status => status' = status
  BY <1>1
<1>5. /\ code' = [code EXCEPT ![b] = CodeOf(new)]
      /\ CodeOf(new) = CodeOf(old) => code' = code
  BY <1>1
<1>6. claim' = claim
  BY <1>1 DEF SafeUpdate, ClaimOf
<1>7. status[b] = old.status /\ code[b] = CodeOf(old)
  OBVIOUS
<1> HIDE DEF status, claim, code
<1>8. CASE /\ old.status = "pending"
           /\ new.status \in {"confirmed", "rejected"}
           /\ CodeOf(new) = CodeOf(old)
  <2>1. Lifecycle!Review(b)
    BY <1>4, <1>5, <1>6, <1>7, <1>8 DEF Lifecycle!Review, Lifecycle!Become, status, claim, code
  <2>2. QED
    BY <2>1 DEF Lifecycle!Next
<1>9. CASE /\ old.status \in {"pending", "confirmed"}
           /\ CodeOf(old) = "none"
           /\ new.status = "cancelled"
           /\ CodeOf(new) = CodeOf(old)
  <2>1. Lifecycle!Cancel(b)
    BY <1>4, <1>5, <1>6, <1>7, <1>9 DEF Lifecycle!Cancel, Lifecycle!Become, status, claim, code
  <2>2. QED
    BY <2>1 DEF Lifecycle!Next
<1>10. CASE /\ old.status = "confirmed"
            /\ CodeOf(old) = "none"
            /\ new.status = old.status
            /\ CodeOf(new) = "issued"
  <2>1. Lifecycle!IssueCode(b)
    BY <1>4, <1>5, <1>6, <1>7, <1>10 DEF Lifecycle!IssueCode, status, claim, code
  <2>2. QED
    BY <2>1 DEF Lifecycle!Next
<1>11. CASE /\ old.status = "confirmed"
            /\ CodeOf(old) = "issued"
            /\ new.status = "checked_in"
            /\ CodeOf(new) = "spent"
  <2>1. Lifecycle!CheckIn(b)
    BY <1>4, <1>5, <1>6, <1>7, <1>11 DEF Lifecycle!CheckIn, Lifecycle!Become, status, claim, code
  <2>2. QED
    BY <2>1 DEF Lifecycle!Next
<1>12. CASE /\ old.status = "checked_in"
            /\ new.status = "completed"
            /\ CodeOf(new) = CodeOf(old)
  <2>1. Lifecycle!CheckOut(b)
    BY <1>4, <1>5, <1>6, <1>7, <1>12 DEF Lifecycle!CheckOut, Lifecycle!Become, status, claim, code
  <2>2. QED
    BY <2>1 DEF Lifecycle!Next
<1>13. CASE /\ old.status = "confirmed"
            /\ new.status = "no_show"
            /\ CodeOf(new) = IF CodeOf(old) = "issued" THEN "spent" ELSE CodeOf(old)
  <2>1. Lifecycle!NoShow(b)
    BY <1>4, <1>5, <1>6, <1>7, <1>13 DEF Lifecycle!NoShow, Lifecycle!Become, status, claim, code
  <2>2. QED
    BY <2>1 DEF Lifecycle!Next
<1>14. QED
  BY <1>2, <1>3, <1>8, <1>9, <1>10, <1>11, <1>12, <1>13, WritesFollowEdges

LEMMA InsertImplements ==
  ASSUME IInv, NEW b \in BookingId, NEW new \in BookingRow,
         bookings[b].status = "absent",
         new.status \in ReviewableStatuses,
         new.requestedAt = Never,
         Conflicts(new.resource, new.slot) = {},
         bookings' = [bookings EXCEPT ![b] = new]
  PROVE  Lifecycle!Next
<1> DEFINE status == [c \in BookingId |-> bookings[c].status]
           claim  == [c \in BookingId |-> ClaimOf(bookings[c])]
           code   == [c \in BookingId |-> CodeOf(bookings[c])]
<1>1. bookings \in [BookingId -> BookingRow]
  BY DEF IInv, TypeInv, TypeOK
<1>2. bookings[b].requestedAt = Never
  BY DEF IInv, TablesAreSafe, ChecksHold, RowChecks, CheckInRequestCheck
<1>3. CodeOf(new) = CodeOf(bookings[b])
  BY <1>2 DEF CodeOf
<1>4. status' = [status EXCEPT ![b] = new.status] /\ status[b] = "absent"
  BY <1>1
<1>5. code' = code
  BY <1>1, <1>3
<1>6. claim' = [claim EXCEPT ![b] = ClaimOf(new)] /\ ClaimOf(new) \in Claims
  BY <1>1 DEF ClaimOf, Claims, BookingRow
<1>7. \A d \in BookingId :
        status[d] \in {"pending", "confirmed", "checked_in"}
          => ~ClaimsClash(claim[d], ClaimOf(new))
  BY DEF Conflicts, ExclusionStatuses, ClaimsClash, ClaimOf
<1>8. new.status \in {"pending", "confirmed"}
  BY DEF ReviewableStatuses
<1> HIDE DEF status, claim, code
<1>9. Lifecycle!File(b)
  BY <1>4, <1>5, <1>6, <1>7, <1>8
  DEF Lifecycle!File, Lifecycle!Become, Lifecycle!Blocking, Claims, status, claim, code
<1>10. QED
  BY <1>9 DEF Lifecycle!Next

LEMMA CommitImplements ==
  ASSUME IInv, NEW t \in Txn, CommitBooking(t)
  PROVE  Lifecycle!Next
<1>1. txn[t].phase = "written" /\ Op(t) \in BookingOps \cup {"create"}
  BY DEF CommitBooking
<1>2. PICK b \in BookingId : b = txn[t].request.booking
  BY <1>1, TxnShape DEF IInv
<1>3. PICK new \in BookingRow : new = txn[t].image
  BY <1>1 DEF IInv, TypeInv, StagedTypes
<1>4. bookings' = [bookings EXCEPT ![b] = new]
  BY <1>2, <1>3 DEF CommitBooking
<1>5. CASE Op(t) \in BookingOps
  <2>1. SafeUpdate(bookings[b], new)
    BY <1>1, <1>2, <1>3, <1>5 DEF IInv, StagedWrites, StagedWrite, StagedUpdate, Booking
  <2>2. QED
    BY <1>4, <2>1, UpdateImplements
<1>6. CASE Op(t) = "create"
  <2>1. /\ new.status \in ReviewableStatuses
        /\ new.requestedAt = Never
        /\ Conflicts(new.resource, new.slot) = {}
    BY <1>1, <1>3, <1>6 DEF IInv, StagedWrites, StagedWrite, StagedInsert
  <2>2. bookings[b].status = "absent"
    BY <1>1, <1>2, <1>6 DEF IInv, IdInv, UnusedIds, Booking, Open, Holding
  <2>3. QED
    BY <1>4, <2>1, <2>2, InsertImplements
<1>7. QED
  BY <1>1, <1>5, <1>6

LEMMA StepImplements ==
  ASSUME IInv, [Next]_vars
  PROVE  [Lifecycle!Next]_(Lifecycle!vars)
<1>1. CASE \E t \in Txn : CommitBooking(t)
  BY <1>1, CommitImplements
<1>2. CASE bookings' = bookings
  BY <1>2, OtherStepsStutter
<1>3. QED
  BY <1>1, <1>2
  DEF Next, vars, tables, Receive, Acquire, BookingStep, ResourceStep, CommitStep,
      InsertBooking, RefuseCreate, Approve, Reject, RequestCheckIn, ConfirmCheckIn,
      CheckOut, MarkNoShow, Cancel, RefuseBookingOp, ReadClock, Update, UpdateStatus,
      CreateClosure, DeleteClosure, RefuseResourceOp, CommitResource, CommitClosure,
      Announce, Abort, Crash, Tick, Stage, Refuse

\* The booking service keeps its promise: through transactions, row locks, the
\* exclusion constraint, rollbacks and crashes, a booking moves through its
\* statuses and its check-in code is issued and spent exactly as
\* BookingLifecycle allows, one atomic step at a time.
THEOREM ServiceImplementsLifecycle == Spec => ImplementsLifecycle
<1>1. Init => Lifecycle!Init
  BY InitImplements
<1>2. IInv /\ [Next]_vars => [Lifecycle!Next]_(Lifecycle!vars)
  BY StepImplements
<1>3. Spec => []IInv
  BY InvariantHolds
<1>4. QED
  BY <1>1, <1>2, <1>3, PTL DEF Spec, ImplementsLifecycle, Lifecycle!Spec

----------------------------------------------------------------------------
(* Changes of availability are announced.                                  *)

\* The booking takes time of the resource on the date, for a viewer.
Shows(b, r, date) ==
  /\ bookings[b].status # "absent"
  /\ bookings[b].resource = r
  /\ bookings[b].status \in BlockingStatuses
  /\ bookings[b].slot.date = date

LEMMA SameAvailability ==
  ASSUME NEW r, NEW date,
         resources'[r] = resources[r],
         IsClosedOn(r, date)' <=> IsClosedOn(r, date),
         \A b \in BookingId : Shows(b, r, date)' <=> Shows(b, r, date),
         \A b \in BookingId : Shows(b, r, date) => bookings'[b].slot = bookings[b].slot
  PROVE  Availability(r, date)' = Availability(r, date)
<1> DEFINE Shown == {c \in BookingsOf(r) : /\ bookings[c].status \in BlockingStatuses
                                           /\ bookings[c].slot.date = date}
<1>1. \A c : c \in Shown <=> c \in BookingId /\ Shows(c, r, date)
  BY DEF BookingsOf, Shows
<1>2. \A c : c \in Shown' <=> c \in BookingId /\ Shows(c, r, date)'
  BY DEF BookingsOf, Shows
<1>3. Shown' = Shown
  BY <1>1, <1>2
<1>4. {bookings'[b].slot : b \in Shown'} = {bookings[b].slot : b \in Shown}
  <2>1. \A b \in Shown : bookings'[b].slot = bookings[b].slot
    BY <1>1
  <2> HIDE DEF Shown
  <2>2. QED
    BY <1>3, <2>1
<1>5. IsClosedOn(r, date)' = IsClosedOn(r, date)
  BY DEF IsClosedOn
<1>6. QED
  BY <1>4, <1>5 DEF Availability

\* What a commit of a booking operation writes shows as much as before,
\* except in the room the request reports.
LEMMA UpdateChangesItsRoom ==
  ASSUME AnnouncementInv, NEW t \in Txn, CommitBooking(t), Op(t) \in BookingOps,
         NEW r \in Resource, NEW date \in Dates,
         Availability(r, date)' # Availability(r, date)
  PROVE  LET b == txn[t].request.booking
         IN  /\ Op(t) \notin SilentOps
             /\ r = bookings'[b].resource /\ date = bookings'[b].slot.date
<1> DEFINE new == txn[t].image
<1>1. PICK b \in BookingId :
        /\ b = txn[t].request.booking
        /\ txn[t].phase = "written"
        /\ bookings' = [bookings EXCEPT ![b] = new]
        /\ resources' = resources /\ closures' = closures
  BY TxnShape DEF CommitBooking, AnnouncementInv, IInv
<1>2. bookings \in [BookingId -> BookingRow]
  BY DEF AnnouncementInv, IInv, TypeInv, TypeOK
<1>3. /\ bookings'[b] = new
      /\ \A c \in BookingId \ {b} : bookings'[c] = bookings[c]
  BY <1>1, <1>2
<1>4. SafeUpdate(bookings[b], new)
  BY <1>1 DEF AnnouncementInv, IInv, StagedWrites, StagedWrite, StagedUpdate, Booking
<1>5. /\ new.resource = bookings[b].resource /\ new.slot = bookings[b].slot
      /\ bookings[b].status # "absent" /\ new.status # "absent"
  BY <1>4 DEF SafeUpdate
<1>6. IsClosedOn(r, date)' <=> IsClosedOn(r, date)
  BY <1>1 DEF IsClosedOn
<1>7. \A c \in BookingId : Shows(c, r, date) => bookings'[c].slot = bookings[c].slot
  BY <1>3, <1>5
<1>8. ~(Shows(b, r, date)' <=> Shows(b, r, date))
  <2>1. ASSUME Shows(b, r, date)' <=> Shows(b, r, date)
        PROVE  \A c \in BookingId : Shows(c, r, date)' <=> Shows(c, r, date)
    BY <1>3, <2>1 DEF Shows
  <2>2. QED
    BY <1>1, <1>6, <1>7, <2>1, SameAvailability
<1>9. r = bookings[b].resource /\ date = bookings[b].slot.date
  BY <1>3, <1>5, <1>8 DEF Shows
<1>10. Op(t) \notin SilentOps
  <2>1. ASSUME Op(t) \in SilentOps
        PROVE  FALSE
    <3>1. bookings[b].status \in BlockingStatuses /\ new.status \in BlockingStatuses
      BY <1>1, <2>1 DEF AnnouncementInv, Accountable, SilentWriteBlocks, Booking
    <3>2. QED
      BY <1>3, <1>5, <1>8, <3>1 DEF Shows
  <2>2. QED
    BY <2>1
<1>11. QED
  BY <1>1, <1>3, <1>5, <1>9, <1>10

\* A new booking shows in the room of its interval only.
LEMMA InsertChangesItsRoom ==
  ASSUME AnnouncementInv, NEW t \in Txn, CommitBooking(t), Op(t) = "create",
         NEW r \in Resource, NEW date \in Dates,
         Availability(r, date)' # Availability(r, date)
  PROVE  LET b == txn[t].request.booking
         IN  r = bookings'[b].resource /\ date = bookings'[b].slot.date
<1> DEFINE new == txn[t].image
<1>1. PICK b \in BookingId :
        /\ b = txn[t].request.booking
        /\ txn[t].phase = "written"
        /\ bookings' = [bookings EXCEPT ![b] = new]
        /\ resources' = resources /\ closures' = closures
  BY TxnShape DEF CommitBooking, AnnouncementInv, IInv
<1>2. bookings \in [BookingId -> BookingRow]
  BY DEF AnnouncementInv, IInv, TypeInv, TypeOK
<1>3. /\ bookings'[b] = new
      /\ \A c \in BookingId \ {b} : bookings'[c] = bookings[c]
  BY <1>1, <1>2
<1>4. bookings[b].status = "absent"
  BY <1>1 DEF AnnouncementInv, IInv, IdInv, UnusedIds, Open, Holding, Booking
<1>5. IsClosedOn(r, date)' <=> IsClosedOn(r, date)
  BY <1>1 DEF IsClosedOn
<1>6. \A c \in BookingId : Shows(c, r, date) => bookings'[c].slot = bookings[c].slot
  BY <1>3, <1>4 DEF Shows
<1>7. ~(Shows(b, r, date)' <=> Shows(b, r, date))
  <2>1. ASSUME Shows(b, r, date)' <=> Shows(b, r, date)
        PROVE  \A c \in BookingId : Shows(c, r, date)' <=> Shows(c, r, date)
    BY <1>3, <2>1 DEF Shows
  <2>2. QED
    BY <1>1, <1>5, <1>6, <2>1, SameAvailability
<1>8. QED
  BY <1>1, <1>3, <1>4, <1>7 DEF Shows

\* A new row of a resource shows on its own page, on every date.
LEMMA ResourceChangesItsRooms ==
  ASSUME AnnouncementInv, NEW t \in Txn, CommitResource(t),
         NEW r \in Resource, NEW date \in Dates,
         Availability(r, date)' # Availability(r, date)
  PROVE  r = txn[t].request.resource
<1>1. /\ txn[t].phase = "written"
      /\ resources' = [resources EXCEPT ![txn[t].request.resource] = txn[t].image]
      /\ bookings' = bookings /\ closures' = closures
  BY DEF CommitResource
<1>2. resources \in [Resource -> ResourceRow]
  BY DEF AnnouncementInv, IInv, TypeInv, TypeOK
<1>3. IsClosedOn(r, date)' <=> IsClosedOn(r, date)
  BY <1>1 DEF IsClosedOn
<1>4. \A b \in BookingId : Shows(b, r, date)' <=> Shows(b, r, date)
  BY <1>1 DEF Shows
<1>5. resources'[r] # resources[r]
  BY <1>1, <1>3, <1>4, SameAvailability
<1>6. QED
  BY <1>1, <1>2, <1>5

\* A closure shows on its date only: the row an INSERT fills was unused, and
\* the row a DELETE removes is the one whose date the request announces.
LEMMA ClosureChangesItsRoom ==
  ASSUME AnnouncementInv, NEW t \in Txn, CommitClosure(t),
         NEW r \in Resource, NEW date \in Dates,
         Availability(r, date)' # Availability(r, date)
  PROVE  r = txn[t].request.resource /\ date = txn[t].request.date
<1> DEFINE q   == txn[t].request
           row == [state |-> "closed", resource |-> q.resource, date |-> q.date]
<1>1. /\ txn[t].phase = "written"
      /\ bookings' = bookings /\ resources' = resources
      /\ \/ Op(t) = "createClosure" /\ closures' = [closures EXCEPT ![q.closure] = row]
         \/ Op(t) = "deleteClosure" /\ closures' = [closures EXCEPT ![q.closure] = Reopened]
  BY DEF CommitClosure, Op
<1>2. closures \in [ClosureId -> ClosureRow]
  BY DEF AnnouncementInv, IInv, TypeInv, TypeOK
<1>3. closures[q.closure] \in {row, NoClosure, Reopened}
  BY <1>1 DEF AnnouncementInv, IInv, IdInv, UnusedIds, Accountable, DeletesNamedClosure,
              Open, Holding
<1>4. \A b \in BookingId : Shows(b, r, date)' <=> Shows(b, r, date)
  BY <1>1 DEF Shows
<1>5. ~(IsClosedOn(r, date)' <=> IsClosedOn(r, date))
  BY <1>1, <1>4, SameAvailability
<1>6. PICK k \in ClosureId :
        \/ closures'[k] = [state |-> "closed", resource |-> r, date |-> date] /\ closures[k] # closures'[k]
        \/ closures[k] = [state |-> "closed", resource |-> r, date |-> date] /\ closures[k] # closures'[k]
  BY <1>5 DEF IsClosedOn
<1>7. k = q.closure /\ closures'[k] \in {row, Reopened}
  BY <1>1, <1>2, <1>6
<1>8. [state |-> "closed", resource |-> r, date |-> date] = row
  BY <1>3, <1>6, <1>7 DEF NoClosure, Reopened
<1>9. QED
  BY <1>8

----------------------------------------------------------------------------
(* Steps that commit nothing.                                              *)

\* A request that is left alone stays accountable while the tables do.
LEMMA StillAccountable ==
  ASSUME UNCHANGED tables, NEW u \in Txn, txn'[u] = txn[u], Accountable(u)
  PROVE  Accountable(u)' /\ Reported(u)' = Reported(u)
<1>1. closures' = closures /\ bookings' = bookings
  BY DEF tables
<1>2. Booking(u)' = Booking(u) /\ Op(u)' = Op(u)
  BY <1>1 DEF Booking, Op
<1>3. Reported(u)' = Reported(u)
  BY <1>2 DEF Reported
<1>4. QED
  BY <1>1, <1>2, <1>3
  DEF Accountable, ReportsKnownRow, SilentWriteBlocks, DeletesNamedClosure

\* A step of one request between its announcements and commits.
LEMMA PrivateStepIsAccountable ==
  ASSUME AnnouncementInv, IInv', UNCHANGED <<tables, unannounced>>,
         NEW t \in Txn, \A u \in Txn \ {t} : txn'[u] = txn[u],
         txn[t].phase # "committed", Accountable(t)'
  PROVE  AnnouncementInv'
<1>1. UNCHANGED tables
  BY DEF tables
<1>2. \A u \in Txn \ {t} : Accountable(u)' /\ Reported(u)' = Reported(u)
  BY <1>1, StillAccountable DEF AnnouncementInv
<1>3. ChangesAreAnnounced'
  <2>1. ASSUME NEW p \in unannounced'
        PROVE  \E u \in Txn : txn'[u].phase = "committed" /\ p \in Reported(u)'
    <3>1. PICK u \in Txn : txn[u].phase = "committed" /\ p \in Reported(u)
      BY DEF AnnouncementInv, ChangesAreAnnounced
    <3>2. u # t
      BY <3>1
    <3>3. txn'[u].phase = "committed" /\ p \in Reported(u)'
      BY <1>2, <3>1, <3>2
    <3>4. QED
      BY <3>3
  <2>2. QED
    BY <2>1 DEF ChangesAreAnnounced
<1>4. QED
  BY <1>2, <1>3 DEF AnnouncementInv

\* A request that is idle, queued or under its lock owes nothing yet; one that
\* deletes a closure has read it.
LEMMA RefusalIsAccountable ==
  ASSUME AnnouncementInv, IInv', NEW t \in Txn, Refuse(t), txn[t].phase # "committed"
  PROVE  AnnouncementInv'
<1>1. /\ UNCHANGED <<tables, unannounced>>
      /\ txn'[t] = Idle
      /\ \A u \in Txn \ {t} : txn'[u] = txn[u]
  BY DEF Refuse, AnnouncementInv, IInv, TypeInv, TypeOK
<1>2. Accountable(t)'
  BY <1>1 DEF Accountable, ReportsKnownRow, SilentWriteBlocks, DeletesNamedClosure, Idle,
              Open, Holding
<1>3. QED
  BY <1>1, <1>2, PrivateStepIsAccountable

LEMMA ReceiveIsAccountable ==
  ASSUME AnnouncementInv, IInv', NEW t \in Txn, Receive(t)
  PROVE  AnnouncementInv'
<1>1. PICK request \in Request :
        /\ \/ AcceptsCreate(request)
           \/ AcceptsBookingOp(request)
           \/ AcceptsResourceOp(request)
        /\ txn' = [txn EXCEPT ![t] = [Idle EXCEPT !.phase = "queued",
                                                  !.request = request]]
  BY DEF Receive
<1>2. /\ txn[t].phase = "idle"
      /\ UNCHANGED <<tables, unannounced>>
      /\ txn'[t].phase = "queued" /\ txn'[t].request = request
      /\ \A u \in Txn \ {t} : txn'[u] = txn[u]
  BY <1>1 DEF Receive, AnnouncementInv, IInv, TypeInv, TypeOK, Idle
<1>3. DeletesNamedClosure(t)'
  BY <1>1, <1>2
  DEF DeletesNamedClosure, AcceptsCreate, AcceptsBookingOp, AcceptsResourceOp, BookingOps,
      Op, tables
<1>4. Accountable(t)'
  BY <1>2, <1>3 DEF Accountable, ReportsKnownRow, SilentWriteBlocks
<1>5. QED
  BY <1>2, <1>4, PrivateStepIsAccountable

LEMMA AcquireIsAccountable ==
  ASSUME AnnouncementInv, IInv', NEW t \in Txn, Acquire(t) \/ ReadClock(t)
  PROVE  AnnouncementInv'
<1>1. /\ txn[t].phase \in Open
      /\ UNCHANGED <<tables, unannounced>>
      /\ txn'[t].phase \in {"locked", "clocked"}
      /\ txn'[t].request = txn[t].request
      /\ \A u \in Txn \ {t} : txn'[u] = txn[u]
  BY DEF Acquire, ReadClock, AnnouncementInv, IInv, TypeInv, TypeOK, TxnState, Open, Holding
<1>2. Accountable(t)'
  BY <1>1
  DEF AnnouncementInv, Accountable, ReportsKnownRow, SilentWriteBlocks,
      DeletesNamedClosure, Op, Open, Holding, tables
<1>3. txn[t].phase # "committed"
  BY <1>1 DEF Open, Holding
<1>4. QED
  BY <1>1, <1>2, <1>3, PrivateStepIsAccountable

LEMMA StageIsAccountable ==
  ASSUME AnnouncementInv, IInv', NEW t \in Txn, NEW image, Stage(t, image),
         txn[t].phase \in Holding,
         Op(t) \in SilentOps => /\ Booking(t).status \in BlockingStatuses
                               /\ image.status \in BlockingStatuses
  PROVE  AnnouncementInv'
<1>1. /\ UNCHANGED <<tables, unannounced>>
      /\ txn'[t].phase = "written" /\ txn'[t].image = image
      /\ txn'[t].request = txn[t].request
      /\ \A u \in Txn \ {t} : txn'[u] = txn[u]
  BY DEF Stage, AnnouncementInv, IInv, TypeInv, TypeOK, TxnState
<1>2. Booking(t)' = Booking(t) /\ Op(t)' = Op(t)
  BY <1>1 DEF Booking, Op, tables
<1>3. Accountable(t)'
  BY <1>1, <1>2
  DEF AnnouncementInv, Accountable, ReportsKnownRow, SilentWriteBlocks,
      DeletesNamedClosure, Open, Holding, tables
<1>4. txn[t].phase # "committed"
  BY DEF Holding
<1>5. QED
  BY <1>1, <1>3, <1>4, PrivateStepIsAccountable

\* A check-in code, and the check-in that spends it, leave the interval taken.
LEMMA BookingStepIsAccountable ==
  ASSUME AnnouncementInv, IInv', NEW t \in Txn, BookingStep(t)
  PROVE  AnnouncementInv'
<1>1. CASE RefuseCreate(t) \/ RefuseBookingOp(t)
  <2>1. Refuse(t) /\ txn[t].phase = "locked"
    BY <1>1 DEF RefuseCreate, RefuseBookingOp, Serving
  <2>2. QED
    BY <2>1, RefusalIsAccountable
<1>2. CASE InsertBooking(t) \/ Approve(t) \/ Reject(t) \/ CheckOut(t) \/ MarkNoShow(t)
           \/ Cancel(t)
  <2>1. PICK image : Stage(t, image)
    BY <1>2 DEF InsertBooking, Approve, Reject, CheckOut, MarkNoShow, Cancel
  <2>2. txn[t].phase \in Holding /\ Op(t) \notin SilentOps
    BY <1>2
    DEF InsertBooking, Approve, Reject, CheckOut, MarkNoShow, Cancel, Serving, Holding,
        SilentOps
  <2>3. QED
    BY <2>1, <2>2, StageIsAccountable
<1>3. CASE RequestCheckIn(t) \/ ConfirmCheckIn(t)
  <2>1. /\ txn[t].phase \in Holding /\ txn[t].phase # "idle"
        /\ Op(t) \in BookingOps
    BY <1>3 DEF RequestCheckIn, ConfirmCheckIn, Serving, Holding, BookingOps
  <2>2. Booking(t) \in BookingRow
    BY <2>1, TxnShape DEF AnnouncementInv, IInv
  <2>3. /\ CheckInRequested(Booking(t), now).status = Booking(t).status
        /\ CheckedIn(Booking(t), now).status = "checked_in"
    BY <2>2 DEF CheckInRequested, CheckedIn, BookingRow
  <2>4. /\ Booking(t).status = "confirmed"
        /\ \/ Stage(t, CheckInRequested(Booking(t), now))
           \/ Stage(t, CheckedIn(Booking(t), now))
    BY <1>3 DEF RequestCheckIn, ConfirmCheckIn, CanRequestCheckIn, CanConfirmCheckIn
  <2>5. {"confirmed", "checked_in"} \subseteq BlockingStatuses
    BY DEF BlockingStatuses, ReviewableStatuses
  <2>6. QED
    BY <2>1, <2>3, <2>4, <2>5, StageIsAccountable
<1>4. QED
  BY <1>1, <1>2, <1>3 DEF BookingStep

LEMMA ResourceStepIsAccountable ==
  ASSUME AnnouncementInv, IInv', NEW t \in Txn, ResourceStep(t)
  PROVE  AnnouncementInv'
<1>1. CASE ReadClock(t)
  BY <1>1, AcquireIsAccountable
<1>2. CASE RefuseResourceOp(t)
  <2>1. Refuse(t) /\ txn[t].phase # "committed"
    BY <1>2 DEF RefuseResourceOp, Serving, Cleared
  <2>2. QED
    BY <2>1, RefusalIsAccountable
<1>3. CASE Update(t) \/ UpdateStatus(t) \/ CreateClosure(t) \/ DeleteClosure(t)
  <2>1. PICK image : Stage(t, image)
    BY <1>3 DEF Update, UpdateStatus, CreateClosure, DeleteClosure
  <2>2. txn[t].phase \in Holding /\ Op(t) \notin SilentOps
    BY <1>3
    DEF Update, UpdateStatus, CreateClosure, DeleteClosure, Serving, Cleared, Holding,
        SilentOps
  <2>3. QED
    BY <2>1, <2>2, StageIsAccountable
<1>4. QED
  BY <1>1, <1>2, <1>3 DEF ResourceStep

----------------------------------------------------------------------------
(* Commits.                                                                *)

\* A commit changes the availability only of rooms its request reports.
LEMMA CommitChangesItsRooms ==
  ASSUME AnnouncementInv, NEW t \in Txn, CommitStep(t),
         NEW p \in Resource \X Dates,
         Availability(p[1], p[2])' # Availability(p[1], p[2])
  PROVE  Op(t) \notin SilentOps /\ p \in Reported(t)'
<1> DEFINE q == txn[t].request
<1>1. PICK r \in Resource, date \in Dates : p = <<r, date>> /\ p[1] = r /\ p[2] = date
  OBVIOUS
<1>2. Availability(r, date)' # Availability(r, date)
  BY <1>1
<1>3. Op(t) \notin SilentOps
  BY <1>2, UpdateChangesItsRoom
  DEF CommitStep, CommitBooking, CommitResource, CommitClosure, SilentOps, BookingOps, Op
<1>4. txn'[t].request = q
  BY <1>3
  DEF CommitStep, CommitBooking, CommitResource, CommitClosure, Committed,
      AnnouncementInv, IInv, TypeInv, TypeOK, TxnState
<1>5. CASE CommitBooking(t)
  <2>1. Op(t) \in BookingOps \cup {"create"}
    BY <1>5 DEF CommitBooking
  <2>2. r = bookings'[q.booking].resource /\ date = bookings'[q.booking].slot.date
    BY <1>2, <1>5, <2>1, UpdateChangesItsRoom, InsertChangesItsRoom
  <2>3. Reported(t)' = {<<bookings'[q.booking].resource, bookings'[q.booking].slot.date>>}
    BY <1>4, <2>1 DEF Reported, Booking, Op, BookingOps
  <2>4. QED
    BY <1>1, <1>3, <2>2, <2>3
<1>6. CASE CommitResource(t)
  <2>1. q.op \in {"update", "updateStatus"}
    BY <1>6 DEF CommitResource, Op
  <2>2. r = q.resource
    BY <1>2, <1>6, ResourceChangesItsRooms
  <2>3. Reported(t)' = {q.resource} \X Dates
    BY <1>4, <2>1 DEF Reported
  <2>4. QED
    BY <1>1, <1>3, <2>2, <2>3
<1>7. CASE CommitClosure(t)
  <2>1. q.op \in {"createClosure", "deleteClosure"}
    BY <1>7 DEF CommitClosure
  <2>2. r = q.resource /\ date = q.date
    BY <1>2, <1>7, ClosureChangesItsRoom
  <2>3. Reported(t)' = {<<q.resource, q.date>>}
    BY <1>4, <2>1 DEF Reported
  <2>4. QED
    BY <1>1, <1>3, <2>2, <2>3
<1>8. QED
  BY <1>5, <1>6, <1>7 DEF CommitStep

\* Rows are neither removed nor moved to another room by a commit.
LEMMA CommitKeepsRows ==
  ASSUME AnnouncementInv, NEW t \in Txn, CommitStep(t), NEW b \in BookingId,
         bookings[b].status # "absent"
  PROVE  /\ bookings'[b].status # "absent"
         /\ bookings'[b].resource = bookings[b].resource
         /\ bookings'[b].slot = bookings[b].slot
         /\ bookings'[b] # bookings[b] => /\ Op(t) \in BookingOps
                                         /\ txn[t].request.booking = b
<1>1. CASE CommitBooking(t)
  <2>1. /\ txn[t].phase = "written"
        /\ Op(t) \in BookingOps \cup {"create"}
        /\ bookings' = [bookings EXCEPT ![txn[t].request.booking] = txn[t].image]
    BY <1>1 DEF CommitBooking
  <2>2. bookings \in [BookingId -> BookingRow]
    BY DEF AnnouncementInv, IInv, TypeInv, TypeOK
  <2>3. CASE b = txn[t].request.booking
    <3>1. Op(t) # "create"
      BY <2>1, <2>3 DEF AnnouncementInv, IInv, IdInv, UnusedIds, Open, Holding, Booking
    <3>2. SafeUpdate(bookings[b], txn[t].image)
      BY <2>1, <2>3, <3>1
      DEF AnnouncementInv, IInv, StagedWrites, StagedWrite, StagedUpdate, Booking
    <3>3. bookings'[b] = txn[t].image
      BY <2>1, <2>2, <2>3
    <3>4. QED
      BY <2>1, <2>3, <3>1, <3>2, <3>3 DEF SafeUpdate
  <2>4. CASE b # txn[t].request.booking
    <3>1. bookings'[b] = bookings[b]
      BY <2>1, <2>2, <2>4
    <3>2. QED
      BY <3>1
  <2>5. QED
    BY <2>3, <2>4
<1>2. CASE CommitResource(t) \/ CommitClosure(t)
  BY <1>2 DEF CommitResource, CommitClosure
<1>3. QED
  BY <1>1, <1>2 DEF CommitStep

LEMMA CommitIsAccountable ==
  ASSUME AnnouncementInv, IInv', NEW t \in Txn, CommitStep(t)
  PROVE  AnnouncementInv'
<1>1. /\ txn[t].phase = "written"
      /\ Committed(t)
  BY DEF CommitStep, CommitBooking, CommitResource, CommitClosure
<1>2. /\ txn'[t].phase \in {"idle", "committed"}
      /\ Op(t) \notin SilentOps => /\ txn'[t].phase = "committed"
                                   /\ txn'[t].request = txn[t].request
      /\ Op(t) \in SilentOps => txn'[t].phase = "idle"
      /\ \A u \in Txn \ {t} : txn'[u] = txn[u]
  BY <1>1 DEF Committed, AnnouncementInv, IInv, TypeInv, TypeOK, TxnState, Idle
<1>3. \A u \in Txn \ {t} : Op(u)' = Op(u)
  BY <1>2 DEF Op
<1>4. \A u \in Txn \ {t} : ReportsKnownRow(u)'
  <2>1. ASSUME NEW u \in Txn \ {t}, txn[u].phase = "committed",
               Op(u) \in BookingOps \cup {"create"}
        PROVE  Booking(u)'.status # "absent"
    <3>1. Booking(u).status # "absent" /\ txn[u].request.booking \in BookingId
      BY <2>1, TxnShape DEF AnnouncementInv, Accountable, ReportsKnownRow, IInv
    <3>2. bookings'[txn[u].request.booking].status # "absent"
      BY <3>1, CommitKeepsRows DEF Booking
    <3>3. QED
      BY <1>2, <3>2 DEF Booking
  <2>2. QED
    BY <1>2, <1>3, <2>1 DEF ReportsKnownRow
<1>5. \A u \in Txn \ {t} : SilentWriteBlocks(u)'
  <2>1. ASSUME NEW u \in Txn \ {t}, txn[u].phase = "written", Op(u) \in SilentOps
        PROVE  Booking(u)' = Booking(u)
    <3>1. /\ Op(u) \in BookingOps
          /\ txn[u].request.booking \in BookingId
          /\ Booking(u).status # "absent"
      BY <2>1, TxnShape
      DEF AnnouncementInv, Accountable, SilentWriteBlocks, IInv, SilentOps, BookingOps,
          BlockingStatuses, ReviewableStatuses
    <3>2. LockedRow(txn[t].request) # LockedRow(txn[u].request)
      BY <1>1, <2>1, DifferentRows DEF AnnouncementInv, Holding
    <3>3. bookings'[txn[u].request.booking] = bookings[txn[u].request.booking]
      BY <3>1, <3>2, CommitKeepsRows DEF LockedRow, Op, Booking
    <3>4. QED
      BY <1>2, <3>3 DEF Booking
  <2>2. QED
    BY <1>2, <1>3, <2>1 DEF AnnouncementInv, Accountable, SilentWriteBlocks
<1>6. \A u \in Txn \ {t} : DeletesNamedClosure(u)'
  <2>1. ASSUME NEW u \in Txn \ {t}, txn[u].phase \in Open, Op(u) = "deleteClosure"
        PROVE  closures'[txn[u].request.closure] \in {closures[txn[u].request.closure], Reopened}
    <3>1. closures[txn[u].request.closure] # NoClosure
      BY <2>1 DEF AnnouncementInv, IInv, IdInv, UnusedIds
    <3>2. CASE CommitBooking(t) \/ CommitResource(t)
      BY <3>2 DEF CommitBooking, CommitResource
    <3>3. CASE CommitClosure(t)
      <4>1. closures \in [ClosureId -> ClosureRow]
        BY DEF AnnouncementInv, IInv, TypeInv, TypeOK
      <4>2. Op(t) = "createClosure" => closures[txn[t].request.closure] = NoClosure
        BY <1>1 DEF AnnouncementInv, IInv, IdInv, UnusedIds, Open, Holding
      <4>3. CASE Op(t) = "createClosure"
        <5>1. PICK row : closures' = [closures EXCEPT ![txn[t].request.closure] = row]
          BY <3>3, <4>3 DEF CommitClosure, Op
        <5>2. txn[u].request.closure # txn[t].request.closure
          BY <3>1, <4>2, <4>3
        <5>3. closures'[txn[u].request.closure] = closures[txn[u].request.closure]
          BY <3>1, <4>1, <5>1, <5>2
        <5>4. QED
          BY <5>3
      <4>4. CASE Op(t) = "deleteClosure"
        <5>1. closures' = [closures EXCEPT ![txn[t].request.closure] = Reopened]
          BY <3>3, <4>4 DEF CommitClosure, Op
        <5>2. txn[u].request.closure \in ClosureId
          BY <2>1, TxnShape DEF AnnouncementInv, IInv, Open, Holding
        <5>3. QED
          BY <4>1, <5>1, <5>2
      <4>5. QED
        BY <3>3, <4>3, <4>4 DEF CommitClosure, Op
    <3>4. QED
      BY <3>2, <3>3 DEF CommitStep
  <2>2. QED
    BY <1>2, <1>3, <2>1 DEF AnnouncementInv, Accountable, DeletesNamedClosure
<1>7. Accountable(t)'
  <2>1. DeletesNamedClosure(t)' /\ SilentWriteBlocks(t)'
    BY <1>2 DEF DeletesNamedClosure, SilentWriteBlocks, Open, Holding
  <2>2. ReportsKnownRow(t)'
    <3>1. ASSUME txn'[t].phase = "committed", Op(t)' \in BookingOps \cup {"create"}
          PROVE  Booking(t)'.status # "absent"
      <4>1. txn'[t].request = txn[t].request /\ Op(t) \in BookingOps \cup {"create"}
        BY <1>2, <3>1 DEF Op
      <4>2. CommitBooking(t)
        BY <4>1 DEF CommitStep, CommitResource, CommitClosure, BookingOps, Op
      <4>3. bookings' = [bookings EXCEPT ![txn[t].request.booking] = txn[t].image]
        BY <4>2 DEF CommitBooking
      <4>4. txn[t].image.status # "absent"
        BY <1>1, <4>1
        DEF AnnouncementInv, IInv, StagedWrites, StagedWrite, StagedUpdate, StagedInsert,
            SafeUpdate, ReviewableStatuses
      <4>5. txn[t].request.booking \in BookingId /\ bookings \in [BookingId -> BookingRow]
        BY <1>1, <4>1, TxnShape DEF AnnouncementInv, IInv, TypeInv, TypeOK
      <4>6. QED
        BY <4>1, <4>3, <4>4, <4>5 DEF Booking
    <3>2. QED
      BY <3>1 DEF ReportsKnownRow
  <2>3. QED
    BY <2>1, <2>2 DEF Accountable
<1>8. \A u \in Txn \ {t} : txn[u].phase = "committed" => Reported(u)' = Reported(u)
  <2>1. ASSUME NEW u \in Txn \ {t}, txn[u].phase = "committed"
        PROVE  Reported(u)' = Reported(u)
    <3>1. CASE Op(u) \in BookingOps \cup {"create"}
      <4>1. Booking(u).status # "absent" /\ txn[u].request.booking \in BookingId
        BY <2>1, <3>1, TxnShape DEF AnnouncementInv, Accountable, ReportsKnownRow, IInv
      <4>2. /\ Booking(u)'.resource = Booking(u).resource
            /\ Booking(u)'.slot = Booking(u).slot
        BY <1>2, <4>1, CommitKeepsRows DEF Booking
      <4>3. QED
        BY <1>2, <4>2 DEF Reported
    <3>2. CASE Op(u) \notin BookingOps \cup {"create"}
      <4>1. Op(u) \in ResourceOps
        BY <2>1, <3>2, TxnShape DEF AnnouncementInv, IInv
      <4>2. QED
        BY <1>2, <4>1 DEF Reported, ResourceOps, Op
    <3>3. QED
      BY <3>1, <3>2
  <2>2. QED
    BY <2>1
<1>9. ChangesAreAnnounced'
  <2>1. ASSUME NEW p \in unannounced'
        PROVE  \E u \in Txn : txn'[u].phase = "committed" /\ p \in Reported(u)'
    <3>1. CASE p \in unannounced
      <4>1. PICK u \in Txn : txn[u].phase = "committed" /\ p \in Reported(u)
        BY <3>1 DEF AnnouncementInv, ChangesAreAnnounced
      <4>2. u # t
        BY <1>1, <4>1
      <4>3. txn'[u].phase = "committed" /\ p \in Reported(u)'
        BY <1>2, <1>8, <4>1, <4>2
      <4>4. QED
        BY <4>3
    <3>2. CASE p \notin unannounced
      <4>1. p \in Resource \X Dates /\ Availability(p[1], p[2])' # Availability(p[1], p[2])
        BY <1>1, <3>2 DEF Committed
      <4>2. Op(t) \notin SilentOps /\ p \in Reported(t)'
        BY <4>1, CommitChangesItsRooms
      <4>3. QED
        BY <1>2, <4>2
    <3>3. QED
      BY <3>1, <3>2
  <2>2. QED
    BY <2>1 DEF ChangesAreAnnounced
<1>10. QED
  BY <1>4, <1>5, <1>6, <1>7, <1>9 DEF AnnouncementInv, Accountable

\* An event settles what its request owes, and nothing of what others owe.
LEMMA AnnounceIsAccountable ==
  ASSUME AnnouncementInv, IInv', NEW t \in Txn, Announce(t)
  PROVE  AnnouncementInv'
<1>1. /\ UNCHANGED tables
      /\ txn'[t].phase = "idle"
      /\ unannounced' = unannounced \ Reported(t)
      /\ \A u \in Txn \ {t} : txn'[u] = txn[u]
  BY DEF Announce, AnnouncementInv, IInv, TypeInv, TypeOK, Idle
<1>2. \A u \in Txn \ {t} : Accountable(u)' /\ Reported(u)' = Reported(u)
  BY <1>1, StillAccountable DEF AnnouncementInv
<1>3. Accountable(t)'
  BY <1>1
  DEF Accountable, ReportsKnownRow, SilentWriteBlocks, DeletesNamedClosure, Open, Holding
<1>4. ChangesAreAnnounced'
  <2>1. ASSUME NEW p \in unannounced'
        PROVE  \E u \in Txn : txn'[u].phase = "committed" /\ p \in Reported(u)'
    <3>1. PICK u \in Txn : txn[u].phase = "committed" /\ p \in Reported(u)
      BY <1>1 DEF AnnouncementInv, ChangesAreAnnounced
    <3>2. u # t
      BY <1>1, <3>1
    <3>3. txn'[u].phase = "committed" /\ p \in Reported(u)'
      BY <1>1, <1>2, <3>1, <3>2
    <3>4. QED
      BY <3>3
  <2>2. QED
    BY <2>1 DEF ChangesAreAnnounced
<1>5. QED
  BY <1>2, <1>3, <1>4 DEF AnnouncementInv

----------------------------------------------------------------------------
(* The theorem.                                                            *)

LEMMA AccountableInitially == Init => AnnouncementInv
<1> SUFFICES ASSUME Init
             PROVE  AnnouncementInv
  OBVIOUS
<1>1. IInv
  BY InvariantHoldsInitially
<1>2. unannounced = {} /\ \A t \in Txn : txn[t].phase = "idle"
  BY DEF Init, Idle
<1>3. \A t \in Txn : Accountable(t)
  BY <1>2
  DEF Accountable, ReportsKnownRow, SilentWriteBlocks, DeletesNamedClosure, Open, Holding
<1>4. QED
  BY <1>1, <1>2, <1>3 DEF AnnouncementInv, ChangesAreAnnounced

LEMMA AccountabilityPreserved == AnnouncementInv /\ [Next]_vars => AnnouncementInv'
<1> SUFFICES ASSUME AnnouncementInv, [Next]_vars
             PROVE  AnnouncementInv'
  OBVIOUS
<1>1. IInv'
  BY InvariantPreserved DEF AnnouncementInv
<1>2. ASSUME NEW t \in Txn, Receive(t) \/ Acquire(t) \/ Announce(t)
      PROVE  AnnouncementInv'
  BY <1>1, <1>2, ReceiveIsAccountable, AcquireIsAccountable, AnnounceIsAccountable
<1>3. ASSUME NEW t \in Txn, Abort(t)
      PROVE  AnnouncementInv'
  <2>1. Refuse(t) /\ txn[t].phase # "committed"
    BY <1>3 DEF Abort, Open, Holding
  <2>2. QED
    BY <1>1, <2>1, RefusalIsAccountable
<1>4. ASSUME NEW t \in Txn, BookingStep(t) \/ ResourceStep(t) \/ CommitStep(t)
      PROVE  AnnouncementInv'
  BY <1>1, <1>4, BookingStepIsAccountable, ResourceStepIsAccountable, CommitIsAccountable
<1>5. CASE Crash
  <2>1. /\ unannounced' = {}
        /\ \A u \in Txn : txn'[u].phase = "idle"
    BY <1>5 DEF Crash, Idle
  <2>2. \A u \in Txn : Accountable(u)'
    BY <2>1
    DEF Accountable, ReportsKnownRow, SilentWriteBlocks, DeletesNamedClosure, Open, Holding
  <2>3. QED
    BY <1>1, <2>1, <2>2 DEF AnnouncementInv, ChangesAreAnnounced
<1>6. CASE Tick \/ UNCHANGED vars
  <2>1. UNCHANGED tables /\ txn' = txn /\ unannounced' = unannounced
    BY <1>6 DEF Tick, vars, tables
  <2>2. \A u \in Txn : Accountable(u)' /\ Reported(u)' = Reported(u)
    BY <2>1, StillAccountable DEF AnnouncementInv
  <2>3. QED
    BY <1>1, <2>1, <2>2 DEF AnnouncementInv, ChangesAreAnnounced
<1>7. QED
  BY <1>2, <1>3, <1>4, <1>5, <1>6 DEF Next

\* No operation changes availability silently: from its commit to its event,
\* every change of what a viewer sees of a resource on a date is owed an
\* event by the request that made it, although the request reports the rooms
\* of rows others may be changing, and two operations report nothing.
THEOREM NoSilentChange == Spec => []ChangesAreAnnounced
<1>1. Init => AnnouncementInv
  BY AccountableInitially
<1>2. AnnouncementInv /\ [Next]_vars => AnnouncementInv'
  BY AccountabilityPreserved
<1>3. AnnouncementInv => ChangesAreAnnounced
  BY DEF AnnouncementInv
<1>4. QED
  BY <1>1, <1>2, <1>3, PTL DEF Spec
=============================================================================
