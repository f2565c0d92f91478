------------------------- MODULE BookingSystemProofs -------------------------
(***************************************************************************)
(* The rules of a booking keep the constraints of its row, and every step  *)
(* of BookingSystem keeps the types of its variables, for every number of  *)
(* resources, bookings, closures and concurrent requests, every set of     *)
(* slots and every clock.                                                  *)
(***************************************************************************)
EXTENDS BookingInvariant, TLAPS

----------------------------------------------------------------------------
(* Facts about the pure rules, for every slot, clock reading and row.      *)

\* The campus date and second of the day split an instant without remainder.
LEMMA DateSplitsInstant ==
  ASSUME NEW clock \in Nat
  PROVE  /\ CampusDateOf(clock) \in Int
         /\ SecondOfDay(clock) \in Nat
         /\ SecondOfDay(clock) < 86400
         /\ clock + 25200 = 86400 * CampusDateOf(clock) + SecondOfDay(clock)
BY DEF CampusDateOf, SecondOfDay, SecondsPerDay, CampusOffset

LEMMA TimeTruncatesSecond ==
  ASSUME NEW clock \in Nat
  PROVE  /\ CampusTimeOf(clock) \in Int
         /\ 60 * CampusTimeOf(clock) <= SecondOfDay(clock)
         /\ SecondOfDay(clock) < 60 * CampusTimeOf(clock) + 60
BY DateSplitsInstant DEF CampusTimeOf

\* The SQL predicate ENDS_AFTER_NOW, which compares a date and a truncated
\* "HH:MM" with the columns of a row, decides exactly whether the clock is
\* before the instant at which the TypeScript code lets the slot end.
THEOREM EndsAfterNowIsExact ==
  ASSUME NEW s \in Slot, NEW clock \in Nat
  PROVE  EndsAfterNow(s, clock) <=> clock < SlotEnd(s)
<1>1. s.date \in Int /\ s.endTime \in Nat /\ s.endTime <= 1380
  BY SlotAssumption
<1>2. SlotEnd(s) = 86400 * s.date + 60 * s.endTime - 25200
  BY <1>1 DEF SlotEnd, CampusDateTime, SecondsPerDay, CampusOffset
<1>3. /\ CampusDateOf(clock) \in Int /\ SecondOfDay(clock) \in Nat
      /\ SecondOfDay(clock) < 86400
      /\ clock + 25200 = 86400 * CampusDateOf(clock) + SecondOfDay(clock)
  BY DateSplitsInstant
<1>4. /\ CampusTimeOf(clock) \in Int
      /\ 60 * CampusTimeOf(clock) <= SecondOfDay(clock)
      /\ SecondOfDay(clock) < 60 * CampusTimeOf(clock) + 60
  BY TimeTruncatesSecond
<1>5. CASE s.date > CampusDateOf(clock)
  BY <1>1, <1>2, <1>3, <1>5 DEF EndsAfterNow
<1>6. CASE s.date = CampusDateOf(clock)
  BY <1>1, <1>2, <1>3, <1>4, <1>6 DEF EndsAfterNow
<1>7. CASE s.date < CampusDateOf(clock)
  BY <1>1, <1>2, <1>3, <1>7 DEF EndsAfterNow
<1>8. QED
  BY <1>1, <1>3, <1>5, <1>6, <1>7

----------------------------------------------------------------------------
(* Every write of the booking service turns a row that satisfies the CHECK *)
(* constraints into one that does.  The guard of the operation is what     *)
(* makes it so; a check-in and a check-out also need that the clock has    *)
(* not gone backwards.                                                     *)

LEMMA InstantIsNotNull ==
  ASSUME NEW clock \in Instants
  PROVE  clock \in Nat /\ clock # Never /\ clock \in Time
BY InstantsAssumption DEF Never, Time

LEMMA ApprovedChecks ==
  ASSUME NEW bk \in BookingRow, RowChecks(bk), NEW clock \in Instants,
         CanReview(bk, clock)
  PROVE  Approved(bk) \in BookingRow /\ RowChecks(Approved(bk))
BY DEF BookingRow, BookingStatus, CanReview, Approved, RowChecks, ReviewCheck,
       CheckInRequestCheck, CheckInTimelineCheck, NoShowTimelineCheck,
       CheckedInStateCheck, CheckoutStateCheck, NoShowStateCheck

LEMMA RejectedChecks ==
  ASSUME NEW bk \in BookingRow, RowChecks(bk), NEW clock \in Instants,
         CanReview(bk, clock)
  PROVE  Rejected(bk) \in BookingRow /\ RowChecks(Rejected(bk))
BY DEF BookingRow, BookingStatus, CanReview, Rejected, RowChecks, ReviewCheck,
       CheckInRequestCheck, CheckInTimelineCheck, NoShowTimelineCheck,
       CheckedInStateCheck, CheckoutStateCheck, NoShowStateCheck

LEMMA CancelledChecks ==
  ASSUME NEW bk \in BookingRow, RowChecks(bk), NEW clock \in Instants,
         CanCancel(bk, clock)
  PROVE  Cancelled(bk) \in BookingRow /\ RowChecks(Cancelled(bk))
BY DEF BookingRow, BookingStatus, CanCancel, Cancelled, RowChecks, ReviewCheck,
       CheckInRequestCheck, CheckInTimelineCheck, NoShowTimelineCheck,
       CheckedInStateCheck, CheckoutStateCheck, NoShowStateCheck

LEMMA CheckInRequestedChecks ==
  ASSUME NEW bk \in BookingRow, RowChecks(bk), NEW clock \in Instants,
         CanRequestCheckIn(bk, clock)
  PROVE  /\ CheckInRequested(bk, clock) \in BookingRow
         /\ RowChecks(CheckInRequested(bk, clock))
BY InstantIsNotNull
DEF BookingRow, BookingStatus, CanRequestCheckIn, CheckInRequested, RowChecks,
    ReviewCheck, CheckInRequestCheck, CheckInTimelineCheck, NoShowTimelineCheck,
    CheckedInStateCheck, CheckoutStateCheck, NoShowStateCheck

LEMMA CheckedInChecks ==
  ASSUME NEW bk \in BookingRow, RowChecks(bk), NEW clock \in Instants,
         CanConfirmCheckIn(bk, clock), bk.requestedAt <= clock
  PROVE  CheckedIn(bk, clock) \in BookingRow /\ RowChecks(CheckedIn(bk, clock))
BY InstantIsNotNull
DEF BookingRow, BookingStatus, CanConfirmCheckIn, CheckedIn, RowChecks,
    ReviewCheck, CheckInRequestCheck, CheckInTimelineCheck, NoShowTimelineCheck,
    CheckedInStateCheck, CheckoutStateCheck, NoShowStateCheck

LEMMA CheckedOutChecks ==
  ASSUME NEW bk \in BookingRow, RowChecks(bk), NEW clock \in Instants,
         CanCheckOut(bk), bk.checkedInAt <= clock
  PROVE  CheckedOut(bk, clock) \in BookingRow /\ RowChecks(CheckedOut(bk, clock))
BY InstantIsNotNull
DEF BookingRow, BookingStatus, CanCheckOut, CheckedOut, RowChecks,
    ReviewCheck, CheckInRequestCheck, CheckInTimelineCheck, NoShowTimelineCheck,
    CheckedInStateCheck, CheckoutStateCheck, NoShowStateCheck

LEMMA NoShownChecks ==
  ASSUME NEW bk \in BookingRow, RowChecks(bk), NEW clock \in Instants,
         CanMarkNoShow(bk, clock)
  PROVE  NoShown(bk, clock) \in BookingRow /\ RowChecks(NoShown(bk, clock))
BY InstantIsNotNull
DEF BookingRow, BookingStatus, CanMarkNoShow, NoShown, RowChecks,
    ReviewCheck, CheckInRequestCheck, CheckInTimelineCheck, NoShowTimelineCheck,
    CheckedInStateCheck, CheckoutStateCheck, NoShowStateCheck

----------------------------------------------------------------------------
(* The shape of requests and rows.                                         *)

LEMMA RequestShape ==
  ASSUME NEW q \in Request
  PROVE  /\ q.op \in BookingOps \cup ResourceOps \cup {"create"}
         /\ q.op = "create" =>
              q.resource \in Resource /\ q.slot \in Slot /\ q.booking \in BookingId
         /\ q.op \in BookingOps => q.booking \in BookingId
         /\ q.op \in ResourceOps => q.resource \in Resource
         /\ q.op = "update" => q.dto \in Patch
         /\ q.op = "updateStatus" => q.status \in ResourceStatus
         /\ q.op \in {"createClosure", "deleteClosure"} =>
              q.closure \in ClosureId /\ q.date \in ClosureDate
BY DEF Request, CreateRequest, BookingRequest, UpdateRequest, StatusRequest,
       ClosureRequest, BookingOps, ResourceOps

LEMMA GivenType ==
  ASSUME NEW S, NEW field \in SUBSET S, NEW current \in S
  PROVE  Given(field, current) \in S
BY DEF Given

LEMMA PatchedType ==
  ASSUME NEW row \in ResourceRow, NEW dto \in Patch
  PROVE  Patched(row, dto) \in ResourceRow /\ Patched(row, dto).status = row.status
<1>1. dto \in ResourcePatch
  BY PatchAssumption
<1>2. Given(dto.operatingDays, row.operatingDays) \in SUBSET (0 .. 6)
  <2>1. /\ dto.operatingDays \in SUBSET SUBSET (0 .. 6)
        /\ row.operatingDays \in SUBSET (0 .. 6)
    BY <1>1 DEF ResourcePatch, ResourceRow
  <2>2. QED
    BY <2>1, GivenType
<1>3. Given(dto.opensAt, row.opensAt) \in Hour
  BY <1>1, GivenType DEF ResourcePatch, ResourceRow
<1>4. Given(dto.closesAt, row.closesAt) \in Hour
  BY <1>1, GivenType DEF ResourcePatch, ResourceRow
<1>5. Given(dto.requiresApproval, row.requiresApproval) \in BOOLEAN
  BY <1>1, GivenType DEF ResourcePatch, ResourceRow
<1>6. QED
  BY <1>2, <1>3, <1>4, <1>5 DEF Patched, ResourceRow

LEMMA AbsentRowType == AbsentRow \in BookingRow /\ RowChecks(AbsentRow)
BY IdAssumption
DEF AbsentRow, BookingRow, BookingStatus, Time, Never, RowChecks, ReviewCheck,
    CheckInRequestCheck, CheckInTimelineCheck, NoShowTimelineCheck,
    CheckedInStateCheck, CheckoutStateCheck, NoShowStateCheck

LEMMA NewBookingType ==
  ASSUME NEW row \in ResourceRow, NEW r \in Resource, NEW s \in Slot
  PROVE  LET new == NewBooking(row, r, s)
         IN  /\ new \in BookingRow
             /\ RowChecks(new)
             /\ new.status \in ReviewableStatuses
             /\ new.resource = r /\ new.slot = s
             /\ new.requestedAt = Never /\ new.checkedInAt = Never
BY IdAssumption
DEF NewBooking, AbsentRow, BookingRow, BookingStatus, ReviewableStatuses, Time,
    Never, RowChecks, ReviewCheck, CheckInRequestCheck, CheckInTimelineCheck,
    NoShowTimelineCheck, CheckedInStateCheck, CheckoutStateCheck, NoShowStateCheck

----------------------------------------------------------------------------
(* Types.                                                                  *)

LEMMA IdleType == Idle \in TxnState
BY DEF Idle, TxnState, Phase, Open, Holding, NoRequest, NoImage, Time, Never

\* What TypeInv says of one transaction.
LEMMA TxnShape ==
  ASSUME TypeInv, NEW t \in Txn, txn[t].phase # "idle"
  PROVE  /\ txn[t].request \in Request
         /\ Op(t) \in BookingOps \cup ResourceOps \cup {"create"}
         /\ Op(t) = "create" => /\ txn[t].request.resource \in Resource
                                /\ txn[t].request.slot \in Slot
         /\ Op(t) \in BookingOps \cup {"create"} =>
              /\ txn[t].request.booking \in BookingId
              /\ Booking(t) \in BookingRow
         /\ Op(t) \in ResourceOps \cup {"create"} =>
              /\ txn[t].request.resource \in Resource
              /\ Resrc(t) \in ResourceRow
         /\ Op(t) = "update" => txn[t].request.dto \in Patch
         /\ Op(t) = "updateStatus" => txn[t].request.status \in ResourceStatus
         /\ Op(t) \in {"createClosure", "deleteClosure"} =>
              /\ txn[t].request.closure \in ClosureId
              /\ txn[t].request.date \in ClosureDate
<1>1. txn[t].request \in Request
  BY DEF TypeInv, StagedTypes
<1>2. bookings \in [BookingId -> BookingRow] /\ resources \in [Resource -> ResourceRow]
  BY DEF TypeInv, TypeOK
<1>3. QED
  BY <1>1, <1>2, RequestShape DEF Op, Booking, Resrc

LEMMA StageTypes ==
  ASSUME TypeInv, NEW t \in Txn, NEW image, Stage(t, image),
         txn[t].phase # "idle",
         image \in BookingRow \cup ResourceRow \cup {NoImage},
         Op(t) \in BookingOps \cup {"create"} => image \in BookingRow,
         Op(t) \in {"update", "updateStatus"} => image \in ResourceRow
  PROVE  TypeInv'
<1>1. txn' \in [Txn -> TxnState]
  <2>1. txn \in [Txn -> TxnState]
    BY DEF TypeInv, TypeOK
  <2>2. [txn[t] EXCEPT !.phase = "written", !.clock = Never, !.image = image] \in TxnState
    BY <2>1 DEF TxnState, Phase, Open, Holding, Time
  <2>3. txn' = [txn EXCEPT ![t] = [txn[t] EXCEPT !.phase = "written", !.clock = Never,
                                                 !.image = image]]
    BY <2>1 DEF Stage
  <2>4. QED
    BY <2>1, <2>2, <2>3
<1>2. TypeOK'
  BY <1>1 DEF TypeInv, TypeOK, Stage, tables
<1>3. StagedTypes'
  BY DEF TypeInv, TypeOK, StagedTypes, Stage, Op, TxnState
<1>4. QED
  BY <1>2, <1>3 DEF TypeInv

LEMMA RefuseTypes ==
  ASSUME TypeInv, NEW t \in Txn, Refuse(t)
  PROVE  TypeInv'
<1>1. TypeOK'
  BY IdleType DEF TypeInv, TypeOK, Refuse, tables
<1>2. StagedTypes'
  BY DEF TypeInv, TypeOK, StagedTypes, Refuse, Op, Idle
<1>3. QED
  BY <1>1, <1>2 DEF TypeInv

\* The rows that booking operations stage.
LEMMA BookingWriteTypes ==
  ASSUME NEW bk \in BookingRow, NEW clock \in Instants
  PROVE  /\ Approved(bk) \in BookingRow
         /\ Rejected(bk) \in BookingRow
         /\ Cancelled(bk) \in BookingRow
         /\ CheckInRequested(bk, clock) \in BookingRow
         /\ CheckedIn(bk, clock) \in BookingRow
         /\ CheckedOut(bk, clock) \in BookingRow
         /\ NoShown(bk, clock) \in BookingRow
BY DEF BookingRow, BookingStatus, Time, Approved, Rejected, Cancelled,
       CheckInRequested, CheckedIn, CheckedOut, NoShown

LEMMA BookingStepTypes ==
  ASSUME TypeInv, NEW t \in Txn, BookingStep(t)
  PROVE  TypeInv'
<1>1. CASE InsertBooking(t)
  <2>1. Op(t) = "create" /\ txn[t].phase # "idle"
    BY <1>1 DEF InsertBooking, Serving
  <2>2. Stage(t, NewBooking(Resrc(t), txn[t].request.resource, txn[t].request.slot))
    BY <1>1 DEF InsertBooking
  <2>3. NewBooking(Resrc(t), txn[t].request.resource, txn[t].request.slot) \in BookingRow
    BY <2>1, TxnShape, NewBookingType
  <2>4. QED
    BY <2>1, <2>2, <2>3, StageTypes
<1>2. CASE RefuseCreate(t)
  BY <1>2, RefuseTypes DEF RefuseCreate
<1>3. CASE \/ Approve(t) \/ Reject(t) \/ RequestCheckIn(t) \/ ConfirmCheckIn(t)
           \/ CheckOut(t) \/ MarkNoShow(t) \/ Cancel(t)
  <2>1. Op(t) \in BookingOps /\ txn[t].phase # "idle"
    BY <1>3 DEF Approve, Reject, RequestCheckIn, ConfirmCheckIn, CheckOut,
                MarkNoShow, Cancel, Serving, BookingOps
  <2>2. Booking(t) \in BookingRow /\ now \in Instants
    BY <2>1, TxnShape DEF TypeInv, TypeOK
  <2>3. \E image \in BookingRow : Stage(t, image)
    BY <1>3, <2>2, BookingWriteTypes
    DEF Approve, Reject, RequestCheckIn, ConfirmCheckIn, CheckOut, MarkNoShow, Cancel
  <2>4. Op(t) \notin {"update", "updateStatus"}
    BY <2>1 DEF BookingOps
  <2>5. QED
    BY <2>1, <2>3, <2>4, StageTypes
<1>4. CASE RefuseBookingOp(t)
  BY <1>4, RefuseTypes DEF RefuseBookingOp
<1>5. QED
  BY <1>1, <1>2, <1>3, <1>4 DEF BookingStep

LEMMA ResourceStepTypes ==
  ASSUME TypeInv, NEW t \in Txn, ResourceStep(t)
  PROVE  TypeInv'
<1>1. CASE ReadClock(t)
  <2>1. TypeOK'
    <3>1. now \in Time /\ "clocked" \in Phase
      BY DEF TypeInv, TypeOK, Time, Phase, Open, Holding
    <3>2. [txn[t] EXCEPT !.phase = "clocked", !.clock = now] \in TxnState
      BY <3>1 DEF TypeInv, TypeOK, TxnState
    <3>3. txn' = [txn EXCEPT ![t] = [txn[t] EXCEPT !.phase = "clocked", !.clock = now]]
      BY <1>1 DEF ReadClock, TypeInv, TypeOK, TxnState
    <3>4. QED
      BY <1>1, <3>2, <3>3 DEF ReadClock, TypeInv, TypeOK, tables
  <2>2. StagedTypes'
    BY <1>1 DEF ReadClock, TypeInv, TypeOK, TxnState, StagedTypes, Op
  <2>3. QED
    BY <2>1, <2>2 DEF TypeInv
<1>2. CASE Update(t)
  <2>1. Op(t) = "update" /\ txn[t].phase # "idle"
    BY <1>2 DEF Update, Cleared
  <2>2. Stage(t, Patched(Resrc(t), txn[t].request.dto))
    BY <1>2 DEF Update
  <2>3. Patched(Resrc(t), txn[t].request.dto) \in ResourceRow
    BY <2>1, TxnShape, PatchedType DEF ResourceOps
  <2>4. QED
    BY <2>1, <2>2, <2>3, StageTypes DEF BookingOps
<1>3. CASE UpdateStatus(t)
  <2>1. Op(t) = "updateStatus" /\ txn[t].phase # "idle"
    BY <1>3 DEF UpdateStatus, Cleared
  <2>2. Stage(t, [Resrc(t) EXCEPT !.status = txn[t].request.status])
    BY <1>3 DEF UpdateStatus
  <2>3. Resrc(t) \in ResourceRow /\ txn[t].request.status \in ResourceStatus
    BY <2>1, TxnShape DEF ResourceOps
  <2>4. [Resrc(t) EXCEPT !.status = txn[t].request.status] \in ResourceRow
    BY <2>3 DEF ResourceRow
  <2>5. QED
    BY <2>1, <2>2, <2>4, StageTypes DEF BookingOps
<1>4. CASE CreateClosure(t) \/ DeleteClosure(t)
  <2>1. Op(t) \in {"createClosure", "deleteClosure"} /\ txn[t].phase # "idle"
    BY <1>4 DEF CreateClosure, DeleteClosure, Serving, Cleared
  <2>2. Stage(t, NoImage)
    BY <1>4 DEF CreateClosure, DeleteClosure
  <2>3. QED
    BY <2>1, <2>2, StageTypes DEF BookingOps
<1>5. CASE RefuseResourceOp(t)
  BY <1>5, RefuseTypes DEF RefuseResourceOp
<1>6. QED
  BY <1>1, <1>2, <1>3, <1>4, <1>5 DEF ResourceStep

LEMMA CommittedTypes ==
  ASSUME TypeInv, NEW t \in Txn, Committed(t), txn[t].phase # "idle"
  PROVE  /\ txn' \in [Txn -> TxnState]
         /\ unannounced' \subseteq Resource \X Dates
         /\ now' \in Instants
         /\ StagedTypes'
<1>1. txn' \in [Txn -> TxnState]
  BY IdleType DEF Committed, TypeInv, TypeOK, TxnState, Phase, Open, Holding
<1>2. unannounced' \subseteq Resource \X Dates
  BY DEF Committed, TypeInv, TypeOK
<1>3. now' \in Instants
  BY DEF Committed, TypeInv, TypeOK
<1>4. StagedTypes'
  BY DEF Committed, TypeInv, TypeOK, TxnState, StagedTypes, Op, Idle
<1>5. QED
  BY <1>1, <1>2, <1>3, <1>4

LEMMA CommitStepTypes ==
  ASSUME TypeInv, NEW t \in Txn, CommitStep(t)
  PROVE  TypeInv'
<1>1. Committed(t) /\ txn[t].phase = "written"
  BY DEF CommitStep, CommitBooking, CommitResource, CommitClosure
<1>2. /\ txn' \in [Txn -> TxnState]
      /\ unannounced' \subseteq Resource \X Dates
      /\ now' \in Instants
      /\ StagedTypes'
  BY <1>1, CommittedTypes
<1>3. /\ Op(t) \in BookingOps \cup {"create"} => txn[t].image \in BookingRow
      /\ Op(t) \in {"update", "updateStatus"} => txn[t].image \in ResourceRow
  BY <1>1 DEF TypeInv, StagedTypes
<1>4. bookings' \in [BookingId -> BookingRow]
  BY <1>3 DEF CommitStep, CommitBooking, CommitResource, CommitClosure, TypeInv, TypeOK
<1>5. resources' \in [Resource -> ResourceRow]
  BY <1>3 DEF CommitStep, CommitBooking, CommitResource, CommitClosure, TypeInv, TypeOK
<1>6. closures' \in [ClosureId -> ClosureRow]
  <2>1. CASE CommitClosure(t)
    <3>1. Op(t) \in {"createClosure", "deleteClosure"}
      BY <2>1 DEF CommitClosure, Op
    <3>2. /\ txn[t].request.resource \in Resource
          /\ txn[t].request.date \in ClosureDate
      BY <1>1, <3>1, TxnShape DEF ResourceOps
    <3>3. QED
      BY <2>1, <3>2 DEF CommitClosure, TypeInv, TypeOK, ClosureRow
  <2>2. CASE CommitBooking(t) \/ CommitResource(t)
    BY <2>2 DEF CommitBooking, CommitResource, TypeInv, TypeOK
  <2>3. QED
    BY <2>1, <2>2 DEF CommitStep
<1>7. QED
  BY <1>2, <1>4, <1>5, <1>6 DEF TypeInv, TypeOK

LEMMA TypesHoldInitially == Init => TypeInv
BY IdleType, AbsentRowType, InitialResourceAssumption
DEF Init, TypeInv, TypeOK, StagedTypes, Idle, NoClosure, ClosureRow

LEMMA TypesPreserved == TypeInv /\ [Next]_vars => TypeInv'
<1> SUFFICES ASSUME TypeInv, [Next]_vars
             PROVE  TypeInv'
  OBVIOUS
<1>1. ASSUME NEW t \in Txn, Receive(t)
      PROVE  TypeInv'
  <2>1. PICK request \in Request :
          txn' = [txn EXCEPT ![t] = [Idle EXCEPT !.phase = "queued",
                                                !.request = request]]
    BY <1>1 DEF Receive
  <2>2. [Idle EXCEPT !.phase = "queued", !.request = request] \in TxnState
    BY IdleType DEF TxnState, Phase, Open, Holding
  <2>3. TypeOK'
    BY <1>1, <2>1, <2>2 DEF Receive, TypeInv, TypeOK, tables
  <2>4. StagedTypes'
    BY <2>1, IdleType DEF TypeInv, TypeOK, TxnState, StagedTypes, Op, Idle
  <2>5. QED
    BY <2>3, <2>4 DEF TypeInv
<1>2. ASSUME NEW t \in Txn, Acquire(t)
      PROVE  TypeInv'
  <2>1. TypeOK'
    BY <1>2 DEF Acquire, TypeInv, TypeOK, TxnState, Phase, Open, Holding, tables
  <2>2. StagedTypes'
    BY <1>2 DEF Acquire, TypeInv, TypeOK, TxnState, StagedTypes, Op
  <2>3. QED
    BY <2>1, <2>2 DEF TypeInv
<1>3. ASSUME NEW t \in Txn, BookingStep(t)
      PROVE  TypeInv'
  BY <1>3, BookingStepTypes
<1>4. ASSUME NEW t \in Txn, ResourceStep(t)
      PROVE  TypeInv'
  BY <1>4, ResourceStepTypes
<1>5. ASSUME NEW t \in Txn, CommitStep(t)
      PROVE  TypeInv'
  BY <1>5, CommitStepTypes
<1>6. ASSUME NEW t \in Txn, Announce(t)
      PROVE  TypeInv'
  BY <1>6, IdleType DEF Announce, TypeInv, TypeOK, StagedTypes, Op, Idle, tables
<1>7. ASSUME NEW t \in Txn, Abort(t)
      PROVE  TypeInv'
  BY <1>7, RefuseTypes DEF Abort
<1>8. CASE Crash
  BY <1>8, IdleType DEF Crash, TypeInv, TypeOK, StagedTypes, Op, Idle, tables
<1>9. CASE Tick
  BY <1>9 DEF Tick, TypeInv, TypeOK, StagedTypes, Op, tables
<1>10. CASE UNCHANGED vars
  BY <1>10 DEF vars, tables, TypeInv, TypeOK, StagedTypes, Op
<1>11. QED
  BY <1>1, <1>2, <1>3, <1>4, <1>5, <1>6, <1>7, <1>8, <1>9, <1>10 DEF Next

\* Every state of the booking core is well-typed: no interleaving writes a row
\* of the wrong table or a value outside its column's domain.
THEOREM TypeCorrect == Spec => []TypeOK
<1>1. Init => TypeInv
  BY TypesHoldInitially
<1>2. TypeInv /\ [Next]_vars => TypeInv'
  BY TypesPreserved
<1>3. TypeInv => TypeOK
  BY DEF TypeInv
<1>4. QED
  BY <1>1, <1>2, <1>3, PTL DEF Spec

=============================================================================
