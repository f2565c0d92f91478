------------------------- MODULE BookingViewsProofs -------------------------
(***************************************************************************)
(* Every booking the service can produce is one the browser can read, for  *)
(* every number of requests, bookings and resources and at every reading   *)
(* of the clock.  The CHECK constraints do most of the work: RowChecks is  *)
(* part of the inductive invariant, and the parsers ask for little       *)
(* that the constraints do not already give.  The same holds of the lists, *)
(* whose order is total because an id breaks every tie; of the pages of    *)
(* the resources, which offer exactly what create accepts; and of the      *)
(* availability of a day, whose intervals come in order of their start.    *)
(***************************************************************************)
EXTENDS StaffQueues, Availability, BookingSafetyProofs, FiniteSetTheorems,
        WellFoundedInduction

----------------------------------------------------------------------------
(* Intervals stay in order.                                                *)

LEMMA OrderedInitially == Init => SlotsAreOrdered
BY DEF Init, SlotsAreOrdered, Op, Idle, NoRequest, Exists, AbsentRow

\* A step of one transaction that leaves the bookings alone and serves a
\* request in order, or none.
LEMMA QuietKeepsOrder ==
  ASSUME SlotsAreOrdered, bookings' = bookings, NEW t \in Txn,
         \A u \in Txn \ {t} : txn'[u] = txn[u],
         Op(t)' = "create" => Ordered(txn'[t].request.slot)
  PROVE  SlotsAreOrdered'
BY DEF SlotsAreOrdered, Op, Exists

LEMMA SameRequest ==
  ASSUME SlotsAreOrdered, bookings' = bookings, NEW t \in Txn,
         \A u \in Txn \ {t} : txn'[u] = txn[u],
         \/ txn'[t].request = txn[t].request
         \/ txn'[t] = Idle
  PROVE  SlotsAreOrdered'
<1>1. Op(t)' = "create" => Ordered(txn'[t].request.slot)
  BY DEF SlotsAreOrdered, Op, Idle, NoRequest
<1>2. QED
  BY <1>1, QuietKeepsOrder

LEMMA StageKeepsOrder ==
  ASSUME TypeInv, SlotsAreOrdered, NEW t \in Txn, NEW image, Stage(t, image)
  PROVE  SlotsAreOrdered'
<1>1. txn \in [Txn -> TxnState]
  BY DEF TypeInv, TypeOK
<1>2. /\ txn'[t].request = txn[t].request
      /\ \A u \in Txn \ {t} : txn'[u] = txn[u]
      /\ bookings' = bookings
  BY <1>1 DEF Stage, tables, TxnState
<1>3. QED
  BY <1>2, SameRequest

LEMMA RefuseKeepsOrder ==
  ASSUME TypeInv, SlotsAreOrdered, NEW t \in Txn, Refuse(t)
  PROVE  SlotsAreOrdered'
<1>1. txn'[t] = Idle /\ (\A u \in Txn \ {t} : txn'[u] = txn[u]) /\ bookings' = bookings
  BY DEF Refuse, tables, TypeInv, TypeOK
<1>2. QED
  BY <1>1, SameRequest

LEMMA BookingStepKeepsOrder ==
  ASSUME TypeInv, SlotsAreOrdered, NEW t \in Txn, BookingStep(t)
  PROVE  SlotsAreOrdered'
<1>1. (\E image : Stage(t, image)) \/ Refuse(t)
  BY DEF BookingStep, InsertBooking, RefuseCreate, Approve, Reject, RequestCheckIn,
         ConfirmCheckIn, CheckOut, MarkNoShow, Cancel, RefuseBookingOp
<1>2. QED
  BY <1>1, StageKeepsOrder, RefuseKeepsOrder

LEMMA ResourceStepKeepsOrder ==
  ASSUME TypeInv, SlotsAreOrdered, NEW t \in Txn, ResourceStep(t)
  PROVE  SlotsAreOrdered'
<1>1. CASE ReadClock(t)
  <2>1. txn \in [Txn -> TxnState]
    BY DEF TypeInv, TypeOK
  <2>2. /\ txn'[t].request = txn[t].request
        /\ \A u \in Txn \ {t} : txn'[u] = txn[u]
        /\ bookings' = bookings
    BY <1>1, <2>1 DEF ReadClock, tables, TxnState
  <2>3. QED
    BY <2>2, SameRequest
<1>2. CASE ~ReadClock(t)
  <2>1. (\E image : Stage(t, image)) \/ Refuse(t)
    BY <1>2 DEF ResourceStep, Update, UpdateStatus, CreateClosure, DeleteClosure,
                RefuseResourceOp
  <2>2. QED
    BY <2>1, StageKeepsOrder, RefuseKeepsOrder
<1>3. QED
  BY <1>1, <1>2

\* A commit writes the slot of the request, or keeps that of the row.
LEMMA CommitBookingKeepsOrder ==
  ASSUME IInv, SlotsAreOrdered, NEW t \in Txn, CommitBooking(t)
  PROVE  SlotsAreOrdered'
<1> DEFINE b == txn[t].request.booking
<1>1. TypeInv /\ StagedUpdate(t) /\ StagedInsert(t)
  BY DEF IInv, StagedWrites, StagedWrite
<1>2. /\ txn[t].phase = "written" /\ Op(t) \in BookingOps \cup {"create"}
      /\ bookings' = [bookings EXCEPT ![b] = txn[t].image]
      /\ Committed(t)
  BY DEF CommitBooking
<1>3. b \in BookingId
  BY <1>1, <1>2, TxnShape
<1>4. Ordered(txn[t].image.slot)
  <2>1. CASE Op(t) = "create"
    BY <1>1, <1>2, <2>1 DEF StagedInsert, SlotsAreOrdered
  <2>2. CASE Op(t) \in BookingOps
    <3>1. SafeUpdate(bookings[b], txn[t].image)
      BY <1>1, <1>2, <2>2 DEF StagedUpdate, Booking
    <3>2. QED
      BY <1>3, <3>1 DEF SafeUpdate, SlotsAreOrdered, Exists
  <2>3. QED
    BY <1>2, <2>1, <2>2
<1>5. bookings \in [BookingId -> BookingRow] /\ txn \in [Txn -> TxnState]
  BY <1>1 DEF TypeInv, TypeOK
<1>6. \A c \in BookingId : Exists(c)' => Ordered(bookings'[c].slot)
  BY <1>2, <1>3, <1>4, <1>5 DEF SlotsAreOrdered, Exists
<1>7. \A u \in Txn : Op(u)' = "create" => Ordered(txn'[u].request.slot)
  <2>1. \/ txn' = [txn EXCEPT ![t] = Idle]
        \/ txn' = [txn EXCEPT ![t] = [@ EXCEPT !.phase = "committed", !.image = NoImage]]
    BY <1>2 DEF Committed
  <2>2. /\ txn'[t].request = txn[t].request \/ txn'[t] = Idle
        /\ \A u \in Txn \ {t} : txn'[u] = txn[u]
    BY <1>5, <2>1 DEF TxnState
  <2>3. QED
    BY <2>2 DEF SlotsAreOrdered, Op, Idle, NoRequest
<1>8. QED
  BY <1>6, <1>7 DEF SlotsAreOrdered

LEMMA OtherCommitsKeepOrder ==
  ASSUME TypeInv, SlotsAreOrdered, NEW t \in Txn, CommitResource(t) \/ CommitClosure(t)
  PROVE  SlotsAreOrdered'
<1>1. bookings' = bookings /\ Committed(t)
  BY DEF CommitResource, CommitClosure
<1>2. \/ txn' = [txn EXCEPT ![t] = Idle]
      \/ txn' = [txn EXCEPT ![t] = [@ EXCEPT !.phase = "committed", !.image = NoImage]]
  BY <1>1 DEF Committed
<1>3. txn \in [Txn -> TxnState]
  BY DEF TypeInv, TypeOK
<1>4. /\ txn'[t].request = txn[t].request \/ txn'[t] = Idle
      /\ \A u \in Txn \ {t} : txn'[u] = txn[u]
  BY <1>2, <1>3 DEF TxnState
<1>5. QED
  BY <1>1, <1>4, SameRequest

LEMMA ReceiveKeepsOrder ==
  ASSUME TypeInv, SlotsAreOrdered, NEW t \in Txn, Receive(t)
  PROVE  SlotsAreOrdered'
<1>1. PICK request \in Request :
        /\ \/ AcceptsCreate(request)
           \/ AcceptsBookingOp(request)
           \/ AcceptsResourceOp(request)
        /\ txn' = [txn EXCEPT ![t] = [Idle EXCEPT !.phase = "queued",
                                                 !.request = request]]
  BY DEF Receive
<1>2. txn \in [Txn -> TxnState] /\ bookings' = bookings
  BY DEF TypeInv, TypeOK, Receive, tables
<1>3. txn'[t].request = request /\ \A u \in Txn \ {t} : txn'[u] = txn[u]
  BY <1>1, <1>2 DEF Idle
<1>4. request.op = "create" => Ordered(request.slot)
  BY <1>1 DEF AcceptsCreate, AcceptsBookingOp, AcceptsResourceOp, BookingOps, Ordered
<1>5. QED
  BY <1>2, <1>3, <1>4, QuietKeepsOrder DEF Op

LEMMA StepKeepsOrder == IInv /\ SlotsAreOrdered /\ [Next]_vars => SlotsAreOrdered'
<1> SUFFICES ASSUME IInv, SlotsAreOrdered, [Next]_vars
             PROVE  SlotsAreOrdered'
  OBVIOUS
<1>1. TypeInv
  BY DEF IInv
<1>2. ASSUME NEW t \in Txn, Receive(t)
      PROVE  SlotsAreOrdered'
  BY <1>1, <1>2, ReceiveKeepsOrder
<1>3. ASSUME NEW t \in Txn, Acquire(t)
      PROVE  SlotsAreOrdered'
  <2>1. txn \in [Txn -> TxnState]
    BY <1>1 DEF TypeInv, TypeOK
  <2>2. /\ txn'[t].request = txn[t].request
        /\ \A u \in Txn \ {t} : txn'[u] = txn[u]
        /\ bookings' = bookings
    BY <1>3, <2>1 DEF Acquire, tables, TxnState
  <2>3. QED
    BY <2>2, SameRequest
<1>4. ASSUME NEW t \in Txn, BookingStep(t)
      PROVE  SlotsAreOrdered'
  BY <1>1, <1>4, BookingStepKeepsOrder
<1>5. ASSUME NEW t \in Txn, ResourceStep(t)
      PROVE  SlotsAreOrdered'
  BY <1>1, <1>5, ResourceStepKeepsOrder
<1>6. ASSUME NEW t \in Txn, CommitStep(t)
      PROVE  SlotsAreOrdered'
  BY <1>1, <1>6, CommitBookingKeepsOrder, OtherCommitsKeepOrder DEF CommitStep
<1>7. ASSUME NEW t \in Txn, Announce(t) \/ Abort(t)
      PROVE  SlotsAreOrdered'
  <2>1. txn'[t] = Idle /\ (\A u \in Txn \ {t} : txn'[u] = txn[u]) /\ bookings' = bookings
    BY <1>1, <1>7 DEF Announce, Abort, Refuse, tables, TypeInv, TypeOK
  <2>2. QED
    BY <2>1, SameRequest
<1>8. ASSUME Crash
      PROVE  SlotsAreOrdered'
  BY <1>8 DEF Crash, tables, SlotsAreOrdered, Op, Idle, NoRequest, Exists
<1>9. ASSUME Tick \/ UNCHANGED vars
      PROVE  SlotsAreOrdered'
  BY <1>9 DEF Tick, vars, tables, SlotsAreOrdered, Op, Exists
<1>10. QED
  BY <1>2, <1>3, <1>4, <1>5, <1>6, <1>7, <1>8, <1>9 DEF Next

THEOREM OrderHolds == Spec => []SlotsAreOrdered
<1>1. Init => SlotsAreOrdered
  BY OrderedInitially
<1>2. IInv /\ SlotsAreOrdered /\ [Next]_vars => SlotsAreOrdered'
  BY StepKeepsOrder
<1>3. QED
  BY <1>1, <1>2, InvariantHolds, PTL DEF Spec

----------------------------------------------------------------------------
(* A row that satisfies the constraints is readable.                       *)

\* What the parsers compare of a row and a clock reading.
LEMMA SlotShape ==
  ASSUME NEW bk \in BookingRow, Ordered(bk.slot)
  PROVE  /\ SlotStart(bk.slot) \in Int /\ SlotEnd(bk.slot) \in Int
         /\ SlotStart(bk.slot) < SlotEnd(bk.slot)
<1>1. bk.slot \in [date : Nat, startTime : Nat, endTime : Nat]
  BY SlotAssumption DEF BookingRow
<1>2. QED
  BY <1>1 DEF Ordered, SlotStart, SlotEnd, CampusDateTime, SecondsPerDay, CampusOffset

LEMMA VisitIsComplete ==
  ASSUME NEW bk \in BookingRow, bk.status # "absent", RowChecks(bk),
         NEW v, v.status = bk.status, v.checkedInAt = bk.checkedInAt,
         v.checkedOutAt = bk.checkedOutAt, v.noShowAt = bk.noShowAt
  PROVE  VisitFits(v, bk.requestedAt # Never)
BY DEF VisitFits, RowChecks, CheckedInStateCheck, CheckoutStateCheck,
       NoShowStateCheck, BookingRow, BookingStatus

LEMMA StampsAreInOrder ==
  ASSUME NEW bk \in BookingRow, RowChecks(bk)
  PROVE  /\ IsAtOrAfter(bk.checkedInAt, bk.requestedAt)
         /\ IsAtOrAfter(bk.checkedOutAt, bk.checkedInAt)
         /\ bk.noShowAt # Never => bk.noShowAt >= SlotEnd(bk.slot)
BY DEF IsAtOrAfter, RowChecks, CheckInTimelineCheck, NoShowTimelineCheck

\* The student's parser accepts every row the constraints admit, evaluated at
\* any reading of the clock (parseStudentBooking on StudentBookingResponseDto).
LEMMA StudentReads ==
  ASSUME NEW bk \in BookingRow, NEW clock \in Int, bk.status # "absent",
         RowChecks(bk), Ordered(bk.slot)
  PROVE  ParsesStudent(StudentView(bk, clock))
<1> DEFINE v == StudentView(bk, clock)
<1>1. /\ v.status = bk.status /\ v.checkedInAt = bk.checkedInAt
      /\ v.checkedOutAt = bk.checkedOutAt /\ v.noShowAt = bk.noShowAt
      /\ v.requestedAt = bk.requestedAt /\ v.checkInCode = bk.code
      /\ v.endsAt = SlotEnd(bk.slot) /\ v.reviewed = bk.reviewed
      /\ v.startTime = bk.slot.startTime /\ v.endTime = bk.slot.endTime
      /\ v.canCancel = CanCancel(bk, clock)
      /\ v.canRequestCheckIn = OffersCode(bk, clock)
      /\ v.hasEnded = HasEnded(bk, clock)
  BY DEF StudentView
<1>2. /\ SlotStart(bk.slot) \in Int /\ SlotEnd(bk.slot) \in Int
      /\ SlotStart(bk.slot) < SlotEnd(bk.slot)
  BY SlotShape
<1>3. VisitFits(v, v.requestedAt # Never)
  <2>1. VisitFits(v, bk.requestedAt # Never)
    <3> HIDE DEF v
    <3>1. QED
      BY <1>1, VisitIsComplete
  <2>2. QED
    BY <1>1, <2>1
<1>4. /\ IsAtOrAfter(v.checkedInAt, v.requestedAt)
      /\ IsAtOrAfter(v.checkedOutAt, v.checkedInAt)
      /\ NoShowFits(v)
  BY <1>1, StampsAreInOrder DEF NoShowFits
<1>5. CodeFits(v)
  <2>1. CheckInRequestCheck(bk) /\ CheckedInStateCheck(bk)
    BY DEF RowChecks
  <2>2. bk.code \in BOOLEAN
    BY DEF BookingRow
  <2> HIDE DEF v
  <2>3. QED
    BY <1>1, <2>1, <2>2 DEF CodeFits, CheckInRequestCheck, CheckedInStateCheck
<1>6. v.status = "rejected" => v.reviewed
  BY <1>1 DEF RowChecks, ReviewCheck
<1>7. v.status \in BookingStatus /\ v.startTime < v.endTime
  BY <1>1 DEF BookingRow, Ordered
<1>8. /\ v.canCancel => v.status \in {"pending", "confirmed"} /\ ~v.hasEnded
      /\ v.canRequestCheckIn =>
           v.status = "confirmed" /\ v.requestedAt = Never /\ ~v.hasEnded
  <2>1. CanCancel(bk, clock) =>
          bk.status \in {"pending", "confirmed"} /\ clock < SlotStart(bk.slot)
    BY DEF CanCancel, IsFutureCampusTime, SlotStart
  <2>2. OffersCode(bk, clock) =>
          bk.status = "confirmed" /\ bk.requestedAt = Never /\ clock < SlotEnd(bk.slot)
    BY DEF OffersCode, IsWithinCheckInWindow
  <2>3. HasEnded(bk, clock) <=> clock >= SlotEnd(bk.slot)
    BY DEF HasEnded
  <2> HIDE DEF v
  <2>4. QED
    BY <1>1, <1>2, <2>1, <2>2, <2>3
<1>9. QED
  <2> HIDE DEF v
  <2>1. ParsesStudent(v)
    BY <1>3, <1>4, <1>5, <1>6, <1>7, <1>8 DEF ParsesStudent
  <2>2. QED
    BY <2>1 DEF v

\* The staff parser accepts every row the constraints admit, evaluated at any
\* reading of the clock (parseStaffBooking on StaffBookingResponseDto).
LEMMA StaffReads ==
  ASSUME NEW bk \in BookingRow, NEW clock \in Int, bk.status # "absent",
         RowChecks(bk), Ordered(bk.slot)
  PROVE  ParsesStaff(StaffView(bk, clock))
<1> DEFINE v == StaffView(bk, clock)
<1>1. /\ v.status = bk.status /\ v.checkedInAt = bk.checkedInAt
      /\ v.checkedOutAt = bk.checkedOutAt /\ v.noShowAt = bk.noShowAt
      /\ v.checkInRequested = (bk.requestedAt # Never)
      /\ v.endsAt = SlotEnd(bk.slot) /\ v.reviewed = bk.reviewed
      /\ v.startTime = bk.slot.startTime /\ v.endTime = bk.slot.endTime
      /\ v.actions.canReview = CanReview(bk, clock)
      /\ v.actions.canConfirmCheckIn = OffersCheckIn(bk, clock)
      /\ v.actions.canCheckOut = CanCheckOut(bk)
      /\ v.actions.canMarkNoShow = CanMarkNoShow(bk, clock)
  BY DEF StaffView, StaffActions
<1>2. SlotStart(bk.slot) \in Int /\ SlotEnd(bk.slot) \in Int
  BY SlotShape
<1>3. VisitFits(v, v.checkInRequested)
  <2>1. VisitFits(v, bk.requestedAt # Never)
    <3> HIDE DEF v
    <3>1. QED
      BY <1>1, VisitIsComplete
  <2>2. QED
    BY <1>1, <2>1
<1>4. IsAtOrAfter(v.checkedOutAt, v.checkedInAt) /\ NoShowFits(v)
  BY <1>1, StampsAreInOrder DEF NoShowFits
<1>5. /\ IF v.status = "pending" THEN ~v.reviewed ELSE ~v.actions.canReview
      /\ v.status = "rejected" => v.reviewed
  <2>1. ReviewCheck(bk)
    BY DEF RowChecks
  <2> HIDE DEF v
  <2>2. QED
    BY <1>1, <2>1 DEF ReviewCheck, CanReview
<1>6. v.status \in BookingStatus /\ v.startTime < v.endTime
  BY <1>1 DEF BookingRow, Ordered
<1>7. /\ v.actions.canConfirmCheckIn => v.status = "confirmed" /\ v.checkInRequested
      /\ ~(v.actions.canConfirmCheckIn /\ v.actions.canMarkNoShow)
      /\ v.actions.canCheckOut <=> v.status = "checked_in"
      /\ v.actions.canMarkNoShow => v.status = "confirmed"
  <2>1. OffersCheckIn(bk, clock) =>
          bk.status = "confirmed" /\ bk.requestedAt # Never /\ clock < SlotEnd(bk.slot)
    BY DEF OffersCheckIn, IsWithinCheckInWindow
  <2>2. CanMarkNoShow(bk, clock) => bk.status = "confirmed" /\ clock >= SlotEnd(bk.slot)
    BY DEF CanMarkNoShow
  <2>3. CanCheckOut(bk) <=> bk.status = "checked_in"
    BY DEF CanCheckOut
  <2>4. ~(OffersCheckIn(bk, clock) /\ CanMarkNoShow(bk, clock))
    BY <1>2, <2>1, <2>2
  <2> HIDE DEF v
  <2>5. (v.actions.canCheckOut <=> v.status = "checked_in")
    BY <1>1, <2>3
  <2>6. v.actions.canConfirmCheckIn => v.status = "confirmed" /\ v.checkInRequested
    BY <1>1, <2>1
  <2>7. v.actions.canMarkNoShow => v.status = "confirmed"
    BY <1>1, <2>2
  <2>8. ~(v.actions.canConfirmCheckIn /\ v.actions.canMarkNoShow)
    BY <1>1, <2>4
  <2>9. QED
    BY <2>5, <2>6, <2>7, <2>8
<1>8. QED
  <2> HIDE DEF v
  <2>1. ParsesStaff(v)
    BY <1>3, <1>4, <1>5, <1>6, <1>7 DEF ParsesStaff
  <2>2. QED
    BY <2>1 DEF v

----------------------------------------------------------------------------
\* No sequence or interleaving of operations ever produces a booking that the
\* student's or the staff's page cannot display.
THEOREM BookingsAreReadable == Spec => []RowsAreReadable
<1>1. IInv /\ SlotsAreOrdered => RowsAreReadable
  <2> SUFFICES ASSUME IInv, SlotsAreOrdered, NEW b \in BookingId, Exists(b),
                      NEW clock \in Instants
               PROVE  /\ ParsesStudent(StudentView(bookings[b], clock))
                      /\ ParsesStaff(StaffView(bookings[b], clock))
    BY DEF RowsAreReadable
  <2>1. bookings[b] \in BookingRow /\ clock \in Int
    BY InstantsAssumption DEF IInv, TypeInv, TypeOK
  <2>2. RowChecks(bookings[b]) /\ Ordered(bookings[b].slot) /\ bookings[b].status # "absent"
    BY DEF IInv, TablesAreSafe, ChecksHold, SlotsAreOrdered, Exists
  <2>3. QED
    BY <2>1, <2>2, StudentReads, StaffReads
<1>2. QED
  BY <1>1, InvariantHolds, OrderHolds, PTL

\* The flags of a response offer exactly what the operations accept: the code
\* that confirmCheckIn compares is present whenever the flag, which looks at
\* the time of the request, says so.
THEOREM FlagsAreTrue == Spec => []FlagsMatchOperations
<1>1. IInv => FlagsMatchOperations
  <2> SUFFICES ASSUME IInv, NEW b \in BookingId, Exists(b)
               PROVE  /\ StudentView(bookings[b], now).canCancel
                            <=> CanCancel(bookings[b], now)
                      /\ StudentView(bookings[b], now).canRequestCheckIn
                            <=> CanRequestCheckIn(bookings[b], now)
                      /\ StaffView(bookings[b], now).actions.canConfirmCheckIn
                            <=> CanConfirmCheckIn(bookings[b], now)
    BY DEF FlagsMatchOperations
  <2> DEFINE bk == bookings[b]
  <2>1. bk.code \in BOOLEAN /\ CheckInRequestCheck(bk)
    BY DEF IInv, TypeInv, TypeOK, BookingRow, TablesAreSafe, ChecksHold, RowChecks
  <2>2. OffersCode(bk, now) <=> CanRequestCheckIn(bk, now)
    BY <2>1 DEF OffersCode, CanRequestCheckIn, CheckInRequestCheck
  <2>3. OffersCheckIn(bk, now) <=> CanConfirmCheckIn(bk, now)
    BY <2>1 DEF OffersCheckIn, CanConfirmCheckIn, CheckInRequestCheck
  <2>4. QED
    BY <2>2, <2>3 DEF StudentView, StaffView, StaffActions
<1>2. QED
  BY <1>1, InvariantHolds, PTL

----------------------------------------------------------------------------
(* Lists.                                                                  *)

\* The WHERE clause of the pending queue, over campus strings, selects the
\* rows canReview accepts at the same reading of the clock.
LEMMA PendingIsReviewable ==
  ASSUME TypeInv, NEW clock \in Instants
  PROVE  PendingForStaff(clock) = {b \in BookingId : CanReview(bookings[b], clock)}
<1>1. ASSUME NEW b \in BookingId
      PROVE  EndsAfterNow(bookings[b].slot, clock) <=> clock < SlotEnd(bookings[b].slot)
  <2>1. bookings[b].slot \in Slot /\ clock \in Nat
    BY InstantsAssumption DEF TypeInv, TypeOK, BookingRow
  <2>2. QED
    BY <2>1, EndsAfterNowIsExact
<1>2. QED
  BY <1>1 DEF PendingForStaff, EndsAfterNow, CanReview

\* Both parsers take every row there is.
LEMMA RowsParse ==
  ASSUME IInv, SlotsAreOrdered, NEW clock \in Instants, NEW b \in BookingId, Exists(b)
  PROVE  /\ ParsesStudent(StudentView(bookings[b], clock))
         /\ ParsesStaff(StaffView(bookings[b], clock))
<1>1. bookings[b] \in BookingRow /\ clock \in Int
  BY InstantsAssumption DEF IInv, TypeInv, TypeOK
<1>2. RowChecks(bookings[b]) /\ Ordered(bookings[b].slot) /\ bookings[b].status # "absent"
  BY DEF IInv, TablesAreSafe, ChecksHold, SlotsAreOrdered, Exists
<1>3. QED
  BY <1>1, <1>2, StudentReads, StaffReads

\* The student's timeline, split by one reading of the clock.
LEMMA TimelineParses ==
  ASSUME IInv, SlotsAreOrdered, NEW clock \in Instants
  PROVE  ParsesTimeline(Timeline(clock).upcoming, Timeline(clock).history)
<1>1. clock \in Int
  BY InstantsAssumption
<1>2. ASSUME NEW b \in BookingId
      PROVE  /\ SlotEnd(bookings[b].slot) \in Int
             /\ StudentView(bookings[b], clock).status = bookings[b].status
             /\ StudentView(bookings[b], clock).hasEnded
                  = (clock >= SlotEnd(bookings[b].slot))
  <2>1. bookings[b].slot \in [date : Nat, startTime : Nat, endTime : Nat]
    BY SlotAssumption DEF IInv, TypeInv, TypeOK, BookingRow
  <2>2. SlotEnd(bookings[b].slot) \in Int
    BY <2>1 DEF SlotEnd, CampusDateTime, SecondsPerDay, CampusOffset
  <2>3. QED
    BY <2>2 DEF StudentView, HasEnded
<1>3. ASSUME NEW b \in Upcoming(clock)
      PROVE  /\ ParsesStudent(StudentView(bookings[b], clock))
             /\ ~StudentView(bookings[b], clock).hasEnded
             /\ StudentView(bookings[b], clock).status \in BlockingStatuses
  <2>1. /\ b \in BookingId /\ Exists(b) /\ clock < SlotEnd(bookings[b].slot)
        /\ bookings[b].status \in BlockingStatuses
    BY DEF Upcoming, IsActiveForStudent, BlockingStatuses, ReviewableStatuses
  <2>2. ~(clock >= SlotEnd(bookings[b].slot))
    BY <1>1, <1>2, <2>1
  <2>3. QED
    BY <1>2, <2>1, <2>2, RowsParse
<1>4. ASSUME NEW b \in History(clock)
      PROVE  /\ ParsesStudent(StudentView(bookings[b], clock))
             /\ \/ StudentView(bookings[b], clock).status \notin BlockingStatuses
                \/ StudentView(bookings[b], clock).hasEnded
  <2>1. /\ b \in BookingId /\ Exists(b)
        /\ bookings[b].status \in BlockingStatuses => ~(clock < SlotEnd(bookings[b].slot))
    BY DEF History, IsActiveForStudent, BlockingStatuses, ReviewableStatuses
  <2>2. bookings[b].status \in BlockingStatuses => clock >= SlotEnd(bookings[b].slot)
    BY <1>1, <1>2, <2>1
  <2>3. QED
    BY <1>2, <2>1, <2>2, RowsParse
<1>5. QED
  BY <1>3, <1>4 DEF ParsesTimeline, Timeline

\* The parser of a queue takes every row the queue selects, with the flags of
\* the same reading of the clock.
LEMMA ItemsParse ==
  ASSUME IInv, SlotsAreOrdered, NEW clock \in Instants, NEW queue \in Queues,
         NEW b \in Selected(queue, clock)
  PROVE  b \in BookingId /\ ParsesItem(queue, StaffView(bookings[b], clock), clock)
<1>1. CASE queue = "pending"
  <2>1. b \in BookingId /\ CanReview(bookings[b], clock)
    BY <1>1, PendingIsReviewable DEF Selected, IInv
  <2>2. bookings[b].status = "pending"
    BY <2>1 DEF CanReview
  <2>3. ParsesStaff(StaffView(bookings[b], clock))
    BY <2>1, <2>2, RowsParse DEF Exists
  <2>4. QED
    BY <1>1, <2>1, <2>2, <2>3 DEF ParsesItem, ParsesPendingItem, StaffView, StaffActions
<1>2. CASE queue = "operations"
  <2>1. /\ b \in BookingId /\ bookings[b].status \in {"confirmed", "checked_in"}
        /\ bookings[b].slot.date <= CampusDateOf(clock)
    BY <1>2 DEF Selected, OperationsForStaff
  <2>2. ParsesStaff(StaffView(bookings[b], clock))
    BY <2>1, RowsParse DEF Exists
  <2>3. /\ StaffView(bookings[b], clock).status = bookings[b].status
        /\ StaffView(bookings[b], clock).date = bookings[b].slot.date
    BY DEF StaffView
  <2>4. QED
    BY <1>2, <2>1, <2>2, <2>3 DEF ParsesItem, ParsesOperationsItem
<1>3. QED
  BY <1>1, <1>2 DEF Queues

LEMMA QueuesAreFinite ==
  \A queue, clock : /\ Selected(queue, clock) \subseteq BookingId
                    /\ Cardinality(Selected(queue, clock)) \in Nat
<1>1. \A queue, clock : Selected(queue, clock) \subseteq BookingId
  BY DEF Selected, PendingForStaff, OperationsForStaff
<1>2. QED
  BY <1>1, QueueAssumption, FS_Subset, FS_CardinalityType

\* The rows a page has room for are those its total leaves for it.
LEMMA PlacesAreCounted ==
  ASSUME NEW page \in Nat \ {0}, NEW n \in Nat
  PROVE  /\ Offset(page) \in Nat
         /\ page = 1 => Offset(page) = 0
         /\ Cardinality(Places(page, n)) =
              IF Offset(page) >= n THEN 0
              ELSE IF n - Offset(page) < QueueSize THEN n - Offset(page) ELSE QueueSize
<1>1. QueueSize \in Nat \ {0}
  BY QueueAssumption
<1>2. Offset(page) \in Nat /\ (page = 1 => Offset(page) = 0)
  BY <1>1 DEF Offset
<1> DEFINE o == Offset(page)
           e == IF n <= o + QueueSize THEN n ELSE o + QueueSize
<1>3. Places(page, n) = (o + 1)..e
  <2> HIDE DEF o
  <2>1. o \in Nat
    BY <1>2 DEF o
  <2>2. \A i : i \in 1..n /\ o < i /\ i <= o + QueueSize <=> i \in (o + 1)..e
    BY <1>1, <2>1
  <2>3. QED
    BY <2>2 DEF Places, o
<1> HIDE DEF o
<1>4. o \in Nat /\ e \in Int
  BY <1>1, <1>2 DEF o
<1>5. Cardinality((o + 1)..e) = IF o + 1 > e THEN 0 ELSE e - (o + 1) + 1
  <2> HIDE DEF e
  <2>1. o + 1 \in Int
    BY <1>4
  <2>2. QED
    BY <1>4, <2>1, FS_Interval
<1>6. Cardinality((o + 1)..e) = IF o >= n THEN 0
                                ELSE IF n - o < QueueSize THEN n - o ELSE QueueSize
  BY <1>1, <1>4, <1>5
<1>7. QED
  BY <1>2, <1>3, <1>6 DEF o

\* Beside a reader, the bookings go through what they go through.
LEMMA QueueStep ==
  ASSUME [QueueNext]_QueueVars
  PROVE  /\ [Next]_vars
         /\ \/ reading' = [reading EXCEPT !.steady = @ /\ Unmoved]
            \/ UNCHANGED <<vars, reading>>
            \/ /\ \/ \E queue \in Queues, page \in QueuePages : Ask(queue, page)
                  \/ FindIds \/ ReadRows \/ CountRows
               /\ UNCHANGED vars
BY DEF QueueNext, QueueVars

LEMMA QueueBehaves == QueueSpec => Spec
<1>1. QueueInit => Init
  BY DEF QueueInit
<1>2. [QueueNext]_QueueVars => [Next]_vars
  BY QueueStep
<1>3. QED
  BY <1>1, <1>2, PTL DEF QueueSpec, Spec

LEMMA ReadingStarts == QueueInit => ReadingInv
BY DEF QueueInit, NoReading, Queues, ReadingInv, ReadingOK, RowsBelong, TotalIsTrue

LEMMA OthersKeepReading ==
  ASSUME ReadingInv, reading' = [reading EXCEPT !.steady = @ /\ Unmoved]
  PROVE  ReadingInv'
<1>1. /\ ReadingOK
      /\ \A f \in {"phase", "queue", "page", "clock", "ids", "fits", "total"} :
           reading'[f] = reading[f]
      /\ reading'.steady = (reading.steady /\ Unmoved)
  BY DEF ReadingInv, ReadingOK
<1>2. ReadingOK' /\ reading'.fits
  BY <1>1 DEF ReadingInv, ReadingOK
<1>3. ASSUME reading'.steady
      PROVE  /\ reading.steady
             /\ Selected(reading.queue, reading.clock)' = Selected(reading.queue, reading.clock)
  <2>1. reading.steady /\ Unmoved
    BY <1>1, <1>3
  <2>2. reading'.queue = reading.queue /\ reading'.clock = reading.clock
    BY <1>1
  <2>3. PICK queue \in {reading.queue}, clock \in {reading.clock} :
          Selected(queue, clock)' = Selected(queue, clock)
    BY <2>1 DEF Unmoved
  <2>4. queue = reading.queue /\ clock = reading.clock
    OBVIOUS
  <2>5. QED
    BY <2>1, <2>2, <2>3, <2>4 DEF Selected, PendingForStaff, OperationsForStaff
<1>4. RowsBelong'
  BY <1>1, <1>3 DEF ReadingInv, RowsBelong, Places, Offset
<1>5. TotalIsTrue'
  BY <1>1, <1>3 DEF ReadingInv, TotalIsTrue
<1>6. QED
  BY <1>2, <1>4, <1>5 DEF ReadingInv

LEMMA AskKeepsReading ==
  ASSUME TypeInv, NEW queue \in Queues, NEW page \in QueuePages, Ask(queue, page)
  PROVE  ReadingInv'
<1>1. reading' = [phase |-> "asked", queue |-> queue, page |-> page, clock |-> now, ids |-> {},
                  fits |-> TRUE, total |-> 0, steady |-> TRUE]
  BY DEF Ask, NoReading
<1>2. now \in Instants /\ page \in Nat \ {0}
  BY QueueAssumption DEF TypeInv, TypeOK
<1>3. QED
  BY <1>1, <1>2 DEF ReadingInv, ReadingOK, RowsBelong, TotalIsTrue

LEMMA FindIdsKeepsReading ==
  ASSUME ReadingInv, FindIds, UNCHANGED vars
  PROVE  ReadingInv'
<1> DEFINE listed == Selected(reading.queue, reading.clock)
<1>1. ReadingOK /\ reading.phase = "asked" /\ reading.fits
  BY DEF ReadingInv, FindIds
<1>2. PICK ids \in SUBSET listed :
        /\ Cardinality(ids) = Cardinality(Places(reading.page, Cardinality(listed)))
        /\ reading' = [reading EXCEPT !.phase = "found", !.ids = ids]
  BY DEF FindIds
<1>3. listed' = listed
  <2>1. reading'.queue = reading.queue /\ reading'.clock = reading.clock
    BY <1>1, <1>2 DEF ReadingOK
  <2>2. QED
    BY <2>1 DEF vars, tables, Selected, PendingForStaff, OperationsForStaff
<1>4. listed \subseteq BookingId
  BY QueuesAreFinite
<1> HIDE DEF listed
<1>5. /\ reading'.phase = "found" /\ reading'.page = reading.page
      /\ reading'.ids = ids /\ reading'.fits
  BY <1>1, <1>2 DEF ReadingOK
<1>6. ReadingOK'
  BY <1>1, <1>2, <1>4 DEF ReadingOK
<1>7. RowsBelong' /\ TotalIsTrue'
  BY <1>2, <1>3, <1>5 DEF RowsBelong, TotalIsTrue, listed, Places, Offset
<1>8. QED
  BY <1>5, <1>6, <1>7 DEF ReadingInv

LEMMA ReadRowsKeepsReading ==
  ASSUME IInv, SlotsAreOrdered, ReadingInv, ReadRows, UNCHANGED vars
  PROVE  ReadingInv'
<1> DEFINE listed == Selected(reading.queue, reading.clock)
           rows == reading.ids \cap listed
           fits == \A b \in rows : ParsesItem(reading.queue, StaffView(bookings[b], reading.clock),
                                              reading.clock)
<1>1. /\ ReadingOK /\ RowsBelong /\ reading.phase = "found"
      /\ reading' = [reading EXCEPT !.phase = "read", !.ids = rows, !.fits = fits]
  BY DEF ReadingInv, ReadRows, RowsAt
<1>2. fits
  <2>1. reading.queue \in Queues /\ reading.clock \in Instants
    BY <1>1 DEF ReadingOK
  <2>2. QED
    BY <2>1, ItemsParse
<1>3. listed' = listed
  <2>1. reading'.queue = reading.queue /\ reading'.clock = reading.clock
    BY <1>1 DEF ReadingOK
  <2>2. QED
    BY <2>1 DEF vars, tables, Selected, PendingForStaff, OperationsForStaff
<1> HIDE DEF listed, fits
<1>4. /\ reading'.phase = "read" /\ reading'.page = reading.page
      /\ reading'.ids = rows /\ reading'.fits /\ reading'.steady = reading.steady
  BY <1>1, <1>2 DEF ReadingOK
<1>5. ReadingOK'
  BY <1>1, <1>2 DEF ReadingOK
<1>6. reading.steady => rows = reading.ids
  BY <1>1 DEF RowsBelong, listed
<1>7. RowsBelong' /\ TotalIsTrue'
  BY <1>1, <1>3, <1>4, <1>6 DEF RowsBelong, TotalIsTrue, listed, Places, Offset
<1>8. QED
  BY <1>4, <1>5, <1>7 DEF ReadingInv

LEMMA CountRowsKeepsReading ==
  ASSUME ReadingInv, CountRows, UNCHANGED vars
  PROVE  ReadingInv'
<1> DEFINE listed == Selected(reading.queue, reading.clock)
           n == Cardinality(listed)
           read == Cardinality(reading.ids)
<1>1. ReadingOK /\ RowsBelong /\ reading.phase = "read" /\ reading.fits
  BY DEF ReadingInv, CountRows
<1>2. n \in Nat /\ read \in Nat
  <2>1. reading.ids \in SUBSET BookingId
    BY <1>1 DEF ReadingOK
  <2>2. QED
    BY <2>1, QueuesAreFinite, QueueAssumption, FS_Subset, FS_CardinalityType
<1>3. reading.page \in Nat \ {0} /\ QueueSize \in Nat \ {0}
  BY <1>1, QueueAssumption DEF ReadingOK
<1>4. /\ Offset(reading.page) \in Nat
      /\ reading.page = 1 => Offset(reading.page) = 0
      /\ Cardinality(Places(reading.page, n)) =
           IF Offset(reading.page) >= n THEN 0
           ELSE IF n - Offset(reading.page) < QueueSize THEN n - Offset(reading.page)
           ELSE QueueSize
  BY <1>2, <1>3, PlacesAreCounted
<1>5. reading.steady => read = Cardinality(Places(reading.page, n))
  BY <1>1 DEF RowsBelong
<1>6. PICK total : /\ reading' = [reading EXCEPT !.phase = "answered", !.total = total]
                   /\ \/ total = n
                      \/ /\ read < QueueSize /\ (read > 0 \/ reading.page = 1)
                         /\ total = Offset(reading.page) + read
  BY DEF CountRows
<1>7. listed' = listed
  <2>1. reading'.queue = reading.queue /\ reading'.clock = reading.clock
    BY <1>1, <1>6 DEF ReadingOK
  <2>2. QED
    BY <2>1 DEF vars, tables, Selected, PendingForStaff, OperationsForStaff
<1> HIDE DEF n, read
<1>8. total \in Nat /\ (reading.steady => total = n)
  BY <1>2, <1>3, <1>4, <1>5, <1>6
<1> HIDE DEF listed
<1>9. /\ reading'.phase = "answered" /\ reading'.page = reading.page
      /\ reading'.ids = reading.ids /\ reading'.fits /\ reading'.steady = reading.steady
      /\ reading'.total = total
  BY <1>1, <1>6 DEF ReadingOK
<1>10. ReadingOK'
  BY <1>1, <1>6, <1>8 DEF ReadingOK
<1>11. RowsBelong' /\ TotalIsTrue'
  BY <1>1, <1>7, <1>8, <1>9 DEF RowsBelong, TotalIsTrue, listed, n, Places, Offset
<1>12. QED
  BY <1>9, <1>10, <1>11 DEF ReadingInv

LEMMA StepKeepsReading ==
  IInv /\ SlotsAreOrdered /\ ReadingInv /\ [QueueNext]_QueueVars => ReadingInv'
<1> SUFFICES ASSUME IInv, SlotsAreOrdered, ReadingInv, [QueueNext]_QueueVars
             PROVE  ReadingInv'
  OBVIOUS
<1>1. CASE reading' = [reading EXCEPT !.steady = @ /\ Unmoved]
  BY <1>1, OthersKeepReading
<1>2. CASE UNCHANGED <<vars, reading>>
  BY <1>2 DEF vars, tables, ReadingInv, ReadingOK, RowsBelong, TotalIsTrue, Selected,
              PendingForStaff, OperationsForStaff, Places, Offset
<1>3. CASE (\E queue \in Queues, page \in QueuePages : Ask(queue, page))
  BY <1>3, AskKeepsReading DEF IInv
<1>4. CASE (FindIds \/ ReadRows \/ CountRows) /\ UNCHANGED vars
  BY <1>4, FindIdsKeepsReading, ReadRowsKeepsReading, CountRowsKeepsReading
<1>5. QED
  BY <1>1, <1>2, <1>3, <1>4, QueueStep

\* The student's timeline never turns into an error page, and the pending queue
\* selects exactly what staff can still review; no item of a staff queue is
\* refused, and a page whose queue stays the same while its ids, its rows and
\* its total are read has the true total and is accepted (findForStudent,
\* findPendingForStaff, findOperationsForStaff and the parsers of the browser).
THEOREM ListsReadable == QueueSpec => []ListsAreReadable
<1>1. QueueInit => ReadingInv
  BY ReadingStarts
<1>2. IInv /\ SlotsAreOrdered /\ ReadingInv /\ [QueueNext]_QueueVars => ReadingInv'
  BY StepKeepsReading
<1>3. IInv /\ SlotsAreOrdered /\ ReadingInv => ListsAreReadable
  <2> SUFFICES ASSUME IInv, SlotsAreOrdered, ReadingInv
               PROVE  ListsAreReadable
    OBVIOUS
  <2>1. ASSUME NEW clock \in Instants
        PROVE  /\ ParsesTimeline(Timeline(clock).upcoming, Timeline(clock).history)
               /\ PendingForStaff(clock) = {b \in BookingId : CanReview(bookings[b], clock)}
    BY TimelineParses, PendingIsReviewable DEF IInv
  <2>2. ASSUME reading.phase = "answered", reading.steady
        PROVE  ParsesStaffQueuePage(reading.page, reading.total, Cardinality(reading.ids))
    <3>1. reading.page \in Nat \ {0} /\ reading.total \in Nat
      BY DEF ReadingInv, ReadingOK
    <3>2. Cardinality(reading.ids) = Cardinality(Places(reading.page, reading.total))
      BY <2>2 DEF ReadingInv, RowsBelong, TotalIsTrue
    <3>3. QED
      BY <3>1, <3>2, PlacesAreCounted DEF ParsesStaffQueuePage
  <2>3. QED
    BY <2>1, <2>2 DEF ListsAreReadable, ReadingInv, TotalIsTrue
<1>4. QED
  BY <1>1, <1>2, <1>3, QueueBehaves, InvariantHolds, OrderHolds, PTL DEF QueueSpec

\* From the check-in window of a booking on, its date is today or past, but
\* for a booking that starts at midnight, whose window opens the day before.
LEMMA WindowIsOnTheDate ==
  ASSUME NEW s \in Slot, NEW clock \in Nat, clock >= SlotStart(s) - CheckInLead
  PROVE  s.date <= CampusDateOf(clock) \/ (s.startTime = 0 /\ clock < SlotStart(s))
<1>1. s.date \in Nat /\ s.startTime \in Nat /\ s.startTime % 60 = 0
  BY SlotAssumption
<1>2. SlotStart(s) = 86400 * s.date + 60 * s.startTime - 25200
  BY <1>1 DEF SlotStart, CampusDateTime, SecondsPerDay, CampusOffset
<1>3. s.startTime = 0 \/ s.startTime >= 60
  BY <1>1
<1>4. /\ CampusDateOf(clock) \in Int /\ SecondOfDay(clock) \in Nat
      /\ SecondOfDay(clock) < 86400
      /\ clock + 25200 = 86400 * CampusDateOf(clock) + SecondOfDay(clock)
  BY DateSplitsInstant
<1>5. clock >= 86400 * s.date + 60 * s.startTime - 25200 - 900
  BY <1>1, <1>2 DEF CheckInLead
<1>6. QED
  BY <1>1, <1>2, <1>3, <1>4, <1>5

\* A timestamp column holds an instant or no value.
LEMMA TimesAreIntegers == \A t \in Time : t \in Int
<1>1. Never \in Int
  BY DEF Never
<1>2. \A t \in Instants : t \in Int
  BY InstantsAssumption
<1>3. QED
  BY <1>1, <1>2 DEF Time

\* Whatever staff can act on is on the operations list, which selects by date
\* and status only (findOperationsForStaff), and its parser accepts the item.
THEOREM OperationsListed == Spec => []OperationsAreListed
<1>1. IInv /\ SlotsAreOrdered => OperationsAreListed
  <2> SUFFICES ASSUME IInv, SlotsAreOrdered, NEW b \in BookingId,
                      \/ OffersCheckIn(bookings[b], now)
                      \/ CanCheckOut(bookings[b])
                      \/ CanMarkNoShow(bookings[b], now)
               PROVE  \/ /\ b \in OperationsForStaff(now)
                         /\ ParsesOperationsItem(StaffView(bookings[b], now), CampusDateOf(now))
                      \/ bookings[b].slot.startTime = 0 /\ now < SlotStart(bookings[b].slot)
    BY DEF OperationsAreListed
  <2>1. bookings[b] \in BookingRow /\ now \in Nat
    BY InstantsAssumption DEF IInv, TypeInv, TypeOK
  <2>2. bookings[b].status \in {"confirmed", "checked_in"}
    BY DEF OffersCheckIn, CanCheckOut, CanMarkNoShow
  <2>3. RowChecks(bookings[b]) /\ Ordered(bookings[b].slot) /\ Stamped(bookings[b])
    BY <2>2 DEF IInv, TablesAreSafe, ChecksHold, StampsArePast, SlotsAreOrdered, Exists
  <2>4. /\ SlotStart(bookings[b].slot) \in Int /\ SlotEnd(bookings[b].slot) \in Int
        /\ SlotStart(bookings[b].slot) < SlotEnd(bookings[b].slot)
    BY <2>1, <2>3, SlotShape
  <2>5. now >= SlotStart(bookings[b].slot) - CheckInLead
    <3>1. CASE OffersCheckIn(bookings[b], now)
      BY <3>1 DEF OffersCheckIn, IsWithinCheckInWindow
    <3>2. CASE CanMarkNoShow(bookings[b], now)
      BY <2>1, <2>4, <3>2 DEF CanMarkNoShow, CheckInLead
    <3>3. CASE CanCheckOut(bookings[b])
      <4>1. bookings[b].checkedInAt # Never /\ bookings[b].checkedInAt <= now
        BY <2>3, <3>3 DEF CanCheckOut, RowChecks, CheckedInStateCheck, Stamped
      <4>2. bookings[b].checkedInAt >= SlotStart(bookings[b].slot) - CheckInLead
        BY <2>3, <4>1 DEF RowChecks, CheckInTimelineCheck, IsWithinCheckInWindow
      <4>3. bookings[b].checkedInAt \in Int
        <5>1. bookings[b].checkedInAt \in Time
          BY <2>1 DEF BookingRow
        <5>2. QED
          BY <5>1, TimesAreIntegers
      <4>4. QED
        BY <2>1, <2>4, <4>1, <4>2, <4>3 DEF CheckInLead
    <3>4. QED
      BY <3>1, <3>2, <3>3
  <2>6. bookings[b].slot \in Slot
    BY <2>1 DEF BookingRow
  <2>7. \/ bookings[b].slot.date <= CampusDateOf(now)
        \/ bookings[b].slot.startTime = 0 /\ now < SlotStart(bookings[b].slot)
    BY <2>1, <2>5, <2>6, WindowIsOnTheDate
  <2>8. ASSUME bookings[b].slot.date <= CampusDateOf(now)
        PROVE  ParsesOperationsItem(StaffView(bookings[b], now), CampusDateOf(now))
    <3>1. ParsesStaff(StaffView(bookings[b], now))
      BY <2>1, <2>2, <2>3, StaffReads
    <3>2. /\ StaffView(bookings[b], now).status = bookings[b].status
          /\ StaffView(bookings[b], now).date = bookings[b].slot.date
      BY DEF StaffView
    <3>3. QED
      BY <2>2, <2>8, <3>1, <3>2 DEF ParsesOperationsItem
  <2>9. QED
    BY <2>2, <2>7, <2>8 DEF OperationsForStaff
<1>2. QED
  BY <1>1, InvariantHolds, OrderHolds, PTL

----------------------------------------------------------------------------
(* Availability.                                                           *)

LEMMA HourShape ==
  ASSUME NEW h \in Hour
  PROVE  h \in Nat /\ h % 60 = 0 /\ h <= 1380
BY DEF Hour

LEMMA HourOf ==
  ASSUME NEW h \in Nat, h % 60 = 0, h <= 1380
  PROVE  h \in Hour
<1>1. h \div 60 \in 0 .. 23 /\ h = (h \div 60) * 60
  OBVIOUS
<1>2. QED
  BY <1>1 DEF Hour

LEMMA DatesAreNat == Dates \subseteq Nat
<1>1. \A s \in Slot : s.date \in Nat
  BY SlotAssumption
<1>2. QED
  BY <1>1, ClosureDateAssumption DEF Dates

\* A set of natural numbers has a least element: what is proved below for every
\* hour or every set of rows is proved by contradiction from a least exception.
LEMMA LeastNatural ==
  ASSUME NEW T \in SUBSET Nat, T # {}
  PROVE  \E n \in T : \A m \in T : n <= m
<1> DEFINE R == OpToRel(<, Nat)
<1>1. IsWellFoundedOn(R, Nat)
  BY NatLessThanWellFounded
<1>2. ASSUME NEW m \in Nat, NEW n \in Nat, <<m, n>> \notin R
      PROVE  n <= m
  BY <1>2 DEF OpToRel
<1> HIDE DEF R
<1>3. PICK n \in T : \A m \in T : <<m, n>> \notin R
  BY <1>1, WFMin
<1>4. \A m \in T : n <= m
  BY <1>2, <1>3
<1>5. QED
  BY <1>4

\* What the endpoint calls free is what the exclusion constraint lets in.
LEMMA FreeIsUncontested ==
  ASSUME TypeInv, NEW r \in Resource, NEW i
  PROVE  IsFree(Snapshot(r, i.date), i) <=> Conflicts(r, i) = {}
<1>1. Snapshot(r, i.date).taken =
        {bookings[b].slot : b \in {c \in BookingId :
           /\ bookings[c].status \in {"pending", "confirmed", "checked_in"}
           /\ bookings[c].resource = r
           /\ bookings[c].slot.date = i.date}}
  BY DEF Snapshot, Availability, BookingsOf, BlockingStatuses, ReviewableStatuses
<1>2. ASSUME NEW b \in BookingId
      PROVE  /\ bookings[b].slot.startTime \in Int /\ bookings[b].slot.endTime \in Int
  BY SlotAssumption DEF TypeInv, TypeOK, BookingRow
<1>3. (\E taken \in Snapshot(r, i.date).taken :
         taken.startTime < i.endTime /\ taken.endTime > i.startTime)
      <=> \E b \in BookingId :
            /\ bookings[b].status \in {"pending", "confirmed", "checked_in"}
            /\ bookings[b].resource = r
            /\ bookings[b].slot.date = i.date
            /\ bookings[b].slot.startTime < i.endTime
            /\ bookings[b].slot.endTime > i.startTime
  BY <1>1
<1>4. QED
  BY <1>3 DEF IsFree, Conflicts, ExclusionStatuses, Overlap

\* An hour is offered exactly when create would accept it
\* (ResourceAvailabilityResponseDto.fromResource against create).
LEMMA OfferedIsAccepted ==
  ASSUME IInv, NEW r \in Resource, NEW date \in Dates, NEW clock \in Instants,
         NEW h \in Hour
  PROVE  HourFrom(date, h) \in AvailabilityOf(r, date, clock).slots
           <=> CreateAccepts(r, HourFrom(date, h), clock)
<1> DEFINE row  == resources[r]
           snap == Snapshot(r, date)
           i    == HourFrom(date, h)
<1>1. /\ row.opensAt \in Hour /\ row.closesAt \in Hour
      /\ row.status \in {"active", "maintenance", "inactive"}
  BY DEF IInv, TypeInv, TypeOK, ResourceRow, ResourceStatus
<1>2. /\ i.date = date /\ i.startTime = h /\ i.endTime = h + 60
      /\ snap.row = row /\ snap.closed = IsClosedOn(r, date)
  BY DEF HourFrom, Snapshot, Availability
<1>3. h \in Nat /\ h % 60 = 0 /\ row.closesAt \in Nat /\ row.closesAt % 60 = 0
      /\ row.opensAt \in Nat
  BY <1>1, HourShape
<1>4. h < row.closesAt <=> h + 60 <= row.closesAt
  BY <1>3
<1>5. i \in HourlySlots(row, date) <=> row.opensAt <= h /\ h < row.closesAt
  <2>1. ASSUME NEW k \in Hour, HourFrom(date, k) = i
        PROVE  k = h
    <3>1. HourFrom(date, k).startTime = k
      BY DEF HourFrom
    <3>2. QED
      BY <1>2, <2>1, <3>1
  <2>2. QED
    BY <2>1 DEF HourlySlots
<1>6. BlockedReason(snap, date) = "none"
        <=> /\ row.status = "active" /\ ~IsClosedOn(r, date)
            /\ WeekdayOf(date) \in row.operatingDays
  BY <1>1, <1>2 DEF BlockedReason
<1>7. IsFree(snap, i) <=> Conflicts(r, i) = {}
  BY <1>2, FreeIsUncontested DEF IInv
<1>8. i \in AvailabilityOf(r, date, clock).slots
        <=> /\ i \in HourlySlots(row, date)
            /\ BlockedReason(snap, date) = "none"
            /\ IsFutureCampusTime(date, h, clock)
            /\ IsFree(snap, i)
  BY <1>2 DEF AvailabilityOf, AvailabilityView
<1>9. CreateAccepts(r, i, clock)
        <=> /\ IsFutureCampusTime(date, h, clock)
            /\ row.status = "active" /\ WeekdayOf(date) \in row.operatingDays
            /\ h >= row.opensAt /\ h + 60 <= row.closesAt
            /\ ~IsClosedOn(r, date)
            /\ Conflicts(r, i) = {}
  BY <1>2, <1>3 DEF CreateAccepts, IsOperational, WithinSchedule
<1>10. h >= row.opensAt <=> row.opensAt <= h
  BY <1>3
<1>11. QED
  BY <1>4, <1>5, <1>6, <1>7, <1>8, <1>9, <1>10

\* Nothing else is offered.
LEMMA OfferedIsHour ==
  ASSUME NEW r \in Resource, NEW date, NEW clock, NEW s \in AvailabilityOf(r, date, clock).slots
  PROVE  \E h \in Hour : s = HourFrom(date, h)
BY DEF AvailabilityOf, AvailabilityView, HourlySlots

\* Walking back from the end of an interval over adjacent free hours meets
\* every hour of it, so no gap hides between them.
LEMMA GapsAreVisible ==
  ASSUME NEW free \in SUBSET Hour, NEW from \in Hour, NEW to \in Hour,
         to - 60 \in free,
         \A h \in free : from < h /\ h < to => h - 60 \in free
  PROVE  \A h \in Hour : from <= h /\ h < to => h \in free
<1> DEFINE gaps == {n \in Nat : \E h \in Hour : /\ from <= h /\ h < to
                                               /\ h \notin free /\ n = to - h}
<1>1. from \in Nat /\ to \in Nat /\ from % 60 = 0 /\ to % 60 = 0 /\ to <= 1380
  BY HourShape
<1>2. ASSUME gaps # {}
      PROVE  FALSE
  <2>1. PICK n \in gaps : \A m \in gaps : n <= m
    BY <1>2, LeastNatural
  <2>2. PICK h \in Hour : from <= h /\ h < to /\ h \notin free /\ n = to - h
    BY <2>1
  <2>3. h \in Nat /\ h % 60 = 0
    BY HourShape
  <2>4. h + 60 \in Hour /\ h + 60 < to
    <3>1. h # to - 60
      BY <2>2
    <3>2. h + 60 < to
      BY <1>1, <2>2, <2>3, <3>1
    <3>3. h + 60 \in Nat /\ (h + 60) % 60 = 0 /\ h + 60 <= 1380
      BY <1>1, <2>3, <3>2
    <3>4. QED
      BY <3>2, <3>3, HourOf
  <2>5. h + 60 \in free
    <3>1. ASSUME h + 60 \notin free
          PROVE  FALSE
      <4>1. to - (h + 60) \in Nat
        BY <1>1, <2>3, <2>4
      <4>2. from <= h + 60
        BY <1>1, <2>2, <2>3
      <4>3. to - (h + 60) \in gaps
        BY <2>4, <3>1, <4>1, <4>2
      <4>4. n <= to - (h + 60)
        BY <2>1, <4>3
      <4>5. QED
        BY <1>1, <2>2, <2>3, <4>4
    <3>2. QED
      BY <3>1
  <2>6. from < h + 60 /\ (h + 60) - 60 = h
    BY <1>1, <2>2, <2>3
  <2>7. (h + 60) - 60 \in free
    BY <2>4, <2>5, <2>6
  <2>8. QED
    BY <2>2, <2>6, <2>7
<1>3. ASSUME NEW h \in Hour, from <= h, h < to, h \notin free
      PROVE  FALSE
  <2>1. h \in Nat
    BY HourShape
  <2>2. to - h \in Nat
    BY <1>1, <1>3, <2>1
  <2>3. to - h \in gaps
    BY <1>3, <2>2
  <2>4. QED
    BY <1>2, <2>3
<1>4. QED
  BY <1>3

\* What the browser's selection of an interval says, in terms of the hours on
\* offer (resolveSlotSelection).
LEMMA SelectionByHours ==
  ASSUME IInv, NEW r \in Resource, NEW i \in Asked, i.startTime < i.endTime,
         NEW clock \in Instants
  PROVE  LET v    == AvailabilityOf(r, i.date, clock)
             free == {h \in Hour : HourFrom(i.date, h) \in v.slots}
         IN  SelectsAvailable(v, i)
               <=> /\ resources[r].opensAt <= i.startTime
                   /\ i.endTime <= resources[r].closesAt
                   /\ \A h \in Hour : i.startTime <= h /\ h < i.endTime => h \in free
<1> DEFINE v       == AvailabilityOf(r, i.date, clock)
           free    == {h \in Hour : HourFrom(i.date, h) \in v.slots}
           from    == i.startTime
           to      == i.endTime
           covered == {s \in v.slots : s.startTime >= from /\ s.endTime <= to}
<1>1. /\ i.date \in Dates /\ from \in Hour /\ to \in Hour
      /\ from \in Nat /\ from % 60 = 0 /\ to \in Nat /\ to % 60 = 0
      /\ to <= 1380 /\ from < to
  BY AskedAssumption, HourShape
<1>2. v.opensAt = resources[r].opensAt /\ v.closesAt = resources[r].closesAt
  BY DEF AvailabilityOf, AvailabilityView, Snapshot, Availability
<1>3. \A h \in Hour : h \in Nat /\ h % 60 = 0
  BY HourShape
<1>4. \A s \in covered : \E h \in free : /\ s = HourFrom(i.date, h)
                                        /\ s.startTime = h /\ s.endTime = h + 60
                                        /\ from <= h /\ h + 60 <= to
  <2>1. SUFFICES ASSUME NEW s \in covered
                 PROVE  \E h \in free : /\ s = HourFrom(i.date, h)
                                        /\ s.startTime = h /\ s.endTime = h + 60
                                        /\ from <= h /\ h + 60 <= to
    OBVIOUS
  <2>2. PICK h \in Hour : s = HourFrom(i.date, h)
    BY OfferedIsHour
  <2>3. s.startTime = h /\ s.endTime = h + 60
    BY <2>2 DEF HourFrom
  <2>4. QED
    BY <1>1, <1>3, <2>2, <2>3
<1>5. \A h \in free : from <= h /\ h + 60 <= to =>
        /\ HourFrom(i.date, h) \in covered
        /\ HourFrom(i.date, h).startTime = h /\ HourFrom(i.date, h).endTime = h + 60
  BY <1>1, <1>3 DEF HourFrom
<1>6. free \in SUBSET Hour
  OBVIOUS
<1>7. SelectsAvailable(v, i)
        <=> /\ resources[r].opensAt <= from /\ to <= resources[r].closesAt
            /\ \E s \in covered : s.startTime = from
            /\ \E s \in covered : s.endTime = to
            /\ \A s \in covered : \/ s.startTime = from
                                  \/ \E u \in covered : u.endTime = s.startTime
  BY <1>2 DEF SelectsAvailable
<1> HIDE DEF v, free, covered, from, to
<1>8. ASSUME /\ \E s \in covered : s.startTime = from
             /\ \E s \in covered : s.endTime = to
             /\ \A s \in covered : \/ s.startTime = from
                                   \/ \E u \in covered : u.endTime = s.startTime
      PROVE  \A h \in Hour : from <= h /\ h < to => h \in free
  <2>1. to - 60 \in free
    <3>1. PICK h \in free : h + 60 = to
      BY <1>4, <1>8
    <3>2. h = to - 60
      BY <1>1, <1>3, <1>6, <3>1
    <3>3. QED
      BY <3>1, <3>2
  <2>2. ASSUME NEW h \in free, from < h, h < to
        PROVE  h - 60 \in free
    <3>1. h \in Nat /\ h % 60 = 0 /\ h + 60 <= to
      BY <1>1, <1>3, <1>6, <2>2
    <3>2. /\ HourFrom(i.date, h) \in covered
          /\ HourFrom(i.date, h).startTime = h
      BY <1>1, <1>5, <2>2, <3>1
    <3>3. PICK u \in covered : u.endTime = h
      BY <1>1, <1>8, <2>2, <3>1, <3>2
    <3>4. PICK k \in free : u.endTime = k + 60
      BY <1>4
    <3>5. k = h - 60
      BY <1>3, <1>6, <3>1, <3>3, <3>4
    <3>6. QED
      BY <3>4, <3>5
  <2>3. QED
    BY <1>1, <1>6, <2>1, <2>2, GapsAreVisible
<1>9. ASSUME \A h \in Hour : from <= h /\ h < to => h \in free
      PROVE  /\ \E s \in covered : s.startTime = from
             /\ \E s \in covered : s.endTime = to
             /\ \A s \in covered : \/ s.startTime = from
                                   \/ \E u \in covered : u.endTime = s.startTime
  <2>1. \E s \in covered : s.startTime = from
    <3>1. from \in free /\ from + 60 <= to
      BY <1>1, <1>9
    <3>2. QED
      BY <1>1, <1>5, <3>1
  <2>2. \E s \in covered : s.endTime = to
    <3>1. to - 60 \in Nat /\ (to - 60) % 60 = 0 /\ to - 60 <= 1380
          /\ from <= to - 60 /\ to - 60 < to /\ (to - 60) + 60 = to
      BY <1>1
    <3>2. to - 60 \in free
      BY <1>9, <3>1, HourOf
    <3>3. QED
      BY <1>1, <1>5, <3>1, <3>2
  <2>3. ASSUME NEW s \in covered, s.startTime # from
        PROVE  \E u \in covered : u.endTime = s.startTime
    <3>1. PICK h \in free : s.startTime = h /\ from <= h /\ h + 60 <= to
      BY <1>4
    <3>2. h - 60 \in Nat /\ (h - 60) % 60 = 0 /\ h - 60 <= 1380
          /\ from <= h - 60 /\ h - 60 < to /\ (h - 60) + 60 = h /\ h <= to
      BY <1>1, <1>3, <1>6, <2>3, <3>1
    <3>3. h - 60 \in free
      BY <1>9, <3>2, HourOf
    <3>4. QED
      BY <1>5, <3>1, <3>2, <3>3
  <2>4. QED
    BY <2>1, <2>2, <2>3
<1>10. SelectsAvailable(v, i)
         <=> /\ resources[r].opensAt <= from /\ to <= resources[r].closesAt
             /\ \A h \in Hour : from <= h /\ h < to => h \in free
  BY <1>7, <1>8, <1>9
<1>11. QED
  BY <1>10 DEF v, free, from, to

\* create accepts an interval inside the opening hours exactly when it would
\* accept each of its hours: a booking that overlaps the interval overlaps an
\* hour of it, because bookings start and end on the hour.
LEMMA AcceptedByHours ==
  ASSUME IInv, SlotsAreOrdered, NEW r \in Resource, NEW i \in Asked,
         i.startTime < i.endTime, NEW clock \in Instants
  PROVE  CreateAccepts(r, i, clock)
           <=> /\ resources[r].opensAt <= i.startTime
               /\ i.endTime <= resources[r].closesAt
               /\ \A h \in Hour : i.startTime <= h /\ h < i.endTime =>
                    CreateAccepts(r, HourFrom(i.date, h), clock)
<1> DEFINE from == i.startTime
           to   == i.endTime
           row  == resources[r]
<1>1. /\ i.date \in Nat /\ from \in Hour /\ to \in Hour
      /\ from \in Nat /\ from % 60 = 0 /\ to \in Nat /\ to % 60 = 0
      /\ to <= 1380 /\ from < to
  <2>1. i.date \in Dates /\ from \in Hour /\ to \in Hour
    BY AskedAssumption
  <2>2. i.date \in Nat
    BY <2>1, DatesAreNat
  <2>3. from \in Nat /\ from % 60 = 0 /\ to \in Nat /\ to % 60 = 0 /\ to <= 1380
    BY <2>1, HourShape
  <2>4. QED
    BY <2>1, <2>2, <2>3
<1>2. \A h \in Hour : h \in Nat /\ h % 60 = 0
  BY HourShape
<1>3. row.opensAt \in Nat /\ row.closesAt \in Nat
  BY HourShape DEF IInv, TypeInv, TypeOK, ResourceRow
<1>4. \A h : /\ HourFrom(i.date, h).date = i.date
             /\ HourFrom(i.date, h).startTime = h
             /\ HourFrom(i.date, h).endTime = h + 60
  BY DEF HourFrom
<1>5. ASSUME NEW b \in BookingId, bookings[b].status \in ExclusionStatuses
      PROVE  /\ bookings[b].slot.startTime \in Hour
             /\ bookings[b].slot.startTime \in Nat /\ bookings[b].slot.endTime \in Nat
             /\ bookings[b].slot.startTime < bookings[b].slot.endTime
  <2>1. bookings[b].slot \in Slot
    BY DEF IInv, TypeInv, TypeOK, BookingRow
  <2>2. /\ bookings[b].slot.startTime \in Nat /\ bookings[b].slot.endTime \in Nat
        /\ bookings[b].slot.startTime % 60 = 0 /\ bookings[b].slot.startTime <= 1380
    BY <2>1, SlotAssumption
  <2>3. bookings[b].slot.startTime \in Hour
    BY <2>2, HourOf
  <2>4. bookings[b].slot.startTime < bookings[b].slot.endTime
    BY <1>5 DEF SlotsAreOrdered, Exists, Ordered, ExclusionStatuses
  <2>5. QED
    BY <2>2, <2>3, <2>4
<1>6. ASSUME CreateAccepts(r, i, clock)
      PROVE  /\ row.opensAt <= from /\ to <= row.closesAt
             /\ \A h \in Hour : from <= h /\ h < to =>
                  CreateAccepts(r, HourFrom(i.date, h), clock)
  <2>1. /\ IsFutureCampusTime(i.date, from, clock)
        /\ row.status = "active" /\ WeekdayOf(i.date) \in row.operatingDays
        /\ from >= row.opensAt /\ to <= row.closesAt
        /\ ~IsClosedOn(r, i.date) /\ Conflicts(r, i) = {}
    BY <1>6 DEF CreateAccepts, IsOperational, WithinSchedule
  <2>2. ASSUME NEW h \in Hour, from <= h, h < to
        PROVE  CreateAccepts(r, HourFrom(i.date, h), clock)
    <3>1. h \in Nat /\ h + 60 <= to
      BY <1>1, <1>2, <2>2
    <3>2. IsFutureCampusTime(i.date, h, clock)
      BY <1>1, <2>1, <2>2, <3>1, InstantsAssumption
         DEF IsFutureCampusTime, CampusDateTime, SecondsPerDay, CampusOffset
    <3>3. h >= row.opensAt /\ h + 60 <= row.closesAt
      BY <1>1, <1>3, <2>1, <2>2, <3>1
    <3>4. Conflicts(r, HourFrom(i.date, h)) = {}
      <4>1. ASSUME NEW b \in BookingId, bookings[b].status \in ExclusionStatuses,
                   Overlap(bookings[b].slot, HourFrom(i.date, h))
            PROVE  Overlap(bookings[b].slot, i)
        <5>1. /\ bookings[b].slot.date = i.date
              /\ bookings[b].slot.startTime < h + 60
              /\ h < bookings[b].slot.endTime
          BY <1>4, <4>1 DEF Overlap
        <5>2. bookings[b].slot.startTime < to /\ from < bookings[b].slot.endTime
          BY <1>1, <1>5, <2>2, <3>1, <4>1, <5>1
        <5>3. QED
          BY <5>1, <5>2 DEF Overlap
      <4>2. QED
        BY <2>1, <4>1 DEF Conflicts
    <3>5. h < h + 60
      BY <3>1
    <3>6. QED
      BY <1>4, <2>1, <3>2, <3>3, <3>4, <3>5 DEF CreateAccepts, IsOperational, WithinSchedule
  <2>3. row.opensAt <= from
    BY <1>1, <1>3, <2>1
  <2>4. QED
    BY <2>1, <2>2, <2>3
<1>7. ASSUME row.opensAt <= from, to <= row.closesAt,
             \A h \in Hour : from <= h /\ h < to =>
               CreateAccepts(r, HourFrom(i.date, h), clock)
      PROVE  CreateAccepts(r, i, clock)
  <2>1. CreateAccepts(r, HourFrom(i.date, from), clock)
    BY <1>1, <1>7
  <2>2. /\ IsFutureCampusTime(i.date, from, clock)
        /\ row.status = "active" /\ WeekdayOf(i.date) \in row.operatingDays
        /\ ~IsClosedOn(r, i.date)
    BY <1>4, <2>1 DEF CreateAccepts, IsOperational, WithinSchedule
  <2>3. ASSUME NEW b \in Conflicts(r, i)
        PROVE  FALSE
    <3>1. /\ b \in BookingId /\ bookings[b].status \in ExclusionStatuses
          /\ bookings[b].resource = r /\ bookings[b].slot.date = i.date
          /\ bookings[b].slot.startTime < to /\ from < bookings[b].slot.endTime
      BY DEF Conflicts, Overlap
    <3>2. CASE bookings[b].slot.startTime <= from
      <4>1. bookings[b].slot.startTime < from + 60
        BY <1>1, <1>5, <3>1, <3>2
      <4>2. b \in Conflicts(r, HourFrom(i.date, from))
        BY <1>4, <3>1, <4>1 DEF Conflicts, Overlap
      <4>3. QED
        BY <2>1, <4>2 DEF CreateAccepts
    <3>3. CASE from < bookings[b].slot.startTime
      <4> DEFINE h == bookings[b].slot.startTime
      <4>1. h \in Hour /\ from <= h /\ h < to /\ h < h + 60 /\ h < bookings[b].slot.endTime
        BY <1>1, <1>5, <3>1, <3>3
      <4>2. b \in Conflicts(r, HourFrom(i.date, h))
        BY <1>4, <3>1, <4>1 DEF Conflicts, Overlap
      <4>3. CreateAccepts(r, HourFrom(i.date, h), clock)
        BY <1>7, <4>1
      <4>4. QED
        BY <4>2, <4>3 DEF CreateAccepts
    <3>4. QED
      BY <1>1, <1>5, <3>1, <3>2, <3>3
  <2>4. from >= row.opensAt
    BY <1>1, <1>3, <1>7
  <2>5. QED
    BY <1>1, <1>7, <2>2, <2>3, <2>4 DEF CreateAccepts, IsOperational, WithinSchedule
<1>8. QED
  BY <1>6, <1>7

LEMMA SelectedIsAccepted ==
  ASSUME IInv, SlotsAreOrdered, NEW r \in Resource, NEW i \in Asked,
         i.startTime < i.endTime, NEW clock \in Instants
  PROVE  SelectsAvailable(AvailabilityOf(r, i.date, clock), i) <=> CreateAccepts(r, i, clock)
<1>1. i.date \in Dates
  BY AskedAssumption
<1>2. \A h \in Hour :
        HourFrom(i.date, h) \in AvailabilityOf(r, i.date, clock).slots
          <=> CreateAccepts(r, HourFrom(i.date, h), clock)
  BY <1>1, OfferedIsAccepted
<1>3. SelectsAvailable(AvailabilityOf(r, i.date, clock), i)
        <=> /\ resources[r].opensAt <= i.startTime
            /\ i.endTime <= resources[r].closesAt
            /\ \A h \in Hour : i.startTime <= h /\ h < i.endTime =>
                 HourFrom(i.date, h) \in AvailabilityOf(r, i.date, clock).slots
  BY SelectionByHours
<1>4. QED
  BY <1>2, <1>3, AcceptedByHours

\* For every set of bookings, schedule, closures and readings of the clock, the
\* page of a resource offers what create accepts, hour by hour and interval by
\* interval.
THEOREM OffersAreExact == Spec => []SlotsMatchCreate
<1>1. IInv /\ SlotsAreOrdered => SlotsMatchCreate
  BY OfferedIsAccepted, SelectedIsAccepted DEF SlotsMatchCreate
<1>2. QED
  BY <1>1, InvariantHolds, OrderHolds, PTL

\* The directory, which decides in SQL, finds the resources whose page, which
\* decides in the browser, calls the interval available.
THEOREM DirectoryIsExact == Spec => []DirectoryMatchesPages
<1>1. IInv /\ SlotsAreOrdered => DirectoryMatchesPages
  <2> SUFFICES ASSUME IInv, SlotsAreOrdered, NEW clock \in Instants, NEW i \in Asked,
                      NEW starts \in SUBSET {i.startTime}
               PROVE  LET found == SearchedIntervals([date |-> {i.date},
                                     startTime |-> starts, endTime |-> {i.endTime}])
                      IN  Discover(found, clock) =
                            {r \in Resource :
                               /\ HasPage(r)
                               /\ starts # {} /\ i.startTime < i.endTime =>
                                    SelectsAvailable(AvailabilityOf(r, i.date, clock), i)}
    BY DEF DirectoryMatchesPages
  <2> DEFINE found == SearchedIntervals([date |-> {i.date}, startTime |-> starts,
                                         endTime |-> {i.endTime}])
  <2>1. i \in [date : Dates, startTime : Hour, endTime : Hour]
    BY AskedAssumption
  <2>2. found = IF starts # {} /\ i.startTime < i.endTime THEN {i} ELSE {}
    <3>1. found = {j \in [date : {i.date}, startTime : starts, endTime : {i.endTime}] :
                     j.startTime < j.endTime}
      BY DEF SearchedIntervals
    <3>2. \A j \in [date : {i.date}, startTime : starts, endTime : {i.endTime}] : j = i
      BY <2>1
    <3>3. starts # {} => i \in [date : {i.date}, startTime : starts, endTime : {i.endTime}]
      BY <2>1
    <3>4. starts = {} => [date : {i.date}, startTime : starts, endTime : {i.endTime}] = {}
      OBVIOUS
    <3>5. QED
      BY <3>1, <3>2, <3>3, <3>4
  <2>3. ASSUME NEW r \in Resource, resources[r].status = "active"
        PROVE  i.startTime < i.endTime =>
                 (/\ IsFutureCampusTime(i.date, i.startTime, clock)
                  /\ MatchesInterval(r, i)
                  <=> CreateAccepts(r, i, clock))
    <3>1. {b \in BookingsOf(r) : /\ bookings[b].status \in BlockingStatuses
                                 /\ Overlap(bookings[b].slot, i)} = Conflicts(r, i)
      BY DEF BookingsOf, Conflicts, BlockingStatuses, ReviewableStatuses, ExclusionStatuses
    <3>2. QED
      BY <2>3, <3>1 DEF MatchesInterval, CreateAccepts, IsOperational
  <2>4. CASE starts # {} /\ i.startTime < i.endTime
    <3>1. Discover(found, clock) =
            {r \in Resource : /\ resources[r].status = "active"
                              /\ IsFutureCampusTime(i.date, i.startTime, clock)
                              /\ MatchesInterval(r, i)}
      BY <2>2, <2>4 DEF Discover
    <3>2. QED
      BY <2>3, <2>4, <3>1, SelectedIsAccepted DEF HasPage
  <2>5. CASE ~(starts # {} /\ i.startTime < i.endTime)
    <3>1. Discover(found, clock) = {r \in Resource : resources[r].status = "active"}
      BY <2>2, <2>5 DEF Discover
    <3>2. QED
      BY <2>5, <3>1 DEF HasPage
  <2>6. QED
    BY <2>4, <2>5
<1>2. QED
  BY <1>1, InvariantHolds, OrderHolds, PTL

\* No change of a resource, its closures or its bookings makes its page
\* unreadable (parseResourceAvailability).
THEOREM AvailabilitiesAreReadable == Spec => []AvailabilityIsReadable
<1>1. IInv => AvailabilityIsReadable
  <2> SUFFICES ASSUME IInv, NEW r \in Resource, NEW date \in Dates, NEW clock \in Instants
               PROVE  ParsesAvailability(AvailabilityOf(r, date, clock))
    BY DEF AvailabilityIsReadable
  <2> DEFINE v   == AvailabilityOf(r, date, clock)
             row == resources[r]
             reason == BlockedReason(Snapshot(r, date), date)
  <2>1. /\ row.opensAt \in Hour /\ row.closesAt \in Hour /\ row.opensAt < row.closesAt
        /\ row.status \in {"active", "maintenance", "inactive"}
    BY DEF IInv, TypeInv, TypeOK, ResourceRow, ResourceStatus, TablesAreSafe, HoursInOrder,
           ValidOperatingHours
  <2>2. /\ v.status = row.status /\ v.opensAt = row.opensAt /\ v.closesAt = row.closesAt
        /\ v.blockedReason = reason
        /\ reason # "none" => v.slots = {}
    BY DEF AvailabilityOf, AvailabilityView, Snapshot, Availability
  <2>3. ReasonFitsStatus(v)
    <3>1. Snapshot(r, date).row = row
      BY DEF Snapshot, Availability
    <3>2. IF row.status = "active" THEN reason \notin {"maintenance", "inactive"}
                                   ELSE reason = row.status
      BY <2>1, <3>1 DEF BlockedReason
    <3> HIDE DEF v, reason, row
    <3>3. QED
      BY <2>2, <3>2 DEF ReasonFitsStatus
  <2>4. \A s \in v.slots : \E h \in Hour : /\ row.opensAt <= h /\ h < row.closesAt
                                           /\ s.startTime = h /\ s.endTime = h + 60
    <3>1. v.slots \subseteq {HourFrom(date, h) : h \in {k \in Hour : row.opensAt <= k
                                                           /\ k < row.closesAt}}
      BY DEF AvailabilityOf, AvailabilityView, Snapshot, Availability, HourlySlots
    <3>2. QED
      BY <3>1 DEF HourFrom
  <2> HIDE DEF v, reason, row
  <2>5. \A h \in Hour : h \in Nat /\ h % 60 = 0
    BY HourShape
  <2>6. \A s \in v.slots : /\ s.endTime - s.startTime = 60
                           /\ s.startTime >= v.opensAt /\ s.endTime <= v.closesAt
    BY <2>1, <2>2, <2>4, <2>5
  <2>7. \A s, u \in v.slots : s.startTime < u.startTime => s.endTime <= u.startTime
    BY <2>4, <2>5
  <2>8. ParsesAvailability(v)
    BY <2>1, <2>2, <2>3, <2>6, <2>7 DEF ParsesAvailability
  <2>9. QED
    BY <2>8 DEF v
<1>2. QED
  BY <1>1, InvariantHolds, PTL
=============================================================================
