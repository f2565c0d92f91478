---------------------------- MODULE BookingViews ----------------------------
(***************************************************************************)
(* What the API says about a booking and what the browser makes of it.     *)
(*                                                                         *)
(* The controllers turn a row and one clock reading into a response with   *)
(* flags for the actions it admits; the browser accepts a response only if *)
(* its parser finds it consistent and otherwise shows an error page        *)
(* instead of the booking.  The student's timeline and the two staff       *)
(* queues select rows, partly in SQL over campus dates and "HH:MM"         *)
(* strings, and each list has a parser of its own; StaffQueues reads the   *)
(* queues page by page.                                                    *)
(*                                                                         *)
(* cancelledAt and rejectionReason are written together with the status    *)
(* the parsers demand them for, and ids and names decide nothing here;     *)
(* these are left out.  So are the orders: the parsers compare the keys    *)
(* the queries sort by, cut to milliseconds, and take equal ones in any    *)
(* order.                                                                  *)
(***************************************************************************)
EXTENDS BookingInvariant

HasEnded(bk, clock) == clock >= SlotEnd(bk.slot)

\* canConfirmCheckIn of the service: unlike confirmCheckIn it looks at the
\* time of the student's request, not at the code.
OffersCheckIn(bk, clock) ==
  /\ bk.status = "confirmed"
  /\ bk.requestedAt # Never
  /\ IsWithinCheckInWindow(bk.slot, clock)

\* Mutant: a code is offered again while one is out.
OffersCodeAgain(bk, clock) ==
  bk.status = "confirmed" /\ IsWithinCheckInWindow(bk.slot, clock)

\* canRequestCheckIn as a flag, which does not look at the code either.
OffersCode(bk, clock) ==
  /\ bk.status = "confirmed"
  /\ bk.requestedAt = Never
  /\ IsWithinCheckInWindow(bk.slot, clock)

----------------------------------------------------------------------------
(* Responses: a row evaluated at one clock reading.                        *)

\* studentResponse and StudentBookingResponseDto.fromEntity
StudentView(bk, clock) ==
  [status            |-> bk.status,
   startTime         |-> bk.slot.startTime,
   endTime           |-> bk.slot.endTime,
   canCancel         |-> CanCancel(bk, clock),
   canRequestCheckIn |-> OffersCode(bk, clock),
   hasEnded          |-> HasEnded(bk, clock),
   checkInCode       |-> bk.code,
   requestedAt       |-> bk.requestedAt,
   checkedInAt       |-> bk.checkedInAt,
   checkedOutAt      |-> bk.checkedOutAt,
   noShowAt          |-> bk.noShowAt,
   endsAt            |-> SlotEnd(bk.slot),
   reviewed          |-> bk.reviewed]

\* staffResponse: the flags of the actions staff may take
StaffActions(bk, clock) ==
  [canReview         |-> CanReview(bk, clock),
   canConfirmCheckIn |-> OffersCheckIn(bk, clock),
   canCheckOut       |-> CanCheckOut(bk),
   canMarkNoShow     |-> CanMarkNoShow(bk, clock)]

\* StaffBookingResponseDto.fromEntity
StaffView(bk, clock) ==
  [status           |-> bk.status,
   date             |-> bk.slot.date,
   startTime        |-> bk.slot.startTime,
   endTime          |-> bk.slot.endTime,
   reviewed         |-> bk.reviewed,
   actions          |-> StaffActions(bk, clock),
   checkInRequested |-> bk.requestedAt # Never,
   checkedInAt      |-> bk.checkedInAt,
   checkedOutAt     |-> bk.checkedOutAt,
   noShowAt         |-> bk.noShowAt,
   endsAt           |-> SlotEnd(bk.slot)]

----------------------------------------------------------------------------
(* Parsers of the browser.                                                 *)

\* isAtOrAfter: a missing timestamp is in order with any other.
IsAtOrAfter(left, right) == left = Never \/ right = Never \/ left >= right

\* The presence of the visit's timestamps that each status demands, in both
\* parsers; `requested` is whether the student has asked for a code.
VisitFits(v, requested) ==
  CASE v.status = "checked_in" ->
         v.checkedInAt # Never /\ requested /\ v.checkedOutAt = Never /\ v.noShowAt = Never
    [] v.status = "completed" ->
         v.checkedInAt # Never /\ requested /\ v.checkedOutAt # Never /\ v.noShowAt = Never
    [] v.status = "no_show" ->
         v.noShowAt # Never /\ v.checkedInAt = Never /\ v.checkedOutAt = Never
    [] OTHER ->
         v.checkedInAt = Never /\ v.checkedOutAt = Never /\ v.noShowAt = Never

CodeFits(v) ==
  IF v.requestedAt = Never
  THEN ~v.checkInCode /\ v.status \notin {"checked_in", "completed"}
  ELSE IF v.status = "confirmed"
  THEN v.checkInCode
  ELSE ~v.checkInCode /\ v.status \in {"checked_in", "completed", "no_show"}

NoShowFits(v) == v.noShowAt # Never => v.noShowAt >= v.endsAt

\* parseStudentBooking returns a booking.
ParsesStudent(v) ==
  /\ v.startTime < v.endTime
  /\ v.status \in BookingStatus
  /\ v.status = "cancelled" => ~v.canCancel
  /\ v.status = "rejected" => ~v.canCancel /\ v.reviewed
  /\ CodeFits(v)
  /\ VisitFits(v, v.requestedAt # Never)
  /\ IsAtOrAfter(v.checkedInAt, v.requestedAt)
  /\ IsAtOrAfter(v.checkedOutAt, v.checkedInAt)
  /\ NoShowFits(v)
  /\ v.canRequestCheckIn => v.status = "confirmed" /\ v.requestedAt = Never
  /\ v.hasEnded => ~v.canCancel /\ ~v.canRequestCheckIn

\* parseStaffBooking returns a booking.
ParsesStaff(v) ==
  /\ v.startTime < v.endTime
  /\ v.status \in BookingStatus
  /\ IF v.status = "pending" THEN ~v.reviewed ELSE ~v.actions.canReview
  /\ v.status = "rejected" => v.reviewed
  /\ VisitFits(v, v.checkInRequested)
  /\ IsAtOrAfter(v.checkedOutAt, v.checkedInAt)
  /\ NoShowFits(v)
  /\ v.actions.canConfirmCheckIn => v.status = "confirmed" /\ v.checkInRequested
  /\ ~(v.actions.canConfirmCheckIn /\ v.actions.canMarkNoShow)
  /\ v.actions.canCheckOut <=> v.status = "checked_in"
  /\ v.actions.canMarkNoShow => v.status = "confirmed"

----------------------------------------------------------------------------
(* Lists.                                                                  *)

Exists(b) == bookings[b].status # "absent"

IsActiveForStudent(bk, clock) ==
  bk.status \in {"pending", "confirmed", "checked_in"} /\ clock < SlotEnd(bk.slot)

\* findForStudent: one clock reading splits the rows and sets the flags.
Upcoming(clock) == {b \in BookingId : Exists(b) /\ IsActiveForStudent(bookings[b], clock)}
History(clock)  == {b \in BookingId : Exists(b) /\ ~IsActiveForStudent(bookings[b], clock)}

\* parseStudentBookingTimeline returns a timeline.
ParsesTimeline(upcoming, history) ==
  /\ \A v \in upcoming : /\ ParsesStudent(v)
                         /\ ~v.hasEnded
                         /\ v.status \in BlockingStatuses
  /\ \A v \in history : /\ ParsesStudent(v)
                        /\ v.status \in BlockingStatuses => v.hasEnded

\* findMine
Timeline(clock) ==
  [upcoming |-> {StudentView(bookings[b], clock) : b \in Upcoming(clock)},
   history  |-> {StudentView(bookings[b], clock) : b \in History(clock)}]

\* Mutant: endTime >= the minute of the clock.
PendingUntilMinute(clock) ==
  {b \in BookingId :
     /\ bookings[b].status = "pending"
     /\ \/ bookings[b].slot.date > CampusDateOf(clock)
        \/ /\ bookings[b].slot.date = CampusDateOf(clock)
           /\ bookings[b].slot.endTime >= CampusTimeOf(clock)}

\* The WHERE clause of findPendingForStaff, over campus strings.
PendingForStaff(clock) ==
  {b \in BookingId :
     /\ bookings[b].status = "pending"
     /\ \/ bookings[b].slot.date > CampusDateOf(clock)
        \/ /\ bookings[b].slot.date = CampusDateOf(clock)
           /\ bookings[b].slot.endTime > CampusTimeOf(clock)}

\* Mutant: the list of one day.
OperationsOfToday(clock) ==
  {b \in BookingId : /\ bookings[b].status \in {"confirmed", "checked_in"}
                     /\ bookings[b].slot.date = CampusDateOf(clock)}

\* The WHERE clause of findOperationsForStaff.
OperationsForStaff(clock) ==
  {b \in BookingId : /\ bookings[b].status \in {"confirmed", "checked_in"}
                     /\ bookings[b].slot.date <= CampusDateOf(clock)}

\* What parseStaffBookingQueue asks of every item.
ParsesPendingItem(v) == ParsesStaff(v) /\ v.status = "pending" /\ v.actions.canReview

\* What parseStaffOperationsQueue asks of every item, at the date of the answer.
ParsesOperationsItem(v, campusDate) ==
  ParsesStaff(v) /\ v.status \in {"confirmed", "checked_in"} /\ v.date <= campusDate

----------------------------------------------------------------------------
(* What the views need of the rows beyond IInv: only intervals in order    *)
(* ever reach the table.                                                   *)

Ordered(s) == s.startTime < s.endTime

SlotsAreOrdered ==
  /\ \A t \in Txn : Op(t) = "create" => Ordered(txn[t].request.slot)
  /\ \A b \in BookingId : Exists(b) => Ordered(bookings[b].slot)

----------------------------------------------------------------------------
(* Properties.                                                             *)

\* A booking never becomes unreadable: whatever sequence of operations wrote
\* the row, and whatever clock reading the response was evaluated at (lists
\* read the clock before or after their query), both parsers accept it.
RowsAreReadable ==
  \A b \in BookingId : Exists(b) =>
    \A clock \in Instants :
      /\ ParsesStudent(StudentView(bookings[b], clock))
      /\ ParsesStaff(StaffView(bookings[b], clock))

\* A flag is true exactly when the operation it offers would not be refused
\* at that moment, although flag and operation look at different columns.
FlagsMatchOperations ==
  \A b \in BookingId : Exists(b) =>
    LET bk == bookings[b]
    IN  /\ StudentView(bk, now).canCancel <=> CanCancel(bk, now)
        /\ StudentView(bk, now).canRequestCheckIn <=> CanRequestCheckIn(bk, now)
        /\ StaffView(bk, now).actions.canConfirmCheckIn <=> CanConfirmCheckIn(bk, now)

\* Nothing staff can act on is missing from the operations list: a check-in
\* to confirm, a visit to check out or a no-show to record.  A booking that
\* starts at midnight is the exception, its check-in opens the day before.
OperationsAreListed ==
  \A b \in BookingId :
    /\ \/ OffersCheckIn(bookings[b], now)
       \/ CanCheckOut(bookings[b])
       \/ CanMarkNoShow(bookings[b], now)
    => \/ /\ b \in OperationsForStaff(now)
          /\ ParsesOperationsItem(StaffView(bookings[b], now), CampusDateOf(now))
       \/ bookings[b].slot.startTime = 0 /\ now < SlotStart(bookings[b].slot)

============================================================================
