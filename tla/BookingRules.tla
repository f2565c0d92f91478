---------------------------- MODULE BookingRules ----------------------------
(***************************************************************************)
(* One row of the bookings table and the rules the booking service and the *)
(* database apply to it: which operations a row admits at a given clock    *)
(* reading, what each operation writes, and the CHECK constraints.         *)
(*                                                                         *)
(* Data that no rule compares is abstracted.  A review and its reviewer    *)
(* are the flag `reviewed`, the six digits of a check-in code the flag     *)
(* `code`, and the staff member stamped beside checkedInAt, checkedOutAt   *)
(* and noShowAt is left out with the requester.                            *)
(***************************************************************************)
EXTENDS CampusClock

CONSTANTS
  Resource,   \* ids of the rows of the resources table
  Slot,       \* the date and hours a student may ask for
  Instants    \* the readings of the campus clock

\* A slot passed CreateBookingDto: whole hours between 00:00 and 23:00.
ASSUME SlotAssumption ==
  /\ Slot \subseteq [date : Nat, startTime : Nat, endTime : Nat]
  /\ \A s \in Slot : /\ s.startTime <= 1380 /\ s.startTime % 60 = 0
                     /\ s.endTime <= 1380 /\ s.endTime % 60 = 0

ASSUME InstantsAssumption == Instants \subseteq Nat

Never == -1                       \* NULL in a timestamp column
Time  == Instants \cup {Never}

\* "absent" is the status of an id no INSERT has used yet.
BookingStatus == {"pending", "confirmed", "checked_in", "completed",
                  "no_show", "rejected", "cancelled"}

BookingRow == [status       : BookingStatus \cup {"absent"},
               resource     : Resource,
               slot         : Slot,
               reviewed     : BOOLEAN,
               code         : BOOLEAN,
               requestedAt  : Time,
               checkedInAt  : Time,
               checkedOutAt : Time,
               noShowAt     : Time]

\* REVIEWABLE_STATUSES and BLOCKING_STATUSES of the resources service.
ReviewableStatuses == {"pending", "confirmed"}
BlockingStatuses   == ReviewableStatuses \cup {"checked_in"}

\* Mutant: the list of the constraint before check-in was introduced.
ExclusionWithoutCheckIn == {"pending", "confirmed"}

\* The WHERE clause of EXCL_bookings_resource_period_blocking.
ExclusionStatuses == {"pending", "confirmed", "checked_in"}

----------------------------------------------------------------------------
(* The interval of a row and its position relative to the clock.           *)

SlotStart(s) == CampusDateTime(s.date, s.startTime)
SlotEnd(s)   == CampusDateTime(s.date, s.endTime)

\* booking_period && booking_period: half-open intervals of the same day.
Overlap(s, u) == /\ s.date = u.date
                 /\ s.startTime < u.endTime
                 /\ u.startTime < s.endTime

CheckInLead == 15 * 60

IsWithinCheckInWindow(s, clock) ==
  /\ clock >= SlotStart(s) - CheckInLead
  /\ clock < SlotEnd(s)

\* The SQL fragment ENDS_AFTER_NOW over the campus date and time strings.
EndsAfterNow(s, clock) ==
  \/ s.date > CampusDateOf(clock)
  \/ /\ s.date = CampusDateOf(clock)
     /\ s.endTime > CampusTimeOf(clock)

----------------------------------------------------------------------------
(* What a row admits at a clock reading.                                   *)

CanReview(bk, clock) ==
  /\ bk.status = "pending"
  /\ clock < SlotEnd(bk.slot)

CanRequestCheckIn(bk, clock) ==
  /\ bk.requestedAt = Never
  /\ ~bk.code
  /\ bk.status = "confirmed"
  /\ IsWithinCheckInWindow(bk.slot, clock)

\* Mutant: the presence of a generated code is not required.
CanConfirmWithoutCode(bk, clock) ==
  /\ bk.status = "confirmed"
  /\ IsWithinCheckInWindow(bk.slot, clock)

CanConfirmCheckIn(bk, clock) ==
  /\ bk.status = "confirmed"
  /\ bk.code
  /\ IsWithinCheckInWindow(bk.slot, clock)

CanCheckOut(bk) == bk.status = "checked_in"

CanMarkNoShow(bk, clock) ==
  /\ bk.status = "confirmed"
  /\ clock >= SlotEnd(bk.slot)

\* Mutant: a booking whose check-in code was issued can be cancelled.
CanCancelAfterCode(bk, clock) ==
  /\ bk.status \in {"pending", "confirmed"}
  /\ IsFutureCampusTime(bk.slot.date, bk.slot.startTime, clock)

CanCancel(bk, clock) ==
  /\ bk.status \in {"pending", "confirmed"}
  /\ bk.requestedAt = Never
  /\ IsFutureCampusTime(bk.slot.date, bk.slot.startTime, clock)

----------------------------------------------------------------------------
(* What each operation writes into the row.                                *)

Approved(bk)  == [bk EXCEPT !.status = "confirmed", !.reviewed = TRUE]
Rejected(bk)  == [bk EXCEPT !.status = "rejected", !.reviewed = TRUE]
Cancelled(bk) == [bk EXCEPT !.status = "cancelled"]

CheckInRequested(bk, clock) == [bk EXCEPT !.code = TRUE, !.requestedAt = clock]

CheckedIn(bk, clock) ==
  [bk EXCEPT !.status = "checked_in", !.code = FALSE, !.checkedInAt = clock]

CheckedOut(bk, clock) ==
  [bk EXCEPT !.status = "completed", !.checkedOutAt = clock]

NoShown(bk, clock) ==
  [bk EXCEPT !.status = "no_show", !.code = FALSE, !.noShowAt = clock]

----------------------------------------------------------------------------
(* The CHECK constraints of the bookings table that relate the columns of  *)
(* a row.  A write that broke one would fail with SQLSTATE 23514.          *)

ReviewCheck(bk) ==
  /\ bk.status = "pending" => ~bk.reviewed
  /\ bk.status = "rejected" => bk.reviewed

CheckInRequestCheck(bk) ==
  IF bk.requestedAt = Never
  THEN ~bk.code
  ELSE \/ bk.status = "confirmed" /\ bk.code
       \/ bk.status \in {"checked_in", "completed", "no_show"} /\ ~bk.code

CheckInTimelineCheck(bk) ==
  /\ bk.requestedAt # Never => IsWithinCheckInWindow(bk.slot, bk.requestedAt)
  /\ bk.checkedInAt # Never => /\ bk.requestedAt # Never
                               /\ bk.checkedInAt >= bk.requestedAt
                               /\ IsWithinCheckInWindow(bk.slot, bk.checkedInAt)
  /\ bk.checkedOutAt # Never => bk.checkedOutAt >= bk.checkedInAt

NoShowTimelineCheck(bk) == bk.noShowAt # Never => bk.noShowAt >= SlotEnd(bk.slot)

CheckedInStateCheck(bk) ==
  IF bk.status \in {"checked_in", "completed"}
  THEN bk.requestedAt # Never /\ bk.checkedInAt # Never
  ELSE bk.checkedInAt = Never

CheckoutStateCheck(bk) == bk.status = "completed" <=> bk.checkedOutAt # Never

NoShowStateCheck(bk) == bk.status = "no_show" <=> bk.noShowAt # Never

RowChecks(bk) ==
  /\ ReviewCheck(bk)
  /\ CheckInRequestCheck(bk)
  /\ CheckInTimelineCheck(bk)
  /\ NoShowTimelineCheck(bk)
  /\ CheckedInStateCheck(bk)
  /\ CheckoutStateCheck(bk)
  /\ NoShowStateCheck(bk)
============================================================================
