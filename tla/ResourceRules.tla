---------------------------- MODULE ResourceRules ----------------------------
(***************************************************************************)
(* One row of the resources table and the rules that tie it to the rows of *)
(* the bookings table: the operational check of a new booking and the      *)
(* conditions under which an administrator's change is refused because it  *)
(* would strand a booking (resources.service.ts, bookings.service.ts).     *)
(*                                                                         *)
(* Names, location, capacity and amenities decide nothing here and are     *)
(* left out.                                                               *)
(***************************************************************************)
EXTENDS BookingRules

Hour == {h * 60 : h \in 0 .. 23}       \* "HH:00"

ResourceStatus == {"active", "maintenance", "inactive"}

ResourceRow == [status           : ResourceStatus,
                operatingDays    : SUBSET (0 .. 6),
                opensAt          : Hour,
                closesAt         : Hour,
                requiresApproval : BOOLEAN]

\* UpdateResourceDto: every field is optional.  A field that is left out is
\* the empty set, a field that is given the singleton of its value.
ResourcePatch == [operatingDays    : SUBSET SUBSET (0 .. 6),
                  opensAt          : SUBSET Hour,
                  closesAt         : SUBSET Hour,
                  requiresApproval : SUBSET BOOLEAN]

\* dto.field ?? locked.field
Given(field, current) == IF field = {} THEN current ELSE CHOOSE v \in field : TRUE

\* The row that `changes` turns a locked row into.
Patched(row, dto) ==
  [row EXCEPT !.operatingDays    = Given(dto.operatingDays, @),
              !.opensAt          = Given(dto.opensAt, @),
              !.closesAt         = Given(dto.closesAt, @),
              !.requiresApproval = Given(dto.requiresApproval, @)]

ValidOperatingHours(row) == row.opensAt < row.closesAt

ChangesSchedule(row, dto) ==
  LET new == Patched(row, dto)
  IN  \/ new.operatingDays # row.operatingDays
      \/ new.opensAt # row.opensAt
      \/ new.closesAt # row.closesAt

----------------------------------------------------------------------------
WithinSchedule(row, s) ==
  /\ WeekdayOf(s.date) \in row.operatingDays
  /\ s.startTime >= row.opensAt
  /\ s.endTime <= row.closesAt

\* requireOperationalAvailability does not throw.
IsOperational(row, s) == row.status = "active" /\ WithinSchedule(row, s)

\* Mutant: pending bookings do not count.
ConfirmedStrandedBySchedule(bk, row, clock) ==
  /\ bk.status = "confirmed"
  /\ EndsAfterNow(bk.slot, clock)
  /\ ~WithinSchedule(row, bk.slot)

\* The conditions that requireNoActiveBookings is called with, for one row
\* bk of the bookings of the locked resource.
StrandedBySchedule(bk, row, clock) ==
  /\ bk.status \in ReviewableStatuses
  /\ EndsAfterNow(bk.slot, clock)
  /\ ~WithinSchedule(row, bk.slot)

StrandedByStatus(bk, clock) ==
  \/ bk.status \in ReviewableStatuses /\ EndsAfterNow(bk.slot, clock)
  \/ bk.status = "checked_in"

StrandedByClosure(bk, date, clock) ==
  /\ bk.slot.date = date
  /\ bk.status \in BlockingStatuses
  /\ EndsAfterNow(bk.slot, clock)
============================================================================
