------------------------------ MODULE Analytics ------------------------------
(***************************************************************************)
(* The analytics summary of a range of campus dates (analytics.service.ts) *)
(* and the browser's check of it (analytics/schema.ts).                    *)
(*                                                                         *)
(* All its queries run in one REPEATABLE READ transaction, so it is a      *)
(* function of a committed state.  Hours booked are set against the hours  *)
(* the resources offer NOW: a schedule, a status or a closure changed after *)
(* a booking has ended changes the past capacity but not what was booked.  *)
(* Percentages and names are left out, with them the order of resources    *)
(* booked equally often, and so are the dates before a resource was        *)
(* created.  A resource's code, unique in its table, goes with its id.     *)
(***************************************************************************)
EXTENDS BookingInvariant, Sequences, FiniteSets, Functions

CONSTANT PopularSize  \* popular resources a summary lists at most (5)

\* The sums and counts below are of the rows of finite tables.
ASSUME FiniteTables == IsFiniteSet(Resource) /\ IsFiniteSet(BookingId)

ASSUME PopularSizeIsPositive == PopularSize \in Nat \ {0}

DemandStatuses == {"pending", "confirmed", "checked_in", "completed", "no_show"}

UtilizationStatuses == DemandStatuses \ {"no_show"}

\* booking_date BETWEEN from AND to
Within(range) == {b \in BookingId : /\ bookings[b].status # "absent"
                                    /\ bookings[b].slot.date \in range.from..range.to}

With(statuses, range) == {b \in Within(range) : bookings[b].status \in statuses}

BookedHours ==
  [b \in BookingId |-> (bookings[b].slot.endTime - bookings[b].slot.startTime) \div 60]

\* scheduledHours joins the bookings with the resources that are active.
ScheduledHours(range) ==
  SumFunctionOnSet(BookedHours,
    {b \in With(UtilizationStatuses, range) : resources[bookings[b].resource].status = "active"})

\* Mutant: the last date of the range is left out.
DatesBeforeEnd(range) == range.from..(range.to - 1)

DatesOf(range) == range.from..range.to

\* hour() of "HH:MM"
DailyHours(row) == row.closesAt \div 60 - row.opensAt \div 60

CapacityHours(range) ==
  SumFunctionOnSet([day \in Resource \X DatesOf(range) |-> DailyHours(resources[day[1]])],
    {day \in Resource \X DatesOf(range) :
       /\ resources[day[1]].status = "active"
       /\ WeekdayOf(day[2]) \in resources[day[1]].operatingDays
       /\ ~IsClosedOn(day[1], day[2])})

BookedResources(range) == {bookings[b].resource : b \in With(DemandStatuses, range)}

DemandFor(r, range) == {b \in With(DemandStatuses, range) : bookings[b].resource = r}

PopularResource(r, range) ==
  [id           |-> r,
   bookingCount |-> Cardinality(DemandFor(r, range)),
   bookedHours  |-> SumFunctionOnSet(BookedHours, DemandFor(r, range))]

\* popularResources: a row for each resource, the most booked first.
PopularRows(range) ==
  LET count == Cardinality(BookedResources(range))
      by    == CHOOSE q \in [1..count -> BookedResources(range)] :
                 \A j \in 1..count : \A i \in 1..(j - 1) :
                   /\ q[i] # q[j]
                   /\ Cardinality(DemandFor(q[i], range)) >= Cardinality(DemandFor(q[j], range))
  IN  [i \in 1..count |-> PopularResource(by[i], range)]

Least(m, n) == IF m <= n THEN m ELSE n

\* generate_series from the hour a booking starts to the one before its end.
BookedDuring(hour, range) ==
  {b \in With(DemandStatuses, range) :
     hour \in (bookings[b].slot.startTime \div 60)..(bookings[b].slot.endTime \div 60 - 1)}

\* getSummary; the rows of peaks come one for each hour, in its order.
Summary(range) ==
  [total     |-> Cardinality(Within(range)),
   cancelled |-> Cardinality(With({"cancelled"}, range)),
   scheduled |-> ScheduledHours(range),
   capacity  |-> CapacityHours(range),
   represented |-> Len(PopularRows(range)),
   statuses  |-> [s \in BookingStatus |-> Cardinality(With({s}, range))],
   popular   |-> SubSeq(PopularRows(range), 1, Least(Len(PopularRows(range)), PopularSize)),
   peaks     |-> {[hour |-> h, bookingCount |-> Cardinality(BookedDuring(h, range))] :
                    h \in {k \in 0..23 : BookedDuring(k, range) # {}}}]

\* parseAnalyticsSummary returns a summary.
ParsesSummary(s) ==
  /\ s.cancelled <= s.total
  /\ s.capacity = 0 => s.scheduled = 0
  /\ s.represented <= s.total
  /\ SumFunction(s.statuses) = s.total
  /\ s.statuses["cancelled"] = s.cancelled
  /\ Len(s.popular) = Least(s.represented, PopularSize)
  /\ \A i \in DOMAIN s.popular : /\ s.popular[i].bookingCount \in 1..s.total
                                 /\ s.popular[i].bookedHours > 0
  /\ \A j \in DOMAIN s.popular : \A i \in 1..(j - 1) :
       /\ s.popular[i].id # s.popular[j].id
       /\ s.popular[i].bookingCount >= s.popular[j].bookingCount
  /\ SumFunction([i \in DOMAIN s.popular |-> s.popular[i].bookingCount]) <= s.total
  /\ \A p \in s.peaks : p.hour <= 22 /\ p.bookingCount \in 1..s.total
  /\ \A p, q \in s.peaks : p.hour = q.hour => p = q

----------------------------------------------------------------------------
(* Properties.                                                             *)

Ranges == {[from |-> x, to |-> y] : x \in Dates, y \in Dates}

\* No visit in the range has begun, and nothing booked in it has ended.
IsAhead(range) ==
  \A b \in With(UtilizationStatuses, range) :
    bookings[b].status \in {"pending", "confirmed"} /\ now < SlotEnd(bookings[b].slot)

\* On dates ahead no more is scheduled than the resources offer, through every
\* change of schedule, status and closures: utilization stays within 100 %.
\* It is the guards against stranding a booking, checked in other requests,
\* that make two independently computed sums agree (getSummary).
UtilizationIsBounded ==
  \A range \in Ranges : IsAhead(range) => ScheduledHours(range) <= CapacityHours(range)

\* The browser accepts every summary, except where capacity has been taken away
\* from visits that have begun or ended, which no guard protects: then scheduled
\* hours without any capacity are refused (parseAnalyticsSummary), and the page
\* of the administrator fails.
SummariesAreAccepted ==
  \A range \in Ranges :
    ParsesSummary(Summary(range)) \/ (~IsAhead(range) /\ CapacityHours(range) = 0)
=============================================================================
