---------------------------- MODULE Availability ----------------------------
(***************************************************************************)
(* What is free: the hourly slots of the availability endpoint, the time   *)
(* filter of the directory, and the interval a student selects, against    *)
(* what create would accept at the same moment.                            *)
(*                                                                         *)
(* The four answers are computed by four pieces of code: JavaScript over   *)
(* "HH:MM" strings, SQL over time columns, list walking in the browser,    *)
(* and the exclusion constraint over timestamp ranges.                     *)
(*                                                                         *)
(* The filters of the directory that look only at fixed attributes of a    *)
(* resource (words, building, type, capacity, amenity), its order and its  *)
(* pages decide nothing here and are left out.                             *)
(***************************************************************************)
EXTENDS BookingInvariant

CONSTANT Asked    \* bound: the intervals students of an instance ask for

ASSUME AskedAssumption ==
  Asked \subseteq [date : Dates, startTime : Hour, endTime : Hour]

----------------------------------------------------------------------------
(* The availability endpoint: one snapshot and a later clock reading.      *)

\* findAvailabilitySnapshot: one REPEATABLE READ transaction.
Snapshot(r, date) == Availability(r, date)

BlockedReason(snap, date) ==
  CASE snap.row.status # "active"                       -> snap.row.status
    [] snap.row.status = "active" /\ snap.closed        -> "closure"
    [] /\ snap.row.status = "active" /\ ~snap.closed
       /\ WeekdayOf(date) \notin snap.row.operatingDays -> "closed_day"
    [] OTHER                                            -> "none"

HourFrom(date, h) == [date |-> date, startTime |-> h, endTime |-> h + 60]

\* Mutant: the loop runs over the closing hour too.
HourlySlotsToClosing(row, date) ==
  {HourFrom(date, h) : h \in {k \in Hour : row.opensAt <= k /\ k <= row.closesAt}}

HourlySlots(row, date) ==
  {HourFrom(date, h) : h \in {k \in Hour : row.opensAt <= k /\ k < row.closesAt}}

\* Mutant: only the start of a slot is compared with the bookings.
IsFreeAtStart(snap, s) ==
  ~\E taken \in snap.taken : /\ taken.startTime <= s.startTime
                             /\ s.startTime < taken.startTime + 60

\* No booking of the snapshot overlaps the slot.
IsFree(snap, s) ==
  ~\E taken \in snap.taken : /\ taken.startTime < s.endTime
                             /\ taken.endTime > s.startTime

\* ResourceAvailabilityResponseDto.fromResource
AvailabilityView(snap, date, clock) ==
  LET reason == BlockedReason(snap, date)
  IN  [status        |-> snap.row.status,
       opensAt       |-> snap.row.opensAt,
       closesAt      |-> snap.row.closesAt,
       blockedReason |-> reason,
       slots |-> {s \in HourlySlots(snap.row, date) :
                    /\ reason = "none"
                    /\ IsFutureCampusTime(date, s.startTime, clock)
                    /\ IsFree(snap, s)}]

\* findAvailability reads the clock after the snapshot.
AvailabilityOf(r, date, clock) == AvailabilityView(Snapshot(r, date), date, clock)

----------------------------------------------------------------------------
(* The browser's reading of it.                                            *)

ReasonFitsStatus(v) ==
  IF v.status = "active"
  THEN v.blockedReason \notin {"maintenance", "inactive"}
  ELSE v.blockedReason = v.status

\* parseResourceAvailability returns an availability.
ParsesAvailability(v) ==
  /\ v.opensAt < v.closesAt
  /\ ReasonFitsStatus(v)
  /\ v.blockedReason # "none" => v.slots = {}
  /\ \A s \in v.slots : /\ s.endTime - s.startTime = 60
                        /\ s.startTime >= v.opensAt
                        /\ s.endTime <= v.closesAt
  /\ \A s, u \in v.slots : s.startTime < u.startTime => s.endTime <= u.startTime

\* resolveSlotSelection: the free slots inside the interval start with it,
\* end with it, and each but the first begins where another one ends.
SelectsAvailable(v, i) ==
  LET covered == {s \in v.slots : s.startTime >= i.startTime /\ s.endTime <= i.endTime}
  IN  /\ v.opensAt <= i.startTime /\ i.endTime <= v.closesAt
      /\ \E s \in covered : s.startTime = i.startTime
      /\ \E s \in covered : s.endTime = i.endTime
      /\ \A s \in covered : \/ s.startTime = i.startTime
                            \/ \E u \in covered : u.endTime = s.startTime

----------------------------------------------------------------------------
(* The directory.  A search carries each of date, start and end or not: it *)
(* is a record of sets of at most one value.                               *)

\* normalizeDiscoveryFilters keeps a complete interval in order or none of it.
SearchedIntervals(search) ==
  {i \in [date : search.date, startTime : search.startTime, endTime : search.endTime] :
     i.startTime < i.endTime}

\* Mutant: the directory does not look for closures.
MatchesWithoutClosures(r, i) ==
  /\ WithinSchedule(resources[r], i)
  /\ ~\E b \in BookingsOf(r) : /\ bookings[b].status \in BlockingStatuses
                               /\ Overlap(bookings[b].slot, i)

\* The conditions discoverFrom adds for an interval.
MatchesInterval(r, i) ==
  /\ WithinSchedule(resources[r], i)
  /\ ~IsClosedOn(r, i.date)
  /\ ~\E b \in BookingsOf(r) : /\ bookings[b].status \in BlockingStatuses
                               /\ Overlap(bookings[b].slot, i)

\* GET /resources: an interval that has begun finds nothing.
Discover(intervals, clock) ==
  {r \in Resource :
     /\ resources[r].status = "active"
     /\ \A i \in intervals : /\ IsFutureCampusTime(i.date, i.startTime, clock)
                             /\ MatchesInterval(r, i)}

\* GET /resources/:id: only an active resource has a page.
HasPage(r) == resources[r].status = "active"

----------------------------------------------------------------------------
(* Properties.                                                             *)

\* create would accept the interval if it ran alone with this clock reading.
CreateAccepts(r, i, clock) ==
  /\ i.startTime < i.endTime
  /\ IsFutureCampusTime(i.date, i.startTime, clock)
  /\ IsOperational(resources[r], i)
  /\ ~IsClosedOn(r, i.date)
  /\ Conflicts(r, i) = {}

\* The hourly slots shown for a date are exactly the hours create would
\* accept: none is offered that would be refused and none is withheld
\* (fromResource against BookingsService.create and its constraint).  And an
\* interval of several hours is called available exactly when create would
\* accept it: adjacent free hours join into one, and no gap, past hour or
\* booking hides between them (resolveSlotSelection).
SlotsMatchCreate ==
  \A r \in Resource, date \in Dates, clock \in Instants :
    LET view == AvailabilityOf(r, date, clock)
    IN  /\ \A h \in Hour :
             h < 1380 =>
               (HourFrom(date, h) \in view.slots <=> CreateAccepts(r, HourFrom(date, h), clock))
        /\ \A i \in Asked :
             i.date = date /\ i.startTime < i.endTime =>
               (SelectsAvailable(view, i) <=> CreateAccepts(r, i, clock))

\* A search for an interval finds exactly the resources whose page, at the
\* same moment, exists and calls the interval available; any other search
\* finds every resource that has a page.
DirectoryMatchesPages ==
  \A clock \in Instants, i \in Asked : \A starts \in SUBSET {i.startTime} :
    LET found == SearchedIntervals([date |-> {i.date}, startTime |-> starts,
                                    endTime |-> {i.endTime}])
    IN  Discover(found, clock) =
          {r \in Resource :
             /\ HasPage(r)
             /\ starts # {} /\ i.startTime < i.endTime =>
                  SelectsAvailable(AvailabilityOf(r, i.date, clock), i)}

\* The browser accepts every availability the service can produce, whatever
\* administrators and students have done to the resource, so that the page of
\* a resource never turns into an error page (parseResourceAvailability).
AvailabilityIsReadable ==
  \A r \in Resource, date \in Dates, clock \in Instants :
    ParsesAvailability(AvailabilityOf(r, date, clock))
=============================================================================
