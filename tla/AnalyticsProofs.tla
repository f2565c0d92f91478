--------------------------- MODULE AnalyticsProofs ---------------------------
(***************************************************************************)
(* The sums of the analytics summary, for every number of resources and    *)
(* bookings and every range of dates.                                      *)
(*                                                                         *)
(* A sum of hours is the cardinality of a set of hours, each with the      *)
(* booking or the day it belongs to (SumCounts).  That booked hours do not *)
(* exceed the hours on offer is then an injection from the former set to   *)
(* the latter: it exists because unended bookings are operational and off  *)
(* the closed dates, and is one-to-one because bookings do not overlap.    *)
(***************************************************************************)
EXTENDS Analytics, BookingViewsProofs, FiniteSetTheorems

----------------------------------------------------------------------------
(* Sums over finite sets.                                                  *)

\* One step of the library's fold over a set.
SumStep(f, g, s) == IF s = {} THEN 0 ELSE LET x == CHOOSE x \in s : TRUE IN f[x] + g[s \ {x}]

LEMMA SumUnfolds ==
  ASSUME NEW f, NEW S
  PROVE  SumFunctionOnSet(f, S) = (CHOOSE g : g = [s \in SUBSET S |-> SumStep(f, g, s)])[S]
BY DEF SumFunctionOnSet, FoldFunctionOnSet, MapThenFoldSet, SumStep

\* The recursion of the fold has a solution on every finite set.
LEMMA SumIsDefined ==
  ASSUME NEW f, NEW S, IsFiniteSet(S)
  PROVE  \E g : g = [s \in SUBSET S |-> SumStep(f, g, s)]
<1> DEFINE Small(n)  == {s \in SUBSET S : Cardinality(s) <= n}
           Solved(n) == \E g : g = [s \in Small(n) |-> SumStep(f, g, s)]
           unsolved  == {n \in Nat : ~Solved(n)}
<1>1. \A s \in SUBSET S : IsFiniteSet(s) /\ Cardinality(s) \in Nat
  BY FS_Subset, FS_CardinalityType
<1>2. Solved(0)
  <2>1. Small(0) = {{}}
    BY <1>1, FS_EmptySet
  <2>2. \A g : [s \in Small(0) |-> SumStep(f, g, s)] = [s \in Small(0) |-> 0]
    BY <2>1 DEF SumStep
  <2>3. QED
    BY <2>2
<1>3. ASSUME NEW n \in Nat, Solved(n)
      PROVE  Solved(n + 1)
  <2>1. PICK g : g = [s \in Small(n) |-> SumStep(f, g, s)]
    BY <1>3
  <2> DEFINE h == [s \in Small(n + 1) |-> SumStep(f, g, s)]
  <2>2. ASSUME NEW s \in Small(n + 1)
        PROVE  SumStep(f, g, s) = SumStep(f, h, s)
    <3>1. CASE s = {}
      BY <3>1 DEF SumStep
    <3>2. CASE s # {}
      <4> DEFINE x == CHOOSE x \in s : TRUE
      <4>1. x \in s
        BY <3>2
      <4>2. /\ s \in SUBSET S /\ Cardinality(s) <= n + 1
            /\ Cardinality(s \ {x}) = Cardinality(s) - 1
        BY <1>1, <4>1, FS_RemoveElement
      <4>3. s \ {x} \in Small(n) /\ s \ {x} \in Small(n + 1)
        BY <1>1, <4>2
      <4>4. h[s \ {x}] = g[s \ {x}]
        BY <2>1, <4>3
      <4>5. QED
        BY <3>2, <4>4 DEF SumStep
    <3>3. QED
      BY <3>1, <3>2
  <2>3. h = [s \in Small(n + 1) |-> SumStep(f, h, s)]
    BY <2>2
  <2>4. QED
    BY <2>3
<1>4. unsolved = {}
  <2> SUFFICES ASSUME unsolved # {}
               PROVE  FALSE
    OBVIOUS
  <2> HIDE DEF Solved
  <2>1. PICK n \in unsolved : \A m \in unsolved : n <= m
    BY LeastNatural
  <2>2. n \in Nat /\ n # 0 /\ ~Solved(n)
    BY <1>2, <2>1
  <2>3. n - 1 \in Nat /\ Solved(n - 1) /\ (n - 1) + 1 = n
    BY <2>1, <2>2
  <2>4. QED
    BY <1>3, <2>2, <2>3
<1>5. Solved(Cardinality(S))
  BY <1>1, <1>4
<1>6. Small(Cardinality(S)) = SUBSET S
  BY <1>1, FS_Subset
<1>7. QED
  BY <1>5, <1>6

\* The elements of a family of sets, each with its index.
Tagged(F, S) == UNION {{x} \X F[x] : x \in S}

\* A sum of cardinalities is the cardinality of the disjoint union.
LEMMA SumCounts ==
  ASSUME NEW f, NEW F, NEW S, IsFiniteSet(S),
         \A x \in S : IsFiniteSet(F[x]) /\ f[x] = Cardinality(F[x])
  PROVE  /\ IsFiniteSet(Tagged(F, S))
         /\ SumFunctionOnSet(f, S) = Cardinality(Tagged(F, S))
<1>1. \A s \in SUBSET S : IsFiniteSet(s) /\ Cardinality(s) \in Nat
  BY FS_Subset, FS_CardinalityType
<1>2. ASSUME NEW x \in S
      PROVE  /\ IsFiniteSet({x} \X F[x])
             /\ Cardinality({x} \X F[x]) = f[x]
             /\ f[x] \in Nat
  <2>1. IsFiniteSet({x}) /\ Cardinality({x}) = 1
    BY FS_Singleton
  <2>2. IsFiniteSet(F[x]) /\ f[x] = Cardinality(F[x]) /\ f[x] \in Nat
    BY FS_CardinalityType
  <2>3. /\ IsFiniteSet({x} \X F[x])
        /\ Cardinality({x} \X F[x]) = Cardinality({x}) * Cardinality(F[x])
    BY <2>1, <2>2, FS_Product
  <2>4. QED
    BY <2>1, <2>2, <2>3
<1> DEFINE g == CHOOSE h : h = [s \in SUBSET S |-> SumStep(f, h, s)]
           Counted(s) == IsFiniteSet(Tagged(F, s)) /\ g[s] = Cardinality(Tagged(F, s))
           uncounted == {n \in Nat : \E s \in SUBSET S : n = Cardinality(s) /\ ~Counted(s)}
<1>3. g = [s \in SUBSET S |-> SumStep(f, g, s)]
  BY SumIsDefined
<1> HIDE DEF g
<1>4. Counted({})
  <2>1. g[{}] = 0
    BY <1>3 DEF SumStep
  <2>2. Tagged(F, {}) = {}
    BY DEF Tagged
  <2>3. QED
    BY <2>1, <2>2, FS_EmptySet
<1>5. ASSUME NEW s \in SUBSET S, s # {}, Counted(s \ {CHOOSE x \in s : TRUE})
      PROVE  Counted(s)
  <2> DEFINE x    == CHOOSE x \in s : TRUE
             rest == s \ {x}
  <2>1. x \in s /\ x \in S
    BY <1>5
  <2>2. g[s] = f[x] + g[rest]
    BY <1>3, <1>5 DEF SumStep
  <2>3. IsFiniteSet(Tagged(F, rest)) /\ g[rest] = Cardinality(Tagged(F, rest))
    BY <1>5
  <2> HIDE DEF x
  <2>4. Tagged(F, s) = Tagged(F, rest) \cup ({x} \X F[x])
    BY <2>1 DEF Tagged
  <2>5. Tagged(F, rest) \cap ({x} \X F[x]) = {}
    BY DEF Tagged
  <2>6. /\ IsFiniteSet(Tagged(F, rest) \cup ({x} \X F[x]))
        /\ Cardinality(Tagged(F, rest) \cup ({x} \X F[x]))
             = Cardinality(Tagged(F, rest)) + Cardinality({x} \X F[x]) - Cardinality({})
    <3>1. IsFiniteSet({x} \X F[x])
      BY <1>2, <2>1
    <3> DEFINE A == Tagged(F, rest)
               B == {x} \X F[x]
    <3>2. IsFiniteSet(A) /\ IsFiniteSet(B) /\ A \cap B = {}
      BY <2>3, <2>5, <3>1
    <3> HIDE DEF A, B
    <3>3. /\ IsFiniteSet(A \cup B)
          /\ Cardinality(A \cup B) = Cardinality(A) + Cardinality(B) - Cardinality(A \cap B)
      BY <3>2, FS_Union
    <3>4. /\ IsFiniteSet(A \cup B)
          /\ Cardinality(A \cup B) = Cardinality(A) + Cardinality(B) - Cardinality({})
      BY <3>2, <3>3
    <3>5. QED
      BY <3>4 DEF A, B
  <2>7. Cardinality(Tagged(F, rest)) \in Nat
    BY <2>3, FS_CardinalityType
  <2>8. QED
    BY <1>2, <2>1, <2>2, <2>3, <2>4, <2>6, <2>7, FS_EmptySet
<1>6. uncounted = {}
  <2> SUFFICES ASSUME uncounted # {}
               PROVE  FALSE
    OBVIOUS
  <2>1. PICK n \in uncounted : \A m \in uncounted : n <= m
    BY LeastNatural
  <2>2. PICK s \in SUBSET S : n = Cardinality(s) /\ ~Counted(s)
    BY <2>1
  <2> HIDE DEF Counted
  <2>3. s # {}
    BY <1>4, <2>2
  <2> DEFINE x == CHOOSE x \in s : TRUE
  <2>4. x \in s
    BY <2>3
  <2>5. Cardinality(s \ {x}) = n - 1 /\ s \ {x} \in SUBSET S /\ Cardinality(s \ {x}) \in Nat
    BY <1>1, <2>2, <2>4, FS_RemoveElement
  <2>6. Cardinality(s \ {x}) \notin uncounted
    BY <2>1, <2>5
  <2>7. Counted(s \ {x})
    BY <2>5, <2>6
  <2>8. QED
    BY <1>5, <2>2, <2>3, <2>7
<1>7. Counted(S)
  <2> HIDE DEF Counted
  <2>1. QED
    BY <1>1, <1>6
<1>8. SumFunctionOnSet(f, S) = g[S]
  BY SumUnfolds DEF g
<1>9. QED
  BY <1>7, <1>8

----------------------------------------------------------------------------
(* Hours.                                                                  *)

HoursOf(b) == (bookings[b].slot.startTime \div 60)..(bookings[b].slot.endTime \div 60 - 1)

OpenHours(r) == (resources[r].opensAt \div 60)..(resources[r].closesAt \div 60 - 1)

LEMMA WithinIsFinite ==
  ASSUME NEW range, NEW S \in SUBSET Within(range)
  PROVE  /\ S \in SUBSET BookingId /\ IsFiniteSet(S)
         /\ Cardinality(S) \in Nat /\ Cardinality(Within(range)) \in Nat
         /\ Cardinality(S) <= Cardinality(Within(range))
<1>1. Within(range) \in SUBSET BookingId
  BY DEF Within
<1>2. IsFiniteSet(Within(range))
  BY <1>1, FiniteTables, FS_Subset
<1>3. IsFiniteSet(S) /\ Cardinality(S) <= Cardinality(Within(range))
  BY <1>2, FS_Subset
<1>4. QED
  BY <1>1, <1>2, <1>3, FS_CardinalityType

LEMMA HoursBetween ==
  ASSUME NEW m \in Nat, NEW n \in Nat, m < n
  PROVE  IsFiniteSet(m..(n - 1)) /\ Cardinality(m..(n - 1)) = n - m
<1>1. m \in Int /\ n - 1 \in Int /\ m <= n - 1
  OBVIOUS
<1>2. /\ IsFiniteSet(m..(n - 1))
      /\ Cardinality(m..(n - 1)) = IF m > n - 1 THEN 0 ELSE (n - 1) - m + 1
  BY <1>1, FS_Interval
<1>3. QED
  BY <1>1, <1>2

\* The hours a row of the table takes are as many as the summary counts.
LEMMA HoursOfRow ==
  ASSUME TypeInv, SlotsAreOrdered, NEW b \in BookingId, Exists(b)
  PROVE  /\ IsFiniteSet(HoursOf(b)) /\ BookedHours[b] = Cardinality(HoursOf(b))
         /\ BookedHours[b] \in Nat /\ BookedHours[b] > 0
         /\ HoursOf(b) # {} /\ HoursOf(b) \subseteq 0..22
<1> DEFINE from == bookings[b].slot.startTime
           to   == bookings[b].slot.endTime
<1>1. bookings[b].slot \in Slot
  BY DEF TypeInv, TypeOK, BookingRow
<1>2. from \in Nat /\ to \in Nat /\ from % 60 = 0 /\ to % 60 = 0 /\ to <= 1380
  BY <1>1, SlotAssumption
<1>3. from < to
  BY DEF SlotsAreOrdered, Ordered
<1>4. BookedHours[b] = (to - from) \div 60
  BY DEF BookedHours
<1>5. HoursOf(b) = (from \div 60)..(to \div 60 - 1)
  BY DEF HoursOf
<1> HIDE DEF from, to
<1>6. /\ from \div 60 \in Nat /\ to \div 60 \in Nat
      /\ from = 60 * (from \div 60) /\ to = 60 * (to \div 60)
  BY <1>2
<1>7. PICK m \in Nat, n \in Nat : m = from \div 60 /\ n = to \div 60
  BY <1>6
<1>8. m < n /\ n <= 23 /\ to - from = 60 * (n - m)
  BY <1>2, <1>3, <1>6, <1>7
<1>9. (to - from) \div 60 = n - m
  BY <1>8
<1>10. IsFiniteSet(m..(n - 1)) /\ Cardinality(m..(n - 1)) = n - m
  BY <1>7, <1>8, HoursBetween
<1>11. m \in m..(n - 1) /\ m..(n - 1) \subseteq 0..22
  BY <1>7, <1>8
<1>12. HoursOf(b) = m..(n - 1)
  BY <1>5, <1>7
<1>13. n - m \in Nat /\ n - m > 0
  BY <1>7, <1>8
<1>14. BookedHours[b] = n - m
  BY <1>4, <1>9
<1>15. QED
  BY <1>10, <1>11, <1>12, <1>13, <1>14

\* A resource offers as many hours a day as it is open.
LEMMA HoursOfDay ==
  ASSUME IInv, NEW r \in Resource
  PROVE  IsFiniteSet(OpenHours(r)) /\ DailyHours(resources[r]) = Cardinality(OpenHours(r))
<1>1. /\ resources[r].opensAt \in Hour /\ resources[r].closesAt \in Hour
      /\ resources[r].opensAt < resources[r].closesAt
  BY DEF IInv, TypeInv, TypeOK, ResourceRow, TablesAreSafe, HoursInOrder, ValidOperatingHours
<1>2a. \A h \in Hour : h \in Nat /\ h % 60 = 0
  BY HourShape
<1>2b. \A h \in Nat : h % 60 = 0 => h \div 60 \in Nat /\ h = 60 * (h \div 60)
  OBVIOUS
<1> DEFINE m == resources[r].opensAt \div 60
           n == resources[r].closesAt \div 60
<1>2c. m \in Nat /\ n \in Nat
  BY <1>1, <1>2a, <1>2b
<1>2. resources[r].opensAt = 60 * m /\ resources[r].closesAt = 60 * n
  BY <1>1, <1>2a, <1>2b
<1>3. OpenHours(r) = m..(n - 1) /\ DailyHours(resources[r]) = n - m
  BY DEF OpenHours, DailyHours
<1> HIDE DEF m, n
<1>4. m < n
  BY <1>1, <1>2, <1>2c
<1>5. QED
  BY <1>2c, <1>3, <1>4, HoursBetween

\* The hours booked by a set of rows.
LEMMA BookedHoursCount ==
  ASSUME TypeInv, SlotsAreOrdered, NEW range, NEW S \in SUBSET Within(range)
  PROVE  LET F == [b \in BookingId |-> HoursOf(b)]
         IN  /\ IsFiniteSet(Tagged(F, S))
             /\ SumFunctionOnSet(BookedHours, S) = Cardinality(Tagged(F, S))
<1> DEFINE F == [b \in BookingId |-> HoursOf(b)]
<1>1. IsFiniteSet(S) /\ S \in SUBSET BookingId
  BY WithinIsFinite
<1>2. \A b \in S : IsFiniteSet(F[b]) /\ BookedHours[b] = Cardinality(F[b])
  <2>1. \A b \in S : b \in BookingId /\ Exists(b)
    BY DEF Within, Exists
  <2>2. QED
    BY <2>1, HoursOfRow
<1> HIDE DEF F
<1>3. IsFiniteSet(Tagged(F, S)) /\ SumFunctionOnSet(BookedHours, S) = Cardinality(Tagged(F, S))
  BY <1>1, <1>2, SumCounts
<1>4. QED
  BY <1>3 DEF F

OfferedDays(range) ==
  {day \in Resource \X DatesOf(range) :
     /\ resources[day[1]].status = "active"
     /\ WeekdayOf(day[2]) \in resources[day[1]].operatingDays
     /\ ~IsClosedOn(day[1], day[2])}

LEMMA CapacityCount ==
  ASSUME IInv, NEW range \in Ranges
  PROVE  LET F == [day \in Resource \X DatesOf(range) |-> OpenHours(day[1])]
         IN  /\ IsFiniteSet(Tagged(F, OfferedDays(range)))
             /\ CapacityHours(range) = Cardinality(Tagged(F, OfferedDays(range)))
<1> DEFINE days == Resource \X DatesOf(range)
           F    == [day \in days |-> OpenHours(day[1])]
           f    == [day \in days |-> DailyHours(resources[day[1]])]
<1>1. range.from \in Int /\ range.to \in Int
  BY DatesAreNat DEF Ranges
<1>2. IsFiniteSet(DatesOf(range))
  BY <1>1, FS_Interval DEF DatesOf
<1>3. IsFiniteSet(days)
  BY <1>2, FiniteTables, FS_Product
<1>4. OfferedDays(range) \in SUBSET days
  BY DEF OfferedDays
<1>5. IsFiniteSet(OfferedDays(range))
  BY <1>3, <1>4, FS_Subset
<1>6. \A day \in OfferedDays(range) : IsFiniteSet(F[day]) /\ f[day] = Cardinality(F[day])
  BY <1>4, HoursOfDay
<1>7. CapacityHours(range) = SumFunctionOnSet(f, OfferedDays(range))
  BY DEF CapacityHours, OfferedDays
<1> HIDE DEF F, f
<1>8. /\ IsFiniteSet(Tagged(F, OfferedDays(range)))
      /\ SumFunctionOnSet(f, OfferedDays(range)) = Cardinality(Tagged(F, OfferedDays(range)))
  BY <1>5, <1>6, SumCounts
<1>9. QED
  BY <1>7, <1>8 DEF F

----------------------------------------------------------------------------
(* Utilization.                                                            *)

ScheduledRows(range) ==
  {b \in With(UtilizationStatuses, range) : resources[bookings[b].resource].status = "active"}

\* A visit that has not begun stands on a day on offer, within its hours.
LEMMA AheadIsOffered ==
  ASSUME IInv, SlotsAreOrdered, NEW range \in Ranges, IsAhead(range),
         NEW b \in ScheduledRows(range)
  PROVE  LET day == <<bookings[b].resource, bookings[b].slot.date>>
         IN  /\ day \in OfferedDays(range)
             /\ HoursOf(b) \subseteq OpenHours(bookings[b].resource)
<1> DEFINE r   == bookings[b].resource
           s   == bookings[b].slot
           row == resources[r]
<1>1. /\ b \in BookingId /\ bookings[b].status \in UtilizationStatuses
      /\ s.date \in DatesOf(range) /\ row.status = "active"
      /\ b \in With(UtilizationStatuses, range)
  BY DEF ScheduledRows, With, Within, DatesOf
<1>2. r \in Resource /\ s \in Slot
  BY <1>1 DEF IInv, TypeInv, TypeOK, BookingRow
<1>3. bookings[b].status \in ReviewableStatuses /\ now < SlotEnd(s)
  BY <1>1 DEF IsAhead, ReviewableStatuses
<1>4. IsOperational(row, s)
  BY <1>1, <1>3 DEF IInv, TablesAreSafe, UnendedBookingsAreOperational
<1>5. ~IsClosedOn(r, s.date)
  <2>1. bookings[b].status \in BlockingStatuses
    BY <1>3 DEF BlockingStatuses
  <2>2. IsClosedOn(r, s.date) => now >= SlotEnd(s)
    BY <1>1, <2>1 DEF IInv, TablesAreSafe, ClosedDatesAreFree
  <2>3. now \in Nat /\ SlotEnd(s) \in Int
    BY <1>2, SlotAssumption, InstantsAssumption
       DEF IInv, TypeInv, TypeOK, SlotEnd, CampusDateTime, SecondsPerDay, CampusOffset
  <2>4. QED
    BY <1>3, <2>2, <2>3
<1>6. <<r, s.date>> \in OfferedDays(range)
  BY <1>1, <1>2, <1>4, <1>5 DEF OfferedDays, IsOperational, WithinSchedule
<1>7. HoursOf(b) \subseteq OpenHours(r)
  <2>1. s.startTime \in Nat /\ s.endTime \in Nat
    BY <1>2, SlotAssumption
  <2>2. row.opensAt \in Nat /\ row.closesAt \in Nat
    <3>1. row.opensAt \in Hour /\ row.closesAt \in Hour
      BY <1>2 DEF IInv, TypeInv, TypeOK, ResourceRow
    <3>2. QED
      BY <3>1, HourShape
  <2>3. s.startTime >= row.opensAt /\ s.endTime <= row.closesAt
    BY <1>4 DEF IsOperational, WithinSchedule
  <2>4. \A x, y \in Nat : x <= y => x \div 60 <= y \div 60 /\ x \div 60 \in Nat /\ y \div 60 \in Nat
    OBVIOUS
  <2> HIDE DEF s, row
  <2>5. /\ row.opensAt \div 60 <= s.startTime \div 60
        /\ s.endTime \div 60 <= row.closesAt \div 60
        /\ row.opensAt \div 60 \in Nat /\ s.startTime \div 60 \in Nat
        /\ s.endTime \div 60 \in Nat /\ row.closesAt \div 60 \in Nat
    BY <2>1, <2>2, <2>3, <2>4
  <2>6. (s.startTime \div 60)..(s.endTime \div 60 - 1)
          \subseteq (row.opensAt \div 60)..(row.closesAt \div 60 - 1)
    BY <2>5
  <2>7. QED
    BY <2>6 DEF HoursOf, OpenHours, s, row
<1>8. QED
  BY <1>6, <1>7

\* Two visits of one resource that have not begun share no hour of a date.
LEMMA AheadIsDisjoint ==
  ASSUME IInv, SlotsAreOrdered, NEW range \in Ranges, IsAhead(range),
         NEW b \in ScheduledRows(range), NEW c \in ScheduledRows(range),
         bookings[b].resource = bookings[c].resource,
         bookings[b].slot.date = bookings[c].slot.date,
         NEW h \in HoursOf(b) \cap HoursOf(c)
  PROVE  b = c
<1> DEFINE s == bookings[b].slot
           u == bookings[c].slot
<1>1. /\ b \in BookingId /\ c \in BookingId
      /\ b \in With(UtilizationStatuses, range) /\ c \in With(UtilizationStatuses, range)
  BY DEF ScheduledRows, With, Within
<1>2. bookings[b].status \in BlockingStatuses /\ bookings[c].status \in BlockingStatuses
  BY <1>1 DEF IsAhead, BlockingStatuses, ReviewableStatuses
<1>3. s \in Slot /\ u \in Slot
  BY <1>1 DEF IInv, TypeInv, TypeOK, BookingRow
<1>4. /\ s.startTime \in Nat /\ s.endTime \in Nat /\ u.startTime \in Nat /\ u.endTime \in Nat
      /\ s.startTime % 60 = 0 /\ s.endTime % 60 = 0 /\ u.startTime % 60 = 0 /\ u.endTime % 60 = 0
  BY <1>3, SlotAssumption
<1>5. \A x, y \in Nat : /\ x % 60 = 0 => x = 60 * (x \div 60)
                        /\ x \div 60 \in Nat
  OBVIOUS
<1>6. /\ h \in (s.startTime \div 60)..(s.endTime \div 60 - 1)
      /\ h \in (u.startTime \div 60)..(u.endTime \div 60 - 1)
  BY DEF HoursOf
<1> DEFINE sf == s.startTime \div 60
           st == s.endTime \div 60
           uf == u.startTime \div 60
           ut == u.endTime \div 60
<1>7. /\ sf \in Nat /\ st \in Nat /\ uf \in Nat /\ ut \in Nat
      /\ s.startTime = 60 * sf /\ s.endTime = 60 * st
      /\ u.startTime = 60 * uf /\ u.endTime = 60 * ut
  BY <1>4, <1>5
<1>8. h \in sf..(st - 1) /\ h \in uf..(ut - 1)
  BY <1>6
<1> HIDE DEF sf, st, uf, ut
<1>9. sf < ut /\ uf < st
  BY <1>7, <1>8
<1>10. s.startTime < u.endTime /\ u.startTime < s.endTime
  BY <1>7, <1>9
<1>11. Overlap(s, u)
  BY <1>10 DEF Overlap
<1>12. QED
  BY <1>1, <1>2, <1>11 DEF IInv, TablesAreSafe, NoOverlap

\* Each hour booked is an hour on offer, and no two are the same.
LEMMA UtilizationBound ==
  ASSUME IInv, SlotsAreOrdered, NEW range \in Ranges, IsAhead(range)
  PROVE  /\ ScheduledHours(range) \in Nat /\ CapacityHours(range) \in Nat
         /\ ScheduledHours(range) <= CapacityHours(range)
<1> DEFINE H == [b \in BookingId |-> HoursOf(b)]
           F == [day \in Resource \X DatesOf(range) |-> OpenHours(day[1])]
           booked  == Tagged(H, ScheduledRows(range))
           offered == Tagged(F, OfferedDays(range))
           f == [p \in booked |->
                   <<<<bookings[p[1]].resource, bookings[p[1]].slot.date>>, p[2]>>]
<1>1. ScheduledRows(range) \in SUBSET Within(range)
  BY DEF ScheduledRows, With
<1>2. ScheduledHours(range) = Cardinality(booked) /\ IsFiniteSet(booked)
  BY <1>1, BookedHoursCount DEF IInv, ScheduledHours, ScheduledRows
<1>3. CapacityHours(range) = Cardinality(offered) /\ IsFiniteSet(offered)
  BY CapacityCount
<1>4. ASSUME NEW p \in booked
      PROVE  /\ p[1] \in ScheduledRows(range) /\ p[2] \in HoursOf(p[1])
             /\ p = <<p[1], p[2]>>
  <2>1. PICK b \in ScheduledRows(range) : p \in {b} \X H[b]
    BY DEF Tagged
  <2>2. H[b] = HoursOf(b)
    BY <1>1, WithinIsFinite DEF Within
  <2>3. QED
    BY <2>1, <2>2
<1>5. ASSUME NEW p \in booked
      PROVE  f[p] \in offered
  <2> DEFINE day == <<bookings[p[1]].resource, bookings[p[1]].slot.date>>
  <2>1. day \in OfferedDays(range) /\ p[2] \in OpenHours(bookings[p[1]].resource)
    BY <1>4, AheadIsOffered
  <2>2. day \in Resource \X DatesOf(range)
    BY <2>1 DEF OfferedDays
  <2>3. p[2] \in F[day]
    BY <2>1, <2>2
  <2>4. f[p] = <<day, p[2]>>
    OBVIOUS
  <2> HIDE DEF day, F, f
  <2>5. <<day, p[2]>> \in {day} \X F[day]
    BY <2>3
  <2>6. QED
    BY <2>1, <2>4, <2>5 DEF Tagged
<1>6. ASSUME NEW p \in booked, NEW q \in booked, f[p] = f[q]
      PROVE  p = q
  <2>1. /\ bookings[p[1]].resource = bookings[q[1]].resource
        /\ bookings[p[1]].slot.date = bookings[q[1]].slot.date
        /\ p[2] = q[2]
    BY <1>6
  <2>2. p[1] = q[1]
    BY <1>4, <2>1, AheadIsDisjoint
  <2>3. QED
    BY <1>4, <2>1, <2>2
<1> HIDE DEF booked, offered
<1>7. f \in Injection(booked, offered)
  BY <1>5, <1>6 DEF Injection, IsInjective
<1>8. Cardinality(booked) <= Cardinality(offered)
  BY <1>3, <1>7, FS_Injection
<1>9. QED
  BY <1>2, <1>3, <1>8, FS_CardinalityType

\* On dates ahead, no more hours are scheduled than the resources offer.
THEOREM UtilizationBounded == Spec => []UtilizationIsBounded
<1>1. IInv /\ SlotsAreOrdered => UtilizationIsBounded
  BY UtilizationBound DEF UtilizationIsBounded
<1>2. QED
  BY <1>1, InvariantHolds, OrderHolds, PTL

----------------------------------------------------------------------------
(* The other totals of the summary.                                        *)

\* There are no more bookings of each status, together, than bookings.
LEMMA StatusesAddUp ==
  ASSUME IInv, NEW range
  PROVE  SumFunction([s \in BookingStatus |-> Cardinality(With({s}, range))])
           = Cardinality(Within(range))
<1> DEFINE f == [s \in BookingStatus |-> Cardinality(With({s}, range))]
           F == [s \in BookingStatus |-> With({s}, range)]
           tagged == Tagged(F, BookingStatus)
           g == [p \in tagged |-> p[2]]
<1>1. IsFiniteSet(BookingStatus)
  <2>1. BookingStatus = {} \cup {"pending"} \cup {"confirmed"} \cup {"checked_in"}
          \cup {"completed"} \cup {"no_show"} \cup {"rejected"} \cup {"cancelled"}
    BY DEF BookingStatus
  <2>2. QED
    BY <2>1, FS_EmptySet, FS_AddElement
<1>2. \A s \in BookingStatus : IsFiniteSet(F[s]) /\ f[s] = Cardinality(F[s])
  <2>1. ASSUME NEW s \in BookingStatus
        PROVE  IsFiniteSet(With({s}, range))
    <3>1. With({s}, range) \in SUBSET Within(range)
      BY DEF With
    <3>2. QED
      BY <3>1, WithinIsFinite
  <2>2. QED
    BY <2>1
<1>3. SumFunction(f) = SumFunctionOnSet(f, BookingStatus)
  BY DEF SumFunction
<1>4. ASSUME NEW p \in tagged
      PROVE  /\ p[1] \in BookingStatus /\ p = <<p[1], p[2]>>
             /\ p[2] \in Within(range) /\ bookings[p[2]].status = p[1]
  <2>1. PICK s \in BookingStatus : p \in {s} \X F[s]
    BY DEF Tagged
  <2>2. F[s] = With({s}, range)
    OBVIOUS
  <2>3. QED
    BY <2>1, <2>2 DEF With
<1>5. ASSUME NEW b \in Within(range)
      PROVE  <<bookings[b].status, b>> \in tagged
  <2>1. bookings[b].status \in BookingStatus
    BY DEF Within, IInv, TypeInv, TypeOK, BookingRow
  <2>2. b \in F[bookings[b].status]
    BY <2>1 DEF With
  <2> HIDE DEF F
  <2>3. QED
    BY <2>1, <2>2 DEF Tagged
<1> HIDE DEF F, f
<1>6. IsFiniteSet(tagged) /\ SumFunctionOnSet(f, BookingStatus) = Cardinality(tagged)
  BY <1>1, <1>2, SumCounts
<1> HIDE DEF tagged
<1>7. g \in Injection(tagged, Within(range))
  BY <1>4 DEF Injection, IsInjective
<1>8. g \in Surjection(tagged, Within(range))
  <2>1. g \in [tagged -> Within(range)]
    BY <1>4
  <2>2. ASSUME NEW b \in Within(range)
        PROVE  \E p \in tagged : g[p] = b
    BY <1>5
  <2>3. QED
    BY <2>1, <2>2 DEF Surjection
<1>9. Cardinality(tagged) = Cardinality(Within(range))
  BY <1>6, <1>7, <1>8, FS_Surjection
<1>10. QED
  BY <1>3, <1>6, <1>9 DEF f

\* Each resource represented was booked at least once.
LEMMA RepresentedAreBooked ==
  ASSUME NEW range
  PROVE  /\ IsFiniteSet(BookedResources(range))
         /\ Cardinality(BookedResources(range)) <= Cardinality(Within(range))
<1> DEFINE S == With(DemandStatuses, range)
           T == BookedResources(range)
           f == [b \in S |-> bookings[b].resource]
<1>1. S \in SUBSET Within(range)
  BY DEF With
<1>2. IsFiniteSet(S) /\ Cardinality(S) <= Cardinality(Within(range)) /\ Cardinality(S) \in Nat
      /\ Cardinality(Within(range)) \in Nat
  BY <1>1, WithinIsFinite
<1>3. f \in Surjection(S, T)
  BY DEF BookedResources, Surjection
<1> HIDE DEF S, T, f
<1>4. IsFiniteSet(T) /\ Cardinality(T) <= Cardinality(S)
  BY <1>2, <1>3, FS_Surjection
<1>5. Cardinality(T) \in Nat
  BY <1>4, FS_CardinalityType
<1>6. Cardinality(T) <= Cardinality(Within(range))
  BY <1>2, <1>4, <1>5
<1>7. QED
  BY <1>4, <1>6 DEF T

LEMMA SomeOfAll ==
  ASSUME NEW range, NEW S \in SUBSET Within(range), S # {}
  PROVE  Cardinality(S) \in 1..Cardinality(Within(range))
<1>1. /\ IsFiniteSet(S) /\ Cardinality(S) \in Nat /\ Cardinality(Within(range)) \in Nat
      /\ Cardinality(S) <= Cardinality(Within(range))
  BY WithinIsFinite
<1>2. Cardinality(S) # 0
  BY <1>1, FS_EmptySet
<1>3. QED
  BY <1>1, <1>2

LEMMA DemandIsCounted ==
  ASSUME NEW range, NEW r
  PROVE  /\ DemandFor(r, range) \in SUBSET Within(range)
         /\ IsFiniteSet(DemandFor(r, range)) /\ Cardinality(DemandFor(r, range)) \in Nat
<1>1. DemandFor(r, range) \in SUBSET Within(range)
  BY DEF DemandFor, With
<1>2. QED
  BY <1>1, WithinIsFinite

\* A finite set can be listed by falling weight.
LEMMA ListingExists ==
  ASSUME NEW weight, NEW S, IsFiniteSet(S), \A x \in S : weight[x] \in Nat
  PROVE  \E q \in [1..Cardinality(S) -> S] :
           \A j \in 1..Cardinality(S) : \A i \in 1..(j - 1) :
             q[i] # q[j] /\ weight[q[i]] >= weight[q[j]]
<1> DEFINE Falls(q, n) == \A j \in 1..n : \A i \in 1..(j - 1) :
                            q[i] # q[j] /\ weight[q[i]] >= weight[q[j]]
           IsListed(s) == \E q \in [1..Cardinality(s) -> s] : Falls(q, Cardinality(s))
           unlisted == {n \in Nat : \E s \in SUBSET S : n = Cardinality(s) /\ ~IsListed(s)}
<1>1. \A s \in SUBSET S : IsFiniteSet(s) /\ Cardinality(s) \in Nat
  BY FS_Subset, FS_CardinalityType
<1>2. ASSUME NEW s \in SUBSET S, s = {}
      PROVE  IsListed(s)
  <2>1. Cardinality(s) = 0
    BY <1>2, FS_EmptySet
  <2>2. [i \in 1..0 |-> i] \in [1..0 -> s]
    OBVIOUS
  <2>3. Falls([i \in 1..0 |-> i], 0)
    OBVIOUS
  <2>4. QED
    BY <2>1, <2>2, <2>3
<1>3. ASSUME NEW s \in SUBSET S, NEW x \in s, \A y \in s : weight[x] <= weight[y],
             IsListed(s \ {x})
      PROVE  IsListed(s)
  <2> DEFINE n == Cardinality(s)
             m == Cardinality(s \ {x})
  <2>1. n \in Nat /\ m \in Nat /\ n = m + 1
    BY <1>1, FS_RemoveElement
  <2>2. PICK q \in [1..m -> s \ {x}] : Falls(q, m)
    BY <1>3
  <2> DEFINE k == [i \in 1..n |-> IF i = n THEN x ELSE q[i]]
  <2> HIDE DEF n, m
  <2>3. \A i \in 1..m : i \in 1..n /\ i # n /\ k[i] = q[i] /\ q[i] \in s \ {x}
    BY <2>1, <2>2
  <2>4. n \in 1..n /\ k[n] = x
    BY <2>1
  <2>5. k \in [1..n -> s]
    BY <2>1, <2>2
  <2> HIDE DEF k
  <2>6. ASSUME NEW j \in 1..n, NEW i \in 1..(j - 1)
        PROVE  k[i] # k[j] /\ weight[k[i]] >= weight[k[j]]
    <3>1. i \in 1..m /\ k[i] = q[i] /\ q[i] \in s \ {x}
      BY <2>1, <2>3
    <3>2. CASE j = n
      <4>1. weight[q[i]] \in Nat /\ weight[x] \in Nat /\ weight[x] <= weight[q[i]]
        BY <1>3, <3>1
      <4>2. QED
        BY <2>4, <3>1, <3>2, <4>1
    <3>3. CASE j # n
      <4>1. j \in 1..m /\ k[j] = q[j]
        BY <2>1, <2>3, <3>3
      <4>2. QED
        BY <2>2, <3>1, <4>1
    <3>4. QED
      BY <3>2, <3>3
  <2>7. Falls(k, n)
    BY <2>6
  <2>8. QED
    BY <2>5, <2>7 DEF n
<1>4. unlisted = {}
  <2> SUFFICES ASSUME unlisted # {}
               PROVE  FALSE
    OBVIOUS
  <2> HIDE DEF IsListed
  <2>1. PICK n \in unlisted : \A k \in unlisted : n <= k
    BY LeastNatural
  <2>2. PICK s \in SUBSET S : n = Cardinality(s) /\ ~IsListed(s)
    BY <2>1
  <2>3. s # {}
    BY <1>2, <2>2
  <2> DEFINE weights == {weight[y] : y \in s}
  <2>4. weights \in SUBSET Nat /\ weights # {}
    BY <2>3
  <2> HIDE DEF weights
  <2>5. PICK w \in weights : \A v \in weights : w <= v
    BY <2>4, LeastNatural
  <2>6. PICK x \in s : w = weight[x]
    BY DEF weights
  <2>7. \A y \in s : weight[x] <= weight[y]
    BY <2>5, <2>6 DEF weights
  <2>8. s \ {x} \in SUBSET S /\ Cardinality(s \ {x}) \in Nat /\ Cardinality(s \ {x}) = n - 1
    BY <1>1, <2>2, FS_RemoveElement
  <2>9. Cardinality(s \ {x}) \notin unlisted
    BY <2>1, <2>8
  <2>10. IsListed(s \ {x})
    BY <2>8, <2>9
  <2>11. QED
    BY <1>3, <2>2, <2>7, <2>10
<1>5. IsListed(S)
  <2> HIDE DEF IsListed
  <2>1. QED
    BY <1>1, <1>4
<1>6. QED
  BY <1>5

\* The rows of popular resources: one for each, by falling demand.
LEMMA PopularIsListed ==
  ASSUME NEW range
  PROVE  LET rows == PopularRows(range)
         IN  /\ rows \in Seq(Range(rows)) /\ Len(rows) = Cardinality(BookedResources(range))
             /\ \A j \in 1..Len(rows) :
                  /\ rows[j].id \in BookedResources(range)
                  /\ rows[j] = PopularResource(rows[j].id, range)
                  /\ \A i \in 1..(j - 1) : /\ rows[i].id # rows[j].id
                                           /\ rows[i].bookingCount >= rows[j].bookingCount
<1> DEFINE T == BookedResources(range)
           n == Cardinality(T)
           weight == [r \in T |-> Cardinality(DemandFor(r, range))]
           Falls(q) == \A j \in 1..n : \A i \in 1..(j - 1) :
                         /\ q[i] # q[j]
                         /\ Cardinality(DemandFor(q[i], range)) >= Cardinality(DemandFor(q[j], range))
           by == CHOOSE q \in [1..n -> T] : Falls(q)
           rows == PopularRows(range)
<1>1. IsFiniteSet(T) /\ n \in Nat
  BY RepresentedAreBooked, FS_CardinalityType
<1>2. \A r \in T : weight[r] \in Nat
  BY DemandIsCounted
<1>3. \E q \in [1..n -> T] : Falls(q)
  <2> HIDE DEF T
  <2>1. PICK q \in [1..n -> T] :
          \A j \in 1..n : \A i \in 1..(j - 1) : q[i] # q[j] /\ weight[q[i]] >= weight[q[j]]
    <3> HIDE DEF weight
    <3>1. QED
      BY <1>1, <1>2, ListingExists
  <2>2. ASSUME NEW j \in 1..n, NEW i \in 1..(j - 1)
        PROVE  i \in 1..n
    BY <1>1
  <2>3. \A i \in 1..n : weight[q[i]] = Cardinality(DemandFor(q[i], range))
    BY <2>1
  <2> HIDE DEF n, weight
  <2>4. Falls(q)
    BY <2>1, <2>2, <2>3
  <2>5. QED
    BY <2>4
<1>4. by \in [1..n -> T] /\ Falls(by)
  <2> HIDE DEF Falls, T, n
  <2>1. QED
    BY <1>3
<1>5. rows = [i \in 1..n |-> PopularResource(by[i], range)]
  BY DEF PopularRows
<1> HIDE DEF T, n, by, rows
<1>6. /\ rows \in Seq(Range(rows)) /\ Len(rows) = n
      /\ DOMAIN rows = 1..n
  BY <1>1, <1>5 DEF Range
<1>7. \A j \in 1..n : /\ rows[j] = PopularResource(by[j], range) /\ rows[j].id = by[j]
                      /\ rows[j].bookingCount = Cardinality(DemandFor(by[j], range))
                      /\ by[j] \in T
  BY <1>4, <1>5 DEF PopularResource
<1>8. ASSUME NEW j \in 1..n, NEW i \in 1..(j - 1)
      PROVE  rows[i].id # rows[j].id /\ rows[i].bookingCount >= rows[j].bookingCount
  <2>1. i \in 1..n
    BY <1>1
  <2>2. QED
    BY <1>4, <1>7, <2>1
<1>9. QED
  BY <1>6, <1>7, <1>8 DEF T, n, rows

\* A popular resource has bookings, and they take some hours.
LEMMA PopularIsBooked ==
  ASSUME IInv, SlotsAreOrdered, NEW range, NEW r \in BookedResources(range)
  PROVE  /\ PopularResource(r, range).bookingCount \in 1..Cardinality(Within(range))
         /\ PopularResource(r, range).bookedHours > 0
<1> DEFINE S == DemandFor(r, range)
           H == [b \in BookingId |-> HoursOf(b)]
<1>1. S \in SUBSET Within(range)
  BY DemandIsCounted
<1>2. PICK c \in S : TRUE
  BY DEF BookedResources, DemandFor
<1>3. Cardinality(S) \in 1..Cardinality(Within(range))
  BY <1>1, <1>2, SomeOfAll
<1>4. /\ IsFiniteSet(Tagged(H, S))
      /\ SumFunctionOnSet(BookedHours, S) = Cardinality(Tagged(H, S))
  BY <1>1, BookedHoursCount DEF IInv
<1>5. Tagged(H, S) # {}
  <2>1. c \in BookingId /\ Exists(c)
    BY <1>1, <1>2 DEF Within, Exists
  <2>2. PICK h : h \in HoursOf(c)
    BY <2>1, HoursOfRow DEF IInv
  <2>3. h \in H[c]
    BY <2>1, <2>2
  <2> HIDE DEF H, S
  <2>4. <<c, h>> \in Tagged(H, S)
    BY <1>2, <2>3 DEF Tagged
  <2>5. QED
    BY <2>4
<1> DEFINE n == Cardinality(Tagged(H, S))
<1>6. n \in Nat /\ n # 0
  BY <1>4, <1>5, FS_EmptySet, FS_CardinalityType
<1>7. /\ PopularResource(r, range).bookingCount = Cardinality(S)
      /\ PopularResource(r, range).bookedHours = n
  BY <1>4 DEF PopularResource
<1> HIDE DEF n, S
<1>8. n > 0
  BY <1>6
<1>9. QED
  BY <1>3, <1>7, <1>8

\* The bookings of the resources listed are no more than all bookings.
LEMMA PopularAddsUp ==
  ASSUME NEW range, NEW m \in Nat, m <= Len(PopularRows(range))
  PROVE  SumFunction([i \in 1..m |-> PopularRows(range)[i].bookingCount])
           <= Cardinality(Within(range))
<1> DEFINE rows == PopularRows(range)
           f == [i \in 1..m |-> rows[i].bookingCount]
           F == [i \in 1..m |-> DemandFor(rows[i].id, range)]
           tagged == Tagged(F, 1..m)
           g == [p \in tagged |-> p[2]]
<1>1. \A j \in 1..m : j \in 1..Len(rows)
  <2>1. Len(rows) \in Nat
    BY PopularIsListed, RepresentedAreBooked, FS_CardinalityType
  <2>2. QED
    BY <2>1
<1>2. \A j \in 1..m : /\ rows[j] = PopularResource(rows[j].id, range)
                      /\ \A i \in 1..(j - 1) : rows[i].id # rows[j].id
  BY <1>1, PopularIsListed
<1>3. \A i \in 1..m : IsFiniteSet(F[i]) /\ f[i] = Cardinality(F[i])
  <2>1. ASSUME NEW i \in 1..m
        PROVE  rows[i].bookingCount = Cardinality(DemandFor(rows[i].id, range))
    <3> DEFINE r == rows[i].id
    <3>1. rows[i] = PopularResource(r, range)
      BY <1>2
    <3> HIDE DEF r
    <3>2. rows[i].bookingCount = Cardinality(DemandFor(r, range))
      BY <3>1 DEF PopularResource
    <3>3. QED
      BY <3>2 DEF r
  <2>2. QED
    BY <2>1, DemandIsCounted
<1>4. SumFunction(f) = SumFunctionOnSet(f, 1..m)
  BY DEF SumFunction
<1>5. ASSUME NEW p \in tagged
      PROVE  /\ p[1] \in 1..m /\ p = <<p[1], p[2]>>
             /\ p[2] \in Within(range) /\ bookings[p[2]].resource = rows[p[1]].id
  <2>1. PICK i \in 1..m : p \in {i} \X F[i]
    BY DEF Tagged
  <2>2. F[i] = DemandFor(rows[i].id, range)
    OBVIOUS
  <2> HIDE DEF F, rows
  <2>3. p[1] = i /\ p = <<p[1], p[2]>> /\ p[2] \in F[i]
    BY <2>1
  <2>4. p[2] \in Within(range) /\ bookings[p[2]].resource = rows[i].id
    BY <2>2, <2>3, DemandIsCounted DEF DemandFor
  <2>5. QED
    BY <2>3, <2>4
<1>6. ASSUME NEW p \in tagged, NEW q \in tagged, p[2] = q[2]
      PROVE  p = q
  <2>1. rows[p[1]].id = rows[q[1]].id /\ p[1] \in 1..m /\ q[1] \in 1..m
    BY <1>5, <1>6
  <2>2. ~(p[1] < q[1]) /\ ~(q[1] < p[1])
    BY <1>2, <2>1
  <2>3. p[1] = q[1]
    BY <2>1, <2>2
  <2>4. QED
    BY <1>5, <1>6, <2>3
<1> HIDE DEF F, f, rows
<1>7. IsFiniteSet(1..m)
  BY FS_Interval
<1>8. IsFiniteSet(tagged) /\ SumFunctionOnSet(f, 1..m) = Cardinality(tagged)
  BY <1>3, <1>7, SumCounts
<1> HIDE DEF tagged
<1>9. g \in Injection(tagged, Within(range))
  BY <1>5, <1>6 DEF Injection, IsInjective
<1>10. IsFiniteSet(Within(range))
  BY WithinIsFinite
<1>11. Cardinality(tagged) <= Cardinality(Within(range))
  BY <1>9, <1>10, FS_Injection
<1>12. QED
  BY <1>4, <1>8, <1>11 DEF f, rows

\* No booking covers the hour that begins at 23:00.
LEMMA PeaksAreBooked ==
  ASSUME IInv, SlotsAreOrdered, NEW range, NEW h \in 0..23, BookedDuring(h, range) # {}
  PROVE  h <= 22 /\ Cardinality(BookedDuring(h, range)) \in 1..Cardinality(Within(range))
<1>1. BookedDuring(h, range) \in SUBSET Within(range)
  BY DEF BookedDuring, With
<1>2. PICK b \in BookedDuring(h, range) : TRUE
  OBVIOUS
<1>3. b \in BookingId /\ Exists(b) /\ h \in HoursOf(b)
  BY <1>1, <1>2 DEF BookedDuring, Within, Exists, HoursOf
<1>4. h \in 0..22
  BY <1>3, HoursOfRow DEF IInv
<1>5. QED
  BY <1>1, <1>4, SomeOfAll

\* The browser accepts every summary of days ahead, and every other summary
\* unless all capacity of the range has been taken away (parseAnalyticsSummary).
THEOREM SummariesAccepted == Spec => []SummariesAreAccepted
<1>1. ASSUME IInv, SlotsAreOrdered, NEW range \in Ranges
      PROVE  ParsesSummary(Summary(range)) \/ (~IsAhead(range) /\ CapacityHours(range) = 0)
  <2> DEFINE s == Summary(range)
             rows == PopularRows(range)
             m == Least(Len(rows), PopularSize)
  <2>1. /\ s.total = Cardinality(Within(range))
        /\ s.cancelled = Cardinality(With({"cancelled"}, range))
        /\ s.scheduled = ScheduledHours(range)
        /\ s.capacity = CapacityHours(range)
        /\ s.represented = Len(rows)
        /\ s.statuses = [t \in BookingStatus |-> Cardinality(With({t}, range))]
        /\ s.popular = SubSeq(rows, 1, m)
        /\ s.peaks = {[hour |-> h, bookingCount |-> Cardinality(BookedDuring(h, range))] :
                         h \in {k \in 0..23 : BookedDuring(k, range) # {}}}
    BY DEF Summary
  <2> HIDE DEF s, rows, m
  <2>2. s.cancelled <= s.total
    <3>1. With({"cancelled"}, range) \in SUBSET Within(range)
      BY DEF With
    <3>2. QED
      BY <2>1, <3>1, WithinIsFinite
  <2>3. s.represented <= s.total
    BY <2>1, PopularIsListed, RepresentedAreBooked DEF rows
  <2>4. SumFunction(s.statuses) = s.total
    BY <1>1, <2>1, StatusesAddUp
  <2>5. s.statuses["cancelled"] = s.cancelled
    BY <2>1 DEF BookingStatus
  <2>6. /\ rows \in Seq(Range(rows)) /\ Len(rows) \in Nat
        /\ m \in Nat /\ m <= Len(rows)
    <3>1. rows \in Seq(Range(rows))
      BY PopularIsListed DEF rows
    <3>2. QED
      BY <3>1, PopularSizeIsPositive DEF Least, m
  <2>7. /\ Len(s.popular) = m /\ DOMAIN s.popular = 1..m
        /\ \A i \in 1..m : s.popular[i] = rows[i] /\ i \in 1..Len(rows)
    BY <2>1, <2>6
  <2>8. \A i \in DOMAIN s.popular : /\ s.popular[i].bookingCount \in 1..s.total
                                    /\ s.popular[i].bookedHours > 0
    <3> SUFFICES ASSUME NEW i \in 1..m
                 PROVE  rows[i].bookingCount \in 1..s.total /\ rows[i].bookedHours > 0
      BY <2>7
    <3> DEFINE r == rows[i].id
    <3>1. r \in BookedResources(range) /\ rows[i] = PopularResource(r, range)
      BY <2>7, PopularIsListed DEF rows
    <3> HIDE DEF r
    <3>2. QED
      BY <1>1, <2>1, <3>1, PopularIsBooked
  <2>9. \A j \in DOMAIN s.popular : \A i \in 1..(j - 1) :
          /\ s.popular[i].id # s.popular[j].id
          /\ s.popular[i].bookingCount >= s.popular[j].bookingCount
    <3> SUFFICES ASSUME NEW j \in 1..m, NEW i \in 1..(j - 1)
                 PROVE  /\ s.popular[i].id # s.popular[j].id
                        /\ s.popular[i].bookingCount >= s.popular[j].bookingCount
      BY <2>7
    <3>1. i \in 1..m
      BY <2>6
    <3>2. rows[i].id # rows[j].id /\ rows[i].bookingCount >= rows[j].bookingCount
      BY <2>7, PopularIsListed DEF rows
    <3>3. QED
      BY <2>7, <3>1, <3>2
  <2>10. SumFunction([i \in DOMAIN s.popular |-> s.popular[i].bookingCount]) <= s.total
    <3>1. [i \in DOMAIN s.popular |-> s.popular[i].bookingCount]
            = [i \in 1..m |-> rows[i].bookingCount]
      BY <2>7
    <3>2. SumFunction([i \in 1..m |-> rows[i].bookingCount]) <= Cardinality(Within(range))
      BY <2>6, PopularAddsUp DEF rows
    <3>3. QED
      BY <2>1, <3>1, <3>2, Zenon
  <2>11. /\ \A p \in s.peaks : p.hour <= 22 /\ p.bookingCount \in 1..s.total
         /\ \A p, q \in s.peaks : p.hour = q.hour => p = q
    BY <1>1, <2>1, PeaksAreBooked
  <2>12. IsAhead(range) /\ s.capacity = 0 => s.scheduled = 0
    <3> SUFFICES ASSUME IsAhead(range), s.capacity = 0
                 PROVE  s.scheduled = 0
      OBVIOUS
    <3>1. s.scheduled \in Nat /\ s.scheduled <= s.capacity
      BY <1>1, <2>1, UtilizationBound
    <3>2. QED
      BY <3>1
  <2>13. Len(s.popular) = Least(s.represented, PopularSize)
    BY <2>1, <2>7 DEF m
  <2>14. ParsesSummary(s) \/ (~IsAhead(range) /\ s.capacity = 0)
    BY <2>2, <2>3, <2>4, <2>5, <2>8, <2>9, <2>10, <2>11, <2>12, <2>13 DEF ParsesSummary
  <2>15. QED
    BY <2>1, <2>14 DEF s
<1>2. IInv /\ SlotsAreOrdered => SummariesAreAccepted
  BY <1>1 DEF SummariesAreAccepted
<1>3. QED
  BY <1>2, InvariantHolds, OrderHolds, PTL
=============================================================================
