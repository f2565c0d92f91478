--------------------------- MODULE MCBookingSystem ---------------------------
(***************************************************************************)
(* Instances of BookingSystem for TLC.  Day 1 is the Monday after the      *)
(* reference Sunday.  Slots and clock readings are chosen around the       *)
(* boundaries the rules compare: before and at the check-in window, inside *)
(* the booking, within the minute of its end and after it.                 *)
(***************************************************************************)
EXTENDS BookingInvariant, TLC

At(hour, minute, second) == CampusDateTime(1, hour * 60 + minute) + second

SlotOf(date, from, to) == [date |-> date, startTime |-> from * 60, endTime |-> to * 60]

Early == SlotOf(1, 9, 10)
Long  == SlotOf(1, 9, 11)
Late  == SlotOf(1, 10, 11)

MCSlots  == {Early, Long, Late}
TwoSlots == {Early, Long}
OneSlot  == {Early}

\* Before every window, the first second of the window of Early and Long, the
\* end of Early, which is the start of Late and inside Long, and after all.
MCInstants == {At(8, 0, 0), At(8, 45, 0), At(10, 0, 0), At(11, 0, 30)}

Row(requiresApproval) ==
  [status |-> "active", operatingDays |-> {1, 2}, opensAt |-> 9 * 60,
   closesAt |-> 11 * 60, requiresApproval |-> requiresApproval]

EitherApproval == {Row(TRUE), Row(FALSE)}
WithApproval   == {Row(TRUE)}

Nothing == [operatingDays |-> {}, opensAt |-> {}, closesAt |-> {}, requiresApproval |-> {}]

\* Two partial updates of the schedule that are valid one by one but not
\* together; the second also drops the review of new bookings.
AnyPatches == {[Nothing EXCEPT !.opensAt = {10 * 60}, !.operatingDays = {{1}}],
               [Nothing EXCEPT !.closesAt = {10 * 60}, !.requiresApproval = {FALSE}]}

\* Before the booking, inside it and after it.
FewInstants == {At(8, 45, 0), At(9, 30, 0), At(10, 0, 0)}

\* On both sides of the end of Early.
EndInstants == {At(8, 45, 0), At(10, 0, 0)}

MCClosureDates == {1}

LifecycleOps == BookingOps \cup {"create"}
WaitingOps   == {"create", "approve", "cancel", "updateStatus"}
CheckInOps   == {"create", "requestCheckIn", "confirmCheckIn", "updateStatus"}
AllOps       == LifecycleOps \cup ResourceOps

Symmetry == Permutations(Txn) \cup Permutations(BookingId) \cup Permutations(ClosureId)
============================================================================
