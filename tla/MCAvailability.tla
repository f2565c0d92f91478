--------------------------- MODULE MCAvailability ---------------------------
(***************************************************************************)
(* Instances of Availability for TLC: two bookings of three slots between  *)
(* nine and twelve come and go under changes of the schedule, the status   *)
(* and the closures of the resource, and every state is looked at from     *)
(* before the first hour, inside it and on the boundaries.  Where a second *)
(* resource is in use too, the bookings spread over both, one more than a  *)
(* summary lists, and nothing else changes.                                *)
(***************************************************************************)
EXTENDS MCBookingSystem, Availability, Analytics

OpenToNoon == {[row EXCEPT !.closesAt = 12 * 60, !.status = s] :
                 row \in WithApproval, s \in {"active", "inactive"}}

HourSlots == {Early, Long, SlotOf(1, 11, 12)}

\* Every interval between eight and one, also reversed and empty ones.
MCAsked == [date : {1}, startTime : {h * 60 : h \in 8 .. 13},
            endTime : {h * 60 : h \in 8 .. 13}]

HourInstants == {At(8, 45, 0), At(9, 0, 0), At(9, 59, 59), At(11, 0, 0)}

AnyOps == {"create", "approve", "requestCheckIn", "confirmCheckIn", "update",
           "updateStatus", "createClosure", "deleteClosure"}

First == CHOOSE r \in Resource : TRUE

\* Bound: one resource is in use at first, and administrators change it only
\* when the other is not.
OneIsChanged ==
  \A t \in Txn : Op(t) \in ResourceOps =>
    /\ txn[t].request.resource = First
    /\ \A r \in Resource \ {First} : resources[r].status = "inactive"

BoundedAvailabilitySpec ==
  Init /\ resources[First].status = "active" /\ [][Next /\ OneIsChanged']_vars
============================================================================
