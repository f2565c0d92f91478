--------------------------- MODULE MCBookingViews ---------------------------
(***************************************************************************)
(* Instances of BookingViews for TLC: one booking of any of three slots    *)
(* goes through its whole life, and every state is shown at every clock    *)
(* reading.  The readings are on both sides of the check-in window, of the *)
(* ends, of midnight, and inside the minute after an end.                  *)
(***************************************************************************)
EXTENDS MCBookingSystem, StaffQueues

Midnight == SlotOf(1, 0, 1)
ViewSlots == {Midnight, Early, SlotOf(1, 10, 11)}

ViewInstants == {CampusDateTime(1, 0) - 900, At(0, 30, 0), At(1, 0, 0), At(8, 45, 0),
                 At(9, 59, 59), At(10, 0, 30), At(11, 0, 0), CampusDateTime(2, 60)}

AroundTheClock == {[row EXCEPT !.opensAt = 0] : row \in EitherApproval}

\* Bound: a queue is asked for in the last second before an end, and may be
\* read after it; meanwhile bookings are changed by one request at a time.
QueueInstants == {At(9, 59, 59)}

WhileRead ==
  reading'.phase # "none" =>
    /\ reading'.clock \in QueueInstants
    /\ \A t, u \in Txn : t # u => "idle" \in {txn'[t].phase, txn'[u].phase}

BoundedQueueSpec == QueueInit /\ [][QueueNext /\ WhileRead]_QueueVars
============================================================================
