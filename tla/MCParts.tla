------------------------------- MODULE MCParts -------------------------------
(***************************************************************************)
(* Small instances of the parts: one tab, two resources with a closure,    *)
(* two or three accounts, one person who signs in, and a catalog of two    *)
(* entries beside two creations.                                           *)
(***************************************************************************)
EXTENDS Parts, TLC

CONSTANTS
  r1, r2, c1, s1, s2,
  MaxUser,        \* the accounts of the directory
  Opened          \* bound: instants a booking's page is opened at

Accounts == 1..MaxUser

\* Within two milliseconds; the third account is later than the second, and in
\* the same millisecond.
Creation == [u \in Accounts |-> IF u = 2 THEN 1001 ELSE 1002]
OthersEdit == {2}
UserRoles == {"student", "admin"}

Everyone == [role |-> AnyValue, access |-> AnyValue]
Students == [role |-> "student", access |-> "active"]
Filters  == {Everyone, Students}

ClosedResource == (c1 :> r1)

\* Day 1 is today, a Monday.
OldRow  == [status |-> "active", days |-> {1, 2, 3}, opens |-> 8, closes |-> 12]
Rows    == (r1 :> OldRow @@ r2 :> None)
Entries == <<[resource |-> r1, status |-> "active", days |-> {2, 3}, opens |-> 9,
              closes |-> 11, offsets |-> {1}],
             [resource |-> r2, status |-> "active", days |-> {1}, opens |-> 8,
              closes |-> 10, offsets |-> {2, 3}]>>
Requests == (s1 :> [resource |-> r1, date |-> 2, start |-> 8, end |-> 9]
             @@ s2 :> [resource |-> r2, date |-> 15, start |-> 8, end |-> 9])
Bookings == {[resource |-> r1, date |-> 3, start |-> 9, end |-> 10, active |-> TRUE,
              of |-> None]}

\* Bound: the parts that stay start from one initial state.
OneStart ==
  /\ Init
  /\ part # "users" => UM_filter = Everyone /\ \A u \in DirectoryUser : UM_row[u] = UM!Admin
  /\ BP_now \in Opened
  /\ part # "booking" => BP_viewer = "student" /\ BP_booking.status = "pending" /\ BP_now = 0
  /\ part # "session" => SE_known = {}

BoundedSpec == OneStart /\ [][Next]_vars

BoundedFairSpec == BoundedSpec /\ Fairness
=============================================================================
