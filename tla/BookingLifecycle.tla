-------------------------- MODULE BookingLifecycle --------------------------
(***************************************************************************)
(* What the booking service promises, without transactions, locks or time. *)
(* A booking is filed for a claim (a resource and an interval), moves      *)
(* through its statuses along the edges below one atomic step at a time,   *)
(* and while it blocks, nobody else holds a clashing claim.  A check-in    *)
(* code is issued at most once, is spent at most once, and once issued the *)
(* booking can no longer be cancelled.                                     *)
(*                                                                         *)
(* BookingSystem implements this specification.                            *)
(***************************************************************************)
CONSTANTS
  BookingId,
  Claim,
  Clash(_, _)   \* two claims cannot be held at the same time

VARIABLES
  status,       \* the status of every booking, "absent" before it is filed
  claim,        \* what it claims
  code          \* "none", "issued" or "spent"

vars == <<status, claim, code>>

Blocking == {"pending", "confirmed", "checked_in"}
Final    == {"completed", "no_show", "rejected", "cancelled"}

TypeOK ==
  /\ status \in [BookingId -> Blocking \cup Final \cup {"absent"}]
  /\ claim \in [BookingId -> Claim]
  /\ code \in [BookingId -> {"none", "issued", "spent"}]

Init ==
  /\ status = [b \in BookingId |-> "absent"]
  /\ claim \in [BookingId -> Claim]
  /\ code = [b \in BookingId |-> "none"]

Become(b, s) == status' = [status EXCEPT ![b] = s]

File(b) ==
  /\ status[b] = "absent"
  /\ \E c \in Claim :
       /\ \A d \in BookingId : status[d] \in Blocking => ~Clash(claim[d], c)
       /\ claim' = [claim EXCEPT ![b] = c]
  /\ \E s \in {"pending", "confirmed"} : Become(b, s)
  /\ UNCHANGED code

Review(b) ==
  /\ status[b] = "pending"
  /\ \E s \in {"confirmed", "rejected"} : Become(b, s)
  /\ UNCHANGED <<claim, code>>

Cancel(b) ==
  /\ status[b] \in {"pending", "confirmed"}
  /\ code[b] = "none"
  /\ Become(b, "cancelled")
  /\ UNCHANGED <<claim, code>>

IssueCode(b) ==
  /\ status[b] = "confirmed"
  /\ code[b] = "none"
  /\ code' = [code EXCEPT ![b] = "issued"]
  /\ UNCHANGED <<status, claim>>

CheckIn(b) ==
  /\ status[b] = "confirmed"
  /\ code[b] = "issued"
  /\ Become(b, "checked_in")
  /\ code' = [code EXCEPT ![b] = "spent"]
  /\ UNCHANGED claim

CheckOut(b) ==
  /\ status[b] = "checked_in"
  /\ Become(b, "completed")
  /\ UNCHANGED <<claim, code>>

NoShow(b) ==
  /\ status[b] = "confirmed"
  /\ Become(b, "no_show")
  /\ code' = [code EXCEPT ![b] = IF @ = "issued" THEN "spent" ELSE @]
  /\ UNCHANGED claim

Next == \E b \in BookingId :
  \/ File(b) \/ Review(b) \/ Cancel(b)
  \/ IssueCode(b) \/ CheckIn(b) \/ CheckOut(b) \/ NoShow(b)

Spec == Init /\ [][Next]_vars

ExclusiveClaims ==
  \A b, d \in BookingId :
    b # d /\ status[b] \in Blocking /\ status[d] \in Blocking
      => ~Clash(claim[b], claim[d])
=============================================================================
