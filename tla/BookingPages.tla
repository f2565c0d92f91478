----------------------------- MODULE BookingPages -----------------------------
(***************************************************************************)
(* The page of one booking, as its student sees it (StudentBookingDetail)  *)
(* or as staff see it (StaffBookingDetail), with the API clients of both.  *)
(*                                                                         *)
(* A page keeps the booking it was rendered with in a state of its own,    *)
(* which an answer replaces and a refresh does not: only another key makes *)
(* a refreshed page start from the booking that was read.  Meanwhile time  *)
(* passes and others act on the booking, the same person in another tab    *)
(* included.  BookingSystem has the operations in detail; here each is one *)
(* step at the server.                                                     *)
(***************************************************************************)
EXTENDS Naturals

\* Instants that matter: before the check-in window, in it and before the
\* start, before the end, after the end.
Instant == 0..3
Start   == 2
End     == 3
Window  == {1, 2}

Status == {"pending", "confirmed", "checked_in", "completed", "no_show", "rejected", "cancelled"}

Viewer == {"student", "staff"}
Op     == {"cancel", "check-in", "approve", "reject", "confirm-check-in", "check-out", "no-show"}
OpsOf  == [student |-> {"cancel", "check-in"},
           staff |-> {"approve", "reject", "confirm-check-in", "check-out", "no-show"}]

VARIABLES
  viewer,   \* who has the page open
  booking,  \* the row: status, and whether a check-in code has been generated
  now,
  shown,    \* the booking state of the component
  props,    \* the booking its key was made of
  asking,   \* the confirmation of a cancellation or the rejection form is open
  request,  \* the PATCH of each operation
  error,    \* the code of the error on display
  load      \* the router.refresh() under way

vars == <<viewer, booking, now, shown, props, asking, request, error, load>>

Row  == [status : Status, code : BOOLEAN]
View == [status : Status, code : BOOLEAN, at : Instant]

\* A response: the row, with flags that follow from the instant it was read at.
Read(bk, clock) == [status |-> bk.status, code |-> bk.code, at |-> clock]

\* Mutant: a booking can be cancelled after its code was generated.
CancelsAfterCode(v) == v.status \in {"pending", "confirmed"} /\ v.at < Start

CanCancel(v)  == v.status \in {"pending", "confirmed"} /\ ~v.code /\ v.at < Start
CanReview(v)  == v.status = "pending" /\ v.at < End
CanCheckIn(v) == v.status = "confirmed" /\ ~v.code /\ v.at \in Window
CanConfirm(v) == v.status = "confirmed" /\ v.code /\ v.at \in Window
CanNoShow(v)  == v.status = "confirmed" /\ v.at >= End

\* The operations a booking admits, at the server and by the flags of a page.
Admits(v) ==
  (IF CanCancel(v) THEN {"cancel"} ELSE {})
    \cup (IF CanCheckIn(v) THEN {"check-in"} ELSE {})
    \cup (IF CanReview(v) THEN {"approve", "reject"} ELSE {})
    \cup (IF CanConfirm(v) THEN {"confirm-check-in"} ELSE {})
    \cup (IF v.status = "checked_in" THEN {"check-out"} ELSE {})
    \cup (IF CanNoShow(v) THEN {"no-show"} ELSE {})

\* The status each operation leaves, which the API client expects of its answer.
After == [op \in Op |->
  CASE op = "cancel" -> "cancelled"              [] op = "check-in" -> "confirmed"
    [] op = "approve" -> "confirmed"             [] op = "reject" -> "rejected"
    [] op = "confirm-check-in" -> "checked_in"   [] op = "check-out" -> "completed"
    [] op = "no-show" -> "no_show"]

Done(op) == [status |-> After[op], code |-> op = "check-in"]

NoRequest == [state |-> "none", view |-> [status |-> "pending", code |-> FALSE, at |-> 0]]
NoLoad    == NoRequest

TypeOK ==
  /\ viewer \in Viewer
  /\ booking \in Row /\ now \in Instant
  /\ shown \in View /\ props \in View
  /\ asking \in BOOLEAN
  /\ request \in [Op -> [state : {"none", "sent", "done", "conflict", "failed"}, view : View]]
  /\ error \in {"none", "conflict", "other"}
  /\ load \in [state : {"none", "sent", "read"}, view : View]
  /\ \A op \in Op \ OpsOf[viewer] : request[op] = NoRequest
  /\ booking.code => booking.status = "confirmed"

Init ==
  /\ viewer \in Viewer
  /\ booking \in Row /\ booking.status \in {"pending", "confirmed", "checked_in"}
  /\ booking.code => booking.status = "confirmed"
  /\ now \in Instant
  /\ shown = Read(booking, now) /\ props = shown
  /\ asking = FALSE /\ error = "none"
  /\ request = [op \in Op |-> NoRequest]
  /\ load = NoLoad

----------------------------------------------------------------------------
(* Time, and everyone else.                                                *)

Tick ==
  /\ now < End
  /\ now' = now + 1
  /\ UNCHANGED <<viewer, booking, shown, props, asking, request, error, load>>

Others(op) ==
  /\ op \in Admits(Read(booking, now))
  /\ booking' = Done(op)
  /\ UNCHANGED <<viewer, now, shown, props, asking, request, error, load>>

----------------------------------------------------------------------------
(* The controls.                                                           *)

Busy(op) == request[op].state # "none"

\* isSaving of the staff page; the student page has a flag for each request.
Saving == \E op \in OpsOf["staff"] : Busy(op)

\* "Cancel booking" or "Reject with reason", and back.
Ask ==
  /\ ~asking
  /\ \/ viewer = "student" /\ CanCancel(shown)
     \/ viewer = "staff" /\ CanReview(shown) /\ ~Saving
  /\ asking' = TRUE
  /\ UNCHANGED <<viewer, booking, now, shown, props, request, error, load>>

Keep ==
  /\ asking
  /\ IF viewer = "student"
       THEN CanCancel(shown) /\ ~Busy("cancel") /\ UNCHANGED error
       ELSE CanReview(shown) /\ ~Saving /\ error' = "none"
  /\ asking' = FALSE
  /\ UNCHANGED <<viewer, booking, now, shown, props, request, load>>

\* The button of an operation is there and enabled.
StudentOffers(op) ==
  /\ op \in OpsOf["student"] \cap Admits(shown)
  /\ op = "cancel" => asking
  /\ ~Busy(op)

StaffOffers(op) ==
  /\ op \in OpsOf["staff"] \cap Admits(shown)
  /\ op = "reject" => asking
  /\ op = "approve" => ~asking
  /\ ~Saving

Offered(op) == IF viewer = "student" THEN StudentOffers(op) ELSE StaffOffers(op)

\* requestCheckIn, cancel, operate and review, up to their await.
Send(op) ==
  /\ Offered(op)
  /\ request' = [request EXCEPT ![op].state = "sent"]
  /\ error' = "none"
  /\ UNCHANGED <<viewer, booking, now, shown, props, asking, load>>

\* The code or the reason is refused before anything is sent; a reason leaves
\* the error code of an earlier answer.
Invalid(op) ==
  /\ Offered(op)
  /\ op \in {"confirm-check-in", "reject"}
  /\ error' = IF op = "reject" /\ error = "conflict" THEN "conflict" ELSE "other"
  /\ UNCHANGED <<viewer, booking, now, shown, props, asking, request, load>>

\* Answered with 409: the booking does not admit it, or the code is wrong.
Conflicts(op) == op \notin Admits(Read(booking, now)) \/ op = "confirm-check-in"

Serve(op) ==
  /\ request[op].state = "sent"
  /\ \/ /\ op \in Admits(Read(booking, now))
        /\ booking' = Done(op)
        /\ request' = [request EXCEPT ![op] = [state |-> "done", view |-> Read(booking', now)]]
     \/ /\ Conflicts(op)
        /\ request' = [request EXCEPT ![op].state = "conflict"]
        /\ UNCHANGED booking
  /\ UNCHANGED <<viewer, now, shown, props, asking, error, load>>

\* The request or its answer is lost, or refused for another reason.
Lose(op) ==
  /\ request[op].state \in {"sent", "done"}
  /\ request' = [request EXCEPT ![op] = [NoRequest EXCEPT !.state = "failed"]]
  /\ UNCHANGED <<viewer, booking, now, shown, props, asking, error, load>>

Answer(op) ==
  /\ request[op].state = "done"
  /\ shown' = request[op].view
  /\ request' = [request EXCEPT ![op] = NoRequest]
  /\ asking' = (asking /\ op # "cancel")
  /\ UNCHANGED <<viewer, booking, now, props, error, load>>

\* Mutant: a review that got no answer leaves its page saving.
FailIfAnswered(op) ==
  /\ request[op].state = "conflict"
  /\ request' = [request EXCEPT ![op] = NoRequest]
  /\ error' = "conflict"
  /\ UNCHANGED <<viewer, booking, now, shown, props, asking, load>>

\* catch and finally; a rejection keeps its form open.
Fail(op) ==
  /\ request[op].state \in {"conflict", "failed"}
  /\ request' = [request EXCEPT ![op] = NoRequest]
  /\ error' = IF request[op].state = "conflict" THEN "conflict" ELSE "other"
  /\ asking' = IF op \in {"approve", "reject"} THEN op = "reject" ELSE asking
  /\ UNCHANGED <<viewer, booking, now, shown, props, load>>

----------------------------------------------------------------------------
(* "Refresh booking details"                                               *)

Refresh ==
  /\ error = "conflict"
  /\ load' = [NoLoad EXCEPT !.state = "sent"]
  /\ UNCHANGED <<viewer, booking, now, shown, props, asking, request, error>>

ReadPage ==
  /\ load.state = "sent"
  /\ load' = [state |-> "read", view |-> Read(booking, now)]
  /\ UNCHANGED <<viewer, booking, now, shown, props, asking, request, error>>

\* Mutant: the key of the student's page leaves out canCancel.
KeyWithoutCancel(v) ==
  IF viewer = "student"
    THEN <<v.status, CanCheckIn(v), v.at >= End, v.code>>
    ELSE <<v.status, CanConfirm(v), CanNoShow(v)>>

\* The key of the component in each page.
Key(v) ==
  IF viewer = "student"
    THEN <<v.status, CanCancel(v), CanCheckIn(v), v.at >= End, v.code>>
    ELSE <<v.status, CanConfirm(v), CanNoShow(v)>>

\* The refreshed page arrives.  With another key the component starts anew,
\* and what the old one still waits for changes nothing on display.
Render ==
  /\ load.state = "read"
  /\ load' = NoLoad
  /\ IF Key(load.view) = Key(props)
       THEN UNCHANGED <<shown, props, asking, request, error>>
       ELSE /\ shown' = load.view /\ props' = load.view
            /\ asking' = FALSE /\ error' = "none"
            /\ request' = [op \in Op |-> NoRequest]
  /\ UNCHANGED <<viewer, booking, now>>

Next ==
  \/ Tick \/ Ask \/ Keep \/ Refresh \/ ReadPage \/ Render
  \/ \E op \in Op : \/ Others(op) \/ Send(op) \/ Invalid(op)
                    \/ Serve(op) \/ Lose(op) \/ Answer(op) \/ Fail(op)

Spec == Init /\ [][Next]_vars

\* The server answers or the connection fails, and the handler goes on.
Fairness == \A op \in Op : WF_vars(Serve(op) \/ Lose(op) \/ Answer(op) \/ Fail(op))

FairSpec == Spec /\ Fairness

----------------------------------------------------------------------------
(* Properties.                                                             *)

Rank(v) ==
  CASE v.status = "pending" -> 0
    [] v.status = "confirmed" -> IF v.code THEN 2 ELSE 1
    [] v.status = "checked_in" -> 3
    [] OTHER -> 4

IsLater(u, v) == u.status = v.status \/ Rank(u) < Rank(v)

\* An answer never takes the page back to an earlier state of the booking.  The
\* student can have a cancellation and a check-in under way at once, whose
\* answers may come in any order: a cancelled booking would get its code back,
\* if the server did not admit only one of the two (requestCheckIn, cancel).
AnswersMoveForward ==
  [][\A op \in Op : Answer(op) => IsLater(shown, shown')]_vars

\* A page refreshed after a conflict offers nothing that the booking that was
\* read does not admit, unless an answer has taken it further meanwhile: the key
\* changes with everything the student's page offers (app/bookings/[id]/page.tsx).
\* The key of the staff page leaves out canReview, so a request whose review
\* window has ended stays on offer.
RefreshWithdraws ==
  [][Render /\ Rank(shown') <= Rank(load.view) =>
       \A op \in OpsOf[viewer] \cap Admits(shown') :
         op \in Admits(load.view) \/ op \in {"approve", "reject"}]_vars

\* Whatever becomes of a request, its button is enabled again or gone.
RequestsEnd == \A op \in Op : request[op].state # "none" ~> request[op].state = "none"

----------------------------------------------------------------------------
(* What makes the first two inductive.                                     *)

\* Nothing on its way to the page, and nothing on it, is ahead of the booking.
ReadsArePast ==
  /\ Rank(shown) <= Rank(booking)
  /\ load.state = "read" => Rank(load.view) <= Rank(booking)

\* Staff have one request under way, and of the student's at most one is
\* admitted; what its answer says is news to the page.
AnswersAreNews ==
  /\ viewer = "staff" => \A p, q \in Op : Busy(p) /\ Busy(q) => p = q
  /\ \A p, q \in Op : request[p].state = "done" /\ request[q].state = "done" => p = q
  /\ \A op \in Op : request[op].state = "done" =>
       /\ request[op].view.status = After[op]
       /\ request[op].view.code = (op = "check-in")
       /\ Rank(shown) < Rank(request[op].view)
       /\ Rank(request[op].view) <= Rank(booking)

\* What the page shows is what it was rendered with, or an answer since.
ShownSince ==
  shown # props => Rank(props) < Rank(shown) /\ (viewer = "staff" => ~shown.code)

PageInv == TypeOK /\ ReadsArePast /\ AnswersAreNews /\ ShownSince
=============================================================================
