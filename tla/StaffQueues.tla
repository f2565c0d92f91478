----------------------------- MODULE StaffQueues -----------------------------
(***************************************************************************)
(* A page of a staff queue, read while the bookings change.                *)
(*                                                                         *)
(* findPendingForStaff and findOperationsForStaff read the clock once and  *)
(* then call findAndCount, which is several statements and no transaction: *)
(* the ids of the page, their rows, and a COUNT for the total.  The flags  *)
(* of the items are evaluated at the clock reading, and the browser shows  *)
(* an error page unless the items and the total fit together.              *)
(***************************************************************************)
EXTENDS BookingViews, FiniteSets

CONSTANTS
  QueueSize,   \* the items of a page
  QueuePages   \* bound: the pages staff ask for

ASSUME QueueAssumption ==
  /\ IsFiniteSet(BookingId)
  /\ QueueSize \in Nat \ {0} /\ QueuePages \subseteq Nat \ {0}

VARIABLE
  reading   \* one request: its clock reading, the ids it has found and then the
            \* rows it has read, whether the browser takes each item, the total,
            \* and (for the property) whether its queue has stayed the same

Queues == {"pending", "operations"}

Selected(queue, clock) ==
  IF queue = "pending" THEN PendingForStaff(clock) ELSE OperationsForStaff(clock)

ParsesItem(queue, v, clock) ==
  IF queue = "pending" THEN ParsesPendingItem(v)
  ELSE ParsesOperationsItem(v, CampusDateOf(clock))

Offset(page) == (page - 1) * QueueSize

\* The places of a page in a list of n: skip and take.
Places(page, n) == {i \in 1..n : Offset(page) < i /\ i <= Offset(page) + QueueSize}

\* parseStaffQueuePage: as many items as the total leaves for the page.
ParsesStaffQueuePage(page, total, itemCount) ==
  itemCount = IF Offset(page) >= total THEN 0
              ELSE IF total - Offset(page) < QueueSize THEN total - Offset(page)
              ELSE QueueSize

----------------------------------------------------------------------------
(* The request.                                                            *)

NoReading ==
  [phase |-> "none", queue |-> "pending", page |-> 1, clock |-> Never, ids |-> {},
   fits |-> TRUE, total |-> 0, steady |-> FALSE]

\* evaluatedAt, and the campus date of the operations.
Ask(queue, page) ==
  /\ reading.phase \in {"none", "answered"}
  /\ reading' = [NoReading EXCEPT !.phase = "asked", !.queue = queue, !.page = page,
                                  !.clock = now, !.steady = TRUE]

\* The ids of the page; which ones depends on the order.
FindIds ==
  /\ reading.phase = "asked"
  /\ LET listed == Selected(reading.queue, reading.clock)
     IN \E ids \in SUBSET listed :
          /\ Cardinality(ids) = Cardinality(Places(reading.page, Cardinality(listed)))
          /\ reading' = [reading EXCEPT !.phase = "found", !.ids = ids]

\* Their rows, as far as the conditions still hold; `fits`: the browser takes
\* every item with the flags of staffResponse at one clock reading.
RowsAt(evaluatedAt) ==
  /\ reading.phase = "found"
  /\ LET rows == reading.ids \cap Selected(reading.queue, reading.clock)
         fits == \A b \in rows : ParsesItem(reading.queue, StaffView(bookings[b], evaluatedAt),
                                            reading.clock)
     IN reading' = [reading EXCEPT !.phase = "read", !.ids = rows, !.fits = fits]

\* Mutant: the controller reads the clock again.
ReadRowsLater == RowsAt(now)

\* The reading that has chosen the rows is returned with them.
ReadRows == RowsAt(reading.clock)

\* COUNT; for the last rows of a list TypeORM may take what it has read instead.
CountRows ==
  /\ reading.phase = "read"
  /\ LET read == Cardinality(reading.ids)
     IN \/ reading' = [reading EXCEPT !.phase = "answered",
                                      !.total = Cardinality(Selected(reading.queue, reading.clock))]
        \/ /\ read < QueueSize /\ (read > 0 \/ reading.page = 1)
           /\ reading' = [reading EXCEPT !.phase = "answered",
                                         !.total = Offset(reading.page) + read]

----------------------------------------------------------------------------
(* Beside everything the bookings go through.                              *)

\* No booking enters or leaves the queue.
Unmoved ==
  \E queue \in {reading.queue}, clock \in {reading.clock} :
    Selected(queue, clock)' = Selected(queue, clock)

QueueInit == Init /\ reading = NoReading

QueueNext ==
  \/ Next /\ reading' = [reading EXCEPT !.steady = @ /\ Unmoved]
  \/ /\ \/ \E queue \in Queues, page \in QueuePages : Ask(queue, page)
        \/ FindIds \/ ReadRows \/ CountRows
     /\ UNCHANGED vars

QueueVars == <<vars, reading>>

QueueSpec == QueueInit /\ [][QueueNext]_QueueVars

----------------------------------------------------------------------------
(* Properties.                                                             *)

\* Which lists turn into an error page.  The student's timeline never does,
\* whatever clock reading its rows are split by.  The pending queue selects
\* exactly the requests staff can still review, also inside the minute in
\* which one ends.  No item of a queue is ever refused, although its row is
\* read after the clock and after its id.  And while no booking enters or
\* leaves the queue, the page has the true total (the comment of
\* findPendingForStaff) and parseStaffQueuePage accepts it; it may refuse a page
\* whose queue changes between the statements.
ListsAreReadable ==
  /\ \A clock \in Instants :
       /\ ParsesTimeline(Timeline(clock).upcoming, Timeline(clock).history)
       /\ PendingForStaff(clock) = {b \in BookingId : CanReview(bookings[b], clock)}
  /\ reading.phase = "answered" =>
       /\ reading.fits
       /\ reading.steady =>
            /\ reading.total = Cardinality(Selected(reading.queue, reading.clock))
            /\ ParsesStaffQueuePage(reading.page, reading.total, Cardinality(reading.ids))

----------------------------------------------------------------------------
(* What a page rests on.                                                   *)

ReadingOK ==
  /\ reading \in [phase : {"none", "asked", "found", "read", "answered"}, queue : Queues,
                  page : Nat \ {0}, clock : Instants \cup {Never}, ids : SUBSET BookingId,
                  fits : BOOLEAN, total : Nat, steady : BOOLEAN]
  /\ IF reading.phase = "none" THEN ~ reading.steady ELSE reading.clock \in Instants

\* The rows of a queue that stays the same are those that belong on the page.
RowsBelong ==
  reading.steady /\ reading.phase \in {"found", "read", "answered"} =>
    /\ reading.ids \subseteq Selected(reading.queue, reading.clock)
    /\ Cardinality(reading.ids) =
         Cardinality(Places(reading.page, Cardinality(Selected(reading.queue, reading.clock))))

TotalIsTrue ==
  reading.steady /\ reading.phase = "answered" =>
    reading.total = Cardinality(Selected(reading.queue, reading.clock))

ReadingInv == ReadingOK /\ reading.fits /\ RowsBelong /\ TotalIsTrue

============================================================================
