---------------------------- MODULE CatalogImport ----------------------------
(***************************************************************************)
(* The scripts catalog:import and catalog:clean beside the creation of     *)
(* bookings by the service: one transaction that rewrites the resources    *)
(* and closures of the catalog, against others that book them.             *)
(*                                                                         *)
(* The script takes SHARE on the table of bookings and then one resource   *)
(* after the other; a creation takes its resource and then, to insert,     *)
(* ROW EXCLUSIVE on the table.  The two orders make a cycle PostgreSQL      *)
(* breaks by aborting one of them.  A statement reads the bookings that    *)
(* were committed when it began, however long it waits for a row.          *)
(* Bookings that overlap are BookingSystem's.                              *)
(***************************************************************************)
EXTENDS Integers, Sequences, FiniteSets

CONSTANTS
  Resource,
  Catalog,    \* sequence of entries [resource, status, days, opens, closes,
              \* offsets]
  Initial,    \* the row of each resource, None when there is none
  Creator,    \* requests POST /bookings
  Wanted,     \* what each of them asks for: [resource, date, start, end]
  Booked,     \* bookings that exist already
  Today,      \* the campus date, a day number; day 0 is a Sunday
  MaxRuns,    \* bound: runs of the script
  None

VARIABLES
  row,        \* committed rows: [status, days, opens, closes], None when absent
  closed,     \* committed closures <<resource, date>>
  bookings,   \* committed bookings: [resource, date, start, end, active, of]
  owner,      \* who holds the lock of each row of resources
  share,      \* the script holds SHARE on bookings
  creation,   \* of each creator: "sent", "checked", "inserted", "ok", "failed"
  script,     \* [op, phase, at, seen, rows, closures]: the transaction of the script
  runs

locks == <<owner, share>>
vars  == <<row, closed, bookings, owner, share, creation, script, runs>>

Script == "script"
Off    == [op |-> "none", phase |-> "off", at |-> 0, seen |-> {}, rows |-> row, closures |-> {}]

RowOf(entry) == [status |-> entry.status, days |-> entry.days, opens |-> entry.opens, closes |-> entry.closes]

Rows == {RowOf(Catalog[i]) : i \in DOMAIN Catalog} \cup {Initial[r] : r \in Resource}

Booking == [resource : Resource, date : Int, start : Int, end : Int, active : BOOLEAN,
            of : Creator \cup {None}]

Transaction == [op : {"import", "clean", "none"},
                phase : {"off", "locking", "next", "waiting", "closing"},
                at : 0..(Len(Catalog) + 1),
                seen : SUBSET Booking,
                rows : [Resource -> Rows \cup {None}],
                closures : SUBSET (Resource \X Int)]

TypeOK ==
  /\ row \in [Resource -> Rows \cup {None}]
  /\ closed \subseteq Resource \X Int
  /\ \A k \in closed \cup script.closures : k[2] > Today
  /\ bookings \subseteq Booking
  /\ owner \in [Resource -> Creator \cup {Script, None}]
  /\ share \in BOOLEAN
  /\ creation \in [Creator -> {"sent", "checked", "inserted", "ok", "failed"}]
  /\ script \in Transaction
  /\ runs \in 0..MaxRuns

Init ==
  /\ row = Initial /\ closed = {} /\ bookings = Booked
  /\ owner = [r \in Resource |-> None] /\ share = FALSE
  /\ creation = [c \in Creator |-> "sent"]
  /\ runs = 0
  /\ script = Off

----------------------------------------------------------------------------
(* The catalog.                                                            *)

\* validateCatalog: a catalog that fails is not imported at all.
ValidCatalog ==
  /\ \A i, j \in DOMAIN Catalog : Catalog[i].resource = Catalog[j].resource => i = j
  /\ \A i \in DOMAIN Catalog :
       /\ Catalog[i].days # {} /\ Catalog[i].days \subseteq 0..6
       /\ Catalog[i].opens < Catalog[i].closes
       /\ \A o \in Catalog[i].offsets : o \in 1..365

Weekday(date) == date % 7

\* resolveClosureDate: the next operating day at or after the offset.
ResolveClosureDate(offset, days) ==
  LET operating == {k \in 0..6 : Weekday(Today + offset + k) \in days}
  IN Today + offset + (CHOOSE k \in operating : \A l \in operating : k <= l)

Active(r, seen) == {b \in seen : b.resource = r /\ b.active}

----------------------------------------------------------------------------
(* BookingsService.create, and the operations that end a booking.          *)

Fits(b, r) ==
  /\ row[r] # None /\ row[r].status = "active"
  /\ Weekday(b.date) \in row[r].days
  /\ row[r].opens <= b.start /\ b.end <= row[r].closes

Fail(c) == creation' = [creation EXCEPT ![c] = "failed"]

\* The resource FOR UPDATE, its hours and its closures.
LockResource(c) ==
  LET w == Wanted[c] IN
  /\ creation[c] = "sent" /\ owner[w.resource] = None
  /\ \/ /\ Fits(w, w.resource) /\ <<w.resource, w.date>> \notin closed
        /\ creation' = [creation EXCEPT ![c] = "checked"]
        /\ owner' = [owner EXCEPT ![w.resource] = c]
     \/ /\ ~(Fits(w, w.resource) /\ <<w.resource, w.date>> \notin closed)
        /\ Fail(c) /\ UNCHANGED owner
  /\ UNCHANGED <<row, closed, bookings, share, script, runs>>

\* The INSERT waits while the script holds SHARE.
Insert(c) ==
  /\ creation[c] = "checked" /\ ~share
  /\ creation' = [creation EXCEPT ![c] = "inserted"]
  /\ UNCHANGED <<row, closed, bookings, locks, script, runs>>

Unlock(p) == owner' = [r \in Resource |-> IF owner[r] = p THEN None ELSE owner[r]]

CommitBooking(c) ==
  /\ creation[c] = "inserted"
  /\ creation' = [creation EXCEPT ![c] = "ok"]
  /\ bookings' = bookings \cup
       {[resource |-> Wanted[c].resource, date |-> Wanted[c].date, start |-> Wanted[c].start,
         end |-> Wanted[c].end, active |-> TRUE, of |-> c]}
  /\ Unlock(c)
  /\ UNCHANGED <<row, closed, share, script, runs>>

\* A cancellation, a rejection, a check-out or a no-show: an UPDATE of the
\* bookings, which waits while the script holds SHARE.
EndBooking(b) ==
  /\ b \in bookings /\ b.active /\ ~share
  /\ bookings' = (bookings \ {b}) \cup {[b EXCEPT !.active = FALSE]}
  /\ UNCHANGED <<row, closed, locks, creation, script, runs>>

----------------------------------------------------------------------------
(* The scripts.                                                            *)

Run(op) ==
  /\ ValidCatalog
  /\ script.phase = "off" /\ runs < MaxRuns
  /\ runs' = runs + 1
  /\ script' = [op |-> op, phase |-> "locking", at |-> 1, seen |-> {}, rows |-> row,
                closures |-> {}]
  /\ UNCHANGED <<row, closed, bookings, locks, creation>>

\* Mutant: the bookings are not locked.
LockNothing ==
  /\ script.phase = "locking"
  /\ script' = [script EXCEPT !.phase = "next"]
  /\ UNCHANGED <<row, closed, bookings, locks, creation, runs>>

\* LOCK TABLE bookings IN SHARE MODE waits for who has written to it.
LockTable ==
  /\ script.phase = "locking" /\ \A c \in Creator : creation[c] # "inserted"
  /\ share' = TRUE
  /\ script' = [script EXCEPT !.phase = "next"]
  /\ UNCHANGED <<row, closed, bookings, owner, creation, runs>>

\* A statement begins: it sees the bookings committed by now.
Begin ==
  /\ script.phase = "next" /\ script.at <= Len(Catalog)
  /\ script' = [script EXCEPT !.phase = "waiting", !.seen = bookings]
  /\ UNCHANGED <<row, closed, bookings, locks, creation, runs>>

Entry == Catalog[script.at]

\* The row, once it is free, is locked, whether it is then changed or not.
Take == owner[Entry.resource] = None /\ owner' = [owner EXCEPT ![Entry.resource] = Script]

Write(new, phase) ==
  /\ script' = [script EXCEPT !.rows[Entry.resource] = new, !.phase = phase,
                              !.at = IF phase = "next" THEN @ + 1 ELSE @]
  /\ UNCHANGED <<row, closed, bookings, share, creation, runs>>

\* INSERT ... ON CONFLICT DO UPDATE: a resource with active bookings is kept.
Upsert ==
  /\ script.phase = "waiting" /\ script.op = "import"
  /\ Take
  /\ Write(IF Active(Entry.resource, script.seen) = {} THEN RowOf(Entry) ELSE row[Entry.resource],
           "closing")

\* The closures of the entry, except on dates that are booked or closed.
AddClosures ==
  /\ script.phase = "closing"
  /\ LET dates == {ResolveClosureDate(o, Entry.days) : o \in Entry.offsets}
         free  == {d \in dates : \A b \in Active(Entry.resource, bookings) : b.date # d}
     IN script' = [script EXCEPT !.closures = @ \cup {<<Entry.resource, d>> : d \in free},
                                 !.phase = "next", !.at = @ + 1]
  /\ UNCHANGED <<row, closed, bookings, locks, creation, runs>>

\* DELETE: a resource with any booking is kept.
Delete ==
  /\ script.phase = "waiting" /\ script.op = "clean"
  /\ Take
  /\ Write(IF \E b \in script.seen : b.resource = Entry.resource THEN row[Entry.resource] ELSE None,
           "next")

\* COMMIT; the closures of a deleted resource go with it.
CommitScript ==
  /\ script.phase = "next" /\ script.at > Len(Catalog)
  /\ row' = script.rows
  /\ closed' = {c \in closed \cup script.closures : script.rows[c[1]] # None}
  /\ Unlock(Script) /\ share' = FALSE
  /\ script' = [Off EXCEPT !.rows = script.rows]
  /\ UNCHANGED <<bookings, creation, runs>>

\* Mutant: a transaction that fails is left open, with its locks.
LeaveOpen ==
  /\ script.phase # "off"
  /\ script' = Off
  /\ UNCHANGED <<row, closed, bookings, locks, creation, runs>>

\* ROLLBACK, also of a script that dies.
Rollback ==
  /\ script.phase # "off"
  /\ Unlock(Script) /\ share' = FALSE
  /\ script' = Off
  /\ UNCHANGED <<row, closed, bookings, creation, runs>>

\* The script waits for the row of a creation that waits for the bookings.
Cycle(c) ==
  /\ script.phase = "waiting" /\ owner[Entry.resource] = c
  /\ creation[c] = "checked" /\ share

\* PostgreSQL finds the cycle and aborts one of the two.
AbortCreation(c) ==
  /\ Cycle(c) /\ Fail(c) /\ Unlock(c)
  /\ UNCHANGED <<row, closed, bookings, share, script, runs>>

AbortScript == (\E c \in Creator : Cycle(c)) /\ Rollback

Next ==
  \/ \E c \in Creator : LockResource(c) \/ Insert(c) \/ CommitBooking(c) \/ AbortCreation(c)
  \/ \E b \in bookings : EndBooking(b)
  \/ \E op \in {"import", "clean"} : Run(op)
  \/ LockTable \/ Begin \/ Upsert \/ AddClosures \/ Delete \/ CommitScript \/ Rollback

Spec == Init /\ [][Next]_vars

\* PostgreSQL serves its lock queues in order, and finds cycles.
Fairness ==
  /\ \A c \in Creator : SF_vars(Insert(c)) /\ WF_vars(CommitBooking(c))
  /\ WF_vars(LockTable \/ Begin \/ AddClosures \/ CommitScript)
  /\ SF_vars(Upsert \/ Delete)
  /\ WF_vars((\E c \in Creator : AbortCreation(c)) \/ AbortScript)

FairSpec == Spec /\ Fairness

----------------------------------------------------------------------------
(* Properties.                                                             *)

\* Whatever the order in which the script and the creations come to their
\* locks, an active booking keeps a resource that exists, is open at its hours
\* and is not closed on its date: "the checks below cannot race with a booking
\* created mid-import".
ImportStrandsNoBooking ==
  \A b \in bookings : b.active => Fits(b, b.resource) /\ <<b.resource, b.date>> \notin closed

\* A script and a creation that wait for each other do not wait forever: the
\* script ends, and so does every creation.
ImportAndCreationsEnd ==
  /\ script.phase # "off" ~> script.phase = "off"
  /\ \A c \in Creator : creation[c] \in {"checked", "inserted"} ~> creation[c] \in {"ok", "failed"}

----------------------------------------------------------------------------
(* What makes the first one inductive: the locks.                          *)

\* A creation that has checked its resource holds it.
CreationsFit ==
  \A c \in Creator : creation[c] \in {"checked", "inserted"} =>
    LET w == Wanted[c] IN
    /\ owner[w.resource] = c
    /\ Fits(w, w.resource)
    /\ <<w.resource, w.date>> \notin closed

\* Nothing is written to the bookings while the script holds them.
ShareFits ==
  /\ share <=> script.phase \in {"next", "waiting", "closing"}
  /\ share => \A c \in Creator : creation[c] # "inserted"
  /\ script.phase = "waiting" => script.seen = bookings

\* The script changes rows it holds, of resources without active bookings, and
\* closes them on dates without.
WritesFit ==
  /\ ~share => script.rows = row /\ script.closures = {}
  /\ \A r \in Resource : \/ script.rows[r] = row[r]
                         \/ owner[r] = Script /\ Active(r, bookings) = {}
  /\ \A k \in script.closures : /\ owner[k[1]] = Script
                                /\ \A b \in Active(k[1], bookings) : b.date # k[2]
  /\ script.phase = "closing" => owner[Entry.resource] = Script

\* The transaction is where its operation has come to in a valid catalog.
ScriptFits ==
  /\ script.phase # "off" => ValidCatalog /\ script.op \in {"import", "clean"} /\ script.at >= 1
  /\ script.phase \in {"waiting", "closing"} => script.at \in DOMAIN Catalog
  /\ script.phase = "closing" => script.op = "import"

ImportInv ==
  /\ TypeOK
  /\ ScriptFits
  /\ ImportStrandsNoBooking
  /\ CreationsFit
  /\ ShareFits
  /\ WritesFit
=============================================================================
