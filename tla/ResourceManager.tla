--------------------------- MODULE ResourceManager ---------------------------
(***************************************************************************)
(* One administrator's tab on the resource catalog                         *)
(* (admin-resource-manager.tsx with its API client): the rows of a page,   *)
(* the editor of one resource and the list of its closures, while other    *)
(* administrators change the same data.                                    *)
(*                                                                         *)
(* A request is sent, served and answered in three steps; its answer may   *)
(* be lost after it was served.  The closures of a resource are loaded by  *)
(* an effect that runs when the edited resource changes, at the same time  *)
(* as the requests.  A committed change of a resource is a new version of  *)
(* its row; what the change was is left to BookingSystem.                  *)
(***************************************************************************)
EXTENDS Naturals

CONSTANTS
  Resource,    \* resources, those that can be created included
  Initial,     \* the resources that exist at first
  Closure,     \* ids of closures; an id is used once
  ClosureOf,   \* the resource a closure belongs to
  Loads,       \* bound: the loads of closures that can be in flight
  MaxVersion,  \* bound: changes of a resource
  None

Kind == {"save", "closure", "status"}   \* isSaving, closurePending, statusPendingId

VARIABLES
  version,   \* the version of each resource, 0 when there is none
  closed,    \* the closures of each resource
  unused,    \* ids no closure has had yet
  shown,     \* the version each row displays, 0 for a resource that is not listed
  editing,   \* editingId
  form,      \* what the form holds, see Forms
  list,      \* how often each closure is in the list
  loading,   \* closuresLoading
  load,      \* the loads the effect has started
  request,   \* the request of each kind that has not been answered
  conflict   \* the active-booking conflict on display

server == <<version, closed, unused>>
editor == <<editing, form, list, loading, load>>
vars   == <<server, shown, editor, request, conflict>>

NoLoad    == [phase |-> "idle", of |-> None, live |-> FALSE, items |-> {}]
NoRequest == [op |-> "none", on |-> None, item |-> None, answer |-> "pending", version |-> 0]
NoConflict == [kind |-> "none", on |-> None]
NoItems   == [c \in Closure |-> 0]

\* As filled from a row, changed since, changed to what validate refuses, or
\* sent and not answered.
Forms == {"loaded", "edited", "invalid", "sent"}

Operation == {"none", "create", "update", "status", "add", "remove"}
Outcome   == {"pending", "ok", "bookings", "refused", "network"}

TypeOK ==
  /\ version \in [Resource -> 0..MaxVersion]
  /\ closed \in [Resource -> SUBSET Closure] /\ unused \subseteq Closure
  /\ shown \in [Resource -> 0..MaxVersion]
  /\ editing \in Resource \cup {None} /\ form \in Forms
  /\ list \in [Closure -> 0..2]
  /\ loading \in BOOLEAN
  /\ load \in [Loads -> [phase : {"idle", "sent", "read"},
                         of : Resource \cup {None}, live : BOOLEAN, items : SUBSET Closure]]
  /\ request \in [Kind -> [op : Operation, on : Resource \cup {None}, item : Closure \cup {None},
                           answer : Outcome, version : 0..MaxVersion]]
  /\ \A k \in Kind : request[k].op = "none" <=> request[k].on = None
  /\ conflict \in [kind : Kind, on : Resource] \cup {NoConflict}

Init ==
  /\ version = [r \in Resource |-> IF r \in Initial THEN 1 ELSE 0]
  /\ closed = [r \in Resource |-> {}] /\ unused = Closure
  /\ shown = version
  /\ editing = None /\ form = "invalid" /\ list = NoItems /\ loading = FALSE
  /\ load = [l \in Loads |-> NoLoad]
  /\ request = [k \in Kind |-> NoRequest]
  /\ conflict = NoConflict

\* The page is opened or reloaded: it has its state from the render.  What the
\* server still makes of the requests of the old page, others may do as well.
Open ==
  /\ shown' = version
  /\ editing' = None /\ form' = "invalid" /\ list' = NoItems /\ loading' = FALSE
  /\ load' = [l \in Loads |-> NoLoad]
  /\ request' = [k \in Kind |-> NoRequest]
  /\ conflict' = NoConflict
  /\ UNCHANGED server

----------------------------------------------------------------------------
(* The editor, and the effect that loads closures.                         *)

\* Mutant: the effect does not turn off the loads of the former resource.
EffectKeepsLoads(r) ==
  \E l \in Loads :
    /\ load[l].phase = "idle"
    /\ load' = [load EXCEPT ![l] = [phase |-> "sent", of |-> r, live |-> TRUE, items |-> {}]]

\* Cleanup of the former effect, and the load of the new one.
Effect(r) ==
  \E l \in Loads :
    /\ load[l].phase = "idle"
    /\ load' = [m \in Loads |->
         IF m = l THEN [phase |-> "sent", of |-> r, live |-> TRUE, items |-> {}]
         ELSE [load[m] EXCEPT !.live = FALSE]]

\* Mutant: a request waits only for the one of its own kind.
OwnIdle(k) == request[k] = NoRequest

\* isMutating: one request at a time.
Idle(k) == \A j \in Kind : request[j] = NoRequest

Listed(r) == shown[r] > 0

StartCreate ==
  /\ Idle("save")
  /\ editing' = None /\ form' = "invalid" /\ list' = NoItems /\ loading' = FALSE
  /\ load' = IF editing = None THEN load ELSE [l \in Loads |-> [load[l] EXCEPT !.live = FALSE]]
  /\ conflict' = NoConflict
  /\ UNCHANGED <<server, shown, request>>

StartEdit(r) ==
  /\ Idle("save")
  /\ Listed(r)
  /\ editing' = r /\ form' = "loaded" /\ list' = NoItems /\ loading' = TRUE
  /\ IF editing = r THEN UNCHANGED load ELSE Effect(r)
  /\ conflict' = NoConflict
  /\ UNCHANGED <<server, shown, request>>

\* updateField and toggleOperatingDay; every field is disabled meanwhile.
EditField ==
  /\ Idle("save")
  /\ form' \in {"edited", "invalid"}
  /\ UNCHANGED <<server, shown, editing, list, loading, load, request, conflict>>

ServeLoad(l) ==
  /\ load[l].phase = "sent"
  /\ load' = [load EXCEPT ![l].phase = "read", ![l].items = closed[load[l].of]]
  /\ UNCHANGED <<server, shown, editing, form, list, loading, request, conflict>>

\* The items arrive, or the load fails at any point; nothing is done with
\* either when the effect has been cleaned up.
FinishLoad(l) ==
  /\ load[l].phase # "idle"
  /\ load' = [load EXCEPT ![l] = NoLoad]
  /\ \/ /\ load[l].phase = "read" /\ load[l].live
        /\ list' = [c \in Closure |-> IF c \in load[l].items THEN 1 ELSE 0]
     \/ UNCHANGED list
  /\ loading' = (loading /\ ~load[l].live)
  /\ UNCHANGED <<server, shown, editing, form, request, conflict>>

----------------------------------------------------------------------------
(* Requests.                                                               *)

Send(k, op, r, c) ==
  /\ Idle(k)
  /\ request' = [request EXCEPT ![k] = [NoRequest EXCEPT !.op = op, !.on = r, !.item = c]]
  /\ UNCHANGED <<server, shown, editing, list, loading, load>>

\* handleSubmit
Submit(r) ==
  /\ form # "invalid" /\ form' = "sent"
  /\ IF editing = None THEN Send("save", "create", r, None)
     ELSE r = editing /\ Send("save", "update", r, None)
  /\ conflict' = NoConflict

\* handleClosureSubmit
SubmitClosure(c) ==
  /\ editing # None /\ ClosureOf[c] = editing
  /\ Send("closure", "add", editing, c)
  /\ conflict' = NoConflict /\ UNCHANGED form

\* The list of closures is there, with a button for each.
CanRemove(c) == editing # None /\ ~loading /\ list[c] > 0

\* handleClosureDelete
DeleteClosure(c) ==
  /\ CanRemove(c)
  /\ Send("closure", "remove", editing, c)
  /\ UNCHANGED <<conflict, form>>

\* handleStatus
ChangeStatus(r) ==
  /\ Listed(r)
  /\ Send("status", "status", r, None)
  /\ conflict' = NoConflict /\ UNCHANGED form

Answered(k, answer, v) ==
  request' = [request EXCEPT ![k].answer = answer, ![k].version = v]

\* The server commits the request and answers with what it has committed.
Commit(k) ==
  LET q == request[k] IN
  /\ q.op # "none" /\ q.answer = "pending"
  /\ \/ /\ q.op = "create" /\ version[q.on] = 0
        /\ version' = [version EXCEPT ![q.on] = 1]
        /\ UNCHANGED <<closed, unused>>
     \/ /\ q.op \in {"update", "status"} /\ version[q.on] \in 1..(MaxVersion - 1)
        /\ version' = [version EXCEPT ![q.on] = @ + 1]
        /\ UNCHANGED <<closed, unused>>
     \/ /\ q.op = "add" /\ q.item \in unused
        /\ closed' = [closed EXCEPT ![q.on] = @ \cup {q.item}]
        /\ unused' = unused \ {q.item}
        /\ UNCHANGED version
     \/ /\ q.op = "remove" /\ q.item \in closed[q.on]
        /\ closed' = [closed EXCEPT ![q.on] = @ \ {q.item}]
        /\ UNCHANGED <<version, unused>>
  /\ Answered(k, "ok", version'[q.on])
  /\ UNCHANGED <<shown, editor, conflict>>

\* 409 with active bookings, or any other refusal: validation, a code or a
\* date in use, a missing row, an ended session.
Refuse(k) ==
  /\ request[k].op # "none" /\ request[k].answer = "pending"
  /\ \/ request[k].op \in {"update", "status", "add"} /\ Answered(k, "bookings", 0)
     \/ Answered(k, "refused", 0)
  /\ UNCHANGED <<server, shown, editor, conflict>>

\* The request or its answer is lost.
Lose(k) ==
  /\ request[k].op # "none" /\ request[k].answer # "network"
  /\ Answered(k, "network", 0)
  /\ UNCHANGED <<server, shown, editor, conflict>>

Released(k) == request' = [request EXCEPT ![k] = NoRequest]

Saved(q) ==
  /\ q.op \in {"create", "update"}
  /\ shown' = [shown EXCEPT ![q.on] = q.version]
  /\ form' = "loaded"
  /\ IF q.op = "create"
       THEN editing' = q.on /\ list' = NoItems /\ loading' = TRUE /\ Effect(q.on)
       ELSE UNCHANGED <<editing, list, loading, load>>

StatusChanged(q) ==
  /\ q.op = "status"
  /\ shown' = [shown EXCEPT ![q.on] = IF Listed(q.on) THEN q.version ELSE 0]
  /\ UNCHANGED editor

ClosureAdded(q) ==
  /\ q.op = "add"
  /\ list' = [list EXCEPT ![q.item] = @ + 1]
  /\ UNCHANGED <<shown, editing, form, loading, load>>

ClosureRemoved(q) ==
  /\ q.op = "remove"
  /\ list' = [list EXCEPT ![q.item] = 0]
  /\ UNCHANGED <<shown, editing, form, loading, load>>

\* The await of a handler returns.
Succeed(k) ==
  /\ request[k].answer = "ok"
  /\ Released(k)
  /\ LET q == request[k] IN
       Saved(q) \/ StatusChanged(q) \/ ClosureAdded(q) \/ ClosureRemoved(q)
  /\ UNCHANGED <<server, conflict>>

\* reportFailure, and the finally of every handler.
Fail(k) ==
  LET q == request[k] IN
  /\ q.answer \in {"bookings", "refused", "network"}
  /\ Released(k)
  /\ conflict' = IF q.answer = "bookings" THEN [kind |-> k, on |-> q.on] ELSE conflict
  /\ form' = IF k = "save" THEN "edited" ELSE form
  /\ UNCHANGED <<server, shown, editing, list, loading, load>>

----------------------------------------------------------------------------
(* Other administrators.                                                   *)

OthersChange(r) ==
  /\ version[r] < MaxVersion
  /\ version' = [version EXCEPT ![r] = @ + 1]
  /\ UNCHANGED <<closed, unused, shown, editor, request, conflict>>

OthersClose(c) ==
  /\ version[ClosureOf[c]] > 0
  /\ \/ c \in unused /\ closed' = [closed EXCEPT ![ClosureOf[c]] = @ \cup {c}]
     \/ c \in closed[ClosureOf[c]] /\ closed' = [closed EXCEPT ![ClosureOf[c]] = @ \ {c}]
  /\ unused' = unused \ {c}
  /\ UNCHANGED <<version, shown, editor, request, conflict>>

Next ==
  \/ Open \/ StartCreate \/ EditField
  \/ \E r \in Resource : StartEdit(r) \/ Submit(r) \/ ChangeStatus(r) \/ OthersChange(r)
  \/ \E c \in Closure : SubmitClosure(c) \/ DeleteClosure(c) \/ OthersClose(c)
  \/ \E l \in Loads : ServeLoad(l) \/ FinishLoad(l)
  \/ \E k \in Kind : Commit(k) \/ Refuse(k) \/ Lose(k) \/ Succeed(k) \/ Fail(k)

Spec == Init /\ [][Next]_vars

\* The server answers or the connection fails, and handlers are resumed; a
\* continuation waits for no one.
Fairness ==
  \A k \in Kind : WF_vars(Lose(k) \/ Commit(k) \/ Refuse(k) \/ Succeed(k) \/ Fail(k))

FairSpec == Spec /\ Fairness

----------------------------------------------------------------------------
(* Properties.                                                             *)

\* However fast the administrator goes from resource to resource, the editor
\* never lists a closure or a conflict of another resource than the one it
\* edits: an answer for a resource left behind is dropped (the effect's
\* "active" flag), and what was on display goes with the old resource.
EditorShowsItsResource ==
  /\ \A c \in Closure : list[c] > 0 => ClosureOf[c] = editing
  /\ conflict.kind \in {"save", "closure"} => conflict.on = editing

\* A row never goes back to an older version than the one it showed: the
\* answers of two changes of a resource cannot overtake one another, because
\* one request is sent at a time (mutationLockRef, isMutating).
RowsMoveForward ==
  [][\A r \in Resource : shown'[r] = 0 \/ shown'[r] >= shown[r]]_vars

\* Whatever becomes of a request, its controls are enabled again.
MutationsEnd == \A k \in Kind : request[k].op # "none" ~> request[k].op = "none"

----------------------------------------------------------------------------
(* What makes the first two inductive.                                     *)

\* The state of a kind tells what is sent, and about what.
RequestsFit ==
  /\ request["save"].op \in {"none", "create", "update"}
  /\ request["save"].op = "update" => request["save"].on = editing
  /\ request["save"].op = "create" => conflict = NoConflict
  /\ request["closure"].op \in {"none", "add", "remove"}
  /\ request["closure"].op # "none" => /\ request["closure"].on = editing
                                       /\ request["closure"].item \in Closure
                                       /\ ClosureOf[request["closure"].item] = editing
  /\ request["status"].op \in {"none", "status"}
  /\ \A k \in Kind : /\ request[k].op = "none" => request[k] = NoRequest
                     /\ request[k].answer = "bookings" => request[k].op # "create"

OneRequest ==
  \A j, k \in Kind : request[j].op # "none" /\ request[k].op # "none" => j = k

\* Closures, also those on their way to the editor, are of one resource.
LoadsFit ==
  /\ \A r \in Resource : \A c \in closed[r] : ClosureOf[c] = r
  /\ \A l \in Loads : /\ load[l].phase # "idle" => load[l].of \in Resource
                      /\ load[l].live => load[l].of = editing
                      /\ \A c \in load[l].items : ClosureOf[c] = load[l].of

\* An id is added once, so it is listed at most once more than it was read.
AddsFit ==
  /\ \A c \in Closure : list[c] = 2 => c \notin unused
  /\ request["closure"].op = "add" /\ request["closure"].answer = "ok"
       => request["closure"].item \notin unused /\ list[request["closure"].item] <= 1

\* An answer is as new as the row it replaces, and no newer than the server's.
VersionsFit ==
  /\ \A r \in Resource : shown[r] <= version[r]
  /\ \A k \in Kind : request[k].answer = "ok" =>
       /\ shown[request[k].on] <= request[k].version
       /\ request[k].version <= version[request[k].on]

EditorInv ==
  /\ TypeOK
  /\ EditorShowsItsResource
  /\ RequestsFit
  /\ OneRequest
  /\ LoadsFit
  /\ AddsFit
  /\ VersionsFit
=============================================================================
