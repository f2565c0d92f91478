-------------------------------- MODULE Parts --------------------------------
(***************************************************************************)
(* The parts that meet the rest of the system only through an abstraction  *)
(* of it inside their own modules: the pages of a tab, of which one is     *)
(* displayed at a time, and the catalog scripts.  Init picks one part, and *)
(* only that part takes steps; the others stay in an initial state, in     *)
(* which no fair action is enabled.                                        *)
(***************************************************************************)
EXTENDS Integers, Sequences, FiniteSets

CONSTANTS
  None, AnyValue,
  Tab, Date, MaxRooms, MaxLate, MaxOutbox,                      \* ResourcePage
  Managed, FirstListed, Closure, ClosureOf, Loads, MaxVersion,  \* ResourceManager
  DirectoryUser, Me, Created, PageSize, Filter, Roles, Elsewhere,  \* UserManager
  Person, Role, Visited, MaxChanges,                            \* Session
  Imported, Catalog, Before, Creator, Wanted, Booked, Today, MaxRuns  \* CatalogImport

\* A date is not the absence of one.
ASSUME DateAssumption == "no date" \notin Date /\ "any date" \notin Date

\* A socket may join a room, and a page may send to it.
ASSUME TabAssumption ==
  MaxRooms \in Nat \ {0} /\ MaxLate \in Nat /\ MaxOutbox \in Nat \ {0}

\* A closure belongs to one of the resources, and an id is no NULL.
ASSUME ManagedAssumption ==
  /\ None \notin Managed
  /\ FirstListed \subseteq Managed
  /\ ClosureOf \in [Closure -> Managed]
  /\ MaxVersion \in Nat \ {0}

\* The bookings that exist already fit their resources, as BookingSystem keeps
\* them: no closure is known to the scripts at first.
ASSUME ImportAssumption ==
  /\ None \notin Creator \cup {"script"} /\ "script" \notin Creator
  /\ Today \in Nat /\ MaxRuns \in Nat
  /\ Catalog \in Seq([resource : Imported, status : {"active", "maintenance", "inactive"},
                      days : SUBSET Int, opens : Int, closes : Int, offsets : SUBSET Int])
  /\ Before \in [Imported -> {Before[r] : r \in Imported}]
  /\ Wanted \in [Creator -> [resource : Imported, date : Int, start : Int, end : Int]]
  /\ Booked \subseteq [resource : Imported, date : Int, start : Int, end : Int,
                       active : BOOLEAN, of : Creator \cup {None}]
  /\ \A b \in Booked : b.active =>
       /\ Before[b.resource] # None /\ Before[b.resource].status = "active"
       /\ b.date % 7 \in Before[b.resource].days
       /\ Before[b.resource].opens <= b.start /\ b.end <= Before[b.resource].closes

VARIABLES
  part,
  RP_isOpen, RP_owner, RP_view, RP_load, RP_form, RP_request, RP_late, RP_socket,
  RP_outbox, RP_rooms, RP_inbox,
  RM_version, RM_closed, RM_unused, RM_shown, RM_editing, RM_form, RM_list, RM_loading,
  RM_load, RM_request, RM_conflict,
  UM_row, UM_filter, UM_page, UM_users, UM_seen, UM_total, UM_refused, UM_pending, UM_answer,
  UM_returned,
  BP_viewer, BP_booking, BP_now, BP_shown, BP_props, BP_asking, BP_request, BP_error,
  BP_load,
  SE_role, SE_known, SE_active, SE_cookie, SE_changes, SE_page, SE_viewer, SE_going,
  SE_next, SE_request, SE_socket,
  CI_row, CI_closed, CI_bookings, CI_owner, CI_share, CI_creation, CI_script, CI_runs

RPvars == <<RP_isOpen, RP_owner, RP_view, RP_load, RP_form, RP_request, RP_late,
            RP_socket, RP_outbox, RP_rooms, RP_inbox>>
RMvars == <<RM_version, RM_closed, RM_unused, RM_shown, RM_editing, RM_form, RM_list,
            RM_loading, RM_load, RM_request, RM_conflict>>
UMvars == <<UM_row, UM_filter, UM_page, UM_users, UM_seen, UM_total, UM_refused,
            UM_pending, UM_answer, UM_returned>>
BPvars == <<BP_viewer, BP_booking, BP_now, BP_shown, BP_props, BP_asking, BP_request,
            BP_error, BP_load>>
SEvars == <<SE_role, SE_known, SE_active, SE_cookie, SE_changes, SE_page, SE_viewer,
            SE_going, SE_next, SE_request, SE_socket>>
CIvars == <<CI_row, CI_closed, CI_bookings, CI_owner, CI_share, CI_creation, CI_script,
            CI_runs>>

RP == INSTANCE ResourcePage WITH
  Page <- Tab, Date <- Date, MaxRooms <- MaxRooms, MaxLate <- MaxLate,
  MaxOutbox <- MaxOutbox, isOpen <- RP_isOpen, owner <- RP_owner, view <- RP_view,
  load <- RP_load, form <- RP_form, request <- RP_request, late <- RP_late,
  socket <- RP_socket, outbox <- RP_outbox, rooms <- RP_rooms, inbox <- RP_inbox

RM == INSTANCE ResourceManager WITH
  Resource <- Managed, Initial <- FirstListed, Closure <- Closure, ClosureOf <- ClosureOf,
  Loads <- Loads, MaxVersion <- MaxVersion, None <- None, version <- RM_version,
  closed <- RM_closed, unused <- RM_unused, shown <- RM_shown, editing <- RM_editing,
  form <- RM_form, list <- RM_list, loading <- RM_loading, load <- RM_load,
  request <- RM_request, conflict <- RM_conflict

UM == INSTANCE UserManager WITH
  User <- DirectoryUser, Me <- Me, Created <- Created, PageSize <- PageSize, Filter <- Filter,
  AnyValue <- AnyValue, Roles <- Roles, Elsewhere <- Elsewhere, row <- UM_row,
  filter <- UM_filter, page <- UM_page, users <- UM_users, seen <- UM_seen,
  total <- UM_total, refused <- UM_refused, pending <- UM_pending, answer <- UM_answer,
  returned <- UM_returned

BP == INSTANCE BookingPages WITH
  viewer <- BP_viewer, booking <- BP_booking, now <- BP_now, shown <- BP_shown,
  props <- BP_props, asking <- BP_asking, request <- BP_request, error <- BP_error,
  load <- BP_load

SE == INSTANCE Session WITH
  User <- Person, Role <- Role, Visited <- Visited, MaxChanges <- MaxChanges,
  None <- None, role <- SE_role, known <- SE_known, active <- SE_active,
  cookie <- SE_cookie, changes <- SE_changes, page <- SE_page, viewer <- SE_viewer,
  going <- SE_going, next <- SE_next, request <- SE_request, socket <- SE_socket

CI == INSTANCE CatalogImport WITH
  Resource <- Imported, Catalog <- Catalog, Initial <- Before, Creator <- Creator,
  Wanted <- Wanted, Booked <- Booked, Today <- Today, MaxRuns <- MaxRuns, None <- None,
  row <- CI_row, closed <- CI_closed, bookings <- CI_bookings, owner <- CI_owner,
  share <- CI_share, creation <- CI_creation, script <- CI_script, runs <- CI_runs

\* The directory is finite, its ids are ordered, and its filter can be cleared.
ASSUME DirectoryAssumption ==
  /\ IsFiniteSet(DirectoryUser) /\ DirectoryUser \subseteq Nat
  /\ Me \in DirectoryUser /\ Elsewhere \subseteq DirectoryUser
  /\ Created \in [DirectoryUser -> Int]
  /\ PageSize \in Nat \ {0}
  /\ "admin" \in Roles
  /\ [role |-> AnyValue, access |-> AnyValue] \in Filter

\* Changes from outside are counted, and the links lead to pages.
ASSUME SessionAssumption ==
  MaxChanges \in Nat /\ Visited \subseteq SE!Public \cup SE!Guarded

----------------------------------------------------------------------------
(* One part at a time.                                                     *)

Init ==
  /\ part \in {"resource", "catalog", "users", "booking", "session", "import"}
  /\ RP!Init
  /\ RM!Init
  /\ UM!Init
  /\ BP!Init
  /\ SE!Init
  /\ CI!Init

Still(others) == UNCHANGED <<part, others>>

Next ==
  \/ part = "resource" /\ RP!Next /\ Still(<<RMvars, UMvars, BPvars, SEvars, CIvars>>)
  \/ part = "catalog" /\ RM!Next /\ Still(<<RPvars, UMvars, BPvars, SEvars, CIvars>>)
  \/ part = "users" /\ UM!Next /\ Still(<<RPvars, RMvars, BPvars, SEvars, CIvars>>)
  \/ part = "booking" /\ BP!Next /\ Still(<<RPvars, RMvars, UMvars, SEvars, CIvars>>)
  \/ part = "session" /\ SE!Next /\ Still(<<RPvars, RMvars, UMvars, BPvars, CIvars>>)
  \/ part = "import" /\ CI!Next /\ Still(<<RPvars, RMvars, UMvars, BPvars, SEvars>>)

vars == <<part, RPvars, RMvars, UMvars, BPvars, SEvars, CIvars>>

Spec == Init /\ [][Next]_vars

Fairness ==
  /\ RP!Fairness
  /\ RM!Fairness
  /\ UM!Fairness
  /\ BP!Fairness
  /\ SE!Fairness
  /\ CI!Fairness

FairSpec == Spec /\ Fairness

----------------------------------------------------------------------------
(* Properties; the modules state them.                                     *)

\* Every part keeps its types.
TypeOK == RP!TypeOK /\ RM!TypeOK /\ UM!TypeOK /\ BP!TypeOK /\ SE!TypeOK /\ CI!TypeOK

\* A connected tab is in the room of the date it shows and in no other.
RoomsFollowPage == RP!RoomsFollowPage

\* The editor lists closures and conflicts of the resource it edits only.
EditorShowsItsResource == RM!EditorShowsItsResource

\* A row of the list of resources never goes back to an older version.
RowsMoveForward == RM!RowsMoveForward

\* Every account on display passes the filter, and the browser refuses a page of
\* accounts only for two that were created within one millisecond.
PageFitsTheSearch == UM!PageFitsTheSearch

\* An answer never takes a booking's page back to an earlier state.
AnswersMoveForward == BP!AnswersMoveForward

\* A refreshed page offers nothing the booking does not admit any more.
RefreshWithdraws == BP!RefreshWithdraws

\* The catalog scripts leave no active booking outside hours or in a closure.
ImportStrandsNoBooking == CI!ImportStrandsNoBooking

\* A page that gets an event shows the state the event is about.
EventsReachThePage == RP!EventsReachThePage

\* No page stays disabled: whether a request is answered, refused, made by a
\* session that has expired, or loses its answer, what it disabled is enabled
\* again.  The booking form, the editor of a resource, the dialog of an
\* account, the buttons of a booking, and the forms of sign-in, registration
\* and sign-out.
ControlsComeBack ==
  /\ RP!SubmissionsEnd
  /\ RM!MutationsEnd
  /\ UM!ChangesEnd
  /\ BP!RequestsEnd
  /\ SE!FormsEnd

\* The guards of the pages send no account in circles.
NavigationsEnd == SE!NavigationsEnd

\* Signing in again connects the socket as the account on display.
SignInRestoresEvents == SE!SignInRestoresEvents

\* A script and a creation do not wait for each other forever.
ImportAndCreationsEnd == CI!ImportAndCreationsEnd
=============================================================================
