---------------------------- MODULE ResourcePage ----------------------------
(***************************************************************************)
(* The page of a resource in the browser: its server-rendered availability *)
(* of one date, the live region that joins the date's room and refreshes,  *)
(* and the form that requests the selected interval.  A page is one tab of *)
(* one student; every tab has selected the same interval of a date.        *)
(*                                                                         *)
(* The server is seen through the contract the other modules establish: a  *)
(* create books a free interval or conflicts, and a committed change is    *)
(* reported to the sockets in its room (BookingSystem has the moments in   *)
(* between).  Network and server may drop a connection, a request or an    *)
(* answer at any time.  A socket is disconnected for both ends at once.    *)
(***************************************************************************)
EXTENDS Naturals, Sequences, FiniteSets

CONSTANTS
  Page,        \* tabs that show the resource
  Date,        \* dates a student looks at
  MaxRooms,    \* MAX_AVAILABILITY_ROOMS_PER_SOCKET
  MaxLate,     \* bound: requests of a page followed after their form gave up
  MaxOutbox    \* bound: messages a socket has sent and the gateway not handled

NoDate == "no date"
AnyDate == "any date"          \* the room of resource:changed is every socket

VARIABLES
  isOpen,    \* the schedule and closures admit the interval
  owner,     \* per date, who holds the interval: Free, Other or a page
  view,      \* what a page displays
  load,      \* the server render a page waits for
  form,      \* the state of the request form of a page
  request,   \* the POST /bookings of that form
  late,      \* per page, dates of requests no form waits for any more
  socket, outbox, rooms, inbox

server == <<isOpen, owner>>
forms  == <<form, request, late>>
wire   == <<socket, outbox, rooms, inbox>>
vars   == <<server, view, load, forms, wire>>

Free == "free"
Other == "other"

View     == [date : Date \cup {NoDate}, available : BOOLEAN]
NoLoad   == [kind |-> "none"]
Loading  == [kind : {"open", "refresh"}, date : Date, seen : {"unread", "free", "taken"},
             again : BOOLEAN]
Load     == Loading \cup {NoLoad}
Form     == [sending : BOOLEAN, result : BOOLEAN,
             error : {"none", "conflict", "failed"}]
NewForm  == [sending |-> FALSE, result |-> FALSE, error |-> "none"]
Message  == [kind : {"join", "leave"}, date : Date]

TypeOK ==
  /\ isOpen \in BOOLEAN
  /\ owner \in [Date -> Page \cup {Free, Other}]
  /\ view \in [Page -> View]
  /\ load \in [Page -> Load]
  /\ form \in [Page -> Form]
  /\ request \in [Page -> {"none", "sent", "created", "conflict"}]
  /\ late \in [Page -> SUBSET Date]
  /\ socket \in [Page -> {"connected", "disconnected", "closed"}]
  /\ outbox \in [Page -> Seq(Message)] /\ \A p \in Page : Len(outbox[p]) <= MaxOutbox
  /\ rooms \in [Page -> SUBSET Date]
  /\ inbox \in [Page -> SUBSET (Date \cup {AnyDate})]

Init ==
  /\ isOpen = TRUE
  /\ owner = [d \in Date |-> Free]
  /\ view = [p \in Page |-> [date |-> NoDate, available |-> FALSE]]
  /\ load = [p \in Page |-> NoLoad]
  /\ form = [p \in Page |-> NewForm]
  /\ request = [p \in Page |-> "none"]
  /\ late = [p \in Page |-> {}]
  /\ socket = [p \in Page |-> "disconnected"]
  /\ outbox = [p \in Page |-> <<>>]
  /\ rooms = [p \in Page |-> {}]
  /\ inbox = [p \in Page |-> {}]

IsAvailable(d) == isOpen /\ owner[d] = Free

----------------------------------------------------------------------------
(* Changes at the server, each reported to the room of its date, or to     *)
(* every socket when it concerns the resource.                             *)

Notify(d) == inbox' = [p \in Page |-> IF d \in rooms[p] THEN inbox[p] \cup {d} ELSE inbox[p]]

\* notifyResourceChanged emits to the whole namespace.
NotifyAll == inbox' = [p \in Page |-> IF socket[p] = "connected"
                                      THEN inbox[p] \cup {AnyDate} ELSE inbox[p]]

\* Another student books the interval, or whoever holds it gives it back.
OthersChange(d) ==
  /\ \/ IsAvailable(d) /\ owner' = [owner EXCEPT ![d] = Other]
     \/ owner[d] # Free /\ owner' = [owner EXCEPT ![d] = Free]
  /\ Notify(d)
  /\ UNCHANGED <<isOpen, view, load, forms, socket, outbox, rooms>>

\* An administrator takes the interval out of the schedule or puts it back.
ChangeSchedule ==
  /\ \A d \in Date : owner[d] = Free
  /\ isOpen' = ~isOpen
  /\ NotifyAll
  /\ UNCHANGED <<owner, view, load, forms, socket, outbox, rooms>>

\* BookingsService.create: what becomes of a request for a date.
Create(p, d) ==
  IF IsAvailable(d)
  THEN owner' = [owner EXCEPT ![d] = p] /\ Notify(d)
  ELSE UNCHANGED <<owner, inbox>>

ServeCreate(p) ==
  /\ request[p] = "sent"
  /\ Create(p, view[p].date)
  /\ request' = [request EXCEPT ![p] = IF IsAvailable(view[p].date) THEN "created"
                                                                  ELSE "conflict"]
  /\ UNCHANGED <<isOpen, view, load, form, late, socket, outbox, rooms>>

\* A request nobody waits for arrives, or never does.
ServeLate(p, d) ==
  /\ d \in late[p]
  /\ late' = [late EXCEPT ![p] = @ \ {d}]
  /\ Create(p, d) \/ UNCHANGED <<owner, inbox>>
  /\ UNCHANGED <<isOpen, view, load, form, request, socket, outbox, rooms>>

----------------------------------------------------------------------------
(* Rendering.  The router runs one load at a time; a refresh that arrives  *)
(* meanwhile runs after it, and a link discards what was pending.          *)

Refresh(d) == [kind |-> "refresh", date |-> d, seen |-> "unread", again |-> FALSE]

\* Mutant: an update that arrives during a load is dropped.
AfterUpdateDropped(p) ==
  IF load[p] = NoLoad THEN Refresh(view[p].date) ELSE load[p]

\* handleUpdate of AvailabilityLiveRegion: router.refresh().
AfterUpdate(p) ==
  IF load[p] = NoLoad THEN Refresh(view[p].date) ELSE [load[p] EXCEPT !.again = TRUE]

\* A link to a date.
Open(p, d) ==
  /\ load' = [load EXCEPT ![p] = [Refresh(d) EXCEPT !.kind = "open"]]
  /\ UNCHANGED <<server, view, forms, wire>>

\* The page component reads the availability at the server.
Read(p) ==
  /\ load[p] # NoLoad
  /\ load[p].seen = "unread"
  /\ load' = [load EXCEPT ![p].seen = IF IsAvailable(load[p].date) THEN "free" ELSE "taken"]
  /\ UNCHANGED <<server, view, forms, wire>>

\* Mutant: the cleanup of the effect does not leave the old room.
Moved(old, new) == <<[kind |-> "join", date |-> new]>>

\* Mutant: the first effect has something to leave too.
MessagesAlways(old, new) ==
  <<[kind |-> "leave", date |-> old], [kind |-> "join", date |-> new]>>

\* The cleanup of useAvailabilityUpdates, then its effect.
Messages(old, new) ==
  (IF old = NoDate THEN <<>> ELSE <<[kind |-> "leave", date |-> old]>>)
    \o <<[kind |-> "join", date |-> new]>>

\* The form is unmounted; the request it has sent goes on without it.
Discard(p) ==
  /\ form' = [form EXCEPT ![p] = NewForm]
  /\ request' = [request EXCEPT ![p] = "none"]
  /\ late' = [late EXCEPT ![p] = 
                IF request[p] = "sent" /\ Cardinality(@) < MaxLate
                THEN @ \cup {view[p].date} ELSE @]

\* The render arrives.  Another date means another key: a new live region and
\* a new form.  The same date keeps both.
Render(p) ==
  LET new == load[p].date
      old == view[p].date
  IN  /\ load[p] # NoLoad
      /\ load[p].seen # "unread"
      /\ Len(outbox[p]) + 2 <= MaxOutbox
      /\ view' = [view EXCEPT ![p] = [date |-> new, available |-> load[p].seen = "free"]]
      /\ load' = [load EXCEPT ![p] = IF @.again THEN Refresh(new) ELSE NoLoad]
      /\ IF new = old THEN UNCHANGED forms ELSE Discard(p)
      /\ outbox' = [outbox EXCEPT ![p] = IF new = old \/ socket[p] # "connected" THEN @
                                         ELSE @ \o Messages(old, new)]
      /\ UNCHANGED <<server, socket, rooms, inbox>>

----------------------------------------------------------------------------
(* The request form.                                                       *)

\* The button is shown: no result, no conflict to refresh after, and the
\* interval is not displayed as unavailable.
CanSend(p) ==
  /\ view[p].date # NoDate
  /\ ~form[p].result
  /\ form[p].error # "conflict"
  /\ view[p].available

\* catch and finally of submit
Caught(f, error) == [f EXCEPT !.error = error, !.sending = FALSE]

Submit(p) ==
  /\ CanSend(p)
  /\ ~form[p].sending
  /\ form' = [form EXCEPT ![p] = [NewForm EXCEPT !.sending = TRUE]]
  /\ request' = [request EXCEPT ![p] = "sent"]
  /\ UNCHANGED <<server, view, load, late, wire>>

\* createBookingRequest resolves, or rejects with a conflict.
Answer(p) ==
  /\ request[p] \in {"created", "conflict"}
  /\ form' = [form EXCEPT ![p] = IF request[p] = "created"
                                 THEN [@ EXCEPT !.result = TRUE, !.sending = FALSE]
                                 ELSE Caught(@, "conflict")]
  /\ request' = [request EXCEPT ![p] = "none"]
  /\ UNCHANGED <<server, view, load, late, wire>>

\* The request or its answer is lost, or answered with another error than 404
\* and 409, after which the form offers to send again.  A lost request may
\* still reach the server after that.
Lose(p) ==
  /\ request[p] # "none"
  /\ form' = [form EXCEPT ![p] = Caught(@, "failed")]
  /\ request' = [request EXCEPT ![p] = "none"]
  /\ late' = [late EXCEPT ![p] = 
                IF request[p] = "sent" /\ Cardinality(@) < MaxLate
                THEN @ \cup {view[p].date} ELSE @]
  /\ UNCHANGED <<server, view, load, wire>>

\* "Refresh availability", shown after a conflict.
RefreshAvailability(p) ==
  /\ form[p].error = "conflict"
  /\ load' = [load EXCEPT ![p] = AfterUpdate(p)]
  /\ UNCHANGED <<server, view, forms, wire>>

----------------------------------------------------------------------------
(* The socket of a page.                                                   *)

\* handleReconnect: join the room again and refresh.
Connect(p) ==
  /\ socket[p] = "disconnected"
  /\ socket' = [socket EXCEPT ![p] = "connected"]
  /\ IF view[p].date = NoDate
     THEN UNCHANGED <<load, outbox>>
     ELSE /\ outbox' = [outbox EXCEPT ![p] = <<[kind |-> "join", date |-> view[p].date]>>]
          /\ load' = [load EXCEPT ![p] = AfterUpdate(p)]
  /\ UNCHANGED <<server, view, forms, rooms, inbox>>

Drop(p, state) ==
  /\ socket[p] = "connected"
  /\ socket' = [socket EXCEPT ![p] = state]
  /\ outbox' = [outbox EXCEPT ![p] = <<>>]
  /\ rooms' = [rooms EXCEPT ![p] = {}]
  /\ inbox' = [inbox EXCEPT ![p] = {}]
  /\ UNCHANGED <<server, view, load, forms>>

Disconnect(p) == Drop(p, "disconnected")

\* The session expired or the account was deactivated: the hooks detach.
CloseByServer(p) == Drop(p, "closed")

\* login-form: disconnectSocket(), and the next page opens a new socket.
SignIn(p, d) ==
  /\ socket[p] = "closed"
  /\ socket' = [socket EXCEPT ![p] = "disconnected"]
  /\ view' = [view EXCEPT ![p] = [date |-> NoDate, available |-> FALSE]]
  /\ IF view[p].date = NoDate THEN UNCHANGED forms ELSE Discard(p)
  /\ load' = [load EXCEPT ![p] = [Refresh(d) EXCEPT !.kind = "open"]]
  /\ UNCHANGED <<server, outbox, rooms, inbox>>

\* handleJoinAvailability with its cap, and handleLeaveAvailability.
HandleMessage(p) ==
  LET msg == Head(outbox[p])
  IN  /\ outbox[p] # <<>>
      /\ outbox' = [outbox EXCEPT ![p] = Tail(@)]
      /\ rooms' = [rooms EXCEPT ![p] =
           IF msg.kind = "leave" THEN @ \ {msg.date}
           ELSE IF Cardinality(@) < MaxRooms THEN @ \cup {msg.date} ELSE @]
      /\ UNCHANGED <<server, view, load, forms, socket, inbox>>

\* handleAvailabilityChanged and handleResourceChanged
HandleEvent(p, d) ==
  /\ d \in inbox[p]
  /\ inbox' = [inbox EXCEPT ![p] = @ \ {d}]
  /\ load' = [load EXCEPT ![p] = IF view[p].date # NoDate /\ d \in {view[p].date, AnyDate}
                                 THEN AfterUpdate(p) ELSE @]
  /\ UNCHANGED <<server, view, forms, socket, outbox, rooms>>

Next ==
  \/ \E d \in Date : OthersChange(d)
  \/ ChangeSchedule
  \/ \E p \in Page :
       \/ Read(p) \/ Render(p)
       \/ Submit(p) \/ ServeCreate(p) \/ Answer(p) \/ Lose(p) \/ RefreshAvailability(p)
       \/ Connect(p) \/ Disconnect(p) \/ CloseByServer(p) \/ HandleMessage(p)
       \/ \E d \in Date : Open(p, d) \/ SignIn(p, d) \/ ServeLate(p, d)
       \/ \E d \in Date \cup {AnyDate} : HandleEvent(p, d)

Spec == Init /\ [][Next]_vars

\* The browser's event loop runs what is ready, the router finishes its loads
\* and the network delivers or fails; nothing else has to happen.
Fairness ==
  \A p \in Page :
    /\ WF_vars(Read(p) \/ Render(p))
    /\ WF_vars(ServeCreate(p) \/ Answer(p) \/ Lose(p))
    /\ WF_vars(HandleMessage(p))
    /\ \A d \in Date \cup {AnyDate} : WF_vars(HandleEvent(p, d))

FairSpec == Spec /\ Fairness

----------------------------------------------------------------------------
(* Properties.                                                             *)

\* Once the gateway has handled what a connected page sent, the page is in the
\* room of the date it shows and in no other, through every order of links,
\* reconnections and closed sessions: a room that leaked would in time use up
\* the rooms a socket may join and leave later pages without events.
RoomsFollowPage ==
  \A p \in Page :
    socket[p] = "connected" /\ outbox[p] = <<>> => rooms[p] = {view[p].date} \ {NoDate}

\* An event that reaches the page makes it show the state the event is about,
\* even when it arrives in the middle of another load: until the state changes
\* again, the connection breaks or the student follows a link.
EventsReachThePage ==
  \A p \in Page, d \in Date, free \in BOOLEAN :
    /\ inbox[p] \cap {d, AnyDate} # {}
    /\ view[p].date = d
    /\ IsAvailable(d) = free
    ~> \/ view[p] = [date |-> d, available |-> free]
       \/ IsAvailable(d) # free
       \/ socket[p] # "connected"
       \/ view[p].date # d
       \/ load[p].kind = "open"

\* Whatever happens to a request and its answer, the form stops sending; the
\* student is never left with a disabled button.
SubmissionsEnd == \A p \in Page : form[p].sending ~> ~form[p].sending

----------------------------------------------------------------------------
(* What makes the first one inductive.                                     *)

Join(d)  == [kind |-> "join", date |-> d]
Leave(d) == [kind |-> "leave", date |-> d]

\* A page leaves the room it has joined before it joins another, and the last
\* it has sent joins the room of its date: of the messages still to handle, the
\* first concerns the room the gateway has the socket in.
MessagesFit(p) ==
  LET sent == outbox[p]
  IN /\ sent # <<>> => /\ view[p].date # NoDate
                       /\ sent[Len(sent)] = Join(view[p].date)
                       /\ \/ rooms[p] = {} /\ sent[1].kind = "join"
                          \/ sent[1].kind = "leave" /\ rooms[p] = {sent[1].date}
     /\ \A i \in 1..(Len(sent) - 1) :
          /\ sent[i].kind = "join" => sent[i + 1] = Leave(sent[i].date)
          /\ sent[i].kind = "leave" => sent[i + 1].kind = "join"

\* A page without a date has no form, and so no request.
FormsFit == \A p \in Page : view[p].date = NoDate => form[p].error = "none" /\ request[p] = "none"

\* A socket that is not connected is in no room and has nothing to say.
RoomsInv ==
  /\ TypeOK
  /\ FormsFit
  /\ RoomsFollowPage
  /\ \A p \in Page : IF socket[p] = "connected" THEN MessagesFit(p)
                     ELSE outbox[p] = <<>> /\ rooms[p] = {}
=============================================================================
