------------------------------- MODULE Session -------------------------------
(***************************************************************************)
(* Sign-in, sign-out and the guards of the pages, in one tab of a browser. *)
(*                                                                         *)
(* Every page looks up the account of the session cookie, redirects to the *)
(* page its role belongs to or to the sign-in page, and then loads its     *)
(* data with the same cookie, which may have ended meanwhile.  The cookie  *)
(* is the browser's, other tabs change it too; the socket is the tab's and *)
(* carries the account that was signed in when it connected.               *)
(***************************************************************************)
EXTENDS Naturals

CONSTANTS
  User,
  Role,        \* bound: the roles accounts have here
  Visited,     \* bound: the pages whose links are followed
  MaxChanges,  \* bound: changes of accounts and of the cookie from outside
  None

Public == {"home", "login", "register"}
Guarded == {"dashboard", "resources", "bookings", "staff", "admin"}

\* Pages whose hooks open the socket: the dashboard and a resource.
Live == {"dashboard", "resources"}

VARIABLES
  role, known, active,  \* accounts: their role, which exist, which are active
  cookie,     \* the account of the session cookie
  changes,
  page,       \* on display, "error" for the error boundary
  viewer,     \* the account the page was rendered for
  going,      \* the navigation under way
  next,       \* where the sign-in page returns to
  request,    \* POST /auth/login, /register or /logout
  socket      \* the socket of the tab

accounts == <<role, known, active>>
vars     == <<accounts, cookie, changes, page, viewer, going, next, request, socket>>

Going   == [to : Public \cup Guarded, by : {"link", "login", "logout"}, phase : {"lookup", "fetch"},
            as : User \cup {None}]
Still   == [to |-> "home", by |-> "link", phase |-> "none", as |-> None]
Request == [op : {"login", "register", "logout"}, as : User \cup {None},
            answer : {"pending", "ok", "failed"}]
NoRequest == [op |-> "none", as |-> None, answer |-> "pending"]
Socket  == [state : {"connecting", "connected", "closed"}, as : User \cup {None}]
NoSocket == [state |-> "none", as |-> None]

TypeOK ==
  /\ role \in [User -> Role] /\ known \subseteq User /\ active \subseteq User
  /\ cookie \in known \cup {None}
  /\ changes \in 0..MaxChanges
  /\ page \in Public \cup Guarded \cup {"error"}
  /\ viewer \in known \cup {None}
  /\ page \in Guarded <=> viewer # None
  /\ going \in Going \cup {Still}
  /\ next \in Guarded
  /\ request \in Request \cup {NoRequest}
  /\ socket \in Socket \cup {NoSocket}
  /\ socket.state = "connected" => socket.as \in known

\* JwtStrategy.validate: the account a request with a cookie acts as.
Account(c) == IF c \in known \cap active THEN c ELSE None

Go(to, by) == [to |-> to, by |-> by, phase |-> "lookup", as |-> None]

Init ==
  /\ role \in [User -> Role] /\ known \in SUBSET User /\ active = User
  /\ \A u \in User \ known : role[u] = "student"
  /\ cookie = None /\ changes = 0
  /\ page = "home" /\ viewer = None /\ going = Still /\ next = "dashboard"
  /\ request = NoRequest
  /\ socket = NoSocket

----------------------------------------------------------------------------
(* Navigation.                                                             *)

\* Bound: what is clicked before a navigation has ended counts as a change.
Click ==
  /\ going # Still => changes < MaxChanges
  /\ changes' = IF going = Still THEN changes ELSE changes + 1

\* A link, or an address: a new document has a new socket and waits for no
\* request of the old one.
Visit(to) ==
  /\ Click
  /\ going' = Go(to, "link")
  /\ \/ UNCHANGED <<request, socket>>
     \/ request' = NoRequest /\ socket' = NoSocket
  /\ UNCHANGED <<accounts, cookie, page, viewer, next>>

\* The guards of the pages: where an account of role r is sent instead.
DashboardGuard(r) == CASE r = "admin" -> "admin" [] r = "staff" -> "staff" [] OTHER -> "dashboard"

BookingsGuard(r) == IF r = "student" THEN "bookings" ELSE "dashboard"

\* Mutant: the staff queue is for administrators only.
StaffGuardAdmin(r) == IF r = "admin" THEN "staff" ELSE "dashboard"

StaffGuard(r) == IF r \in {"staff", "admin"} THEN "staff" ELSE "dashboard"

AdminGuard(r) == IF r = "admin" THEN "admin" ELSE "dashboard"

Redirect(to, r) ==
  CASE to = "dashboard" -> DashboardGuard(r)
    [] to = "bookings"  -> BookingsGuard(r)
    [] to = "staff"     -> StaffGuard(r)
    [] to = "admin"     -> AdminGuard(r)
    [] OTHER            -> to

\* loginRedirectPath: the sign-in page returns to the page asked for.
ToLogin == going' = Go("login", "link") /\ next' = going.to

DisconnectSocket == socket' = NoSocket

\* A page with a live region opens the socket when there is none.
Show(to, as) ==
  /\ page' = to /\ viewer' = as /\ going' = Still
  /\ socket' = IF to \in Live /\ socket = NoSocket
                 THEN [state |-> "connecting", as |-> None] ELSE socket

Break == page' = "error" /\ viewer' = None /\ going' = Still /\ UNCHANGED socket

\* getCurrentUser, and the guard.
Lookup ==
  /\ going.phase = "lookup"
  /\ LET u == Account(cookie) IN
     \/ /\ going.to \in Public
        /\ Show(going.to, None)
        /\ UNCHANGED next
     \/ /\ going.to \in Guarded /\ u = None
        /\ ToLogin
        /\ UNCHANGED <<page, viewer, socket>>
     \/ /\ going.to \in Guarded /\ u # None
        /\ going' = IF Redirect(going.to, role[u]) = going.to
                    THEN [going EXCEPT !.phase = "fetch", !.as = u]
                    ELSE [going EXCEPT !.to = Redirect(going.to, role[u])]
        /\ UNCHANGED <<page, viewer, next, socket>>
     \/ going.to \in Guarded /\ Break /\ UNCHANGED next
  /\ UNCHANGED <<accounts, cookie, changes, request>>

\* withSessionRedirect: the data of the page.  A role that was changed
\* meanwhile is refused, which is an error like every other.
Fetch ==
  /\ going.phase = "fetch"
  /\ IF Account(going.as) = None
     THEN ToLogin /\ UNCHANGED <<page, viewer, socket>>
     ELSE /\ \/ Show(going.to, going.as) /\ Redirect(going.to, role[going.as]) = going.to
             \/ Break
          /\ UNCHANGED next
  /\ UNCHANGED <<accounts, cookie, changes, request>>

----------------------------------------------------------------------------
(* The forms.  A request outlives the form it was sent from.               *)

\* Bound: a form that was left and opened again waits for the former request.
Send(op, u) ==
  /\ Click
  /\ request = NoRequest
  /\ request' = [op |-> op, as |-> u, answer |-> "pending"]
  /\ UNCHANGED <<accounts, cookie, page, viewer, going, next, socket>>

SubmitLogin(u) == page = "login" /\ Send("login", u)

SubmitRegistration(u) == page = "register" /\ Send("register", u)

\* The button stays disabled until the sign-in page is shown.
SubmitLogout == page \in Guarded /\ going.by # "logout" /\ Send("logout", None)

Answer(op, answer) ==
  /\ request.op = op /\ request.answer = "pending"
  /\ request' = [request EXCEPT !.answer = answer]
  /\ UNCHANGED <<role, active, cookie, changes, page, viewer, going, next, socket>>

ServeLogin == Account(request.as) # None /\ Answer("login", "ok") /\ UNCHANGED known

ServeRegistration ==
  /\ request.as \notin known
  /\ Answer("register", "ok")
  /\ known' = known \cup {request.as}

\* Without a session there is none to end: logout is refused.
ServeLogout == Account(cookie) # None /\ Answer("logout", "ok") /\ UNCHANGED known

\* Refused, or never answered.
Refuse == \E op \in {"login", "register", "logout"} : Answer(op, "failed") /\ UNCHANGED known

Serve == ServeLogin \/ ServeRegistration \/ ServeLogout \/ Refuse

Lose ==
  /\ request.answer = "ok"
  /\ request' = [request EXCEPT !.answer = "failed"]
  /\ UNCHANGED <<accounts, cookie, changes, page, viewer, going, next, socket>>

\* issueSession sets the cookie, logout clears it, and the form goes on.
Succeed(op, to) ==
  /\ request.op = op /\ request.answer = "ok"
  /\ cookie' = request.as
  /\ going' = to
  /\ request' = NoRequest
  /\ UNCHANGED <<accounts, changes, page, viewer>>

\* Mutant: the login form keeps the socket, like the registration form.
LoggedInKeepingSocket == Succeed("login", Go(next, "login")) /\ UNCHANGED <<next, socket>>

LoggedIn ==
  /\ Succeed("login", Go(next, "login"))
  /\ DisconnectSocket
  /\ UNCHANGED next

Registered == Succeed("register", Go(next, "link")) /\ UNCHANGED <<next, socket>>

LoggedOut ==
  /\ Succeed("logout", Go("login", "logout"))
  /\ next' = "dashboard" /\ DisconnectSocket

Fail ==
  /\ request.answer = "failed"
  /\ request' = NoRequest
  /\ UNCHANGED <<accounts, cookie, changes, page, viewer, going, next, socket>>

Settle == LoggedIn \/ Registered \/ LoggedOut \/ Fail

----------------------------------------------------------------------------
(* The socket, and everyone else.                                          *)

\* handleConnection admits the account of the cookie or disconnects.
Connect ==
  /\ socket.state = "connecting"
  /\ socket' = IF Account(cookie) = None THEN [state |-> "closed", as |-> None]
               ELSE [state |-> "connected", as |-> cookie]
  /\ UNCHANGED <<accounts, cookie, changes, page, viewer, going, next, request>>

\* The connection breaks; the client connects again, with the cookie of then.
Drop ==
  /\ socket.state = "connected"
  /\ socket' = [state |-> "connecting", as |-> None]
  /\ UNCHANGED <<accounts, cookie, changes, page, viewer, going, next, request>>

Change ==
  /\ changes < MaxChanges
  /\ changes' = changes + 1
  /\ UNCHANGED <<known, page, viewer, next, request>>

Closed(u) == IF socket.state = "connected" /\ socket.as = u
             THEN [state |-> "closed", as |-> None] ELSE socket

\* An administrator changes a role or the access to an account.
ChangeRole(u) ==
  /\ Change
  /\ u \in known /\ \E r \in Role \ {role[u]} : role' = [role EXCEPT ![u] = r]
  /\ UNCHANGED <<active, cookie, going, socket>>

ChangeAccess(u) ==
  /\ Change
  /\ u \in known
  /\ active' = IF u \in active THEN active \ {u} ELSE active \cup {u}
  /\ socket' = IF u \in active THEN Closed(u) ELSE socket
  /\ UNCHANGED <<role, cookie, going>>

\* The token expires, the cookie with it, and that of a page being rendered.
Expire ==
  /\ Change
  /\ cookie # None /\ cookie' = None
  /\ going' = IF going.as = cookie THEN [going EXCEPT !.as = None] ELSE going
  /\ socket' = Closed(cookie)
  /\ UNCHANGED <<role, active>>

\* Another tab signs in or out.
OtherTab ==
  /\ Change
  /\ cookie' \in (known \cap active) \cup {None}
  /\ UNCHANGED <<role, active, going, socket>>

Next ==
  \/ \E to \in Visited : Visit(to)
  \/ Lookup \/ Fetch
  \/ \E u \in User : SubmitLogin(u) \/ SubmitRegistration(u)
  \/ SubmitLogout
  \/ Serve \/ Lose \/ Settle
  \/ Connect \/ Drop
  \/ \E u \in User : ChangeRole(u) \/ ChangeAccess(u)
  \/ Expire \/ OtherTab

Spec == Init /\ [][Next]_vars

\* The servers answer or the connection fails, and the browser goes on.
Fairness ==
  /\ WF_vars(Lookup \/ Fetch)
  /\ WF_vars(Serve \/ Settle)
  /\ WF_vars(Connect)

FairSpec == Spec /\ Fairness

----------------------------------------------------------------------------
(* Properties.                                                             *)

\* A navigation ends, on whatever page: the guards of the pages do not send an
\* account in circles, also when its role or its session changes on the way.
NavigationsEnd == going # Still ~> going = Still

\* Whatever becomes of a sign-in, a registration or a sign-out, its form can be
\* used again.
FormsEnd == request # NoRequest ~> request = NoRequest

\* Who signs in again after the server has closed the socket of the former
\* session, and is shown a page with a live region, gets its events: the socket
\* connects as the account on display, unless that session ends too, the page
\* is left or another tab signs in.  The comment in login-form.tsx promises it;
\* register-form.tsx does not reset the socket, and gets none.
SignInRestoresEvents ==
  going.by = "login" ~>
    /\ going.by # "login"
    /\ \/ socket.state = "connected" /\ socket.as = viewer
       \/ page \notin Live
       \/ going # Still
       \/ Account(cookie) # viewer

----------------------------------------------------------------------------
(* What the types rest on.                                                 *)

\* A navigation that loads its data goes to a guarded page.
NavigationsFit ==
  /\ going.as \in known \cup {None}
  /\ going.phase = "fetch" => going.to \in Guarded

\* A form sends someone; whom the server answered for has an account.
FormsFit ==
  /\ request.op \in {"login", "register"} => request.as \in User
  /\ request.op \in {"login", "register"} /\ request.answer = "ok" => request.as \in known
  /\ request.op = "logout" => request.as = None

SessionInv == TypeOK /\ NavigationsFit /\ FormsFit
=============================================================================
