---------------------------- MODULE EventsGateway ----------------------------
(***************************************************************************)
(* The WebSocket gateway (events.gateway.ts): authentication of a          *)
(* connection, its expiry timer, the rooms of a socket, and the end of a   *)
(* connection when its user is deactivated.                                *)
(*                                                                         *)
(* handleConnection is asynchronous and is interrupted where it awaits:    *)
(*                                                                         *)
(*   Connect --> reading --ReadUser--> read --JoinUserRoom--> joined       *)
(*           --ScheduleExpiry--> open                                      *)
(*                                                                         *)
(* It goes on to its end although its socket may be gone by then, and the  *)
(* handlers of messages do not wait for it.  Socket.IO's in-memory adapter *)
(* adds a socket to a room without asking whether it is still connected.   *)
(***************************************************************************)
EXTENDS Integers, FiniteSets

CONSTANTS
  Socket,     \* ids of connections; an id is used once
  User,
  Owner,      \* the user named by the session cookie of a socket
  Exp,        \* the instant that session expires
  Room,       \* the availability and dashboard rooms clients name
  Prefix,     \* the kind of a room, which is its prefix
  MaxRooms,   \* MAX_AVAILABILITY_ROOMS_PER_SOCKET, MAX_DASHBOARD_ROOMS_PER_SOCKET
  MaxDelay,   \* MAX_TIMER_DELAY_MS
  MaxTime     \* bound: the last instant

ASSUME OwnerAssumption == Owner \in [Socket -> User]
ASSUME ExpAssumption == Exp \in [Socket -> Nat]
ASSUME LimitAssumption == MaxRooms \in Nat /\ MaxDelay \in Nat \ {0} /\ MaxTime \in Nat

NoTimer == -1

VARIABLES
  now,
  active,       \* users.is_active, committed
  deactivated,  \* users whose deactivation has committed but has not been emitted
  phase,        \* how far handleConnection is
  seen,         \* what its findById returned: the user was active
  connected,    \* the socket is connected
  inUserRoom,
  rooms,        \* the other rooms of a socket
  timer         \* when its expiry timer fires

accounts == <<active, deactivated>>
sockets  == <<phase, seen, connected, inUserRoom, rooms, timer>>
vars     == <<now, accounts, sockets>>

Phase == {"none", "reading", "read", "joined", "open", "rejected"}

TypeOK ==
  /\ now \in Nat
  /\ active \in [User -> BOOLEAN]
  /\ deactivated \subseteq User
  /\ phase \in [Socket -> Phase]
  /\ seen \in [Socket -> BOOLEAN]
  /\ connected \in [Socket -> BOOLEAN]
  /\ inUserRoom \in [Socket -> BOOLEAN]
  /\ rooms \in [Socket -> SUBSET Room]
  /\ timer \in [Socket -> Nat \cup {NoTimer}]

Init ==
  /\ now = 0
  /\ active = [u \in User |-> TRUE]
  /\ deactivated = {}
  /\ phase = [s \in Socket |-> "none"]
  /\ seen = [s \in Socket |-> FALSE]
  /\ connected = [s \in Socket |-> FALSE]
  /\ inUserRoom = [s \in Socket |-> FALSE]
  /\ rooms = [s \in Socket |-> {}]
  /\ timer = [s \in Socket |-> NoTimer]

----------------------------------------------------------------------------
(* The end of connections: Socket.IO takes a socket out of its rooms, and  *)
(* handleDisconnect clears its timer.                                      *)

Ended(gone) ==
  /\ connected' = [s \in Socket |-> connected[s] /\ s \notin gone]
  /\ inUserRoom' = [s \in Socket |-> inUserRoom[s] /\ s \notin gone]
  /\ rooms' = [s \in Socket |-> IF s \in gone THEN {} ELSE rooms[s]]
  /\ timer' = [s \in Socket |-> IF s \in gone THEN NoTimer ELSE timer[s]]

\* The client closes the connection or loses it.
Disconnect(s) ==
  /\ connected[s]
  /\ Ended({s})
  /\ UNCHANGED <<now, accounts, phase, seen>>

----------------------------------------------------------------------------
(* handleConnection.                                                       *)

\* The cookie holds a token that jwtService.verify accepts.
Connect(s) ==
  /\ phase[s] = "none"
  /\ now < Exp[s]
  /\ phase' = [phase EXCEPT ![s] = "reading"]
  /\ connected' = [connected EXCEPT ![s] = TRUE]
  /\ UNCHANGED <<now, accounts, seen, inUserRoom, rooms, timer>>

\* findById reads the account; its answer is on its way.
ReadUser(s) ==
  /\ phase[s] = "reading"
  /\ phase' = [phase EXCEPT ![s] = "read"]
  /\ seen' = [seen EXCEPT ![s] = active[Owner[s]]]
  /\ UNCHANGED <<now, accounts, connected, inUserRoom, rooms, timer>>

\* The account is missing or inactive, or the query failed: disconnect(true).
\* Disconnecting a socket that is gone does nothing.
Reject(s) ==
  /\ phase[s] = "reading" \/ (phase[s] = "read" /\ ~seen[s])
  /\ phase' = [phase EXCEPT ![s] = "rejected"]
  /\ Ended(IF connected[s] THEN {s} ELSE {})
  /\ UNCHANGED <<now, accounts, seen>>

JoinUserRoom(s) ==
  /\ phase[s] = "read" /\ seen[s]
  /\ phase' = [phase EXCEPT ![s] = "joined"]
  /\ inUserRoom' = [inUserRoom EXCEPT ![s] = TRUE]
  /\ UNCHANGED <<now, accounts, seen, connected, rooms, timer>>

\* Mutant: no timer is set for a session that has just expired.
FiresAtUnlessPast(s) ==
  IF Exp[s] <= now THEN NoTimer
  ELSE IF Exp[s] - now <= MaxDelay THEN Exp[s] ELSE now + MaxDelay

\* Mutant: the timer is set to the delay, which may be negative.
FiresAfter(s) == IF Exp[s] - now <= MaxDelay THEN Exp[s] - now - 1 ELSE MaxDelay

\* The delay is not negative and not longer than setTimeout accepts.
FiresAt(s) ==
  IF Exp[s] <= now THEN now
  ELSE IF Exp[s] - now <= MaxDelay THEN Exp[s] ELSE now + MaxDelay

ScheduleExpiry(s) ==
  /\ phase[s] = "joined"
  /\ phase' = [phase EXCEPT ![s] = "open"]
  /\ timer' = [timer EXCEPT ![s] = FiresAt(s)]
  /\ UNCHANGED <<now, accounts, seen, connected, inUserRoom, rooms>>

----------------------------------------------------------------------------
(* Rooms.                                                                  *)

OfKind(s, r) == {x \in rooms[s] : Prefix[x] = Prefix[r]}

\* Mutant: the comparison with the limit is off by one.
AdmitsOneMore(s, r) == Cardinality(OfKind(s, r)) <= MaxRooms

Admits(s, r) == Cardinality(OfKind(s, r)) < MaxRooms

\* joinCapped
Join(s, r) ==
  /\ connected[s]
  /\ r \notin rooms[s]
  /\ Admits(s, r)
  /\ rooms' = [rooms EXCEPT ![s] = @ \cup {r}]
  /\ UNCHANGED <<now, accounts, phase, seen, connected, inUserRoom, timer>>

Leave(s, r) ==
  /\ connected[s]
  /\ r \in rooms[s]
  /\ rooms' = [rooms EXCEPT ![s] = @ \ {r}]
  /\ UNCHANGED <<now, accounts, phase, seen, connected, inUserRoom, timer>>

----------------------------------------------------------------------------
(* Expiry, deactivation and shutdown.                                      *)

\* The callback of the timer: delete it and disconnect.
Expire(s) ==
  /\ timer[s] # NoTimer
  /\ now >= timer[s]
  /\ Ended({s})
  /\ UNCHANGED <<now, accounts, phase, seen>>

\* UsersService commits the deactivation and emits it afterwards.
Deactivate(u) ==
  /\ active[u]
  /\ active' = [active EXCEPT ![u] = FALSE]
  /\ deactivated' = deactivated \cup {u}
  /\ UNCHANGED <<now, sockets>>

Reactivate(u) ==
  /\ ~active[u]
  /\ active' = [active EXCEPT ![u] = TRUE]
  /\ UNCHANGED <<now, deactivated, sockets>>

\* disconnectUser: every socket in the user's room.
DisconnectUser(u) ==
  /\ u \in deactivated
  /\ deactivated' = deactivated \ {u}
  /\ Ended({s \in Socket : Owner[s] = u /\ inUserRoom[s] /\ connected[s]})
  /\ UNCHANGED <<now, active, phase, seen>>

\* onModuleDestroy clears the timers; the server closes every socket.
Shutdown ==
  /\ \E s \in Socket : connected[s]
  /\ Ended(Socket)
  /\ UNCHANGED <<now, accounts, phase, seen>>

Tick ==
  /\ now < MaxTime
  /\ now' = now + 1
  /\ UNCHANGED <<accounts, sockets>>

Next ==
  \/ \E s \in Socket :
       \/ Connect(s) \/ ReadUser(s) \/ Reject(s) \/ JoinUserRoom(s) \/ ScheduleExpiry(s)
       \/ Disconnect(s) \/ Expire(s)
       \/ \E r \in Room : Join(s, r) \/ Leave(s, r)
  \/ \E u \in User : Deactivate(u) \/ Reactivate(u) \/ DisconnectUser(u)
  \/ Shutdown
  \/ Tick

Spec == Init /\ [][Next]_vars

\* A pending query answers or fails, continuations run, and due timers fire.
Fairness ==
  \A s \in Socket : /\ WF_vars(ReadUser(s) \/ Reject(s) \/ JoinUserRoom(s))
                    /\ WF_vars(ScheduleExpiry(s))
                    /\ WF_vars(Expire(s))

FairSpec == Spec /\ Fairness

----------------------------------------------------------------------------
(* Properties.                                                             *)

\* However joins and leaves are mixed, before or after authentication, a
\* socket is in at most MaxRooms rooms of a kind (joinCapped).
RoomsAreCapped ==
  \A s \in Socket, r \in Room : Cardinality(OfKind(s, r)) <= MaxRooms

FiniteRooms == \A s \in Socket : IsFiniteSet(rooms[s])

\* A connection that handleConnection has accepted carries a timer that fires
\* no later than its session expires, or is due already; a slow account query
\* never leaves a socket without one (scheduleExpiry).
OpenSocketsExpire ==
  \A s \in Socket :
    connected[s] /\ phase[s] = "open" =>
      timer[s] # NoTimer /\ (timer[s] <= Exp[s] \/ timer[s] <= now)

\* "A WebSocket connection ... is closed when the session expires"
\* (docs/presentation/2-architecture-and-api.md): also one that was being
\* authenticated at that moment.
SessionsEnd ==
  \A s \in Socket : connected[s] /\ now >= Exp[s] ~> ~connected[s]
==============================================================================
