------------------------- MODULE EventsGatewayProofs -------------------------
(***************************************************************************)
(* For any sockets, rooms, sessions and limits: the caps on rooms hold and *)
(* no accepted connection is without a timer that ends it in time.         *)
(***************************************************************************)
EXTENDS EventsGateway, FiniteSetTheorems, TLAPS

GatewayInv == TypeOK /\ FiniteRooms /\ RoomsAreCapped /\ OpenSocketsExpire

\* Closing connections only removes rooms and timers (Ended).
LEMMA EndedKeepsInv ==
  ASSUME GatewayInv, NEW gone, Ended(gone), UNCHANGED <<now, accounts, seen>>,
         phase' \in [Socket -> Phase],
         \A s \in Socket : phase'[s] = "open" => phase[s] = "open"
  PROVE  GatewayInv'
<1> USE DEF accounts
<1>1. TypeOK'
  BY DEF GatewayInv, TypeOK, Ended
<1>2. ASSUME NEW s \in Socket PROVE rooms'[s] = {} \/ rooms'[s] = rooms[s]
  BY DEF Ended
<1>3. FiniteRooms'
  BY <1>2, FS_EmptySet DEF GatewayInv, FiniteRooms
<1>4. RoomsAreCapped'
  <2> SUFFICES ASSUME NEW s \in Socket, NEW r \in Room
               PROVE  Cardinality(OfKind(s, r)') <= MaxRooms
    BY DEF RoomsAreCapped
  <2>1. CASE rooms'[s] = {}
    <3>1. OfKind(s, r)' = {}
      BY <2>1 DEF OfKind
    <3> QED BY <3>1, FS_EmptySet, LimitAssumption
  <2>2. CASE rooms'[s] = rooms[s]
    <3>1. OfKind(s, r)' = OfKind(s, r)
      BY <2>2 DEF OfKind
    <3> QED BY <3>1 DEF GatewayInv, RoomsAreCapped
  <2> QED BY <2>1, <2>2, <1>2
<1>5. OpenSocketsExpire'
  <2> SUFFICES ASSUME NEW s \in Socket, connected'[s], phase'[s] = "open"
               PROVE  timer'[s] # NoTimer /\ (timer'[s] <= Exp[s] \/ timer'[s] <= now)
    BY DEF OpenSocketsExpire
  <2>1. connected[s] /\ s \notin gone
    BY DEF Ended
  <2>2. timer'[s] = timer[s]
    BY <2>1 DEF Ended
  <2> QED BY <2>1, <2>2 DEF GatewayInv, OpenSocketsExpire
<1> QED BY <1>1, <1>3, <1>4, <1>5 DEF GatewayInv

\* Steps that leave the rooms alone keep the caps.
LEMMA SameRooms ==
  ASSUME GatewayInv, rooms' = rooms
  PROVE  FiniteRooms' /\ RoomsAreCapped'
BY DEF GatewayInv, FiniteRooms, RoomsAreCapped, OfKind

\* A timer set by FiresAt fires in time.
LEMMA FiresInTime ==
  ASSUME TypeOK, NEW s \in Socket
  PROVE  /\ FiresAt(s) \in Nat
         /\ FiresAt(s) <= Exp[s] \/ FiresAt(s) <= now
<1>1. Exp[s] \in Nat /\ now \in Nat /\ MaxDelay \in Nat
  BY ExpAssumption, LimitAssumption DEF TypeOK
<1> QED BY <1>1 DEF FiresAt

\* A room is joined only below the cap, and left rooms only lower the count.
LEMMA JoinKeepsCaps ==
  ASSUME GatewayInv, NEW s \in Socket, NEW r \in Room, Join(s, r)
  PROVE  FiniteRooms' /\ RoomsAreCapped'
<1>1. rooms'[s] = rooms[s] \cup {r} /\ \A u \in Socket \ {s} : rooms'[u] = rooms[u]
  BY DEF Join, GatewayInv, TypeOK
<1>2. FiniteRooms'
  <2> SUFFICES ASSUME NEW u \in Socket PROVE IsFiniteSet(rooms'[u])
    BY DEF FiniteRooms
  <2>1. IsFiniteSet(rooms[u])
    BY DEF GatewayInv, FiniteRooms
  <2>2. IsFiniteSet(rooms[u] \cup {r})
    BY <2>1, FS_AddElement
  <2> QED BY <1>1, <2>1, <2>2
<1>3. RoomsAreCapped'
  <2> SUFFICES ASSUME NEW u \in Socket, NEW x \in Room
               PROVE  Cardinality(OfKind(u, x)') <= MaxRooms
    BY DEF RoomsAreCapped
  <2>1. Cardinality(OfKind(u, x)) <= MaxRooms
    BY DEF GatewayInv, RoomsAreCapped
  <2>2. CASE u # s \/ Prefix[x] # Prefix[r]
    <3>1. OfKind(u, x)' = OfKind(u, x)
      BY <2>2, <1>1 DEF OfKind
    <3> QED BY <3>1, <2>1
  <2>3. CASE u = s /\ Prefix[x] = Prefix[r]
    <3>1. OfKind(u, x)' = OfKind(s, r) \cup {r}
      BY <2>3, <1>1 DEF OfKind
    <3>2. IsFiniteSet(OfKind(s, r))
      <4>1. IsFiniteSet(rooms[s]) /\ OfKind(s, r) \subseteq rooms[s]
        BY DEF GatewayInv, FiniteRooms, OfKind
      <4> QED BY <4>1, FS_Subset
    <3>3. r \notin OfKind(s, r) /\ Cardinality(OfKind(s, r)) < MaxRooms
      BY DEF Join, OfKind, Admits
    <3>4. Cardinality(OfKind(s, r) \cup {r}) = Cardinality(OfKind(s, r)) + 1
      BY <3>2, <3>3, FS_AddElement
    <3>5. Cardinality(OfKind(s, r)) \in Nat
      BY <3>2, FS_CardinalityType
    <3> QED BY <3>1, <3>3, <3>4, <3>5, LimitAssumption
  <2> QED BY <2>2, <2>3
<1> QED BY <1>2, <1>3

\* The counterpart for leave.
LEMMA LeaveKeepsCaps ==
  ASSUME GatewayInv, NEW s \in Socket, NEW r \in Room, Leave(s, r)
  PROVE  FiniteRooms' /\ RoomsAreCapped'
<1>1. \A u \in Socket : rooms'[u] \subseteq rooms[u]
  BY DEF Leave, GatewayInv, TypeOK
<1>2. \A u \in Socket : IsFiniteSet(rooms[u])
  BY DEF GatewayInv, FiniteRooms
<1>3. FiniteRooms'
  BY <1>1, <1>2, FS_Subset DEF FiniteRooms
<1>4. RoomsAreCapped'
  <2> SUFFICES ASSUME NEW u \in Socket, NEW x \in Room
               PROVE  Cardinality(OfKind(u, x)') <= MaxRooms
    BY DEF RoomsAreCapped
  <2>1. OfKind(u, x)' \subseteq OfKind(u, x) /\ OfKind(u, x) \subseteq rooms[u]
    BY <1>1 DEF OfKind
  <2>2. IsFiniteSet(OfKind(u, x))
    BY <2>1, <1>2, FS_Subset
  <2>3. /\ Cardinality(OfKind(u, x)') <= Cardinality(OfKind(u, x))
        /\ Cardinality(OfKind(u, x)) \in Nat
        /\ Cardinality(OfKind(u, x)') \in Nat
    BY <2>1, <2>2, FS_Subset, FS_CardinalityType
  <2>4. Cardinality(OfKind(u, x)) <= MaxRooms
    BY DEF GatewayInv, RoomsAreCapped
  <2> QED BY <2>3, <2>4, LimitAssumption
<1> QED BY <1>3, <1>4

\* Every step keeps the invariant.
LEMMA GatewayStep ==
  ASSUME GatewayInv, [Next]_vars
  PROVE  GatewayInv'
<1> USE DEF accounts, sockets
<1>0. TypeOK
  BY DEF GatewayInv
<1>1. ASSUME NEW s \in Socket, Connect(s) PROVE GatewayInv'
  <2>1. TypeOK' /\ rooms' = rooms
    BY <1>0, <1>1 DEF TypeOK, Connect, Phase
  <2>2. OpenSocketsExpire'
    BY <1>0, <1>1 DEF GatewayInv, OpenSocketsExpire, Connect, TypeOK
  <2> QED BY <2>1, <2>2, SameRooms DEF GatewayInv
<1>2. ASSUME NEW s \in Socket, ReadUser(s) PROVE GatewayInv'
  <2>1. TypeOK' /\ rooms' = rooms
    BY <1>0, <1>2, OwnerAssumption DEF TypeOK, ReadUser, Phase
  <2>2. OpenSocketsExpire'
    BY <1>0, <1>2 DEF GatewayInv, OpenSocketsExpire, ReadUser, TypeOK
  <2> QED BY <2>1, <2>2, SameRooms DEF GatewayInv
<1>3. ASSUME NEW s \in Socket, Reject(s) PROVE GatewayInv'
  <2>1. phase' \in [Socket -> Phase]
        /\ \A u \in Socket : phase'[u] = "open" => phase[u] = "open"
    BY <1>0, <1>3 DEF Reject, TypeOK, Phase
  <2>2. PICK gone : Ended(gone)
    BY <1>3 DEF Reject
  <2> QED BY <1>3, <2>1, <2>2, EndedKeepsInv DEF Reject
<1>4. ASSUME NEW s \in Socket, JoinUserRoom(s) PROVE GatewayInv'
  <2>1. TypeOK' /\ rooms' = rooms
    BY <1>0, <1>4 DEF TypeOK, JoinUserRoom, Phase
  <2>2. OpenSocketsExpire'
    BY <1>0, <1>4 DEF GatewayInv, OpenSocketsExpire, JoinUserRoom, TypeOK
  <2> QED BY <2>1, <2>2, SameRooms DEF GatewayInv
<1>5. ASSUME NEW s \in Socket, ScheduleExpiry(s) PROVE GatewayInv'
  <2>1. FiresAt(s) \in Nat /\ (FiresAt(s) <= Exp[s] \/ FiresAt(s) <= now)
    BY <1>0, FiresInTime
  <2>2. TypeOK' /\ rooms' = rooms
    BY <1>0, <1>5, <2>1 DEF TypeOK, ScheduleExpiry, Phase
  <2>3. OpenSocketsExpire'
    <3> SUFFICES ASSUME NEW u \in Socket, connected'[u], phase'[u] = "open"
                 PROVE  timer'[u] # NoTimer /\ (timer'[u] <= Exp[u] \/ timer'[u] <= now')
      BY DEF OpenSocketsExpire
    <3>1. CASE u = s
      BY <3>1, <1>0, <1>5, <2>1 DEF ScheduleExpiry, TypeOK, NoTimer
    <3>2. CASE u # s
      BY <3>2, <1>0, <1>5 DEF ScheduleExpiry, TypeOK, GatewayInv, OpenSocketsExpire
    <3> QED BY <3>1, <3>2
  <2> QED BY <2>2, <2>3, SameRooms DEF GatewayInv
<1>6. ASSUME NEW s \in Socket, Disconnect(s) PROVE GatewayInv'
  BY <1>0, <1>6, EndedKeepsInv DEF Disconnect, TypeOK
<1>7. ASSUME NEW s \in Socket, Expire(s) PROVE GatewayInv'
  BY <1>0, <1>7, EndedKeepsInv DEF Expire, TypeOK
<1>8. ASSUME NEW s \in Socket, NEW r \in Room, Join(s, r) PROVE GatewayInv'
  <2>1. TypeOK'
    BY <1>0, <1>8 DEF TypeOK, Join
  <2>2. OpenSocketsExpire'
    BY <1>8 DEF GatewayInv, OpenSocketsExpire, Join
  <2> QED BY <2>1, <2>2, <1>8, JoinKeepsCaps DEF GatewayInv
<1>9. ASSUME NEW s \in Socket, NEW r \in Room, Leave(s, r) PROVE GatewayInv'
  <2>1. TypeOK'
    BY <1>0, <1>9 DEF TypeOK, Leave
  <2>2. OpenSocketsExpire'
    BY <1>9 DEF GatewayInv, OpenSocketsExpire, Leave
  <2> QED BY <2>1, <2>2, <1>9, LeaveKeepsCaps DEF GatewayInv
<1>10. ASSUME NEW u \in User, Deactivate(u) \/ Reactivate(u) PROVE GatewayInv'
  <2>1. TypeOK' /\ rooms' = rooms
    BY <1>0, <1>10 DEF TypeOK, Deactivate, Reactivate
  <2>2. OpenSocketsExpire'
    BY <1>10 DEF GatewayInv, OpenSocketsExpire, Deactivate, Reactivate
  <2> QED BY <2>1, <2>2, SameRooms DEF GatewayInv
<1>11. ASSUME NEW u \in User, DisconnectUser(u) PROVE GatewayInv'
  <2>1. PICK gone : Ended(gone)
    BY <1>11 DEF DisconnectUser
  <2>2. TypeOK'
    BY <1>0, <1>11 DEF DisconnectUser, TypeOK, Ended
  <2>3. FiniteRooms' /\ RoomsAreCapped' /\ OpenSocketsExpire'
    <3>1. \A s \in Socket : rooms'[s] = {} \/ rooms'[s] = rooms[s]
      BY <2>1 DEF Ended
    <3>2. FiniteRooms'
      BY <3>1, FS_EmptySet DEF GatewayInv, FiniteRooms
    <3>3. OpenSocketsExpire'
      <4> SUFFICES ASSUME NEW s \in Socket, connected'[s], phase'[s] = "open"
                   PROVE  timer'[s] # NoTimer /\ (timer'[s] <= Exp[s] \/ timer'[s] <= now')
        BY DEF OpenSocketsExpire
      <4>1. connected[s] /\ s \notin gone /\ phase[s] = "open"
        BY <2>1, <1>11 DEF Ended, DisconnectUser
      <4>2. timer'[s] = timer[s] /\ now' = now
        BY <2>1, <1>11, <4>1 DEF Ended, DisconnectUser
      <4> QED BY <4>1, <4>2 DEF GatewayInv, OpenSocketsExpire
    <3>4. RoomsAreCapped'
      <4> SUFFICES ASSUME NEW s \in Socket, NEW r \in Room
                   PROVE  Cardinality(OfKind(s, r)') <= MaxRooms
        BY DEF RoomsAreCapped
      <4>1. CASE rooms'[s] = {}
        <5>1. OfKind(s, r)' = {}
          BY <4>1 DEF OfKind
        <5> QED BY <5>1, FS_EmptySet, LimitAssumption
      <4>2. CASE rooms'[s] = rooms[s]
        <5>1. OfKind(s, r)' = OfKind(s, r)
          BY <4>2 DEF OfKind
        <5> QED BY <5>1 DEF GatewayInv, RoomsAreCapped
      <4> QED BY <3>1, <4>1, <4>2
    <3> QED BY <3>2, <3>3, <3>4
  <2> QED BY <2>2, <2>3 DEF GatewayInv
<1>12. ASSUME Shutdown PROVE GatewayInv'
  BY <1>0, <1>12, EndedKeepsInv DEF Shutdown, TypeOK
<1>13. ASSUME Tick PROVE GatewayInv'
  <2>1. TypeOK' /\ rooms' = rooms
    BY <1>0, <1>13 DEF TypeOK, Tick
  <2>2. OpenSocketsExpire'
    <3> SUFFICES ASSUME NEW s \in Socket, connected'[s], phase'[s] = "open"
                 PROVE  timer'[s] # NoTimer /\ (timer'[s] <= Exp[s] \/ timer'[s] <= now')
      BY DEF OpenSocketsExpire
    <3>1. timer[s] # NoTimer /\ (timer[s] <= Exp[s] \/ timer[s] <= now)
      BY <1>13 DEF Tick, GatewayInv, OpenSocketsExpire
    <3>2. timer[s] \in Nat /\ now \in Nat /\ now' = now + 1 /\ timer' = timer
      BY <1>0, <1>13, <3>1 DEF TypeOK, Tick
    <3> QED BY <3>1, <3>2
  <2> QED BY <2>1, <2>2, SameRooms DEF GatewayInv
<1>14. CASE UNCHANGED vars
  <2>1. TypeOK' /\ rooms' = rooms
    BY <1>0, <1>14 DEF TypeOK, vars
  <2>2. OpenSocketsExpire'
    BY <1>14 DEF GatewayInv, OpenSocketsExpire, vars
  <2> QED BY <2>1, <2>2, SameRooms DEF GatewayInv
<1> QED
  BY <1>1, <1>2, <1>3, <1>4, <1>5, <1>6, <1>7, <1>8, <1>9, <1>10, <1>11, <1>12, <1>13,
     <1>14 DEF Next

\* The invariant holds in the initial state.
LEMMA GatewayStarts == Init => GatewayInv
<1> SUFFICES ASSUME Init PROVE GatewayInv
  OBVIOUS
<1>1. TypeOK
  BY DEF Init, TypeOK, Phase
<1>2. FiniteRooms /\ OpenSocketsExpire
  BY FS_EmptySet DEF Init, FiniteRooms, OpenSocketsExpire
<1>3. RoomsAreCapped
  <2> SUFFICES ASSUME NEW s \in Socket, NEW r \in Room
               PROVE  Cardinality(OfKind(s, r)) <= MaxRooms
    BY DEF RoomsAreCapped
  <2>1. OfKind(s, r) = {}
    BY DEF OfKind, Init
  <2> QED BY <2>1, FS_EmptySet, LimitAssumption
<1> QED BY <1>1, <1>2, <1>3 DEF GatewayInv

\* The inductive invariant of the gateway holds throughout.
THEOREM GatewayInvHolds == Spec => []GatewayInv
BY GatewayStarts, GatewayStep, PTL DEF Spec

\* No sequence of joins, leaves, connections and disconnections takes a
\* socket over its caps.
THEOREM CapsHold == Spec => []RoomsAreCapped
<1>1. GatewayInv => RoomsAreCapped
  BY DEF GatewayInv
<1> QED BY <1>1, GatewayInvHolds, PTL

\* Every accepted connection is under a timer that ends it with its session.
THEOREM ConnectionsExpire == Spec => []OpenSocketsExpire
<1>1. GatewayInv => OpenSocketsExpire
  BY DEF GatewayInv
<1> QED BY <1>1, GatewayInvHolds, PTL

\* The gateway's state keeps its type.
THEOREM GatewayWellTyped == Spec => []TypeOK
<1>1. GatewayInv => TypeOK
  BY DEF GatewayInv
<1> QED BY <1>1, GatewayInvHolds, PTL
=============================================================================
