SPECIFICATION FairSpec
CONSTANTS
  u1 = u1
  s1 = s1
  s2 = s2
  a1 = a1
  a2 = a2
  d1 = d1
  Socket = {s1, s2}
  User = {u1}
  Room = {a1, a2, d1}
  Owner <- MCOwner
  Exp <- MCExp
  Prefix <- MCPrefix
  MaxRooms = 1
  MaxDelay = 2
  MaxTime = 4
INVARIANTS TypeOK RoomsAreCapped OpenSocketsExpire
PROPERTY SessionsEnd
CHECK_DEADLOCK FALSE
