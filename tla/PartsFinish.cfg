CONSTANTS
  r1 = r1
  r2 = r2
  c1 = c1
  s1 = s1
  s2 = s2
  None = None
  AnyValue = AnyValue
  Tab = {p1}
  Date = {d1}
  MaxLate = 0
  Managed = {r1}
  Loads = {1}
  MaxVersion = 3
  MaxUser = 2
  Opened = {0}
  Visited = {"register", "dashboard", "bookings"}
  MaxRooms = 1
  MaxOutbox = 2
  FirstListed = {r1}
  Closure = {c1}
  ClosureOf <- ClosedResource
  DirectoryUser <- Accounts
  Me = 1
  Created <- Creation
  PageSize = 2
  Filter <- Filters
  Roles <- UserRoles
  Elsewhere <- OthersEdit
  Person = {u1}
  Role = {"student", "staff", "admin"}
  MaxChanges = 1
  Imported = {r1, r2}
  Catalog <- Entries
  Before <- Rows
  Creator = {s1, s2}
  Wanted <- Requests
  Booked <- Bookings
  Today = 1
  MaxRuns = 2
SPECIFICATION BoundedFairSpec
PROPERTIES
  RowsMoveForward
  EventsReachThePage
  ControlsComeBack
  NavigationsEnd
  SignInRestoresEvents
  ImportAndCreationsEnd
CHECK_DEADLOCK FALSE
