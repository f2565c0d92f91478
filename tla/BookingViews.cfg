SPECIFICATION BoundedQueueSpec
CONSTANTS
  Resource = {r1}
  BookingId = {b1}
  ClosureId = {}
  Txn = {t1, t2}
  Slot <- ViewSlots
  Instants <- ViewInstants
  ClosureDate <- MCClosureDates
  Patch <- AnyPatches
  InitialResource <- AroundTheClock
  Ops <- LifecycleOps
  QueueSize = 1
  QueuePages = {1, 2}
SYMMETRY Symmetry
INVARIANTS RowsAreReadable FlagsMatchOperations ListsAreReadable OperationsAreListed
