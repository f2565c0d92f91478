SPECIFICATION BoundedAvailabilitySpec
CONSTANTS
  Resource = {r1, r2}
  BookingId = {b1, b2}
  ClosureId = {k1}
  Txn = {t1}
  Slot <- HourSlots
  Instants <- HourInstants
  ClosureDate <- MCClosureDates
  Patch <- AnyPatches
  InitialResource <- OpenToNoon
  Asked <- MCAsked
  PopularSize = 1
  Ops <- AnyOps
SYMMETRY Symmetry
INVARIANTS SlotsMatchCreate DirectoryMatchesPages AvailabilityIsReadable
  UtilizationIsBounded SummariesAreAccepted
