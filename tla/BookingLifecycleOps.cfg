SPECIFICATION Spec
CONSTANTS
  Resource = {r1}
  BookingId = {b1, b2}
  ClosureId = {}
  Txn = {t1, t2}
  Slot <- MCSlots
  Instants <- MCInstants
  ClosureDate <- MCClosureDates
  Patch <- AnyPatches
  InitialResource <- EitherApproval
  Ops <- LifecycleOps
SYMMETRY Symmetry
INVARIANTS NoOverlap ChecksHold
PROPERTY ImplementsLifecycle
