SPECIFICATION Spec
CONSTANTS
  Resource = {r1}
  BookingId = {b1}
  ClosureId = {}
  Txn = {t1, t2}
  Slot <- OneSlot
  Instants <- EndInstants
  ClosureDate <- MCClosureDates
  Patch <- AnyPatches
  InitialResource <- EitherApproval
  Ops <- CheckInOps
PROPERTY StatusChangeIsBlocked
