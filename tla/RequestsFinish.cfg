SPECIFICATION FairSpec
CONSTANTS
  Resource = {r1}
  BookingId = {b1, b2}
  ClosureId = {}
  Txn = {t1, t2}
  Slot <- OneSlot
  Instants <- EndInstants
  ClosureDate <- MCClosureDates
  Patch <- AnyPatches
  InitialResource <- WithApproval
  Ops <- WaitingOps
PROPERTIES RequestsFinish ChangesAreEventuallyAnnounced
