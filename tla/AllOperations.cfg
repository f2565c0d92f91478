SPECIFICATION Spec
CONSTANTS
  Resource = {r1}
  BookingId = {b1}
  ClosureId = {k1, k2}
  Txn = {t1, t2}
  Slot <- OneSlot
  Instants <- FewInstants
  ClosureDate <- MCClosureDates
  Patch <- AnyPatches
  InitialResource <- WithApproval
  Ops <- AllOps
SYMMETRY Symmetry
INVARIANTS IInv ChangesAreAnnounced UnendedBookingsAreOperational ClosedDatesAreFree
