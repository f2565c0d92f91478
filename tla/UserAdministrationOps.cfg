SPECIFICATION Spec
CONSTANTS
  Account = {1, 2, 3}
  Txn = {t1, t2}
  Configured <- AllConfigured
  InitialRow <- AnyRow
SYMMETRY Symmetry
INVARIANTS UserInv RecoveryOnlyWithoutAdmins
PROPERTIES AdminsRemain ChangesAreMadeByAdmins
