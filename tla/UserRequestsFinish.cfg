SPECIFICATION FairSpec
CONSTANTS
  Account = {1, 2}
  Txn = {t1, t2}
  Configured <- AdminsConfigured
  InitialRow <- AnyRow
PROPERTY AccountRequestsFinish
