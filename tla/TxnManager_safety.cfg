SPECIFICATION Spec
CONSTANTS
  Txn = {t1, t2, t3}
  CkpTxn = {}
  Row = {r1, r2}
  START_TS = 0
  UNCOMMIT_TS = 99
SYMMETRY Symmetry
INVARIANTS
  CleanupScanSafe
  TypeOK
  WalInCommitOrder
  FirstCommitterWins
  AppliedIsDurable
  MaxCommittedIsCut
  MergedIsPrefix
  NoDanglingTxn
PROPERTIES
  ImplementsRowStore
