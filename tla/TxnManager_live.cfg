SPECIFICATION FairSpec
CONSTANTS
  Txn = {t1, t2, k}
  CkpTxn = {k}
  Row = {r1}
  START_TS = 0
  UNCOMMIT_TS = 99
PROPERTIES
  CommitEnds
  DeltaMerged
