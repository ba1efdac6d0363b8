SPECIFICATION FairSpec
CONSTANTS
  Keys <- MCKeys
  LastMonth = 2
  Txs = {t1, t2}
  Closers = {c1, c2}
  NoTx = NoTx
  Provisioned <- MCProvisioned
  InitQty <- MCInitQty
  Requests <- MCRequests
CHECK_DEADLOCK FALSE
PROPERTY NoPostingInClosedMonth
