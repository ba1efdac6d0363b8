SPECIFICATION Spec
CONSTANTS
  Keys <- MCKeys
  LastMonth = 2
  Txs = {t1, t2, t3}
  Closers = {}
  NoTx = NoTx
  Provisioned <- MCProvisioned
  InitQty <- MCInitQty
  Requests <- MCRequests
CHECK_DEADLOCK FALSE
INVARIANT BooksAgreeOnFirstReceipt
