SPECIFICATION ScreensSpec
CONSTANTS
  Keys <- MCKeys
  LastMonth = 2
  Txs = {t1, t2, t3}
  Closers = {}
  NoTx = NoTx
  Provisioned <- MCProvisioned
  InitQty <- MCInitQty
  Requests <- MCRequests
  Queries = {q1, q2}
  Papers = {p1, p2}
  NoPaper = NoPaper
  Fillings = {f1, f2, f3}
  MaxTurns <- MCMaxTurns
INVARIANTS ScreensTypeOK NonNegativeStock BooksAgree NoWaitOnExistingRows ReversalIsExactInverse
           OneDocumentPerFilling
PROPERTIES ImplementsAtomicStock ScreenSettles
CHECK_DEADLOCK FALSE
