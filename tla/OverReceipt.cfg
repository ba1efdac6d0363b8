SPECIFICATION Spec
CONSTANTS
  o1 = o1  o2 = o2  o3 = o3  m1 = m1
  r1 = r1  r2 = r2  p1 = p1  p2 = p2
  Orders = {o1, o2, o3}
  NoOrder = NoOrder
  Materials = {m1}
  Requests = {r1, r2}
  PrLines = {p1, p2}
  RequestOf <- MCRequestOf
  MaterialOf <- MCMaterialOf
  RequestedQty <- MCRequestedQty
  Calls = {c1, c2}
  NoCall = NoCall
  LegacyQty <- MCLegacyQty
  Integrations <- MCIntegrations
  Drafts <- MCDrafts
  Reallocations <- MCReallocations
  Receipts <- MCMixedReceipts
  Hasty = {o2}
  MaxReceived = 2
CHECK_DEADLOCK FALSE
PROPERTY ReceiptWithinRemainder
