SPECIFICATION Spec
CONSTANTS
  wo = wo  pm = pm  a1 = a1  a2 = a2  u1 = u1  u2 = u2
  Docs = {wo, pm}
  Records = {pm}
  NoDoc = NoDoc
  Approvals = {a1, a2}
  NoApproval = NoApproval
  Targets <- MCTargets
  Users = {u1, u2}
  Lines <- MCLines
  Bodies = {b1, b2}
  Calls = {c1, c2}
  NoCall = NoCall
PROPERTY OnlyDraftsAreDeleted
CHECK_DEADLOCK FALSE
