SPECIFICATION OfficeSpec
CONSTANTS
  wo = wo  pm = pm  a1 = a1  a2 = a2  u1 = u1  u2 = u2
  Docs = {wo, pm}
  Records = {pm}
  NoDoc = NoDoc
  Approvals = {a1, a2}
  NoApproval = NoApproval
  Targets <- MCTargets
  Users = {u1, u2}
  Lines <- MCLines
  Bodies = {b1, b2}
  Calls = {c1, c2}
  NoCall = NoCall
  admin = admin  plain = plain
  Roles = {admin, plain}
  Keys <- MCKeys
  Contents <- MCContents
  Details <- MCDetails
  Mixes <- MCMixes
  NoRole = NoRole
  NoUser = NoUser
  Companies = {co}
  NoCompany = NoCompany
  Administrators = {m1, m2}
  NoAdministrator = NoAdministrator
  CheckTypes = {weekly, yearly}
INVARIANTS OfficeTypeOK DocumentFollowsApproval ApprovalMatchesResults
           HeaderMatchesItems CheckCycleIsConfirmed
           AuthorityIsFresh CyclesOfOneSave
PROPERTIES ImplementsApprovalDesk UnderApprovalIsFrozen NobodyChangesHimself
SYMMETRY CallSymmetry
CHECK_DEADLOCK FALSE
