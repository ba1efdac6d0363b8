SPECIFICATION Spec
CONSTANTS
  s1 = s1
  s2 = s2
  s3 = s3
  r1 = r1
  r2 = r2
  t1 = t1
  t2 = t2
  d1 = d1
  d2 = d2
  Tabs = {t1, t2}
  NoTab = NoTab
  Requests = {r1, r2}
  Users = {u1}
  NoUser = NoUser
  Sessions = {s1, s2, s3}
  NoSession = NoSession
  MaxFailed = 2
  Devices <- Others
  Calls <- MCCalls
  Mixes <- MCMixes
PROPERTIES GuessingLocks EveryRequestSettles
INVARIANTS TypeOK OldCredentialsAreOut
