------------------------------ MODULE MCBrowser ------------------------------
(***************************************************************************)
(* Browser on a small instance.                                            *)
(***************************************************************************)
EXTENDS Browser

CONSTANTS t1, t2, d1, d2, s1, s2, s3, r1, r2

Lines(tabs) == {<<t, l>> : t \in tabs, l \in {"page", "interceptor"}}
Others == {<<d, "device">> : d \in {d1, d2}}
MCCalls == Lines({t1, t2}) \union Others

Mix(clients, operations, sessions, requests) ==
  [clients |-> clients, operations |-> operations, sessions |-> sessions, requests |-> requests]
MCMixes == {
  \* two requests of a tab share a refresh
  Mix(Lines({t1}), {"refresh"}, {s1, s2, s3}, {r1, r2}),
  \* two tabs refresh at the same time
  Mix(Lines({t1, t2}), {"refresh"}, {s1, s2, s3}, {r1}),
  \* a tab signs in and out while a request of its is refused
  Mix(Lines({t1}), {"login", "refresh", "logout"}, {s1, s2, s3}, {r1}),
  \* guessing and refreshing against a revocation
  Mix(Others, {"login", "refresh", "changePassword", "setUse"}, {s1}, {}),
  Mix(Others, {"refresh", "logout", "changePassword", "setUse"}, {s1, s2}, {}),
  \* guessing against the administration of users
  Mix(Others, {"login", "signUp", "saveUser", "updateUser", "deleteUser"}, {s1}, {})}
=============================================================================
