------------------------------- MODULE Clients -------------------------------
(***************************************************************************)
(* Who calls the services: the constants that Documents, BaseData and      *)
(* Equipment have in common.                                               *)
(***************************************************************************)
CONSTANTS
  Users,         \* as a row of users, an approver, an administrator
  Calls, NoCall  \* concurrent calls of the services

ASSUME CallNames == NoCall \notin Calls
=============================================================================
