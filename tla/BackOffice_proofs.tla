-------------------------- MODULE BackOffice_proofs --------------------------
(***************************************************************************)
(* Theorems about BaseData and Equipment, for any users, roles, rows,      *)
(* check types and number of concurrent calls, and the type invariant of   *)
(* MCBackOffice, which runs them beside Documents.                         *)
(***************************************************************************)
EXTENDS MCBackOffice, Documents_proofs

-----------------------------------------------------------------------------
(***************************************************************************)
(* BaseData.                                                               *)
(*                                                                         *)
(* The argument: what the guard reads of a user and of a role is noted in  *)
(* since at the same moment, and a note stays until the request has ended. *)
(* So a request past the guard has its reasons noted (Authorized), and     *)
(* what it saves about its own user is a role and a use noted with it      *)
(* (SavesOneself).                                                         *)
(***************************************************************************)
Working == {"parent", "find", "save", "write"}

\* A request is a record of these fields.
RequestFields(w) ==
  DOMAIN w = {"phase", "by", "op", "key", "role", "copy", "insert", "columns"}

RequestOK(w) ==
  /\ RequestFields(w)
  /\ w.phase \in RequestPhases /\ w.op \in Actions
  /\ w.by \in Users \union {NoUser} /\ w.role \in Roles \union {NoRole}
  /\ w.phase # "idle" => w.key \in mix /\ w.by \in Users
  /\ w.phase = "detail" => w.role \in Roles
  /\ w.phase \in {"save", "write"} =>
       w.copy \in Row(w.key) /\ w.columns \subseteq DOMAIN w.copy
  /\ w.phase # "write" => w.columns = {}

Authorized(w, s) ==
  /\ w.phase = "detail" => <<w.role, TRUE>> \in s.had
  /\ w.phase \in Working => \E r \in s.grants : <<r, TRUE>> \in s.had

SavesOneself(w, s) ==
  w.phase \in {"save", "write"} /\ w.key = UserKey(w.by) /\ w.op # "C" =>
    w.op = "U" /\ w.copy.status = "live" /\ <<w.copy.role, w.copy.use>> \in s.had

RequestInv(w, s) == RequestOK(w) /\ Authorized(w, s) /\ SavesOneself(w, s)

Rows == db = [k \in Keys |-> db[k]] /\ \A k \in Keys : db[k] \in Row(k)

CreationInv ==
  /\ company \in [Companies -> SUBSET Administrators]
  /\ creation \in [Calls -> Creation]
  /\ \A c \in Calls : creation[c].phase # "idle" =>
       creation[c].of \in Companies /\ creation[c].admin \in Administrators
  /\ \A c \in Calls : creation[c].phase # "commit" => creation[c].next \in 1..Len(Parts)

BaseInv ==
  /\ mix \in Mixes /\ Rows
  /\ call = [c \in Calls |-> call[c]]
  /\ \A c \in Calls : RequestInv(call[c], since[c])
  /\ CreationInv

-----------------------------------------------------------------------------
\* What an UPDATE of the columns that differ makes of a row.
Merged(old, new, differing) ==
  [f \in DOMAIN old |-> IF f \in differing THEN new[f] ELSE old[f]]

\* It is a row of the same table.
LEMMA MergedIsRow ==
  ASSUME NEW k, NEW old \in Row(k), NEW new \in Row(k), NEW differing
  PROVE  Merged(old, new, differing) \in Row(k)
<1>1. CASE Table(k) = "users"
  BY <1>1 DEF Row, UserRow, Merged
<1>2. CASE Table(k) = "roleDetail"
  BY <1>2 DEF Row, DetailRow, Merged
<1>3. CASE Table(k) = "codeGroup"
  BY <1>3 DEF Row, GroupRow, Merged
<1>4. CASE Table(k) \notin {"users", "roleDetail", "codeGroup"}
  BY <1>4 DEF Row, OtherRow, Merged
<1> QED BY <1>1, <1>2, <1>3, <1>4

\* What the tables say is added to the notes of a request under way.
LEMMA Noted ==
  ASSUME Observe, NEW c \in Calls, call'[c] # NoWork
  PROVE  /\ since'[c].had = since[c].had \union Said(c)'.had
         /\ since'[c].grants = since[c].grants \union Said(c)'.grants
BY DEF Observe

\* A request that another step does not touch keeps what it has.
LEMMA OthersKeep ==
  ASSUME Observe, UNCHANGED mix, NEW d \in Calls, call'[d] = call[d],
         RequestInv(call[d], since[d])
  PROVE  RequestInv(call[d], since[d])'
<1>1. RequestOK(call[d])'
  BY DEF RequestInv, RequestOK, RequestFields, Row, UserRow, DetailRow, GroupRow, OtherRow
<1>2. CASE call[d] = NoWork
  BY <1>1, <1>2 DEF RequestInv, Authorized, SavesOneself, NoWork, Working
<1>3. CASE call[d] # NoWork
  <2>1. since[d].had \subseteq since'[d].had /\ since[d].grants \subseteq since'[d].grants
    BY <1>3, Noted
  <2> QED BY <1>1, <2>1 DEF RequestInv, Authorized, SavesOneself, UserKey
<1> QED BY <1>2, <1>3

-----------------------------------------------------------------------------
\* A step that changes one request, and rows to rows, is fine if the request is.
LEMMA OneRequest ==
  ASSUME BaseInv, Observe, NEW c \in Calls, NEW w, Change(c, w), Rows',
         RequestInv(w, since'[c])
  PROVE  BaseInv'
<1>1. /\ call'[c] = w
      /\ \A d \in Calls \ {c} : call'[d] = call[d]
      /\ call' = [d \in Calls |-> call'[d]]
      /\ UNCHANGED <<mix, company, creation>>
  BY DEF BaseInv, Change
<1>2. ASSUME NEW d \in Calls PROVE RequestInv(call[d], since[d])'
  <2>1. CASE d = c
    <3>1. RequestOK(w)'
      BY <1>1, RequestInv(w, since'[c])
      DEF RequestInv, RequestOK, RequestFields, Row, UserRow, DetailRow, GroupRow, OtherRow
    <3> QED BY <1>1, <2>1, <3>1 DEF RequestInv, Authorized, SavesOneself, RequestOK, RequestFields
  <2>2. CASE d # c
    BY <1>1, <2>2, OthersKeep DEF BaseInv
  <2> QED BY <2>1, <2>2
<1>3. CreationInv'
  BY <1>1 DEF BaseInv, CreationInv
<1> QED BY <1>1, <1>2, <1>3 DEF BaseInv

\* What a request that is over or has not begun owes: nothing.
LEMMA NoWorkIsFine ==
  ASSUME NEW s
  PROVE  RequestInv(NoWork, s)
BY DEF RequestInv, RequestOK, RequestFields, NoWork, RequestPhases, Actions, Authorized, Working, SavesOneself

\* The rows of the two tables that decide about requests.
LEMMA DecidingRows ==
  ASSUME Rows
  PROVE  /\ \A u \in Users : UserKey(u) \in Keys /\ db[UserKey(u)] \in UserRow
         /\ \A r \in Roles : DetailKey(r) \in Keys /\ db[DetailKey(r)] \in DetailRow
BY KeysAssumption DEF Rows, UserKey, DetailKey, Row, Table

\* A request that works on a row of the tables holds a key of one.
LEMMA KeyOfRequest ==
  ASSUME BaseInv, NEW c \in Calls, call[c].phase # "idle"
  PROVE  call[c].key \in Keys /\ db[call[c].key] \in Row(call[c].key)
BY KeysAssumption DEF BaseInv, Rows, RequestInv, RequestOK

\* A request begins with nothing noted or found.
LEMMA BeginKeeps ==
  ASSUME BaseInv, Observe, NEW c \in Calls, NEW u \in Users, NEW o \in Actions, NEW k \in mix,
         Begin(c, u, o, k)
  PROVE  BaseInv'
<1> DEFINE w == [NoWork EXCEPT !.phase = "user", !.by = u, !.op = o, !.key = k]
<1>1. RequestInv(w, since'[c])
  <2>1. /\ RequestFields(w) /\ w.phase = "user" /\ w.by = u /\ w.op = o /\ w.key = k
        /\ w.role = NoRole /\ w.columns = {}
    BY DEF RequestFields, NoWork
  <2> HIDE DEF w
  <2> QED BY <2>1 DEF RequestInv, RequestOK, RequestPhases, Authorized, Working, SavesOneself
<1>2. Change(c, w) /\ UNCHANGED <<db>>
  BY DEF Begin
<1>3. Rows'
  BY <1>2 DEF BaseInv, Rows, Row, UserRow, DetailRow, GroupRow, OtherRow
<1> QED BY <1>1, <1>2, <1>3, OneRequest

\* The guard notes what it reads of the user ...
LEMMA ReadUserKeeps ==
  ASSUME BaseInv, Observe, NEW c \in Calls, ReadUser(c)
  PROVE  BaseInv'
<1> DEFINE row == db[UserKey(call[c].by)]
           w == [call[c] EXCEPT !.phase = "detail", !.role = row.role]
<1>1. call[c].by \in Users /\ RequestOK(call[c])
  BY DEF BaseInv, RequestInv, RequestOK, ReadUser
<1>2. row \in UserRow /\ row.status = "live" /\ row.use = TRUE
  BY <1>1, DecidingRows DEF BaseInv, ReadUser, Active, UserRow
<1>3. Change(c, w) /\ UNCHANGED <<db>>
  BY DEF ReadUser
<1>4. call'[c] = w
  BY <1>3 DEF BaseInv, Change
<1>5. /\ RequestFields(w) /\ w.phase = "detail" /\ w.role = row.role
      /\ w.by = call[c].by /\ w.op = call[c].op /\ w.key = call[c].key
      /\ w.columns = call[c].columns
  <2>1. RequestFields(call[c])
    BY <1>1 DEF RequestOK
  <2> QED BY <2>1 DEF RequestFields
<1> HIDE DEF w
<1>6. <<w.role, TRUE>> \in since'[c].had
  <2>1. <<row.role, TRUE>> \in Said(c)'.had
    BY <1>2, <1>3, <1>4, <1>5 DEF Said
  <2>2. call'[c] # NoWork
    BY <1>4, <1>5 DEF NoWork
  <2> QED BY <1>5, <2>1, <2>2, Noted
<1>7. RequestInv(w, since'[c])
  <2>1. RequestOK(w)
    BY <1>1, <1>2, <1>5 DEF RequestOK, UserRow, RequestPhases, ReadUser
  <2> QED BY <1>5, <1>6, <2>1 DEF RequestInv, Authorized, Working, SavesOneself
<1>8. Rows'
  BY <1>3 DEF BaseInv, Rows, Row, UserRow, DetailRow, GroupRow, OtherRow
<1> QED BY <1>3, <1>7, <1>8, OneRequest

\* ... and what it reads of the details of the role it found.
LEMMA ReadDetailKeeps ==
  ASSUME BaseInv, Observe, NEW c \in Calls, ReadDetail(c)
  PROVE  BaseInv'
<1> DEFINE w == [call[c] EXCEPT !.phase = IF HasParent(call[c].key) THEN "parent" ELSE "find"]
<1>1. RequestOK(call[c]) /\ call[c].phase = "detail" /\ call[c].role \in Roles
      /\ <<call[c].role, TRUE>> \in since[c].had
  BY DEF BaseInv, RequestInv, RequestOK, Authorized, ReadDetail
<1>2. Change(c, w) /\ UNCHANGED <<db>>
  BY DEF ReadDetail
<1>3. call'[c] = w
  BY <1>2 DEF BaseInv, Change
<1>4. /\ RequestFields(w) /\ w.phase \in {"parent", "find"} /\ w.role = call[c].role
      /\ w.by = call[c].by /\ w.op = call[c].op /\ w.key = call[c].key
      /\ w.columns = call[c].columns
  <2>1. RequestFields(call[c])
    BY <1>1 DEF RequestOK
  <2> QED BY <2>1 DEF RequestFields
<1> HIDE DEF w
<1>5. call[c].role \in since'[c].grants /\ <<call[c].role, TRUE>> \in since'[c].had
  <2>1. call[c].role \in Said(c)'.grants
    BY <1>1, <1>2, <1>3, <1>4 DEF Said, ReadDetail
  <2>2. call'[c] # NoWork
    BY <1>3, <1>4 DEF NoWork
  <2> QED BY <1>1, <2>1, <2>2, Noted
<1>6. RequestInv(w, since'[c])
  <2>1. RequestOK(w)
    BY <1>1, <1>4 DEF RequestOK, RequestPhases
  <2> QED BY <1>4, <1>5, <2>1 DEF RequestInv, Authorized, Working, SavesOneself
<1>7. Rows'
  BY <1>2 DEF BaseInv, Rows, Row, UserRow, DetailRow, GroupRow, OtherRow
<1> QED BY <1>2, <1>6, <1>7, OneRequest

\* A request past the guard keeps its reasons in whatever it does next.
LEMMA ReasonsStay ==
  ASSUME BaseInv, Observe, NEW c \in Calls, call[c].phase \in Working, call'[c] # NoWork
  PROVE  /\ \E r \in since'[c].grants : <<r, TRUE>> \in since'[c].had
         /\ since[c].had \subseteq since'[c].had
BY Noted DEF BaseInv, RequestInv, Authorized

\* The row above the one asked for is there.
LEMMA CheckParentKeeps ==
  ASSUME BaseInv, Observe, NEW c \in Calls, CheckParent(c)
  PROVE  BaseInv'
<1> DEFINE w == [call[c] EXCEPT !.phase = "find"]
<1>1. RequestOK(call[c]) /\ call[c].phase = "parent"
  BY DEF BaseInv, RequestInv, CheckParent
<1>2. Change(c, w) /\ UNCHANGED <<db>> /\ call'[c] = w
  BY DEF CheckParent, BaseInv, Change
<1>3. /\ RequestFields(w) /\ w.phase = "find" /\ w.role = call[c].role
      /\ w.by = call[c].by /\ w.op = call[c].op /\ w.key = call[c].key
      /\ w.columns = call[c].columns
  <2>1. RequestFields(call[c])
    BY <1>1 DEF RequestOK
  <2> QED BY <2>1 DEF RequestFields
<1> HIDE DEF w
<1>4. RequestInv(w, since'[c])
  <2>1. RequestOK(w)
    BY <1>1, <1>3 DEF RequestOK, RequestPhases
  <2>2. call'[c] # NoWork
    BY <1>2, <1>3 DEF NoWork
  <2> QED BY <1>1, <1>3, <2>1, <2>2, ReasonsStay DEF RequestInv, Authorized, Working, SavesOneself
<1>5. Rows'
  BY <1>2 DEF BaseInv, Rows, Row, UserRow, DetailRow, GroupRow, OtherRow
<1> QED BY <1>2, <1>4, <1>5, OneRequest

-----------------------------------------------------------------------------
(***************************************************************************)
(* The handlers.                                                           *)
(***************************************************************************)
\* What every handler does: it holds a copy that is a row of its table, and a copy
\* of one's own row, unless it is new, is that row with role and use unchanged.
HandlerHolds(c) ==
  \E held \in Row(call[c].key) :
    /\ call[c].phase = "find" /\ Hold(c, held)
    /\ Oneself(c) /\ call[c].op # "C" =>
         /\ call[c].op = "U" /\ Found(c).status = "live" /\ held.status = "live"
         /\ held.role = Found(c).role /\ held.use = Found(c).use

\* A change of nothing but the status, of a row that has one.
LEMMA StatusIsRow ==
  ASSUME NEW k, Table(k) # "roleDetail", NEW row \in Row(k), NEW s \in Status
  PROVE  [row EXCEPT !.status = s] \in Row(k)
BY DEF Row, UserRow, GroupRow, OtherRow

\* A creation holds a row of its table ...
LEMMA CreateHolds ==
  ASSUME BaseInv, NEW c \in Calls, NEW table, table # "roleDetail",
         CreateRow(c, table)
  PROVE  HandlerHolds(c)
<1>1. Found(c) \in Row(call[c].key)
  BY KeyOfRequest DEF CreateRow, At, Found
<1>2. [Found(c) EXCEPT !.status = "live"] \in Row(call[c].key)
  BY <1>1, StatusIsRow DEF CreateRow, At, Status
<1> QED BY <1>2 DEF CreateRow, At, HandlerHolds

\* ... an update the row it found ...
LEMMA UpdateHolds ==
  ASSUME BaseInv, NEW c \in Calls, NEW table, UpdateRow(c, table)
  PROVE  HandlerHolds(c)
<1>1. Found(c) \in Row(call[c].key)
  BY KeyOfRequest DEF UpdateRow, At, Found
<1> QED BY <1>1 DEF UpdateRow, At, HandlerHolds

\* ... and so does a deletion, which is never of oneself.
LEMMA DeleteHolds ==
  ASSUME BaseInv, NEW c \in Calls, NEW table,
         table # "roleDetail", table = "users" => ~Oneself(c), DeleteRow(c, table)
  PROVE  HandlerHolds(c)
<1>1. Found(c) \in Row(call[c].key)
  BY KeyOfRequest DEF DeleteRow, At, Found
<1>2. [Found(c) EXCEPT !.status = "deleted"] \in Row(call[c].key)
  BY <1>1, StatusIsRow DEF DeleteRow, At, Status
<1>3. ~Oneself(c)
  BY DEF DeleteRow, At, Oneself, UserKey, Table
<1> QED BY <1>2, <1>3 DEF DeleteRow, At, HandlerHolds

\* The handlers of users, where oneself matters.
LEMMA UsersHold ==
  ASSUME BaseInv, NEW c \in Calls, UsersOf(c)
  PROVE  HandlerHolds(c)
<1>1. CASE SaveUser(c)
  <2>1. PICK r \in Roles : Hold(c, [status |-> "live", use |-> TRUE, role |-> r])
    BY <1>1 DEF SaveUser
  <2>2. [status |-> "live", use |-> TRUE, role |-> r] \in Row(call[c].key)
    BY <1>1 DEF SaveUser, At, Row, UserRow, Status
  <2> QED BY <1>1, <2>1, <2>2 DEF SaveUser, At, HandlerHolds
<1>2. CASE UpdateUser(c)
  <2> DEFINE Copy(r, use) == [Found(c) EXCEPT !.role = r, !.use = use]
  <2>1. PICK r \in Roles, use \in BOOLEAN : MayBecome(c, Copy(r, use)) /\ Hold(c, Copy(r, use))
    BY <1>2 DEF UpdateUser
  <2>2. Found(c) \in UserRow
    BY <1>2, KeyOfRequest DEF UpdateUser, At, Found, Row
  <2>3. Copy(r, use) \in UserRow /\ Copy(r, use).status = Found(c).status
    BY <2>2 DEF UserRow
  <2>4. Copy(r, use) \in Row(call[c].key)
    BY <1>2, <2>3 DEF UpdateUser, At, Row
  <2> HIDE DEF Copy
  <2> QED BY <1>2, <2>1, <2>3, <2>4 DEF UpdateUser, At, HandlerHolds, MayBecome
<1>3. CASE DeleteUser(c)
  BY <1>3, DeleteHolds DEF DeleteUser
<1> QED BY <1>1, <1>2, <1>3 DEF UsersOf

\* Those of roles and of their details, which are not user rows.
LEMMA RolesHold ==
  ASSUME BaseInv, NEW c \in Calls, RolesOf(c)
  PROVE  HandlerHolds(c)
<1>1. CASE SaveRoleDetails(c)
  <2>1. PICK held \in Details : Hold(c, held)
    BY <1>1 DEF SaveRoleDetails
  <2>2. held \in Row(call[c].key)
    BY <1>1, <2>1, KeysAssumption DEF SaveRoleDetails, At, Row
  <2>3. ~Oneself(c)
    BY <1>1 DEF SaveRoleDetails, At, Oneself, UserKey, Table
  <2> QED BY <1>1, <2>1, <2>2, <2>3 DEF SaveRoleDetails, At, HandlerHolds
<1>2. CASE ~SaveRoleDetails(c)
  BY <1>2, CreateHolds, UpdateHolds, DeleteHolds
  DEF RolesOf, SaveRole, UpdateRole, DeleteRole
<1> QED BY <1>1, <1>2

\* Those of code groups and items.
LEMMA CodesHold ==
  ASSUME BaseInv, NEW c \in Calls, Codes(c)
  PROVE  HandlerHolds(c)
<1>1. CASE SaveCodeGroup(c)
  <2>1. CASE CreateRow(c, "codeGroup")
    BY <2>1, CreateHolds
  <2>2. CASE ~CreateRow(c, "codeGroup")
    <3>1. PICK system \in BOOLEAN : Hold(c, [status |-> "live", system |-> system])
      BY <1>1, <2>2 DEF SaveCodeGroup
    <3>2. At(c, "codeGroup", "C")
      BY <1>1 DEF SaveCodeGroup
    <3>3. [status |-> "live", system |-> system] \in Row(call[c].key)
      BY <3>2 DEF At, Row, GroupRow, Status
    <3> QED BY <3>1, <3>2, <3>3 DEF At, HandlerHolds
  <2> QED BY <2>1, <2>2
<1>2. CASE DeleteCodeItem(c)
  <2>1. NoRow \in Row(call[c].key) /\ ~Oneself(c)
    BY <1>2 DEF DeleteCodeItem, At, Row, OtherRow, NoRow, Status, Oneself, UserKey, Table
  <2> QED BY <1>2, <2>1 DEF DeleteCodeItem, At, HandlerHolds
<1>3. CASE UpdateCodeGroup(c) \/ DeleteCodeGroup(c) \/ SaveCodeItem(c) \/ UpdateCodeItem(c)
  BY <1>3, CreateHolds, UpdateHolds, DeleteHolds
  DEF UpdateCodeGroup, DeleteCodeGroup, SaveCodeItem, UpdateCodeItem
<1> QED BY <1>1, <1>2, <1>3 DEF Codes

\* Every handler holds such a copy.
LEMMA HandlersHold ==
  ASSUME BaseInv, NEW c \in Calls,
         \/ Plants(c) \/ Departments(c) \/ RolesOf(c) \/ UsersOf(c)
         \/ Warehouses(c) \/ Codes(c) \/ Inventories(c)
  PROVE  HandlerHolds(c)
<1>1. CASE Plants(c)
  BY <1>1, CreateHolds, UpdateHolds, DeleteHolds DEF Plants, SavePlant, UpdatePlant, DeletePlant
<1>2. CASE Departments(c)
  BY <1>2, CreateHolds, UpdateHolds, DeleteHolds
  DEF Departments, SaveDepartment, UpdateDepartment, DeleteDepartment
<1>3. CASE Warehouses(c)
  BY <1>3, CreateHolds, UpdateHolds, DeleteHolds
  DEF Warehouses, SaveWarehouse, UpdateWarehouse, DeleteWarehouse
<1>4. CASE Inventories(c)
  BY <1>4, CreateHolds, UpdateHolds, DeleteHolds
  DEF Inventories, CreateInventory, UpdateInventory, DeleteInventory
<1> QED BY <1>1, <1>2, <1>3, <1>4, UsersHold, RolesHold, CodesHold

\* A request about one's own row is about a user row.
LEMMA OwnRow ==
  ASSUME BaseInv, NEW c \in Calls, call[c].phase # "idle", Oneself(c)
  PROVE  /\ call[c].by \in Users /\ Found(c) = db[UserKey(call[c].by)]
         /\ Found(c) \in UserRow /\ Row(call[c].key) = UserRow
BY DecidingRows DEF BaseInv, RequestInv, RequestOK, Oneself, Found, UserKey, Row, Table

\* What a handler holds of oneself was noted at the moment it was read.
LEMMA HoldKeeps ==
  ASSUME BaseInv, Observe, NEW c \in Calls, HandlerHolds(c)
  PROVE  BaseInv'
<1>1. PICK held \in Row(call[c].key) :
        /\ call[c].phase = "find" /\ Hold(c, held)
        /\ Oneself(c) /\ call[c].op # "C" =>
             /\ call[c].op = "U" /\ Found(c).status = "live" /\ held.status = "live"
             /\ held.role = Found(c).role /\ held.use = Found(c).use
  BY DEF HandlerHolds
<1> DEFINE w == [call[c] EXCEPT !.phase = "save", !.copy = held]
<1>2. RequestOK(call[c]) /\ call[c].columns = {}
  BY <1>1 DEF BaseInv, RequestInv, RequestOK
<1>3. Change(c, w) /\ UNCHANGED <<db>> /\ call'[c] = w
  BY <1>1 DEF Hold, BaseInv, Change
<1>4. /\ RequestFields(w) /\ w.phase = "save" /\ w.role = call[c].role
      /\ w.by = call[c].by /\ w.op = call[c].op /\ w.key = call[c].key
      /\ w.copy = held /\ w.columns = call[c].columns
  <2>1. RequestFields(call[c])
    BY <1>2 DEF RequestOK
  <2> QED BY <2>1 DEF RequestFields
<1> HIDE DEF w
<1>5. call'[c] # NoWork
  BY <1>3, <1>4 DEF NoWork
<1>6. RequestOK(w)
  BY <1>1, <1>2, <1>4 DEF RequestOK, RequestPhases
<1>7. ASSUME Oneself(c), call[c].op # "C"
      PROVE  <<held.role, held.use>> \in since'[c].had
  <2>1. <<Found(c).role, Found(c).use>> \in Said(c)'.had
    BY <1>1, <1>3, <1>4, <1>7, OwnRow DEF Said
  <2> QED BY <1>1, <1>5, <1>7, <2>1, Noted
<1>8. RequestInv(w, since'[c])
  BY <1>1, <1>4, <1>5, <1>6, <1>7, ReasonsStay
  DEF RequestInv, Authorized, Working, SavesOneself, Oneself
<1>9. Rows'
  BY <1>3 DEF BaseInv, Rows, Row, UserRow, DetailRow, GroupRow, OtherRow
<1> QED BY <1>3, <1>8, <1>9, OneRequest

\* The SELECT of save fixes the columns, nothing else.
LEMMA SelectKeeps ==
  ASSUME BaseInv, Observe, NEW c \in Calls, SelectRow(c)
  PROVE  BaseInv'
<1> DEFINE insert == NoSuchRow(call[c].key) /\ call[c].op # "D"
           differing == {f \in DOMAIN call[c].copy : call[c].copy[f] # Found(c)[f]}
           w == [call[c] EXCEPT !.phase = "write", !.insert = insert, !.columns = differing]
<1>1. RequestOK(call[c]) /\ call[c].phase = "save" /\ SavesOneself(call[c], since[c])
  BY DEF BaseInv, RequestInv, SelectRow
<1>2. Change(c, w) /\ UNCHANGED <<db>> /\ call'[c] = w
  BY DEF SelectRow, BaseInv, Change
<1>3. differing \subseteq DOMAIN call[c].copy
  OBVIOUS
<1> HIDE DEF insert, differing
<1>4. /\ RequestFields(w) /\ w.phase = "write" /\ w.role = call[c].role
      /\ w.by = call[c].by /\ w.op = call[c].op /\ w.key = call[c].key
      /\ w.copy = call[c].copy /\ w.columns = differing
  <2>1. RequestFields(call[c])
    BY <1>1 DEF RequestOK
  <2> QED BY <2>1 DEF RequestFields
<1> HIDE DEF w
<1>5. RequestInv(w, since'[c])
  <2>1. RequestOK(w)
    BY <1>1, <1>3, <1>4 DEF RequestOK, RequestPhases
  <2>2. call'[c] # NoWork
    BY <1>2, <1>4 DEF NoWork
  <2> QED BY <1>1, <1>4, <2>1, <2>2, ReasonsStay DEF RequestInv, Authorized, Working, SavesOneself
<1>6. Rows'
  BY <1>2 DEF BaseInv, Rows, Row, UserRow, DetailRow, GroupRow, OtherRow
<1> QED BY <1>2, <1>5, <1>6, OneRequest

\* What is written: the changed columns of the row, from the copy.
LEMMA RowWritten ==
  ASSUME BaseInv, NEW c \in Calls, WriteRow(c)
  PROVE  \/ db' = db
         \/ db' = [db EXCEPT ![call[c].key] =
                     Merged(db[call[c].key], call[c].copy, call[c].columns)]
BY DEF WriteRow, Merged

\* A row of the tables stays one, and the request is over.
LEMMA WriteRowKeeps ==
  ASSUME BaseInv, Observe, NEW c \in Calls, WriteRow(c)
  PROVE  BaseInv'
<1>1. Change(c, NoWork)
  BY DEF WriteRow
<1>2. Rows'
  <2>1. CASE db' = db
    BY <2>1 DEF BaseInv, Rows, Row, UserRow, DetailRow, GroupRow, OtherRow
  <2>2. CASE db' = [db EXCEPT ![call[c].key] =
                     Merged(db[call[c].key], call[c].copy, call[c].columns)]
    <3>1. /\ call[c].key \in Keys /\ db[call[c].key] \in Row(call[c].key)
          /\ call[c].copy \in Row(call[c].key)
      BY KeyOfRequest DEF WriteRow, BaseInv, RequestInv, RequestOK
    <3>2. Merged(db[call[c].key], call[c].copy, call[c].columns) \in Row(call[c].key)
      BY <3>1, MergedIsRow
    <3>3. \A k \in Keys : db'[k] \in Row(k)
      BY <2>2, <3>1, <3>2 DEF BaseInv, Rows
    <3>4. db' = [k \in Keys |-> db'[k]]
      BY <2>2 DEF BaseInv, Rows
    <3> QED BY <3>3, <3>4 DEF Rows, Row, UserRow, DetailRow, GroupRow, OtherRow
  <2> QED BY <2>1, <2>2, RowWritten
<1> QED BY <1>1, <1>2, NoWorkIsFine, OneRequest

\* A request that fails leaves nothing.
LEMMA FailKeeps ==
  ASSUME BaseInv, Observe, NEW c \in Calls, FailRequest(c)
  PROVE  BaseInv'
<1>1. Rows'
  BY DEF FailRequest, BaseInv, Rows, Row, UserRow, DetailRow, GroupRow, OtherRow
<1> QED BY <1>1, NoWorkIsFine, OneRequest DEF FailRequest

\* Every step of a request keeps the invariant.
LEMMA RequestKeeps ==
  ASSUME BaseInv, Observe, NEW c \in Calls, Request(c)
  PROVE  BaseInv'
<1>1. CASE \E u \in Users, o \in Actions, k \in mix : Begin(c, u, o, k)
  BY <1>1, BeginKeeps
<1>2. CASE ReadUser(c)
  BY <1>2, ReadUserKeeps
<1>3. CASE ReadDetail(c)
  BY <1>3, ReadDetailKeeps
<1>4. CASE CheckParent(c)
  BY <1>4, CheckParentKeeps
<1>5. CASE \/ Plants(c) \/ Departments(c) \/ RolesOf(c) \/ UsersOf(c)
           \/ Warehouses(c) \/ Codes(c) \/ Inventories(c)
  BY <1>5, HandlersHold, HoldKeeps
<1>6. CASE SelectRow(c)
  BY <1>6, SelectKeeps
<1>7. CASE WriteRow(c)
  BY <1>7, WriteRowKeeps
<1>8. CASE FailRequest(c)
  BY <1>8, FailKeeps
<1> QED BY <1>1, <1>2, <1>3, <1>4, <1>5, <1>6, <1>7, <1>8 DEF Request

-----------------------------------------------------------------------------
(***************************************************************************)
(* createCompany.                                                          *)
(***************************************************************************)
\* A creation as it is at its phase.
Creations(r) ==
  /\ r \in Creation
  /\ r.phase # "idle" => r.of \in Companies /\ r.admin \in Administrators
  /\ r.phase # "commit" => r.next \in 1..Len(Parts)

\* Its fields are enough.
LEMMA CreationOf ==
  ASSUME NEW r, DOMAIN r = {"phase", "of", "admin", "next", "insert"},
         r = [f \in DOMAIN r |-> r[f]],
         r.phase \in {"idle", "check", "select", "write", "commit"},
         r.of \in Companies, r.admin \in Administrators,
         r.next \in 1..Len(Parts) + 1, r.insert \in BOOLEAN,
         r.phase # "commit" => r.next \in 1..Len(Parts)
  PROVE  Creations(r)
BY DEF Creations, Creation

\* A step that changes one creation is fine if that one and the companies are.
LEMMA OneCreation ==
  ASSUME BaseInv, NEW c \in Calls, NEW r, Creations(r), ChangeCreation(c, r),
         company' \in [Companies -> SUBSET Administrators]
  PROVE  CreationInv'
BY DEF BaseInv, CreationInv, Creations, ChangeCreation, Creation

\* createCompany keeps its part of the invariant and leaves the requests alone.
LEMMA CompanyKeeps ==
  ASSUME BaseInv, NEW c \in Calls, CreateCompany(c)
  PROVE  CreationInv' /\ UNCHANGED <<mix, db, call>>
<1> USE DEF CreationInv, Creation, ChangeCreation
<1>p. Len(Parts) = 6
  BY DEF Parts
<1>1. CASE \E co \in Companies, a \in Administrators : BeginCompany(c, co, a)
  <2>1. PICK co \in Companies, a \in Administrators : BeginCompany(c, co, a)
    BY <1>1
  <2> DEFINE r == [NoCreation EXCEPT !.phase = "check", !.of = co, !.admin = a]
  <2>3. /\ DOMAIN r = {"phase", "of", "admin", "next", "insert"}
        /\ r.phase = "check" /\ r.of = co /\ r.admin = a /\ r.next = 1
        /\ r.insert \in BOOLEAN
    BY DEF NoCreation
  <2>4. r = [f \in DOMAIN r |-> r[f]]
    BY DEF NoCreation
  <2>5. ChangeCreation(c, r) /\ UNCHANGED company
    BY <2>1 DEF BeginCompany
  <2> HIDE DEF r
  <2>6. Creations(r)
    <3>1. r.next \in 1..Len(Parts) /\ r.next \in 1..Len(Parts) + 1
      BY <2>3, <1>p
    <3>2. r.phase \in {"idle", "check", "select", "write", "commit"} /\ r.phase # "commit"
      BY <2>3
    <3>3. r.of \in Companies /\ r.admin \in Administrators
      BY <2>1, <2>3
    <3> QED BY <2>3, <2>4, <3>1, <3>2, <3>3, CreationOf
  <2> QED BY <2>5, <2>6, OneCreation DEF BaseInv
<1>2. CASE CheckCompany(c)
  BY <1>2 DEF BaseInv, CheckCompany
<1>3. CASE SelectPart(c)
  <2> DEFINE insert == ~Committed(c)
             r == [creation[c] EXCEPT !.phase = "write", !.insert = insert]
  <2>1. insert \in BOOLEAN
    OBVIOUS
  <2>2. ChangeCreation(c, r) /\ UNCHANGED company
    BY <1>3 DEF SelectPart
  <2> HIDE DEF insert
  <2>3. creation[c] \in Creation /\ creation[c].phase = "select"
    BY <1>3 DEF BaseInv, SelectPart
  <2>4. /\ DOMAIN r = {"phase", "of", "admin", "next", "insert"}
        /\ r.phase = "write" /\ r.of = creation[c].of /\ r.admin = creation[c].admin
        /\ r.next = creation[c].next /\ r.insert = insert
    BY <2>3
  <2>5. r = [f \in DOMAIN r |-> r[f]]
    BY <2>3
  <2>6. creation[c].of \in Companies /\ creation[c].admin \in Administrators
        /\ creation[c].next \in 1..Len(Parts) /\ creation[c].next \in 1..Len(Parts) + 1
    BY <1>3, <1>p DEF BaseInv, SelectPart
  <2> HIDE DEF r
  <2>7. Creations(r)
    BY <2>1, <2>4, <2>5, <2>6, CreationOf
  <2> QED BY <2>2, <2>7, OneCreation DEF BaseInv
<1>4. CASE WritePart(c)
  <2> DEFINE r == [creation[c] EXCEPT !.next = @ + 1,
                     !.phase = IF creation[c].next = Len(Parts) THEN "commit" ELSE "select"]
  <2>1. ChangeCreation(c, r) /\ UNCHANGED company
    BY <1>4 DEF WritePart
  <2>2. /\ creation[c] \in Creation /\ creation[c].next \in 1..6
        /\ creation[c].of \in Companies /\ creation[c].admin \in Administrators
    BY <1>4, <1>p DEF BaseInv, WritePart
  <2>3. /\ DOMAIN r = {"phase", "of", "admin", "next", "insert"}
        /\ r.phase = IF creation[c].next = Len(Parts) THEN "commit" ELSE "select"
        /\ r.next = creation[c].next + 1
        /\ r.of = creation[c].of /\ r.admin = creation[c].admin /\ r.insert = creation[c].insert
    BY <2>2
  <2>4. r = [f \in DOMAIN r |-> r[f]]
    BY <2>2
  <2> HIDE DEF r
  <2>5. r.next \in 1..7 /\ (r.phase # "commit" => r.next \in 1..6)
    BY <1>p, <2>2, <2>3
  <2>6. r.insert \in BOOLEAN /\ r.phase \in {"commit", "select"}
    BY <2>2, <2>3
  <2>7. Creations(r)
    <3>1. 1..Len(Parts) + 1 = 1..7
      BY <1>p
    <3> QED BY <1>p, <2>2, <2>3, <2>4, <2>5, <2>6, <3>1, CreationOf
  <2> QED BY <2>1, <2>7, OneCreation DEF BaseInv
<1>5. CASE CommitCompany(c)
  <2>1. creation[c].of \in Companies /\ creation[c].admin \in Administrators
    BY <1>5 DEF BaseInv, CommitCompany
  <2>2. company' \in [Companies -> SUBSET Administrators] /\ ChangeCreation(c, NoCreation)
    BY <1>5, <2>1 DEF BaseInv, CommitCompany
  <2>3. Creations(NoCreation)
    BY <1>p DEF Creations, NoCreation
  <2> QED BY <2>2, <2>3, OneCreation
<1>6. CASE RollbackCompany(c)
  BY <1>6 DEF BaseInv, RollbackCompany, NoCreation, Parts
<1> QED BY <1>1, <1>2, <1>3, <1>4, <1>5, <1>6 DEF CreateCompany

-----------------------------------------------------------------------------
\* The invariant holds at first ...
LEMMA InitBase ==
  ASSUME BaseInit
  PROVE  BaseInv
<1>1. Rows
  BY KeysAssumption DEF BaseInit, Rows
<1>2. \A c \in Calls : RequestInv(call[c], since[c])
  BY NoWorkIsFine DEF BaseInit
<1>3. CreationInv
  BY DEF BaseInit, CreationInv, Creation, NoCreation, Parts
<1> QED BY <1>1, <1>2, <1>3 DEF BaseInit, BaseInv

\* ... and every step keeps it.
LEMMA NextBase ==
  ASSUME BaseInv, [BaseNext]_baseVars
  PROVE  BaseInv'
<1>1. CASE BaseNext
  <2>1. PICK c \in Calls : Request(c) \/ CreateCompany(c)
    BY <1>1 DEF BaseNext
  <2>2. Observe
    BY <1>1 DEF BaseNext
  <2>3. CASE CreateCompany(c)
    <3>1. CreationInv' /\ UNCHANGED <<mix, db, call>>
      BY <2>3, CompanyKeeps
    <3>2. \A d \in Calls : RequestInv(call[d], since[d])'
      BY <2>2, <3>1, OthersKeep DEF BaseInv
    <3>3. Rows'
      BY <3>1 DEF BaseInv, Rows, Row, UserRow, DetailRow, GroupRow, OtherRow
    <3> QED BY <3>1, <3>2, <3>3 DEF BaseInv
  <2> QED BY <2>1, <2>2, <2>3, RequestKeeps
<1>2. CASE UNCHANGED baseVars
  <2>1. Rows'
    BY <1>2 DEF baseVars, BaseInv, Rows, Row, UserRow, DetailRow, GroupRow, OtherRow
  <2>2. CreationInv'
    BY <1>2 DEF baseVars, BaseInv, CreationInv
  <2>3. \A d \in Calls : RequestInv(call[d], since[d])'
    BY <1>2 DEF baseVars, BaseInv, RequestInv, RequestOK, RequestFields, Row, UserRow, DetailRow,
                GroupRow, OtherRow, Authorized, SavesOneself
  <2> QED BY <1>2, <2>1, <2>2, <2>3 DEF baseVars, BaseInv
<1> QED BY <1>1, <1>2

LEMMA BaseTypes == BaseInv => BaseTypeOK
BY DEF BaseInv, Rows, RequestInv, RequestOK, CreationInv, BaseTypeOK

\* The rows stay rows of their tables and every request is as the code has it at
\* its phase, for any users, roles and rows and any number of requests.
THEOREM BaseDataTypeCorrect ==
  BaseSpec => []BaseTypeOK
<1>1. BaseInit => BaseInv
  BY InitBase
<1>2. BaseInv /\ [BaseNext]_baseVars => BaseInv'
  BY NextBase
<1> QED BY <1>1, <1>2, BaseTypes, PTL DEF BaseSpec

\* A handler works only with authority that its user has had since the request
\* began, however the users and the roles are changed between the guard's reads
\* (permission.guard.ts:35, user-access.service.ts:15).
THEOREM AuthorityStaysFresh ==
  BaseSpec => []AuthorityIsFresh
<1>1. BaseInit => BaseInv
  BY InitBase
<1>2. BaseInv /\ [BaseNext]_baseVars => BaseInv'
  BY NextBase
<1>3. BaseInv => AuthorityIsFresh
  BY DEF BaseInv, RequestInv, Authorized, Working, AuthorityIsFresh
<1> QED BY <1>1, <1>2, <1>3, PTL DEF BaseSpec

\* A step that writes one's own row writes a live row with a role and a use that
\* one has had since the request began.
LEMMA WritesOneself ==
  ASSUME BaseInv, NEW c \in Calls, WriteRow(c), Oneself(c), call[c].op # "C",
         NEW k, k = call[c].key
  PROVE  /\ db'[k].status = "deleted" => db[k].status = "deleted"
         /\ db'[k].role # db[k].role => \E h \in since[c].had : h[1] = db'[k].role
         /\ db'[k].use # db[k].use => \E h \in since[c].had : h[2] = db'[k].use
<1>1. /\ call[c].copy.status = "live"
      /\ <<call[c].copy.role, call[c].copy.use>> \in since[c].had
  BY DEF BaseInv, RequestInv, SavesOneself, Oneself, WriteRow
<1>2. k \in Keys /\ db[k] \in UserRow
  BY KeyOfRequest, OwnRow DEF WriteRow, Found
<1>3. CASE db' = db
  BY <1>3
<1>4. CASE db' = [db EXCEPT ![k] = Merged(db[k], call[c].copy, call[c].columns)]
  <2>1. db'[k] = Merged(db[k], call[c].copy, call[c].columns)
    BY <1>2, <1>4 DEF BaseInv, Rows
  <2>2. \A f \in {"status", "role", "use"} : db'[k][f] \in {db[k][f], call[c].copy[f]}
    BY <1>2, <2>1 DEF Merged, UserRow
  <2>3. /\ db'[k].status \in {db[k].status, call[c].copy.status}
        /\ db'[k].role \in {db[k].role, call[c].copy.role}
        /\ db'[k].use \in {db[k].use, call[c].copy.use}
    BY <2>2
  <2> QED BY <1>1, <2>3
<1> QED BY <1>3, <1>4, RowWritten

\* Whatever is changed between the statements of his request, nobody deletes
\* himself or gives himself a role or a use he has not had since it began
\* (mdm.service.ts:555).
THEOREM NobodyEverChangesHimself ==
  BaseSpec => NobodyChangesHimself
<1>1. BaseInit => BaseInv
  BY InitBase
<1>2. BaseInv /\ [BaseNext]_baseVars => BaseInv'
  BY NextBase
<1>3. BaseInv /\ [BaseNext]_baseVars => [OnlyOthersChange]_baseVars
  <2> SUFFICES ASSUME BaseInv, BaseNext, NEW c \in Calls, NEW k, k = call[c].key,
                      Oneself(c), call[c].op # "C", call'[c] # call[c]
               PROVE  /\ db'[k].status = "deleted" => db[k].status = "deleted"
                      /\ db'[k].role # db[k].role => \E h \in since[c].had : h[1] = db'[k].role
                      /\ db'[k].use # db[k].use => \E h \in since[c].had : h[2] = db'[k].use
    BY DEF OnlyOthersChange
  <2>1. PICK d \in Calls : Request(d) \/ CreateCompany(d)
    BY DEF BaseNext
  <2>2. CASE CreateCompany(d)
    BY <2>2, CompanyKeeps
  <2>3. CASE Request(d) /\ ~WriteRow(d)
    <3>1. CASE \E u \in Users, o \in Actions, e \in mix : Begin(d, u, o, e)
      BY <3>1 DEF Begin
    <3>2. CASE \/ Plants(d) \/ Departments(d) \/ RolesOf(d) \/ UsersOf(d)
               \/ Warehouses(d) \/ Codes(d) \/ Inventories(d)
      BY <3>2, HandlersHold DEF HandlerHolds, Hold
    <3>3. CASE ReadUser(d) \/ ReadDetail(d) \/ CheckParent(d) \/ SelectRow(d) \/ FailRequest(d)
      BY <3>3 DEF ReadUser, ReadDetail, CheckParent, SelectRow, FailRequest
    <3> QED BY <2>3, <3>1, <3>2, <3>3 DEF Request
  <2>4. CASE WriteRow(d)
    <3>1. d = c
      BY <2>4 DEF WriteRow, Change, BaseInv
    <3> QED BY <2>4, <3>1, WritesOneself
  <2> QED BY <2>1, <2>2, <2>3, <2>4
<1> QED BY <1>1, <1>2, <1>3, PTL DEF BaseSpec, NobodyChangesHimself

-----------------------------------------------------------------------------
(***************************************************************************)
(* Equipment.                                                              *)
(*                                                                         *)
(* The argument: a save that changes the header holds its row from then    *)
(* until it commits, so no other such save commits after it has read the   *)
(* cycles; and the saves and approvals that hold nothing never make a      *)
(* cycle that is of the header.  So what it has read is all there is.      *)
(***************************************************************************)
\* A call is a record of these fields.
WorkFields(w) ==
  /\ DOMAIN w = {"phase", "op", "body", "restore", "insert", "loud", "old", "type"}
  /\ w.loud \in BOOLEAN

CyclesOK == cycle \in [CheckTypes -> [status: CycleStatus, origin: Origins]]

\* The phases between the UPDATE of the header and the commit.
Replacing == {"read", "commit"}

\* The row is held by the call that has changed the header and not committed.
LockHeld ==
  /\ lock # NoCall => lock \in Calls /\ work[lock].phase \in Replacing /\ work[lock].loud
  /\ \A c \in Calls : work[c].phase \in Replacing /\ work[c].loud => lock = c

OfHeader == {t \in LiveCycles : cycle[t].origin = "header"}

\* Who holds the row and has read the cycles has read all of this header's.
ReadAll ==
  \A c \in Calls : work[c].phase = "commit" /\ work[c].loud => OfHeader \subseteq work[c].old

NoneEarlier == \A t \in LiveCycles : cycle[t].origin # "earlier"

EquipmentInv ==
  /\ work = [c \in Calls |-> work[c]]
  /\ \A c \in Calls : WorkFields(work[c])
  /\ CyclesOK /\ LockHeld /\ ReadAll /\ NoneEarlier

-----------------------------------------------------------------------------
\* A call that is past none of the steps that matter owes nothing.
Harmless(w) == WorkFields(w) /\ ~(w.phase \in Replacing /\ w.loud)

\* A step of a call that holds nothing before and after, cycles unchanged.
LEMMA HarmlessStep ==
  ASSUME EquipmentInv, NEW c \in Calls, NEW w, Do(c, w), Harmless(w),
         UNCHANGED <<cycle>>, lock' = IF lock = c THEN NoCall ELSE lock
  PROVE  EquipmentInv'
<1>1. /\ work'[c] = w /\ \A d \in Calls \ {c} : work'[d] = work[d]
      /\ work' = [d \in Calls |-> work'[d]]
  BY DEF EquipmentInv, Do
<1>2. OfHeader' = OfHeader /\ LiveCycles' = LiveCycles
  BY DEF OfHeader, LiveCycles
<1>3. \A d \in Calls : WorkFields(work'[d])
  BY <1>1 DEF EquipmentInv, Harmless
<1>4. LockHeld'
  BY <1>1 DEF EquipmentInv, LockHeld, Harmless, WorkFields
<1>5. ReadAll'
  BY <1>1, <1>2 DEF EquipmentInv, ReadAll, Harmless, Replacing
<1>6. CyclesOK' /\ NoneEarlier'
  BY <1>2 DEF EquipmentInv, CyclesOK, NoneEarlier
<1> QED BY <1>1, <1>3, <1>4, <1>5, <1>6 DEF EquipmentInv, WorkFields

\* A call that doesn't hold the row leaves the lock as it is.
LEMMA NotTheHolder ==
  ASSUME EquipmentInv, NEW c \in Calls, ~(work[c].phase \in Replacing /\ work[c].loud)
  PROVE  lock # c
BY CallNames DEF EquipmentInv, LockHeld

\* An idle call owes nothing.
LEMMA IdleIsHarmless == Harmless(Idle) /\ Idle.phase = "idle" /\ Idle.loud = FALSE
BY DEF Harmless, WorkFields, Idle, Replacing

\* A save begins, with what its request holds.
LEMMA FindEquipmentKeeps ==
  ASSUME EquipmentInv, NEW c \in Calls, NEW op, NEW body, FindEquipment(c, op, body)
  PROVE  EquipmentInv'
<1> DEFINE w == [Idle EXCEPT !.phase = "select", !.op = op, !.body = body]
<1>1. Harmless(w)
  BY DEF Harmless, WorkFields, Idle, Replacing
<1>2. lock # c
  BY NotTheHolder, IdleIsHarmless DEF FindEquipment, Harmless
<1> QED BY <1>1, <1>2, HarmlessStep DEF FindEquipment

\* A deletion begins.
LEMMA FindToDeleteKeeps ==
  ASSUME EquipmentInv, NEW c \in Calls, FindToDelete(c)
  PROVE  EquipmentInv'
<1> DEFINE w == [Idle EXCEPT !.phase = "select"]
<1>1. Harmless(w)
  BY DEF Harmless, WorkFields, Idle, Replacing
<1>2. lock # c
  BY NotTheHolder, IdleIsHarmless DEF FindToDelete, Harmless
<1> QED BY <1>1, <1>2, HarmlessStep DEF FindToDelete

\* The SELECT of save changes what the call knows, not what it holds.
LEMMA SelectHeaderKeeps ==
  ASSUME EquipmentInv, NEW c \in Calls, SelectHeader(c)
  PROVE  EquipmentInv'
<1>1. PICK loud \in BOOLEAN :
        Do(c, [work[c] EXCEPT !.phase = "write", !.loud = loud,
                 !.insert = header = "none", !.restore = header = "deleted"])
  BY DEF SelectHeader
<1> DEFINE insert == header = "none"
           restore == header = "deleted"
           w == [work[c] EXCEPT !.phase = "write", !.loud = loud,
                   !.insert = insert, !.restore = restore]
<1>2. Do(c, w)
  BY <1>1
<1> HIDE DEF insert, restore
<1>3. WorkFields(work[c])
  BY DEF EquipmentInv
<1>4. Harmless(w)
  BY <1>3 DEF Harmless, WorkFields, Replacing
<1> HIDE DEF w
<1>5. lock # c
  BY NotTheHolder DEF SelectHeader, Replacing
<1> QED BY <1>2, <1>4, <1>5, HarmlessStep DEF SelectHeader

\* An approval finds a cycle.
LEMMA FindCycleKeeps ==
  ASSUME EquipmentInv, NEW c \in Calls, NEW t, FindCycle(c, t)
  PROVE  EquipmentInv'
<1> DEFINE w == [Idle EXCEPT !.phase = "selectCycle", !.op = "approve", !.type = {t}]
<1>1. Harmless(w)
  BY DEF Harmless, WorkFields, Idle, Replacing
<1>2. lock # c
  BY NotTheHolder, IdleIsHarmless DEF FindCycle, Harmless
<1> QED BY <1>1, <1>2, HarmlessStep DEF FindCycle

\* And selects it again.
LEMMA SelectCycleKeeps ==
  ASSUME EquipmentInv, NEW c \in Calls, SelectCycle(c)
  PROVE  EquipmentInv'
<1> DEFINE restore == \A t \in work[c].type : cycle[t].status = "deleted"
           w == [work[c] EXCEPT !.phase = "writeCycle", !.restore = restore]
<1>1. Do(c, w)
  BY DEF SelectCycle
<1> HIDE DEF restore
<1>2. WorkFields(work[c])
  BY DEF EquipmentInv
<1>3. Harmless(w)
  BY <1>2 DEF Harmless, WorkFields, Replacing
<1>4. lock # c
  BY NotTheHolder DEF SelectCycle, Replacing
<1> HIDE DEF w
<1> QED BY <1>1, <1>3, <1>4, HarmlessStep DEF SelectCycle

\* A deletion leaves the cycles alone.
LEMMA DeleteEquipmentKeeps ==
  ASSUME EquipmentInv, NEW c \in Calls, DeleteEquipment(c)
  PROVE  EquipmentInv'
<1>1. lock # c
  BY NotTheHolder DEF DeleteEquipment, Replacing
<1> QED BY <1>1, IdleIsHarmless, HarmlessStep DEF DeleteEquipment

\* A failure releases the lock and leaves nothing.
LEMMA FailEquipmentKeeps ==
  ASSUME EquipmentInv, NEW c \in Calls, FailEquipment(c)
  PROVE  EquipmentInv'
BY IdleIsHarmless, HarmlessStep DEF FailEquipment

-----------------------------------------------------------------------------
\* The UPDATE takes the lock, if there is one to issue.
LEMMA WriteHeaderKeeps ==
  ASSUME EquipmentInv, NEW c \in Calls, WriteHeader(c)
  PROVE  EquipmentInv'
<1> DEFINE w == [work[c] EXCEPT !.phase = "read"]
<1>1. WorkFields(work[c]) /\ work[c].phase = "write"
  BY DEF EquipmentInv, WriteHeader
<1>2. WorkFields(w) /\ w.phase = "read" /\ w.loud = work[c].loud
  BY <1>1 DEF WorkFields
<1>3. Do(c, w) /\ UNCHANGED <<cycle>>
  BY DEF WriteHeader
<1>4. lock # c
  BY <1>1, NotTheHolder DEF Replacing
<1> HIDE DEF w
<1>5. CASE ~work[c].loud
  <2>1. Harmless(w) /\ lock' = lock
    BY <1>2, <1>5 DEF Harmless, WriteHeader
  <2> QED BY <1>3, <1>4, <2>1, HarmlessStep
<1>6. CASE work[c].loud
  <2>1. lock = NoCall /\ lock' = c
    BY <1>6 DEF WriteHeader
  <2>2. /\ work'[c] = w /\ \A d \in Calls \ {c} : work'[d] = work[d]
        /\ work' = [d \in Calls |-> work'[d]]
    BY <1>3 DEF EquipmentInv, Do
  <2>3. LockHeld'
    BY <1>2, <1>6, <2>1, <2>2, CallNames DEF EquipmentInv, LockHeld, Replacing
  <2>4. OfHeader' = OfHeader /\ LiveCycles' = LiveCycles
    BY <1>3 DEF OfHeader, LiveCycles
  <2>5. ReadAll'
    BY <1>2, <2>2, <2>4 DEF EquipmentInv, ReadAll
  <2>6. \A d \in Calls : WorkFields(work'[d])
    BY <1>2, <2>2 DEF EquipmentInv
  <2> QED BY <1>3, <2>2, <2>3, <2>4, <2>5, <2>6 DEF EquipmentInv, CyclesOK, NoneEarlier, WorkFields
<1> QED BY <1>5, <1>6

\* What is read is all the cycles there are, those of the header among them.
LEMMA ReadCyclesKeeps ==
  ASSUME EquipmentInv, NEW c \in Calls, ReadCycles(c)
  PROVE  EquipmentInv'
<1> DEFINE w == [work[c] EXCEPT !.phase = "commit", !.old = LiveCycles]
<1>1. WorkFields(work[c]) /\ work[c].phase = "read"
  BY DEF EquipmentInv, ReadCycles
<1>2. WorkFields(w) /\ w.phase = "commit" /\ w.loud = work[c].loud /\ w.old = LiveCycles
  BY <1>1 DEF WorkFields
<1>3. Do(c, w) /\ UNCHANGED <<cycle, lock>>
  BY DEF ReadCycles
<1> HIDE DEF w
<1>4. /\ work'[c] = w /\ \A d \in Calls \ {c} : work'[d] = work[d]
      /\ work' = [d \in Calls |-> work'[d]]
  BY <1>3 DEF EquipmentInv, Do
<1>5. OfHeader' = OfHeader /\ LiveCycles' = LiveCycles /\ OfHeader \subseteq LiveCycles
  BY <1>3 DEF OfHeader, LiveCycles
<1>6. LockHeld'
  BY <1>1, <1>2, <1>3, <1>4 DEF EquipmentInv, LockHeld, Replacing
<1>7. ReadAll'
  BY <1>2, <1>4, <1>5 DEF EquipmentInv, ReadAll
<1>8. \A d \in Calls : WorkFields(work'[d])
  BY <1>2, <1>4 DEF EquipmentInv
<1> QED BY <1>3, <1>4, <1>5, <1>6, <1>7, <1>8 DEF EquipmentInv, CyclesOK, NoneEarlier, WorkFields

\* A call that becomes idle while cycles change: the lock is its own to release.
LEMMA IdleStep ==
  ASSUME EquipmentInv, NEW c \in Calls, Do(c, Idle), lock' = IF lock = c THEN NoCall ELSE lock,
         CyclesOK', NoneEarlier',
         \A d \in Calls \ {c} : work[d].phase = "commit" /\ work[d].loud =>
           OfHeader' \subseteq OfHeader
  PROVE  EquipmentInv'
<1>1. /\ work'[c] = Idle /\ \A d \in Calls \ {c} : work'[d] = work[d]
      /\ work' = [d \in Calls |-> work'[d]]
  BY DEF EquipmentInv, Do
<1>2. \A d \in Calls : WorkFields(work'[d])
  BY <1>1, IdleIsHarmless DEF EquipmentInv, Harmless
<1>3. LockHeld'
  BY <1>1, IdleIsHarmless DEF EquipmentInv, LockHeld, Replacing
<1>4. ReadAll'
  BY <1>1, IdleIsHarmless DEF EquipmentInv, ReadAll
<1> QED BY <1>1, <1>2, <1>3, <1>4 DEF EquipmentInv, WorkFields

\* A commit under the lock leaves no live cycle of the header it replaces, one
\* without it makes none of the header.
LEMMA CommitEquipmentKeeps ==
  ASSUME EquipmentInv, NEW c \in Calls, CommitEquipment(c)
  PROVE  EquipmentInv'
<1> DEFINE w == work[c]
<1>1. w.phase = "commit" /\ cycle' = [t \in CheckTypes |-> Replaced(w, t)]
  BY DEF CommitEquipment
<1>2. ASSUME NEW t \in CheckTypes
      PROVE  /\ cycle'[t] \in [status: CycleStatus, origin: Origins]
             /\ cycle'[t].status = "live" => cycle'[t].origin # "earlier"
             /\ ~w.loud /\ cycle'[t].status = "live" /\ cycle'[t].origin = "header" =>
                  cycle[t].status = "live" /\ cycle[t].origin = "header"
  <2>1. cycle[t] \in [status: CycleStatus, origin: Origins]
    BY DEF EquipmentInv, CyclesOK
  <2>2. cycle'[t] = Replaced(w, t)
    BY <1>1
  <2>3. CASE t \in w.body
    BY <2>2, <2>3 DEF Replaced, CycleStatus, Origins
  <2>4. CASE t \notin w.body
    <3>1. /\ cycle'[t].status = IF t \in w.old THEN "deleted" ELSE cycle[t].status
          /\ cycle'[t].origin = IF w.loud /\ cycle[t].origin = "header" THEN "earlier"
                                ELSE cycle[t].origin
          /\ cycle'[t] \in [status: CycleStatus, origin: Origins]
      BY <2>1, <2>2, <2>4 DEF Replaced, CycleStatus, Origins
    <3>2. cycle[t].status = "live" => cycle[t].origin # "earlier"
      BY DEF EquipmentInv, NoneEarlier, LiveCycles
    <3>3. w.loud /\ cycle[t].status = "live" /\ cycle[t].origin = "header" => t \in w.old
      BY <1>1 DEF EquipmentInv, ReadAll, OfHeader, LiveCycles
    <3> QED BY <3>1, <3>2, <3>3
  <2> QED BY <2>3, <2>4
<1>3. CyclesOK'
  BY <1>1, <1>2 DEF CyclesOK
<1>4. NoneEarlier'
  BY <1>2 DEF NoneEarlier, LiveCycles
<1>5. ASSUME NEW d \in Calls \ {c}, work[d].phase = "commit", work[d].loud
      PROVE  OfHeader' \subseteq OfHeader
  <2>1. ~w.loud
    BY <1>1, <1>5 DEF EquipmentInv, LockHeld, Replacing
  <2> QED BY <1>2, <2>1 DEF OfHeader, LiveCycles
<1> QED BY <1>3, <1>4, <1>5, IdleStep DEF CommitEquipment

\* An approval brings back a cycle aside of the header.
LEMMA WriteCycleKeeps ==
  ASSUME EquipmentInv, NEW c \in Calls, WriteCycle(c)
  PROVE  EquipmentInv'
<1>1. ASSUME NEW t \in CheckTypes
      PROVE  /\ cycle'[t] \in [status: CycleStatus, origin: Origins]
             /\ \/ cycle'[t] = cycle[t]
                \/ cycle'[t].origin = "aside"
  BY DEF WriteCycle, EquipmentInv, CyclesOK, CycleStatus, Origins
<1>2. CyclesOK'
  BY <1>1 DEF WriteCycle, CyclesOK
<1>3. NoneEarlier' /\ OfHeader' \subseteq OfHeader
  BY <1>1 DEF EquipmentInv, NoneEarlier, OfHeader, LiveCycles
<1>4. lock # c
  BY NotTheHolder DEF WriteCycle, Replacing
<1> QED BY <1>2, <1>3, <1>4, IdleStep DEF WriteCycle

-----------------------------------------------------------------------------
\* The invariant holds at first ...
LEMMA InitEquipment ==
  ASSUME EquipmentInit
  PROVE  EquipmentInv
BY IdleIsHarmless DEF EquipmentInit, EquipmentInv, Harmless, CyclesOK, CycleStatus, Origins, LockHeld,
   ReadAll, NoneEarlier, LiveCycles, Replacing

\* ... and every step keeps it.
LEMMA NextEquipment ==
  ASSUME EquipmentInv, [EquipmentNext]_equipmentVars
  PROVE  EquipmentInv'
<1>1. CASE EquipmentNext
  BY <1>1, FindEquipmentKeeps, FindToDeleteKeeps, SelectHeaderKeeps, WriteHeaderKeeps,
     ReadCyclesKeeps, CommitEquipmentKeeps, DeleteEquipmentKeeps, FindCycleKeeps,
     SelectCycleKeeps, WriteCycleKeeps, FailEquipmentKeeps DEF EquipmentNext
<1>2. CASE UNCHANGED equipmentVars
  BY <1>2 DEF equipmentVars, EquipmentInv, WorkFields, CyclesOK, LockHeld, ReadAll, OfHeader,
     NoneEarlier, LiveCycles
<1> QED BY <1>1, <1>2

\* Live cycles are of the equipment's last save, or were written aside, for any
\* check types and any number of saves, deletions and approvals that overlap
\* (master.service.ts:saveEquipment).
THEOREM CyclesAreOfOneSave ==
  EquipmentSpec => []CyclesOfOneSave
<1>1. EquipmentInit => EquipmentInv
  BY InitEquipment
<1>2. EquipmentInv /\ [EquipmentNext]_equipmentVars => EquipmentInv'
  BY NextEquipment
<1>3. EquipmentInv => CyclesOfOneSave
  BY DEF EquipmentInv, NoneEarlier, CyclesOfOneSave
<1> QED BY <1>1, <1>2, <1>3, PTL DEF EquipmentSpec

\* The fields of a call stay what they are.
LEMMA EquipmentTypes ==
  ASSUME EquipmentInv, EquipmentTypeOK, [EquipmentNext]_equipmentVars
  PROVE  EquipmentTypeOK'
<1> DEFINE Work ==
      [phase: {"idle", "select", "write", "read", "commit", "selectCycle", "writeCycle"},
       op: {"create", "update", "delete", "approve"}, body: SUBSET CheckTypes,
       restore: BOOLEAN, insert: BOOLEAN, loud: BOOLEAN, old: SUBSET CheckTypes,
       type: SUBSET CheckTypes]
<1>0. EquipmentInv'
  BY NextEquipment
<1>1. header' \in CycleStatus /\ lock' \in Calls \union {NoCall}
  BY DEF EquipmentTypeOK, EquipmentNext, equipmentVars, CycleStatus, FindEquipment, FindToDelete,
     SelectHeader, WriteHeader, ReadCycles, CommitEquipment, DeleteEquipment, FindCycle,
     SelectCycle, WriteCycle, FailEquipment
<1>2. cycle' \in [CheckTypes -> [status: CycleStatus, origin: Origins]]
  BY <1>0 DEF EquipmentInv, CyclesOK
<1>3. lock' # NoCall => work'[lock'].phase \in {"read", "commit"}
  BY <1>0 DEF EquipmentInv, LockHeld, Replacing
<1>4. Idle \in Work
  BY DEF Idle
<1>5. ASSUME NEW c \in Calls, NEW w \in Work, Do(c, w) PROVE work' \in [Calls -> Work]
  BY <1>5 DEF EquipmentTypeOK, Do
<1>6. \A w \in Work, p \in {"idle", "select", "write", "read", "commit", "selectCycle", "writeCycle"} :
        [w EXCEPT !.phase = p] \in Work
  OBVIOUS
<1>7. \A c \in Calls : work[c] \in Work
  BY DEF EquipmentTypeOK
<1>8. ASSUME NEW c \in Calls, NEW op \in {"create", "update"}, NEW body \in SUBSET CheckTypes,
             FindEquipment(c, op, body)
      PROVE  work' \in [Calls -> Work]
  BY <1>4, <1>5, <1>8 DEF FindEquipment
<1>9. ASSUME NEW c \in Calls, SelectHeader(c) PROVE work' \in [Calls -> Work]
  <2>1. PICK loud \in BOOLEAN :
          Do(c, [work[c] EXCEPT !.phase = "write", !.loud = loud,
                   !.insert = header = "none", !.restore = header = "deleted"])
    BY <1>9 DEF SelectHeader
  <2>2. \A i, r \in BOOLEAN :
          [work[c] EXCEPT !.phase = "write", !.loud = loud, !.insert = i, !.restore = r] \in Work
    BY <1>7
  <2> QED
    BY <1>5, <2>1, <2>2
<1>10. ASSUME NEW c \in Calls, NEW t \in CheckTypes, FindCycle(c, t)
       PROVE  work' \in [Calls -> Work]
  BY <1>4, <1>5, <1>10 DEF FindCycle
<1>11. ASSUME NEW c \in Calls, SelectCycle(c) PROVE work' \in [Calls -> Work]
  <2>1. \A r \in BOOLEAN : [work[c] EXCEPT !.phase = "writeCycle", !.restore = r] \in Work
    BY <1>7
  <2> QED
    BY <1>5, <1>11, <2>1 DEF SelectCycle
<1>12. ASSUME NEW c \in Calls, ReadCycles(c) PROVE work' \in [Calls -> Work]
  <2>1. LiveCycles \in SUBSET CheckTypes
    BY DEF LiveCycles
  <2>2. [work[c] EXCEPT !.phase = "commit", !.old = LiveCycles] \in Work
    BY <1>7, <2>1
  <2> QED
    BY <1>5, <1>12, <2>2 DEF ReadCycles
<1>13. ASSUME NEW c \in Calls,
              \/ FindToDelete(c) \/ WriteHeader(c) \/ CommitEquipment(c) \/ DeleteEquipment(c)
              \/ WriteCycle(c) \/ FailEquipment(c)
       PROVE  work' \in [Calls -> Work]
  <2>1. PICK w \in {Idle, [Idle EXCEPT !.phase = "select"], [work[c] EXCEPT !.phase = "read"]} :
          Do(c, w)
    BY <1>13 DEF FindToDelete, WriteHeader, CommitEquipment, DeleteEquipment, WriteCycle,
       FailEquipment
  <2> HIDE DEF Work
  <2>2. work[c] \in Work
    BY <1>7
  <2>3. [Idle EXCEPT !.phase = "select"] \in Work /\ [work[c] EXCEPT !.phase = "read"] \in Work
    BY <1>4, <1>6, <2>2
  <2>4. w \in Work
    BY <1>4, <2>1, <2>3
  <2> QED
    BY <1>5, <2>1, <2>4
<1>14. work' \in [Calls -> Work]
  <2>1. CASE UNCHANGED equipmentVars
    BY <2>1 DEF equipmentVars, EquipmentTypeOK
  <2>2. CASE EquipmentNext
    BY <1>8, <1>9, <1>10, <1>11, <1>12, <1>13, <2>2 DEF EquipmentNext
  <2> QED
    BY <2>1, <2>2
<1> QED
  BY <1>1, <1>2, <1>3, <1>14 DEF EquipmentTypeOK

-----------------------------------------------------------------------------
(***************************************************************************)
(* Together.                                                               *)
(***************************************************************************)
\* The invariant of the subject.
OfficeInv ==
  /\ subject \in {"documents", "base", "equipment"}
  /\ subject = "documents" => IInv
  /\ subject = "base" => BaseInv
  /\ subject = "equipment" => EquipmentInv /\ EquipmentTypeOK

LEMMA InitOffice == OfficeInit => OfficeInv
<1> SUFFICES ASSUME OfficeInit PROVE OfficeInv
  OBVIOUS
<1>1. subject = "documents" => IInv
  BY InitIInv DEF OfficeInit
<1>2. subject = "base" => BaseInv
  BY InitBase DEF OfficeInit
<1>3. subject = "equipment" => EquipmentInv /\ EquipmentTypeOK
  <2>1. EquipmentInit => EquipmentTypeOK
    BY DEF EquipmentInit, EquipmentTypeOK, CycleStatus, Origins, Idle
  <2> QED
    BY <2>1, InitEquipment DEF OfficeInit
<1> QED
  BY <1>1, <1>2, <1>3 DEF OfficeInit, OfficeInv

LEMMA NextOffice ==
  ASSUME OfficeInv, [OfficeNext]_<<subject, vars, baseVars, equipmentVars>>
  PROVE  OfficeInv'
<1>1. subject' = subject
  BY DEF OfficeNext
<1>2. ASSUME subject = "documents" PROVE [Next]_vars
  BY <1>2 DEF OfficeNext
<1>3. ASSUME subject = "base" PROVE [BaseNext]_baseVars
  BY <1>3 DEF OfficeNext
<1>4. ASSUME subject = "equipment" PROVE [EquipmentNext]_equipmentVars
  BY <1>4 DEF OfficeNext
<1>5. subject = "documents" => IInv'
  BY <1>2, NextIInv DEF OfficeInv
<1>6. subject = "base" => BaseInv'
  BY <1>3, NextBase DEF OfficeInv
<1>7. subject = "equipment" => EquipmentInv' /\ EquipmentTypeOK'
  BY <1>4, NextEquipment, EquipmentTypes DEF OfficeInv
<1> QED
  BY <1>1, <1>5, <1>6, <1>7 DEF OfficeInv

\* The rows of documents, approvals, base data and equipment stay rows of their
\* tables, and every call is well typed at its phase.
THEOREM OfficeTypesHold == OfficeSpec => []OfficeTypeOK
<1>1. OfficeInv => OfficeTypeOK
  BY BaseTypes DEF OfficeInv, OfficeTypeOK, IInv
<1> QED
  BY <1>1, InitOffice, NextOffice, PTL DEF OfficeSpec
=============================================================================
