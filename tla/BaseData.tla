------------------------------ MODULE BaseData ------------------------------
(***************************************************************************)
(* Base data and who may change it: mdm.service.ts, the materials of       *)
(* master.service.ts, and permission.guard.ts with user-access.service.ts. *)
(*                                                                         *)
(* A request passes the guard, which reads the user and then the details   *)
(* of the role it found; its handler reads an entity, changes the copy and *)
(* saves it.  save of TypeORM is a SELECT that finds out which columns     *)
(* differ and an UPDATE of those, or an INSERT.  Nothing is locked between *)
(* these statements, and the users and role details that decide about      *)
(* requests are rows that requests change.                                 *)
(***************************************************************************)
EXTENDS Clients, Naturals, Sequences

CONSTANTS
  NoUser, Roles, NoRole,
  Keys,           \* the rows there may be: <<table, id>>, <<"codeItem", group, id>>
  Contents,       \* what the tables may hold at first
  Details,        \* the permissions a request may send for a role
  Mixes,          \* sets of keys; the requests of a behaviour are about one of them
  Companies, NoCompany,
  Administrators, NoAdministrator

UserKey(u) == <<"users", u>>
DetailKey(r) == <<"roleDetail", r>>

ASSUME NoneAssumption == NoUser \notin Users /\ NoRole \notin Roles /\ NoCompany \notin Companies
VARIABLES
  mix,      \* the keys of this behaviour, constant
  db,       \* the rows; a row is a function of its columns
  call,     \* per call: where it is and what it has read
  since,    \* history, per call: what the tables said about its user since it began
  company,  \* per company: the administrators it was committed with; not there yet if none
  creation  \* per call: its createCompany

baseVars == <<mix, db, call, since, company, creation>>

\* The permission columns of the two modules whose rows these are.
Actions == {"C", "U", "D"}
ColumnOf == [INV |-> [C |-> "invCreate", U |-> "invUpdate", D |-> "invDelete"],
             MDM |-> [C |-> "mdmCreate", U |-> "mdmUpdate", D |-> "mdmDelete"]]
Permissions == {ColumnOf[m][o] : m \in DOMAIN ColumnOf, o \in Actions}
Table(k) == k[1]
Needs(k, o) == ColumnOf[IF Table(k) = "inventory" THEN "INV" ELSE "MDM"][o]

\* The columns that decide something.
Status == {"none", "live", "deleted"}
UserRow == [status: Status, use: BOOLEAN, role: Roles]
DetailRow == [Permissions -> BOOLEAN]
GroupRow == [status: Status, system: BOOLEAN]
OtherRow == [status: Status]
Row(k) == CASE Table(k) = "users"      -> UserRow
            [] Table(k) = "roleDetail" -> DetailRow
            [] Table(k) = "codeGroup"  -> GroupRow
            [] OTHER                   -> OtherRow

ASSUME KeysAssumption ==
  /\ \A u \in Users : UserKey(u) \in Keys
  /\ \A r \in Roles : DetailKey(r) \in Keys
  /\ \A t \in Contents : t = [k \in Keys |-> t[k]] /\ \A k \in Keys : t[k] \in Row(k)
  /\ \A m \in Mixes : m \subseteq Keys
  /\ Details \subseteq DetailRow

NoRow == [status |-> "none"]
NoWork == [phase |-> "idle", by |-> NoUser, op |-> "U", key |-> <<"none", "none">>,
           role |-> NoRole, copy |-> NoRow, insert |-> FALSE, columns |-> {}]
RequestPhases == {"idle", "user", "detail", "parent", "find", "save", "write"}

Parts == <<"company", "role", "roleDetail", "codeGroup", "codeItem", "users">>
Shared == 1..5 \* the parts that don't depend on the administrator
NoCreation == [phase |-> "idle", of |-> NoCompany, admin |-> NoAdministrator, next |-> 1,
               insert |-> FALSE]
Creation == [phase: {"idle", "check", "select", "write", "commit"},
             of: Companies \union {NoCompany},
             admin: Administrators \union {NoAdministrator},
             next: 1..Len(Parts) + 1, insert: BOOLEAN]

BaseTypeOK ==
  /\ mix \in Mixes
  /\ \A k \in Keys : db[k] \in Row(k)
  /\ \A c \in Calls :
       /\ call[c].phase \in RequestPhases /\ call[c].op \in Actions
       /\ call[c].by \in Users \union {NoUser} /\ call[c].role \in Roles \union {NoRole}
       /\ call[c].phase # "idle" => call[c].key \in mix
       /\ call[c].phase \in {"save", "write"} =>
            call[c].copy \in Row(call[c].key) /\ call[c].columns \subseteq DOMAIN call[c].copy
  /\ company \in [Companies -> SUBSET Administrators]
  /\ creation \in [Calls -> Creation]

-----------------------------------------------------------------------------
(***************************************************************************)
(* The guard.                                                              *)
(***************************************************************************)
Active(u) == db[UserKey(u)].status = "live" /\ db[UserKey(u)].use

Change(c, r) == call' = [call EXCEPT ![c] = r] /\ UNCHANGED <<mix, company, creation>>

Begin(c, u, o, k) ==
  /\ call[c] = NoWork
  /\ Table(k) = "roleDetail" => o = "U"
  /\ Change(c, [NoWork EXCEPT !.phase = "user", !.by = u, !.op = o, !.key = k])
  /\ UNCHANGED db

\* Mutant of ReadUser: a user who is not in use is let through.
ReadAnyUser(c) ==
  /\ call[c].phase = "user" /\ db[UserKey(call[c].by)].status = "live"
  /\ Change(c, [call[c] EXCEPT !.phase = "detail", !.role = db[UserKey(call[c].by)].role])
  /\ UNCHANGED db

ReadUser(c) ==
  /\ call[c].phase = "user" /\ Active(call[c].by)
  /\ Change(c, [call[c] EXCEPT !.phase = "detail", !.role = db[UserKey(call[c].by)].role])
  /\ UNCHANGED db

\* The row whose absence the handler refuses before it looks for its own.
HasParent(k) == Table(k) \in {"codeItem", "roleDetail"}
Parent(k) == IF Table(k) = "codeItem" THEN <<"codeGroup", k[2]>> ELSE <<"role", k[2]>>

\* The role's own row is not looked at: a deleted role still grants.
ReadDetail(c) ==
  /\ call[c].phase = "detail"
  /\ db[DetailKey(call[c].role)][Needs(call[c].key, call[c].op)]
  /\ Change(c, [call[c] EXCEPT !.phase = IF HasParent(call[c].key) THEN "parent" ELSE "find"])
  /\ UNCHANGED db

-----------------------------------------------------------------------------
(***************************************************************************)
(* The handlers: find the row and change the copy.                         *)
(***************************************************************************)
At(c, table, o) ==
  /\ call[c].phase = "find" /\ Table(call[c].key) = table /\ call[c].op = o
Found(c) == db[call[c].key]
Hold(c, copy) == Change(c, [call[c] EXCEPT !.phase = "save", !.copy = copy]) /\ UNCHANGED db

\* A row that was deleted is restored; a live one is refused.
CreateRow(c, table) ==
  /\ At(c, table, "C") /\ Found(c).status # "live"
  /\ Hold(c, [Found(c) EXCEPT !.status = "live"])
\* Columns that are left out change.
UpdateRow(c, table) == At(c, table, "U") /\ Found(c).status = "live" /\ Hold(c, Found(c))
DeleteRow(c, table) ==
  /\ At(c, table, "D") /\ Found(c).status = "live"
  /\ Hold(c, [Found(c) EXCEPT !.status = "deleted"])

SavePlant(c)        == CreateRow(c, "plant")
UpdatePlant(c)      == UpdateRow(c, "plant")
DeletePlant(c)      == DeleteRow(c, "plant")
SaveDepartment(c)   == CreateRow(c, "department")
UpdateDepartment(c) == UpdateRow(c, "department")
DeleteDepartment(c) == DeleteRow(c, "department")
SaveRole(c)         == CreateRow(c, "role")
UpdateRole(c)       == UpdateRow(c, "role")
DeleteRole(c)       == DeleteRow(c, "role")
SaveWarehouse(c)    == CreateRow(c, "warehouse")
UpdateWarehouse(c)  == UpdateRow(c, "warehouse")
DeleteWarehouse(c)  == DeleteRow(c, "warehouse")
UpdateCodeGroup(c)  == UpdateRow(c, "codeGroup")
UpdateInventory(c)  == UpdateRow(c, "inventory")
DeleteInventory(c)  == DeleteRow(c, "inventory")
CreateInventory(c)  == CreateRow(c, "inventory")

\* A new group is what the body says, a restored one what it was.
SaveCodeGroup(c) ==
  \/ At(c, "codeGroup", "C") /\ Found(c).status = "deleted" /\ CreateRow(c, "codeGroup")
  \/ /\ At(c, "codeGroup", "C") /\ Found(c).status = "none"
     /\ \E system \in BOOLEAN : Hold(c, [status |-> "live", system |-> system])
DeleteCodeGroup(c) ==
  At(c, "codeGroup", "D") /\ ~Found(c).system /\ DeleteRow(c, "codeGroup")

\* The group of the item, the role of the details.
CheckParent(c) ==
  /\ call[c].phase = "parent" /\ db[Parent(call[c].key)].status = "live"
  /\ Change(c, [call[c] EXCEPT !.phase = "find"]) /\ UNCHANGED db
SaveCodeItem(c)   == CreateRow(c, "codeItem")
UpdateCodeItem(c) == UpdateRow(c, "codeItem")
\* Items are removed.
DeleteCodeItem(c) == At(c, "codeItem", "D") /\ Found(c).status = "live" /\ Hold(c, NoRow)

\* Any of the columns of the modules in the body.
SaveRoleDetails(c) == At(c, "roleDetail", "U") /\ \E copy \in Details : Hold(c, copy)

SaveUser(c) ==
  /\ At(c, "users", "C") /\ Found(c).status # "live"
  /\ \E r \in Roles : Hold(c, [status |-> "live", use |-> TRUE, role |-> r])

Oneself(c) == call[c].key = UserKey(call[c].by)
\* Mutant of MayBecome: the body may change the administrator's own role.
MayAlwaysBecome(c, copy) == TRUE
\* Neither the role nor the use of oneself may be changed.
MayBecome(c, copy) == Oneself(c) => copy.role = Found(c).role /\ copy.use = Found(c).use
UpdateUser(c) ==
  /\ At(c, "users", "U") /\ Found(c).status = "live"
  /\ \E r \in Roles, use \in BOOLEAN :
       LET copy == [Found(c) EXCEPT !.role = r, !.use = use]
       IN MayBecome(c, copy) /\ Hold(c, copy)
DeleteUser(c) == ~Oneself(c) /\ DeleteRow(c, "users")

-----------------------------------------------------------------------------
(***************************************************************************)
(* save.                                                                   *)
(***************************************************************************)
NoSuchRow(k) == Table(k) # "roleDetail" /\ db[k].status = "none"

SelectRow(c) ==
  LET copy == call[c].copy
      old == Found(c)
  IN /\ call[c].phase = "save"
     /\ Change(c, [call[c] EXCEPT !.phase = "write",
          !.insert = NoSuchRow(call[c].key) /\ call[c].op # "D",
          !.columns = {f \in DOMAIN copy : copy[f] # old[f]}])
     /\ UNCHANGED db

\* An INSERT of a row that has appeared since is refused by the primary key; an
\* UPDATE or DELETE of one that has gone does nothing.
WriteRow(c) ==
  LET k == call[c].key
  IN /\ call[c].phase = "write" /\ (call[c].insert => NoSuchRow(k))
     /\ db' = IF NoSuchRow(k) /\ ~call[c].insert THEN db
              ELSE [db EXCEPT ![k] = [f \in DOMAIN db[k] |->
                      IF f \in call[c].columns THEN call[c].copy[f] ELSE db[k][f]]]
     /\ Change(c, NoWork)

\* Refused by the guard or by the handler, or a statement that fails.
FailRequest(c) == call[c] # NoWork /\ Change(c, NoWork) /\ UNCHANGED db

-----------------------------------------------------------------------------
(***************************************************************************)
(* createCompany: one transaction that saves one part after the other.     *)
(***************************************************************************)
ChangeCreation(c, r) == creation' = [creation EXCEPT ![c] = r] /\ UNCHANGED <<mix, db, call>>

BeginCompany(c, co, a) ==
  /\ creation[c] = NoCreation
  /\ ChangeCreation(c, [NoCreation EXCEPT !.phase = "check", !.of = co, !.admin = a])
  /\ UNCHANGED company

CheckCompany(c) ==
  /\ creation[c].phase = "check" /\ company[creation[c].of] = {}
  /\ ChangeCreation(c, [creation[c] EXCEPT !.phase = "select"]) /\ UNCHANGED company

\* What is committed of the part in turn; the parts are committed together.
Committed(c) ==
  LET co == company[creation[c].of]
  IN IF creation[c].next \in Shared THEN co # {} ELSE creation[c].admin \in co
SelectPart(c) ==
  /\ creation[c].phase = "select"
  /\ ChangeCreation(c, [creation[c] EXCEPT !.phase = "write", !.insert = ~Committed(c)])
  /\ UNCHANGED company

\* Another transaction has written these rows and has not ended.
PartHeld(c) ==
  \E d \in Calls \ {c} :
    /\ creation[d].of = creation[c].of /\ creation[d].next > creation[c].next
    /\ creation[c].next \in Shared \/ creation[d].admin = creation[c].admin

WritePart(c) ==
  LET r == creation[c]
  IN /\ r.phase = "write" /\ ~PartHeld(c) /\ ~(r.insert /\ Committed(c))
     /\ ChangeCreation(c, [r EXCEPT !.next = @ + 1,
          !.phase = IF r.next = Len(Parts) THEN "commit" ELSE "select"])
     /\ UNCHANGED company

CommitCompany(c) ==
  LET r == creation[c]
  IN /\ r.phase = "commit"
     /\ company' = [company EXCEPT ![r.of] = @ \union {r.admin}]
     /\ ChangeCreation(c, NoCreation)

\* The company exists, the primary key refuses, or a statement fails.
RollbackCompany(c) ==
  creation[c] # NoCreation /\ ChangeCreation(c, NoCreation) /\ UNCHANGED company

-----------------------------------------------------------------------------
\* What the tables say at this moment about the user of a call: the role and the
\* use of a live row, and the roles that grant the operation.
Said(c) ==
  LET row == db[UserKey(call[c].by)]
  IN [had |-> IF row.status = "live" THEN {<<row.role, row.use>>} ELSE {},
      grants |-> {r \in Roles : db[DetailKey(r)][Needs(call[c].key, call[c].op)]}]
Nothing == [had |-> {}, grants |-> {}]
Observe == since' = [c \in Calls |->
  IF call'[c] = NoWork THEN Nothing
  ELSE [had |-> since[c].had \union Said(c)'.had, grants |-> since[c].grants \union Said(c)'.grants]]

BaseInit ==
  /\ mix \in Mixes /\ db \in Contents
  /\ call = [c \in Calls |-> NoWork]
  /\ since = [c \in Calls |-> Nothing]
  /\ company = [co \in Companies |-> {}]
  /\ creation = [c \in Calls |-> NoCreation]

Plants(c)      == SavePlant(c) \/ UpdatePlant(c) \/ DeletePlant(c)
Departments(c) == SaveDepartment(c) \/ UpdateDepartment(c) \/ DeleteDepartment(c)
RolesOf(c)     == SaveRole(c) \/ UpdateRole(c) \/ DeleteRole(c) \/ SaveRoleDetails(c)
UsersOf(c)     == SaveUser(c) \/ UpdateUser(c) \/ DeleteUser(c)
Warehouses(c)  == SaveWarehouse(c) \/ UpdateWarehouse(c) \/ DeleteWarehouse(c)
Codes(c)       == \/ SaveCodeGroup(c) \/ UpdateCodeGroup(c) \/ DeleteCodeGroup(c)
                  \/ SaveCodeItem(c) \/ UpdateCodeItem(c) \/ DeleteCodeItem(c)
Inventories(c) == CreateInventory(c) \/ UpdateInventory(c) \/ DeleteInventory(c)

Request(c) ==
  \/ \E u \in Users, o \in Actions, k \in mix : Begin(c, u, o, k)
  \/ ReadUser(c) \/ ReadDetail(c) \/ CheckParent(c)
  \/ Plants(c) \/ Departments(c) \/ RolesOf(c) \/ UsersOf(c)
  \/ Warehouses(c) \/ Codes(c) \/ Inventories(c)
  \/ SelectRow(c) \/ WriteRow(c) \/ FailRequest(c)

CreateCompany(c) ==
  \/ mix = {} /\ \E co \in Companies, a \in Administrators : BeginCompany(c, co, a)
  \/ CheckCompany(c) \/ SelectPart(c) \/ WritePart(c) \/ CommitCompany(c) \/ RollbackCompany(c)

BaseNext == (\E c \in Calls : Request(c) \/ CreateCompany(c)) /\ Observe

BaseSpec == BaseInit /\ [][BaseNext]_baseVars

-----------------------------------------------------------------------------
(***************************************************************************)
(* Properties.                                                             *)
(***************************************************************************)
\* A handler works only for a user who, since the request began, was live and in
\* use with a role that, since the request began, granted the operation: neither
\* the token's age nor the two reads of the guard let older authority through.
AuthorityIsFresh ==
  \A c \in Calls : call[c].phase \in {"parent", "find", "save", "write"} =>
    \E r \in since[c].grants : <<r, TRUE>> \in since[c].had

\* Whatever has changed between the statements of a request, nobody deletes
\* himself, and editing himself changes nobody's role or use to one that he has
\* not had since the request began (mdm.service.ts:555).
OnlyOthersChange ==
  \A c \in Calls : LET k == call[c].key IN
    Oneself(c) /\ call[c].op # "C" /\ call'[c] # call[c] =>
      /\ db'[k].status = "deleted" => db[k].status = "deleted"
      /\ db'[k].role # db[k].role => \E h \in since[c].had : h[1] = db'[k].role
      /\ db'[k].use # db[k].use => \E h \in since[c].had : h[2] = db'[k].use
NobodyChangesHimself == [][OnlyOthersChange]_baseVars
=============================================================================
