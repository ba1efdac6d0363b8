----------------------------- MODULE MCBackOffice -----------------------------
(***************************************************************************)
(* Documents, BaseData and Equipment on small instances.  They share no    *)
(* row and no lock, so a behaviour is about one of them, the subject; the  *)
(* others stay idle, those of their variables empty that no property reads.*)
(***************************************************************************)
EXTENDS MCDocuments, BaseData, Equipment

CONSTANTS admin, plain

VARIABLE subject

Named(table) == <<table, "k">>
Named3 == <<"codeItem", "k", "i">>
Single == {"plant", "department", "warehouse", "inventory", "codeGroup"}
MCKeys == {<<"users", u1>>, <<"users", u2>>, <<"roleDetail", admin>>, <<"roleDetail", plain>>,
           <<"role", admin>>, Named3} \union {Named(t) : t \in Single}

MCDetails == {[p \in Permissions |-> TRUE], [p \in Permissions |-> FALSE]}
User(r) == [status |-> "live", use |-> TRUE, role |-> r]

\* u1 is an administrator, u2 another one or not.
MCContents == {
  [k \in MCKeys |-> CASE k[1] = "roleDetail" -> [p \in Permissions |-> k[2] = admin]
                      [] k = <<"users", u1>> -> User(admin)
                      [] k = <<"users", u2>> -> User(r)
                      [] k[1] = "codeGroup"  -> [status |-> "live", system |-> FALSE]
                      [] OTHER               -> [status |-> "live"]] : r \in Roles}

\* Companies; one row of a table; a role with its details; a group with its item.
MCMixes == {{}, {<<"users", u1>>}, {<<"role", admin>>, <<"roleDetail", admin>>},
            {Named("codeGroup"), Named3}} \union {{Named(t)} : t \in Single \ {"codeGroup"}}

OfficeInit ==
  /\ subject \in {"documents", "base", "equipment"}
  /\ Init
  /\ IF subject = "base" THEN BaseInit
     ELSE /\ call = [c \in Calls |-> NoWork]
          /\ company = [co \in Companies |-> {}]
          /\ mix = {} /\ db = {} /\ since = {} /\ creation = {}
  /\ IF subject = "equipment" THEN EquipmentInit
     ELSE header = "none" /\ cycle = {} /\ lock = {} /\ work = {}

OfficeNext ==
  \/ subject = "documents" /\ Next /\ UNCHANGED <<subject, baseVars, equipmentVars>>
  \/ subject = "base" /\ BaseNext /\ UNCHANGED <<subject, vars, equipmentVars>>
  \/ subject = "equipment" /\ EquipmentNext /\ UNCHANGED <<subject, vars, baseVars>>

OfficeSpec == OfficeInit /\ [][OfficeNext]_<<subject, vars, baseVars, equipmentVars>>

\* The type invariants of Documents, BaseData and Equipment.
OfficeTypeOK ==
  /\ subject = "documents" => TypeOK
  /\ subject = "base" => BaseTypeOK
  /\ subject = "equipment" => EquipmentTypeOK
=============================================================================
