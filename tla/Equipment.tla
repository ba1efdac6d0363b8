------------------------------ MODULE Equipment ------------------------------
(***************************************************************************)
(* One equipment and its check cycles: saveEquipment and deleteEquipment   *)
(* of master.service.ts, and the approval of a PM record, which sets the   *)
(* dates of a cycle (updatePmCheckCycle of approval.service.ts).           *)
(*                                                                         *)
(* saveEquipment replaces the cycles in one transaction.  Nothing keeps    *)
(* two of them apart but the row lock of the header's UPDATE, and save of  *)
(* TypeORM issues none when no column differs.                             *)
(***************************************************************************)
EXTENDS Clients, Naturals, FiniteSets

CONSTANT CheckTypes   \* check_type_code: with the equipment, a cycle's key

VARIABLES
  header,   \* the equipment row
  cycle,    \* per check type: its row
  lock,     \* the call that has updated the header and has not committed
  work      \* per call: where it is and what it has read

equipmentVars == <<header, cycle, lock, work>>

CycleStatus == {"none", "live", "deleted"}
\* History of a row: it was saved with the header as it is, with an earlier one,
\* or aside, by a save that left the header alone or by an approval.
Origins == {"header", "earlier", "aside"}

Idle == [phase |-> "idle", op |-> "delete", body |-> {}, restore |-> FALSE,
         insert |-> FALSE, loud |-> FALSE, old |-> {}, type |-> {}]

EquipmentTypeOK ==
  /\ header \in CycleStatus
  /\ cycle \in [CheckTypes -> [status: CycleStatus, origin: Origins]]
  /\ lock \in Calls \union {NoCall}
  /\ work \in [Calls ->
       [phase: {"idle", "select", "write", "read", "commit", "selectCycle", "writeCycle"},
        op: {"create", "update", "delete", "approve"}, body: SUBSET CheckTypes,
        restore: BOOLEAN, insert: BOOLEAN, loud: BOOLEAN, old: SUBSET CheckTypes,
        type: SUBSET CheckTypes]]
  /\ lock # NoCall => work[lock].phase \in {"read", "commit"}

EquipmentInit ==
  /\ header = "none"
  /\ cycle = [t \in CheckTypes |-> [status |-> "none", origin |-> "header"]]
  /\ lock = NoCall
  /\ work = [c \in Calls |-> Idle]

Do(c, w) == work' = [work EXCEPT ![c] = w]
LiveCycles == {t \in CheckTypes : cycle[t].status = "live"}

-----------------------------------------------------------------------------
(***************************************************************************)
(* saveEquipment and deleteEquipment.                                      *)
(***************************************************************************)
\* A PM target has cycles in the body, other equipment may have none.
FindEquipment(c, op, body) ==
  /\ work[c] = Idle /\ op \in {"create", "update"}
  /\ (op = "create") # (header = "live")
  /\ Do(c, [Idle EXCEPT !.phase = "select", !.op = op, !.body = body])
  /\ UNCHANGED <<header, cycle, lock>>

FindToDelete(c) ==
  /\ work[c] = Idle /\ header = "live"
  /\ Do(c, [Idle EXCEPT !.phase = "select"])
  /\ UNCHANGED <<header, cycle, lock>>

\* save reads the row again: does a column differ, the status among them?
SelectHeader(c) ==
  /\ work[c].phase = "select"
  /\ \E loud \in BOOLEAN :
       /\ loud \/ header = (IF work[c].op = "delete" THEN "deleted" ELSE "live")
       /\ Do(c, [work[c] EXCEPT !.phase = "write", !.loud = loud,
                  !.insert = header = "none", !.restore = header = "deleted"])
  /\ UNCHANGED <<header, cycle, lock>>

\* Mutant of WriteHeader: the header is saved outside the transaction.
WriteHeaderAtOnce(c) ==
  LET w == work[c]
  IN /\ w.phase = "write" /\ w.op # "delete"
     /\ w.loud => lock = NoCall /\ (w.insert => header = "none")
     /\ Do(c, [w EXCEPT !.phase = "read"])
     /\ UNCHANGED <<header, cycle, lock>>

\* The UPDATE or INSERT waits for who holds the row; none if nothing differs.
WriteHeader(c) ==
  LET w == work[c]
  IN /\ w.phase = "write" /\ w.op # "delete"
     /\ w.loud => lock = NoCall /\ (w.insert => header = "none")
     /\ lock' = IF w.loud THEN c ELSE lock
     /\ Do(c, [w EXCEPT !.phase = "read"])
     /\ UNCHANGED <<header, cycle>>

ReadCycles(c) ==
  /\ work[c].phase = "read"
  /\ Do(c, [work[c] EXCEPT !.phase = "commit", !.old = LiveCycles])
  /\ UNCHANGED <<header, cycle, lock>>

\* The old cycles are marked deleted, those of the body are inserted or restored;
\* the header gets the columns that differed when it was selected.
Replaced(w, t) ==
  IF t \in w.body
  THEN [status |-> "live", origin |-> IF w.loud THEN "header" ELSE "aside"]
  ELSE [status |-> IF t \in w.old THEN "deleted" ELSE cycle[t].status,
        origin |-> IF w.loud /\ cycle[t].origin = "header" THEN "earlier"
                   ELSE cycle[t].origin]

CommitEquipment(c) ==
  /\ work[c].phase = "commit"
  /\ header' = IF work[c].insert \/ work[c].restore THEN "live" ELSE header
  /\ cycle' = [t \in CheckTypes |-> Replaced(work[c], t)]
  /\ lock' = IF lock = c THEN NoCall ELSE lock
  /\ Do(c, Idle)

\* The cycles of a deleted equipment stay as they are.
DeleteEquipment(c) ==
  /\ work[c].phase = "write" /\ work[c].op = "delete"
  /\ work[c].loud => lock = NoCall
  /\ header' = IF work[c].loud THEN "deleted" ELSE header
  /\ Do(c, Idle)
  /\ UNCHANGED <<cycle, lock>>

-----------------------------------------------------------------------------
(***************************************************************************)
(* updatePmCheckCycle.                                                     *)
(***************************************************************************)
FindCycle(c, t) ==
  /\ work[c] = Idle /\ t \in LiveCycles
  /\ Do(c, [Idle EXCEPT !.phase = "selectCycle", !.op = "approve", !.type = {t}])
  /\ UNCHANGED <<header, cycle, lock>>

\* A copy that was read live differs from a row deleted since.
SelectCycle(c) ==
  /\ work[c].phase = "selectCycle"
  /\ Do(c, [work[c] EXCEPT !.phase = "writeCycle",
              !.restore = \A t \in work[c].type : cycle[t].status = "deleted"])
  /\ UNCHANGED <<header, cycle, lock>>

WriteCycle(c) ==
  /\ work[c].phase = "writeCycle"
  /\ cycle' = [t \in CheckTypes |->
       IF t \in work[c].type /\ work[c].restore /\ cycle[t].status = "deleted"
       THEN [status |-> "live", origin |-> "aside"] ELSE cycle[t]]
  /\ Do(c, Idle)
  /\ UNCHANGED <<header, lock>>

\* A refusal, a constraint, a lock timeout: the transaction is rolled back.
FailEquipment(c) ==
  /\ work[c] # Idle /\ Do(c, Idle)
  /\ lock' = IF lock = c THEN NoCall ELSE lock
  /\ UNCHANGED <<header, cycle>>

EquipmentNext ==
  \E c \in Calls :
    \/ \E op \in {"create", "update"}, body \in SUBSET CheckTypes : FindEquipment(c, op, body)
    \/ FindToDelete(c) \/ SelectHeader(c) \/ WriteHeader(c) \/ ReadCycles(c)
    \/ CommitEquipment(c) \/ DeleteEquipment(c)
    \/ \E t \in CheckTypes : FindCycle(c, t)
    \/ SelectCycle(c) \/ WriteCycle(c) \/ FailEquipment(c)

EquipmentSpec == EquipmentInit /\ [][EquipmentNext]_equipmentVars

-----------------------------------------------------------------------------
\* The live cycles of a live equipment are those that were saved with its header,
\* however saves, deletions and approvals overlap, but for what was written aside:
\* by a save that found no difference in the header, which holds no lock, or by an
\* approval whose copy of a cycle brings back what a save has removed.
CyclesOfOneSave ==
  header = "live" => \A t \in LiveCycles : cycle[t].origin # "earlier"
=============================================================================
