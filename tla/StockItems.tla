----------------------------- MODULE StockItems -----------------------------
(***************************************************************************)
(* The request items of a stock transaction and what each of them does to  *)
(* a stock row: inventory-tx.service.ts, executeIn, executeOut,            *)
(* executeMove and executeAdj.                                             *)
(*                                                                         *)
(* A key stands for a (warehouse, inventory) pair, the primary key of      *)
(* inventory_status.  Keys are integers because the service visits them in *)
(* sorted order.  A month stands for the YYYYMM of a transaction date.     *)
(***************************************************************************)
EXTENDS Integers, Sequences

CONSTANTS Keys,       \* the (warehouse, inventory) pairs
          LastMonth   \* months are numbered 1..LastMonth

ASSUME KeysAssumption  == Keys \subseteq Int
ASSUME MonthAssumption == LastMonth \in Nat \ {0}

Months  == 1..LastMonth
TxTypes == {"IN", "OUT", "MOVE", "ADJ"}

\* target is read for a MOVE only.
Item == [type: TxTypes, key: Keys, target: Keys, qty: Int, month: Months]

\* validateTxItem and the first guards of executeMove.
Valid(it) ==
  /\ it.qty # 0
  /\ it.type # "ADJ"  => it.qty > 0
  /\ it.type = "MOVE" => it.target # it.key

-----------------------------------------------------------------------------
(***************************************************************************)
(* A leg is one change of one row.  A MOVE has two, the OUT at the source  *)
(* and then the IN at the target; every other item has one.                *)
(***************************************************************************)
Legs(it) == IF it.type = "MOVE" THEN 1..2 ELSE {1}

LegKey(it, leg) == IF leg = 1 THEN it.key ELSE it.target

TakesStock(it, leg) == it.type = "OUT" \/ (it.type = "MOVE" /\ leg = 1)

LegDelta(it, leg) == IF TakesStock(it, leg) THEN 0 - it.qty ELSE it.qty

\* Mutant of LegType: the type of the item, whatever the leg.
ItemType(it, leg) == it.type

\* tx_type_code of the history row the leg appends.
LegType(it, leg) ==
  IF it.type # "MOVE" THEN it.type
  ELSE IF leg = 1 THEN "MOVE_OUT" ELSE "MOVE_IN"

\* A row as a transaction holds it in its statuses map; row = FALSE is null.
RowImage == [row: BOOLEAN, qty: Int]

\* The refusals of executeOut and executeAdj against the image of the row.
LegRefused(it, leg, image) ==
  \/ TakesStock(it, leg) /\ (~image.row \/ image.qty < it.qty)
  \/ it.type = "ADJ" /\ image.qty + it.qty < 0

\* extractSortedKeys, as a set.
KeysOf(items) ==
  UNION {{LegKey(items[i], leg) : leg \in Legs(items[i])} : i \in DOMAIN items}

MonthsOf(items) == {items[i].month : i \in DOMAIN items}

-----------------------------------------------------------------------------
(***************************************************************************)
(* Cancelling: the opposite item of each history row of a document.  Every *)
(* one carries the date of the document's header.                          *)
(***************************************************************************)
HistoryTypes == {"IN", "OUT", "ADJ", "MOVE_IN", "MOVE_OUT"}
History == [type: HistoryTypes, key: Keys, delta: Int, month: Months]

AbsQty(n) == IF n < 0 THEN 0 - n ELSE n

OppositeType(h) == IF h.type \in {"IN", "MOVE_IN"} THEN "OUT"
                   ELSE IF h.type \in {"OUT", "MOVE_OUT"} THEN "IN"
                   ELSE "ADJ"

\* Mutant of Opposite: an adjustment is posted again with its sign.
OppositeKeepsAdjSign(h, month) ==
  [type   |-> OppositeType(h),
   key    |-> h.key,
   target |-> h.key,
   qty    |-> IF h.type = "ADJ" THEN h.delta ELSE AbsQty(h.delta),
   month  |-> month]

Opposite(h, month) ==
  [type   |-> OppositeType(h),
   key    |-> h.key,
   target |-> h.key,
   qty    |-> IF h.type = "ADJ" THEN 0 - h.delta ELSE AbsQty(h.delta),
   month  |-> month]
=============================================================================
