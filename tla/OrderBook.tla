----------------------------- MODULE OrderBook -----------------------------
(***************************************************************************)
(* What the procurement service promises about purchase orders: an order   *)
(* appears with its lines and allocations at one instant, its lines and    *)
(* allocations change only while it is a live draft, and whatever a call   *)
(* has checked holds at the instant its writing takes effect.  What it     *)
(* does not promise is the outcome of confirming, deleting and closing an  *)
(* order at once.                                                          *)
(***************************************************************************)
EXTENDS Naturals, Functions

CONSTANTS
  Orders, Materials, PrLines, MaterialOf, RequestedQty,
  LegacyQty,    \* orders of earlier releases, with their lines
  Reassigned,   \* request lines that allocations may be moved to
  Mixed         \* orders whose receipts are not all counted

VARIABLES row, ordered, alloc, received

bvars == <<row, ordered, alloc, received>>

Legacy == DOMAIN LegacyQty
Open(status) == [status |-> status, deleted |-> FALSE, closed |-> FALSE]
Absent == Open("none")
Draft == Open("T")
Confirmed == Open("S")
NoShares == [p \in PrLines |-> 0]
Nothing == [m \in Materials |-> 0]

\* What confirming, deleting and closing order o can leave of its row.
Decisions(o) ==
  [status: {"T", "S"}, deleted: BOOLEAN,
   closed: IF o \in Legacy THEN BOOLEAN ELSE {FALSE}]

LineQty(shares) ==
  [m \in Materials |->
     SumFunction([p \in {q \in PrLines : MaterialOf[q] = m} |-> shares[p]])]

AllocatedQty(p) == SumFunction([o \in Orders |-> alloc[o][p]])

Init ==
  /\ row = [o \in Orders |-> IF o \in Legacy THEN Draft ELSE Absent]
  /\ ordered = [o \in Orders |-> IF o \in Legacy THEN LegacyQty[o] ELSE Nothing]
  /\ alloc = [o \in Orders |-> NoShares]
  /\ received = [o \in Orders |-> Nothing]

\* What the calls send is left open: the order of an action is the only one
\* whose lines, allocations or row it changes.
Make(o) ==
  /\ row[o] = Absent
  /\ row' = [row EXCEPT ![o] = Draft]
  /\ ordered' = [ordered EXCEPT ![o] = ordered'[o]]
  /\ alloc' = [alloc EXCEPT ![o] = alloc'[o]]
  /\ alloc'[o] # NoShares =>
       /\ ordered'[o] = LineQty(alloc'[o])
       /\ \A p \in PrLines \ Reassigned :
            alloc'[o][p] > 0 =>
              AllocatedQty(p) + alloc'[o][p] <= RequestedQty[p]
  /\ UNCHANGED received

Amend(o) ==
  /\ row[o] = Draft /\ o \notin Legacy /\ alloc[o] = NoShares
  /\ ordered' = [ordered EXCEPT ![o] = ordered'[o]]
  /\ UNCHANGED <<row, alloc, received>>

Share(o) ==
  /\ row[o].status = "T" /\ ~row[o].deleted
  /\ alloc' = [alloc EXCEPT ![o] = alloc'[o]]
  /\ ordered[o] = LineQty(alloc'[o])
  /\ \A p \in PrLines : alloc'[o][p] <= RequestedQty[p]
  /\ UNCHANGED <<row, ordered, received>>

Decide(o) ==
  /\ row[o] \in Decisions(o)
  /\ row' = [row EXCEPT ![o] = row'[o]] /\ row'[o] \in Decisions(o)
  /\ UNCHANGED <<ordered, alloc, received>>

\* One document adds to lines of the orders it names.
Receive ==
  /\ received' = [o \in Orders |-> received'[o]]
  /\ \A o \in Orders : received'[o] # received[o] => row[o] = Confirmed
  /\ \A o \in Orders : \A m \in Materials :
       received'[o][m] # received[o][m] =>
         /\ received'[o][m] > received[o][m]
         /\ o \notin Mixed => received'[o][m] <= ordered[o][m]
  /\ UNCHANGED <<row, ordered, alloc>>

Next ==
  \/ Receive
  \/ \E o \in Orders : Make(o) \/ Amend(o) \/ Share(o) \/ Decide(o)

Spec == Init /\ [][Next]_bvars
=============================================================================
