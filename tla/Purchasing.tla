----------------------------- MODULE Purchasing -----------------------------
(***************************************************************************)
(* Purchase orders, their allocations to purchase requests and the         *)
(* receipts booked on them: procurement.service.ts and                     *)
(* validatePurchaseReferences of inventory-tx.service.ts.                  *)
(*                                                                         *)
(* An order has at most one line per material, the material standing for   *)
(* the line.  Header fields, permissions and the owner of a draft are left *)
(* out; the purchase requests are confirmed and do not change.             *)
(***************************************************************************)
EXTENDS Naturals, Sequences, FiniteSets, Functions

CONSTANTS
  Orders, NoOrder,  \* order numbers, and the absence of one
  Materials,
  Requests,         \* purchase requests
  PrLines,          \* their lines
  RequestOf, MaterialOf, RequestedQty,   \* of a line
  Calls, NoCall,    \* concurrent calls of the service
  LegacyQty,        \* lines of the orders of earlier releases, each of them
                    \* made for one purchase request
  Integrations,     \* bodies of createIntegratedOrder
  Drafts,           \* item lists of createStandaloneOrder, updatePurchaseOrder
  Reallocations,    \* bodies of saveOrderAllocations
  Receipts,         \* bodies of receipts: sequences of [order, material, qty]
  Hasty,            \* orders a call may name before their creation answers
  MaxReceived       \* bound on what is received on one line

Legacy == DOMAIN LegacyQty
Quantities == [Materials -> Nat]
Shares == [PrLines -> Nat]
ReceiptLine == [order: Orders \union {NoOrder}, material: Materials,
                qty: Nat \ {0}]

ASSUME OrderAssumption ==
  NoOrder \notin Orders /\ NoCall \notin Calls /\ MaxReceived \in Nat
ASSUME FiniteAssumption == IsFiniteSet(Orders) /\ IsFiniteSet(PrLines)
ASSUME RequestAssumption ==
  /\ RequestOf \in [PrLines -> Requests]
  /\ MaterialOf \in [PrLines -> Materials]
  /\ RequestedQty \in Shares
ASSUME BodyAssumption ==
  /\ Legacy \subseteq Orders /\ LegacyQty \in [Legacy -> Quantities]
  /\ Integrations \subseteq Shares /\ Reallocations \subseteq Shares
  /\ Drafts \subseteq Quantities
  /\ Receipts \subseteq Seq(ReceiptLine) \ {<<>>}
  /\ Hasty \subseteq Orders

VARIABLES
  row,        \* purchase_order, committed
  ordered,    \* purchase_order_item: quantity per line, 0 for no line
  alloc,      \* allocation, type PO: quantity per request line
  counted,    \* IN items of the documents whose header names the order
  received,   \* IN items that name the order themselves
  orderLock, requestLock,   \* FOR UPDATE
  pc, on,     \* per call: where it is, and the order it works on
  body,       \* per call: its request lines, item quantities or receipt
  copy,       \* per call: the entity findOne returned, as changed since
  columns,    \* per call: the columns repository.save will write
  todo        \* per call: orders its receipt has still to lock

dbVars == <<row, ordered, alloc, counted, received>>
locks == <<orderLock, requestLock>>
callVars == <<pc, on, body, copy, columns, todo>>
vars == <<dbVars, locks, callVars>>

Entity == [status: {"none", "T", "S"}, deleted: BOOLEAN, closed: BOOLEAN]
Absent == [status |-> "none", deleted |-> FALSE, closed |-> FALSE]
\* Mutant of Draft: an order saved in the status of a submitted document.
SubmittedOrder == [Absent EXCEPT !.status = "P"]

Draft == [Absent EXCEPT !.status = "T"]
Nothing == [m \in Materials |-> 0]
NoShares == [p \in PrLines |-> 0]
Idle == "idle"
Phases == {Idle, "lockRequests", "check", "saveOrder", "saveItems",
           "lockUpdate", "lockAllocate", "update", "allocate",
           "select", "save", "lockOrder", "book"}

TypeOK ==
  /\ row \in [Orders -> Entity]
  /\ ordered \in [Orders -> Quantities]
  /\ alloc \in [Orders -> Shares]
  /\ counted \in [Orders -> Quantities]
  /\ received \in [Orders -> Quantities]
  /\ orderLock \in [Orders -> Calls \union {NoCall}]
  /\ requestLock \in [Requests -> Calls \union {NoCall}]
  /\ pc \in [Calls -> Phases]
  /\ on \in [Calls -> Orders \union {NoOrder}]
  /\ body \in [Calls -> Quantities \union Shares \union Seq(ReceiptLine)]
  /\ copy \in [Calls -> Entity]
  /\ columns \in [Calls -> SUBSET {"status", "deleted", "closed"}]
  /\ todo \in [Calls -> SUBSET Orders]

Init ==
  /\ row = [o \in Orders |-> IF o \in Legacy THEN Draft ELSE Absent]
  /\ ordered = [o \in Orders |-> IF o \in Legacy THEN LegacyQty[o] ELSE Nothing]
  /\ alloc = [o \in Orders |-> NoShares]
  /\ counted = [o \in Orders |-> Nothing]
  /\ received = [o \in Orders |-> Nothing]
  /\ orderLock = [o \in Orders |-> NoCall]
  /\ requestLock = [r \in Requests |-> NoCall]
  /\ pc = [c \in Calls |-> Idle]
  /\ on = [c \in Calls |-> NoOrder]
  /\ body = [c \in Calls |-> <<>>]
  /\ copy = [c \in Calls |-> Absent]
  /\ columns = [c \in Calls |-> {}]
  /\ todo = [c \in Calls |-> {}]

-----------------------------------------------------------------------------
(***************************************************************************)
(* What handlers share.                                                    *)
(***************************************************************************)
\* A handler starts on order o.
Begin(c, phase, o, input) ==
  /\ pc[c] = Idle
  /\ pc' = [pc EXCEPT ![c] = phase]
  /\ on' = [on EXCEPT ![c] = o]
  /\ body' = [body EXCEPT ![c] = input]

Advance(c, from, to) == pc[c] = from /\ pc' = [pc EXCEPT ![c] = to]

\* A call ends: its answer is sent and a transaction's locks are released.
End(c) ==
  /\ pc' = [pc EXCEPT ![c] = Idle]
  /\ on' = [on EXCEPT ![c] = NoOrder]
  /\ body' = [body EXCEPT ![c] = <<>>]
  /\ copy' = [copy EXCEPT ![c] = Absent]
  /\ columns' = [columns EXCEPT ![c] = {}]
  /\ todo' = [todo EXCEPT ![c] = {}]
  /\ orderLock' = [o \in Orders |->
       IF orderLock[o] = c THEN NoCall ELSE orderLock[o]]
  /\ requestLock' = [r \in Requests |->
       IF requestLock[r] = c THEN NoCall ELSE requestLock[r]]

\* An error, a refusal, a lock timeout or the end of the process: what the
\* open transaction wrote is rolled back, what was committed stays.
Fail(c) == pc[c] # Idle /\ End(c) /\ UNCHANGED dbVars

Live(o) == row[o].status # "none" /\ ~row[o].deleted

\* An order that other calls can name.
Named(o) ==
  /\ Live(o)
  /\ o \in Hasty \/ \A c \in Calls : ~(pc[c] = "saveItems" /\ on[c] = o)

\* The number generateNextNo returned, used by no other order.
Fresh(o) ==
  row[o].status = "none" /\ \A c \in Calls : on[c] # o

Free(o) == orderLock[o] = NoCall

Linked(o) == o \in Legacy \/ alloc[o] # NoShares

LineQty(shares) ==
  [m \in Materials |->
     SumFunction([p \in {q \in PrLines : MaterialOf[q] = m} |-> shares[p]])]

AllocatedQty(p) == SumFunction([o \in Orders |-> alloc[o][p]])

-----------------------------------------------------------------------------
(***************************************************************************)
(* createIntegratedOrder: one transaction, holding the purchase requests.  *)
(***************************************************************************)
Integrate(c, o, lines) ==
  /\ Fresh(o) /\ Begin(c, "lockRequests", o, lines)
  /\ UNCHANGED <<dbVars, locks, copy, columns, todo>>

RequestsOf(lines) == {RequestOf[p] : p \in {q \in PrLines : lines[q] > 0}}

\* Mutant of LockRequests: a SELECT without FOR UPDATE.
ReadRequests(c) ==
  /\ Advance(c, "lockRequests", "check")
  /\ UNCHANGED <<dbVars, locks, on, body, copy, columns, todo>>

LockRequests(c) ==
  /\ Advance(c, "lockRequests", "check")
  /\ \A r \in RequestsOf(body[c]) : requestLock[r] = NoCall
  /\ requestLock' = [r \in Requests |->
       IF r \in RequestsOf(body[c]) THEN c ELSE requestLock[r]]
  /\ UNCHANGED <<dbVars, orderLock, on, body, copy, columns, todo>>

\* Allocations of every order count, deleted ones included.
CheckAvailable(c) ==
  /\ Advance(c, "check", "saveOrder")
  /\ \A p \in PrLines :
       body[c][p] > 0 => AllocatedQty(p) + body[c][p] <= RequestedQty[p]
  /\ UNCHANGED <<dbVars, locks, on, body, copy, columns, todo>>

SaveIntegrated(c) ==
  /\ pc[c] = "saveOrder"
  /\ row' = [row EXCEPT ![on[c]] = Draft]
  /\ ordered' = [ordered EXCEPT ![on[c]] = LineQty(body[c])]
  /\ alloc' = [alloc EXCEPT ![on[c]] = body[c]]
  /\ End(c)
  /\ UNCHANGED <<counted, received>>

-----------------------------------------------------------------------------
(***************************************************************************)
(* createStandaloneOrder: the order and its items are saved in two         *)
(* transactions.  save inserts an item or updates the one it finds.        *)
(***************************************************************************)
CreateOrder(c, o, items) ==
  /\ Fresh(o) /\ Begin(c, "saveItems", o, items)
  /\ row' = [row EXCEPT ![o] = Draft]
  /\ UNCHANGED <<ordered, alloc, counted, received, locks, copy, columns, todo>>

CreateItems(c) ==
  /\ pc[c] = "saveItems"
  /\ ordered' = [ordered EXCEPT ![on[c]] = [m \in Materials |->
       IF body[c][m] > 0 THEN body[c][m] ELSE ordered[on[c]][m]]]
  /\ End(c)
  /\ UNCHANGED <<row, alloc, counted, received>>

-----------------------------------------------------------------------------
(***************************************************************************)
(* updatePurchaseOrder and saveOrderAllocations: one transaction each,     *)
(* holding the order's row.                                                *)
(***************************************************************************)
Edit(c, o, phase, input) ==
  /\ Named(o) /\ Begin(c, phase, o, input)
  /\ UNCHANGED <<dbVars, locks, copy, columns, todo>>

\* Mutant of LockDraft: findOne, as confirmOrder does.
FindDraft(c) ==
  /\ row[on[c]].status = "T" /\ ~row[on[c]].deleted
  /\ UNCHANGED <<dbVars, locks, on, body, copy, columns, todo>>

\* SELECT ... FOR UPDATE waits, then sees the row as last committed.
LockDraft(c) ==
  /\ Free(on[c]) /\ row[on[c]].status = "T" /\ ~row[on[c]].deleted
  /\ orderLock' = [orderLock EXCEPT ![on[c]] = c]
  /\ UNCHANGED <<dbVars, requestLock, on, body, copy, columns, todo>>

\* Mutant of LockUpdate: orders with allocations are updated like others.
LockAnyUpdate(c) == Advance(c, "lockUpdate", "update") /\ LockDraft(c)

\* Items sent for an order with allocations are refused; without them only
\* its header is saved.
LockUpdate(c) ==
  /\ Advance(c, "lockUpdate", "update")
  /\ ~Linked(on[c])
  /\ LockDraft(c)

Update(c) ==
  /\ pc[c] = "update"
  /\ ordered' = [ordered EXCEPT ![on[c]] = body[c]]
  /\ End(c)
  /\ UNCHANGED <<row, alloc, counted, received>>

\* The allocations of the other orders are not looked at.
SharesFit(o, shares) ==
  /\ LineQty(shares) = ordered[o]
  /\ \A p \in PrLines : shares[p] <= RequestedQty[p]

LockAllocate(c) ==
  /\ Advance(c, "lockAllocate", "allocate")
  /\ SharesFit(on[c], body[c])
  /\ LockDraft(c)

Allocate(c) ==
  /\ pc[c] = "allocate"
  /\ alloc' = [alloc EXCEPT ![on[c]] = body[c]]
  /\ End(c)
  /\ UNCHANGED <<row, ordered, counted, received>>

-----------------------------------------------------------------------------
(***************************************************************************)
(* confirmOrder, deleteOrder and close: findOne, a change of the entity,   *)
(* and repository.save, which reads the row again and updates every column *)
(* in which the entity differs from it.                                    *)
(***************************************************************************)
Read(c, o, entity) ==
  /\ Named(o) /\ Begin(c, "select", o, <<>>)
  /\ copy' = [copy EXCEPT ![c] = entity]
  /\ UNCHANGED <<dbVars, locks, columns, todo>>

Confirm(c, o) ==
  row[o].status = "T" /\ Read(c, o, [row[o] EXCEPT !.status = "S"])

Delete(c, o) ==
  row[o].status = "T" /\ Read(c, o, [row[o] EXCEPT !.deleted = TRUE])

\* Only an order of an earlier release is found by its purchase request.
Close(c, o) ==
  /\ o \in Legacy /\ row[o].status = "S" /\ ~row[o].closed
  /\ Read(c, o, [row[o] EXCEPT !.closed = TRUE])

SaveSelect(c) ==
  /\ Advance(c, "select", "save")
  /\ columns' = [columns EXCEPT ![c] =
       {f \in DOMAIN Absent : copy[c][f] # row[on[c]][f]}]
  /\ UNCHANGED <<dbVars, locks, on, body, copy, todo>>

\* The UPDATE waits for whoever holds the row.
SaveUpdate(c) ==
  /\ pc[c] = "save" /\ Free(on[c])
  /\ row' = [row EXCEPT ![on[c]] = [f \in DOMAIN Absent |->
       IF f \in columns[c] THEN copy[c][f] ELSE row[on[c]][f]]]
  /\ End(c)
  /\ UNCHANGED <<ordered, alloc, counted, received>>

-----------------------------------------------------------------------------
(***************************************************************************)
(* A receipt: validatePurchaseReferences locks and checks the orders one   *)
(* by one, and the document is booked in the same transaction.             *)
(***************************************************************************)
OrdersOf(lines) == {lines[i].order : i \in DOMAIN lines} \ {NoOrder}

QtyOf(lines, o, m) ==
  SumFunction([i \in {j \in DOMAIN lines :
                 lines[j].order = o /\ lines[j].material = m} |-> lines[i].qty])

Receive(c, lines) ==
  /\ Begin(c, "lockOrder", NoOrder, lines)
  /\ \A o \in OrdersOf(lines) : Named(o)
  /\ todo' = [todo EXCEPT ![c] = OrdersOf(lines)]
  /\ UNCHANGED <<dbVars, locks, copy, columns>>

\* The orders are taken in the order of their first lines.
NextOrder(c) ==
  LET first(o) == CHOOSE i \in DOMAIN body[c] :
                    /\ body[c][i].order = o
                    /\ \A j \in 1..(i - 1) : body[c][j].order # o
  IN CHOOSE o \in todo[c] : \A q \in todo[c] : first(o) <= first(q)

Receivable(o) == row[o].status = "S" /\ ~row[o].deleted /\ ~row[o].closed

\* Mutant of Fits: what has been received before is not subtracted.
FitsOrdered(lines, o) ==
  \A m \in Materials : QtyOf(lines, o, m) <= ordered[o][m]

Fits(lines, o) ==
  \A m \in Materials :
    QtyOf(lines, o, m) > 0 => counted[o][m] + QtyOf(lines, o, m) <= ordered[o][m]

\* Mutant of LockOrder: a SELECT without FOR UPDATE.
FindOrder(c) ==
  /\ pc[c] = "lockOrder" /\ todo[c] # {}
  /\ LET o == NextOrder(c) IN
       /\ Receivable(o) /\ Fits(body[c], o)
       /\ todo' = [todo EXCEPT ![c] = @ \ {o}]
       /\ pc' = [pc EXCEPT ![c] = IF todo'[c] = {} THEN "book" ELSE "lockOrder"]
  /\ UNCHANGED <<dbVars, locks, on, body, copy, columns>>

LockOrder(c) ==
  /\ pc[c] = "lockOrder" /\ todo[c] # {}
  /\ LET o == NextOrder(c) IN
       /\ Free(o) /\ Receivable(o) /\ Fits(body[c], o)
       /\ orderLock' = [orderLock EXCEPT ![o] = c]
       /\ todo' = [todo EXCEPT ![c] = @ \ {o}]
       /\ pc' = [pc EXCEPT ![c] = IF todo'[c] = {} THEN "book" ELSE "lockOrder"]
  /\ UNCHANGED <<dbVars, requestLock, on, body, copy, columns>>

\* saveInventoryDocument gives the document the reference of its first
\* item; the line numbers of the other items stay.
HeaderOrder(lines) == lines[1].order

LinesQty(lines, m) ==
  SumFunction([i \in {j \in DOMAIN lines :
                 lines[j].material = m /\ lines[j].order # NoOrder} |-> lines[i].qty])

Book(c) ==
  /\ pc[c] = "book"
  /\ received' = [o \in Orders |->
       IF o \in OrdersOf(body[c])
         THEN [m \in Materials |-> received[o][m] + QtyOf(body[c], o, m)]
         ELSE received[o]]
  /\ \A o \in Orders : \A m \in Materials : received'[o][m] <= MaxReceived
  /\ counted' = [o \in Orders |-> [m \in Materials |->
       IF o = HeaderOrder(body[c])
         THEN counted[o][m] + LinesQty(body[c], m) ELSE counted[o][m]]]
  /\ End(c)
  /\ UNCHANGED <<row, ordered, alloc>>

-----------------------------------------------------------------------------
\* A call of each kind arrives.
Arrive(c) ==
  \/ \E o \in Orders :
       \/ Confirm(c, o) \/ Delete(c, o) \/ Close(c, o)
       \/ \E lines \in Integrations : Integrate(c, o, lines)
       \/ \E items \in Drafts :
            CreateOrder(c, o, items) \/ Edit(c, o, "lockUpdate", items)
       \/ \E shares \in Reallocations : Edit(c, o, "lockAllocate", shares)
  \/ \E lines \in Receipts : Receive(c, lines)

Proceed(c) ==
  \/ LockRequests(c) \/ CheckAvailable(c) \/ SaveIntegrated(c)
  \/ CreateItems(c)
  \/ LockUpdate(c) \/ Update(c)
  \/ LockAllocate(c) \/ Allocate(c)
  \/ SaveSelect(c) \/ SaveUpdate(c)
  \/ LockOrder(c) \/ Book(c)

Next == \E c \in Calls : Arrive(c) \/ Proceed(c) \/ Fail(c)

Spec == Init /\ [][Next]_vars

-----------------------------------------------------------------------------
(***************************************************************************)
(* Properties.                                                             *)
(***************************************************************************)
\* Request lines that saveOrderAllocations may be asked for.
Reassigned == {p \in PrLines : \E shares \in Reallocations : shares[p] > 0}

\* Orders named in a receipt together with something else.
Mixed ==
  UNION {OrdersOf(lines) : lines \in {ls \in Receipts :
           \E i \in DOMAIN ls : ls[i].order # HeaderOrder(ls)}}

\* An order's allocations always add up to its lines, material by material
\* (product_spec.md 7.3), whatever is edited, confirmed or deleted at once.
\* This needs the order's number to be unknown until its creation answers.
AllocationsMatchOrder ==
  \A o \in Orders \ Hasty :
    alloc[o] # NoShares => LineQty(alloc[o]) = ordered[o]

\* Concurrent createIntegratedOrder calls never allocate more of a purchase
\* request line than was requested.
IntegratedWithinRequest ==
  \A p \in PrLines \ Reassigned : AllocatedQty(p) <= RequestedQty[p]

\* The allocations of all orders never exceed what a purchase request line
\* asks for (product_spec.md:171).
AllocatedWithinRequest ==
  \A p \in PrLines : AllocatedQty(p) <= RequestedQty[p]

\* A receipt is booked only on an order that is, at that moment, confirmed,
\* open and not deleted: a deletion or closing at once waits or comes first.
BookedOnOpenOrder ==
  [][\A o \in Orders : received'[o] # received[o] => Receivable(o)]_vars

\* What is booked on a line stays within its quantity, when receipts name
\* one order each: two receipts at once never share a remainder.
ReceiptFitsOrder ==
  [][\A o \in Orders \ (Mixed \union Hasty) : \A m \in Materials :
       received'[o][m] # received[o][m] =>
         received'[o][m] <= ordered[o][m]]_vars

\* A receipt never exceeds the remainder of its order's line
\* (product_spec.md:182).
ReceiptWithinRemainder ==
  [][\A o \in Orders \ Hasty : \A m \in Materials :
       received'[o][m] # received[o][m] =>
         received'[o][m] <= ordered[o][m]]_vars

-----------------------------------------------------------------------------
(***************************************************************************)
(* What the service promises of orders whose number is not named too soon. *)
(***************************************************************************)
\* An order saved without its items is not there yet.
Unsaved(o) == \E c \in Calls : pc[c] = "saveItems" /\ on[c] = o

\* The purchase orders as they would be if each call took effect at once.
AtOnce == INSTANCE OrderBook WITH
  Orders   <- Orders \ Hasty,
  row      <- [o \in Orders \ Hasty |-> IF Unsaved(o) THEN Absent ELSE row[o]],
  ordered  <- [o \in Orders \ Hasty |-> ordered[o]],
  alloc    <- [o \in Orders \ Hasty |-> alloc[o]],
  received <- [o \in Orders \ Hasty |-> received[o]]

\* Concurrent calls of the procurement service and purchase receipts are
\* equivalent to calls that check and write an order at one instant: nothing
\* a call has checked is out of date when what it writes takes effect.
ImplementsOrderBook == AtOnce!Spec
=============================================================================
