------------------------- MODULE Purchasing_proofs -------------------------
(***************************************************************************)
(* Theorems about Purchasing, for any orders, requests, bodies and number  *)
(* of concurrent calls.                                                    *)
(*                                                                         *)
(* The argument: a number belongs to one call until its order is saved     *)
(* (Creating, Unborn, Unannounced), an editor and a receipt hold the rows  *)
(* they have checked (EditorHolds, ReceiptHolds), and a row that is held   *)
(* is written by nobody, because confirmOrder, deleteOrder and close wait  *)
(* for it in their UPDATE.  So what a receipt found to be left of a line   *)
(* is left when it is booked (Checked).  In the same way an integration    *)
(* holds the purchase requests it draws on (RequestsHeld), and what it     *)
(* found available still is when it saves (StillAvailable).  Each call      *)
(* therefore takes effect at one instant, where it saves its last row: the *)
(* service implements OrderBook.                                           *)
(***************************************************************************)
EXTENDS Purchasing, Sums

\* The shape of the state, as far as the order's rows need it.
Shape ==
  /\ DOMAIN row = Orders /\ \A o \in Orders : DOMAIN row[o] = DOMAIN Absent
  /\ DOMAIN ordered = Orders /\ DOMAIN alloc = Orders
  /\ DOMAIN received = Orders
  /\ orderLock \in [Orders -> Calls \union {NoCall}]
  /\ pc \in [Calls -> Phases]
  /\ on \in [Calls -> Orders \union {NoOrder}]
  /\ DOMAIN body = Calls /\ DOMAIN todo = Calls /\ DOMAIN copy = Calls

\* Only receipts and idle calls work on no order.
OnOrder ==
  \A c \in Calls : pc[c] \notin {Idle, "lockOrder", "book"} => on[c] \in Orders

\* A number generated in a transaction is used by nobody else before the
\* order is saved.
Creating ==
  \A c \in Calls : pc[c] \in {"lockRequests", "check", "saveOrder"} =>
    /\ row[on[c]].status = "none"
    /\ \A d \in Calls \ {c} : on[d] # on[c]

\* An order that has not been saved has no allocations, and no entity of
\* confirmOrder, deleteOrder or close brings it back to that.
Unborn ==
  /\ \A o \in Orders : row[o].status = "none" => alloc[o] = NoShares
  /\ \A c \in Calls :
       pc[c] \in {"select", "save"} => copy[c].status \in {"T", "S"}

\* An order saved without its items is a draft nobody else works on.
Unannounced ==
  \A c \in Calls : pc[c] = "saveItems" /\ on[c] \notin Hasty =>
    /\ row[on[c]].status = "T"
    /\ alloc[on[c]] = NoShares
    /\ \A d \in Calls \ {c} : on[d] # on[c]

\* An editor holds a draft.
EditorHolds ==
  \A c \in Calls : pc[c] \in {"update", "allocate"} =>
    orderLock[on[c]] = c /\ row[on[c]].status = "T"

\* Items are replaced only where there are no allocations.
UpdatesUnlinked ==
  \A c \in Calls : pc[c] = "update" => alloc[on[c]] = NoShares

\* What saveOrderAllocations has checked still holds when it saves.
AllocatesFitting ==
  \A c \in Calls : pc[c] = "allocate" /\ on[c] \notin Hasty =>
    LineQty(body[c]) = ordered[on[c]]

\* A receipt holds the orders it has checked.
ReceiptHolds ==
  \A c \in Calls : pc[c] \in {"lockOrder", "book"} =>
    /\ pc[c] = "book" => todo[c] = {}
    /\ \A o \in OrdersOf(body[c]) \ todo[c] :
         o \in Orders => orderLock[o] = c /\ Receivable(o)

IInv ==
  /\ Shape
  /\ OnOrder
  /\ Creating
  /\ Unborn
  /\ Unannounced
  /\ EditorHolds
  /\ UpdatesUnlinked
  /\ AllocatesFitting
  /\ ReceiptHolds
  /\ AllocationsMatchOrder

-----------------------------------------------------------------------------
LEMMA InitIInv == Init => IInv
  BY OrderAssumption DEF Init, Draft, Absent, IInv, Shape, OnOrder, Creating,
     Unborn, Unannounced, EditorHolds, UpdatesUnlinked, AllocatesFitting,
     ReceiptHolds, AllocationsMatchOrder, Idle, Phases

\* A call that ends leaves every claim about calls to the others.
LEMMA EndFacts ==
  ASSUME Shape, NEW c \in Calls, End(c)
  PROVE  /\ orderLock' \in [Orders -> Calls \union {NoCall}]
         /\ pc' \in [Calls -> Phases] /\ on' \in [Calls -> Orders \union {NoOrder}]
         /\ DOMAIN body' = Calls /\ DOMAIN todo' = Calls
         /\ DOMAIN copy' = Calls
         /\ pc'[c] = Idle /\ on'[c] = NoOrder
         /\ \A d \in Calls \ {c} : /\ pc'[d] = pc[d] /\ on'[d] = on[d]
                                   /\ body'[d] = body[d] /\ todo'[d] = todo[d]
                                   /\ copy'[d] = copy[d]
         /\ \A o \in Orders : \A d \in Calls \ {c} :
              orderLock[o] = d => orderLock'[o] = d
  BY OrderAssumption DEF Shape, End, Idle, Phases


-----------------------------------------------------------------------------
(***************************************************************************)
(* Every step preserves the invariant.                                     *)
(***************************************************************************)
LEMMA FailIInv ==
  ASSUME IInv, NEW c \in Calls, Fail(c)
  PROVE  IInv'
  BY EndFacts, OrderAssumption DEF IInv, Fail, dbVars, Shape, OnOrder,
     Creating, Unborn, Unannounced, EditorHolds, UpdatesUnlinked,
     AllocatesFitting, ReceiptHolds, AllocationsMatchOrder, Receivable, Idle

\* A call that arrives on an existing order.
LEMMA ArrivalIInv ==
  ASSUME IInv, NEW c \in Calls, NEW o \in Orders, NEW input,
         NEW phase \in {"lockUpdate", "lockAllocate", "select"},
         Named(o), Begin(c, phase, o, input),
         UNCHANGED <<dbVars, locks, todo>>,
         phase = "select" => copy'[c].status \in {"T", "S"},
         DOMAIN copy' = Calls, \A d \in Calls \ {c} : copy'[d] = copy[d]
  PROVE  IInv'
  BY OrderAssumption DEF IInv, Begin, Named, Live, dbVars, locks, Shape,
     OnOrder, Creating, Unborn, Unannounced, EditorHolds, UpdatesUnlinked,
     AllocatesFitting, ReceiptHolds, AllocationsMatchOrder, Receivable, Idle,
     Phases

LEMMA ArriveIInv ==
  ASSUME IInv, NEW c \in Calls, Arrive(c)
  PROVE  IInv'
<1>1. ASSUME NEW o \in Orders, Confirm(c, o) \/ Delete(c, o) \/ Close(c, o)
      PROVE  IInv'
  BY <1>1, ArrivalIInv DEF Confirm, Delete, Close, Read, IInv, Shape, Absent,
     Named, dbVars, locks
<1>2. ASSUME NEW o \in Orders, NEW lines \in Integrations, Integrate(c, o, lines)
      PROVE  IInv'
  BY <1>2, OrderAssumption DEF IInv, Integrate, Begin, Fresh, dbVars, locks,
     Shape, OnOrder, Creating, Unborn, Unannounced, EditorHolds,
     UpdatesUnlinked, AllocatesFitting, ReceiptHolds, AllocationsMatchOrder,
     Receivable, Idle, Phases
<1>3. ASSUME NEW o \in Orders, NEW items \in Drafts, CreateOrder(c, o, items)
      PROVE  IInv'
  <2>1. /\ pc[c] = Idle /\ pc' = [pc EXCEPT ![c] = "saveItems"]
        /\ on' = [on EXCEPT ![c] = o] /\ body' = [body EXCEPT ![c] = items]
        /\ row' = [row EXCEPT ![o] = Draft]
        /\ UNCHANGED <<ordered, alloc, received, orderLock, copy, todo>>
    BY <1>3 DEF CreateOrder, Begin, locks
  <2>2. row[o].status = "none" /\ alloc[o] = NoShares /\ \A d \in Calls : on[d] # o
    BY <1>3 DEF CreateOrder, Fresh, IInv, Unborn
  <2>3. Shape' /\ OnOrder' /\ AllocationsMatchOrder'
    BY <2>1 DEF IInv, Shape, OnOrder, AllocationsMatchOrder, Draft, Absent,
       Idle, Phases
  <2>4. Creating' /\ Unborn' /\ Unannounced'
    BY <2>1, <2>2 DEF IInv, Shape, Creating, Unborn, Unannounced, Draft,
       Absent, Idle
  <2>5. EditorHolds' /\ UpdatesUnlinked' /\ AllocatesFitting' /\ ReceiptHolds'
    BY <2>1, <2>2 DEF IInv, Shape, OnOrder, EditorHolds, UpdatesUnlinked,
       AllocatesFitting, ReceiptHolds, Receivable, Idle
  <2> QED
    BY <2>3, <2>4, <2>5 DEF IInv
<1>4. ASSUME NEW o \in Orders, NEW input, NEW phase \in {"lockUpdate", "lockAllocate"},
             Edit(c, o, phase, input)
      PROVE  IInv'
  <2>1. /\ Named(o) /\ Begin(c, phase, o, input) /\ phase # "select"
        /\ UNCHANGED <<dbVars, locks, copy, todo>>
    BY <1>4 DEF Edit
  <2>2. DOMAIN copy' = Calls /\ \A d \in Calls \ {c} : copy'[d] = copy[d]
    BY <2>1 DEF IInv, Shape
  <2> QED
    BY <2>1, <2>2, ArrivalIInv
<1>5. ASSUME NEW lines \in Receipts, Receive(c, lines)
      PROVE  IInv'
  BY <1>5, OrderAssumption DEF IInv, Receive, Begin, dbVars, locks, Shape,
     OnOrder, Creating, Unborn, Unannounced, EditorHolds, UpdatesUnlinked,
     AllocatesFitting, ReceiptHolds, AllocationsMatchOrder, Receivable, Idle,
     Phases
<1> QED
  BY <1>1, <1>2, <1>3, <1>4, <1>5 DEF Arrive

LEMMA ProceedIInv ==
  ASSUME IInv, NEW c \in Calls, Proceed(c)
  PROVE  IInv'
<1>1. CASE LockRequests(c) \/ CheckAvailable(c)
  BY <1>1, OrderAssumption DEF IInv, LockRequests, CheckAvailable, Advance,
     dbVars, locks, Shape, OnOrder, Creating, Unborn, Unannounced,
     EditorHolds, UpdatesUnlinked, AllocatesFitting, ReceiptHolds,
     AllocationsMatchOrder, Receivable, Idle, Phases
<1>2. CASE SaveIntegrated(c)
  <2> DEFINE o == on[c]
  <2>1. /\ pc[c] = "saveOrder" /\ End(c) /\ o \in Orders
        /\ row' = [row EXCEPT ![o] = Draft]
        /\ ordered' = [ordered EXCEPT ![o] = LineQty(body[c])]
        /\ alloc' = [alloc EXCEPT ![o] = body[c]] /\ received' = received
    BY <1>2 DEF SaveIntegrated, IInv, OnOrder, Idle
  <2>2. row[o].status = "none" /\ \A d \in Calls \ {c} : on[d] # o
    BY <2>1 DEF IInv, Creating
  <2> HIDE DEF o
  <2>3. Shape' /\ OnOrder' /\ AllocationsMatchOrder'
    BY <2>1, EndFacts DEF IInv, Shape, OnOrder, AllocationsMatchOrder, Draft,
       Absent, Idle
  <2>4. Creating' /\ Unborn' /\ Unannounced'
    <3>1. Creating'
      BY <2>1, <2>2, EndFacts, OrderAssumption DEF IInv, Shape, OnOrder,
         Creating, Draft, Absent, Idle
    <3>2. Unborn'
      BY <2>1, <2>2, EndFacts DEF IInv, Shape, Unborn, Draft, Absent, Idle
    <3>3. Unannounced'
      BY <2>1, <2>2, EndFacts, OrderAssumption DEF IInv, Shape, OnOrder,
         Unannounced, Draft, Absent, Idle
    <3> QED
      BY <3>1, <3>2, <3>3
  <2>5. EditorHolds' /\ UpdatesUnlinked' /\ AllocatesFitting' /\ ReceiptHolds'
    BY <2>1, <2>2, EndFacts DEF IInv, Shape, OnOrder, EditorHolds,
       UpdatesUnlinked, AllocatesFitting, ReceiptHolds, Receivable, Idle
  <2> QED
    BY <2>3, <2>4, <2>5 DEF IInv
<1>3. CASE CreateItems(c)
  BY <1>3, EndFacts, OrderAssumption DEF IInv, CreateItems, Shape, OnOrder,
     Creating, Unborn, Unannounced, EditorHolds, UpdatesUnlinked,
     AllocatesFitting, ReceiptHolds, AllocationsMatchOrder, Receivable, Idle
<1>4. CASE LockUpdate(c)
  BY <1>4, OrderAssumption DEF IInv, LockUpdate, LockDraft, Linked, Free,
     Advance, dbVars, Shape, OnOrder, Creating, Unborn, Unannounced,
     EditorHolds, UpdatesUnlinked, AllocatesFitting, ReceiptHolds,
     AllocationsMatchOrder, Receivable, Idle, Phases
<1>5. CASE Update(c)
  BY <1>5, EndFacts, OrderAssumption DEF IInv, Update, Shape, OnOrder,
     Creating, Unborn, Unannounced, EditorHolds, UpdatesUnlinked,
     AllocatesFitting, ReceiptHolds, AllocationsMatchOrder, Receivable, Idle
<1>6. CASE LockAllocate(c)
  BY <1>6, OrderAssumption DEF IInv, LockAllocate, SharesFit, LockDraft, Free,
     Advance, dbVars, Shape, OnOrder, Creating, Unborn, Unannounced,
     EditorHolds, UpdatesUnlinked, AllocatesFitting, ReceiptHolds,
     AllocationsMatchOrder, Receivable, Idle, Phases
<1>7. CASE Allocate(c)
  BY <1>7, EndFacts, OrderAssumption DEF IInv, Allocate, Shape, OnOrder,
     Creating, Unborn, Unannounced, EditorHolds, UpdatesUnlinked,
     AllocatesFitting, ReceiptHolds, AllocationsMatchOrder, Receivable, Idle
<1>8. CASE SaveSelect(c)
  BY <1>8, OrderAssumption DEF IInv, SaveSelect, Advance, dbVars, locks,
     Shape, OnOrder, Creating, Unborn, Unannounced, EditorHolds,
     UpdatesUnlinked, AllocatesFitting, ReceiptHolds, AllocationsMatchOrder,
     Receivable, Idle, Phases
<1>9. CASE SaveUpdate(c)
  BY <1>9, EndFacts, OrderAssumption DEF IInv, SaveUpdate, Absent, Free,
     Shape, OnOrder, Creating, Unborn, Unannounced, EditorHolds,
     UpdatesUnlinked, AllocatesFitting, ReceiptHolds, AllocationsMatchOrder,
     Receivable, Idle
<1>10. CASE LockOrder(c)
  <2>1. PICK o : /\ o = NextOrder(c)
                 /\ Free(o) /\ Receivable(o)
                 /\ orderLock' = [orderLock EXCEPT ![o] = c]
                 /\ todo' = [todo EXCEPT ![c] = @ \ {o}]
                 /\ pc' = [pc EXCEPT ![c] =
                             IF todo'[c] = {} THEN "book" ELSE "lockOrder"]
    BY <1>10 DEF LockOrder
  <2>2. pc[c] = "lockOrder" /\ UNCHANGED <<dbVars, requestLock, on, body, copy>>
    BY <1>10 DEF LockOrder
  <2>3. Shape' /\ OnOrder' /\ AllocationsMatchOrder'
    BY <2>1, <2>2 DEF IInv, Shape, OnOrder, AllocationsMatchOrder, dbVars,
       Idle, Phases
  <2>4. Creating' /\ Unborn' /\ Unannounced'
    BY <2>1, <2>2 DEF IInv, Shape, Creating, Unborn, Unannounced, dbVars
  <2>5. EditorHolds' /\ UpdatesUnlinked' /\ AllocatesFitting'
    BY <2>1, <2>2, OrderAssumption DEF IInv, Shape, OnOrder, EditorHolds,
       UpdatesUnlinked, AllocatesFitting, dbVars, Free, Idle
  <2>6. ReceiptHolds'
    BY <2>1, <2>2, OrderAssumption DEF IInv, Shape, ReceiptHolds, Receivable,
       dbVars, Free
  <2> QED
    BY <2>3, <2>4, <2>5, <2>6 DEF IInv
<1>11. CASE Book(c)
  <2>1. DOMAIN received' = Orders /\ UNCHANGED <<row, ordered, alloc>> /\ End(c)
    BY <1>11 DEF Book
  <2>2. Shape' /\ OnOrder' /\ Creating' /\ Unborn' /\ AllocationsMatchOrder'
    BY <2>1, EndFacts, OrderAssumption DEF IInv, Shape, OnOrder, Creating,
       Unborn, AllocationsMatchOrder, Idle
  <2>3. Unannounced' /\ EditorHolds' /\ UpdatesUnlinked' /\ AllocatesFitting'
    BY <2>1, EndFacts, OrderAssumption DEF IInv, Shape, OnOrder, Unannounced,
       EditorHolds, UpdatesUnlinked, AllocatesFitting, Idle
  <2>4. ReceiptHolds'
    BY <2>1, EndFacts DEF IInv, Shape, ReceiptHolds, Receivable, Idle
  <2> QED
    BY <2>2, <2>3, <2>4 DEF IInv
<1> QED
  BY <1>1, <1>2, <1>3, <1>4, <1>5, <1>6, <1>7, <1>8, <1>9, <1>10, <1>11 DEF
     Proceed

THEOREM Invariance == Spec => []IInv
<1>1. IInv /\ [Next]_vars => IInv'
  <2> SUFFICES ASSUME IInv, [Next]_vars PROVE IInv'
    OBVIOUS
  <2>1. CASE \E c \in Calls : Arrive(c) \/ Proceed(c) \/ Fail(c)
    BY <2>1, ArriveIInv, ProceedIInv, FailIInv
  <2>2. CASE UNCHANGED vars
    BY <2>2 DEF IInv, vars, dbVars, locks, callVars, Shape, OnOrder, Creating,
       Unborn, Unannounced, EditorHolds, UpdatesUnlinked, AllocatesFitting,
       ReceiptHolds, Receivable, AllocationsMatchOrder
  <2> QED
    BY <2>1, <2>2 DEF Next
<1> QED
  BY InitIInv, <1>1, PTL DEF Spec

-----------------------------------------------------------------------------
(***************************************************************************)
(* The theorems.                                                           *)
(***************************************************************************)
\* saveOrderAllocations checks its totals against lines that nobody changes
\* before it commits, and lines with allocations are never replaced.
THEOREM AllocationsAlwaysMatch == Spec => []AllocationsMatchOrder
  BY Invariance, PTL DEF IInv

\* The lines and allocations of a confirmed order don't change: an edit that
\* found a draft has ended before the confirmation takes effect.
ConfirmedIsFrozen ==
  [][\A o \in Orders \ Hasty :
       row[o].status = "S" =>
         ordered'[o] = ordered[o] /\ alloc'[o] = alloc[o]]_vars

\* Steps that write lines or allocations write those of drafts.
LEMMA FrozenStep ==
  ASSUME IInv, [Next]_vars, NEW o \in Orders \ Hasty, row[o].status = "S"
  PROVE  ordered'[o] = ordered[o] /\ alloc'[o] = alloc[o]
<1>1. ASSUME NEW c \in Calls, SaveIntegrated(c) \/ CreateItems(c) \/ Update(c) \/ Allocate(c)
      PROVE  ordered'[o] = ordered[o] /\ alloc'[o] = alloc[o]
  <2>1. on[c] # o
    BY <1>1 DEF IInv, Creating, Unannounced, EditorHolds,
       SaveIntegrated, CreateItems, Update, Allocate
  <2> QED
    BY <1>1, <2>1 DEF IInv, Shape, SaveIntegrated, CreateItems,
       Update, Allocate
<1>2. ASSUME NEW c \in Calls, Arrive(c) \/ Fail(c)
      PROVE  ordered'[o] = ordered[o] /\ alloc'[o] = alloc[o]
  BY <1>2 DEF Arrive, Confirm, Delete, Close, Read, Integrate, CreateOrder,
     Edit, Receive, Fail, dbVars
<1>3. ASSUME NEW c \in Calls, Proceed(c)
      PROVE  ordered'[o] = ordered[o] /\ alloc'[o] = alloc[o]
  BY <1>1, <1>3 DEF Proceed, LockRequests, CheckAvailable, LockUpdate,
     LockAllocate, LockDraft, SaveSelect, SaveUpdate, LockOrder, Book,
     dbVars
<1>4. CASE UNCHANGED vars
  BY <1>4 DEF vars, dbVars
<1> QED
  BY <1>2, <1>3, <1>4 DEF Next

\* What a confirmed order is made of is written no more: whoever edits an order
\* holds it as a draft, and who confirms it waits for the row.
THEOREM ConfirmedStaysFrozen == Spec => ConfirmedIsFrozen
<1>1. IInv /\ [Next]_vars =>
        [\A o \in Orders \ Hasty : row[o].status = "S" =>
           ordered'[o] = ordered[o] /\ alloc'[o] = alloc[o]]_vars
  BY FrozenStep
<1> QED
  BY Invariance, <1>1, PTL DEF Spec, ConfirmedIsFrozen

\* What is received changes when a receipt is booked, on the orders it names.
LEMMA BooksReceived ==
  ASSUME [Next]_vars, NEW o \in Orders, received'[o] # received[o]
  PROVE  \E c \in Calls : Book(c)
<1>1. \A d \in Calls : Arrive(d) \/ Fail(d) => received' = received
  BY DEF Arrive, Confirm, Delete, Close, Read, Integrate, CreateOrder, Edit, Receive,
     Fail, dbVars
<1>2. \A d \in Calls : Proceed(d) /\ ~Book(d) => received' = received
  BY DEF Proceed, LockRequests, CheckAvailable, SaveIntegrated, CreateItems, LockUpdate,
     Update, LockAllocate, Allocate, LockDraft, SaveSelect, SaveUpdate, LockOrder, dbVars
<1>3. UNCHANGED vars => received' = received
  BY DEF vars, dbVars
<1> QED
  BY <1>1, <1>2, <1>3 DEF Next

\* The rows a receipt has checked are held until it is booked.
THEOREM BookingsAreOnOpenOrders == Spec => BookedOnOpenOrder
<1>1. ASSUME IInv, [Next]_vars, NEW o \in Orders, received'[o] # received[o]
      PROVE  Receivable(o)
  <2>1. PICK c \in Calls : Book(c)
    BY <1>1, BooksReceived
  <2>2. pc[c] = "book" /\ o \in OrdersOf(body[c])
    BY <1>1, <2>1 DEF Book
  <2> QED
    BY <1>1, <2>2 DEF IInv, ReceiptHolds
<1>2. IInv /\ [Next]_vars =>
        [\A o \in Orders : received'[o] # received[o] => Receivable(o)]_vars
  BY <1>1
<1> QED
  BY Invariance, <1>2, PTL DEF Spec, BookedOnOpenOrder

-----------------------------------------------------------------------------
(***************************************************************************)
(* Types.  A call carries the body it came with until it ends.             *)
(***************************************************************************)
Bodies ==
  \A c \in Calls :
    /\ pc[c] \in {"lockRequests", "check", "saveOrder"} => body[c] \in Integrations
    /\ pc[c] \in {"saveItems", "lockUpdate", "update"} => body[c] \in Drafts
    /\ pc[c] \in {"lockAllocate", "allocate"} => body[c] \in Reallocations
    /\ pc[c] \in {"lockOrder", "book"} => body[c] \in Receipts

TInv == TypeOK /\ Bodies

LEMMA BodyFacts ==
  /\ Integrations \subseteq Shares /\ Reallocations \subseteq Shares
  /\ Drafts \subseteq Quantities /\ Receipts \subseteq Seq(ReceiptLine)
  /\ <<>> \in Seq(ReceiptLine)
  BY BodyAssumption

LEMMA EntityFacts ==
  /\ Absent \in Entity /\ Draft \in Entity
  /\ \A e \in Entity : /\ [e EXCEPT !.status = "S"] \in Entity
                       /\ [e EXCEPT !.deleted = TRUE] \in Entity
                       /\ [e EXCEPT !.closed = TRUE] \in Entity
  /\ DOMAIN Absent = {"status", "deleted", "closed"}
  BY DEF Absent, Draft, Entity

\* What repository.save leaves of a row is a row.
LEMMA SavedEntity ==
  ASSUME NEW e \in Entity, NEW r \in Entity, NEW F
  PROVE  [f \in DOMAIN Absent |-> IF f \in F THEN e[f] ELSE r[f]] \in Entity
<1>1. /\ e.status \in {"none", "T", "S"} /\ e.deleted \in BOOLEAN /\ e.closed \in BOOLEAN
      /\ r.status \in {"none", "T", "S"} /\ r.deleted \in BOOLEAN /\ r.closed \in BOOLEAN
  BY DEF Entity
<1>2. [f \in DOMAIN Absent |-> IF f \in F THEN e[f] ELSE r[f]] =
      [status  |-> IF "status" \in F THEN e.status ELSE r.status,
       deleted |-> IF "deleted" \in F THEN e.deleted ELSE r.deleted,
       closed  |-> IF "closed" \in F THEN e.closed ELSE r.closed]
  BY EntityFacts
<1> QED
  BY <1>1, <1>2 DEF Entity

\* The quantities of lines, allocations and receipts are natural numbers.
LEMMA LineQtyType ==
  ASSUME NEW shares \in Shares
  PROVE  LineQty(shares) \in Quantities
<1>1. ASSUME NEW m \in Materials
      PROVE  SumFunction([p \in {q \in PrLines : MaterialOf[q] = m} |-> shares[p]]) \in Nat
  <2> DEFINE E == {q \in PrLines : MaterialOf[q] = m}
             f == [p \in E |-> shares[p]]
  <2>1. IsFiniteSet(E)
    BY FiniteAssumption, FS_Subset
  <2>2. DOMAIN f = E /\ \A p \in E : f[p] \in Nat
    BY DEF Shares
  <2> HIDE DEF E, f
  <2>3. SumFunction(f) \in Nat
    BY <2>1, <2>2, SumNat DEF SumFunction
  <2> QED
    BY <2>3 DEF E, f
<1> QED
  BY <1>1 DEF LineQty, Quantities

LEMMA LinesSum ==
  ASSUME NEW lines \in Seq(ReceiptLine), NEW E \in SUBSET (DOMAIN lines)
  PROVE  SumFunction([i \in E |-> lines[i].qty]) \in Nat
<1> DEFINE f == [i \in E |-> lines[i].qty]
<1>1. IsFiniteSet(E)
  <2>1. DOMAIN lines = 1..Len(lines) /\ Len(lines) \in Nat
    OBVIOUS
  <2>2. IsFiniteSet(1..Len(lines))
    BY <2>1, FS_Interval
  <2> QED
    BY <2>1, <2>2, FS_Subset
<1>2. DOMAIN f = E /\ \A i \in E : f[i] \in Nat
  <2>1. \A i \in DOMAIN lines : lines[i] \in ReceiptLine
    OBVIOUS
  <2> QED
    BY <2>1 DEF ReceiptLine
<1> HIDE DEF f
<1>3. SumFunction(f) \in Nat
  BY <1>1, <1>2, SumNat DEF SumFunction
<1> QED
  BY <1>3 DEF f

LEMMA ReceiptQtys ==
  ASSUME NEW lines \in Seq(ReceiptLine), NEW m
  PROVE  LinesQty(lines, m) \in Nat /\ \A o : QtyOf(lines, o, m) \in Nat
<1>1. ASSUME NEW o PROVE QtyOf(lines, o, m) \in Nat
  <2> DEFINE E == {j \in DOMAIN lines : lines[j].order = o /\ lines[j].material = m}
  <2>1. E \in SUBSET (DOMAIN lines)
    OBVIOUS
  <2> HIDE DEF E
  <2>2. SumFunction([i \in E |-> lines[i].qty]) \in Nat
    BY <2>1, LinesSum
  <2> QED
    BY <2>2 DEF QtyOf, E
<1>2. LinesQty(lines, m) \in Nat
  <2> DEFINE E == {j \in DOMAIN lines : lines[j].material = m /\ lines[j].order # NoOrder}
  <2>1. E \in SUBSET (DOMAIN lines)
    OBVIOUS
  <2> HIDE DEF E
  <2>2. SumFunction([i \in E |-> lines[i].qty]) \in Nat
    BY <2>1, LinesSum
  <2> QED
    BY <2>2 DEF LinesQty, E
<1> QED
  BY <1>1, <1>2

LEMMA InitTInv == Init => TInv
<1> SUFFICES ASSUME Init PROVE TInv
  OBVIOUS
<1>1. Nothing \in Quantities /\ NoShares \in Shares
  BY DEF Nothing, NoShares, Quantities, Shares
<1>2. /\ row \in [Orders -> Entity] /\ copy \in [Calls -> Entity]
      /\ ordered \in [Orders -> Quantities] /\ alloc \in [Orders -> Shares]
      /\ counted \in [Orders -> Quantities] /\ received \in [Orders -> Quantities]
  BY <1>1, EntityFacts, BodyAssumption DEF Init, Legacy
<1>3. /\ orderLock \in [Orders -> Calls \union {NoCall}]
      /\ requestLock \in [Requests -> Calls \union {NoCall}]
      /\ pc \in [Calls -> Phases] /\ on \in [Calls -> Orders \union {NoOrder}]
      /\ body \in [Calls -> Quantities \union Shares \union Seq(ReceiptLine)]
      /\ columns \in [Calls -> SUBSET {"status", "deleted", "closed"}]
      /\ todo \in [Calls -> SUBSET Orders]
  BY BodyFacts DEF Init, Phases, Idle
<1>4. Bodies
  BY DEF Init, Bodies, Idle
<1> QED
  BY <1>2, <1>3, <1>4 DEF TInv, TypeOK

\* The end of a call keeps the types of its own state and of the locks.
LEMMA EndTypes ==
  ASSUME TInv, NEW c \in Calls, End(c),
         row' \in [Orders -> Entity], ordered' \in [Orders -> Quantities],
         alloc' \in [Orders -> Shares], counted' \in [Orders -> Quantities],
         received' \in [Orders -> Quantities]
  PROVE  TInv'
<1>1. /\ orderLock' \in [Orders -> Calls \union {NoCall}]
      /\ requestLock' \in [Requests -> Calls \union {NoCall}]
  BY DEF TInv, TypeOK, End
<1>2. /\ pc' \in [Calls -> Phases] /\ on' \in [Calls -> Orders \union {NoOrder}]
      /\ columns' \in [Calls -> SUBSET {"status", "deleted", "closed"}]
      /\ todo' \in [Calls -> SUBSET Orders]
  BY DEF TInv, TypeOK, End, Phases, Idle
<1>3. /\ body' \in [Calls -> Quantities \union Shares \union Seq(ReceiptLine)]
      /\ copy' \in [Calls -> Entity]
  BY BodyFacts, EntityFacts DEF TInv, TypeOK, End
<1>4. Bodies'
  BY DEF TInv, TypeOK, Bodies, End, Idle
<1> QED
  BY <1>1, <1>2, <1>3, <1>4 DEF TInv, TypeOK

\* A call that arrives, and what it leaves alone.
LEMMA BeginTypes ==
  ASSUME TInv, NEW c \in Calls, NEW phase, NEW o \in Orders \union {NoOrder}, NEW input,
         Begin(c, phase, o, input),
         \/ phase = "lockRequests" /\ input \in Integrations
         \/ phase \in {"saveItems", "lockUpdate"} /\ input \in Drafts
         \/ phase = "lockAllocate" /\ input \in Reallocations
         \/ phase = "lockOrder" /\ input \in Receipts
         \/ phase = "select" /\ input = <<>>,
         row' \in [Orders -> Entity], copy' \in [Calls -> Entity],
         todo' \in [Calls -> SUBSET Orders],
         UNCHANGED <<ordered, alloc, counted, received, locks, columns>>
  PROVE  TInv'
<1>1. input \in Quantities \union Shares \union Seq(ReceiptLine)
  BY BodyFacts
<1>2. /\ pc' \in [Calls -> Phases] /\ on' \in [Calls -> Orders \union {NoOrder}]
      /\ body' \in [Calls -> Quantities \union Shares \union Seq(ReceiptLine)]
  BY <1>1 DEF TInv, TypeOK, Begin, Phases
<1>3. Bodies'
  BY DEF TInv, TypeOK, Bodies, Begin
<1> QED
  BY <1>2, <1>3 DEF TInv, TypeOK, locks

\* A call that goes on, its body as it was.
LEMMA AdvanceTypes ==
  ASSUME TInv, NEW c \in Calls, NEW from, NEW to,
         pc[c] = from, pc' = [pc EXCEPT ![c] = to],
         <<from, to>> \in {<<"lockRequests", "check">>, <<"check", "saveOrder">>,
           <<"lockUpdate", "update">>, <<"lockAllocate", "allocate">>,
           <<"select", "save">>, <<"lockOrder", "lockOrder">>, <<"lockOrder", "book">>},
         orderLock' \in [Orders -> Calls \union {NoCall}],
         requestLock' \in [Requests -> Calls \union {NoCall}],
         columns' \in [Calls -> SUBSET {"status", "deleted", "closed"}],
         todo' \in [Calls -> SUBSET Orders],
         UNCHANGED <<dbVars, on, body, copy>>
  PROVE  TInv'
<1>1. pc' \in [Calls -> Phases]
  BY DEF TInv, TypeOK, Phases
<1>2. Bodies'
  BY DEF TInv, TypeOK, Bodies
<1> QED
  BY <1>1, <1>2 DEF TInv, TypeOK, dbVars

LEMMA ArriveTInv ==
  ASSUME TInv, NEW c \in Calls, Arrive(c)
  PROVE  TInv'
<1> USE DEF locks, dbVars
<1>1. ASSUME NEW o \in Orders, Confirm(c, o) \/ Delete(c, o) \/ Close(c, o)
      PROVE  TInv'
  <2>1. PICK e \in Entity : Read(c, o, e)
    <3>1. row[o] \in Entity
      BY DEF TInv, TypeOK
    <3> QED
      BY <1>1, <3>1, EntityFacts DEF Confirm, Delete, Close
  <2>2. copy' \in [Calls -> Entity]
    BY <2>1 DEF Read, TInv, TypeOK
  <2>3. row' \in [Orders -> Entity] /\ todo' \in [Calls -> SUBSET Orders]
    BY <2>1 DEF Read, TInv, TypeOK
  <2> QED
    BY <2>1, <2>2, <2>3, BeginTypes DEF Read
<1>2. ASSUME NEW o \in Orders, NEW lines \in Integrations, Integrate(c, o, lines)
      PROVE  TInv'
  BY <1>2, BeginTypes DEF Integrate, TInv, TypeOK
<1>3. ASSUME NEW o \in Orders, NEW items \in Drafts, CreateOrder(c, o, items)
      PROVE  TInv'
  <2>1. row' \in [Orders -> Entity]
    BY <1>3, EntityFacts DEF CreateOrder, TInv, TypeOK
  <2> QED
    BY <1>3, <2>1, BeginTypes DEF CreateOrder, TInv, TypeOK
<1>4. ASSUME NEW o \in Orders, NEW items \in Drafts, Edit(c, o, "lockUpdate", items)
      PROVE  TInv'
  BY <1>4, BeginTypes DEF Edit, TInv, TypeOK
<1>5. ASSUME NEW o \in Orders, NEW shares \in Reallocations, Edit(c, o, "lockAllocate", shares)
      PROVE  TInv'
  BY <1>5, BeginTypes DEF Edit, TInv, TypeOK
<1>6. ASSUME NEW lines \in Receipts, Receive(c, lines)
      PROVE  TInv'
  <2>1. OrdersOf(lines) \in SUBSET Orders
    <3>1. lines \in Seq(ReceiptLine)
      BY BodyFacts
    <3>2. \A i \in DOMAIN lines : lines[i] \in ReceiptLine
      BY <3>1
    <3> QED
      BY <3>2 DEF OrdersOf, ReceiptLine
  <2>2. todo' \in [Calls -> SUBSET Orders]
    BY <1>6, <2>1 DEF Receive, TInv, TypeOK
  <2> QED
    BY <1>6, <2>2, BeginTypes DEF Receive, TInv, TypeOK
<1> QED
  BY <1>1, <1>2, <1>3, <1>4, <1>5, <1>6 DEF Arrive

LEMMA ProceedTInv ==
  ASSUME TInv, NEW c \in Calls, Proceed(c)
  PROVE  TInv'
<1> USE DEF locks, dbVars
<1>1. CASE LockRequests(c) \/ CheckAvailable(c)
  <2>1. requestLock' \in [Requests -> Calls \union {NoCall}]
    BY <1>1 DEF LockRequests, CheckAvailable, TInv, TypeOK
  <2> QED
    BY <1>1, <2>1, AdvanceTypes DEF LockRequests, CheckAvailable, Advance, TInv, TypeOK
<1>2. CASE SaveIntegrated(c)
  <2>1. body[c] \in Shares
    BY <1>2, BodyFacts DEF SaveIntegrated, TInv, Bodies
  <2>2. /\ row' \in [Orders -> Entity] /\ alloc' \in [Orders -> Shares]
        /\ ordered' \in [Orders -> Quantities]
    BY <1>2, <2>1, EntityFacts, LineQtyType DEF SaveIntegrated, TInv, TypeOK
  <2> QED
    BY <1>2, <2>2, EndTypes DEF SaveIntegrated, TInv, TypeOK
<1>3. CASE CreateItems(c)
  <2>1. body[c] \in Quantities /\ ordered \in [Orders -> Quantities]
    BY <1>3, BodyFacts DEF CreateItems, TInv, TypeOK, Bodies
  <2>2. on[c] \in Orders => [m \in Materials |->
          IF body[c][m] > 0 THEN body[c][m] ELSE ordered[on[c]][m]] \in Quantities
    BY <2>1 DEF Quantities
  <2>3. ordered' \in [Orders -> Quantities]
    BY <1>3, <2>1, <2>2 DEF CreateItems
  <2> QED
    BY <1>3, <2>3, EndTypes DEF CreateItems, TInv, TypeOK
<1>4. CASE LockUpdate(c) \/ LockAllocate(c)
  <2>1. /\ orderLock' \in [Orders -> Calls \union {NoCall}]
        /\ UNCHANGED <<dbVars, requestLock, on, body, copy, columns, todo>>
    BY <1>4 DEF LockUpdate, LockAllocate, LockDraft, TInv, TypeOK
  <2> QED
    BY <1>4, <2>1, AdvanceTypes DEF LockUpdate, LockAllocate, Advance, TInv, TypeOK
<1>5. CASE Update(c)
  <2>1. body[c] \in Quantities
    BY <1>5, BodyFacts DEF Update, TInv, Bodies
  <2>2. ordered' \in [Orders -> Quantities]
    BY <1>5, <2>1 DEF Update, TInv, TypeOK
  <2> QED
    BY <1>5, <2>2, EndTypes DEF Update, TInv, TypeOK
<1>6. CASE Allocate(c)
  <2>1. body[c] \in Shares
    BY <1>6, BodyFacts DEF Allocate, TInv, Bodies
  <2>2. alloc' \in [Orders -> Shares]
    BY <1>6, <2>1 DEF Allocate, TInv, TypeOK
  <2> QED
    BY <1>6, <2>2, EndTypes DEF Allocate, TInv, TypeOK
<1>7. CASE SaveSelect(c)
  <2>1. columns' \in [Calls -> SUBSET {"status", "deleted", "closed"}]
    BY <1>7, EntityFacts DEF SaveSelect, TInv, TypeOK
  <2> QED
    BY <1>7, <2>1, AdvanceTypes DEF SaveSelect, Advance, TInv, TypeOK
<1>8. CASE SaveUpdate(c)
  <2>1. on[c] \in Orders => [f \in DOMAIN Absent |->
          IF f \in columns[c] THEN copy[c][f] ELSE row[on[c]][f]] \in Entity
    <3>1. copy[c] \in Entity /\ (on[c] \in Orders => row[on[c]] \in Entity)
      BY DEF TInv, TypeOK
    <3> QED
      BY <3>1, SavedEntity
  <2>2. row' \in [Orders -> Entity]
    BY <1>8, <2>1 DEF SaveUpdate, TInv, TypeOK
  <2> QED
    BY <1>8, <2>2, EndTypes DEF SaveUpdate, TInv, TypeOK
<1>9. CASE LockOrder(c)
  <2>1. PICK o : /\ orderLock' = [orderLock EXCEPT ![o] = c]
                 /\ todo' = [todo EXCEPT ![c] = @ \ {o}]
                 /\ pc' = [pc EXCEPT ![c] =
                             IF todo'[c] = {} THEN "book" ELSE "lockOrder"]
    BY <1>9 DEF LockOrder
  <2>2. /\ orderLock' \in [Orders -> Calls \union {NoCall}]
        /\ todo' \in [Calls -> SUBSET Orders]
    BY <2>1 DEF TInv, TypeOK
  <2>3. pc[c] = "lockOrder" /\ UNCHANGED <<dbVars, requestLock, on, body, copy, columns>>
    BY <1>9 DEF LockOrder
  <2>4. /\ requestLock' \in [Requests -> Calls \union {NoCall}]
        /\ columns' \in [Calls -> SUBSET {"status", "deleted", "closed"}]
    BY <2>3 DEF TInv, TypeOK
  <2>5. CASE todo'[c] = {}
    BY <2>1, <2>2, <2>3, <2>4, <2>5, AdvanceTypes
  <2>6. CASE todo'[c] # {}
    BY <2>1, <2>2, <2>3, <2>4, <2>6, AdvanceTypes
  <2> QED
    BY <2>5, <2>6
<1>10. CASE Book(c)
  <2>1. body[c] \in Seq(ReceiptLine)
    BY <1>10, BodyFacts DEF Book, TInv, Bodies
  <2>2. \A o \in Orders : received[o] \in Quantities /\ counted[o] \in Quantities
    BY DEF TInv, TypeOK
  <2>3. \A o \in Orders, m \in Materials :
          /\ received[o][m] + QtyOf(body[c], o, m) \in Nat
          /\ counted[o][m] + LinesQty(body[c], m) \in Nat
    <3> TAKE o \in Orders, m \in Materials
    <3>1. QtyOf(body[c], o, m) \in Nat /\ LinesQty(body[c], m) \in Nat
      BY <2>1, ReceiptQtys
    <3>2. received[o][m] \in Nat /\ counted[o][m] \in Nat
      BY <2>2 DEF Quantities
    <3> QED
      BY <3>1, <3>2
  <2>4. received' \in [Orders -> Quantities]
    <3>1. \A o \in Orders :
            [m \in Materials |-> received[o][m] + QtyOf(body[c], o, m)] \in Quantities
      BY <2>3 DEF Quantities
    <3> QED
      BY <1>10, <2>2, <3>1 DEF Book
  <2>5. counted' \in [Orders -> Quantities]
    <3>1. \A o \in Orders : \A m \in Materials :
            (IF o = HeaderOrder(body[c])
               THEN counted[o][m] + LinesQty(body[c], m) ELSE counted[o][m]) \in Nat
      BY <2>2, <2>3 DEF Quantities
    <3>2. \A o \in Orders : [m \in Materials |->
            IF o = HeaderOrder(body[c])
              THEN counted[o][m] + LinesQty(body[c], m) ELSE counted[o][m]] \in Quantities
      BY <3>1 DEF Quantities
    <3> QED
      BY <1>10, <3>2 DEF Book
  <2> QED
    BY <1>10, <2>4, <2>5, EndTypes DEF Book, TInv, TypeOK
<1> QED
  BY <1>1, <1>2, <1>3, <1>4, <1>5, <1>6, <1>7, <1>8, <1>9, <1>10 DEF Proceed

LEMMA TypesStay == TInv /\ [Next]_vars => TInv'
<1> SUFFICES ASSUME TInv, [Next]_vars PROVE TInv'
  OBVIOUS
<1>1. ASSUME NEW c \in Calls, Fail(c) PROVE TInv'
  BY <1>1, EndTypes DEF Fail, dbVars, TInv, TypeOK
<1>2. CASE UNCHANGED vars
  BY <1>2 DEF TInv, TypeOK, Bodies, vars, dbVars, locks, callVars
<1> QED
  BY <1>1, <1>2, ArriveTInv, ProceedTInv DEF Next

LEMMA Typed == Spec => []TInv
  BY InitTInv, TypesStay, PTL DEF Spec

\* The state stays of its type: no order, item or allocation is saved with a
\* quantity that is not a number of units, whatever sums lead to it.
THEOREM TypeCorrect == Spec => []TypeOK
  BY Typed, PTL DEF TInv

-----------------------------------------------------------------------------
(***************************************************************************)
(* createIntegratedOrder allocates within the request.                     *)
(***************************************************************************)
\* From its check on, the call holds the purchase requests it draws on.
RequestsHeld ==
  \A c \in Calls : pc[c] \in {"check", "saveOrder"} =>
    \A p \in PrLines : body[c][p] > 0 => requestLock[RequestOf[p]] = c

\* What it found available still is when it saves.
StillAvailable ==
  \A c \in Calls : pc[c] = "saveOrder" =>
    \A p \in PrLines \ Reassigned :
      body[c][p] > 0 => AllocatedQty(p) + body[c][p] <= RequestedQty[p]

RInv == RequestsHeld /\ StillAvailable /\ IntegratedWithinRequest

LEMMA AllocatedType ==
  ASSUME NEW table \in [Orders -> Shares], NEW p \in PrLines
  PROVE  SumFunction([o \in Orders |-> table[o][p]]) \in Nat
<1> DEFINE f == [o \in Orders |-> table[o][p]]
<1>1. DOMAIN f = Orders /\ \A o \in Orders : f[o] \in Nat
  BY DEF Shares
<1> HIDE DEF f
<1>2. SumFunction(f) \in Nat
  BY <1>1, SumNat, FiniteAssumption DEF SumFunction
<1> QED
  BY <1>2 DEF f

\* The allocations of one order are replaced.
LEMMA AllocatedChange ==
  ASSUME TInv, TInv', NEW o \in Orders, NEW shares \in Shares,
         alloc' = [alloc EXCEPT ![o] = shares], NEW p \in PrLines
  PROVE  AllocatedQty(p)' = AllocatedQty(p) - alloc[o][p] + shares[p]
<1> DEFINE f == [q \in Orders |-> alloc[q][p]]
           h == [q \in Orders |-> alloc'[q][p]]
<1>1. /\ DOMAIN f = Orders /\ DOMAIN h = Orders
      /\ \A q \in Orders : f[q] \in Nat /\ h[q] \in Nat
  BY DEF TInv, TypeOK, Shares
<1>2. /\ f[o] = alloc[o][p] /\ h[o] = shares[p]
      /\ \A q \in Orders \ {o} : h[q] = f[q]
  BY DEF TInv, TypeOK
<1>3. SumFunction(f) = AllocatedQty(p) /\ SumFunction(h) = AllocatedQty(p)'
  BY DEF AllocatedQty
<1> HIDE DEF f, h
<1>4. \A q \in Orders : f[q] \in Int /\ h[q] \in Int
  BY <1>1
<1>5. SumFunction(h) = SumFunction(f) - f[o] + h[o]
  BY <1>1, <1>2, <1>4, SumChange, FiniteAssumption DEF SumFunction
<1> QED
  BY <1>2, <1>3, <1>5

LEMMA InitRInv == Init => RInv
<1> SUFFICES ASSUME Init PROVE RInv
  OBVIOUS
<1>1. ASSUME NEW p \in PrLines PROVE AllocatedQty(p) = 0
  <2> DEFINE f == [o \in Orders |-> alloc[o][p]]
  <2>1. DOMAIN f = Orders /\ \A o \in Orders : f[o] = 0
    BY DEF Init, NoShares
  <2> HIDE DEF f
  <2>2. SumFunction(f) = 0
    BY <2>1, SumZero, FiniteAssumption DEF SumFunction
  <2> QED
    BY <2>2 DEF AllocatedQty, f
<1>2. IntegratedWithinRequest
  BY <1>1, RequestAssumption DEF IntegratedWithinRequest, Shares
<1> QED
  BY <1>2 DEF RInv, RequestsHeld, StillAvailable, Init, Idle

\* A step that allocates no more than before of the lines that are only
\* integrated, and takes no call into its check or its saving.
LEMMA AllocatesLess ==
  ASSUME TInv, TInv', RInv, NEW c \in Calls,
         \A p \in PrLines \ Reassigned : AllocatedQty(p)' <= AllocatedQty(p),
         pc'[c] \notin {"check", "saveOrder"},
         \A d \in Calls \ {c} : pc'[d] = pc[d] /\ body'[d] = body[d],
         \A r \in Requests, d \in Calls \ {c} : requestLock[r] = d => requestLock'[r] = d
  PROVE  RInv'
<1>1. \A p \in PrLines \ Reassigned :
        AllocatedQty(p) \in Nat /\ AllocatedQty(p)' \in Nat /\ RequestedQty[p] \in Nat
  <2>1. \A p \in PrLines : AllocatedQty(p) \in Nat
    BY AllocatedType DEF AllocatedQty, TInv, TypeOK
  <2>2. \A p \in PrLines : AllocatedQty(p)' \in Nat
    BY AllocatedType DEF AllocatedQty, TInv, TypeOK
  <2> QED
    BY <2>1, <2>2, RequestAssumption DEF Shares
<1>2. RequestsHeld'
  BY RequestAssumption DEF RInv, RequestsHeld
<1>3. StillAvailable'
  <2> SUFFICES ASSUME NEW d \in Calls, pc'[d] = "saveOrder",
                      NEW p \in PrLines \ Reassigned, body'[d][p] > 0
               PROVE  AllocatedQty(p)' + body'[d][p] <= RequestedQty[p]
    BY DEF StillAvailable
  <2>1. pc[d] = "saveOrder" /\ body'[d] = body[d]
    OBVIOUS
  <2>2. body[d][p] \in Nat
    BY <2>1, BodyFacts DEF TInv, Bodies, Shares
  <2>3. AllocatedQty(p) + body[d][p] <= RequestedQty[p]
    BY <2>1 DEF RInv, StillAvailable
  <2> QED
    BY <1>1, <2>1, <2>2, <2>3
<1>4. IntegratedWithinRequest'
  BY <1>1 DEF RInv, IntegratedWithinRequest
<1> QED
  BY <1>2, <1>3, <1>4 DEF RInv

LEMMA StepRInv ==
  ASSUME IInv, TInv, TInv', RInv, NEW c \in Calls, Arrive(c) \/ Proceed(c) \/ Fail(c)
  PROVE  RInv'
<1>1. CASE LockRequests(c)
  <2>1. RequestsHeld'
    <3>1. \A r \in Requests : requestLock[r] \in Calls => requestLock'[r] = requestLock[r]
      BY <1>1, OrderAssumption DEF LockRequests, RequestsOf
    <3>2. \A p \in PrLines : body[c][p] > 0 => requestLock'[RequestOf[p]] = c
      BY <1>1, RequestAssumption DEF LockRequests, RequestsOf
    <3> QED
      BY <1>1, <3>1, <3>2, RequestAssumption DEF RInv, RequestsHeld, LockRequests,
         Advance, TInv, TypeOK
  <2>2. \A p \in PrLines : AllocatedQty(p)' = AllocatedQty(p)
    BY <1>1 DEF LockRequests, dbVars, AllocatedQty
  <2> QED
    BY <1>1, <2>1, <2>2 DEF RInv, StillAvailable, IntegratedWithinRequest,
       LockRequests, Advance, TInv, TypeOK
<1>2. CASE CheckAvailable(c)
  <2>1. \A p \in PrLines : AllocatedQty(p)' = AllocatedQty(p)
    BY <1>2 DEF CheckAvailable, dbVars, AllocatedQty
  <2> QED
    BY <1>2, <2>1 DEF RInv, RequestsHeld, StillAvailable, IntegratedWithinRequest,
       CheckAvailable, Advance, TInv, TypeOK, locks
<1>3. CASE SaveIntegrated(c)
  <2>1. /\ on[c] \in Orders /\ body[c] \in Shares /\ alloc[on[c]] = NoShares
        /\ alloc' = [alloc EXCEPT ![on[c]] = body[c]]
    BY <1>3, BodyFacts DEF SaveIntegrated, TInv, Bodies, IInv, OnOrder, Creating,
       Unborn, Idle
  <2>2. \A p \in PrLines : AllocatedQty(p)' = AllocatedQty(p) - alloc[on[c]][p] + body[c][p]
    BY <2>1, AllocatedChange
  <2>3. \A p \in PrLines : /\ AllocatedQty(p) \in Nat /\ body[c][p] \in Nat
                           /\ AllocatedQty(p)' = AllocatedQty(p) + body[c][p]
    <3> TAKE p \in PrLines
    <3>1. AllocatedQty(p) \in Nat
      BY AllocatedType DEF AllocatedQty, TInv, TypeOK
    <3>2. body[c][p] \in Nat /\ alloc[on[c]][p] = 0
      BY <2>1 DEF Shares, NoShares
    <3> QED
      BY <2>2, <3>1, <3>2
  <2>4. /\ pc'[c] = Idle
        /\ \A d \in Calls \ {c} : pc'[d] = pc[d] /\ body'[d] = body[d]
        /\ \A r \in Requests, d \in Calls \ {c} : requestLock[r] = d => requestLock'[r] = d
    BY <1>3 DEF SaveIntegrated, End, TInv, TypeOK
  <2>5. RequestsHeld'
    BY <2>4, RequestAssumption DEF RInv, RequestsHeld, Idle
  <2>6. IntegratedWithinRequest'
    <3> SUFFICES ASSUME NEW p \in PrLines \ Reassigned
                 PROVE  AllocatedQty(p)' <= RequestedQty[p]
      BY DEF IntegratedWithinRequest
    <3>1. CASE body[c][p] > 0
      BY <1>3, <2>3, <3>1 DEF RInv, StillAvailable, SaveIntegrated
    <3>2. CASE ~(body[c][p] > 0)
      <4>1. AllocatedQty(p)' = AllocatedQty(p)
        BY <2>3, <3>2
      <4> QED
        BY <4>1 DEF RInv, IntegratedWithinRequest
    <3> QED
      BY <3>1, <3>2
  <2>7. StillAvailable'
    <3> SUFFICES ASSUME NEW d \in Calls, pc'[d] = "saveOrder",
                        NEW p \in PrLines \ Reassigned, body'[d][p] > 0
                 PROVE  AllocatedQty(p)' + body'[d][p] <= RequestedQty[p]
      BY DEF StillAvailable
    <3>1. d # c /\ pc[d] = "saveOrder" /\ body'[d] = body[d]
      BY <2>4 DEF Idle
    <3>2. requestLock[RequestOf[p]] = d
      BY <3>1 DEF RInv, RequestsHeld
    <3>3. ~(body[c][p] > 0)
      BY <1>3, <3>1, <3>2 DEF RInv, RequestsHeld, SaveIntegrated
    <3>4. AllocatedQty(p)' = AllocatedQty(p)
      BY <2>3, <3>3
    <3> QED
      BY <3>1, <3>4 DEF RInv, StillAvailable
  <2> QED
    BY <2>5, <2>6, <2>7 DEF RInv
<1>4. CASE Allocate(c)
  <2>1. body[c] \in Reallocations /\ body[c] \in Shares /\ on[c] \in Orders
    BY <1>4, BodyFacts DEF Allocate, TInv, Bodies, IInv, OnOrder, Idle
  <2>2. \A p \in PrLines : AllocatedQty(p)' = AllocatedQty(p) - alloc[on[c]][p] + body[c][p]
    BY <1>4, <2>1, AllocatedChange DEF Allocate
  <2>3. \A p \in PrLines \ Reassigned : AllocatedQty(p)' <= AllocatedQty(p)
    <3> TAKE p \in PrLines \ Reassigned
    <3>1. AllocatedQty(p) \in Nat
      BY AllocatedType DEF AllocatedQty, TInv, TypeOK
    <3>2. alloc[on[c]][p] \in Nat /\ body[c][p] \in Nat
      BY <2>1 DEF TInv, TypeOK, Shares
    <3>3. ~(body[c][p] > 0)
      BY <2>1 DEF Reassigned
    <3> QED
      BY <2>2, <3>1, <3>2, <3>3
  <2>4. /\ pc'[c] = Idle
        /\ \A d \in Calls \ {c} : pc'[d] = pc[d] /\ body'[d] = body[d]
        /\ \A r \in Requests, d \in Calls \ {c} : requestLock[r] = d => requestLock'[r] = d
    BY <1>4 DEF Allocate, End, TInv, TypeOK
  <2> QED
    BY <2>3, <2>4, AllocatesLess DEF Idle
<1>5. CASE Arrive(c)
  <2>1. /\ alloc' = alloc /\ requestLock' = requestLock
        /\ \E phase \in {"lockRequests", "saveItems", "lockUpdate", "lockAllocate",
                         "select", "lockOrder"} :
             \E o, input : Begin(c, phase, o, input)
    BY <1>5 DEF Arrive, Confirm, Delete, Close, Read, Integrate, CreateOrder, Edit,
       Receive, dbVars, locks
  <2>2. /\ pc'[c] \notin {"check", "saveOrder"}
        /\ \A d \in Calls \ {c} : pc'[d] = pc[d] /\ body'[d] = body[d]
    BY <2>1 DEF Begin, TInv, TypeOK
  <2>3. \A p \in PrLines : AllocatedQty(p) \in Nat /\ AllocatedQty(p)' = AllocatedQty(p)
    BY <2>1, AllocatedType DEF AllocatedQty, TInv, TypeOK
  <2> QED
    BY <2>1, <2>2, <2>3, AllocatesLess
<1>6. CASE \/ CreateItems(c) \/ LockUpdate(c) \/ Update(c) \/ LockAllocate(c)
           \/ SaveSelect(c) \/ SaveUpdate(c) \/ LockOrder(c) \/ Book(c) \/ Fail(c)
  <2>1. alloc' = alloc
    BY <1>6 DEF CreateItems, LockUpdate, Update, LockAllocate, LockDraft, SaveSelect,
       SaveUpdate, LockOrder, Book, Fail, dbVars
  <2>2. /\ pc'[c] \notin {"check", "saveOrder"}
        /\ \A d \in Calls \ {c} : pc'[d] = pc[d] /\ body'[d] = body[d]
    BY <1>6 DEF CreateItems, LockUpdate, Update, LockAllocate, LockDraft, SaveSelect,
       SaveUpdate, LockOrder, Book, Fail, End, Advance, Idle, TInv, TypeOK
  <2>3. \A r \in Requests, d \in Calls \ {c} : requestLock[r] = d => requestLock'[r] = d
    BY <1>6 DEF CreateItems, LockUpdate, Update, LockAllocate, LockDraft, SaveSelect,
       SaveUpdate, LockOrder, Book, Fail, End, locks
  <2>4. \A p \in PrLines : AllocatedQty(p) \in Nat /\ AllocatedQty(p)' = AllocatedQty(p)
    BY <2>1, AllocatedType DEF AllocatedQty, TInv, TypeOK
  <2> QED
    BY <2>2, <2>3, <2>4, AllocatesLess
<1> QED
  BY <1>1, <1>2, <1>3, <1>4, <1>5, <1>6 DEF Proceed

\* Two calls of createIntegratedOrder never share what a request has left:
\* each holds the request from its check to its saving, and the allocations
\* saved by others in between only take lines the property leaves out.
LEMMA RInvariance == Spec => []RInv
<1>1. IInv /\ TInv /\ TInv' /\ RInv /\ [Next]_vars => RInv'
  <2>1. ASSUME RInv, UNCHANGED vars PROVE RInv'
    BY <2>1 DEF RInv, RequestsHeld, StillAvailable, IntegratedWithinRequest,
       AllocatedQty, vars, dbVars, locks, callVars
  <2> QED
    BY <2>1, StepRInv DEF Next
<1> QED
  BY Invariance, Typed, InitRInv, <1>1, PTL DEF Spec

THEOREM IntegratedAlwaysWithinRequest == Spec => []IntegratedWithinRequest
  BY RInvariance, PTL DEF RInv

-----------------------------------------------------------------------------
(***************************************************************************)
(* Receipts that name one order each fit it.                               *)
(***************************************************************************)
\* The orders a receipt has checked have still room for it.
Checked ==
  \A c \in Calls : pc[c] \in {"lockOrder", "book"} =>
    \A o \in OrdersOf(body[c]) \ todo[c] : o \in Orders \ Hasty => Fits(body[c], o)

\* What the check counts is what has been received, when no document goes
\* by the order of another item.
CountedIsReceived == \A o \in Orders \ Mixed : counted[o] = received[o]

FInv == Checked /\ CountedIsReceived

LEMMA InitFInv == Init => FInv
  BY DEF Init, FInv, Checked, CountedIsReceived, Idle

\* A document that names one order has it in its header.
LEMMA OneOrder ==
  ASSUME NEW lines \in Receipts, NEW o \in Orders \ Mixed
  PROVE  /\ o \in OrdersOf(lines) =>
              HeaderOrder(lines) = o /\ \A m : LinesQty(lines, m) = QtyOf(lines, o, m)
         /\ HeaderOrder(lines) = o => o \in OrdersOf(lines)
<1>1. lines \in Seq(ReceiptLine) /\ lines # <<>>
  BY BodyAssumption
<1>2. 1 \in DOMAIN lines
  BY <1>1
<1>3. ASSUME o \in OrdersOf(lines)
      PROVE  HeaderOrder(lines) = o /\ \A m : LinesQty(lines, m) = QtyOf(lines, o, m)
  <2>1. \A i \in DOMAIN lines : lines[i].order = HeaderOrder(lines)
    BY <1>3 DEF Mixed
  <2>2. PICK i \in DOMAIN lines : lines[i].order = o
    BY <1>3 DEF OrdersOf
  <2>3. HeaderOrder(lines) = o
    BY <2>1, <2>2
  <2>4. ASSUME NEW m PROVE LinesQty(lines, m) = QtyOf(lines, o, m)
    <3>1. {j \in DOMAIN lines : lines[j].material = m /\ lines[j].order # NoOrder} =
          {j \in DOMAIN lines : lines[j].order = o /\ lines[j].material = m}
      BY <2>1, <2>3, OrderAssumption
    <3> QED
      BY <3>1 DEF LinesQty, QtyOf
  <2> QED
    BY <2>3, <2>4
<1>4. HeaderOrder(lines) = o => o \in OrdersOf(lines)
  BY <1>2, OrderAssumption DEF HeaderOrder, OrdersOf
<1> QED
  BY <1>3, <1>4

\* A step that books nothing keeps what the receipts have checked.
LEMMA KeepsChecked ==
  ASSUME IInv, FInv, [Next]_vars, NEW c \in Calls,
         counted' = counted, received' = received,
         \A d \in Calls \ {c} : pc'[d] = pc[d] /\ body'[d] = body[d] /\ todo'[d] = todo[d],
         pc'[c] \in {"lockOrder", "book"} => todo'[c] = OrdersOf(body'[c])
  PROVE  FInv'
<1>1. Checked'
  <2> SUFFICES ASSUME NEW d \in Calls, pc'[d] \in {"lockOrder", "book"},
                      NEW o \in OrdersOf(body'[d]) \ todo'[d], o \in Orders \ Hasty
               PROVE  \A m \in Materials : QtyOf(body'[d], o, m) > 0 =>
                        counted'[o][m] + QtyOf(body'[d], o, m) <= ordered'[o][m]
    BY DEF Checked, Fits
  <2>1. d # c /\ pc[d] \in {"lockOrder", "book"} /\ o \in OrdersOf(body[d]) \ todo[d]
    OBVIOUS
  <2>2. Fits(body[d], o) /\ row[o].status = "S"
    BY <2>1 DEF FInv, Checked, IInv, ReceiptHolds, Receivable
  <2>3. ordered'[o] = ordered[o]
    BY <2>2, FrozenStep
  <2> QED
    BY <2>1, <2>2, <2>3 DEF Fits
<1>2. CountedIsReceived'
  BY DEF FInv, CountedIsReceived
<1> QED
  BY <1>1, <1>2 DEF FInv

LEMMA StepFInv ==
  ASSUME IInv, TInv, FInv, NEW c \in Calls, Arrive(c) \/ Proceed(c) \/ Fail(c)
  PROVE  FInv'
<1>0. [Next]_vars
  BY DEF Next
<1>1. CASE Arrive(c)
  <2>1. /\ counted' = counted /\ received' = received
        /\ \/ Receive(c, body'[c])
           \/ \E phase \in {"lockRequests", "saveItems", "lockUpdate", "lockAllocate", "select"} :
                todo' = todo /\ \E o, input : Begin(c, phase, o, input)
    <3>1. ASSUME NEW lines, Receive(c, lines) PROVE body'[c] = lines
      BY <3>1 DEF Receive, Begin, TInv, TypeOK
    <3> QED
      BY <1>1, <3>1 DEF Arrive, Confirm, Delete, Close, Read, Integrate, CreateOrder, Edit,
         Receive, dbVars, locks
  <2>2. CASE Receive(c, body'[c])
    <3>1. /\ \A d \in Calls \ {c} : pc'[d] = pc[d] /\ body'[d] = body[d] /\ todo'[d] = todo[d]
          /\ todo'[c] = OrdersOf(body'[c])
      BY <2>2 DEF Receive, Begin, TInv, TypeOK
    <3> QED
      BY <1>0, <2>1, <3>1, KeepsChecked
  <2>3. CASE \E phase \in {"lockRequests", "saveItems", "lockUpdate", "lockAllocate", "select"} :
               todo' = todo /\ \E o, input : Begin(c, phase, o, input)
    <3>1. /\ \A d \in Calls \ {c} : pc'[d] = pc[d] /\ body'[d] = body[d] /\ todo'[d] = todo[d]
          /\ pc'[c] \notin {"lockOrder", "book"}
      BY <2>3 DEF Begin, TInv, TypeOK
    <3> QED
      BY <1>0, <2>1, <3>1, KeepsChecked
  <2> QED
    BY <2>1, <2>2, <2>3
<1>2. CASE \/ SaveIntegrated(c) \/ CreateItems(c) \/ Update(c) \/ Allocate(c) \/ SaveUpdate(c)
           \/ Fail(c)
  <2>1. End(c) /\ counted' = counted /\ received' = received
    BY <1>2 DEF SaveIntegrated, CreateItems, Update, Allocate, SaveUpdate, Fail, dbVars
  <2>2. /\ \A d \in Calls \ {c} : pc'[d] = pc[d] /\ body'[d] = body[d] /\ todo'[d] = todo[d]
        /\ pc'[c] = Idle
    BY <2>1 DEF End, TInv, TypeOK
  <2> QED
    BY <1>0, <2>1, <2>2, KeepsChecked DEF Idle
<1>3. CASE LockRequests(c) \/ CheckAvailable(c) \/ LockUpdate(c) \/ LockAllocate(c) \/ SaveSelect(c)
  <2>1. /\ UNCHANGED <<dbVars, body, todo>>
        /\ \E to \in {"check", "saveOrder", "update", "allocate", "save"} :
             pc' = [pc EXCEPT ![c] = to]
    BY <1>3 DEF LockRequests, CheckAvailable, LockUpdate, LockAllocate, LockDraft, SaveSelect,
       Advance
  <2>2. /\ \A d \in Calls \ {c} : pc'[d] = pc[d] /\ body'[d] = body[d] /\ todo'[d] = todo[d]
        /\ pc'[c] \notin {"lockOrder", "book"} /\ counted' = counted /\ received' = received
    BY <2>1 DEF TInv, TypeOK, dbVars
  <2> QED
    BY <1>0, <2>2, KeepsChecked
<1>4. CASE LockOrder(c)
  <2>1. PICK o : /\ Fits(body[c], o)
                 /\ todo' = [todo EXCEPT ![c] = @ \ {o}]
                 /\ pc' = [pc EXCEPT ![c] =
                             IF todo'[c] = {} THEN "book" ELSE "lockOrder"]
    BY <1>4 DEF LockOrder
  <2>2. pc[c] = "lockOrder" /\ UNCHANGED <<dbVars, body>>
    BY <1>4 DEF LockOrder
  <2>3. Checked'
    <3> SUFFICES ASSUME NEW d \in Calls, pc'[d] \in {"lockOrder", "book"},
                        NEW q \in OrdersOf(body'[d]) \ todo'[d], q \in Orders \ Hasty
                 PROVE  \A m \in Materials : QtyOf(body'[d], q, m) > 0 =>
                          counted'[q][m] + QtyOf(body'[d], q, m) <= ordered'[q][m]
      BY DEF Checked, Fits
    <3>1. pc[d] \in {"lockOrder", "book"} /\ (q \in todo[d] => d = c /\ q = o)
      BY <2>1, <2>2 DEF TInv, TypeOK
    <3>2. Fits(body[d], q)
      BY <2>1, <2>2, <3>1 DEF FInv, Checked
    <3> QED
      BY <2>2, <3>2 DEF Fits, dbVars
  <2> QED
    BY <2>2, <2>3 DEF FInv, CountedIsReceived, dbVars
<1>5. CASE Book(c)
  <2>1. /\ pc[c] = "book" /\ todo[c] = {} /\ body[c] \in Receipts
        /\ End(c) /\ UNCHANGED <<row, ordered, alloc>>
    BY <1>5 DEF Book, IInv, ReceiptHolds, TInv, Bodies
  <2>2. /\ \A d \in Calls \ {c} : pc'[d] = pc[d] /\ body'[d] = body[d] /\ todo'[d] = todo[d]
        /\ pc'[c] = Idle
    BY <2>1 DEF End, TInv, TypeOK
  <2>3. Checked'
    <3> SUFFICES ASSUME NEW d \in Calls, pc'[d] \in {"lockOrder", "book"},
                        NEW o \in OrdersOf(body'[d]) \ todo'[d], o \in Orders \ Hasty
                 PROVE  \A m \in Materials : QtyOf(body'[d], o, m) > 0 =>
                          counted'[o][m] + QtyOf(body'[d], o, m) <= ordered'[o][m]
      BY DEF Checked, Fits
    <3>1. d # c /\ pc[d] \in {"lockOrder", "book"} /\ o \in OrdersOf(body[d]) \ todo[d]
      BY <2>2 DEF Idle
    <3>2. Fits(body[d], o) /\ orderLock[o] = d
      BY <3>1 DEF FInv, Checked, IInv, ReceiptHolds
    <3>3. o # HeaderOrder(body[c])
      <4>1. o \notin OrdersOf(body[c])
        BY <2>1, <3>1, <3>2 DEF IInv, ReceiptHolds
      <4>2. 1 \in DOMAIN body[c]
        BY <2>1, BodyAssumption
      <4> QED
        BY <4>1, <4>2, OrderAssumption DEF HeaderOrder, OrdersOf
    <3>4. \A m \in Materials : counted'[o][m] = counted[o][m]
      BY <1>5, <3>3 DEF Book
    <3>5. body'[d] = body[d] /\ ordered' = ordered
      BY <2>1, <2>2, <3>1
    <3> QED
      BY <3>2, <3>4, <3>5 DEF Fits
  <2>4. CountedIsReceived'
    <3> SUFFICES ASSUME NEW o \in Orders \ Mixed PROVE counted'[o] = received'[o]
      BY DEF CountedIsReceived
    <3>1. counted[o] = received[o] /\ counted[o] \in Quantities
      BY DEF FInv, CountedIsReceived, TInv, TypeOK
    <3>2. counted[o] = [m \in Materials |-> counted[o][m]]
      BY <3>1 DEF Quantities
    <3>3. CASE o \in OrdersOf(body[c])
      BY <1>5, <2>1, <3>1, <3>3, OneOrder DEF Book
    <3>4. CASE o \notin OrdersOf(body[c])
      <4>1. o # HeaderOrder(body[c])
        BY <2>1, <3>4, OneOrder
      <4> QED
        BY <1>5, <3>1, <3>2, <3>4, <4>1 DEF Book
    <3> QED
      BY <3>3, <3>4
  <2> QED
    BY <2>3, <2>4 DEF FInv
<1> QED
  BY <1>1, <1>2, <1>3, <1>4, <1>5 DEF Proceed

\* Receipts on one order take turns at its row: what each found to be left is
\* left until it is booked.
LEMMA FInvariance == Spec => []FInv
<1>1. IInv /\ TInv /\ FInv /\ [Next]_vars => FInv'
  <2>1. ASSUME FInv, UNCHANGED vars PROVE FInv'
    BY <2>1 DEF FInv, Checked, CountedIsReceived, Fits, vars, dbVars, locks, callVars
  <2> QED
    BY <2>1, StepFInv DEF Next
<1> QED
  BY Invariance, Typed, InitFInv, <1>1, PTL DEF Spec

THEOREM ReceiptsAlwaysFit == Spec => ReceiptFitsOrder
<1>2. ASSUME IInv, TInv, FInv, [Next]_vars, NEW o \in Orders \ (Mixed \union Hasty),
             NEW m \in Materials, received'[o][m] # received[o][m]
      PROVE  received'[o][m] <= ordered[o][m]
  <2>1. PICK c \in Calls : Book(c)
    BY <1>2, BooksReceived
  <2>2. pc[c] = "book" /\ todo[c] = {} /\ body[c] \in Receipts /\ o \in OrdersOf(body[c])
    BY <1>2, <2>1 DEF Book, IInv, ReceiptHolds, TInv, Bodies
  <2>3. received'[o][m] = received[o][m] + QtyOf(body[c], o, m)
    BY <2>1, <2>2 DEF Book
  <2>4. QtyOf(body[c], o, m) \in Nat
    BY <2>2, BodyFacts, ReceiptQtys
  <2>5. received[o][m] \in Nat /\ counted[o][m] = received[o][m]
    BY <1>2 DEF TInv, TypeOK, Quantities, FInv, CountedIsReceived
  <2>6. Fits(body[c], o)
    BY <1>2, <2>2 DEF FInv, Checked
  <2>7. QtyOf(body[c], o, m) > 0
    BY <1>2, <2>3, <2>4, <2>5
  <2> QED
    BY <2>3, <2>5, <2>6, <2>7 DEF Fits
<1>3. IInv /\ TInv /\ FInv /\ [Next]_vars =>
        [\A o \in Orders \ (Mixed \union Hasty) : \A m \in Materials :
           received'[o][m] # received[o][m] => received'[o][m] <= ordered[o][m]]_vars
  BY <1>2
<1> QED
  BY Invariance, Typed, FInvariance, <1>3, PTL DEF Spec, ReceiptFitsOrder

-----------------------------------------------------------------------------
(***************************************************************************)
(* Each call takes effect at once.                                         *)
(***************************************************************************)
\* A number that no order has stands for nothing, and only an order of an
\* earlier release is ever closed.
Rows ==
  \A o \in Orders : /\ row[o].status = "none" => row[o] = Absent
                    /\ row[o].closed => o \in Legacy

\* confirmOrder, deleteOrder and close work on an order that exists.
Deciders ==
  \A c \in Calls : pc[c] \in {"select", "save"} =>
    /\ row[on[c]].status # "none"
    /\ copy[c].closed => on[c] \in Legacy

\* What an editor has checked of its draft and of its body stays so.
Editors ==
  \A c \in Calls : pc[c] \in {"update", "allocate"} =>
    /\ ~row[on[c]].deleted
    /\ pc[c] = "update" => on[c] \notin Legacy
    /\ pc[c] = "allocate" => \A p \in PrLines : body[c][p] <= RequestedQty[p]

\* Nobody decides on an order whose items are still to be saved.
Bare ==
  \A c \in Calls : pc[c] = "saveItems" /\ on[c] \notin Hasty => row[on[c]] = Draft

OInv == Rows /\ Deciders /\ Editors /\ Bare

LEMMA InitOInv == Init => OInv
  BY DEF Init, OInv, Rows, Deciders, Editors, Bare, Draft, Absent, Idle

\* A step of one call that writes no order.
LEMMA KeepsOInv ==
  ASSUME OInv, NEW c \in Calls, row' = row,
         \A d \in Calls \ {c} : /\ pc'[d] = pc[d] /\ on'[d] = on[d]
                                /\ body'[d] = body[d] /\ copy'[d] = copy[d],
         pc'[c] \in {"select", "save"} =>
           row[on'[c]].status # "none" /\ (copy'[c].closed => on'[c] \in Legacy),
         pc'[c] \in {"update", "allocate"} =>
           /\ ~row[on'[c]].deleted
           /\ pc'[c] = "update" => on'[c] \notin Legacy
           /\ pc'[c] = "allocate" =>
                \A p \in PrLines : body'[c][p] <= RequestedQty[p],
         pc'[c] # "saveItems"
  PROVE  OInv'
<1>1. Rows' /\ Deciders'
  BY DEF OInv, Rows, Deciders
<1>2. Editors' /\ Bare'
  BY DEF OInv, Editors, Bare
<1> QED
  BY <1>1, <1>2 DEF OInv

\* A step of one call that writes one order, which nobody edits or creates.
LEMMA WritesOInv ==
  ASSUME IInv, OInv, NEW c \in Calls, NEW o \in Orders,
         \A q \in Orders \ {o} : row'[q] = row[q],
         row'[o].status # "none", row'[o].closed => o \in Legacy,
         \A d \in Calls \ {c} : /\ pc'[d] = pc[d] /\ on'[d] = on[d]
                                /\ body'[d] = body[d] /\ copy'[d] = copy[d],
         \A d \in Calls \ {c} : on[d] = o => pc[d] \notin {"update", "allocate"},
         \A d \in Calls \ {c} : on[d] = o => pc[d] # "saveItems" \/ o \in Hasty,
         pc'[c] = Idle \/ (pc'[c] = "saveItems" /\ on'[c] = o /\ row'[o] = Draft)
  PROVE  OInv'
<1>1. \A q \in Orders \ {o} : row'[q] = row[q]
  OBVIOUS
<1>2. \A d \in Calls \ {c} : pc[d] \notin {Idle, "lockOrder", "book"} => on[d] \in Orders
  BY DEF IInv, OnOrder
<1>3. Rows'
  BY <1>1 DEF OInv, Rows
<1>4. Deciders'
  <2> SUFFICES ASSUME NEW d \in Calls, pc'[d] \in {"select", "save"}
               PROVE  /\ row'[on'[d]].status # "none"
                      /\ copy'[d].closed => on'[d] \in Legacy
    BY DEF Deciders
  <2>1. d # c /\ pc[d] = pc'[d] /\ on'[d] = on[d] /\ copy'[d] = copy[d] /\ on[d] \in Orders
    BY <1>2 DEF Idle
  <2> QED
    BY <1>1, <2>1 DEF OInv, Deciders
<1>5. Editors'
  <2> SUFFICES ASSUME NEW d \in Calls, pc'[d] \in {"update", "allocate"}
               PROVE  /\ ~row'[on'[d]].deleted
                      /\ pc'[d] = "update" => on'[d] \notin Legacy
                      /\ pc'[d] = "allocate" =>
                           \A p \in PrLines : body'[d][p] <= RequestedQty[p]
    BY DEF Editors
  <2>1. /\ d # c /\ pc[d] = pc'[d] /\ on'[d] = on[d] /\ body'[d] = body[d]
        /\ on[d] \in Orders \ {o}
    BY <1>2 DEF Idle
  <2> QED
    BY <1>1, <2>1 DEF OInv, Editors
<1>6. Bare'
  <2> SUFFICES ASSUME NEW d \in Calls, pc'[d] = "saveItems", on'[d] \notin Hasty
               PROVE  row'[on'[d]] = Draft
    BY DEF Bare
  <2>1. CASE d = c
    BY <1>1, <2>1 DEF Idle
  <2>2. CASE d # c
    <3>1. pc[d] = "saveItems" /\ on'[d] = on[d] /\ on[d] \in Orders \ {o}
      BY <1>2, <2>2 DEF Idle
    <3> QED
      BY <1>1, <3>1 DEF OInv, Bare
  <2> QED
    BY <2>1, <2>2
<1> QED
  BY <1>3, <1>4, <1>5, <1>6 DEF OInv

LEMMA ArriveOInv ==
  ASSUME IInv, TInv, OInv, NEW c \in Calls, Arrive(c)
  PROVE  OInv'
<1>1. ASSUME NEW o \in Orders, Confirm(c, o) \/ Delete(c, o) \/ Close(c, o)
      PROVE  OInv'
  <2>1. PICK e : /\ Read(c, o, e)
                 /\ e.closed => row[o].closed \/ o \in Legacy
    <3>1. DOMAIN row[o] = {"status", "deleted", "closed"}
      BY EntityFacts DEF IInv, Shape
    <3>2. /\ [row[o] EXCEPT !.status = "S"].closed = row[o].closed
          /\ [row[o] EXCEPT !.deleted = TRUE].closed = row[o].closed
      BY <3>1
    <3> QED
      BY <1>1, <3>2 DEF Confirm, Delete, Close
  <2>2. /\ row' = row /\ pc'[c] = "select" /\ on'[c] = o /\ copy'[c] = e
        /\ \A d \in Calls \ {c} : /\ pc'[d] = pc[d] /\ on'[d] = on[d]
                                  /\ body'[d] = body[d] /\ copy'[d] = copy[d]
        /\ row[o].status # "none"
    BY <2>1 DEF Read, Begin, Named, Live, dbVars, TInv, TypeOK
  <2>3. e.closed => o \in Legacy
    BY <2>1 DEF OInv, Rows
  <2> QED
    BY <2>2, <2>3, KeepsOInv
<1>2. ASSUME NEW o \in Orders, NEW items \in Drafts, CreateOrder(c, o, items)
      PROVE  OInv'
  <2>1. /\ row' = [row EXCEPT ![o] = Draft] /\ pc'[c] = "saveItems" /\ on'[c] = o
        /\ \A d \in Calls \ {c} : /\ pc'[d] = pc[d] /\ on'[d] = on[d]
                                  /\ body'[d] = body[d] /\ copy'[d] = copy[d]
        /\ \A d \in Calls : on[d] # o
    BY <1>2 DEF CreateOrder, Begin, Fresh, TInv, TypeOK
  <2>2. /\ row'[o] = Draft /\ row'[o].status # "none" /\ ~row'[o].closed
        /\ \A q \in Orders \ {o} : row'[q] = row[q]
    BY <2>1 DEF IInv, Shape, Draft, Absent
  <2> QED
    BY <2>1, <2>2, WritesOInv
<1>3. ASSUME NEW phase \in {"lockRequests", "lockUpdate", "lockAllocate", "lockOrder"},
             NEW o, NEW input, Begin(c, phase, o, input), row' = row, copy' = copy
      PROVE  OInv'
  <2>1. /\ pc'[c] = phase
        /\ \A d \in Calls \ {c} : /\ pc'[d] = pc[d] /\ on'[d] = on[d]
                                  /\ body'[d] = body[d] /\ copy'[d] = copy[d]
    BY <1>3 DEF Begin, TInv, TypeOK
  <2> QED
    BY <1>3, <2>1, KeepsOInv
<1> QED
  BY <1>1, <1>2, <1>3 DEF Arrive, Integrate, Edit, Receive, dbVars

\* What confirmOrder, deleteOrder and close save, and on which order.
LEMMA DecisionFacts ==
  ASSUME IInv, OInv, NEW c \in Calls, SaveUpdate(c)
  PROVE  /\ on[c] \in Orders
         /\ row[on[c]].status # "none"
         /\ row'[on[c]].status # "none"
         /\ row'[on[c]].closed => on[c] \in Legacy
         /\ \A q \in Orders \ {on[c]} : row'[q] = row[q]
         /\ \A d \in Calls \ {c} : on[d] = on[c] =>
              /\ pc[d] \notin {"update", "allocate"}
              /\ pc[d] # "saveItems" \/ on[c] \in Hasty
<1> DEFINE entity == [f \in DOMAIN Absent |->
                        IF f \in columns[c] THEN copy[c][f] ELSE row[on[c]][f]]
<1>1. /\ pc[c] = "save" /\ on[c] \in Orders /\ Free(on[c])
      /\ row' = [row EXCEPT ![on[c]] = entity]
  BY DEF SaveUpdate, IInv, OnOrder, Idle
<1>2. /\ copy[c].status # "none" /\ row[on[c]].status # "none"
      /\ copy[c].closed \/ row[on[c]].closed => on[c] \in Legacy
  BY <1>1 DEF IInv, Unborn, OInv, Deciders, Rows
<1>3. entity.status # "none" /\ (entity.closed => on[c] \in Legacy)
  <2>1. /\ entity.status \in {copy[c].status, row[on[c]].status}
        /\ entity.closed => copy[c].closed \/ row[on[c]].closed
    BY EntityFacts
  <2> QED
    BY <1>2, <2>1
<1> HIDE DEF entity
<1>4. row'[on[c]] = entity /\ \A q \in Orders \ {on[c]} : row'[q] = row[q]
  BY <1>1 DEF IInv, Shape
<1>5. \A d \in Calls \ {c} : on[d] = on[c] =>
        /\ pc[d] \notin {"update", "allocate"}
        /\ pc[d] # "saveItems" \/ on[c] \in Hasty
  BY <1>1, OrderAssumption DEF IInv, EditorHolds, Unannounced, Free
<1> QED
  BY <1>1, <1>2, <1>3, <1>4, <1>5

LEMMA ProceedOInv ==
  ASSUME IInv, TInv, OInv, NEW c \in Calls, Proceed(c) \/ Fail(c)
  PROVE  OInv'
<1>1. ASSUME pc[c] # Idle, NEW to, pc' = [pc EXCEPT ![c] = to],
             to \in {"check", "saveOrder", "lockOrder", "book"},
             UNCHANGED <<row, on, body, copy>>
      PROVE  OInv'
  <2>1. /\ pc'[c] = to
        /\ \A d \in Calls \ {c} : /\ pc'[d] = pc[d] /\ on'[d] = on[d]
                                  /\ body'[d] = body[d] /\ copy'[d] = copy[d]
    BY <1>1 DEF TInv, TypeOK
  <2> QED
    BY <1>1, <2>1, KeepsOInv
<1>2. CASE LockRequests(c) \/ CheckAvailable(c) \/ LockOrder(c)
  BY <1>1, <1>2 DEF LockRequests, CheckAvailable, LockOrder, Advance, dbVars, Idle
<1>3. CASE LockUpdate(c) \/ LockAllocate(c)
  <2>1. /\ row' = row /\ UNCHANGED <<on, body, copy>>
        /\ \A d \in Calls \ {c} : pc'[d] = pc[d]
        /\ \/ pc'[c] = "update" /\ on[c] \notin Legacy
           \/ /\ pc'[c] = "allocate"
              /\ \A p \in PrLines : body[c][p] <= RequestedQty[p]
        /\ ~row[on[c]].deleted
    BY <1>3 DEF LockUpdate, LockAllocate, LockDraft, Advance, Linked, SharesFit, dbVars,
       TInv, TypeOK
  <2> QED
    BY <2>1, KeepsOInv
<1>4. CASE SaveSelect(c)
  <2>1. /\ row' = row /\ UNCHANGED <<on, body, copy>>
        /\ pc[c] = "select" /\ pc'[c] = "save" /\ \A d \in Calls \ {c} : pc'[d] = pc[d]
    BY <1>4 DEF SaveSelect, Advance, dbVars, TInv, TypeOK
  <2>2. row[on[c]].status # "none" /\ (copy[c].closed => on[c] \in Legacy)
    BY <2>1 DEF OInv, Deciders
  <2> QED
    BY <2>1, <2>2, KeepsOInv
<1>5. ASSUME End(c)
      PROVE  /\ pc'[c] = Idle
             /\ \A d \in Calls \ {c} : /\ pc'[d] = pc[d] /\ on'[d] = on[d]
                                       /\ body'[d] = body[d] /\ copy'[d] = copy[d]
  BY <1>5 DEF End, TInv, TypeOK
<1>6. CASE CreateItems(c) \/ Update(c) \/ Allocate(c) \/ Book(c) \/ Fail(c)
  <2>1. End(c) /\ row' = row
    BY <1>6 DEF CreateItems, Update, Allocate, Book, Fail, dbVars
  <2> QED
    BY <1>5, <2>1, KeepsOInv DEF Idle
<1>7. CASE SaveIntegrated(c)
  <2>1. /\ End(c) /\ row' = [row EXCEPT ![on[c]] = Draft] /\ on[c] \in Orders
        /\ \A d \in Calls \ {c} : on[d] # on[c]
    BY <1>7 DEF SaveIntegrated, IInv, Creating, OnOrder, Idle
  <2>2. /\ row'[on[c]].status # "none" /\ ~row'[on[c]].closed
        /\ \A q \in Orders \ {on[c]} : row'[q] = row[q]
    BY <2>1 DEF IInv, Shape, Draft, Absent
  <2> QED
    BY <1>5, <2>1, <2>2, WritesOInv
<1>8. CASE SaveUpdate(c)
  <2>1. End(c)
    BY <1>8 DEF SaveUpdate
  <2> QED
    BY <1>5, <1>8, <2>1, DecisionFacts, WritesOInv
<1> QED
  BY <1>2, <1>3, <1>4, <1>6, <1>7, <1>8 DEF Proceed

LEMMA OInvariance == Spec => []OInv
<1>1. IInv /\ TInv /\ OInv /\ [Next]_vars => OInv'
  <2>1. ASSUME OInv, UNCHANGED vars PROVE OInv'
    BY <2>1 DEF OInv, Rows, Deciders, Editors, Bare, vars, dbVars, callVars
  <2> QED
    BY <2>1, ArriveOInv, ProceedOInv DEF Next
<1> QED
  BY Invariance, Typed, InitOInv, <1>1, PTL DEF Spec

\* The order as others see it.
Shown(o) == IF Unsaved(o) THEN Absent ELSE row[o]

\* A step of one call shows nothing new of the orders it does not write and
\* neither begins nor ends to create.
LEMMA ShownKept ==
  ASSUME NEW c \in Calls, \A d \in Calls \ {c} : pc'[d] = pc[d] /\ on'[d] = on[d]
  PROVE  \A q : /\ row'[q] = row[q]
                /\ pc[c] = "saveItems" => on[c] # q
                /\ pc'[c] = "saveItems" => on'[c] # q
                => Shown(q)' = Shown(q)
<1> SUFFICES ASSUME NEW q, row'[q] = row[q],
                    pc[c] = "saveItems" => on[c] # q,
                    pc'[c] = "saveItems" => on'[c] # q
             PROVE  Shown(q)' = Shown(q)
  OBVIOUS
<1>1. Unsaved(q)' <=> Unsaved(q)
  BY DEF Unsaved
<1> QED
  BY <1>1 DEF Shown

\* The abstract variables.
LEMMA BookKept ==
  ASSUME \A q \in Orders \ Hasty : /\ Shown(q)' = Shown(q)
                                   /\ ordered'[q] = ordered[q]
                                   /\ alloc'[q] = alloc[q]
                                   /\ received'[q] = received[q]
  PROVE  UNCHANGED AtOnce!bvars
<1> USE DEF Shown
<1>1. [q \in Orders \ Hasty |-> Shown(q)]' = [q \in Orders \ Hasty |-> Shown(q)]
  OBVIOUS
<1> QED
  BY <1>1 DEF AtOnce!bvars

\* The sum of the library is one and the same in both modules.
LEMMA SameSum ==
  ASSUME NEW f
  PROVE  AtOnce!SumFunction(f) = SumFunction(f)
  BY DEF AtOnce!SumFunction, AtOnce!SumFunctionOnSet, AtOnce!FoldFunctionOnSet,
     AtOnce!MapThenFoldSet, SumFunction, SumFunctionOnSet, FoldFunctionOnSet,
     MapThenFoldSet

LEMMA SameLineQty ==
  ASSUME NEW shares
  PROVE  AtOnce!LineQty(shares) = LineQty(shares)
  BY SameSum DEF AtOnce!LineQty, LineQty

\* The book counts a part of what the service counts.
LEMMA BookAllocates ==
  ASSUME TInv, NEW p \in PrLines
  PROVE  AtOnce!AllocatedQty(p) \in Nat /\ AtOnce!AllocatedQty(p) <= AllocatedQty(p)
<1> DEFINE D == Orders \ Hasty
           f == [o \in Orders |-> alloc[o][p]]
           h == [o \in D |-> [q \in D |-> alloc[q]][o][p]]
<1>1. /\ DOMAIN f = Orders /\ DOMAIN h = D /\ D \in SUBSET Orders
      /\ \A o \in Orders : f[o] \in Nat
      /\ \A o \in D : h[o] = f[o]
  BY DEF TInv, TypeOK, Shares
<1>2. SumFunction(f) = AllocatedQty(p) /\ SumFunction(h) = AtOnce!AllocatedQty(p)
  BY SameSum DEF AllocatedQty, AtOnce!AllocatedQty
<1> HIDE DEF D, f, h
<1>3. IsFiniteSet(Orders) /\ IsFiniteSet(D)
  BY <1>1, FiniteAssumption, FS_Subset
<1>4. SumFunctionOnSet(h, D) = SumFunctionOnSet(f, D)
  BY <1>1, <1>3, SumSame
<1>5. SumFunctionOnSet(f, D) <= SumFunctionOnSet(f, Orders)
  BY <1>1, <1>3, SumWithin
<1>6. SumFunctionOnSet(f, D) \in Nat
  BY <1>1, <1>3, SumNat
<1> QED
  BY <1>1, <1>2, <1>4, <1>5, <1>6 DEF SumFunction

\* What a step that works on order o leaves alone of the abstract variables
\* of the others, o a number that is not hasty.
Others(o) ==
  \A q \in Orders \ Hasty : q # o =>
    /\ Shown(q)' = Shown(q) /\ ordered'[q] = ordered[q]
    /\ alloc'[q] = alloc[q] /\ received'[q] = received[q]

\* A call that ends works on an order that nobody else creates.
LEMMA EndsAlone ==
  ASSUME IInv, TInv, OInv, NEW c \in Calls, End(c), pc[c] # Idle,
         NEW o \in Orders \ Hasty, on[c] = o
  PROVE  /\ Shown(o)' = row'[o]
         /\ pc[c] = "saveItems" \/ row[o].status = "none" => Shown(o) = Absent
         /\ pc[c] # "saveItems" => Shown(o) = row[o]
<1>1. /\ pc'[c] = Idle
      /\ \A d \in Calls \ {c} : pc'[d] = pc[d] /\ on'[d] = on[d]
  BY DEF End, TInv, TypeOK
<1>2. \A d \in Calls \ {c} : ~ (pc[d] = "saveItems" /\ on[d] = o)
  BY DEF IInv, Unannounced
<1>3. ~ \E d \in Calls : pc'[d] = "saveItems" /\ on'[d] = o
  BY <1>1, <1>2 DEF Idle
<1>4. (\E d \in Calls : pc[d] = "saveItems" /\ on[d] = o) <=> pc[c] = "saveItems"
  BY <1>2
<1>5. row[o].status = "none" => row[o] = Absent
  BY DEF OInv, Rows
<1> QED
  BY <1>3, <1>4, <1>5 DEF Shown, Unsaved

\* A call that ends having written one order at most.
LEMMA EndsOthers ==
  ASSUME TInv, NEW c \in Calls, End(c), NEW o, on[c] = o,
         \A q \in Orders : q # o =>
           /\ row'[q] = row[q] /\ ordered'[q] = ordered[q]
           /\ alloc'[q] = alloc[q] /\ received'[q] = received[q]
  PROVE  Others(o)
<1>1. /\ pc'[c] = Idle
      /\ \A d \in Calls \ {c} : pc'[d] = pc[d] /\ on'[d] = on[d]
  BY DEF End, TInv, TypeOK
<1> QED
  BY <1>1, ShownKept DEF Others, Idle

LEMMA HastyKept ==
  ASSUME NEW o \in Hasty, Others(o)
  PROVE  UNCHANGED AtOnce!bvars
  BY BookKept DEF Others

\* What a row is when its columns are known.
LEMMA EntityIs ==
  ASSUME NEW e \in Entity, ~e.deleted, ~e.closed
  PROVE  e = [status |-> e.status, deleted |-> FALSE, closed |-> FALSE]
<1>1. e = [status |-> e.status, deleted |-> e.deleted, closed |-> e.closed]
  BY DEF Entity
<1>2. e.deleted = FALSE /\ e.closed = FALSE
  BY DEF Entity
<1> QED
  BY <1>1, <1>2

\* A draft is the same record in both modules, and so is no order.
LEMMA SameRows ==
  /\ Draft = AtOnce!Draft /\ Absent = AtOnce!Absent
  /\ \A e \in Entity : ~e.deleted /\ ~e.closed =>
       /\ e.status = "T" => e = Draft
       /\ e.status = "S" => e = AtOnce!Confirmed
<1>1. Draft \in Entity /\ Draft.status = "T" /\ ~Draft.deleted /\ ~Draft.closed
  BY EntityFacts DEF Draft, Absent
<1>2. Draft = [status |-> "T", deleted |-> FALSE, closed |-> FALSE]
  BY <1>1, EntityIs
<1> QED
  BY <1>2, EntityIs DEF Absent, AtOnce!Draft, AtOnce!Absent, AtOnce!Confirmed,
     AtOnce!Open

\* The actions of the book, told by what the service's step does.
LEMMA Makes ==
  ASSUME TInv, TInv', NEW o \in Orders \ Hasty, Others(o),
         Shown(o) = Absent, Shown(o)' = Draft, received'[o] = received[o],
         alloc'[o] # NoShares =>
           /\ ordered'[o] = LineQty(alloc'[o])
           /\ \A p \in PrLines \ Reassigned :
                alloc'[o][p] > 0 => AllocatedQty(p) + alloc'[o][p] <= RequestedQty[p]
  PROVE  AtOnce!Make(o)
<1> DEFINE R == [q \in Orders \ Hasty |-> Shown(q)]
           L == [q \in Orders \ Hasty |-> ordered[q]]
           A == [q \in Orders \ Hasty |-> alloc[q]]
           G == [q \in Orders \ Hasty |-> received[q]]
<1>1. R[o] = AtOnce!Absent /\ R' = [R EXCEPT ![o] = AtOnce!Draft]
  BY SameRows DEF Others
<1>2. /\ L' = [L EXCEPT ![o] = L'[o]] /\ A' = [A EXCEPT ![o] = A'[o]] /\ G' = G
      /\ A'[o] = alloc'[o] /\ L'[o] = ordered'[o]
  BY DEF Others
<1>3. alloc'[o] # AtOnce!NoShares =>
        /\ ordered'[o] = AtOnce!LineQty(alloc'[o])
        /\ \A p \in PrLines \ Reassigned :
             alloc'[o][p] > 0 =>
               AtOnce!AllocatedQty(p) + alloc'[o][p] <= RequestedQty[p]
  <2> SUFFICES ASSUME alloc'[o] # NoShares, NEW p \in PrLines \ Reassigned, alloc'[o][p] > 0
               PROVE  AtOnce!AllocatedQty(p) + alloc'[o][p] <= RequestedQty[p]
    BY SameLineQty DEF AtOnce!NoShares, NoShares
  <2>1. AllocatedQty(p) + alloc'[o][p] <= RequestedQty[p]
    OBVIOUS
  <2>2. alloc'[o][p] \in Nat /\ AllocatedQty(p) \in Nat /\ RequestedQty[p] \in Nat
    BY AllocatedType, RequestAssumption DEF AllocatedQty, TInv, TypeOK, Shares
  <2>3. AtOnce!AllocatedQty(p) \in Nat /\ AtOnce!AllocatedQty(p) <= AllocatedQty(p)
    BY BookAllocates
  <2> QED
    BY <2>1, <2>2, <2>3
<1> QED
  BY <1>1, <1>2, <1>3 DEF AtOnce!Make, Shown

LEMMA Amends ==
  ASSUME NEW o \in Orders \ Hasty, Others(o), o \notin Legacy,
         Shown(o) = Draft, Shown(o)' = Draft, alloc[o] = NoShares,
         alloc'[o] = alloc[o], received'[o] = received[o]
  PROVE  AtOnce!Amend(o)
<1> DEFINE R == [q \in Orders \ Hasty |-> Shown(q)]
           L == [q \in Orders \ Hasty |-> ordered[q]]
           A == [q \in Orders \ Hasty |-> alloc[q]]
           G == [q \in Orders \ Hasty |-> received[q]]
<1>1. R[o] = AtOnce!Draft /\ R' = R
  BY SameRows DEF Others
<1>2. /\ L' = [L EXCEPT ![o] = L'[o]] /\ A' = A /\ G' = G
      /\ A[o] = AtOnce!NoShares
  BY DEF Others, NoShares, AtOnce!NoShares
<1> QED
  BY <1>1, <1>2 DEF AtOnce!Amend, AtOnce!Legacy, Legacy, Shown

LEMMA SharesOut ==
  ASSUME NEW o \in Orders \ Hasty, Others(o),
         Shown(o).status = "T", ~Shown(o).deleted, Shown(o)' = Shown(o),
         ordered'[o] = ordered[o], received'[o] = received[o],
         ordered[o] = LineQty(alloc'[o]),
         \A p \in PrLines : alloc'[o][p] <= RequestedQty[p]
  PROVE  AtOnce!Share(o)
<1> DEFINE R == [q \in Orders \ Hasty |-> Shown(q)]
           L == [q \in Orders \ Hasty |-> ordered[q]]
           A == [q \in Orders \ Hasty |-> alloc[q]]
           G == [q \in Orders \ Hasty |-> received[q]]
<1>1. R[o].status = "T" /\ ~R[o].deleted /\ R' = R
  BY DEF Others
<1>2. /\ A' = [A EXCEPT ![o] = A'[o]] /\ L' = L /\ G' = G
      /\ A'[o] = alloc'[o] /\ L[o] = ordered[o]
  BY DEF Others
<1>3. ordered[o] = AtOnce!LineQty(alloc'[o])
  BY SameLineQty
<1> QED
  BY <1>1, <1>2, <1>3 DEF AtOnce!Share, Shown

LEMMA Decides ==
  ASSUME NEW o \in Orders \ Hasty, Others(o),
         Shown(o) \in AtOnce!Decisions(o), Shown(o)' \in AtOnce!Decisions(o),
         ordered'[o] = ordered[o], alloc'[o] = alloc[o], received'[o] = received[o]
  PROVE  AtOnce!Decide(o)
<1> DEFINE R == [q \in Orders \ Hasty |-> Shown(q)]
           L == [q \in Orders \ Hasty |-> ordered[q]]
           A == [q \in Orders \ Hasty |-> alloc[q]]
           G == [q \in Orders \ Hasty |-> received[q]]
<1>1. /\ R[o] \in AtOnce!Decisions(o) /\ R'[o] \in AtOnce!Decisions(o)
      /\ R' = [R EXCEPT ![o] = R'[o]]
  BY DEF Others
<1>2. L' = L /\ A' = A /\ G' = G
  BY DEF Others
<1> QED
  BY <1>1, <1>2 DEF AtOnce!Decide, Shown

-----------------------------------------------------------------------------
\* A call that arrives changes nothing others see: an order saved without its
\* items is still to be made.
LEMMA ArriveUnseen ==
  ASSUME IInv, TInv, OInv, NEW c \in Calls, Arrive(c)
  PROVE  UNCHANGED AtOnce!bvars
<1>1. ASSUME NEW phase, phase # "saveItems", NEW o, NEW input,
             Begin(c, phase, o, input), UNCHANGED dbVars
      PROVE  UNCHANGED AtOnce!bvars
  <2>1. /\ pc[c] = Idle /\ pc'[c] = phase
        /\ \A d \in Calls \ {c} : pc'[d] = pc[d] /\ on'[d] = on[d]
    BY <1>1 DEF Begin, TInv, TypeOK
  <2>2. \A q : row'[q] = row[q] => Shown(q)' = Shown(q)
    BY <1>1, <2>1, ShownKept DEF Idle
  <2> QED
    BY <1>1, <2>2, BookKept DEF dbVars
<1>2. ASSUME NEW o \in Orders, NEW items \in Drafts, CreateOrder(c, o, items)
      PROVE  UNCHANGED AtOnce!bvars
  <2>1. /\ pc[c] = Idle /\ pc'[c] = "saveItems" /\ on'[c] = o
        /\ \A d \in Calls \ {c} : pc'[d] = pc[d] /\ on'[d] = on[d]
        /\ row[o] = Absent /\ \A q \in Orders : q # o => row'[q] = row[q]
        /\ UNCHANGED <<ordered, alloc, received>>
    BY <1>2 DEF CreateOrder, Begin, Fresh, TInv, TypeOK, OInv, Rows
  <2>2. \A q \in Orders : q # o => Shown(q)' = Shown(q)
    BY <2>1, ShownKept DEF Idle
  <2>3. Shown(o) = Absent /\ Shown(o)' = Absent
    BY <2>1 DEF Shown, Unsaved
  <2> QED
    BY <2>1, <2>2, <2>3, BookKept
<1> QED
  BY <1>1, <1>2 DEF Arrive, Confirm, Delete, Close, Read, Integrate, Edit, Receive

\* So does one that only takes locks, checks or reads.
LEMMA LockUnseen ==
  ASSUME TInv, NEW c \in Calls,
         \/ LockRequests(c) \/ CheckAvailable(c) \/ LockUpdate(c)
         \/ LockAllocate(c) \/ SaveSelect(c) \/ LockOrder(c)
  PROVE  UNCHANGED AtOnce!bvars
<1>1. /\ UNCHANGED dbVars /\ on' = on
      /\ \A d \in Calls \ {c} : pc'[d] = pc[d]
      /\ pc[c] # "saveItems" /\ pc'[c] # "saveItems"
  BY DEF LockRequests, CheckAvailable, LockUpdate, LockAllocate, LockDraft, SaveSelect,
     LockOrder, Advance, TInv, TypeOK
<1>2. \A q : row'[q] = row[q] => Shown(q)' = Shown(q)
  BY <1>1, ShownKept
<1> QED
  BY <1>1, <1>2, BookKept DEF dbVars

\* createStandaloneOrder's order is made when its items are saved, or stays
\* without items when that fails.
LEMMA ItemsMake ==
  ASSUME IInv, TInv, TInv', OInv, NEW c \in Calls, pc[c] = "saveItems",
         CreateItems(c) \/ Fail(c)
  PROVE  AtOnce!Next \/ UNCHANGED AtOnce!bvars
<1>1. PICK o \in Orders : on[c] = o
  BY DEF IInv, OnOrder, Idle
<1>2. /\ End(c) /\ row' = row /\ alloc' = alloc /\ received' = received
      /\ \A q \in Orders : q # o => ordered'[q] = ordered[q]
  BY <1>1 DEF CreateItems, Fail, dbVars, TInv, TypeOK
<1>3. Others(o)
  BY <1>1, <1>2, EndsOthers
<1>4. CASE o \in Hasty
  BY <1>3, <1>4, HastyKept
<1>5. CASE o \notin Hasty
  <2>1. row[o] = Draft /\ alloc[o] = NoShares
    BY <1>1, <1>5 DEF OInv, Bare, IInv, Unannounced
  <2>2. Shown(o) = Absent /\ Shown(o)' = Draft
    BY <1>1, <1>2, <1>5, <2>1, EndsAlone DEF Idle
  <2>3. AtOnce!Make(o)
    BY <1>2, <1>3, <1>5, <2>1, <2>2, Makes
  <2> QED
    BY <1>5, <2>3 DEF AtOnce!Next
<1> QED
  BY <1>4, <1>5

LEMMA IntegratedMake ==
  ASSUME IInv, TInv, TInv', OInv, RInv, NEW c \in Calls, SaveIntegrated(c)
  PROVE  AtOnce!Next \/ UNCHANGED AtOnce!bvars
<1>1. PICK o \in Orders : on[c] = o
  BY DEF SaveIntegrated, IInv, OnOrder, Idle
<1>2. /\ pc[c] = "saveOrder" /\ End(c) /\ received' = received
      /\ row'[o] = Draft /\ alloc'[o] = body[c] /\ ordered'[o] = LineQty(body[c])
      /\ \A q \in Orders : q # o =>
           row'[q] = row[q] /\ ordered'[q] = ordered[q] /\ alloc'[q] = alloc[q]
  BY <1>1 DEF SaveIntegrated, TInv, TypeOK
<1>3. Others(o)
  BY <1>1, <1>2, EndsOthers
<1>4. CASE o \in Hasty
  BY <1>3, <1>4, HastyKept
<1>5. CASE o \notin Hasty
  <2>1. row[o].status = "none"
    BY <1>1, <1>2 DEF IInv, Creating
  <2>2. Shown(o) = Absent /\ Shown(o)' = Draft
    BY <1>1, <1>2, <1>5, <2>1, EndsAlone DEF Idle
  <2>3. \A p \in PrLines \ Reassigned :
          body[c][p] > 0 => AllocatedQty(p) + body[c][p] <= RequestedQty[p]
    BY <1>2 DEF RInv, StillAvailable
  <2>4. AtOnce!Make(o)
    BY <1>2, <1>3, <1>5, <2>2, <2>3, Makes
  <2> QED
    BY <1>5, <2>4 DEF AtOnce!Next
<1> QED
  BY <1>4, <1>5

\* An edit finds the draft as it was when the edit locked it.
LEMMA EditTakesEffect ==
  ASSUME IInv, TInv, OInv, NEW c \in Calls, Update(c) \/ Allocate(c)
  PROVE  AtOnce!Next \/ UNCHANGED AtOnce!bvars
<1>1. PICK o \in Orders : on[c] = o
  BY DEF Update, Allocate, IInv, OnOrder, Idle
<1>2. /\ End(c) /\ row' = row /\ received' = received
      /\ pc[c] \in {"update", "allocate"}
      /\ \A q \in Orders : q # o => ordered'[q] = ordered[q] /\ alloc'[q] = alloc[q]
  BY <1>1 DEF Update, Allocate, TInv, TypeOK
<1>3. Others(o)
  BY <1>1, <1>2, EndsOthers
<1>4. row[o].status = "T" /\ ~row[o].deleted
  BY <1>1, <1>2 DEF IInv, EditorHolds, OInv, Editors
<1>5. CASE o \in Hasty
  BY <1>3, <1>5, HastyKept
<1>6. CASE o \notin Hasty /\ Update(c)
  <2>1. pc[c] = "update" /\ alloc' = alloc
    BY <1>6 DEF Update
  <2>2. alloc[o] = NoShares /\ o \notin Legacy
    BY <1>1, <2>1 DEF IInv, UpdatesUnlinked, OInv, Editors
  <2>3. row[o] = Draft
    <3>1. row[o] \in Entity /\ ~row[o].closed
      BY <2>2 DEF TInv, TypeOK, OInv, Rows
    <3> QED
      BY <1>4, <3>1, SameRows
  <2>4. Shown(o) = Draft /\ Shown(o)' = Draft
    BY <1>1, <1>2, <1>6, <2>1, <2>3, EndsAlone DEF Idle
  <2>5. AtOnce!Amend(o)
    BY <1>2, <1>3, <1>6, <2>1, <2>2, <2>4, Amends
  <2> QED
    BY <1>6, <2>5 DEF AtOnce!Next
<1>7. CASE o \notin Hasty /\ Allocate(c)
  <2>1. pc[c] = "allocate" /\ ordered' = ordered /\ alloc'[o] = body[c]
    BY <1>1, <1>7 DEF Allocate, TInv, TypeOK
  <2>2. LineQty(body[c]) = ordered[o] /\ \A p \in PrLines : body[c][p] <= RequestedQty[p]
    BY <1>1, <1>7, <2>1 DEF IInv, AllocatesFitting, OInv, Editors
  <2>3. Shown(o) = row[o] /\ Shown(o)' = row[o]
    BY <1>1, <1>2, <1>7, <2>1, EndsAlone DEF Idle
  <2>4. AtOnce!Share(o)
    BY <1>2, <1>3, <1>4, <1>7, <2>1, <2>2, <2>3, SharesOut
  <2> QED
    BY <1>7, <2>4 DEF AtOnce!Next
<1> QED
  BY <1>5, <1>6, <1>7

LEMMA DecisionTakesEffect ==
  ASSUME IInv, TInv, TInv', OInv, NEW c \in Calls, SaveUpdate(c)
  PROVE  AtOnce!Next \/ UNCHANGED AtOnce!bvars
<1>1. PICK o \in Orders : on[c] = o
  BY DecisionFacts
<1>2. /\ End(c) /\ pc[c] = "save" /\ UNCHANGED <<ordered, alloc, received>>
      /\ \A q \in Orders : q # o => row'[q] = row[q]
      /\ row[o].status # "none" /\ row'[o].status # "none"
      /\ row'[o].closed => o \in Legacy
  BY <1>1, DecisionFacts DEF SaveUpdate
<1>3. Others(o)
  BY <1>1, <1>2, EndsOthers
<1>4. CASE o \in Hasty
  BY <1>3, <1>4, HastyKept
<1>5. CASE o \notin Hasty
  <2>1. row[o] \in Entity /\ row'[o] \in Entity /\ (row[o].closed => o \in Legacy)
    BY DEF TInv, TypeOK, OInv, Rows
  <2>2. ASSUME NEW e \in Entity, e.status # "none", e.closed => o \in Legacy
        PROVE  e \in AtOnce!Decisions(o)
    <3>1. e.status \in {"T", "S"} /\ e.deleted \in BOOLEAN
      BY <2>2 DEF Entity
    <3>2. e.closed \in IF o \in AtOnce!Legacy THEN BOOLEAN ELSE {FALSE}
      BY <2>2 DEF Entity, Legacy, AtOnce!Legacy
    <3>3. e = [status |-> e.status, deleted |-> e.deleted, closed |-> e.closed]
      BY DEF Entity
    <3> QED
      BY <3>1, <3>2, <3>3 DEF AtOnce!Decisions
  <2>3. row[o] \in AtOnce!Decisions(o) /\ row'[o] \in AtOnce!Decisions(o)
    BY <1>2, <2>1, <2>2
  <2>4. Shown(o) = row[o] /\ Shown(o)' = row'[o]
    BY <1>1, <1>2, <1>5, EndsAlone DEF Idle
  <2>5. AtOnce!Decide(o)
    BY <1>2, <1>3, <1>5, <2>3, <2>4, Decides
  <2> QED
    BY <1>5, <2>5 DEF AtOnce!Next
<1> QED
  BY <1>4, <1>5

\* The orders a receipt adds to are confirmed when it is booked, and what it
\* has found to be left of them is.
LEMMA ReceiptTakesEffect ==
  ASSUME IInv, TInv, TInv', FInv, NEW c \in Calls, Book(c)
  PROVE  AtOnce!Next
<1>1. /\ pc[c] = "book" /\ todo[c] = {} /\ body[c] \in Receipts
      /\ End(c) /\ UNCHANGED <<row, ordered, alloc>>
  BY DEF Book, IInv, ReceiptHolds, TInv, Bodies
<1>2. /\ pc'[c] = Idle
      /\ \A d \in Calls \ {c} : pc'[d] = pc[d] /\ on'[d] = on[d]
  BY <1>1 DEF End, TInv, TypeOK
<1>3. \A q : Shown(q)' = Shown(q)
  BY <1>1, <1>2, ShownKept DEF Idle
<1>4. ASSUME NEW o \in Orders \ Hasty, received'[o] # received[o]
      PROVE  /\ o \in OrdersOf(body[c])
             /\ Shown(o) = AtOnce!Confirmed
  <2>1. o \in OrdersOf(body[c])
    BY <1>4 DEF Book
  <2>2. Receivable(o)
    BY <1>1, <2>1 DEF IInv, ReceiptHolds
  <2>3. row[o] = AtOnce!Confirmed
    <3>1. row[o] \in Entity
      BY DEF TInv, TypeOK
    <3> QED
      BY <2>2, <3>1, SameRows DEF Receivable
  <2>4. ~ Unsaved(o)
    BY <1>4, <2>2 DEF Unsaved, Receivable, IInv, Unannounced
  <2> QED
    BY <2>1, <2>3, <2>4 DEF Shown
<1>5. ASSUME NEW o \in Orders \ Hasty, NEW m \in Materials, received'[o][m] # received[o][m]
      PROVE  /\ received'[o][m] > received[o][m]
             /\ o \notin Mixed => received'[o][m] <= ordered[o][m]
  <2>1. o \in OrdersOf(body[c])
    BY <1>4, <1>5
  <2>2. received'[o][m] = received[o][m] + QtyOf(body[c], o, m)
    BY <2>1 DEF Book
  <2>3. QtyOf(body[c], o, m) \in Nat /\ received[o][m] \in Nat
    BY <1>1, BodyFacts, ReceiptQtys DEF TInv, TypeOK, Quantities
  <2>4. QtyOf(body[c], o, m) > 0
    BY <1>5, <2>2, <2>3
  <2>5. Fits(body[c], o)
    BY <1>1, <2>1 DEF FInv, Checked
  <2>6. o \notin Mixed => counted[o][m] = received[o][m]
    BY DEF FInv, CountedIsReceived
  <2> QED
    BY <2>2, <2>3, <2>4, <2>5, <2>6 DEF Fits
<1> DEFINE R == [q \in Orders \ Hasty |-> Shown(q)]
           L == [q \in Orders \ Hasty |-> ordered[q]]
           A == [q \in Orders \ Hasty |-> alloc[q]]
           G == [q \in Orders \ Hasty |-> received[q]]
<1>6. R' = R /\ L' = L /\ A' = A /\ G' = [q \in Orders \ Hasty |-> G'[q]]
  BY <1>1, <1>3
<1>7. /\ \A o \in Orders \ Hasty : G'[o] # G[o] => R[o] = AtOnce!Confirmed
      /\ \A o \in Orders \ Hasty : \A m \in Materials :
           G'[o][m] # G[o][m] =>
             /\ G'[o][m] > G[o][m]
             /\ o \notin Mixed => G'[o][m] <= L[o][m]
  BY <1>4, <1>5
<1>8. AtOnce!Receive
  BY <1>6, <1>7 DEF AtOnce!Receive, Shown
<1> QED
  BY <1>8 DEF AtOnce!Next

LEMMA InitBook == Init => AtOnce!Init
<1> SUFFICES ASSUME Init PROVE AtOnce!Init
  OBVIOUS
<1>1. \A o \in Orders : ~ Unsaved(o)
  BY DEF Init, Unsaved, Idle
<1> QED
  BY <1>1, SameRows DEF Init, AtOnce!Init, AtOnce!NoShares, AtOnce!Nothing, NoShares, Nothing,
     Legacy, AtOnce!Legacy

\* Every call takes effect at one instant: where it saves its last row.  What
\* it has checked before is true there, because it holds what it has checked
\* or is the only one to know the number.
THEOREM ImplementsBook == Spec => ImplementsOrderBook
<1>1. IInv /\ TInv /\ TInv' /\ RInv /\ FInv /\ OInv /\ [Next]_vars
        => [AtOnce!Next]_(AtOnce!bvars)
  <2> SUFFICES ASSUME IInv, TInv, TInv', RInv, FInv, OInv, [Next]_vars
               PROVE  AtOnce!Next \/ UNCHANGED AtOnce!bvars
    OBVIOUS
  <2>1. ASSUME NEW c \in Calls, Fail(c), pc[c] # "saveItems"
        PROVE  UNCHANGED AtOnce!bvars
    <3>1. /\ pc'[c] = Idle /\ UNCHANGED dbVars
          /\ \A d \in Calls \ {c} : pc'[d] = pc[d] /\ on'[d] = on[d]
      BY <2>1 DEF Fail, End, TInv, TypeOK
    <3>2. \A q : row'[q] = row[q] => Shown(q)' = Shown(q)
      BY <2>1, <3>1, ShownKept DEF Idle
    <3> QED
      BY <3>1, <3>2, BookKept DEF dbVars
  <2>2. ASSUME NEW c \in Calls, Proceed(c)
        PROVE  AtOnce!Next \/ UNCHANGED AtOnce!bvars
    BY <2>2, LockUnseen, ItemsMake, IntegratedMake, EditTakesEffect, DecisionTakesEffect,
       ReceiptTakesEffect DEF Proceed, CreateItems
  <2>3. CASE UNCHANGED vars
    <3>1. \A q : Shown(q)' = Shown(q)
      BY <2>3 DEF Shown, Unsaved, vars, dbVars, callVars
    <3> QED
      BY <2>3, <3>1, BookKept DEF vars, dbVars
  <2> QED
    BY <2>1, <2>2, <2>3, ArriveUnseen, ItemsMake DEF Next
<1> QED
  BY InitBook, <1>1, Invariance, Typed, RInvariance, FInvariance, OInvariance, PTL
  DEF Spec, ImplementsOrderBook, AtOnce!Spec

=============================================================================
