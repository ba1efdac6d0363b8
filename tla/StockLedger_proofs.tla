------------------------ MODULE StockLedger_proofs ------------------------
(***************************************************************************)
(* Theorems about StockLedger, for any keys, months, requests and number   *)
(* of concurrent transactions.                                             *)
(*                                                                         *)
(* The argument: a row that existed before the requests is locked by every *)
(* transaction that uses it from its visit in LockNext to its end          *)
(* (LocksHeld), so the image of the row in its statuses map is the row     *)
(* plus what the transaction has booked so far (Images), and Commit moves  *)
(* the row and its books by the same amount.                               *)
(***************************************************************************)
EXTENDS StockLedger, Sums

\* The cursor of a transaction fits its phase.
CursorOK ==
  \A t \in Txs :
    /\ pc[t] # "idle" => req[t] # <<>>
    /\ pc[t] \in {"idle", "check", "lock"} => pos[t] = Start /\ pend[t] = Nothing
    /\ pc[t] = "check" => todo[t] = KeysOf(req[t])
    /\ pc[t] \in {"load", "save"} =>
         pos[t].item \in DOMAIN req[t] /\ pos[t].leg \in Legs(CurrentItem(t))
    /\ pc[t] \in {"load", "save", "commit"} => todo[t] = {}

\* Rows are never deleted.
RowsKept == Provisioned \subseteq rows

\* Only transactions between their checks and their end hold locks.
LockOwner == \A k \in Keys : lock[k] # NoTx => Active(lock[k])

\* Every existing row visited so far is locked.
LocksHeld ==
  \A t \in Txs : \A k \in Provisioned :
    Active(t) /\ k \in KeysOf(req[t]) \ todo[t] => lock[k] = t

\* The image of a locked row is the row and what was booked on it since.
Images ==
  \A t \in Txs : \A k \in Provisioned :
    lock[k] = t => /\ seen[t][k].row
                   /\ seen[t][k].qty = qty[k] + pend[t][k][LastMonth]

\* Nothing is booked on an existing row that is not locked.
NothingUnheld ==
  \A t \in Txs : \A k \in Provisioned :
    Active(t) /\ lock[k] # t => pend[t][k] = [m \in Months |-> 0]

ImagesNonNegative == \A t \in Txs : \A k \in Keys : seen[t][k].qty >= 0

\* What Load decided still holds when Save runs.
SaveAccepted == \A t \in Txs : pc[t] = "save" => LegAccepted(t)

\* A booking up to month m comes from an item dated up to m.
BookedWhenDated ==
  \A t \in Txs : \A k \in Keys : \A m \in Months :
    pend[t][k][m] # 0 => \E n \in MonthsOf(req[t]) : n <= m

IInv ==
  /\ TypeOK
  /\ CursorOK
  /\ RowsKept
  /\ LockOwner
  /\ LocksHeld
  /\ Images
  /\ NothingUnheld
  /\ BooksAgree
  /\ NonNegativeStock
  /\ ImagesNonNegative
  /\ SaveAccepted
  /\ BookedWhenDated

-----------------------------------------------------------------------------
(***************************************************************************)
(* The operators on items.                                                 *)
(***************************************************************************)
LEMMA MonthFacts == LastMonth \in Months /\ Months \subseteq Int
  BY MonthAssumption DEF Months

\* A leg of an item is on a key, and changes it by an integer.
LEMMA LegTypes ==
  ASSUME NEW it \in Item, NEW leg \in Legs(it)
  PROVE  /\ LegKey(it, leg) \in Keys
         /\ LegDelta(it, leg) \in Int
         /\ LegType(it, leg) \in HistoryTypes
         /\ leg \in Nat
  BY DEF Item, Legs, LegKey, LegDelta, LegType, HistoryTypes, TxTypes

LEMMA KeysOfType ==
  ASSUME NEW items \in Seq(Item)
  PROVE  KeysOf(items) \subseteq Keys
  BY LegTypes DEF KeysOf

\* The opposite of a history row is an item.
LEMMA OppositeIsItem ==
  ASSUME NEW h \in History, NEW m \in Months
  PROVE  Opposite(h, m) \in Item
  BY DEF Opposite, OppositeType, History, HistoryTypes, Item, TxTypes, AbsQty

\* An accepted leg leaves the row with zero or more.
LEMMA AcceptedLeg ==
  ASSUME NEW it \in Item, NEW leg \in Legs(it), NEW image \in RowImage,
         image.qty >= 0, Valid(it), ~LegRefused(it, leg, image)
  PROVE  image.qty + LegDelta(it, leg) \in Nat
  BY DEF Item, TxTypes, Legs, RowImage, Valid, LegRefused, LegDelta, TakesStock

\* Replacing one entry of a table of tables.
LEMMA TableUpdate ==
  ASSUME NEW A, NEW B, NEW S, NEW f \in [A -> [B -> S]],
         NEW a \in A, NEW b \in B, NEW v \in S
  PROVE  /\ [f EXCEPT ![a][b] = v] \in [A -> [B -> S]]
         /\ [f EXCEPT ![a][b] = v][a][b] = v
         /\ \A x \in A : \A y \in B :
              x # a \/ y # b => [f EXCEPT ![a][b] = v][x][y] = f[x][y]
  OBVIOUS

\* The item and the key a transaction is working on.
LEMMA CurrentLeg ==
  ASSUME TypeOK, CursorOK, NEW t \in Txs, pc[t] \in {"load", "save"}
  PROVE  /\ CurrentItem(t) \in Item
         /\ pos[t].leg \in Legs(CurrentItem(t))
         /\ CurrentKey(t) \in Keys
         /\ CurrentKey(t) \in KeysOf(req[t])
         /\ CurrentItem(t).month \in MonthsOf(req[t])
<1>1. pos[t].item \in DOMAIN req[t] /\ pos[t].leg \in Legs(CurrentItem(t))
  BY DEF CursorOK
<1>2. CurrentItem(t) \in Item
  BY <1>1 DEF TypeOK, CurrentItem
<1>3. CurrentKey(t) \in Keys
  BY <1>1, <1>2, LegTypes DEF CurrentKey
<1> QED
  BY <1>1, <1>2, <1>3 DEF CurrentKey, CurrentItem, KeysOf, MonthsOf

-----------------------------------------------------------------------------
(***************************************************************************)
(* The initial states, and one lemma per kind of step.                     *)
(***************************************************************************)
LEMMA InitIInv == Init => IInv
<1> SUFFICES ASSUME Init PROVE IInv
  OBVIOUS
<1> USE DEF Init
<1>1. TypeOK
  BY MonthFacts, RowAssumption, MonthAssumption
  DEF TypeOK, Phases, NoRow, RowImage, Nothing, Start, Months
<1>2. CursorOK /\ RowsKept /\ LockOwner /\ LocksHeld
  BY TxAssumption DEF CursorOK, RowsKept, LockOwner, LocksHeld, Active
<1>3. Images /\ NothingUnheld
  BY TxAssumption, RowAssumption DEF Images, NothingUnheld, Active
<1>4. BooksAgree /\ NonNegativeStock
  BY RowAssumption, MonthFacts DEF BooksAgree, NonNegativeStock
<1>5. ImagesNonNegative /\ SaveAccepted
  BY DEF ImagesNonNegative, SaveAccepted, NoRow
<1>6. BookedWhenDated
  BY DEF BookedWhenDated, Nothing
<1> QED
  BY <1>1, <1>2, <1>3, <1>4, <1>5, <1>6 DEF IInv

\* A slot takes a request.
LEMMA BeginIInv ==
  ASSUME IInv, NEW t \in Txs, NEW items \in Seq(Item) \ {<<>>},
         NEW doc \in Txs \union {NoTx}, Begin(t, items, doc)
  PROVE  IInv'
<1> USE DEF IInv, Begin, dbVars, monthVars
<1>1. TypeOK'
  BY KeysOfType DEF TypeOK, Phases
<1>2. CursorOK'
  BY DEF CursorOK, TypeOK, CurrentItem
<1>3. RowsKept' /\ BooksAgree' /\ NonNegativeStock' /\ ImagesNonNegative' /\ Images'
  BY DEF RowsKept, BooksAgree, NonNegativeStock, ImagesNonNegative, Images
<1>4. LockOwner'
  BY DEF LockOwner, Active, TypeOK
<1>5. LocksHeld'
  BY DEF LocksHeld, Active, TypeOK
<1>6. NothingUnheld'
  BY DEF NothingUnheld, Active, TypeOK
<1>7. SaveAccepted'
  BY DEF SaveAccepted, LegAccepted, CurrentItem, CurrentKey, TypeOK
<1>8. BookedWhenDated'
  <2> SUFFICES ASSUME NEW u \in Txs, NEW k \in Keys, NEW m \in Months,
                      pend[u][k][m] # 0
               PROVE  \E n \in MonthsOf(req'[u]) : n <= m
    BY DEF BookedWhenDated, MonthsOf
  <2>1. u # t
    BY DEF CursorOK, Nothing
  <2>2. req'[u] = req[u]
    BY <2>1 DEF TypeOK
  <2> QED
    BY <2>2 DEF BookedWhenDated
<1> QED
  BY <1>1, <1>2, <1>3, <1>4, <1>5, <1>6, <1>7, <1>8

\* A transaction rolls back.
LEMMA RollbackIInv ==
  ASSUME IInv, NEW t \in Txs, Rollback(t)
  PROVE  IInv'
<1> USE DEF IInv, Rollback, dbVars, monthVars
<1>1. TypeOK'
  BY MonthFacts DEF TypeOK, Phases, NoRow, RowImage, Nothing, Start
<1>2. CursorOK'
  BY DEF CursorOK, TypeOK, CurrentItem
<1>3. RowsKept' /\ BooksAgree' /\ NonNegativeStock'
  BY DEF RowsKept, BooksAgree, NonNegativeStock
<1>4. ImagesNonNegative'
  BY DEF ImagesNonNegative, NoRow, TypeOK
<1>5. Images'
  BY TxAssumption, RowAssumption DEF Images, TypeOK
<1>6. LockOwner'
  BY DEF LockOwner, Active, TypeOK
<1>7. LocksHeld'
  BY RowAssumption DEF LocksHeld, Active, TypeOK
<1>8. NothingUnheld'
  BY RowAssumption DEF NothingUnheld, Active, TypeOK
<1>9. SaveAccepted'
  BY DEF SaveAccepted, LegAccepted, CurrentItem, CurrentKey, TypeOK
<1>10. BookedWhenDated'
  BY DEF BookedWhenDated, TypeOK, Nothing
<1> QED
  BY <1>1, <1>2, <1>3, <1>4, <1>5, <1>6, <1>7, <1>8, <1>9, <1>10

\* The month checks pass.
LEMMA CheckIInv ==
  ASSUME IInv, NEW t \in Txs, pc[t] = "check", pc' = [pc EXCEPT ![t] = "lock"],
         UNCHANGED <<dbVars, lock, req, reverses, todo, seen, plan, pos, hist,
                     pend, monthVars>>
  PROVE  IInv'
<1> USE DEF IInv, dbVars, monthVars
<1>1. TypeOK'
  BY DEF TypeOK, Phases
<1>2. CursorOK'
  BY DEF CursorOK, TypeOK, CurrentItem
<1>3. RowsKept' /\ BooksAgree' /\ NonNegativeStock' /\ ImagesNonNegative' /\ Images'
  BY DEF RowsKept, BooksAgree, NonNegativeStock, ImagesNonNegative, Images
<1>4. LockOwner'
  BY DEF LockOwner, Active, TypeOK
<1>5. LocksHeld'
  BY DEF LocksHeld, Active, TypeOK, CursorOK
<1>6. NothingUnheld'
  <2> SUFFICES ASSUME NEW s \in Txs, NEW k \in Provisioned,
                      Active(s)', lock'[k] # s
               PROVE  pend'[s][k] = [m \in Months |-> 0]
    BY DEF NothingUnheld
  <2>1. CASE s = t
    BY <2>1, RowAssumption DEF Active, TypeOK, CursorOK, Nothing
  <2>2. CASE s # t
    BY <2>2, RowAssumption DEF NothingUnheld, Active, TypeOK
  <2> QED
    BY <2>1, <2>2
<1>7. SaveAccepted'
  BY DEF SaveAccepted, LegAccepted, CurrentItem, CurrentKey, TypeOK
<1>8. BookedWhenDated'
  BY DEF BookedWhenDated, MonthsOf
<1> QED
  BY <1>1, <1>2, <1>3, <1>4, <1>5, <1>6, <1>7, <1>8

\* A key is visited: its row is locked, or there is none.
LEMMA LockNextIInv ==
  ASSUME IInv, NEW t \in Txs, LockNext(t)
  PROVE  IInv'
<1> USE DEF IInv, dbVars, monthVars
<1> PICK k \in Keys :
      /\ LockRow(t, k) \/ FindNoRow(t, k)
      /\ todo' = [todo EXCEPT ![t] = @ \ {k}]
      /\ pc' = [pc EXCEPT ![t] = IF todo[t] = {k} THEN "load" ELSE "lock"]
  BY DEF LockNext
<1>a. /\ pc[t] = "lock" /\ k \in todo[t]
      /\ UNCHANGED <<dbVars, req, reverses, plan, pos, hist, pend, monthVars>>
  BY DEF LockNext, LockRow, FindNoRow, NextKey
<1>b. \/ /\ k \in rows /\ lock[k] = NoTx
         /\ seen' = [seen EXCEPT ![t][k] = [row |-> TRUE, qty |-> qty[k]]]
         /\ lock' = [lock EXCEPT ![k] = t]
      \/ /\ k \notin rows /\ lock' = lock
         /\ seen' = [seen EXCEPT ![t][k] = NoRow]
  BY DEF LockRow, FindNoRow
<1>c. k \in rows => /\ lock[k] = NoTx
                    /\ lock' = [lock EXCEPT ![k] = t]
                    /\ seen' = [seen EXCEPT ![t][k] = [row |-> TRUE, qty |-> qty[k]]]
  BY <1>b
<1>d. k \notin rows => /\ lock' = lock
                       /\ seen' = [seen EXCEPT ![t][k] = NoRow]
  BY <1>b
<1>e. /\ seen' \in [Txs -> [Keys -> RowImage]]
      /\ seen'[t][k] = IF k \in rows THEN [row |-> TRUE, qty |-> qty[k]] ELSE NoRow
      /\ \A u \in Txs : \A j \in Keys : u # t \/ j # k => seen'[u][j] = seen[u][j]
  <2>0. seen \in [Txs -> [Keys -> RowImage]]
    BY DEF TypeOK
  <2>1. CASE k \in rows
    <3>1. [row |-> TRUE, qty |-> qty[k]] \in RowImage
      BY DEF TypeOK, RowImage
    <3>2. seen' = [seen EXCEPT ![t][k] = [row |-> TRUE, qty |-> qty[k]]]
      BY <2>1, <1>c
    <3> HIDE DEF IInv
    <3> QED
      BY <2>0, <2>1, <3>1, <3>2, TableUpdate
  <2>2. CASE k \notin rows
    <3>1. NoRow \in RowImage
      BY DEF RowImage, NoRow
    <3>2. seen' = [seen EXCEPT ![t][k] = NoRow]
      BY <2>2, <1>d
    <3> HIDE DEF IInv
    <3> QED
      BY <2>0, <2>2, <3>1, <3>2, TableUpdate
  <2> QED
    BY <2>1, <2>2
<1>f. /\ lock' \in [Keys -> Txs \union {NoTx}]
      /\ k \in rows => lock[k] = NoTx /\ lock'[k] = t
      /\ \A j \in Keys : j # k \/ k \notin rows => lock'[j] = lock[j]
  <2>0. lock \in [Keys -> Txs \union {NoTx}]
    BY DEF TypeOK
  <2>1. CASE k \in rows
    <3>1. lock[k] = NoTx /\ lock' = [lock EXCEPT ![k] = t]
      BY <2>1, <1>c
    <3> HIDE DEF IInv
    <3> QED
      BY <2>0, <2>1, <3>1
  <2>2. CASE k \notin rows
    BY <2>0, <2>2, <1>d
  <2> QED
    BY <2>1, <2>2
<1>g. /\ pc' \in [Txs -> Phases]
      /\ Active(t) /\ Active(t)'
      /\ \A u \in Txs : u # t => pc'[u] = pc[u] /\ todo'[u] = todo[u]
      /\ todo'[t] = todo[t] \ {k}
      /\ todo' \in [Txs -> SUBSET Keys]
  BY <1>a DEF TypeOK, Phases, Active
<1>h. pend[t] = Nothing
  BY <1>a DEF CursorOK
<1>1. TypeOK'
  BY <1>a, <1>e, <1>f, <1>g DEF TypeOK
<1>2. CursorOK'
  BY <1>a DEF CursorOK, TypeOK, CurrentItem, Start, Legs
<1>3. RowsKept' /\ BooksAgree' /\ NonNegativeStock'
  BY <1>a DEF RowsKept, BooksAgree, NonNegativeStock
<1>4. ImagesNonNegative'
  BY <1>e DEF ImagesNonNegative, NonNegativeStock, NoRow
<1>5. Images'
  <2> SUFFICES ASSUME NEW u \in Txs, NEW j \in Provisioned, lock'[j] = u
               PROVE  /\ seen'[u][j].row
                      /\ seen'[u][j].qty = qty[j] + pend[u][j][LastMonth]
    BY <1>a DEF Images
  <2>1. CASE u = t /\ j = k
    <3>1. k \in rows /\ pend[t][k][LastMonth] = 0
      BY <2>1, <1>h, MonthFacts, RowAssumption DEF RowsKept, Nothing
    <3> QED
      BY <2>1, <3>1, <1>e DEF TypeOK
  <2>2. CASE ~(u = t /\ j = k)
    <3>1. lock[j] = u
      BY <2>2, <1>f, RowAssumption
    <3> QED
      BY <2>2, <3>1, <1>e, RowAssumption DEF Images
  <2> QED
    BY <2>1, <2>2
<1>6. LockOwner'
  BY <1>f, <1>g, TxAssumption DEF LockOwner, Active, TypeOK
<1>7. LocksHeld'
  <2> SUFFICES ASSUME NEW u \in Txs, NEW j \in Provisioned, Active(u)',
                      j \in KeysOf(req[u]) \ todo'[u]
               PROVE  lock'[j] = u
    BY <1>a DEF LocksHeld
  <2>1. CASE u = t /\ j = k
    BY <2>1, <1>f DEF RowsKept
  <2>2. CASE ~(u = t /\ j = k)
    <3>1. lock[j] = u
      BY <2>2, <1>g DEF LocksHeld, Active
    <3> QED
      BY <2>2, <3>1, <1>f, RowAssumption, TxAssumption
  <2> QED
    BY <2>1, <2>2
<1>8. NothingUnheld'
  <2> SUFFICES ASSUME NEW u \in Txs, NEW j \in Provisioned, Active(u)', lock'[j] # u
               PROVE  pend[u][j] = [m \in Months |-> 0]
    BY <1>a DEF NothingUnheld
  <2>1. CASE u = t
    BY <2>1, <1>h, RowAssumption DEF Nothing
  <2>2. CASE u # t
    <3>1. Active(u) /\ lock[j] # u
      BY <2>2, <1>f, <1>g, RowAssumption, TxAssumption DEF Active
    <3> QED
      BY <3>1 DEF NothingUnheld
  <2> QED
    BY <2>1, <2>2
<1>9. SaveAccepted'
  <2> SUFFICES ASSUME NEW u \in Txs, pc'[u] = "save"
               PROVE  LegAccepted(u)'
    BY DEF SaveAccepted
  <2>1. u # t /\ pc[u] = "save"
    BY <1>a, <1>g DEF TypeOK
  <2>2. LegAccepted(u) /\ CurrentKey(u) \in Keys
    BY <2>1, CurrentLeg DEF SaveAccepted
  <2>3. seen'[u][CurrentKey(u)] = seen[u][CurrentKey(u)]
    BY <2>1, <2>2, <1>e
  <2> QED
    BY <1>a, <2>2, <2>3 DEF LegAccepted, CurrentItem, CurrentKey
<1>10. BookedWhenDated'
  BY <1>a DEF BookedWhenDated, MonthsOf
<1> QED
  BY <1>1, <1>2, <1>3, <1>4, <1>5, <1>6, <1>7, <1>8, <1>9, <1>10

\* The leg is accepted and its SELECT is made.
LEMMA LoadIInv ==
  ASSUME IInv, NEW t \in Txs, pc[t] = "load", LegAccepted(t),
         pc' = [pc EXCEPT ![t] = "save"],
         NEW p \in {"insert", "update"}, plan' = [plan EXCEPT ![t] = p],
         UNCHANGED <<dbVars, lock, req, reverses, todo, seen, pos, hist, pend,
                     monthVars>>
  PROVE  IInv'
<1> USE DEF IInv, dbVars, monthVars
<1>1. TypeOK'
  BY DEF TypeOK, Phases
<1>2. CursorOK'
  BY DEF CursorOK, TypeOK, CurrentItem
<1>3. RowsKept' /\ BooksAgree' /\ NonNegativeStock' /\ ImagesNonNegative' /\ Images'
  BY DEF RowsKept, BooksAgree, NonNegativeStock, ImagesNonNegative, Images
<1>4. LockOwner'
  BY DEF LockOwner, Active, TypeOK
<1>5. LocksHeld'
  BY DEF LocksHeld, Active, TypeOK
<1>6. NothingUnheld'
  BY RowAssumption DEF NothingUnheld, Active, TypeOK
<1>7. SaveAccepted'
  BY DEF SaveAccepted, LegAccepted, CurrentItem, CurrentKey, TypeOK
<1>8. BookedWhenDated'
  BY DEF BookedWhenDated, MonthsOf
<1> QED
  BY <1>1, <1>2, <1>3, <1>4, <1>5, <1>6, <1>7, <1>8

\* The cursor after a leg is on a leg, or past the last item.
LEMMA NextPosOK ==
  ASSUME TypeOK, CursorOK, NEW t \in Txs, pc[t] = "save"
  PROVE  /\ NextPos(t) \in [item: Nat, leg: Nat]
         /\ NextPos(t).item \in DOMAIN req[t] =>
              NextPos(t).leg \in Legs(req[t][NextPos(t).item])
<1>1. /\ pos[t] \in [item: Nat, leg: Nat]
      /\ pos[t].item \in DOMAIN req[t]
      /\ CurrentItem(t) = req[t][pos[t].item]
  BY DEF TypeOK, CursorOK, CurrentItem
<1>2. CASE pos[t].leg + 1 \in Legs(CurrentItem(t))
  BY <1>1, <1>2 DEF NextPos
<1>3. CASE pos[t].leg + 1 \notin Legs(CurrentItem(t))
  BY <1>1, <1>3 DEF NextPos, Legs
<1> QED
  BY <1>2, <1>3

\* A leg is saved.
LEMMA SaveIInv ==
  ASSUME IInv, NEW t \in Txs, Save(t)
  PROVE  IInv'
<1> DEFINE it == CurrentItem(t)
           k  == CurrentKey(t)
           d  == LegDelta(it, pos[t].leg)
           h  == [type |-> LegType(it, pos[t].leg), key |-> k, delta |-> d,
                  month |-> it.month]
           new == [row |-> TRUE, qty |-> seen[t][k].qty + d]
           sum == [m \in Months |-> pend[t][k][m] + (IF it.month <= m THEN d ELSE 0)]
<1>a. TypeOK /\ CursorOK /\ RowsKept /\ LockOwner /\ LocksHeld /\ Images
      /\ NothingUnheld /\ BooksAgree /\ NonNegativeStock /\ ImagesNonNegative
      /\ SaveAccepted /\ BookedWhenDated
  BY DEF IInv
<1>b. /\ pc[t] = "save" /\ lock[k] \in {NoTx, t}
      /\ lock' = [lock EXCEPT ![k] = t]
      /\ seen' = [seen EXCEPT ![t][k] = new]
      /\ hist' = [hist EXCEPT ![t] = Append(hist[t], h)]
      /\ pend' = [pend EXCEPT ![t][k] = sum]
      /\ pos' = [pos EXCEPT ![t] = NextPos(t)]
      /\ pc' = [pc EXCEPT ![t] = IF NextPos(t).item \in DOMAIN req[t]
                                 THEN "load" ELSE "commit"]
      /\ UNCHANGED <<dbVars, req, reverses, todo, plan, monthVars>>
  BY DEF Save, Unblocked
<1>c. /\ it \in Item /\ pos[t].leg \in Legs(it)
      /\ k \in Keys /\ k \in KeysOf(req[t]) /\ it.month \in MonthsOf(req[t])
      /\ it.month \in Months
  BY <1>a, <1>b, CurrentLeg DEF Item
<1>d. d \in Int /\ h \in History
  BY <1>c, LegTypes DEF History, Item
<1>e. new \in RowImage /\ new.qty \in Nat /\ seen[t][k].qty \in Int
  <2>1. seen[t][k] \in RowImage /\ seen[t][k].qty >= 0
    BY <1>a, <1>c DEF TypeOK, ImagesNonNegative
  <2>2. Valid(it) /\ ~LegRefused(it, pos[t].leg, seen[t][k])
    BY <1>a, <1>b DEF SaveAccepted, LegAccepted
  <2>3. seen[t][k].qty + d \in Nat
    BY <1>c, <2>1, <2>2, AcceptedLeg
  <2> QED
    BY <2>1, <2>3 DEF RowImage
<1>f. sum \in [Months -> Int]
  BY <1>a, <1>c, <1>d DEF TypeOK
<1> HIDE DEF it, k, d, h, new, sum
<1>g. /\ seen' \in [Txs -> [Keys -> RowImage]]
      /\ seen'[t][k] = new
      /\ \A u \in Txs : \A j \in Keys : u # t \/ j # k => seen'[u][j] = seen[u][j]
  <2>1. seen \in [Txs -> [Keys -> RowImage]]
    BY <1>a DEF TypeOK
  <2> QED
    BY <2>1, <1>b, <1>c, <1>e, TableUpdate
<1>h. /\ pend' \in [Txs -> [Keys -> [Months -> Int]]]
      /\ pend'[t][k] = sum
      /\ \A u \in Txs : \A j \in Keys : u # t \/ j # k => pend'[u][j] = pend[u][j]
  <2>1. pend \in [Txs -> [Keys -> [Months -> Int]]]
    BY <1>a DEF TypeOK
  <2> QED
    BY <2>1, <1>b, <1>c, <1>f, TableUpdate
<1>i. /\ lock' \in [Keys -> Txs \union {NoTx}]
      /\ lock'[k] = t
      /\ \A j \in Keys : j # k => lock'[j] = lock[j]
  BY <1>a, <1>b, <1>c DEF TypeOK
<1>j. /\ pc' \in [Txs -> Phases]
      /\ pc'[t] = (IF NextPos(t).item \in DOMAIN req[t] THEN "load" ELSE "commit")
      /\ \A u \in Txs : u # t => pc'[u] = pc[u] /\ pos'[u] = pos[u]
      /\ pos'[t] = NextPos(t)
      /\ pos' \in [Txs -> [item: Nat, leg: Nat]]
  BY <1>a, <1>b, NextPosOK DEF TypeOK, Phases
<1>k. /\ todo[t] = {}
      /\ k \in Provisioned => lock[k] = t
      /\ Active(t) /\ Active(t)'
  BY <1>a, <1>b, <1>c, <1>j DEF CursorOK, LocksHeld, Active
<1>1. TypeOK'
  <2>1. hist' \in [Txs -> Seq(History)]
    BY <1>a, <1>b, <1>d DEF TypeOK
  <2> QED
    BY <2>1, <1>a, <1>b, <1>g, <1>h, <1>i, <1>j DEF TypeOK, dbVars, monthVars
<1>2. CursorOK'
  <2> SUFFICES ASSUME NEW u \in Txs
               PROVE  /\ pc'[u] # "idle" => req[u] # <<>>
                      /\ pc'[u] \in {"idle", "check", "lock"} =>
                           pos'[u] = Start /\ pend'[u] = Nothing
                      /\ pc'[u] = "check" => todo[u] = KeysOf(req[u])
                      /\ pc'[u] \in {"load", "save"} =>
                           /\ pos'[u].item \in DOMAIN req[u]
                           /\ pos'[u].leg \in Legs(req[u][pos'[u].item])
                      /\ pc'[u] \in {"load", "save", "commit"} => todo[u] = {}
    BY <1>b DEF CursorOK, CurrentItem
  <2>1. CASE u = t
    BY <2>1, <1>a, <1>b, <1>j, <1>k, NextPosOK DEF CursorOK
  <2>2. CASE u # t
    <3>1. pend'[u] = pend[u]
      BY <2>2, <1>a, <1>b DEF TypeOK
    <3> QED
      BY <2>2, <3>1, <1>a, <1>j DEF CursorOK, CurrentItem
  <2> QED
    BY <2>1, <2>2
<1>3. RowsKept' /\ BooksAgree' /\ NonNegativeStock'
  BY <1>a, <1>b DEF RowsKept, BooksAgree, NonNegativeStock, dbVars
<1>4. ImagesNonNegative'
  BY <1>a, <1>e, <1>g DEF ImagesNonNegative
<1>5. Images'
  <2> SUFFICES ASSUME NEW u \in Txs, NEW j \in Provisioned, lock'[j] = u
               PROVE  /\ seen'[u][j].row
                      /\ seen'[u][j].qty = qty[j] + pend'[u][j][LastMonth]
    BY <1>b DEF Images, dbVars
  <2>0. j \in Keys
    BY RowAssumption
  <2>1. CASE j = k
    <3>1. u = t
      BY <2>1, <1>i
    <3>2. seen[t][k].qty = qty[k] + pend[t][k][LastMonth]
      BY <2>1, <1>a, <1>k DEF Images
    <3>3. sum[LastMonth] = pend[t][k][LastMonth] + d
      BY <1>c, MonthFacts DEF sum, Months
    <3>4. qty[k] \in Int /\ pend[t][k][LastMonth] \in Int
      BY <1>a, <1>c, MonthFacts DEF TypeOK
    <3>5. new.row /\ new.qty = seen[t][k].qty + d
      BY DEF new
    <3> QED
      BY <2>1, <3>1, <3>2, <3>3, <3>4, <3>5, <1>d, <1>g, <1>h
  <2>2. CASE j # k
    <3>1. lock[j] = u /\ seen'[u][j] = seen[u][j] /\ pend'[u][j] = pend[u][j]
      BY <2>0, <2>2, <1>g, <1>h, <1>i
    <3> QED
      BY <3>1, <1>a DEF Images
  <2> QED
    BY <2>1, <2>2
<1>6. LockOwner'
  <2> SUFFICES ASSUME NEW j \in Keys, lock'[j] # NoTx
               PROVE  pc'[lock'[j]] \in {"lock", "load", "save", "commit"}
    BY DEF LockOwner, Active
  <2>1. CASE j = k
    BY <2>1, <1>i, <1>k DEF Active
  <2>2. CASE j # k
    <3>1. lock'[j] = lock[j] /\ Active(lock[j]) /\ lock[j] \in Txs
      BY <2>2, <1>a, <1>i DEF LockOwner, TypeOK
    <3> QED
      BY <3>1, <1>j, <1>k DEF Active
  <2> QED
    BY <2>1, <2>2
<1>7. LocksHeld'
  <2> SUFFICES ASSUME NEW u \in Txs, NEW j \in Provisioned, Active(u)',
                      j \in KeysOf(req[u]) \ todo[u]
               PROVE  lock'[j] = u
    BY <1>b DEF LocksHeld
  <2>1. lock[j] = u
    BY <1>a, <1>j, <1>k DEF LocksHeld, Active
  <2> QED
    BY <2>1, <1>b, <1>i, RowAssumption, TxAssumption
<1>8. NothingUnheld'
  <2> SUFFICES ASSUME NEW u \in Txs, NEW j \in Provisioned, Active(u)', lock'[j] # u
               PROVE  pend'[u][j] = [m \in Months |-> 0]
    BY DEF NothingUnheld
  <2>0. j \in Keys /\ Active(u)
    BY RowAssumption, <1>j, <1>k DEF Active
  <2>1. lock[j] # u
    BY <2>0, <1>b, <1>i, <1>k, TxAssumption
  <2>2. u # t \/ j # k
    BY <1>i
  <2>3. pend'[u][j] = pend[u][j]
    BY <2>0, <2>2, <1>h
  <2>4. pend[u][j] = [m \in Months |-> 0]
    BY <2>0, <2>1, <1>a DEF NothingUnheld
  <2> QED
    BY <2>3, <2>4
<1>9. SaveAccepted'
  <2> SUFFICES ASSUME NEW u \in Txs, pc'[u] = "save"
               PROVE  LegAccepted(u)'
    BY DEF SaveAccepted
  <2>1. u # t /\ pc[u] = "save"
    BY <1>j
  <2>2. LegAccepted(u) /\ CurrentKey(u) \in Keys
    BY <2>1, <1>a, CurrentLeg DEF SaveAccepted
  <2>3. seen'[u][CurrentKey(u)] = seen[u][CurrentKey(u)]
    BY <2>1, <2>2, <1>g
  <2> QED
    BY <1>b, <1>j, <2>1, <2>2, <2>3 DEF LegAccepted, CurrentItem, CurrentKey
<1>10. BookedWhenDated'
  <2> SUFFICES ASSUME NEW u \in Txs, NEW j \in Keys, NEW m \in Months,
                      pend'[u][j][m] # 0
               PROVE  \E n \in MonthsOf(req[u]) : n <= m
    BY <1>b DEF BookedWhenDated, MonthsOf
  <2>1. CASE u = t /\ j = k
    <3>1. sum[m] = pend[t][k][m] + (IF it.month <= m THEN d ELSE 0)
      BY DEF sum
    <3>2. pend[t][k][m] # 0 \/ it.month <= m
      BY <2>1, <3>1, <1>a, <1>c, <1>h DEF TypeOK
    <3> QED
      BY <2>1, <3>2, <1>a, <1>c DEF BookedWhenDated
  <2>2. CASE u # t \/ j # k
    BY <2>2, <1>a, <1>h DEF BookedWhenDated
  <2> QED
    BY <2>1, <2>2
<1> QED
  BY <1>1, <1>2, <1>3, <1>4, <1>5, <1>6, <1>7, <1>8, <1>9, <1>10 DEF IInv

\* A transaction commits.
LEMMA CommitIInv ==
  ASSUME IInv, NEW t \in Txs, pc[t] = "commit",
         rows' = rows \union {k \in Keys : lock[k] = t},
         qty' = [k \in Keys |-> IF lock[k] = t THEN seen[t][k].qty ELSE qty[k]],
         balance' = [k \in Keys |-> [m \in Months |->
                       balance[k][m] + pend[t][k][m]]],
         lastDoc' = [k \in Keys |-> IF k \in KeysOf(req[t]) THEN t ELSE lastDoc[k]],
         lock' = [k \in Keys |-> IF lock[k] = t THEN NoTx ELSE lock[k]],
         pc' = [pc EXCEPT ![t] = "committed"],
         UNCHANGED <<req, reverses, todo, seen, plan, pos, hist, pend, monthVars>>
  PROVE  IInv'
<1>a. TypeOK /\ CursorOK /\ RowsKept /\ LockOwner /\ LocksHeld /\ Images
      /\ NothingUnheld /\ BooksAgree /\ NonNegativeStock /\ ImagesNonNegative
      /\ SaveAccepted /\ BookedWhenDated
  BY DEF IInv
<1>1. TypeOK'
  <2>1. qty' \in [Keys -> Int]
    BY <1>a DEF TypeOK, RowImage
  <2>2. balance' \in [Keys -> [Months -> Int]]
    BY <1>a DEF TypeOK
  <2>3. pc' \in [Txs -> Phases] /\ lock' \in [Keys -> Txs \union {NoTx}]
        /\ lastDoc' \in [Keys -> Txs \union {NoTx}] /\ rows' \subseteq Keys
    BY <1>a DEF TypeOK, Phases
  <2> QED
    BY <1>a, <2>1, <2>2, <2>3 DEF TypeOK, monthVars
<1>2. CursorOK'
  BY <1>a DEF CursorOK, TypeOK, CurrentItem
<1>3. RowsKept' /\ ImagesNonNegative' /\ BookedWhenDated'
  BY <1>a DEF RowsKept, ImagesNonNegative, BookedWhenDated, MonthsOf
<1>4. NonNegativeStock'
  BY <1>a DEF NonNegativeStock, ImagesNonNegative
<1>5. LockOwner'
  BY <1>a, TxAssumption DEF LockOwner, Active, TypeOK
<1>6. LocksHeld'
  BY <1>a, RowAssumption DEF LocksHeld, Active, TypeOK
<1>7. NothingUnheld'
  BY <1>a, RowAssumption, TxAssumption DEF NothingUnheld, Active, TypeOK
<1>8. SaveAccepted'
  BY <1>a DEF SaveAccepted, LegAccepted, CurrentItem, CurrentKey, TypeOK
<1>9. BooksAgree'
  <2> SUFFICES ASSUME NEW k \in Provisioned
               PROVE  qty'[k] = balance'[k][LastMonth]
    BY DEF BooksAgree
  <2>1. /\ k \in Keys /\ LastMonth \in Months /\ qty[k] = balance[k][LastMonth]
        /\ balance[k][LastMonth] \in Int /\ pend[t][k][LastMonth] \in Int
    BY <1>a, RowAssumption, MonthFacts DEF BooksAgree, TypeOK
  <2>2. balance'[k][LastMonth] = balance[k][LastMonth] + pend[t][k][LastMonth]
    BY <2>1
  <2>3. CASE lock[k] = t
    <3>1. qty'[k] = qty[k] + pend[t][k][LastMonth]
      BY <2>1, <2>3, <1>a DEF Images
    <3> QED
      BY <2>1, <2>2, <3>1
  <2>4. CASE lock[k] # t
    <3>1. pend[t][k][LastMonth] = 0
      BY <2>1, <2>4, <1>a DEF NothingUnheld, Active
    <3> QED
      BY <2>1, <2>2, <2>4, <3>1
  <2> QED
    BY <2>3, <2>4
<1>10. Images'
  <2> SUFFICES ASSUME NEW u \in Txs, NEW k \in Provisioned, lock'[k] = u
               PROVE  /\ seen[u][k].row
                      /\ seen[u][k].qty = qty'[k] + pend[u][k][LastMonth]
    BY DEF Images
  <2>1. k \in Keys /\ lock[k] = u /\ lock[k] # t
    BY RowAssumption, TxAssumption
  <2>2. qty'[k] = qty[k]
    BY <2>1
  <2> QED
    BY <2>1, <2>2, <1>a DEF Images
<1> QED
  BY <1>1, <1>2, <1>3, <1>4, <1>5, <1>6, <1>7, <1>8, <1>9, <1>10 DEF IInv

\* Month closing leaves the stock and its transactions alone.
LEMMA MonthIInv ==
  ASSUME IInv, UNCHANGED <<dbVars, lock, txVars>>, TypeOK'
  PROVE  IInv'
<1> USE DEF IInv, dbVars, txVars
<1>1. CursorOK' /\ RowsKept' /\ LockOwner' /\ LocksHeld' /\ Images'
  BY DEF CursorOK, RowsKept, LockOwner, LocksHeld, Images, Active, CurrentItem
<1>2. NothingUnheld' /\ BooksAgree' /\ NonNegativeStock' /\ ImagesNonNegative'
  BY DEF NothingUnheld, BooksAgree, NonNegativeStock, ImagesNonNegative, Active
<1>3. SaveAccepted' /\ BookedWhenDated'
  BY DEF SaveAccepted, BookedWhenDated, LegAccepted, CurrentItem, CurrentKey
<1> QED
  BY <1>1, <1>2, <1>3

-----------------------------------------------------------------------------
(***************************************************************************)
(* The invariant, and what follows from it.                                *)
(***************************************************************************)
\* The cancelling request is a sequence of items.
LEMMA ReversalIsRequest ==
  ASSUME IInv, NEW doc \in Txs, Cancellable(doc)
  PROVE  Reversal(doc) \in Seq(Item) \ {<<>>}
<1>1. hist[doc] \in Seq(History) /\ hist[doc] # <<>>
  BY DEF IInv, TypeOK, Cancellable
<1>2. req[doc][1].month \in Months
  <2>1. req[doc] \in Seq(Item) /\ req[doc] # <<>>
    BY DEF IInv, TypeOK, CursorOK, Cancellable
  <2>2. req[doc][1] \in Item
    BY <2>1
  <2> QED
    BY <2>2 DEF Item
<1>3. \A i \in 1..Len(hist[doc]) : Opposite(hist[doc][i], req[doc][1].month) \in Item
  BY <1>1, <1>2, OppositeIsItem
<1> QED
  BY <1>1, <1>3 DEF Reversal

\* The inductive invariant holds in every reachable state.
THEOREM Invariance == Spec => []IInv
<1>1. Init => IInv
  BY InitIInv
<1>2. IInv /\ [Next]_vars => IInv'
  <2> SUFFICES ASSUME IInv, [Next]_vars PROVE IInv'
    OBVIOUS
  <2>1. ASSUME NEW t \in Txs, Submit(t) PROVE IInv'
    BY <2>1, BeginIInv, RequestAssumption DEF Submit
  <2>2. ASSUME NEW t \in Txs, NEW doc \in Txs, Cancel(t, doc) PROVE IInv'
    BY <2>2, BeginIInv, ReversalIsRequest DEF Cancel
  <2>3. ASSUME NEW t \in Txs, Rollback(t) PROVE IInv'
    BY <2>3, RollbackIInv
  <2>4. ASSUME NEW t \in Txs, CheckMonths(t) PROVE IInv'
    BY <2>3, <2>4, CheckIInv DEF CheckMonths
  <2>5. ASSUME NEW t \in Txs, LockNext(t) PROVE IInv'
    BY <2>5, LockNextIInv
  <2>6. ASSUME NEW t \in Txs, Load(t) PROVE IInv'
    <3>1. CASE LegAccepted(t)
      BY <2>6, <3>1, LoadIInv DEF Load
    <3> QED
      BY <2>3, <2>6, <3>1 DEF Load
  <2>7. ASSUME NEW t \in Txs, Save(t) PROVE IInv'
    BY <2>7, SaveIInv
  <2>8. ASSUME NEW t \in Txs, Commit(t) PROVE IInv'
    BY <2>3, <2>8, CommitIInv DEF Commit
  <2>9. ASSUME NEW t \in Txs,
               LockConflict(t) \/ SaveDuplicate(t) \/ LockTimeout(t) \/ Fail(t)
        PROVE IInv'
    BY <2>3, <2>9 DEF LockConflict, SaveDuplicate, LockTimeout, Fail
  <2>10. ASSUME NEW c \in Closers, CloseRead(c) \/ CloseCommit(c) \/ CloseFail(c)
         PROVE IInv'
    <3>1. UNCHANGED <<dbVars, lock, txVars>>
      BY <2>10 DEF CloseRead, CloseCommit, CloseFail
    <3>2. closed' \subseteq Months /\ closing' \in [Months -> [Keys -> Int]]
      <4>1. /\ closed \subseteq Months /\ closing \in [Months -> [Keys -> Int]]
            /\ cmonth[c] \in Months
            /\ [k \in Keys |-> csnap[c][k][cmonth[c]]] \in [Keys -> Int]
        BY DEF IInv, TypeOK
      <4>2. CASE CloseCommit(c)
        BY <4>1, <4>2 DEF CloseCommit
      <4> QED
        BY <2>10, <4>1, <4>2 DEF CloseRead, CloseFail
    <3>3. cpc' \in [Closers -> {"idle", "read"}] /\ cmonth' \in [Closers -> Months]
          /\ csnap' \in [Closers -> [Keys -> [Months -> Int]]]
      <4>1. /\ cpc \in [Closers -> {"idle", "read"}]
            /\ cmonth \in [Closers -> Months]
            /\ csnap \in [Closers -> [Keys -> [Months -> Int]]]
            /\ balance \in [Keys -> [Months -> Int]]
            /\ Nothing \in [Keys -> [Months -> Int]] /\ 1 \in Months
        BY MonthAssumption DEF IInv, TypeOK, Nothing, Months
      <4>2. CASE CloseRead(c)
        BY <4>1, <4>2 DEF CloseRead
      <4>3. CASE CloseReset(c)
        BY <4>1, <4>3 DEF CloseReset
      <4> QED
        BY <2>10, <4>2, <4>3 DEF CloseCommit, CloseFail
    <3>4. TypeOK'
      BY <3>1, <3>2, <3>3 DEF IInv, TypeOK, dbVars, txVars
    <3> QED
      BY <3>1, <3>4, MonthIInv
  <2>11. CASE UNCHANGED vars
    <3>1. TypeOK'
      BY <2>11 DEF vars, dbVars, txVars, monthVars, IInv, TypeOK
    <3> QED
      BY <2>11, <3>1, MonthIInv DEF vars
  <2> QED
    BY <2>1, <2>2, <2>4, <2>5, <2>6, <2>7, <2>8, <2>9, <2>10, <2>11
    DEF Next, Proceed
<1> QED
  BY <1>1, <1>2, PTL DEF Spec

\* The variables keep their types.
THEOREM TypeCorrect == Spec => []TypeOK
  BY Invariance, PTL DEF IInv

\* Stock is never negative (executeOut, executeAdj).
THEOREM StockNeverNegative == Spec => []NonNegativeStock
  BY Invariance, PTL DEF IInv

\* The row of a key that existed before the requests equals its history.
THEOREM BooksAlwaysAgree == Spec => []BooksAgree
  BY Invariance, PTL DEF IInv

\* Requests never wait for each other on rows that existed before them.
THEOREM ExistingRowsNeverBlock == Spec => []NoWaitOnExistingRows
<1>1. IInv => NoWaitOnExistingRows
  <2> SUFFICES ASSUME IInv, NEW t \in Txs, pc[t] = "save",
                      CurrentKey(t) \in Provisioned
               PROVE  lock[CurrentKey(t)] = t
    BY DEF NoWaitOnExistingRows, Blocked, Unblocked
  <2>1. CurrentKey(t) \in KeysOf(req[t]) /\ todo[t] = {}
    BY CurrentLeg DEF IInv, CursorOK
  <2> QED
    BY <2>1 DEF IInv, LocksHeld, Active
<1> QED
  BY <1>1, Invariance, PTL

\* A closing is never rewritten and no month is reopened (closeMonth).
LEMMA ClosingStep ==
  ASSUME IInv, Next, NEW m \in closed
  PROVE  m \in closed' /\ closing'[m] = closing[m]
<1>1. ASSUME NEW c \in Closers, CloseCommit(c)
      PROVE  m \in closed' /\ closing'[m] = closing[m]
  BY <1>1 DEF CloseCommit, IInv, TypeOK
<1>2. CASE UNCHANGED <<closed, closing>>
  BY <1>2
<1>3. ASSUME NEW t \in Txs, Submit(t) \/ Proceed(t) \/ Fail(t)
      PROVE  UNCHANGED <<closed, closing>>
  <2>1. Rollback(t) => UNCHANGED <<closed, closing>>
    BY DEF Rollback, monthVars
  <2>2. CASE Submit(t) \/ CheckMonths(t) \/ LockNext(t) \/ Load(t) \/ Save(t)
    BY <2>1, <2>2 DEF Submit, Begin, CheckMonths, LockNext, Load, Save, monthVars
  <2>3. CASE Commit(t)
    BY <2>1, <2>3 DEF Commit, monthVars
  <2>4. CASE LockConflict(t) \/ SaveDuplicate(t) \/ LockTimeout(t) \/ Fail(t)
    BY <2>1, <2>4 DEF LockConflict, SaveDuplicate, LockTimeout, Fail
  <2> QED
    BY <1>3, <2>2, <2>3, <2>4 DEF Proceed
<1>4. ASSUME NEW t \in Txs, NEW doc \in Txs, Cancel(t, doc)
      PROVE  UNCHANGED <<closed, closing>>
  BY <1>4 DEF Cancel, Begin, monthVars
<1>5. ASSUME NEW c \in Closers, CloseRead(c) \/ CloseFail(c)
      PROVE  UNCHANGED <<closed, closing>>
  BY <1>5 DEF CloseRead, CloseFail
<1> QED
  BY <1>1, <1>2, <1>3, <1>4, <1>5 DEF Next

THEOREM ClosingsAreFinal == Spec => ClosingIsFinal
<1>1. IInv /\ [Next]_vars =>
        [\A m \in closed : m \in closed' /\ closing'[m] = closing[m]]_vars
  BY ClosingStep
<1> QED
  BY <1>1, Invariance, PTL DEF Spec, ClosingIsFinal

\* A transaction past its month checks has just passed them, or was past
\* them before with the same request.
LEMMA OnlyChecksActivate ==
  ASSUME IInv, Next, NEW u \in Txs, Active(u)'
  PROVE  /\ req'[u] = req[u]
         /\ Active(u) \/ MonthsOpen(u)
<1> USE DEF IInv, TypeOK
<1>1. ASSUME NEW t \in Txs, Rollback(t)
      PROVE  req'[u] = req[u] /\ Active(u)
  BY <1>1 DEF Rollback, Active
<1>2. ASSUME NEW t \in Txs, NEW items, NEW doc, Begin(t, items, doc)
      PROVE  req'[u] = req[u] /\ Active(u)
  BY <1>2 DEF Begin, Active
<1>3. ASSUME NEW t \in Txs, CheckMonths(t)
      PROVE  req'[u] = req[u] /\ (Active(u) \/ MonthsOpen(u))
  BY <1>1, <1>3 DEF CheckMonths, Active
<1>4. ASSUME NEW t \in Txs, LockNext(t) \/ Load(t) \/ Save(t) \/ Commit(t)
      PROVE  req'[u] = req[u] /\ Active(u)
  BY <1>1, <1>4 DEF LockNext, Load, Save, Commit, Active
<1>5. ASSUME NEW t \in Txs,
             LockConflict(t) \/ SaveDuplicate(t) \/ LockTimeout(t) \/ Fail(t)
      PROVE  req'[u] = req[u] /\ Active(u)
  BY <1>1, <1>5 DEF LockConflict, SaveDuplicate, LockTimeout, Fail
<1>6. ASSUME NEW c \in Closers, CloseRead(c) \/ CloseCommit(c) \/ CloseFail(c)
      PROVE  req'[u] = req[u] /\ Active(u)
  BY <1>6 DEF CloseRead, CloseCommit, CloseFail, txVars, Active
<1> QED
  BY <1>2, <1>3, <1>4, <1>5, <1>6 DEF Next, Submit, Cancel, Proceed

\* Books up to a month settle once the months up to it are closed and the
\* requests that were past their checks have ended (processTransactions
\* checks every month it dates an item in).
THEOREM SettledMonthsAreFinal == Spec => SettledMonthIsFinal
<1>1. IInv /\ [Next]_vars =>
        [\A m \in Months :
           Settled(m) => /\ Settled(m)'
                         /\ \A k \in Keys : balance'[k][m] = balance[k][m]]_vars
  <2> SUFFICES ASSUME IInv, Next, NEW m \in Months, Settled(m)
               PROVE  /\ Settled(m)'
                      /\ \A k \in Keys : balance'[k][m] = balance[k][m]
    OBVIOUS
  <2>1. 1..m \subseteq closed'
    BY ClosingStep DEF Settled
  <2>2. ASSUME NEW t \in Txs, InFlightUpTo(t, m)' PROVE FALSE
    <3>1. req'[t] = req[t] /\ (Active(t) \/ MonthsOpen(t))
      BY <2>2, OnlyChecksActivate DEF InFlightUpTo
    <3>2. PICK n \in MonthsOf(req[t]) : n <= m
      BY <2>2, <3>1 DEF InFlightUpTo
    <3>3. ~Active(t)
      BY <3>2 DEF Settled, InFlightUpTo
    <3>4. n \in 1..m
      <4>1. req[t] \in Seq(Item)
        BY DEF IInv, TypeOK
      <4>2. PICK i \in DOMAIN req[t] : n = req[t][i].month
        BY <3>2 DEF MonthsOf
      <4>3. req[t][i] \in Item
        BY <4>1
      <4> QED
        BY <3>2, <4>2, <4>3 DEF Item, Months
    <3> QED
      BY <3>1, <3>2, <3>3, <3>4 DEF MonthsOpen, Settled
  <2>3. ASSUME NEW k \in Keys PROVE balance'[k][m] = balance[k][m]
    <3>1. ASSUME NEW t \in Txs, Commit(t)
          PROVE  balance'[k][m] = balance[k][m]
      <4>1. pend[t][k][m] = 0
        BY <3>1 DEF IInv, BookedWhenDated, Settled, InFlightUpTo, Active, Commit
      <4>2. CASE NumbersDistinct(req[t])
        BY <3>1, <4>1, <4>2 DEF Commit, IInv, TypeOK
      <4> QED
        BY <3>1, <4>2 DEF Commit, Rollback, dbVars
    <3>2. (\E t \in Txs : Commit(t)) \/ UNCHANGED balance
      <4>1. \A t \in Txs : Submit(t) \/ Fail(t) => UNCHANGED balance
        BY DEF Submit, Begin, Fail, Rollback, dbVars
      <4>2. \A t, doc \in Txs : Cancel(t, doc) => UNCHANGED balance
        BY DEF Cancel, Begin, dbVars
      <4>3. \A t \in Txs : Proceed(t) /\ ~Commit(t) => UNCHANGED balance
        <5>1. \A t \in Txs : Save(t) \/ Load(t) => UNCHANGED balance
          BY DEF Save, Load, Rollback, dbVars
        <5>2. \A t \in Txs : CheckMonths(t) \/ LockNext(t) \/ LockConflict(t)
                             => UNCHANGED balance
          BY DEF CheckMonths, LockNext, LockConflict, Rollback, dbVars
        <5>3. \A t \in Txs : SaveDuplicate(t) \/ LockTimeout(t) => UNCHANGED balance
          BY DEF SaveDuplicate, LockTimeout, Rollback, dbVars
        <5> QED
          BY <5>1, <5>2, <5>3 DEF Proceed
      <4>4. \A c \in Closers : CloseRead(c) \/ CloseCommit(c) \/ CloseFail(c)
              => UNCHANGED balance
        BY DEF CloseRead, CloseCommit, CloseFail, dbVars
      <4> QED
        BY <4>1, <4>2, <4>3, <4>4 DEF Next, vars, dbVars
    <3> QED
      BY <3>1, <3>2
  <2> QED
    BY <2>1, <2>2, <2>3 DEF Settled
<1> QED
  BY <1>1, Invariance, PTL DEF Spec, SettledMonthIsFinal
-----------------------------------------------------------------------------
(***************************************************************************)
(* A cancellation posts the exact opposite of its document.                *)
(***************************************************************************)
\* The sign of a history row follows from its type.
Signed(h) ==
  /\ h.type \in {"IN", "MOVE_IN"}   => h.delta > 0
  /\ h.type \in {"OUT", "MOVE_OUT"} => h.delta < 0

DistinctKeys(hs) == \A i, j \in DOMAIN hs : hs[i].key = hs[j].key => i = j

\* What the rows hs say of the sums p: nothing is booked on a key without a
\* row, and the row alone on a key with one.
Tallied(hs, p) ==
  \A k \in Keys :
    /\ (\A i \in DOMAIN hs : hs[i].key # k) => p[k][LastMonth] = 0
    /\ \A i \in DOMAIN hs :
         hs[i].key = k /\ (\A j \in DOMAIN hs : hs[j].key = k => j = i) =>
           p[k][LastMonth] = hs[i].delta

HistoryOK(t) ==
  /\ pc[t] \in {"idle", "check", "lock"} => hist[t] = <<>>
  /\ \A i \in DOMAIN hist[t] : Signed(hist[t][i])
  /\ Tallied(hist[t], pend[t])

\* A cancellation works through the opposites of a document that stays
\* committed, one history row for each.
CancelOK(t, doc) ==
  /\ pc[t] # "idle" /\ pc[doc] = "committed"
  /\ req[t] = Reversal(doc) /\ DistinctKeys(hist[doc])
  /\ pc[t] \in {"load", "save"} => pos[t] = [item |-> Len(hist[t]) + 1, leg |-> 1]
  /\ pc[t] \in {"commit", "committed"} => Len(hist[t]) = Len(hist[doc])
  /\ \A i \in DOMAIN hist[t] :
       /\ i \in DOMAIN hist[doc]
       /\ hist[t][i].key = hist[doc][i].key
       /\ hist[t][i].delta = 0 - hist[doc][i].delta

CancelsOK(t) == reverses[t] # NoTx => CancelOK(t, reverses[t])

VInv == \A t \in Txs : HistoryOK(t) /\ CancelsOK(t)

\* The opposite of a signed row takes back what the row gave.
LEMMA OppositeLeg ==
  ASSUME NEW h \in History, Signed(h), NEW m
  PROVE  /\ Legs(Opposite(h, m)) = {1}
         /\ LegKey(Opposite(h, m), 1) = h.key
         /\ LegDelta(Opposite(h, m), 1) = 0 - h.delta
  BY DEF History, HistoryTypes, Signed, Opposite, OppositeType, Legs, LegKey, LegDelta,
     TakesStock, AbsQty

\* The row of a valid leg is signed.
LEMMA LegSigned ==
  ASSUME NEW it \in Item, Valid(it), NEW leg \in Legs(it), NEW k, NEW m
  PROVE  Signed([type |-> LegType(it, leg), key |-> k, delta |-> LegDelta(it, leg),
                 month |-> m])
<1>1. it.type # "ADJ" => it.qty > 0 /\ it.qty \in Int
  BY DEF Valid, Item
<1> QED
  BY <1>1 DEF Signed, Item, TxTypes, Legs, LegType, LegDelta, TakesStock

LEMMA TallyAppend ==
  ASSUME NEW hs \in Seq(History), NEW h \in History,
         NEW p, NEW q, Tallied(hs, p), p[h.key][LastMonth] \in Int,
         q[h.key][LastMonth] = p[h.key][LastMonth] + h.delta,
         \A k \in Keys : k # h.key => q[k] = p[k]
  PROVE  Tallied(Append(hs, h), q)
<1> DEFINE new == Append(hs, h)
           n == Len(hs) + 1
<1>1. /\ n \in DOMAIN new /\ new[n] = h
      /\ \A i \in DOMAIN hs : i \in DOMAIN new /\ new[i] = hs[i] /\ i # n
      /\ \A i \in DOMAIN new : i = n \/ i \in DOMAIN hs
  <2>1. /\ Len(hs) \in Nat /\ DOMAIN hs = 1..Len(hs)
        /\ new \in Seq(History) /\ Len(new) = n
    OBVIOUS
  <2>2. DOMAIN new = 1..n /\ new[n] = h
    BY <2>1
  <2>3. \A i \in 1..Len(hs) : new[i] = hs[i]
    OBVIOUS
  <2> QED
    BY <2>1, <2>2, <2>3
<1>2. h.key \in Keys /\ h.delta \in Int
  BY DEF History
<1> HIDE DEF new, n
<1>4. ASSUME NEW k \in Keys, \A i \in DOMAIN new : new[i].key # k
      PROVE  q[k][LastMonth] = 0
  <2>1. h.key # k /\ \A i \in DOMAIN hs : hs[i].key # k
    BY <1>1, <1>4
  <2> QED
    BY <2>1 DEF Tallied
<1>5. ASSUME NEW k \in Keys, NEW i \in DOMAIN new, new[i].key = k,
             \A j \in DOMAIN new : new[j].key = k => j = i
      PROVE  q[k][LastMonth] = new[i].delta
  <2>1. CASE i = n
    <3>1. h.key = k /\ \A j \in DOMAIN hs : hs[j].key # k
      BY <1>1, <1>5, <2>1
    <3>2. p[k][LastMonth] = 0
      BY <3>1 DEF Tallied
    <3> QED
      BY <1>1, <1>2, <2>1, <3>1, <3>2
  <2>2. CASE i # n
    <3>1. i \in DOMAIN hs /\ hs[i].key = k /\ h.key # k
      BY <1>1, <1>5, <2>2
    <3>2. \A j \in DOMAIN hs : hs[j].key = k => j = i
      BY <1>1, <1>5
    <3>3. p[k][LastMonth] = hs[i].delta
      BY <3>1, <3>2 DEF Tallied
    <3> QED
      BY <1>1, <3>1, <3>3
  <2> QED
    BY <2>1, <2>2
<1>6. Tallied(new, q)
  BY <1>4, <1>5 DEF Tallied
<1> QED
  BY <1>6 DEF new

\* An open transaction moves and its own history stays in order: the
\* committed documents, and the cancellations of them, are not disturbed.
LEMMA OthersKeepV ==
  ASSUME VInv, NEW t \in Txs, pc[t] # "committed",
         \A u \in Txs \ {t} :
           /\ pc'[u] = pc[u] /\ req'[u] = req[u] /\ reverses'[u] = reverses[u]
           /\ pos'[u] = pos[u] /\ hist'[u] = hist[u] /\ pend'[u] = pend[u],
         HistoryOK(t)', CancelsOK(t)',
         \A u \in Txs : reverses[u] \in Txs \union {NoTx}
  PROVE  VInv'
<1> SUFFICES ASSUME NEW u \in Txs \ {t}
             PROVE  HistoryOK(u)' /\ CancelsOK(u)'
  BY DEF VInv
<1>1. HistoryOK(u)'
  BY DEF VInv, HistoryOK, Tallied, Signed
<1>2. ASSUME reverses'[u] # NoTx PROVE CancelsOK(u)'
  <2> DEFINE doc == reverses[u]
  <2>1. reverses'[u] = doc /\ doc \in Txs /\ CancelOK(u, doc)
    BY <1>2 DEF VInv, CancelsOK
  <2>2. doc # t /\ req'[doc] = req[doc] /\ hist'[doc] = hist[doc] /\ pc'[doc] = pc[doc]
    BY <2>1 DEF CancelOK
  <2> HIDE DEF doc
  <2> QED
    BY <2>1, <2>2 DEF CancelsOK, CancelOK, Reversal, DistinctKeys
<1>3. ASSUME reverses'[u] = NoTx PROVE CancelsOK(u)'
  BY <1>3 DEF CancelsOK
<1> QED
  BY <1>1, <1>2, <1>3

LEMMA InitV == Init => VInv
<1> SUFFICES ASSUME Init, NEW t \in Txs PROVE HistoryOK(t) /\ reverses[t] = NoTx
  BY DEF VInv, CancelsOK
<1>1. hist[t] = <<>> /\ pend[t] = Nothing /\ reverses[t] = NoTx
  BY DEF Init
<1> QED
  BY <1>1, MonthFacts DEF HistoryOK, Tallied, Nothing

\* A request begins, and a cancellation takes the opposites of a document.
LEMMA BeginV ==
  ASSUME IInv, VInv, NEW t \in Txs,
         Submit(t) \/ \E doc \in Txs : Cancel(t, doc)
  PROVE  VInv'
<1>1. PICK doc \in Txs \union {NoTx} : \E items :
        /\ Begin(t, items, doc)
        /\ doc # NoTx => doc \in Txs /\ Cancellable(doc) /\ items = Reversal(doc)
  <2>1. ASSUME NEW u \in Txs, Cancel(t, u)
        PROVE  Begin(t, Reversal(u), u) /\ Cancellable(u)
    BY <2>1 DEF Cancel
  <2>2. ASSUME NEW items \in Requests, Begin(t, items, NoTx)
        PROVE  Begin(t, items, NoTx) /\ NoTx \in Txs \union {NoTx}
    BY <2>2
  <2> QED
    BY <2>1, <2>2 DEF Submit
<1> PICK items : /\ Begin(t, items, doc)
                 /\ doc # NoTx => /\ doc \in Txs /\ Cancellable(doc)
                                  /\ items = Reversal(doc)
  BY <1>1
<1>2. /\ pc[t] = "idle" /\ pc'[t] = "check" /\ reverses'[t] = doc /\ req'[t] = items
      /\ hist' = hist /\ pend' = pend /\ pos' = pos
      /\ \A u \in Txs \ {t} :
           pc'[u] = pc[u] /\ req'[u] = req[u] /\ reverses'[u] = reverses[u]
  BY DEF Begin, IInv, TypeOK
<1>3. hist[t] = <<>> /\ HistoryOK(t)'
  BY <1>2 DEF VInv, HistoryOK, Tallied, Signed
<1>4. ASSUME doc # NoTx PROVE CancelsOK(t)'
  <2>1. doc \in Txs /\ doc # t /\ pc[doc] = "committed" /\ DistinctKeys(hist[doc])
    BY <1>2, <1>4 DEF Cancellable, DistinctKeys
  <2>2. req'[doc] = req[doc] /\ pc'[doc] = pc[doc]
    BY <1>2, <2>1
  <2>3. req'[t] = [i \in DOMAIN hist[doc] |-> Opposite(hist[doc][i], req'[doc][1].month)]
    BY <1>2, <1>4, <2>2 DEF Reversal
  <2>4. \A i \in DOMAIN hist[t] : FALSE
    BY <1>3
  <2> QED
    BY <1>2, <2>1, <2>2, <2>3, <2>4 DEF CancelsOK, CancelOK, Reversal, DistinctKeys
<1>5. ASSUME doc = NoTx PROVE CancelsOK(t)'
  BY <1>2, <1>5 DEF CancelsOK
<1>6. CancelsOK(t)'
  BY <1>4, <1>5
<1> QED
  BY <1>2, <1>3, <1>6, OthersKeepV DEF IInv, TypeOK

\* A transaction rolls back.
LEMMA RollbackV ==
  ASSUME IInv, VInv, NEW t \in Txs, pc[t] # "committed", Rollback(t)
  PROVE  VInv'
<1>1. /\ hist'[t] = <<>> /\ pend'[t] = Nothing /\ reverses'[t] = NoTx
      /\ \A u \in Txs \ {t} :
           /\ pc'[u] = pc[u] /\ req'[u] = req[u] /\ reverses'[u] = reverses[u]
           /\ pos'[u] = pos[u] /\ hist'[u] = hist[u] /\ pend'[u] = pend[u]
  BY DEF Rollback, IInv, TypeOK
<1>2. HistoryOK(t)'
  BY <1>1, MonthFacts DEF HistoryOK, Tallied, Nothing
<1>3. CancelsOK(t)'
  BY <1>1 DEF CancelsOK
<1> QED
  BY <1>1, <1>2, <1>3, OthersKeepV DEF IInv, TypeOK

\* A transaction moves on without a history row.
LEMMA MoveV ==
  ASSUME IInv, VInv, NEW t \in Txs, NEW phase \in Phases,
         \/ pc[t] = "check" /\ phase = "lock"
         \/ pc[t] = "lock" /\ phase \in {"lock", "load"}
         \/ pc[t] = "load" /\ phase = "save"
         \/ pc[t] = "commit" /\ phase = "committed",
         pc' = [pc EXCEPT ![t] = phase],
         UNCHANGED <<req, reverses, pos, hist, pend>>
  PROVE  VInv'
<1>1. pc'[t] = phase /\ \A u \in Txs \ {t} : pc'[u] = pc[u]
  BY DEF IInv, TypeOK
<1>2. HistoryOK(t)'
  BY <1>1 DEF VInv, HistoryOK, Tallied, Signed
<1>3. ASSUME reverses[t] # NoTx PROVE CancelsOK(t)'
  <2> DEFINE doc == reverses[t]
  <2>1. doc \in Txs /\ CancelOK(t, doc) /\ doc = reverses'[t]
    BY <1>3 DEF VInv, CancelsOK, IInv, TypeOK
  <2>2. pc'[doc] = "committed"
    BY <1>1, <2>1 DEF CancelOK
  <2>3. phase = "load" => pos[t] = [item |-> Len(hist[t]) + 1, leg |-> 1]
    BY DEF VInv, HistoryOK, IInv, CursorOK, Start
  <2> HIDE DEF doc
  <2> QED
    BY <1>1, <2>1, <2>2, <2>3 DEF CancelsOK, CancelOK, Reversal, DistinctKeys
<1>4. ASSUME reverses[t] = NoTx PROVE CancelsOK(t)'
  BY <1>4 DEF CancelsOK
<1>5. CancelsOK(t)'
  BY <1>3, <1>4
<1> QED
  BY <1>1, <1>2, <1>5, OthersKeepV DEF IInv, TypeOK

\* A leg is saved: one more row, signed, tallied, and in a cancellation the
\* opposite of the row in the same place.
LEMMA SaveV ==
  ASSUME IInv, VInv, NEW t \in Txs, Save(t)
  PROVE  VInv'
<1> DEFINE it  == CurrentItem(t)
           leg == pos[t].leg
           k   == CurrentKey(t)
           d   == LegDelta(it, leg)
           h   == [type |-> LegType(it, leg), key |-> k, delta |-> d,
                   month |-> it.month]
           sum == [m \in Months |-> pend[t][k][m] + (IF it.month <= m THEN d ELSE 0)]
           n   == Len(hist[t]) + 1
<1>1. /\ pc[t] = "save" /\ UNCHANGED <<req, reverses>>
      /\ hist' = [hist EXCEPT ![t] = Append(hist[t], h)]
      /\ pend' = [pend EXCEPT ![t][k] = sum]
      /\ pos' = [pos EXCEPT ![t] = NextPos(t)]
      /\ pc' = [pc EXCEPT ![t] = IF NextPos(t).item \in DOMAIN req[t]
                                 THEN "load" ELSE "commit"]
  BY DEF Save
<1>2. /\ it \in Item /\ leg \in Legs(it) /\ k \in Keys
      /\ it = req[t][pos[t].item] /\ pos[t].item \in DOMAIN req[t]
      /\ Valid(it) /\ k = LegKey(it, leg)
  BY <1>1, CurrentLeg
  DEF IInv, CursorOK, SaveAccepted, LegAccepted, CurrentItem, CurrentKey
<1>3. d \in Int /\ h \in History /\ it.month \in Months
  BY <1>2, LegTypes DEF History, Item
<1>4. /\ hist'[t] = Append(hist[t], h) /\ hist[t] \in Seq(History)
      /\ pos'[t] = NextPos(t)
      /\ pc'[t] = (IF NextPos(t).item \in DOMAIN req[t] THEN "load" ELSE "commit")
      /\ pend'[t] = [pend[t] EXCEPT ![k] = sum]
      /\ pend[t] \in [Keys -> [Months -> Int]]
  BY <1>1 DEF IInv, TypeOK
<1>5. \A u \in Txs \ {t} :
        /\ pc'[u] = pc[u] /\ req'[u] = req[u] /\ reverses'[u] = reverses[u]
        /\ pos'[u] = pos[u] /\ hist'[u] = hist[u] /\ pend'[u] = pend[u]
  BY <1>1 DEF IInv, TypeOK
<1>6. Signed(h)
  BY <1>2, LegSigned
<1>7. /\ pend[t][k][LastMonth] \in Int
      /\ pend'[t][k][LastMonth] = pend[t][k][LastMonth] + d
      /\ \A j \in Keys : j # k => pend'[t][j] = pend[t][j]
  <2>1. LastMonth \in Months /\ it.month <= LastMonth
    BY <1>3, MonthFacts DEF Months
  <2>2. sum[LastMonth] = pend[t][k][LastMonth] + d
    BY <2>1
  <2> HIDE DEF sum
  <2> QED
    BY <1>2, <1>4, <2>1, <2>2
<1>8. h.key = k /\ h.delta = d /\ k = LegKey(it, leg) /\ d = LegDelta(it, leg)
  BY <1>2
<1> HIDE DEF it, leg, k, d, h, sum
<1>9. /\ Len(hist[t]) \in Nat /\ n \in Nat /\ Len(hist'[t]) = n
      /\ DOMAIN hist[t] = 1..Len(hist[t]) /\ DOMAIN hist'[t] = 1..n
      /\ hist'[t][n] = h
      /\ \A i \in DOMAIN hist[t] : hist'[t][i] = hist[t][i]
      /\ \A i \in DOMAIN hist'[t] : i = n \/ i \in DOMAIN hist[t]
  <2>1. /\ Len(hist[t]) \in Nat /\ DOMAIN hist[t] = 1..Len(hist[t])
        /\ hist'[t] \in Seq(History) /\ Len(hist'[t]) = n
    BY <1>3, <1>4
  <2>2. DOMAIN hist'[t] = 1..n /\ hist'[t][n] = h
    BY <1>3, <1>4, <2>1
  <2>3. \A i \in 1..Len(hist[t]) : hist'[t][i] = hist[t][i]
    BY <1>3, <1>4
  <2> QED
    BY <2>1, <2>2, <2>3
<1>10. HistoryOK(t)'
  <2>1. Tallied(hist[t], pend[t]) /\ \A i \in DOMAIN hist[t] : Signed(hist[t][i])
    BY DEF VInv, HistoryOK
  <2>2. Tallied(Append(hist[t], h), pend'[t])
    <3> DEFINE p == pend[t]  q == pend'[t]  hs == hist[t]
    <3>1. /\ hs \in Seq(History) /\ h \in History /\ Tallied(hs, p)
          /\ p[h.key][LastMonth] \in Int
          /\ q[h.key][LastMonth] = p[h.key][LastMonth] + h.delta
          /\ \A j \in Keys : j # h.key => q[j] = p[j]
      BY <1>3, <1>4, <1>7, <1>8, <2>1
    <3> HIDE DEF p, q, hs
    <3>2. Tallied(Append(hs, h), q)
      BY <3>1, TallyAppend
    <3> QED
      BY <3>2 DEF p, q, hs
  <2>3. \A i \in DOMAIN hist'[t] : Signed(hist'[t][i])
    BY <1>6, <1>9, <2>1
  <2> QED
    BY <1>4, <2>2, <2>3 DEF HistoryOK, Tallied, Signed
<1>11. ASSUME reverses[t] # NoTx PROVE CancelsOK(t)'
  <2> DEFINE doc == reverses[t]
  <2>1. doc \in Txs /\ CancelOK(t, doc) /\ doc = reverses'[t]
    BY <1>1, <1>11 DEF VInv, CancelsOK, IInv, TypeOK
  <2>2. doc # t /\ pc'[doc] = "committed" /\ hist'[doc] = hist[doc] /\ req'[doc] = req[doc]
    BY <1>1, <1>5, <2>1 DEF CancelOK
  <2>3. pos[t] = [item |-> n, leg |-> 1] /\ leg = 1
    BY <1>1, <2>1 DEF CancelOK, leg
  <2>4. /\ req[t] = Reversal(doc) /\ DOMAIN req[t] = DOMAIN hist[doc]
        /\ DOMAIN hist[doc] = 1..Len(hist[doc]) /\ Len(hist[doc]) \in Nat
        /\ hist[doc] \in Seq(History)
    BY <2>1 DEF CancelOK, Reversal, IInv, TypeOK
  <2>5. n \in 1..Len(hist[doc])
    BY <1>2, <2>3, <2>4
  <2>6. it = Opposite(hist[doc][n], req[doc][1].month)
    BY <1>2, <2>3, <2>4, <2>5 DEF Reversal
  <2>7. hist[doc][n] \in History /\ Signed(hist[doc][n])
    BY <2>1, <2>4, <2>5 DEF VInv, HistoryOK
  <2>8. Legs(it) = {1} /\ h.key = hist[doc][n].key /\ h.delta = 0 - hist[doc][n].delta
    BY <1>8, <2>3, <2>6, <2>7, OppositeLeg
  <2>9. NextPos(t) = [item |-> n + 1, leg |-> 1]
    BY <2>3, <2>8, <1>9 DEF NextPos, it
  <2>10. pc'[t] = "load" \/ (pc'[t] = "commit" /\ n = Len(hist[doc]))
    BY <1>4, <1>9, <2>4, <2>5, <2>9
  <2>11. \A i \in DOMAIN hist'[t] :
           /\ i \in DOMAIN hist[doc]
           /\ hist'[t][i].key = hist[doc][i].key
           /\ hist'[t][i].delta = 0 - hist[doc][i].delta
    BY <1>9, <2>1, <2>4, <2>5, <2>8 DEF CancelOK
  <2>12. Len(hist'[t]) = n /\ pos'[t] = [item |-> Len(hist'[t]) + 1, leg |-> 1]
    BY <1>4, <1>9, <2>9
  <2>13. req'[t] = [i \in DOMAIN hist[doc] |-> Opposite(hist[doc][i], req[doc][1].month)]
    BY <1>1, <2>4 DEF Reversal
  <2> HIDE DEF doc, n
  <2>14. DistinctKeys(hist'[doc])
    BY <2>1, <2>2 DEF CancelOK
  <2>15. /\ pc'[t] \in {"commit", "committed"} => Len(hist'[t]) = Len(hist'[doc])
         /\ pc'[t] # "idle"
    BY <2>2, <2>10, <2>12
  <2> QED
    BY <2>1, <2>2, <2>11, <2>12, <2>13, <2>14, <2>15
    DEF CancelsOK, CancelOK, Reversal, DistinctKeys
<1>12. ASSUME reverses[t] = NoTx PROVE CancelsOK(t)'
  BY <1>1, <1>12 DEF CancelsOK
<1>13. CancelsOK(t)'
  BY <1>11, <1>12
<1> QED
  BY <1>1, <1>5, <1>10, <1>13, OthersKeepV DEF IInv, TypeOK

LEMMA VInvariance == Spec => []VInv
<1>1. IInv /\ VInv /\ [Next]_vars => VInv'
  <2> SUFFICES ASSUME IInv, VInv, [Next]_vars PROVE VInv'
    OBVIOUS
  <2>1. ASSUME NEW t \in Txs, Rollback(t), pc[t] # "committed" PROVE VInv'
    BY <2>1, RollbackV
  <2>2. ASSUME NEW t \in Txs, Submit(t) \/ \E doc \in Txs : Cancel(t, doc) PROVE VInv'
    BY <2>2, BeginV
  <2>3. ASSUME NEW t \in Txs, CheckMonths(t) PROVE VInv'
    BY <2>1, <2>3, MoveV DEF CheckMonths, Phases
  <2>4. ASSUME NEW t \in Txs, LockNext(t) PROVE VInv'
    <3>1. PICK phase \in {"lock", "load"} : pc' = [pc EXCEPT ![t] = phase]
      BY <2>4 DEF LockNext
    <3> QED
      BY <2>4, <3>1, MoveV DEF LockNext, Phases
  <2>5. ASSUME NEW t \in Txs, Load(t) PROVE VInv'
    BY <2>1, <2>5, MoveV DEF Load, Phases
  <2>6. ASSUME NEW t \in Txs, Commit(t) PROVE VInv'
    BY <2>1, <2>6, MoveV DEF Commit, Phases
  <2>7. ASSUME NEW t \in Txs, Proceed(t) PROVE VInv'
    BY <2>1, <2>3, <2>4, <2>5, <2>6, <2>7, SaveV
    DEF Proceed, LockConflict, SaveDuplicate, LockTimeout
  <2>8. CASE UNCHANGED txVars
    BY <2>8 DEF txVars, VInv, HistoryOK, CancelsOK, CancelOK, Reversal, Tallied, Signed, DistinctKeys
  <2> QED
    BY <2>1, <2>2, <2>7, <2>8 DEF Next, Fail, CloseRead, CloseCommit, CloseFail, vars
<1> QED
  BY <1>1, InitV, Invariance, PTL DEF Spec

\* A committed cancellation has booked, key by key, the exact opposite of
\* what its document had booked.
THEOREM ReversalsAreExact == Spec => []ReversalIsExactInverse
<1>1. IInv /\ VInv => ReversalIsExactInverse
  <2> SUFFICES ASSUME IInv, VInv, NEW t \in Txs, pc[t] = "committed",
                      reverses[t] # NoTx, NEW k \in Keys
               PROVE  pend[t][k][LastMonth] = 0 - pend[reverses[t]][k][LastMonth]
    BY DEF ReversalIsExactInverse
  <2> DEFINE doc == reverses[t]
  <2>1. /\ doc \in Txs /\ CancelOK(t, doc)
        /\ Tallied(hist[t], pend[t]) /\ Tallied(hist[doc], pend[doc])
    BY DEF VInv, HistoryOK, CancelsOK, IInv, TypeOK
  <2>2. /\ DOMAIN hist[t] = DOMAIN hist[doc] /\ DistinctKeys(hist[doc])
        /\ \A i \in DOMAIN hist[doc] : /\ hist[t][i].key = hist[doc][i].key
                                       /\ hist[t][i].delta = 0 - hist[doc][i].delta
    BY <2>1 DEF CancelOK, IInv, TypeOK
  <2> HIDE DEF doc
  <2>3. CASE \A i \in DOMAIN hist[doc] : hist[doc][i].key # k
    <3>1. pend[doc][k][LastMonth] = 0 /\ pend[t][k][LastMonth] = 0
      BY <2>1, <2>2, <2>3 DEF Tallied
    <3> QED
      BY <3>1 DEF doc
  <2>4. ASSUME NEW i \in DOMAIN hist[doc], hist[doc][i].key = k
        PROVE  pend[t][k][LastMonth] = 0 - pend[doc][k][LastMonth]
    <3>1. \A j \in DOMAIN hist[doc] : hist[doc][j].key = k => j = i
      BY <2>2, <2>4 DEF DistinctKeys
    <3>2. pend[doc][k][LastMonth] = hist[doc][i].delta
      BY <2>1, <2>4, <3>1 DEF Tallied
    <3>3. pend[t][k][LastMonth] = hist[t][i].delta
      BY <2>1, <2>2, <2>4, <3>1 DEF Tallied
    <3> QED
      BY <2>2, <3>2, <3>3
  <2> QED
    BY <2>3, <2>4 DEF doc
<1> QED
  BY <1>1, Invariance, VInvariance, PTL

-----------------------------------------------------------------------------
(***************************************************************************)
(* The rows that exist from the start implement AtomicStock: what a        *)
(* transaction has booked is the effect of the legs it has saved, none of  *)
(* which took a row below zero.                                            *)
(***************************************************************************)
\* The legs before position p.
Before(items, p) ==
  {s \in Atomic!LegsOf(items) :
     s[1] < p.item \/ (s[1] = p.item /\ s[2] < p.leg)}

\* What is booked on a row is the effect of the legs saved.
BookedIsEffect(t) ==
  \A k \in Provisioned : \A m \in Months :
    pend[t][k][m] = Atomic!Effect(req[t], Before(req[t], pos[t]), k, m)

\* No saved leg took a row of the request below zero.
NeverBelow(t) ==
  \A k \in Provisioned :
    pc[t] \in {"load", "save", "commit"} /\ k \in KeysOf(req[t]) =>
      \A s \in Before(req[t], pos[t]) :
        qty[k] + Atomic!Effect(req[t], Atomic!Upto(req[t], s), k, LastMonth) >= 0

AllSaved(t) == pc[t] = "commit" => Before(req[t], pos[t]) = Atomic!LegsOf(req[t])

ROK(t) == BookedIsEffect(t) /\ NeverBelow(t) /\ AllSaved(t)

RInv == \A t \in Txs : ROK(t)

\* A leg of a request.
LEMMA LegOf ==
  ASSUME NEW items \in Seq(Item), NEW s \in Atomic!LegsOf(items)
  PROVE  /\ s = <<s[1], s[2]>> /\ s[1] \in DOMAIN items /\ s[1] \in Nat
         /\ s[2] \in 1..2 /\ s[2] \in Legs(items[s[1]])
         /\ items[s[1]] \in Item
<1>1. /\ s \in (DOMAIN items) \X (1..2)
      /\ s[2] \in Atomic!Legs(items[s[1]])
  BY DEF Atomic!LegsOf
<1>2. s = <<s[1], s[2]>> /\ s[1] \in DOMAIN items /\ s[2] \in 1..2
  BY <1>1
<1>3. items[s[1]] \in Item /\ s[1] \in Nat
  BY <1>2
<1> QED
  BY <1>1, <1>2, <1>3 DEF Legs, Atomic!Legs

LEMMA LegsFinite ==
  ASSUME NEW items \in Seq(Item)
  PROVE  IsFiniteSet(Atomic!LegsOf(items))
<1>1. IsFiniteSet(1..Len(items)) /\ IsFiniteSet(1..2)
  <2>1. Len(items) \in Int /\ 1 \in Int /\ 2 \in Int
    OBVIOUS
  <2> QED
    BY <2>1, FS_Interval
<1>2. IsFiniteSet((1..Len(items)) \X (1..2))
  BY <1>1, FS_Product
<1>3. Atomic!LegsOf(items) \subseteq (1..Len(items)) \X (1..2)
  BY DEF Atomic!LegsOf
<1> QED
  BY <1>2, <1>3, FS_Subset

\* The effect of some legs, as a sum of this module's.
LEMMA EffectIsSum ==
  ASSUME NEW items, NEW S, NEW k, NEW m
  PROVE  Atomic!Effect(items, S, k, m) =
           SumFunctionOnSet([s \in S |-> Atomic!LegEffect(items, s, k, m)], S)
  BY DEF Atomic!Effect, Atomic!SumFunctionOnSet, Atomic!FoldFunctionOnSet,
     Atomic!MapThenFoldSet, SumFunctionOnSet, FoldFunctionOnSet, MapThenFoldSet

LEMMA LegEffectInt ==
  ASSUME NEW items \in Seq(Item), NEW s \in Atomic!LegsOf(items), NEW k, NEW m
  PROVE  /\ Atomic!LegEffect(items, s, k, m) \in Int
         /\ Atomic!LegEffect(items, s, k, m) =
              IF LegKey(items[s[1]], s[2]) = k /\ items[s[1]].month <= m
              THEN LegDelta(items[s[1]], s[2]) ELSE 0
<1>1. items[s[1]] \in Item /\ s[2] \in Legs(items[s[1]])
  BY LegOf
<1>2. LegDelta(items[s[1]], s[2]) \in Int
  BY <1>1, LegTypes
<1> QED
  BY <1>2 DEF Atomic!LegEffect, Atomic!LegKey, Atomic!LegDelta, Atomic!TakesStock,
     LegKey, LegDelta, TakesStock

\* One more leg adds its own effect.
LEMMA EffectAdd ==
  ASSUME NEW items \in Seq(Item), NEW S \in SUBSET Atomic!LegsOf(items),
         NEW x \in Atomic!LegsOf(items) \ S, NEW k, NEW m
  PROVE  /\ Atomic!Effect(items, S \union {x}, k, m) =
              Atomic!LegEffect(items, x, k, m) + Atomic!Effect(items, S, k, m)
         /\ Atomic!Effect(items, S, k, m) \in Int
<1> DEFINE f == [s \in S |-> Atomic!LegEffect(items, s, k, m)]
           g == [s \in S \union {x} |-> Atomic!LegEffect(items, s, k, m)]
           T == S \union {x}
<1>1. IsFiniteSet(T) /\ IsFiniteSet(S) /\ x \in T /\ T \ {x} = S
  BY LegsFinite, FS_Subset
<1>2. /\ \A s \in T : g[s] \in Int
      /\ \A s \in S : f[s] \in Int /\ g[s] = f[s]
      /\ g[x] = Atomic!LegEffect(items, x, k, m)
  BY LegEffectInt
<1>3. Atomic!Effect(items, S, k, m) = SumFunctionOnSet(f, S)
  BY EffectIsSum
<1>4. Atomic!Effect(items, T, k, m) = SumFunctionOnSet(g, T)
  BY EffectIsSum
<1> HIDE DEF f, g
<1>5. SumFunctionOnSet(g, T) = g[x] + SumFunctionOnSet(g, S)
  <2> HIDE DEF T
  <2> QED
    BY <1>1, <1>2, SumTake
<1>6. SumFunctionOnSet(g, S) = SumFunctionOnSet(f, S)
  BY <1>1, <1>2, SumSame
<1>7. SumFunctionOnSet(f, S) \in Int
  BY <1>1, <1>2, SumInt
<1> QED
  BY <1>2, <1>3, <1>4, <1>5, <1>6, <1>7

\* Legs with no effect on a key have none together.
LEMMA EffectNone ==
  ASSUME NEW items \in Seq(Item), NEW S \in SUBSET Atomic!LegsOf(items), NEW k, NEW m,
         \A s \in S : Atomic!LegEffect(items, s, k, m) = 0
  PROVE  Atomic!Effect(items, S, k, m) = 0
<1> DEFINE f == [s \in S |-> Atomic!LegEffect(items, s, k, m)]
<1>1. IsFiniteSet(S)
  BY LegsFinite, FS_Subset
<1>2. \A s \in S : f[s] = 0
  OBVIOUS
<1>3. Atomic!Effect(items, S, k, m) = SumFunctionOnSet(f, S)
  BY EffectIsSum
<1> HIDE DEF f
<1> QED
  BY <1>1, <1>2, <1>3, SumZero

\* A request has no effect on a key it does not name.
LEMMA EffectElsewhere ==
  ASSUME NEW items \in Seq(Item), NEW S \in SUBSET Atomic!LegsOf(items), NEW k, NEW m,
         k \notin KeysOf(items)
  PROVE  Atomic!Effect(items, S, k, m) = 0
<1>1. ASSUME NEW s \in S PROVE Atomic!LegEffect(items, s, k, m) = 0
  <2>1. s[1] \in DOMAIN items /\ s[2] \in Legs(items[s[1]])
    BY LegOf
  <2>2. LegKey(items[s[1]], s[2]) # k
    BY <2>1 DEF KeysOf
  <2> QED
    BY <2>2, LegEffectInt
<1> QED
  BY <1>1, EffectNone

\* Saving a leg adds it to the legs before the cursor, which are then the
\* legs up to it.
LEMMA OneMoreLeg ==
  ASSUME NEW items \in Seq(Item), NEW i \in DOMAIN items, NEW leg \in Legs(items[i]),
         NEW p, p = [item |-> i, leg |-> leg],
         NEW q, q = IF leg + 1 \in Legs(items[i]) THEN [item |-> i, leg |-> leg + 1]
                    ELSE [item |-> i + 1, leg |-> 1]
  PROVE  /\ <<i, leg>> \in Atomic!LegsOf(items) \ Before(items, p)
         /\ Before(items, q) = Before(items, p) \union {<<i, leg>>}
         /\ Atomic!Upto(items, <<i, leg>>) = Before(items, q)
<1>1. i \in Nat /\ items[i] \in Item /\ leg \in 1..2
  BY DEF Legs
<1>2. <<i, leg>> \in Atomic!LegsOf(items)
  BY <1>1 DEF Atomic!LegsOf, Atomic!Legs, Legs
<1>3. ASSUME NEW s \in Atomic!LegsOf(items)
      PROVE  /\ s \in Before(items, q) <=> s \in Before(items, p) \/ s = <<i, leg>>
             /\ s \in Before(items, q) <=> s[1] < i \/ (s[1] = i /\ s[2] <= leg)
  <2>1. /\ s = <<s[1], s[2]>> /\ s[1] \in Nat /\ s[2] \in 1..2
        /\ s[2] \in Legs(items[s[1]])
    BY LegOf
  <2>2. s = <<i, leg>> <=> s[1] = i /\ s[2] = leg
    BY <2>1
  <2>3. s \in Before(items, p) <=> s[1] < i \/ (s[1] = i /\ s[2] < leg)
    BY DEF Before
  <2>4. CASE leg + 1 \in Legs(items[i])
    <3>1. s \in Before(items, q) <=> s[1] < i \/ (s[1] = i /\ s[2] < leg + 1)
      BY <2>4 DEF Before
    <3> QED
      BY <1>1, <2>1, <2>2, <2>3, <3>1
  <2>5. CASE leg + 1 \notin Legs(items[i])
    <3>1. s \in Before(items, q) <=> s[1] < i + 1 \/ (s[1] = i + 1 /\ s[2] < 1)
      BY <2>5 DEF Before
    <3>2. s[1] = i => s[2] <= leg
      BY <1>1, <2>1, <2>5 DEF Legs
    <3> QED
      BY <1>1, <2>1, <2>2, <2>3, <3>1, <3>2
  <2> QED
    BY <2>4, <2>5
<1>4. <<i, leg>> \notin Before(items, p)
  BY <1>1 DEF Before
<1>5. Atomic!Upto(items, <<i, leg>>) =
        {s \in Atomic!LegsOf(items) : s[1] < i \/ (s[1] = i /\ s[2] <= leg)}
  BY DEF Atomic!Upto
<1>6. \A r : Before(items, r) \subseteq Atomic!LegsOf(items)
  BY DEF Before
<1> QED
  BY <1>2, <1>3, <1>4, <1>5, <1>6

LEMMA NoneBefore ==
  ASSUME NEW items \in Seq(Item)
  PROVE  Before(items, Start) = {}
  BY LegOf DEF Before, Start

LEMMA NoEffect ==
  ASSUME NEW items \in Seq(Item), NEW k, NEW m
  PROVE  Atomic!Effect(items, Before(items, Start), k, m) = 0
<1>1. Before(items, Start) = {}
  BY NoneBefore
<1> QED
  BY <1>1, EffectNone

LEMMA InitR == Init => RInv
<1> SUFFICES ASSUME Init, NEW t \in Txs PROVE ROK(t)
  BY DEF RInv
<1>1. /\ req[t] \in Seq(Item) /\ pos[t] = Start
      /\ pend[t] = Nothing /\ pc[t] = "idle"
  BY DEF Init
<1>2. BookedIsEffect(t)
  BY <1>1, NoEffect, RowAssumption DEF BookedIsEffect, Nothing
<1> QED
  BY <1>1, <1>2 DEF ROK, NeverBelow, AllSaved

\* A step of one transaction changes no row another one has saved a leg on.
LEMMA OthersKeepR ==
  ASSUME IInv, RInv, NEW t \in Txs, ROK(t)',
         \A u \in Txs \ {t} : /\ pc'[u] = pc[u] /\ req'[u] = req[u]
                              /\ pos'[u] = pos[u] /\ pend'[u] = pend[u],
         \A k \in Provisioned : qty'[k] = qty[k] \/ lock[k] = t
  PROVE  RInv'
<1> SUFFICES ASSUME NEW u \in Txs \ {t} PROVE ROK(u)'
  BY DEF RInv
<1>1. ROK(u)
  BY DEF RInv
<1>2. BookedIsEffect(u)' /\ AllSaved(u)'
  BY <1>1 DEF ROK, BookedIsEffect, AllSaved
<1>3. ASSUME NEW k \in Provisioned, pc[u] \in {"load", "save", "commit"},
             k \in KeysOf(req[u])
      PROVE  qty'[k] = qty[k]
  <2>1. lock[k] = u
    BY <1>3 DEF IInv, CursorOK, LocksHeld, Active
  <2> QED
    BY <2>1
<1>4. NeverBelow(u)'
  BY <1>1, <1>3 DEF ROK, NeverBelow
<1> QED
  BY <1>2, <1>4 DEF ROK

\* A transaction at the start of its request.
LEMMA StartR ==
  ASSUME IInv, IInv', RInv, NEW t \in Txs, qty' = qty,
         \A u \in Txs \ {t} : /\ pc'[u] = pc[u] /\ req'[u] = req[u]
                              /\ pos'[u] = pos[u] /\ pend'[u] = pend[u],
         pos'[t] = Start, pend'[t] = Nothing, pc'[t] # "commit"
  PROVE  RInv'
<1>1. req'[t] \in Seq(Item)
  BY DEF IInv, TypeOK
<1>2. BookedIsEffect(t)'
  BY <1>1, NoEffect, RowAssumption DEF BookedIsEffect, Nothing
<1>3. NeverBelow(t)'
  BY <1>1, NoneBefore DEF NeverBelow
<1>4. ROK(t)'
  BY <1>2, <1>3 DEF ROK, AllSaved
<1> QED
  BY <1>4, OthersKeepR

\* A leg is saved: its effect joins the bookings, and leaves its row with
\* zero or more.
LEMMA SaveR ==
  ASSUME IInv, IInv', RInv, NEW t \in Txs, Save(t)
  PROVE  RInv'
<1> DEFINE items == req[t]
           i     == pos[t].item
           leg   == pos[t].leg
           it    == CurrentItem(t)
           key   == CurrentKey(t)
           d     == LegDelta(it, leg)
           cur   == <<i, leg>>
           old   == Before(items, pos[t])
           all   == Before(items, pos'[t])
<1>1. /\ pc[t] = "save" /\ UNCHANGED <<req, qty>>
      /\ pend' = [pend EXCEPT ![t][key] =
                    [m \in Months |-> pend[t][key][m] +
                                      (IF it.month <= m THEN d ELSE 0)]]
      /\ pos' = [pos EXCEPT ![t] = NextPos(t)]
      /\ pc' = [pc EXCEPT ![t] = IF NextPos(t).item \in DOMAIN req[t]
                                 THEN "load" ELSE "commit"]
  BY DEF Save, dbVars
<1>2. /\ items \in Seq(Item) /\ i \in DOMAIN items /\ leg \in Legs(items[i])
      /\ it = items[i] /\ key = LegKey(items[i], leg) /\ key \in Keys
      /\ it \in Item /\ d \in Int /\ i \in Nat /\ leg \in Nat
      /\ pos[t] = [item |-> i, leg |-> leg]
  <2>1. /\ items \in Seq(Item) /\ i \in DOMAIN items /\ leg \in Legs(items[i])
        /\ it = items[i] /\ key = LegKey(items[i], leg)
    BY <1>1 DEF IInv, TypeOK, CursorOK, CurrentItem, CurrentKey
  <2>2. pos[t] \in [item: Nat, leg: Nat]
    BY DEF IInv, TypeOK
  <2>3. it \in Item
    BY <2>1
  <2> QED
    BY <2>1, <2>2, <2>3, LegTypes
<1>3. /\ pos'[t] = IF leg + 1 \in Legs(items[i]) THEN [item |-> i, leg |-> leg + 1]
                   ELSE [item |-> i + 1, leg |-> 1]
      /\ pc'[t] = IF pos'[t].item \in DOMAIN items THEN "load" ELSE "commit"
      /\ \A u \in Txs \ {t} : /\ pc'[u] = pc[u] /\ req'[u] = req[u]
                              /\ pos'[u] = pos[u] /\ pend'[u] = pend[u]
  <2>1. /\ pc \in [Txs -> Phases] /\ pos \in [Txs -> [item: Nat, leg: Nat]]
        /\ req \in [Txs -> Seq(Item)] /\ pend \in [Txs -> [Keys -> [Months -> Int]]]
    BY DEF IInv, TypeOK
  <2>2. NextPos(t) = IF leg + 1 \in Legs(items[i]) THEN [item |-> i, leg |-> leg + 1]
                     ELSE [item |-> i + 1, leg |-> 1]
    <3>1. NextPos(t) = IF leg + 1 \in Legs(it) THEN [pos[t] EXCEPT !.leg = @ + 1]
                       ELSE [item |-> i + 1, leg |-> 1]
      BY DEF NextPos
    <3> QED
      BY <1>2, <3>1
  <2>3. pos'[t] = NextPos(t)
    BY <1>1, <2>1
  <2>4. pc'[t] = IF NextPos(t).item \in DOMAIN items THEN "load" ELSE "commit"
    BY <1>1, <2>1
  <2> QED
    BY <1>1, <2>1, <2>2, <2>3, <2>4
<1>4. \A k \in Keys : \A m \in Months :
        pend'[t][k][m] = pend[t][k][m] +
                         (IF k = key /\ it.month <= m THEN d ELSE 0)
  <2> DEFINE sum == [m \in Months |-> pend[t][key][m] +
                                      (IF it.month <= m THEN d ELSE 0)]
  <2>1. pend \in [Txs -> [Keys -> [Months -> Int]]] /\ pend' = [pend EXCEPT ![t][key] = sum]
    BY <1>1 DEF IInv, TypeOK
  <2>2. \A m \in Months : sum[m] = pend[t][key][m] + (IF it.month <= m THEN d ELSE 0)
    OBVIOUS
  <2> HIDE DEF sum, it, key, d
  <2>3. pend'[t][key] = sum /\ \A k \in Keys : k # key => pend'[t][k] = pend[t][k]
    BY <1>2, <2>1
  <2>4. \A k \in Keys : \A m \in Months : pend[t][k][m] \in Int
    BY <2>1
  <2> QED
    BY <2>2, <2>3, <2>4
<1>5. /\ cur \in Atomic!LegsOf(items) \ old /\ old \subseteq Atomic!LegsOf(items)
      /\ all = old \union {cur} /\ Atomic!Upto(items, cur) = all
  <2> DEFINE p == pos[t]  q == pos'[t]
  <2>1. /\ p = [item |-> i, leg |-> leg]
        /\ q = IF leg + 1 \in Legs(items[i]) THEN [item |-> i, leg |-> leg + 1]
               ELSE [item |-> i + 1, leg |-> 1]
    BY <1>2, <1>3
  <2> HIDE DEF p, q, i, leg, items
  <2>2. /\ <<i, leg>> \in Atomic!LegsOf(items) \ Before(items, p)
        /\ Before(items, q) = Before(items, p) \union {<<i, leg>>}
        /\ Atomic!Upto(items, <<i, leg>>) = Before(items, q)
    BY <1>2, <2>1, OneMoreLeg
  <2> QED
    BY <2>2 DEF p, q, Before
<1> HIDE DEF items, i, leg, it, key, d, cur, old, all
<1>6. \A k, m : Atomic!LegEffect(items, cur, k, m) =
                  IF k = key /\ it.month <= m THEN d ELSE 0
  BY <1>2, <1>5, LegEffectInt DEF cur, d
<1>7. ASSUME NEW k \in Provisioned, NEW m \in Months
      PROVE  pend'[t][k][m] = Atomic!Effect(items, all, k, m)
  <2>1. pend[t][k][m] = Atomic!Effect(items, old, k, m)
    BY DEF RInv, ROK, BookedIsEffect, items, old
  <2>2. /\ Atomic!Effect(items, all, k, m) =
             Atomic!LegEffect(items, cur, k, m) + Atomic!Effect(items, old, k, m)
        /\ Atomic!Effect(items, old, k, m) \in Int
    <3>1. /\ items \in Seq(Item) /\ old \in SUBSET Atomic!LegsOf(items)
          /\ cur \in Atomic!LegsOf(items) \ old
      BY <1>2, <1>5
    <3>2. /\ Atomic!Effect(items, old \union {cur}, k, m) =
               Atomic!LegEffect(items, cur, k, m) + Atomic!Effect(items, old, k, m)
          /\ Atomic!Effect(items, old, k, m) \in Int
      BY <3>1, EffectAdd
    <3> QED
      BY <1>5, <3>2
  <2>3. k \in Keys
    BY RowAssumption
  <2> QED
    BY <1>2, <1>4, <1>6, <2>1, <2>2, <2>3
<1>8. BookedIsEffect(t)'
  BY <1>1, <1>7 DEF BookedIsEffect, items, all
<1>9. NeverBelow(t)'
  <2> SUFFICES ASSUME NEW k \in Provisioned, k \in KeysOf(items), NEW s \in all
               PROVE  qty[k] + Atomic!Effect(items, Atomic!Upto(items, s), k, LastMonth) >= 0
    BY <1>1 DEF NeverBelow, items, all
  <2>1. CASE s \in old
    BY <1>1, <2>1 DEF RInv, ROK, NeverBelow, items, old
  <2>2. CASE s = cur
    <3>1. pend'[t][k][LastMonth] = Atomic!Effect(items, all, k, LastMonth)
      BY <1>7, MonthFacts
    <3>2. lock'[k] = t
      BY <1>1, <1>3 DEF IInv, LocksHeld, CursorOK, Active, items
    <3>3. seen'[t][k].qty = qty[k] + pend'[t][k][LastMonth] /\ seen'[t][k].qty >= 0
      BY <1>1, <3>2, RowAssumption DEF IInv, Images, ImagesNonNegative
    <3> QED
      BY <1>5, <2>2, <3>1, <3>3
  <2> QED
    BY <1>5, <2>1, <2>2
<1>10. AllSaved(t)'
  <2> SUFFICES ASSUME pc'[t] = "commit" PROVE all = Atomic!LegsOf(items)
    BY <1>1 DEF AllSaved, items, all
  <2>1. pos'[t].item = i + 1 /\ i = Len(items)
    BY <1>2, <1>3
  <2>2. \A s \in Atomic!LegsOf(items) : s[1] < pos'[t].item
    BY <1>2, <2>1, LegOf
  <2> QED
    BY <2>2 DEF all, Before
<1>11. ROK(t)'
  BY <1>8, <1>9, <1>10 DEF ROK
<1> QED
  BY <1>1, <1>3, <1>11, OthersKeepR

LEMMA RInvariance == Spec => []RInv
<1>1. IInv /\ IInv' /\ RInv /\ [Next]_vars => RInv'
  <2> SUFFICES ASSUME IInv, IInv', RInv, [Next]_vars PROVE RInv'
    OBVIOUS
  <2>1. ASSUME NEW t \in Txs, Rollback(t) PROVE RInv'
    BY <2>1, StartR DEF Rollback, dbVars, IInv, TypeOK
  <2>2. ASSUME NEW t \in Txs, NEW items, NEW doc, Begin(t, items, doc) PROVE RInv'
    BY <2>2, StartR DEF Begin, dbVars, IInv, TypeOK, CursorOK
  <2>3. ASSUME NEW t \in Txs, CheckMonths(t) PROVE RInv'
    <3>1. CASE Rollback(t)
      BY <2>1, <3>1
    <3>2. CASE ~Rollback(t)
      BY <2>3, <3>2, StartR DEF CheckMonths, dbVars, IInv, TypeOK, CursorOK
    <3> QED
      BY <3>1, <3>2
  <2>4. ASSUME NEW t \in Txs, LockNext(t) PROVE RInv'
    <3>1. PICK phase \in {"lock", "load"} : pc' = [pc EXCEPT ![t] = phase]
      BY <2>4 DEF LockNext
    <3> QED
      BY <2>4, <3>1, StartR DEF LockNext, dbVars, IInv, TypeOK, CursorOK
  <2>5. ASSUME NEW t \in Txs, Load(t) PROVE RInv'
    <3>1. CASE Rollback(t)
      BY <2>1, <3>1
    <3>2. CASE ~Rollback(t)
      <4>1. /\ pc[t] = "load" /\ pc' = [pc EXCEPT ![t] = "save"]
            /\ UNCHANGED <<qty, req, pos, pend>>
        BY <2>5, <3>2 DEF Load, dbVars
      <4>2. ROK(t)'
        BY <4>1 DEF RInv, ROK, BookedIsEffect, NeverBelow, AllSaved, IInv, TypeOK
      <4> QED
        BY <4>1, <4>2, OthersKeepR DEF IInv, TypeOK
    <3> QED
      BY <3>1, <3>2
  <2>6. ASSUME NEW t \in Txs, Commit(t) PROVE RInv'
    <3>1. CASE Rollback(t)
      BY <2>1, <3>1
    <3>2. CASE ~Rollback(t)
      <4>1. /\ pc' = [pc EXCEPT ![t] = "committed"]
            /\ UNCHANGED <<req, pos, pend>>
            /\ \A k \in Keys : qty'[k] = IF lock[k] = t THEN seen[t][k].qty ELSE qty[k]
        BY <2>6, <3>2 DEF Commit
      <4>2. ROK(t)'
        BY <4>1 DEF RInv, ROK, BookedIsEffect, NeverBelow, AllSaved, IInv, TypeOK
      <4> QED
        BY <4>1, <4>2, OthersKeepR, RowAssumption DEF IInv, TypeOK
    <3> QED
      BY <3>1, <3>2
  <2>7. ASSUME NEW t \in Txs, Proceed(t) PROVE RInv'
    BY <2>1, <2>3, <2>4, <2>5, <2>6, <2>7, SaveR
    DEF Proceed, LockConflict, SaveDuplicate, LockTimeout
  <2>8. ASSUME NEW t \in Txs, Submit(t) \/ \E doc \in Txs : Cancel(t, doc) PROVE RInv'
    BY <2>2, <2>8 DEF Submit, Cancel
  <2>9. CASE UNCHANGED <<dbVars, txVars>>
    BY <2>9 DEF dbVars, txVars, RInv, ROK, BookedIsEffect, NeverBelow, AllSaved
  <2> QED
    BY <2>1, <2>7, <2>8, <2>9 DEF Next, Fail, CloseRead, CloseCommit, CloseFail, vars
<1> QED
  BY <1>1, InitR, Invariance, PTL DEF Spec

\* Every step is one of the atomic stock, or moves nothing it knows of: a
\* request is accepted when it begins, applied when it commits, and refused
\* when it rolls back.
THEOREM ImplementsAtomic == Spec => ImplementsAtomicStock
<1>1. Init => Atomic!Init
  BY RowAssumption DEF Init, Atomic!Init, Months, Atomic!Months
<1>2. IInv /\ RInv /\ [Next]_vars => [Atomic!Next]_(Atomic!avars)
  <2> SUFFICES ASSUME IInv, RInv, [Next]_vars
               PROVE  Atomic!Next \/ UNCHANGED Atomic!avars
    OBVIOUS
  <2>1. ASSUME NEW t \in Txs, Begin(t, req'[t], reverses'[t]) PROVE Atomic!Accept(t)
    BY <2>1 DEF Begin, dbVars, Atomic!Accept, IInv, TypeOK
  <2>2. ASSUME NEW t \in Txs, Rollback(t), pc[t] \notin {"idle", "committed"}
        PROVE  Atomic!Refuse(t)
    BY <2>2 DEF Rollback, dbVars, Atomic!Refuse, IInv, TypeOK
  <2>3. ASSUME NEW t \in Txs, Commit(t), ~Rollback(t) PROVE Atomic!Post(t)
    <3> DEFINE items == req[t]
               legs  == Atomic!LegsOf(items)
    <3>1. /\ pc[t] = "commit" /\ pc' = [pc EXCEPT ![t] = "committed"] /\ req' = req
          /\ \A k \in Keys : qty'[k] = IF lock[k] = t THEN seen[t][k].qty ELSE qty[k]
          /\ \A k \in Keys : balance'[k] =
               [m \in Months |-> balance[k][m] + pend[t][k][m]]
      BY <2>3 DEF Commit
    <3>2. Before(items, pos[t]) = legs /\ items \in Seq(Item)
      BY <3>1 DEF RInv, ROK, AllSaved, IInv, TypeOK
    <3>3. \A k \in Provisioned : \A m \in Months :
            pend[t][k][m] = Atomic!Effect(items, legs, k, m)
      BY <3>2 DEF RInv, ROK, BookedIsEffect
    <3>4. \A k \in Provisioned : qty'[k] = qty[k] + Atomic!Effect(items, legs, k, LastMonth)
      <4> SUFFICES ASSUME NEW k \in Provisioned
                   PROVE  qty'[k] = qty[k] + pend[t][k][LastMonth]
        BY <3>3, MonthFacts
      <4>1. k \in Keys /\ qty[k] \in Int
        BY RowAssumption DEF IInv, TypeOK
      <4>2. CASE lock[k] = t
        BY <3>1, <4>1, <4>2 DEF IInv, Images
      <4>3. CASE lock[k] # t
        <5>1. pend[t][k][LastMonth] = 0
          BY <3>1, <4>3, MonthFacts DEF IInv, NothingUnheld, Active
        <5> QED
          BY <3>1, <4>1, <4>3, <5>1
      <4> QED
        BY <4>2, <4>3
    <3>5. ASSUME NEW k \in Provisioned, NEW s \in legs
          PROVE  qty[k] + Atomic!Effect(items, Atomic!Upto(items, s), k, LastMonth) >= 0
      <4>1. CASE k \in KeysOf(items)
        BY <3>1, <3>2, <4>1 DEF RInv, ROK, NeverBelow
      <4>2. CASE k \notin KeysOf(items)
        <5>1. Atomic!Upto(items, s) \subseteq legs
          BY DEF Atomic!Upto
        <5>2. Atomic!Effect(items, Atomic!Upto(items, s), k, LastMonth) = 0
          BY <3>2, <4>2, <5>1, EffectElsewhere
        <5>3. k \in Keys /\ qty[k] \in Int /\ qty[k] >= 0
          BY RowAssumption DEF IInv, TypeOK, NonNegativeStock
        <5> QED
          BY <5>2, <5>3
      <4> QED
        BY <4>1, <4>2
    <3>6. \A k \in Provisioned : k \in Keys /\ balance'[k] =
            [m \in Months |-> balance[k][m] + Atomic!Effect(items, legs, k, m)]
      BY <3>1, <3>3, RowAssumption
    <3>7. pc \in [Txs -> Phases]
      BY DEF IInv, TypeOK
    <3> DEFINE phase(p) == CASE p = "idle"      -> "idle"
                             [] p = "committed" -> "posted"
                             [] OTHER           -> "open"
               state == [u \in Txs |-> phase(pc[u])]
               q     == [k \in Provisioned |-> qty[k]]
               b     == [k \in Provisioned |-> balance[k]]
    <3>8. state[t] = "open" /\ state' = [state EXCEPT ![t] = "posted"]
      BY <3>1, <3>7
    <3>9. \A k \in Provisioned : q[k] = qty[k] /\ b[k] = balance[k]
      OBVIOUS
    <3>10. /\ q' = [k \in Provisioned |->
                      q[k] + Atomic!Effect(items, legs, k, LastMonth)]
           /\ b' = [k \in Provisioned |-> [m \in Atomic!Months |->
                      b[k][m] + Atomic!Effect(items, legs, k, m)]]
      BY <3>4, <3>6 DEF Months, Atomic!Months
    <3>11. \A k \in Provisioned : \A s \in legs :
             q[k] + Atomic!Effect(items, Atomic!Upto(items, s), k, LastMonth) >= 0
      BY <3>5
    <3> QED
      BY <3>1, <3>8, <3>10, <3>11 DEF Atomic!Post
  <2>4. ASSUME NEW t \in Txs, UNCHANGED <<req, qty, balance>>,
               NEW phase \in {"lock", "load", "save", "commit"},
               pc[t] \notin {"idle", "committed"}, pc' = [pc EXCEPT ![t] = phase]
        PROVE  UNCHANGED Atomic!avars
    BY <2>4 DEF Atomic!avars, IInv, TypeOK
  <2>5. ASSUME NEW t \in Txs, CheckMonths(t) \/ LockNext(t)
        PROVE  Rollback(t) \/ UNCHANGED Atomic!avars
    BY <2>4, <2>5 DEF CheckMonths, LockNext, dbVars
  <2>6. ASSUME NEW t \in Txs, Load(t) \/ Save(t)
        PROVE  Rollback(t) \/ UNCHANGED Atomic!avars
    BY <2>4, <2>6 DEF Load, Save, dbVars
  <2>7. ASSUME NEW t \in Txs, Proceed(t)
        PROVE  Atomic!Post(t) \/ Atomic!Refuse(t) \/ UNCHANGED Atomic!avars
    <3>1. pc[t] \notin {"idle", "committed"}
      BY <2>7 DEF Proceed, CheckMonths, LockNext, LockConflict, Load, Save,
         SaveDuplicate, LockTimeout, Commit
    <3> QED
      BY <2>2, <2>3, <2>5, <2>6, <2>7, <3>1
      DEF Proceed, LockConflict, SaveDuplicate, LockTimeout
  <2>8. ASSUME NEW t \in Txs, Submit(t) \/ \E doc \in Txs : Cancel(t, doc)
        PROVE  Atomic!Accept(t)
    <3>1. PICK items, doc : Begin(t, items, doc)
      BY <2>8 DEF Submit, Cancel
    <3>2. req'[t] = items /\ reverses'[t] = doc
      BY <3>1 DEF Begin, IInv, TypeOK
    <3> QED
      BY <2>1, <3>1, <3>2
  <2>9. CASE UNCHANGED <<dbVars, txVars>>
    BY <2>9 DEF dbVars, txVars, Atomic!avars
  <2> QED
    BY <2>2, <2>7, <2>8, <2>9
    DEF Next, Fail, CloseRead, CloseCommit, CloseFail, vars, Atomic!Next
<1> QED
  BY <1>1, <1>2, Invariance, RInvariance, PTL
  DEF Spec, ImplementsAtomicStock, Atomic!Spec

=============================================================================
