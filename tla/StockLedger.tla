---------------------------- MODULE StockLedger ----------------------------
(***************************************************************************)
(* Stock transactions, document cancellation and month closing:            *)
(* backend/src/modules/inventory-tx/inventory-tx.service.ts.               *)
(*                                                                         *)
(* Several requests run processTransactions at once.  Each is a READ       *)
(* COMMITTED transaction: it checks that no month it dates an item in is   *)
(* closed, locks the stock rows it needs with FOR UPDATE NOWAIT in key     *)
(* order (a row that does not exist locks nothing), applies its items one  *)
(* leg at a time, and commits or rolls back as a whole.  A leg is saved by *)
(* TypeORM's save: a SELECT that decides, then an INSERT or an UPDATE.     *)
(* closeMonth is a SERIALIZABLE transaction: it reads one snapshot and     *)
(* writes the month's closing when it commits.                             *)
(*                                                                         *)
(* Committed state and the state of each transaction are kept apart:       *)
(* nothing a transaction writes is visible to another before Commit,       *)
(* except the row locks and unique-index entries it holds (lock).          *)
(***************************************************************************)
EXTENDS StockItems, FiniteSets

CONSTANTS Txs,          \* slots for requests in flight; one document each
          Closers,      \* slots for closeMonth calls in flight
          NoTx,         \* no transaction
          Provisioned,  \* the keys whose status row exists from the start
          InitQty,      \* their quantities
          Requests      \* the bodies clients may post

ASSUME TxAssumption      == NoTx \notin Txs
ASSUME RowAssumption     == /\ Provisioned \subseteq Keys
                            /\ InitQty \in [Keys -> Nat]
                            /\ \A k \in Keys \ Provisioned : InitQty[k] = 0
ASSUME RequestAssumption == Requests \subseteq (Seq(Item) \ {<<>>})

VARIABLES
  \* committed rows
  rows,     \* keys with an inventory_status row
  qty,      \* inventory_status.qty
  balance,  \* balance[k][m]: sum of the inventory_history rows of k dated up to m
  lastDoc,  \* the document with the highest historyNo on the key
  closed,   \* months with an inventory_closing header
  closing,  \* closing[m][k]: closingQty of inventory_monthly_closing
  \* row locks, and unique-index entries of rows inserted but not committed
  lock,
  \* one transaction each
  pc, req,
  reverses, \* the document it cancels (reverseDocumentId)
  todo,     \* keys still to lock
  seen,     \* the statuses map
  plan,     \* what the SELECT of save decided
  pos,      \* the item and the leg in turn
  hist,     \* history rows appended, in order
  pend,     \* the same, summed as in balance
  \* one closeMonth call each
  cpc, cmonth, csnap

dbVars   == <<rows, qty, balance, lastDoc>>
txVars   == <<pc, req, reverses, todo, seen, plan, pos, hist, pend>>
monthVars == <<closed, closing, cpc, cmonth, csnap>>
vars     == <<dbVars, lock, txVars, monthVars>>

NoRow   == [row |-> FALSE, qty |-> 0]
Nothing == [k \in Keys |-> [m \in Months |-> 0]]
Start   == [item |-> 1, leg |-> 1]

Phases == {"idle", "check", "lock", "load", "save", "commit", "committed"}

TypeOK ==
  /\ rows \subseteq Keys
  /\ qty \in [Keys -> Int]
  /\ balance \in [Keys -> [Months -> Int]]
  /\ lastDoc \in [Keys -> Txs \union {NoTx}]
  /\ closed \subseteq Months
  /\ closing \in [Months -> [Keys -> Int]]
  /\ lock \in [Keys -> Txs \union {NoTx}]
  /\ pc \in [Txs -> Phases]
  /\ req \in [Txs -> Seq(Item)]
  /\ reverses \in [Txs -> Txs \union {NoTx}]
  /\ todo \in [Txs -> SUBSET Keys]
  /\ seen \in [Txs -> [Keys -> RowImage]]
  /\ plan \in [Txs -> {"insert", "update"}]
  /\ pos \in [Txs -> [item: Nat, leg: Nat]]
  /\ hist \in [Txs -> Seq(History)]
  /\ pend \in [Txs -> [Keys -> [Months -> Int]]]
  /\ cpc \in [Closers -> {"idle", "read"}]
  /\ cmonth \in [Closers -> Months]
  /\ csnap \in [Closers -> [Keys -> [Months -> Int]]]

\* The months before the first are those of InitQty: stock already booked.
Init ==
  /\ rows = Provisioned
  /\ qty = InitQty
  /\ balance = [k \in Keys |-> [m \in Months |-> InitQty[k]]]
  /\ lastDoc = [k \in Keys |-> NoTx]
  /\ closed = {}
  /\ closing = [m \in Months |-> [k \in Keys |-> 0]]
  /\ lock = [k \in Keys |-> NoTx]
  /\ pc = [t \in Txs |-> "idle"]
  /\ req = [t \in Txs |-> <<>>]
  /\ reverses = [t \in Txs |-> NoTx]
  /\ todo = [t \in Txs |-> {}]
  /\ seen = [t \in Txs |-> [k \in Keys |-> NoRow]]
  /\ plan = [t \in Txs |-> "update"]
  /\ pos = [t \in Txs |-> Start]
  /\ hist = [t \in Txs |-> <<>>]
  /\ pend = [t \in Txs |-> Nothing]
  /\ cpc = [c \in Closers |-> "idle"]
  /\ cmonth = [c \in Closers |-> 1]
  /\ csnap = [c \in Closers |-> Nothing]

-----------------------------------------------------------------------------
(***************************************************************************)
(* Requests arrive.                                                        *)
(***************************************************************************)
Begin(t, items, doc) ==
  /\ pc[t] = "idle"
  /\ pc' = [pc EXCEPT ![t] = "check"]
  /\ req' = [req EXCEPT ![t] = items]
  /\ reverses' = [reverses EXCEPT ![t] = doc]
  /\ todo' = [todo EXCEPT ![t] = KeysOf(items)]
  /\ UNCHANGED <<dbVars, lock, seen, plan, pos, hist, pend, monthVars>>

\* processTransactions called with a client's body.  No docNo is sent, so
\* the sequence gives the document a number of its own.
Submit(t) == \E items \in Requests : Begin(t, items, NoTx)

Reversal(doc) ==
  [i \in DOMAIN hist[doc] |-> Opposite(hist[doc][i], req[doc][1].month)]

\* cancelDocument reads the document, the absence of a reversal and, for
\* each history row, the absence of a later one on the row's key (a later
\* row of the same document counts).  These are reads outside any
\* transaction; each looks for the absence of rows that are never deleted,
\* so all of them hold at the first read if each holds when it is made.
Cancellable(doc) ==
  /\ pc[doc] = "committed"
  /\ hist[doc] # <<>>
  /\ \A u \in Txs : pc[u] = "committed" => reverses[u] # doc
  /\ \A i \in DOMAIN hist[doc] :
       /\ lastDoc[hist[doc][i].key] = doc
       /\ \A j \in DOMAIN hist[doc] : hist[doc][j].key = hist[doc][i].key => j = i

Cancel(t, doc) == Cancellable(doc) /\ Begin(t, Reversal(doc), doc)

\* rollbackTransaction: every lock released, nothing kept.  The client may
\* post again, so the slot returns to its first state.
Rollback(t) ==
  /\ lock' = [k \in Keys |-> IF lock[k] = t THEN NoTx ELSE lock[k]]
  /\ pc' = [pc EXCEPT ![t] = "idle"]
  /\ req' = [req EXCEPT ![t] = <<>>]
  /\ reverses' = [reverses EXCEPT ![t] = NoTx]
  /\ todo' = [todo EXCEPT ![t] = {}]
  /\ seen' = [seen EXCEPT ![t] = [k \in Keys |-> NoRow]]
  /\ plan' = [plan EXCEPT ![t] = "update"]
  /\ pos' = [pos EXCEPT ![t] = Start]
  /\ hist' = [hist EXCEPT ![t] = <<>>]
  /\ pend' = [pend EXCEPT ![t] = Nothing]
  /\ UNCHANGED <<dbVars, monthVars>>

-----------------------------------------------------------------------------
(***************************************************************************)
(* The steps of processTransactions.                                       *)
(***************************************************************************)
\* Mutant of MonthsOpen: only the month of the first item is looked at.
FirstMonthOpen(t) == req[t][1].month \notin closed

\* One count per month.  Months are never reopened, so months that are all
\* open at their own checks are all open at the first one.
MonthsOpen(t) == MonthsOf(req[t]) \cap closed = {}

CheckMonths(t) ==
  /\ pc[t] = "check"
  /\ IF MonthsOpen(t)
     THEN /\ pc' = [pc EXCEPT ![t] = "lock"]
          /\ UNCHANGED <<dbVars, lock, req, reverses, todo, seen, plan, pos,
                         hist, pend, monthVars>>
     ELSE Rollback(t)

NextKey(t, k) == k \in todo[t] /\ \A j \in todo[t] : k <= j

\* Mutant of LockRow: a SELECT without FOR UPDATE.
ReadRowUnlocked(t, k) ==
  /\ NextKey(t, k) /\ k \in rows
  /\ seen' = [seen EXCEPT ![t][k] = [row |-> TRUE, qty |-> qty[k]]]
  /\ lock' = lock

\* SELECT ... FOR UPDATE NOWAIT of a row that exists and is free.
LockRow(t, k) ==
  /\ NextKey(t, k) /\ k \in rows
  /\ lock[k] = NoTx
  /\ seen' = [seen EXCEPT ![t][k] = [row |-> TRUE, qty |-> qty[k]]]
  /\ lock' = [lock EXCEPT ![k] = t]

\* The row does not exist, or its insertion is not committed: getOne()
\* answers null and nothing is locked.
FindNoRow(t, k) ==
  /\ NextKey(t, k) /\ k \notin rows
  /\ seen' = [seen EXCEPT ![t][k] = NoRow]
  /\ lock' = lock

LockNext(t) ==
  /\ pc[t] = "lock"
  /\ \E k \in Keys :
       /\ LockRow(t, k) \/ FindNoRow(t, k)
       /\ todo' = [todo EXCEPT ![t] = @ \ {k}]
       /\ pc' = [pc EXCEPT ![t] = IF todo[t] = {k} THEN "load" ELSE "lock"]
  /\ UNCHANGED <<dbVars, req, reverses, plan, pos, hist, pend, monthVars>>

\* 55P03, lock not available: the request is answered 409 Conflict.
LockConflict(t) ==
  /\ pc[t] = "lock"
  /\ \E k \in rows : NextKey(t, k) /\ lock[k] # NoTx
  /\ Rollback(t)

CurrentItem(t) == req[t][pos[t].item]
CurrentKey(t)  == LegKey(CurrentItem(t), pos[t].leg)

\* Mutant of LegAccepted: the quantity in stock is not compared.
LegAcceptedIfRow(t) ==
  /\ Valid(CurrentItem(t))
  /\ TakesStock(CurrentItem(t), pos[t].leg) => seen[t][CurrentKey(t)].row

LegAccepted(t) ==
  /\ Valid(CurrentItem(t))
  /\ ~LegRefused(CurrentItem(t), pos[t].leg, seen[t][CurrentKey(t)])

\* The guards of the leg, then the SELECT by primary key of
\* repository.save: it sees committed rows and the transaction's own.
Load(t) ==
  /\ pc[t] = "load"
  /\ IF LegAccepted(t)
     THEN /\ pc' = [pc EXCEPT ![t] = "save"]
          /\ plan' = [plan EXCEPT ![t] =
               IF CurrentKey(t) \in rows \/ lock[CurrentKey(t)] = t
               THEN "update" ELSE "insert"]
          /\ UNCHANGED <<dbVars, lock, req, reverses, todo, seen, pos, hist,
                         pend, monthVars>>
     ELSE Rollback(t)

\* The statement of save can run now.  An UPDATE waits for the row's lock;
\* an INSERT waits for a transaction that has inserted the same key.
Unblocked(t) == lock[CurrentKey(t)] \in {NoTx, t}

\* 23505, unique violation: the row was committed after the SELECT.
DuplicateRow(t) == plan[t] = "insert" /\ CurrentKey(t) \in rows

NextPos(t) ==
  IF pos[t].leg + 1 \in Legs(CurrentItem(t))
  THEN [pos[t] EXCEPT !.leg = @ + 1]
  ELSE [item |-> pos[t].item + 1, leg |-> 1]

\* INSERT or UPDATE of the status row with the quantity computed from the
\* statuses map, then the INSERT of the history row.  The UPDATE is taken
\* to change some column (qty, amount or updatedBy).
Save(t) ==
  /\ pc[t] = "save"
  /\ Unblocked(t) /\ ~DuplicateRow(t)
  /\ LET it == CurrentItem(t)
         k  == CurrentKey(t)
         d  == LegDelta(it, pos[t].leg)
     IN  /\ lock' = [lock EXCEPT ![k] = t]
         /\ seen' = [seen EXCEPT ![t][k] =
                       [row |-> TRUE, qty |-> seen[t][k].qty + d]]
         /\ hist' = [hist EXCEPT ![t] = Append(@,
                       [type |-> LegType(it, pos[t].leg), key |-> k,
                        delta |-> d, month |-> it.month])]
         /\ pend' = [pend EXCEPT ![t][k] =
                       [m \in Months |-> pend[t][k][m] +
                                         (IF it.month <= m THEN d ELSE 0)]]
  /\ pos' = [pos EXCEPT ![t] = NextPos(t)]
  /\ pc' = [pc EXCEPT ![t] =
              IF NextPos(t).item \in DOMAIN req[t] THEN "load" ELSE "commit"]
  /\ UNCHANGED <<dbVars, req, reverses, todo, plan, monthVars>>

SaveDuplicate(t) == pc[t] = "save" /\ DuplicateRow(t) /\ Rollback(t)

\* Mutant of LockTimeout: statements wait for locks without limit.
NeverTimesOut(t) == FALSE

\* A statement waiting for a lock ends by lock_timeout, or the database
\* picks it to break a deadlock.
LockTimeout(t) == pc[t] = "save" /\ ~Unblocked(t) /\ Rollback(t)

\* The numbers saveInventoryDocument gives the document's items: a MOVE in
\* position i takes 2i - 1 and 2i, any other item takes i.
ItemNo(items, i, leg) ==
  IF items[i].type = "MOVE" THEN 2 * (i - 1) + leg ELSE i

NumbersDistinct(items) ==
  \A i, j \in DOMAIN items : \A g \in Legs(items[i]), h \in Legs(items[j]) :
    ItemNo(items, i, g) = ItemNo(items, j, h) => i = j /\ g = h

\* Mutant of Commit: the status rows are kept, the history rows are not.
CommitRowsOnly(t) ==
  /\ pc[t] = "commit"
  /\ rows' = rows \union {k \in Keys : lock[k] = t}
  /\ qty' = [k \in Keys |-> IF lock[k] = t THEN seen[t][k].qty ELSE qty[k]]
  /\ lock' = [k \in Keys |-> IF lock[k] = t THEN NoTx ELSE lock[k]]
  /\ pc' = [pc EXCEPT ![t] = "committed"]
  /\ UNCHANGED <<balance, lastDoc, req, reverses, todo, seen, plan, pos,
                 hist, pend, monthVars>>

\* saveInventoryDocument and commitTransaction.  Two items with one number
\* break the primary key of inventory_document_item.
Commit(t) ==
  /\ pc[t] = "commit"
  /\ IF NumbersDistinct(req[t])
     THEN /\ rows' = rows \union {k \in Keys : lock[k] = t}
          /\ qty' = [k \in Keys |->
                       IF lock[k] = t THEN seen[t][k].qty ELSE qty[k]]
          /\ balance' = [k \in Keys |-> [m \in Months |->
                           balance[k][m] + pend[t][k][m]]]
          /\ lastDoc' = [k \in Keys |-> IF k \in KeysOf(req[t]) THEN t
                                        ELSE lastDoc[k]]
          /\ lock' = [k \in Keys |-> IF lock[k] = t THEN NoTx ELSE lock[k]]
          /\ pc' = [pc EXCEPT ![t] = "committed"]
          /\ UNCHANGED <<req, reverses, todo, seen, plan, pos, hist, pend,
                         monthVars>>
     ELSE Rollback(t)

\* The connection is lost, a statement times out, an entity is missing: a
\* transaction in flight may fail at any step.
Fail(t) == pc[t] \notin {"idle", "committed"} /\ Rollback(t)

-----------------------------------------------------------------------------
(***************************************************************************)
(* closeMonth.                                                             *)
(***************************************************************************)
\* The snapshot: no CLOSED header for the month, the status rows and their
\* histories.  Keys without a status row have no history either.
CloseRead(c) ==
  /\ cpc[c] = "idle"
  /\ \E m \in Months \ closed : cmonth' = [cmonth EXCEPT ![c] = m]
  /\ cpc' = [cpc EXCEPT ![c] = "read"]
  /\ csnap' = [csnap EXCEPT ![c] = balance]
  /\ UNCHANGED <<dbVars, lock, txVars, closed, closing>>

CloseReset(c) ==
  /\ cpc' = [cpc EXCEPT ![c] = "idle"]
  /\ cmonth' = [cmonth EXCEPT ![c] = 1]
  /\ csnap' = [csnap EXCEPT ![c] = Nothing]

\* Mutant of CloseCommit: an earlier closing is written over.
CloseOverwrite(c) ==
  /\ cpc[c] = "read"
  /\ closed' = closed \union {cmonth[c]}
  /\ closing' = [closing EXCEPT ![cmonth[c]] =
                   [k \in Keys |-> csnap[c][k][cmonth[c]]]]
  /\ CloseReset(c)
  /\ UNCHANGED <<dbVars, lock, txVars>>

\* The details and the header are inserted.  If another call committed the
\* month first, the primary key or the serializable isolation refuses.
CloseCommit(c) ==
  /\ cpc[c] = "read"
  /\ cmonth[c] \notin closed
  /\ closed' = closed \union {cmonth[c]}
  /\ closing' = [closing EXCEPT ![cmonth[c]] =
                   [k \in Keys |-> csnap[c][k][cmonth[c]]]]
  /\ CloseReset(c)
  /\ UNCHANGED <<dbVars, lock, txVars>>

CloseFail(c) ==
  /\ cpc[c] = "read"
  /\ CloseReset(c)
  /\ UNCHANGED <<dbVars, lock, txVars, closed, closing>>

-----------------------------------------------------------------------------
\* What the service does with a request by itself, once it has begun.
Proceed(t) ==
  \/ CheckMonths(t)
  \/ LockNext(t)
  \/ LockConflict(t)
  \/ Load(t)
  \/ Save(t)
  \/ SaveDuplicate(t)
  \/ LockTimeout(t)
  \/ Commit(t)

Next ==
  \/ \E t \in Txs : Submit(t) \/ Proceed(t) \/ Fail(t)
  \/ \E t, doc \in Txs : Cancel(t, doc)
  \/ \E c \in Closers : CloseRead(c) \/ CloseCommit(c) \/ CloseFail(c)

Spec == Init /\ [][Next]_vars

\* A request that has begun is run to its end by its event loop; clients
\* and closing are free.
Fairness == \A t \in Txs : WF_vars(Proceed(t))

FairSpec == Spec /\ Fairness

-----------------------------------------------------------------------------
(***************************************************************************)
(* Properties.                                                             *)
(***************************************************************************)
Active(t) == pc[t] \in {"lock", "load", "save", "commit"}

Blocked(t) == pc[t] = "save" /\ ~Unblocked(t)

\* Stock is never negative, whatever requests interleave: executeOut and
\* executeAdj decide on the statuses map, read earlier in the transaction.
NonNegativeStock == \A k \in Keys : qty[k] >= 0

\* The stock row of a key that existed before the requests always equals
\* the sum of its history rows: no concurrent request, rollback or
\* cancellation loses or repeats a posting (product_spec.md 7.7).
BooksAgree == \A k \in Provisioned : qty[k] = balance[k][LastMonth]

\* The same of every key, first receipts included: coding_conventions.md:202
\* says that two first receipts at once collide and roll back.
BooksAgreeOnFirstReceipt == \A k \in Keys : qty[k] = balance[k][LastMonth]

\* A request never waits for another on a row that existed before them:
\* NOWAIT answers at once, so sorted locking needs no timeout there.
NoWaitOnExistingRows ==
  \A t \in Txs : Blocked(t) => CurrentKey(t) \notin Provisioned

\* A cancellation that commits has posted, key by key, exactly the opposite
\* of the document it cancels.
ReversalIsExactInverse ==
  \A t \in Txs :
    pc[t] = "committed" /\ reverses[t] # NoTx =>
      \A k \in Keys :
        pend[t][k][LastMonth] = 0 - pend[reverses[t]][k][LastMonth]

\* A month's closing is written once: closed months stay closed and the
\* quantities recorded for them are never overwritten by another call.
ClosingIsFinal ==
  [][\A m \in closed : m \in closed' /\ closing'[m] = closing[m]]_vars

\* Dated up to month m, in flight and already past its month checks.
InFlightUpTo(t, m) == Active(t) /\ \E n \in MonthsOf(req[t]) : n <= m

\* Every month up to m is closed, and the requests that had passed their
\* checks by then have ended.
Settled(m) == 1..m \subseteq closed /\ \A t \in Txs : ~InFlightUpTo(t, m)

\* A settled month stays settled: no later request gets past its checks, in
\* whatever order the months were closed, and the books up to it don't move.
SettledMonthIsFinal ==
  [][\A m \in Months :
       Settled(m) => /\ Settled(m)'
                     /\ \A k \in Keys : balance'[k][m] = balance[k][m]]_vars

\* No transaction is created in a closed month (product_spec.md:208).
NoPostingInClosedMonth ==
  [][\A t \in Txs :
       pc[t] # "committed" /\ pc'[t] = "committed" =>
         MonthsOf(req[t]) \cap closed = {}]_vars

\* A document with later transactions on its keys, its own cancellation
\* among them, is not cancelled (product_spec.md:198).
CancelledDocumentIsLast ==
  [][\A t \in Txs :
       pc[t] # "committed" /\ pc'[t] = "committed" /\ reverses[t] # NoTx =>
         \A i \in DOMAIN hist[reverses[t]] :
           lastDoc[hist[reverses[t]][i].key] = reverses[t]]_vars

\* Every request that has begun is answered: it commits or is refused, and
\* two requests that insert the same keys in opposite orders don't wait on
\* each other for ever.
EveryRequestEnds ==
  \A t \in Txs :
    pc[t] \notin {"idle", "committed"} ~> pc[t] \in {"idle", "committed"}

-----------------------------------------------------------------------------
(***************************************************************************)
(* What the service promises of the rows that exist from the start.        *)
(***************************************************************************)
\* The atomic stock of the provisioned keys.  Items on other keys have no
\* effect there.
Atomic == INSTANCE AtomicStock WITH
  Keys    <- Provisioned,
  qty     <- [k \in Provisioned |-> qty[k]],
  balance <- [k \in Provisioned |-> balance[k]],
  request <- req,
  state   <- [t \in Txs |-> CASE pc[t] = "idle"      -> "idle"
                              [] pc[t] = "committed" -> "posted"
                              [] OTHER               -> "open"]

\* Concurrent requests on the provisioned rows are equivalent to the same
\* requests applied one at a time, at their commits.
ImplementsAtomicStock == Atomic!Spec
=============================================================================
