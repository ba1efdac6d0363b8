# Formal verification of the CMMS

TLA+ models of the maintenance management system in this repository
(`backend/`: NestJS, TypeORM and PostgreSQL; `frontend/`: React), the TLC
configurations that model-check them, and proofs of their most important
properties that TLAPS checks.

The backend keeps its state in one PostgreSQL database and serves requests from
one event loop. Every `await` in a handler is a point where another request may
run, transactions are READ COMMITTED unless they say otherwise, and what
protects the data is the handlers' own `SELECT ... FOR UPDATE`, their checks
and the unique keys of the tables. The models ask whether that is enough when
handlers interleave and when they fail halfway.

To check a run: `tlc -config <X>.cfg <Module>.tla`; to check the proofs:
`tlapm <Module>_proofs.tla`.

## 1. Inventory of the system

| Component | State it keeps | Operations | Modelled by |
|---|---|---|---|
| **Stock ledger** `inventory-tx` | `inventory_status` (quantity per warehouse and material), `inventory_history` (ledger), `inventory_document(_item)`, `inventory_closing`, `inventory_monthly_closing` | `processTransactions` (IN, OUT, MOVE, ADJ), `cancelDocument`, `closeMonth` | StockItems, StockLedger, AtomicStock |
| **Procurement** `procurement` | `purchase_order(_item)`, `allocation`; `purchase_request(_item)` | integrated and standalone orders, edit, allocate, confirm, delete, close; receipts through `validatePurchaseReferences` of the stock service | Purchasing, OrderBook; the requests in Documents |
| **Approval** `approval` | `approval`, `approval_step`; writes the status of the linked document and `equipment_check_cycle` | save, submit, delete, approve, reject | Documents, ApprovalDesk |
| **Work orders, work permits, preventive maintenance** | header, items or results, status | save a draft, delete a draft; status by approval | Documents |
| **Attachments** `file` | `file_attachment`, `file_attachment_item`, objects in storage | upload, delete, bind, delete a group, reconcile | Attachments |
| **Notice board** `board` | posts, comments | save, delete, comment | Board |
| **Connection pool** `database` | 20 connections, 10 s to get one | every query runner | Attachments |
| **Sign-in sessions** `auth` | `auth_refresh_session`, failed sign-ins and lock of a user; in the browser the refresh cookie and the access token of each tab | sign-in, refresh (rotation), sign-out, change of password, sign-up; the interceptor of the tabs | Accounts, Browser |
| **System administration** `system` | users of all companies, companies | disable or enable a user, create a company | Accounts, BaseData |
| **Base data** `mdm` | plants, departments, roles and their details, users, warehouses, codes | create, update, delete | BaseData (users' sessions in Accounts) |
| **Master data** `master` | equipment with check cycles, materials | create, update, delete | Equipment, BaseData |
| **Permissions and data scope** `common/permissions`, guards, plant | none of its own: roles, users, the plant in the header | the guard before each handler; ownership and plant in the services | BaseData, Access |
| **Frontend** | per screen: a form, its number, a loading flag, the calls under way; the chosen plant | the screens over the API | Pages, Access, Browser |
| Document numbers `common/sequence` | one counter per prefix and company | `generateNextNo`: one atomic upsert | no |
| Power generation | none of its own | client of an external service | no |

How they interact. Everything goes through the database: services share tables,
not objects. The approval service writes the status of documents that the
document services edit and delete, and the check cycles of the equipment that
the master service replaces; a receipt in the stock service locks and reads
purchase orders that procurement edits, closes and deletes; closing a month
reads the ledger that requests append to. The file service is called by the
others after their own transactions, or, for documents, in them. The guard reads
the rows of users and roles that the MDM handlers change. Saving materials and
warehouses creates no stock rows: `saveInventory` and `saveWarehouse` don't,
although product_spec.md:121 and tech_spec.md:145 say that zero rows are created.
There are no queues; `reconcile` of attachments is meant as a background job, but
nothing schedules it (`STORAGE_RECONCILE_CRON`, storage.config.ts:45, is unused).

What is hard about it, component by component (the `hazards` of `PROJECT.json`
list each at its line, with the properties that would catch it):

* *Stock.* Quantities are read into a map early in the transaction and written
  back as absolute values. Only locks taken in key order keep two requests from
  overwriting each other, and a row that does not exist cannot be locked. A
  request has several items, any of which can be refused after earlier ones were
  saved. Cancelling rebuilds a request from the ledger, and its checks run
  before its transaction. Month checks and closing run beside each other.
  *Correct means*: no negative stock; stock rows equal the ledger; a
  cancellation is the exact inverse; a closing is final; nobody waits for ever.
* *Procurement.* Quantities of a request line are shared out among orders by
  concurrent calls; some handlers lock the order, some the request, some only
  read. `repository.save` reads a row again and writes the columns that differ
  from an entity read earlier. *Correct means*: an order's allocations equal
  its lines; a confirmed order doesn't change; no line is over-allocated or
  over-received; receipts meet open orders only.
* *Approval and documents.* Two services write one row: editing and deleting on
  the one side, the status on the other. A decision updates a step, the
  approval, the document and, for PM, a check cycle. *Correct means*: document
  and approval never disagree; steps are decided in order and once; nothing
  under approval changes; the check cycle comes from confirmed records.
* *Attachments, board, pool.* A storage object and a database row cannot be
  committed together; a post's deletion and its files' are separate
  transactions; an upload holds a connection and a row lock and asks for a
  second connection. *Correct means*: every row has its object, no object is
  lost unnoticed, an item number is never given twice, every wait ends.
* *Sign-in and browser.* Every statement is a transaction of its own: failures
  are counted, sessions rotated and revoked in several. The tabs of a browser
  share a cookie, the requests of a tab one refresh. *Correct means*: who had
  the old password or was disabled is out once the revocation is done; guessing
  keeps locking the account; every request of a tab gets an answer.
* *Base data, permissions.* Whole copies are saved without locks, and the rows
  that decide about a request change while it runs. *Correct means*: a handler
  works by authority its user had; nobody changes his own role; a company is
  created by one call (which fails, section 4); live check cycles belong to one save of
  their equipment.
* *Screens.* A handler goes on after an answer with what it captured and sets
  the state the screen has by then. *Correct means*: a form filled in once makes
  one document where nothing excuses it, a screen doesn't stay disabled, and what it
  offers is what the server grants.

## 2. The modules

Components that share rows, locks, connections or clients are composed: Board
extends Attachments, Browser extends Accounts. Components that share none can't
disturb each other, so their interleavings show nothing; the MC modules run them
side by side as *subjects*: a behaviour is about one of them, chosen by the first
state, and the variables of the others stay as they are.

| MC module | Subjects |
|---|---|
| `MCStockLedger`, `MCScreens` | StockLedger (with its refinement of AtomicStock); in MCScreens also Pages |
| `MCPurchasing` | Purchasing (with its refinement of OrderBook) |
| `MCDocuments`, `MCBackOffice` | Documents (with its refinement of ApprovalDesk); in MCBackOffice also BaseData and Equipment |
| `MCBoard`, `MCOffers` | Board with Attachments; in MCOffers also Access |
| `MCBrowser` | Browser with Accounts |

`Clients` declares the users and calls that the three modules of MCBackOffice have
in common.

### Stock: `StockItems`, `StockLedger`, `AtomicStock`

`StockItems` has the pure part: the items of a request, the one or two *legs*
(row changes) each consists of, what a leg adds to which row, when
`executeOut` / `executeAdj` refuse it, and the opposite item of a history row,
as `cancelDocument` computes it.

`StockLedger` runs any number of requests (`Txs`) and month closings
(`Closers`) at once. Committed rows (`rows`, `qty`, `balance`, `lastDoc`,
`closed`, `closing`) are kept apart from what each transaction holds: `seen` is
the `statuses` map, `plan` what the SELECT of `repository.save` decided,
`hist` and `pend` the ledger rows it appended, `lock` the row locks and the
uncommitted unique-index entries.

| Action | Code (`inventory-tx.service.ts`) |
|---|---|
| `Submit`, `Cancel` | a body arrives; `cancelDocument` made its checks and calls `processTransactions` |
| `CheckMonths` | the counts of closed months |
| `LockNext` (`LockRow`, `FindNoRow`), `LockConflict` | `FOR UPDATE NOWAIT` in key order; 55P03 becomes 409 |
| `Load` | the guards of a leg, then the SELECT of `save` |
| `Save`, `SaveDuplicate`, `LockTimeout` | the INSERT or UPDATE and the history row; 23505; `lock_timeout` or the deadlock detector |
| `Commit` | `saveInventoryDocument` with its item numbers, then COMMIT |
| `Fail` | any other error: rolled back whole |
| `CloseRead`, `CloseCommit`, `CloseFail` | the serializable transaction of `closeMonth` |

`AtomicStock` is the abstract specification: each accepted request is applied at
one instant, leg by leg, never passing below zero, together with its ledger
rows; a refused one leaves nothing. `StockLedger` ends with the refinement mapping
for the rows that exist from the start: `Begin` maps to `Accept`, `Commit` to
`Post`, every rollback to `Refuse`, all other steps stutter.

Left out: amounts and average prices, a document number sent by the client,
descriptions. The purchase-order checks of a receipt are in `Purchasing`.

### Procurement: `Purchasing`, `OrderBook`

Committed state is `row` (status, deletion and closing of an order), `ordered`
(its lines), `alloc` (allocations to request lines), `received` (receipts that
name the order) and `counted` (receipts of documents whose *header* names it,
which is what the code subtracts). Each call has a phase, its body, the entity
`findOne` gave it (`copy`) and the columns `save` will write (`columns`).

| Actions | Code |
|---|---|
| `Integrate`, `LockRequests`, `CheckAvailable`, `SaveIntegrated` | `createIntegratedOrder`: one transaction holding the purchase requests |
| `CreateOrder`, `CreateItems` | `createStandaloneOrder`: two transactions |
| `Edit`, `LockUpdate`, `Update` | `updatePurchaseOrder` with items |
| `Edit`, `LockAllocate`, `Allocate` | `saveOrderAllocations` |
| `Confirm`, `Delete`, `Close`, then `SaveSelect`, `SaveUpdate` | `confirmOrder`, `deleteOrder`, `close`: `findOne` without a lock, then `repository.save` |
| `Receive`, `LockOrder`, `Book` | `validatePurchaseReferences` and the document of the receipt |
| `Fail` | a refusal, a lock timeout, the end of the process |

`createStandaloneOrder` commits the order before its lines. Until it answers,
no client was given the number, but lists already show the order. The constant
`Hasty` is the set of orders that other calls may name in that window; the
properties about lines and allocations speak of the other orders, and the run
`over_receipt` has a hasty order among its orders. `Legacy` orders are those of
earlier releases, made for one purchase request, the only ones `close` finds.

`OrderBook` is the abstract specification: an order appears with its lines and
allocations at one instant (`Make`), its lines (`Amend`) and allocations (`Share`)
change only while it is a live draft, documents of receipts add to confirmed, open
orders only and within their lines (`Receive`), and whatever the call has checked is
true at that instant. Only `Decide` is loose: confirming, deleting and closing an
order at once may leave any combination, since each `save` merges the columns of an
entity read earlier. `Purchasing` ends with the refinement mapping, in which an order
saved without its items is not there yet (`Unsaved`) and hasty orders are left out.

Left out: header fields, owners and permissions; edits of the header alone.

### Documents and approvals: `Documents`, `ApprovalDesk`

A document is a work order, a work permit, a purchase request or, in `Records`,
a PM record. `doc` is its header row and `items` its item rows, each as the
content they were saved with; `approval` holds an approval with its line and
results; `lastChecked` is the record that set the check cycle (of one
equipment).

| Actions | Code |
|---|---|
| `Create`, `LockDraft`, `Edit` | `saveDraft`, `createOrUpdate`: lock, replace header and items |
| `LockRecord`, `DeleteRecord` | `deletePmRecord`, under the lock |
| `FindDraft`, `DeleteSelect`, `DeleteSave` | `deleteWorkOrder`, `deleteWorkPermit`, `deleteRequest`: no lock |
| `SaveApproval`, `Submit`, `DeleteApproval` | `saveApproval`, `deleteApproval` |
| `Approve`, `Reject` | `processApprovalAction` at the current step |
| `Commit`, `Link` | COMMIT; `updateLinkedDocument` (an UPDATE of the status) and COMMIT |
| `FindRecord`, `LinkSelect`, `SaveRecord` | the same for a PM record: `findOne`, `save`, `updatePmCheckCycle`, COMMIT |
| `Fail` | a refusal, an error, a lock timeout, the end of the process |

`ApprovalDesk` is the abstract specification, over the same committed rows and
without calls: a draft is written with its items (`Write`) or deleted (`Remove`), an
approval is saved or deleted as a draft (`File`), raised (`Raise`) or decided at the
step that waits (`Decide`), and whenever its status changes its document takes that
status at the same instant, being live then (`Mark`). What it leaves open is what the
code doesn't protect: a document that isn't a record may be deleted when it is a draft
no more (`Remainders`), and the save of a record found unlocked may write back old
columns (`Leftovers`).

Left out: owners and permissions, reference steps of an approval line (they
decide nothing), attachments, dates, PM templates. Two statements about
documents are limited to what the code protects: `Sole` documents, which one
approval at most is raised for (nothing in the code looks at the document's
status when a second one is raised), and, for `HeaderMatchesItems`, documents
other than PM records, whose approval saves an entity read without a lock.

### Attachments, notice board and pool: `Attachments`, `Board`

`Attachments` keeps the committed rows (`group`, `row`: the object behind each
item number), the object store (`stored`; `removing` are deletions sent and not
awaited, `listed` what `reconcile` has listed) and, per call, its phase and what
it holds in memory (`copy`). `orphan` is history: the objects somebody has lost
track of. A call whose phase is inside a transaction holds a connection; `Free`
says whether the pool has another one.

| Actions | Code (`file-storage.service.ts`) |
|---|---|
| `StartUpload`, `StartNewGroup`, `LockGroup`, `CheckUpload`, `StoreFile`, `CommitUpload` | `upload`: transaction, the group's lock, the permission over a second connection, the last number, each object and its row, COMMIT |
| `StoreFails`, `StoreUnanswered` | the store refuses or its answer is lost; the catch deletes what was noted, without waiting |
| `FindItem`, `RemoveItem` | `delete`: `remove` deletes by primary key, whatever the row holds by then |
| `FindGroup`, `RemoveItems`, `MarkGroup`, `NothingToDelete` | `deleteGroupByCompany`, in separate transactions |
| `FindToBind`, `SaveGroup` | `bindGroupToReference`: the copy read live is saved whole |
| `ListObjects`, `CompareRows`, `DeleteObject`, `DeleteFails` | `reconcile` and `deleteObjectQuietly` |
| `ConnectTimeout`, `LockTimeout`, `Fail`, `Crash` | the pool's and the database's timeouts, an error, the end of the process |

`Board` adds posts and comments: `CreatePost`, `FindPost`, `SavePost`
(`saveBoard`), `FindToDelete`, `MarkPost` (`deleteBoard`, then the group),
`LockPost`, `CommitComment` (`saveComment`, under the lock of the post),
`FindComment`, `RemoveComment` (`deleteComment`).

Two facts about TypeORM shape the steps: `save` writes the columns that differ
from a copy read earlier, so an edit brings a post deleted meanwhile back; and
`remove` deletes by key, so a stale removal takes the row that has since got the
number. The model assumes that no upload outlasts the grace period of
`reconcile`. Owners, permissions and groups of other documents are left out.

### Sign-in: `Accounts`, `Browser`

`Accounts` has the rows (`account`, `session`) and one phase per call between
any two of its statements. A password comparison may turn out either way. The
marks on sessions and calls are history: whether the credentials behind them are
current, outdated by a change of password or a disabling, or were missed by the
revocation that followed.

| Actions | Code |
|---|---|
| `FindForLogin`, `RefuseLogin`, `WrongPassword`, `RefuseHomeless`, `RightPassword`, `Issue` | `login`: the count read before the comparison is written after it |
| `FindSession`, `RefuseSession`, `FindUser`, `Rotate`, `Issue` | `refresh`: the old session revoked, a new one issued |
| `FindToLogout`, `NothingToRevoke`, `Revoke` | `logout` |
| `FindToChange`, `RefuseChange`, `ChangePassword`, `RevokeAll` | `changePassword` |
| `Disable`, `Enable`, `RevokeAll` | `updateUserUseYn` of `system.service.ts` |
| `FindNew`, `SaveNew`, `FindToRestore`, `FindToUpdate`, `FindToDelete`, `Save` | `signUp`, and `saveUser`, `updateUser`, `deleteUser` of `mdm.service.ts` |
| `LockEnds`, `Expire` | the clock |
| `Fail`, `RevocationFails`, `LoseAnswer` | an error half-way, a lost answer |

`Browser` adds the clients: the refresh `cookie` the tabs share, each `tab`
(`init`, signed in or out) and the API `request`s of a tab, whose interceptor
refreshes once for all of them and sends each again once (`Unauthorized`,
`ShareRefresh`, `StartRefresh`, `Refreshed`, `RefreshFailed`, `Settle`). An
expired access token is a request refused at any time. Devices are clients whose
answers change nothing modelled. Access tokens stay valid until they expire and
are not modelled otherwise.

### Base data and authority: `BaseData`, `Equipment`

In `BaseData` a request passes the guard in two reads (`ReadUser`,
`ReadDetail`), finds its row and changes a copy (`CheckParent`, one action per
handler: `SavePlant` ... `DeleteInventory`), and saves it by a SELECT that finds
the columns that differ (`SelectRow`) and an UPDATE of those or an INSERT
(`WriteRow`). The users and role details that decide about requests are rows
that requests change. `createCompany` writes its parts one after the other in
one transaction (`SelectPart`, `WritePart`, `CommitCompany`); `company` says by which
administrators it was created, and what each part finds of another creation
decides between INSERT and UPDATE. `since` is history:
what the tables said about the user of a request since it began. Only columns
that decide something are kept.

`Equipment` is one equipment and its check cycles: `saveEquipment` (`SelectHeader`,
`WriteHeader`, `ReadCycles`, `CommitEquipment`), `deleteEquipment`, and the
cycle that the approval of a PM record writes (`FindCycle`, `SelectCycle`,
`WriteCycle`). A save whose header has no differing column issues no UPDATE and
therefore holds no lock; `origin` is history and tells such cycles apart.

### The screens: `Pages`, `Access`

`Pages` is one of nine screens with the calls it has under way: `form` (open,
number, the filling if it is new, the upload its `FileUpload` knows of, a view
behind it), `busy` (`isLoading`), the approval draft over it (`modal`), `query`
(each call with what its handler captured) and the documents on the server
(`row`). The number is React state apart from the fields: an answer sets it on
whatever form is open by then. A handler is its start and its going on after the answer:
`Load`/`Loaded`, `Save`/`Saved`/`Raised`, `Delete`/`Deleted`, and per screen
what differs: `ResultFromPlan`, `LoadTemplates`, `SubmitModal`, `OrderSave`,
`SaveAllocations`, `ConfirmOrder`, `CloseOrder` (`closeRequest`), `EditDraft`,
`Decide`, `ChooseOrder`, `Process` and others. `Upload`/`Uploaded` is `FileUpload`
in the form of a post and of an approval draft: a form that is closed and opened
again has a new one. A post is loaded into a view of its own (`PostRead`), and the
view opens the form that edits it (`PostForm`). A new order gets its number on the
screen as soon as its creation is answered, before it is confirmed (`OrderSave`).
`Serve` is the server: it answers every call,
with an error at the latest, also one that was carried out. Left out are
`createIntegratedOrder` of the request screen (the backend's part is in
`Purchasing`), the comments of a post, and the attachment group an upload's answer
sets (section 6).

`Access` is one document screen with one user and one document: which calls its
buttons offer (`Offers`, from permissions, the row, the form and the header's
plant) and which of them the server grants (`Granted`: `Needs` are the guards'
permissions, `Served` the services' own checks of row, owner and plant). Actions
are what the user and others do: choose a plant or tab, load the list, open a
row or a new form, save, decide; and `Refreshed`, which puts the home plant back
into the header. `KnownRefusals` lists the offers the server refuses, each with
its reason; `OfferedIsGranted` says there are no others.

### What a failure is

A transaction that fails is rolled back by its handler or, when the process
ends, by PostgreSQL; the client may call again. Each `Fail` does this at any
point of a call, so an error, a time-out, a crash and a restart are the same
step. What a handler commits in separate transactions stays committed.

## 3. The runs

| Run (module, cfg) | What it shows | Distinct states |
|---|---|---|
| `stock_requests` (MCScreens, StockRequests) | three concurrent requests or cancellations: `NonNegativeStock`, `BooksAgree`, `NoWaitOnExistingRows`, `ReversalIsExactInverse`, and refinement of `AtomicStock` (`ImplementsAtomicStock`); or one of nine screens: `OneDocumentPerFilling`, `ScreenSettles` | 479,755 |
| `stock_closing` (MCStockLedger, StockClosing) | two requests and two closings with fairness: `ClosingIsFinal`, `SettledMonthIsFinal`, `EveryRequestEnds` | 229,204 |
| `stock_first_receipt` (MCStockLedger, FirstReceipt) | *violated*: `BooksAgreeOnFirstReceipt` | |
| `stock_late_posting` (MCStockLedger, LatePosting) | *violated*: `NoPostingInClosedMonth` | |
| `stock_cancel_race` (MCStockLedger, CancelRace) | *violated*: `CancelledDocumentIsLast` | |
| `purchase_orders` (MCPurchasing, PurchaseOrders) | every procurement call and receipts, two at a time: `AllocationsMatchOrder`, `IntegratedWithinRequest`, `BookedOnOpenOrder`, `ReceiptFitsOrder`, and refinement of `OrderBook` (`ImplementsOrderBook`) | 1,307,993 |
| `over_allocation` (MCPurchasing, OverAllocation) | *violated*: `AllocatedWithinRequest` | |
| `over_receipt` (MCPurchasing, OverReceipt) | *violated*: `ReceiptWithinRemainder` | |
| `approvals` (MCBackOffice, Approvals) | drafts, deletions, submissions and decisions, two calls at a time: `DocumentFollowsApproval`, `ApprovalMatchesResults`, `HeaderMatchesItems`, `CheckCycleIsConfirmed`, `UnderApprovalIsFrozen`, and refinement of `ApprovalDesk` (`ImplementsApprovalDesk`); or two administrators: `AuthorityIsFresh`, `NobodyChangesHimself`; or one equipment: `CyclesOfOneSave` | 1,338,503 |
| `deleted_in_approval` (MCDocuments, DeletedInApproval) | *violated*: `OnlyDraftsAreDeleted` | |
| `notice_board` (MCOffers, NoticeBoard) | two calls on a post, its comments and attachments, with reconciliation, crashes and lost answers: `RowHasObject`, `ObjectsAccountedFor`, `ItemsAreOnlyRemoved`, `CommentsJoinLivePosts`, `NoneWaitsForEver`; or one document screen: `OfferedIsGranted` | 822,535 |
| `sign_in` (MCBrowser, SignIn) | tabs and devices in six mixes, with fairness: `OldCredentialsAreOut`, `GuessingLocks`, `EveryRequestSettles` | 114,961 |

Every passing run also checks the type invariant of its modules (`TypeOK`,
`ScreensTypeOK`, `OfficeTypeOK`, `OffersTypeOK`); `stock_closing` relies on
`stock_requests` for it.

### Bounds and why they are enough

* *Stock*: three keys, one with a row and two without; three requests (two with
  closings); two months; eight bodies, chosen for what the handlers branch on:
  stock taken whole, a document dated in two months, a MOVE to a key without a
  row, first receipts of two keys in either order (the deadlock), an invalid
  second item after a valid one, a MOVE and an IN with colliding item numbers,
  one key twice in a request. A conflict on a row needs two requests, a
  cancellation racing another needs a third. A slot is used again after a
  rollback, so retries are unbounded; a committed document keeps its slot.
* *Procurement*: two calls, three orders (one legacy), two request lines of one
  material, request quantities 1 and 2; every lost update, stale check and lock
  conflict in this code is between two calls, and each call may follow any
  number of earlier ones. `MaxReceived` = 2 bounds what is booked on a line; it
  is above the quantity of the orders for one piece, so an excess would be seen
  there.
* *Documents*: two calls, a work order and a PM record, each with an approval
  (the record's may also be raised for nothing), lines of one and two approvers,
  two contents.
* *Notice board*: one post, one group, two objects, two item or comment numbers,
  one file per upload, two calls, and a pool that leaves them one or three
  connections (`PoolSizes`): with one, a call waits on its own connection, with
  three both can hold one and get a second. Every race here is between two calls,
  or a call and `reconcile` or a crash. Numbers and keys are used again after
  removals, so histories are unbounded.
* *Sign-in*: one user, a lock after two failures (`MaxFailed`), at most three
  remembered sessions (a new one takes the row of one nobody refers to). The six
  mixes of MCBrowser pair clients and operations that meet on a row: requests of
  a tab sharing a refresh, two tabs refreshing, signing in and out under a
  refused request, guessing or refreshing against a revocation, guessing against
  the administration of users. Other combinations are not checked.
* *Base data*: two calls, two users and two roles; a behaviour's requests are
  about one row of a table, a role with its details, or a code group with its
  item (`Mixes`), since handlers touch no others. Role details sent are all or
  nothing. One company, two administrators. *Equipment*: two calls, two check
  types.
* *Screens*: two calls under way, two numbers, three fillings. `MaxTurns` bounds
  what users do: five things in the inbox, on the board and on the screen of
  requests, four on the others; the races of two saves take at most four (open,
  save, another handler, save again). Answers are not bounded.
* *Access*: two plants, one user with any permissions, one document in any state.
  A behaviour may be of any length.
* `CHECK_DEADLOCK FALSE` is used where the system really may stop: in
  `StockLedger` once every slot is a committed document, in `Purchasing` once
  every order is deleted, in `Documents` once every approval is decided or
  deleted and every document is gone, in `Pages` when the user has no turn left
  or there is nothing to open. `notice_board` and `sign_in` check deadlock. Where
  others can still move, deadlock says nothing about one call; that none waits
  for ever is a property of its own (`NoneWaitsForEver`, `EveryRequestEnds`,
  `EveryRequestSettles`, `ScreenSettles`).
* Symmetry is used for interchangeable calls, objects and authors in runs without
  liveness.

### Fairness

* `stock_closing` assumes weak fairness of `Proceed(t)`: a request that has begun
  is carried on. The code justifies it: handlers run on one event loop that
  doesn't stop between awaits, a NOWAIT lock answers at once, and the waits that
  remain (a save blocked by an uncommitted insertion of the same key) are ended
  by `lock_timeout` (3 s), `statement_timeout` (10 s) or PostgreSQL's deadlock
  detector, the action `LockTimeout`. Without `LockTimeout` the property is
  false: two requests inserting two keys in opposite orders wait for each other.
* `sign_in` assumes weak fairness of each call's next statement (`Progress(c)`)
  and of each request's (`Proceed(r)`): the same event loop, and the browser's.
  `GuessingLocks` has its own premise: somebody guesses wrongly again and again
  and, from some time on, neither the password is given nor the account saved.
* `stock_requests` assumes for the screens weak fairness of every answer
  (`Answered(q)`: no call stays unanswered, an error counts; no axios timeout is
  set, so this is the server's and the network's doing) and of the handler's
  going on (`GoesOn(q)`).

Nothing is assumed of users, clients, closings, the clock or failures.
`NoneWaitsForEver` needs no fairness: it says that a call always has a step of
its own that is enabled, a timeout at the least.

## 4. Where code and documentation disagree

Each is a `findings` entry with the lines, and a run whose trace shows it.

1. **First receipts** (`stock_first_receipt`). Two first receipts of a key lock
   nothing. If one commits before the other's `save` reads the row, `save`
   issues an UPDATE with a quantity computed from no row, and a receipt is lost
   from the stock; the conventions say that such a collision rolls back.
2. **Posting in a closed month** (`stock_late_posting`). The month check is not
   serialised with `closeMonth`. What the code does guarantee is
   `SettledMonthIsFinal`: once the requests that had passed the check are over,
   the closed months no longer move.
3. **Cancellation race** (`stock_cancel_race`). The checks of `cancelDocument`
   precede its transaction, so a document may be cancelled twice or under a
   later transaction. Each cancellation is still an exact inverse.
4. **Over-allocation** (`over_allocation`). `saveOrderAllocations` doesn't look
   at the allocations of other orders. `createIntegratedOrder` does, under the
   right locks (`IntegratedWithinRequest`).
5. **Over-receipt** (`over_receipt`). The remainder is computed from document
   headers, which carry the order of the first item only. When receipts name
   one order each, it is right (`ReceiptFitsOrder`).
6. **Deleted in approval** (`deleted_in_approval`). Work orders, work permits
   and purchase requests are deleted on an unlocked check; a submission in
   between leaves a deleted document in approval that can no longer be decided.

What else was met while modelling, without a run of its own (the models contain
the behaviour and the properties are stated around it, as their comments say):

* *Board.* `deleteBoard` counts comments without the lock `saveComment` takes, so
  a comment can end up under a deleted post (product_spec.md:101 forbids deleting
  a post with comments). `deleteComment` removes by number, perhaps the comment
  of another author who got the number meanwhile (board.service.ts:213).
* *Procurement.* `createStandaloneOrder` saves the order and then its items, without
  a transaction (procurement.service.ts:428; coding_conventions.md:201 asks for one);
  a failure in between leaves an order without items, which `confirmOrder` confirms.
* *Sign-in.* A login or refresh that a revocation overtakes keeps its session; two
  refreshes with one cookie both get a session (auth.service.ts:535, against
  tech_spec.md:27); a lost answer of a sign-out keeps cookie and session
  (useAuthStore.ts:100). `updateUser` with `useYn` N revokes no session, a
  restored user keeps the old ones, and a stale MDM save writes an old failure
  count, lock and password hash back (mdm.service.ts:542).
* *Base data.* A deleted role still grants (user-access.service.ts reads the
  details only). Two administrators can demote each other and leave none. Two
  saves of one role's details mix column by column; two creations of one id
  become one row. Of two creations of one company the `save` of the later finds the
  committed row and updates it, and both answer that they created it, where the check
  before means to refuse (mdm.service.ts:859, 862). Nothing checks references when a plant or code is deleted.
* *Equipment.* A save without a difference in the header holds no lock and mixes
  its cycles with those of another; an approval brings a removed cycle back
  (approval.service.ts:476).
* *Screens.* The forms of purchase requests and orders have no loading flag, and a
  second click sends the same new document again (ProcurementContainer.tsx:270;
  tech_spec.md:207 says that this is prevented). The flag of an upload is a state of
  `FileUpload`: a form closed during an upload and opened again doesn't know of it
  (FileUpload.tsx:88) and is saved, although Board.tsx:116 means to prevent that, and
  the answer sets the attachment group of whatever form is open (FileUpload.tsx:137).
  PM's template button is not disabled while a call runs; one handler's
  `finally` clears the flag of another (WorkOrder.tsx:181); the answer of a save
  closes, and of a submission numbers, whatever form is open by then
  (WorkOrder.tsx:258, 286, ProcurementContainer.tsx:286); an order that was saved
  but not confirmed has a number and is still a new one, so that saving it again
  creates another (ProcurementContainer.tsx:271); a draft closed while it loads
  leaves its flag set.
* *Permissions.* The offers the server refuses are listed in `KnownRefusals` of
  Access. A PLANT user may choose any plant in the header and the server trusts it
  (plant.util.ts:31; its comment at line 8 and product_spec.md:32 speak of the
  home plant). `getRequests` with `receivableOnly` passes no user to the
  permission check and is always refused (procurement.service.ts:159).

## 5. The proofs

TLC checks the instances above. The theorems hold for all values of the
constants that satisfy the named assumptions in the modules: any keys, requests,
orders, documents, approvals, approvers and number of concurrent calls. The
assumptions say that names like `NoTx` are not among the things they stand apart
from, that initial quantities are naturals, that bodies are well typed, that
orders and request lines are finitely many (`FiniteAssumption`: the code adds
them up), that the rows of a mix of requests exist (`MixRows`), that the name of a
device is none of a tab (`DeviceNames`), that a company has a plant (`PlantNames`),
and that each screen has some bound on what the user does (`ScreenAssumption`).

Each proof module states an inductive invariant as a conjunction of named parts
(`IInv`, and one more for each component or argument that needs its own), proves that
it holds initially and that every action preserves it, and derives the theorems from
it.

**`StockLedger_proofs`.** `TypeCorrect`, `StockNeverNegative`,
`BooksAlwaysAgree`, `ExistingRowsNeverBlock`, `ClosingsAreFinal`,
`SettledMonthsAreFinal`. That stock equals the ledger is not inductive: a
request commits quantities computed from an image read long before. The
invariant says why the image is still right. `LockOwner` and `LocksHeld`: a
request past its locking steps holds every existing row among its keys (an
earlier one holds those it has visited). `Images`: for a provisioned row it
holds, the image is the committed quantity plus what the request has booked
itself. `NothingUnheld`: it has booked nothing on rows it doesn't hold.
`Commit` then moves the row and its ledger by the same amount. For non-negative
stock, `ImagesNonNegative` and `SaveAccepted` (a leg about to be saved passed
its check against the image that will be written) carry the guards across the
steps in between. `BookedWhenDated` says that a booking is dated by an item of
its request; with the month check it gives the theorem about settled months.

`ReversalsAreExact` compares two whole documents, and its invariant `VInv`
follows the cancellation row by row. `HistoryOK`: a ledger row has the sign of its
type (`Signed`), and what a request has booked on a key with one row is that row
(`Tallied`). `CancelOK`: a cancellation works through the opposites, index by
index, of a document that stays committed, whose rows have different keys
(`DistinctKeys`, a check of `cancelDocument`), and each row it has posted so far
has the key of its counterpart and takes back what that gave, since the opposite
of a signed row is one leg of the negated quantity (`OppositeLeg`).

`ImplementsAtomic` is the refinement, step by step: every step of the detailed
specification is one of `AtomicStock` or leaves its variables as they are. Its
invariant `RInv` relates the map of quantities to the abstract effect of the
legs: what a request has booked is the effect of the legs before its cursor
(`BookedIsEffect`, a sum over an interval of leg numbers, extended by one leg at
each `Save`), no leg that was saved took its row below zero from where the
request had found it (`NeverBelow`, through `Images` and the locks above), and at
the commit all legs are saved (`AllSaved`). Together these are the guard and the
effect of `Post`.

**`Sums`.** Lemmas about the sums of the models, `SumFunctionOnSet` of the
community modules, over any finite set: that the recursive definition has a value
at all, equal functions, types, taking a member out, changing the function at one
place, and a part of a set against the whole. The library's induction theorems take an
operator as parameter and can't be used, so each lemma takes a smallest set
it fails for, which exists since strict inclusion of finite sets is well-founded
(`WFMin`), takes a member out of it and finds a smaller one.

**`Purchasing_proofs`.** `TypeCorrect`, `AllocationsAlwaysMatch`,
`ConfirmedStaysFrozen`, `BookingsAreOnOpenOrders`, `IntegratedAlwaysWithinRequest`,
`ReceiptsAlwaysFit`, `ImplementsBook`. The parts `EditorHolds` and `ReceiptHolds` say what a
call between its lock and its write knows: it holds the order, and the order is
still a draft, or still receivable. `SaveUpdate` waits for that lock, which is
why unlocked confirmations and closings are safe here. `UpdatesUnlinked` and
`AllocatesFitting` keep an edit of lines and an edit of allocations of one order
apart. `Unborn`, `Creating`, `OnOrder` and `Unannounced` follow an order
from its number to the answer of its creation. The two theorems about quantities
are sums over orders that one call reads and another changes. `RequestsHeld` says
that a call integrating requests holds them, `StillAvailable` that what it
found available therefore still is when it saves: nobody else raises the sum
of a line it holds. For receipts, `Checked` says the same of the remainder of a
locked order, and `CountedIsReceived` that for receipts of one order each the
quantity counted by headers is the quantity received.

`ImplementsBook` is the refinement. Each call takes effect where it saves its last
row, and the proof shows that this step is the abstract action: the parts above,
with `OInv`, make the guard of that action true there, and a part of the allocations
adds up to no more than all of them (`SumWithin`), as hasty orders are not in the
book. `OInv` says of the rows what the book needs besides: nobody decides on an
order whose items are still to be saved (`Bare`), an edited draft is not deleted
and its shares stay within the request (`Editors`), and only orders of earlier
releases are ever closed (`Rows`, `Deciders`). `ConfirmedStaysFrozen` is what a user
notices of it: the lines of a confirmed order never change.

**`Documents_proofs`.** `DocumentsFollowApprovals`, `ApprovalsMatchResults`,
`HeadersMatchItems`, `CheckCyclesAreConfirmed`, `DecisionsStand`,
`UnderApprovalStaysFrozen`, `ImplementsDesk`. The parts follow one decision through its
transaction: `Holds` (the caller holds the approval), `Prepared` (what it will
commit is one step beyond what is committed), `Recording` and `Deleting` (what
`save` will write for an entity read earlier), `EditorHolds` (an edited document
is a draft under a lock), `RaisedForSaved` (an approval is raised only for a
document that exists).

`ImplementsDesk` is the refinement. The committed rows are the same on both sides, so
what has to be shown is that a call which checks at one step and writes at a later one
could have done both at the later one. For approvals this is `Intended`: what a call
wrote down when it locked the approval is still something that may be done to it, since
the row doesn't change until the lock is given back (`StillIntends`); `Prepared` says
whether the document changes with it, and `Recording` what a record is left with.
`DraftCopies` says which status an unlocked deletion may write back. `DecisionsStand` is
what an approver notices of it: no decision is ever replaced or removed.

**`Board_proofs`.** `TypeCorrect`, `RowsHaveObjects`, `NoObjectLostSilently`,
`AttachmentsAreOnlyRemoved`, `CommentsUnderLivePosts`. That every row has its object
is not inductive: what must be excluded is that somebody deletes an object that is,
or will become, a row's. The invariant says that an object has one owner. `RowsKept`: the object of
a row is stored, not being removed, and of no other row. `UploadsApart`: what an
upload has stored is in no row, in no other call's memory and not in the listing
of `reconcile`; this is where the grace period enters, and without it the
theorem is false. `DeletionsApart`: what a deletion has read is in its own rows
or in none. `Exclusive` says that an upload past its first step holds its group
or is alone to know of it, and `UploadNumbers` that it numbers its items after
those of the group, so a commit replaces no row; `CommentLocked` is the same for
comments. The theorem holds for any pool, with crashes and lost answers.
`NoObjectLostSilently` follows each stored object the other way round: it is in a
row, in the memory of the call that is to save or delete it, on its way to
deletion, or among those whose loss the history notes.

**`Browser_proofs`.** `TypeCorrect` of Accounts with Browser, and
`OldCredentialsEnd` (`OldCredentialsAreOut`). The property is about live sessions;
the invariant `MarksInv` is also about the calls that will make one. What is
outdated, a session or a sign-in under way, belongs to a user whom a call is
about to sign out everywhere (`SessionsMarked`, `CallsMarked`), and a login or
a refresh carries the mark of what it was let in by into the session it issues.
`Resting` and `Changing` say that a call that has answered stands for nobody and
one that revokes for somebody.

**`BackOffice_proofs`.** For BaseData, `BaseDataTypeCorrect`, `AuthorityStaysFresh`
and `NobodyEverChangesHimself`, under `KeysAssumption` (every
user and role has a row among the keys, and the tables hold rows of their types at
first). That a handler's authority is fresh says nothing of how it got there, so
the invariant follows the guard: `Authorized` says that a request that has read its
user has the role it found noted in `since` together with "in use", and that one
past the guard has a noted role that was noted as granting. Notes only grow while a
request is under way, so nobody else's step can take them away. `SavesOneself` is
the same for what a handler holds: a copy of one's own row is live and has a role
and a use noted. A save merges only the columns that differed, so what it writes is
one or the other (`MergedIsRow`, `WritesOneself`). `HandlersHold` reduces the
handlers of seven tables to one form.

For Equipment, `CyclesAreOfOneSave`. The invariant is about the row lock: a save
that changes the header holds it from its UPDATE to its commit (`LockHeld`), so
whoever holds it and has read the cycles has read every live one that is of the
header as it was (`ReadAll`); saves and approvals that hold nothing make no cycle of
the header. `NoneEarlier` follows at the commit. What is written aside is excepted
because the code lets it through: such a cycle joins those of a save it was not part
of. `OfficeTypesHold` puts the three subjects of MCBackOffice together.

**`Screens_proofs`.** `ScreensTypesHold` and `OneDocumentForEachFilling`, for any
number of documents, fillings, calls under way and turns. Nine screens with many
handlers each come down to a few moves: a handler asks (`Asks`: it reads, stores or
touches something), goes on with an answer (`Handles`: what becomes of the form, the
call and the flag), or the user changes the form (`Turns`). Each handler is shown to
be one of them, and the invariant is proved for the moves.

That a filling is in one document at most is not inductive; its invariant `OInv`
says where a filling can still be. On the screens with a loading flag, the flag is
the lock. `Flights`: while a save of an unexcused filling is under way the screen is
busy, no other save of it is, and nothing was stored for it yet; what can be
submitted again (`Submittable`: it is on a form without a number, or in the cache of
drafts) is in no document. `Openings`: what a call under way is going to open a form
with is nowhere else. `Orderly` says that only drafts are cached and that
what was saved has a number. On the screen of requests there is no flag, and a second save excuses the
filling instead. Fillings are excused when a save of theirs failed, when another
handler's `finally` cleared the flag under them, or when they were saved again before
an answer where nothing prevents it, as the comment of the property says. The screen of orders is left out, since a saved order
stays a new one there.

**Access, in `Board_proofs`.** `OffersTypesHold`, `OffersAreGranted`. A screen offers
what its list, its form and the row allow, and what it was allowed when it loaded or
opened them must still hold. `Loaded`: a loaded list, and a form opened for a new
document, passed their permission, and permissions don't change in a behaviour.
`FormPlants`: the plant of an open form is the one of its row or, for papers of a
PLANT user, the one in the header when the form was opened; an order is opened where
it can be found. That a session refresh changes the header under an open form
is one of the `KnownRefusals`; without it `OfferedIsGranted` is false. Then each of the five
kinds of screen is one lemma that follows every button to its guard and service
(`PapersGranted`, `RequestsGranted`, `OrdersGranted`, `StockGranted`,
`ApprovalsGranted`).

**Only model-checked.** `NoneWaitsForEver` is an ENABLED statement;
`EveryRequestEnds`, `EveryRequestSettles`, `GuessingLocks` and `ScreenSettles` are
liveness under fairness. Both are out of the prover's reach and stay with TLC. Every
other property of a passing run is proved. The library's induction theorems can't be
used either; where a proof needs induction over data, it is a smallest-set argument of
`Sums`. The findings are counterexamples, which TLC exhibits.

## 6. Not modelled, and why

* *Amounts and average prices*: arithmetic on decimals; no document states what
  they must add up to.
* *Document numbers*: one atomic upsert per number; there is nothing to interleave.
* *Power generation*: a client of an external service, I/O and formatting.
* *Connections leaked by wrong numbers* (work-order.service.ts:126): the document
  services are not composed with the pool. The line leaks on every such call.
* *Attachments of documents*: bound and deleted in the documents' own
  transactions; only those of posts are composed.
* *Reads*: lists, dashboards, lookups, exports and print views change nothing.
  What the lists show matters to Access and is modelled there.
* *Single fields*: names, addresses, dates, texts, template contents. A content is
  a member of a small set.
* *What an answer mixes on a form*: a late answer may set the fields, the number or
  the attachment group of a form that is about something else by then. The number is
  modelled, since what is created or changed depends on it; which fields and
  attachments come from which answer is not, and no document promises anything of it.
* *Permissions of a role* (RolePermissionManager) and `createIntegratedOrder` on the
  screens: no flag, no number and no new document of a form depend on them. What they
  do on the server is in `BaseData` and `Purchasing`.
* *Screens without calls that meet*: equipment, materials and the managers of
  plain base data are forms like the notice board's; layout and wording.
* *Left out inside modelled parts*: named at the head of each module and in
  section 2.

## 7. Plan

Done: the stock ledger, procurement, documents and approvals with their proofs;
then attachments, notice board and pool with proofs; sign-in with the browser;
base data and equipment with proofs; the screens and what they offer; abstract
specifications of the ledger, of procurement and of approvals, each with the proof
that the handlers implement it.

Next:

1. Proofs of what the abstractions promise: lemmas that relate the guards of a call
   to its phases, so that the argument behind `NoneWaitsForEver` is proved up to
   ENABLED.
2. An abstract specification of attachments (a set of attachments per document,
   added and removed at one instant) and of the permission check (a decision at
   one instant since the request began), with refinements.
3. Compositions: purchase requests confirmed by `Documents` inside `Purchasing`;
   the pool with the calls of the document services; check cycles of `Equipment`
   with the decisions of `Documents`.
4. More mixes for `sign_in` and more turns for `Pages` as far as time allows.
