------------------------------- MODULE Access -------------------------------
(***************************************************************************)
(* What the document screens offer the signed-in user, and what the server *)
(* lets that user do: permissions (C R U A of a module), ownership of a    *)
(* draft, and the plant.  A behaviour is about one screen, one user and    *)
(* one document.                                                           *)
(*                                                                         *)
(* A screen decides by the permissions of the sign-in answer, by the row   *)
(* its list or form holds and by the plant chosen in the header.  A route  *)
(* decides by the permissions in its guard, and its service by the row and *)
(* by the plant of the call, of the header and of the user.                *)
(***************************************************************************)
CONSTANTS Plants, NoPlant

VARIABLES
  kind,    \* the screen
  me,      \* the user: scope, home plant, permissions
  doc,     \* the row of the document
  screen   \* plant in the header, tab, list loaded, form and the plant in it;
           \* since, history: the plant in the header when the form was opened

accessVars == <<kind, me, doc, screen>>

Maybe == Plants \union {NoPlant}
Request(o, p) == [op |-> o, at |-> p]

---------------------------------------------------------------------------
\* The guards: per controller, the permissions each of its routes asks for.

WorkOrderNeeds ==
  [list |-> {<<"WO", "R">>, <<"EQP", "R">>}, detail |-> {<<"WO", "R">>},
   create |-> {<<"WO", "C">>}, update |-> {}, delete |-> {}, lookup |-> {<<"EQP", "R">>}]

WorkPermitNeeds ==
  [list |-> {<<"WP", "R">>, <<"EQP", "R">>, <<"WO", "R">>}, detail |-> {<<"WP", "R">>},
   create |-> {<<"WP", "C">>}, update |-> {}, delete |-> {}, lookup |-> {<<"EQP", "R">>}]

MaintenanceNeeds ==
  [list |-> {<<"PM", "R">>}, detail |-> {<<"PM", "R">>}, create |-> {<<"PM", "C">>},
   update |-> {}, delete |-> {}, lookup |-> {<<"EQP", "R">>}]

PurchaseNeeds ==
  [list |-> {<<"PUR", "R">>}, detail |-> {<<"PUR", "R">>}, links |-> {<<"PUR", "R">>},
   create |-> {<<"PUR", "C">>}, update |-> {}, delete |-> {},
   integrate |-> {<<"PUR", "R">>, <<"POR", "C">>}]

OrderNeeds ==
  [list |-> {<<"POR", "R">>}, detail |-> {<<"POR", "R">>}, links |-> {<<"POR", "R">>},
   create |-> {<<"POR", "C">>}, createConfirmed |-> {<<"POR", "C">>, <<"POR", "A">>},
   update |-> {}, allocate |-> {}, confirm |-> {<<"POR", "A">>}, close |-> {}]

StockNeeds ==
  [list |-> {<<"STK", "R">>, <<"INV", "R">>}, detail |-> {<<"STK", "R">>},
   receive |-> {<<"STK", "C">>}, cancel |-> {<<"STK", "C">>}, closeMonth |-> {<<"STK", "U">>}]

ApprovalNeeds ==
  [list |-> {}, detail |-> {}, files |-> {}, decide |-> {}, update |-> {}, delete |-> {}]

Needs == [WO |-> WorkOrderNeeds, WP |-> WorkPermitNeeds, PM |-> MaintenanceNeeds,
          PUR |-> PurchaseNeeds, POR |-> OrderNeeds, STK |-> StockNeeds, APR |-> ApprovalNeeds]

Kinds == DOMAIN Needs
\* The permissions that matter to screen k; the files of an approval ask for APR R.
Relevant(k) == UNION {Needs[k][o] : o \in DOMAIN Needs[k]}
               \union IF k = "APR" THEN {<<"APR", "R">>} ELSE {}

\* hasAction, of the guard and of the services.
Has(p) == p \in me.may
Permitted(r) == \A p \in Needs[kind][r.op] : Has(p)

---------------------------------------------------------------------------
\* The plant of a call.

Active == IF screen.plant # NoPlant THEN screen.plant ELSE me.home

\* The plant a call asking for p goes on with, NoPlant for the whole company;
\* none when it is refused.
Resolved(p) ==
  IF me.scope = "COMPANY" THEN {p} ELSE {a \in {Active} : p \in {NoPlant, a}}

\* A call asking for p reaches what belongs to plant q.
Reaches(p, q) == \E a \in Resolved(p) : a \in {NoPlant, q}

\* hasScope: stock looks at the home plant and not at the header.
HomeReaches(q) == me.scope = "COMPANY" \/ me.home = q

---------------------------------------------------------------------------
\* The document.

Live == doc.status \notin {"none", "gone"}
\* assertOwnDraft
OwnDraft == doc.mine /\ doc.status = "T"
\* "C" stands for the confirmed states C and S.
Approved == doc.status = "C"

\* The row another document starts from.
Blank == [status |-> "none", mine |-> TRUE, plant |-> CHOOSE p \in Plants : TRUE, seed |-> NoPlant,
          asked |-> FALSE, closed |-> FALSE, line |-> "off", files |-> FALSE]

\* Orders: alone, of requests (seed: the plant of the first), of an earlier
\* release (asked: purchaseRequestId is set).
OrderRows ==
  {d \in [status : {"T", "C"}, mine : BOOLEAN, plant : Plants, seed : Maybe, asked : BOOLEAN,
          closed : BOOLEAN, line : {"off"}, files : {FALSE}] :
     (d.asked => d.seed = d.plant) /\ (d.closed => d.asked /\ d.status = "C")}

\* Approvals; line is the user's place in the approval line.
ApprovalRows ==
  {d \in [status : {"T", "P", "C", "R"}, mine : BOOLEAN, plant : {Blank.plant}, seed : {NoPlant},
          asked : {FALSE}, closed : {FALSE}, line : {"off", "next", "done", "reference"},
          files : BOOLEAN] :
     (d.line = "done" => d.status # "T") /\ (d.line = "next" => d.status # "C")}

PaperRows ==
  [status : {"T", "P", "C", "R"}, mine : BOOLEAN, plant : Plants, seed : {NoPlant},
   asked : {FALSE}, closed : {FALSE}, line : {"off"}, files : {FALSE}]

Rows == IF kind \in {"POR", "STK"} THEN OrderRows
        ELSE IF kind = "APR" THEN ApprovalRows ELSE PaperRows

---------------------------------------------------------------------------
\* The services: whether one answers a request its guard has let pass.

\* findOne and findLocked take the row by the plant of the call.
Holds(p) == Live /\ p \in Resolved(p) /\ doc.plant = p

WorkOrderReads(r) == r.op = "detail" /\ Holds(r.at)
WorkOrderSaves(r) ==
  \/ r.op = "create" /\ r.at \in Resolved(r.at)
  \/ r.op = "update" /\ Holds(r.at) /\ OwnDraft
WorkOrderDeletes(r) == r.op = "delete" /\ Holds(r.at) /\ OwnDraft

WorkPermitReads(r) == r.op = "detail" /\ Holds(r.at)
WorkPermitSaves(r) ==
  \/ r.op = "create" /\ r.at \in Resolved(r.at)
  \/ r.op = "update" /\ Holds(r.at) /\ OwnDraft
WorkPermitDeletes(r) == r.op = "delete" /\ Holds(r.at) /\ OwnDraft

MaintenanceReads(r) == r.op = "detail" /\ Holds(r.at)
MaintenanceSaves(r) ==
  \/ r.op = "create" /\ r.at \in Resolved(r.at)
  \/ r.op = "update" /\ Holds(r.at) /\ OwnDraft
MaintenanceDeletes(r) == r.op = "delete" /\ Holds(r.at) /\ OwnDraft

\* The lookup of equipment in a plant.
EquipmentFound(r) == r.op = "lookup" /\ Resolved(r.at) # {}

\* getRequestDetail
RequestRead(p) == Live /\ Reaches(p, doc.plant)
\* createOrUpdate keeps to the plant of the row and does not look at the user's.
RequestSaved(r) == r.op = "create" \/ (r.op = "update" /\ OwnDraft)
RequestDeleted(r) == r.op = "delete" /\ OwnDraft
Integrated(r) == r.op = "integrate" /\ RequestRead(r.at) /\ Approved

\* getPurchaseOrderDetail: by the plant of the request the order is of.
OrderRead(p) == Live /\ Reaches(p, IF doc.seed = NoPlant THEN doc.plant ELSE doc.seed)
OrderCreated(r) ==
  \/ r.op = "create"
  \/ r.op = "createConfirmed" /\ Reaches(NoPlant, r.at)
\* The answer reads the order again, with the plant just saved.
OrderUpdated(r) ==
  /\ r.op = "update" /\ OwnDraft /\ r.at \in Resolved(r.at)
  /\ doc.seed # NoPlant => r.at = doc.plant /\ OrderRead(r.at)
OrderConfirmed(r) == r.op = "confirm" /\ doc.status = "T" /\ OrderRead(NoPlant)
OrderAllocated(r) == r.op = "allocate" /\ OwnDraft
OrderClosed(r) == r.op = "close" /\ doc.asked /\ Approved /\ ~doc.closed

StockPosted(r) ==
  \/ r.op = "detail" /\ Approved /\ ~doc.closed /\ OrderRead(r.at)
  \/ r.op = "receive" /\ HomeReaches(r.at)
  \/ r.op \in {"cancel", "closeMonth"}

\* assertCanReadApproval
ApprovalRead == Live /\ (doc.mine \/ (doc.status # "T" /\ doc.line # "off"))
\* assertCanReadAttachmentGroup, of an approval.
FilesRead == (doc.mine /\ doc.status \in {"T", "R"}) \/ Has(<<"APR", "R">>)
ApprovalDecided(r) == r.op = "decide" /\ doc.status = "P" /\ doc.line = "next"
ApprovalServes(r) ==
  \/ r.op = "detail" /\ ApprovalRead
  \/ r.op = "files" /\ FilesRead
  \/ ApprovalDecided(r)
  \/ r.op \in {"update", "delete"} /\ OwnDraft

Served(r) ==
  CASE kind = "WO" -> WorkOrderReads(r) \/ WorkOrderSaves(r) \/ WorkOrderDeletes(r) \/ EquipmentFound(r)
    [] kind = "WP" -> WorkPermitReads(r) \/ WorkPermitSaves(r) \/ WorkPermitDeletes(r)
                      \/ EquipmentFound(r)
    [] kind = "PM" -> MaintenanceReads(r) \/ MaintenanceSaves(r) \/ MaintenanceDeletes(r)
                      \/ EquipmentFound(r)
    [] kind = "PUR" -> \/ r.op = "detail" /\ RequestRead(r.at)
                       \/ r.op = "links"
                       \/ RequestSaved(r) \/ RequestDeleted(r) \/ Integrated(r)
    [] kind = "POR" -> \/ r.op = "detail" /\ OrderRead(r.at)
                       \/ r.op = "links"
                       \/ OrderCreated(r) \/ OrderUpdated(r) \/ OrderConfirmed(r)
                       \/ OrderAllocated(r) \/ OrderClosed(r)
    [] kind = "STK" -> StockPosted(r)
    [] kind = "APR" -> ApprovalServes(r)

Granted(r) == Permitted(r) /\ Served(r)

---------------------------------------------------------------------------
\* The lists.  The drafts' list has the user's own drafts, the other no draft.

InTab == IF screen.tab = "drafts" THEN OwnDraft ELSE doc.status # "T"

\* Mutant of WorkOrderList: the list without its plant.
EveryPlant == InTab
WorkOrderList == InTab /\ Reaches(screen.plant, doc.plant)
WorkPermitList == InTab /\ Reaches(screen.plant, doc.plant)
MaintenanceList == InTab /\ Reaches(screen.plant, doc.plant)
RequestList == InTab /\ Reaches(screen.plant, doc.plant)
OrderList == InTab /\ OrderRead(screen.plant)
StockList == Approved /\ ~doc.closed /\ OrderRead(screen.plant)
ApprovalList ==
  CASE screen.tab = "sent" -> doc.mine
    [] screen.tab = "pending" -> doc.status = "P" /\ doc.line = "next"
    [] screen.tab = "processed" -> doc.line = "done"
    [] screen.tab = "referenced" -> doc.line = "reference"

\* The list is loaded and shows the document.
Listed ==
  screen.list /\ Live /\
  CASE kind = "WO" -> WorkOrderList
    [] kind = "WP" -> WorkPermitList
    [] kind = "PM" -> MaintenanceList
    [] kind = "PUR" -> RequestList
    [] kind = "POR" -> OrderList
    [] kind = "STK" -> StockList
    [] kind = "APR" -> ApprovalList

---------------------------------------------------------------------------
\* What the screens offer: the calls of the buttons of a row and of the form.

New == screen.form = "new"
Open == screen.form = "open"

\* The form's footer: canEditCurrent, canDeleteCurrent.
WorkOrderForm ==
  {r \in [op : {"lookup", "create"}, at : {screen.at}] : New}
  \union {r \in [op : {"lookup", "update", "delete"}, at : {screen.at}] : Open /\ OwnDraft}
WorkPermitForm ==
  {r \in [op : {"lookup", "create"}, at : {screen.at}] : New}
  \union {r \in [op : {"lookup", "update", "delete"}, at : {screen.at}] : Open /\ OwnDraft}
\* The equipment of a stored record is fixed.
MaintenanceForm ==
  {r \in [op : {"lookup", "create"}, at : {screen.at}] : New}
  \union {r \in [op : {"update", "delete"}, at : {screen.at}] : Open /\ OwnDraft}

\* The number prints, the pencil opens, the arrow starts a result: each loads
\* the document with its own plant.
WorkOrderRow == {r \in {Request("detail", doc.plant)} : Listed}
WorkPermitRow == {r \in {Request("detail", doc.plant)} : Listed}
MaintenanceRow == {r \in {Request("detail", doc.plant)} : Listed}

\* Rows of the purchasing screens load with the plant in the header.
RequestRow ==
  {r \in [op : {"detail", "links"}, at : {screen.plant}] : Listed}
  \union {r \in {Request("integrate", screen.plant)} : Listed /\ Has(<<"POR", "C">>) /\ Approved}
RequestForm ==
  {r \in {Request("create", screen.at)} : New /\ Has(<<"PUR", "C">>)}
  \union {r \in [op : {"update", "delete"}, at : {screen.at}] : Open /\ OwnDraft}

OrderRow == {r \in [op : {"detail", "links"}, at : {screen.plant}] : Listed}
OrderForm ==
  {r \in {Request("create", screen.at)} : New}
  \union {r \in {Request("createConfirmed", screen.at)} : New /\ Has(<<"POR", "A">>)}
  \union {r \in {Request("update", screen.at)} : Open /\ OwnDraft}
  \union {r \in {Request("allocate", screen.at)} : Open /\ OwnDraft /\ doc.seed # NoPlant /\ ~doc.asked}
  \union {r \in {Request("confirm", screen.at)} : Open /\ doc.status = "T" /\ Has(<<"POR", "A">>)}
  \union {r \in {Request("close", screen.at)} : Open /\ Approved /\ ~doc.closed}

\* The grid is always there; its warehouses are of the plant in the header.
StockGrid ==
  {r \in {Request("detail", screen.plant)} : Listed}
  \union {r \in [op : {"receive"}, at : Plants] :
            screen.list /\ Has(<<"STK", "C">>) /\ Reaches(screen.plant, r.at)}
  \union {r \in {Request("closeMonth", NoPlant)} : Has(<<"STK", "C">>)}
  \union {Request("cancel", NoPlant)}

ApprovalRow ==
  {r \in {Request("detail", NoPlant)} : Listed}
  \union {r \in [op : {"update", "delete"}, at : {NoPlant}] : Listed /\ OwnDraft}
\* loadDetail asks for the files before it shows the document.
ApprovalDetail ==
  {r \in {Request("files", NoPlant)} : Listed /\ ApprovalRead /\ doc.files}
  \union {r \in {Request("decide", NoPlant)} : Open /\ doc.status = "P" /\ doc.line = "next"}
  \union {r \in {Request("update", NoPlant)} : Open /\ OwnDraft}

Offers ==
  CASE kind = "WO" -> IF screen.form = "none" THEN WorkOrderRow ELSE WorkOrderForm
    [] kind = "WP" -> IF screen.form = "none" THEN WorkPermitRow ELSE WorkPermitForm
    [] kind = "PM" -> IF screen.form = "none" THEN MaintenanceRow ELSE MaintenanceForm
    [] kind = "PUR" -> IF screen.form = "none" THEN RequestRow ELSE RequestForm
    [] kind = "POR" -> IF screen.form = "none" THEN OrderRow ELSE OrderForm
    [] kind = "STK" -> StockGrid
    [] kind = "APR" -> IF screen.form = "none" THEN ApprovalRow \union ApprovalDetail
                       ELSE ApprovalDetail

---------------------------------------------------------------------------
\* What the user and the others do.

Tabs == [k \in Kinds |-> IF k = "APR" THEN {"sent", "pending", "processed", "referenced"}
                         ELSE IF k = "STK" THEN {"documents"} ELSE {"documents", "drafts"}]
Closed(s) == [s EXCEPT !.form = "none", !.at = NoPlant, !.since = NoPlant]
Shut(s) == [Closed(s) EXCEPT !.list = FALSE]
\* Form f is opened on plant p.
Shown(f, p) == [screen EXCEPT !.form = f, !.at = p, !.since = screen.plant]

AccessTypeOK ==
  /\ kind \in Kinds
  /\ me \in [scope : {"COMPANY", "PLANT"}, home : Maybe, may : SUBSET Relevant(kind)]
  /\ me.scope = "PLANT" => me.home \in Plants /\ screen.plant \in Plants
  /\ doc \in Rows \/ doc = Blank \/ doc.status = "gone"
  /\ screen \in [plant : Maybe, tab : Tabs[kind], list : BOOLEAN,
                 form : {"none", "new", "open"}, at : Maybe, since : Maybe]
  /\ screen.form = "none" => screen.at = NoPlant /\ screen.since = NoPlant
  /\ screen.form = "open" => Live

\* The home plant is the header's first; a company user's has no other use.
AccessInit ==
  /\ kind \in Kinds
  /\ me \in [scope : {"COMPANY", "PLANT"}, home : Maybe, may : SUBSET Relevant(kind)]
  /\ me.scope = "PLANT" <=> me.home # NoPlant
  /\ doc \in Rows \union {Blank}
  /\ \E t \in Tabs[kind] :
       screen = [plant |-> me.home, tab |-> t, list |-> FALSE,
                 form |-> "none", at |-> NoPlant, since |-> NoPlant]

\* Every user is offered every plant, company users the whole company too.
SelectPlant ==
  /\ screen.form = "none"
  /\ \E p \in Plants \union IF me.scope = "COMPANY" THEN {NoPlant} ELSE {} :
       screen' = [screen EXCEPT !.plant = p, !.list = kind = "APR" /\ screen.list]
  /\ UNCHANGED <<kind, me, doc>>

\* applyAuth: a refresh of the session, which any call may set off, puts the
\* home plant back, whatever form is open.
Refreshed ==
  /\ screen.plant # me.home
  /\ screen' = [screen EXCEPT !.plant = me.home, !.list = kind = "APR" /\ screen.list]
  /\ UNCHANGED <<kind, me, doc>>

SelectTab ==
  /\ screen.form = "none"
  /\ \E t \in Tabs[kind] \ {screen.tab} : screen' = [screen EXCEPT !.tab = t, !.list = FALSE]
  /\ UNCHANGED <<kind, me, doc>>

LoadList ==
  /\ screen.form = "none" /\ ~screen.list
  /\ Permitted(Request("list", screen.plant)) /\ Resolved(screen.plant) # {}
  /\ screen' = [screen EXCEPT !.list = TRUE]
  /\ UNCHANGED <<kind, me, doc>>

\* The plants of a new form: of the equipment found, or picked in the form.
NewAt ==
  CASE kind \in {"WO", "WP"} -> {p \in Plants : Reaches(NoPlant, p)}
    [] kind = "PM" -> {p \in Plants : Reaches(screen.plant, p)}
    [] kind \in {"PUR", "POR"} -> {p \in Plants : Has(<<kind, "R">>)}
    [] kind \in {"STK", "APR"} -> {}

OpenNew ==
  /\ screen.form = "none" /\ Has(<<kind, "C">>)
  /\ \E p \in NewAt : screen' = Shown("new", p)
  /\ UNCHANGED <<kind, me, doc>>

\* openDetailForm: a rejected request is opened as a new one.
OpenRow ==
  /\ screen.form = "none" /\ Listed
  /\ kind \in {"WO", "WP", "PM"} => OwnDraft
  /\ kind # "STK"
  /\ \A r \in Offers : r.op \in {"detail", "files"} => Granted(r)
  /\ screen' = Shown(IF kind = "PUR" /\ doc.status = "R" THEN "new" ELSE "open", doc.plant)
  /\ UNCHANGED <<kind, me, doc>>

\* openResultFromPlan
OpenResult ==
  /\ kind = "WO" /\ screen.form = "none" /\ Listed /\ Approved
  /\ Has(<<"WO", "C">>) /\ Granted(Request("detail", doc.plant))
  /\ screen' = Shown("new", doc.plant)
  /\ UNCHANGED <<kind, me, doc>>

CloseForm ==
  /\ screen.form # "none" /\ screen' = Closed(screen)
  /\ UNCHANGED <<kind, me, doc>>

\* The plant of one's own order draft, unless it is of requests.
PickPlant ==
  /\ kind = "POR" /\ Open /\ OwnDraft /\ doc.seed = NoPlant
  /\ \E p \in Plants \ {screen.at} : screen' = [screen EXCEPT !.at = p]
  /\ UNCHANGED <<kind, me, doc>>

\* Drafts may go into approval as they are saved, orders may not.
Stored(d) == {[d EXCEPT !.status = s] : s \in IF kind = "POR" THEN {"T"} ELSE {"T", "P"}}

Outcomes(r) ==
  CASE r.op = "create" -> Stored([Blank EXCEPT !.plant = r.at])
    [] r.op = "createConfirmed" -> {[Blank EXCEPT !.plant = r.at, !.status = "C"]}
    [] r.op = "update" -> Stored(IF kind = "POR" THEN [doc EXCEPT !.plant = r.at] ELSE doc)
    [] r.op = "delete" -> {[doc EXCEPT !.status = "gone"]}
    [] r.op = "confirm" -> {[doc EXCEPT !.status = "C"]}
    [] r.op = "close" -> {[doc EXCEPT !.closed = TRUE]}
    [] r.op = "decide" -> {[doc EXCEPT !.status = s, !.line = "done"] : s \in {"P", "C", "R"}}
    [] OTHER -> {}

Take ==
  /\ \E r \in Offers : Granted(r) /\ doc' \in Outcomes(r)
  /\ screen' = Shut(screen)
  /\ UNCHANGED <<kind, me>>

\* Others raise their drafts and decide on approvals.
OthersAct ==
  /\ \/ doc.status = "T" /\ ~doc.mine /\ kind \notin {"POR", "STK"} /\ doc' = [doc EXCEPT !.status = "P"]
     \/ doc.status = "P" /\ doc.line # "next" /\ \E s \in {"C", "R"} : doc' = [doc EXCEPT !.status = s]
  /\ screen' = Shut(screen)
  /\ UNCHANGED <<kind, me>>

AccessNext == SelectPlant \/ Refreshed \/ SelectTab \/ LoadList \/ OpenNew \/ OpenRow
              \/ OpenResult \/ CloseForm \/ PickPlant \/ Take \/ OthersAct

---------------------------------------------------------------------------
\* Offers the server is known to refuse.
KnownRefusals ==
  {r \in Offers :
     \* The forms look equipment up, which is a permission of its own.
     \/ r.op = "lookup" /\ ~Has(<<"EQP", "R">>)
     \* The session was refreshed under an open form.
     \/ /\ kind # "APR" /\ me.scope = "PLANT"
        /\ screen.form # "none" /\ screen.plant # screen.since
     \* Only an order of an earlier release can be closed.
     \/ r.op = "close" /\ ~doc.asked
     \* The form offers plants the user is not in, and an order of requests
     \* of two plants may carry the other plant than the one it is listed in.
     \/ kind = "POR" /\ r.op = "update" /\ (r.at \notin Resolved(r.at) \/ doc.seed \notin {NoPlant, r.at})
     \/ r.op = "createConfirmed" /\ r.at \notin Resolved(r.at)
     \* Stock: closing a month asks for U, cancelling is offered to everyone,
     \* and receipts go by the home plant, not by the header.
     \/ r.op = "closeMonth" /\ ~Has(<<"STK", "U">>)
     \/ r.op = "cancel" /\ ~Has(<<"STK", "C">>)
     \/ r.op = "receive" /\ me.home # r.at
     \* Approvals: a draft is listed to those it names for reference, and its
     \* files follow another permission than the document.
     \/ kind = "APR" /\ r.op = "detail" /\ doc.status = "T" /\ ~doc.mine
     \/ r.op = "files" /\ ~Has(<<"APR", "R">>)}

\* Whatever else a screen offers, the server grants to the user it is offered
\* to: the row is listed, opened, saved, raised, confirmed and decided on by
\* the same permissions, ownership and plant on both sides.
OfferedIsGranted == \A r \in Offers \ KnownRefusals : Granted(r)
=============================================================================
