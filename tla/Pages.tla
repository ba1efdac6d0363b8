-------------------------------- MODULE Pages --------------------------------
(***************************************************************************)
(* The screens of the frontend with the calls they make: src/frontend/src, *)
(* pages, containers and features.  A behaviour is about one screen, page. *)
(*                                                                         *)
(* A screen has a form over its list, a number and fields that React keeps *)
(* apart, and a loading flag all its handlers share.  A handler that waits *)
(* for an answer goes on with what it captured when it was started, and    *)
(* sets the state the screen has by then.                                  *)
(***************************************************************************)
EXTENDS Naturals

CONSTANTS
  Queries,      \* the calls a screen can have under way
  Papers,       \* documents, by number
  NoPaper,
  Fillings,     \* new forms a user fills in, each from its opening to its end
  MaxTurns

\* What the constants are to satisfy.
PaperNames == NoPaper \notin Papers \union Fillings

VARIABLES
  page,      \* the screen
  form,      \* open; its number (id); the filling, if it is new; its upload; a view behind it
  busy,      \* isLoading
  modal,     \* the linked approval draft, ApprovalDraftModal: its document, isLoading and upload
  query,     \* per call: its phase and what the handler captured
  row,       \* per number: the document on the server and what it was filled in as
  excused,   \* history: fillings whose save was not answered before the next
  cached,    \* the draft in localStorage
  turns      \* what users have done

pageVars == <<page, form, busy, modal, query, row, excused, cached, turns>>

WithApproval == {"workOrder", "workPermit", "maintenance", "request"}
Screens == WithApproval \union {"order", "draft", "inbox", "post", "stock"}

Operations == {"none", "load", "rows", "save", "raise", "submit", "confirm", "allocate",
               "delete", "decide", "close", "upload", "other"}

PagesTypeOK ==
  /\ page \in Screens
  /\ form \in [open: BOOLEAN, no: Papers \union {NoPaper}, of: Fillings \union {NoPaper},
               upload: SUBSET Queries, behind: Papers \union {NoPaper}]
  /\ busy \in BOOLEAN
  /\ modal \in [paper: Papers \union {NoPaper}, busy: BOOLEAN, upload: SUBSET Queries]
  /\ query \in [Queries -> [phase: {"idle", "sent", "ok", "failed"}, op: Operations,
                            no: Papers \union {NoPaper}, of: Fillings \union {NoPaper}]]
  /\ row \in [Papers -> [status: {"none", "draft", "approval", "confirmed", "rejected", "gone"},
                         from: Fillings \union {NoPaper}]]
  /\ turns \in 0..MaxTurns[page] /\ excused \subseteq Fillings /\ cached \in Fillings \union {NoPaper}

NoForm == [open |-> FALSE, no |-> NoPaper, of |-> NoPaper, upload |-> {}, behind |-> NoPaper]
NoQuery == [phase |-> "idle", op |-> "none", no |-> NoPaper, of |-> NoPaper]
NoModal == [paper |-> NoPaper, busy |-> FALSE, upload |-> {}]

PagesInit ==
  /\ page \in Screens
  /\ form = [NoForm EXCEPT !.open = page = "stock"] /\ busy = FALSE
  /\ modal = NoModal /\ query = [q \in Queries |-> NoQuery]
  /\ row \in [Papers -> [status: {"none", "draft"}, from: {NoPaper}]]
  /\ excused = {} /\ cached = NoPaper /\ turns = 0

-----------------------------------------------------------------------------
(***************************************************************************)
(* What the handlers have in common.                                       *)
(***************************************************************************)
Shown == form.open /\ modal.paper = NoPaper       \* nothing covers the form
Listed == ~form.open /\ form.behind = NoPaper /\ modal.paper = NoPaper  \* nor the list
Exists(d) == row[d].status # "none"

Unused == Fillings \ ({form.of, cached} \union {query[q].of : q \in Queries}
                     \union {row[d].from : d \in Papers})
Fresh == IF Unused = {} THEN {} ELSE {CHOOSE f \in Unused : TRUE}

Show(n, f) == form' = [form EXCEPT !.open = TRUE, !.no = n, !.of = f]
\* What opens an order does not always set what is on the form.
Shut == form' = [form EXCEPT !.open = FALSE, !.upload = {},
                             !.of = IF page = "order" THEN @ ELSE NoPaper]

\* Calls and fillings are alike: the next one is any that is free.
FreeQuery == CHOOSE q \in Queries : query[q].phase = "idle"
Ask(q, o, n, f) ==
  /\ query[q].phase = "idle" /\ q = FreeQuery
  /\ query' = [query EXCEPT ![q] = [phase |-> "sent", op |-> o, no |-> n, of |-> f]]
AskOf(q, o) == Ask(q, o, form.no, form.of)
Answer(q, o) == query[q].phase \in {"ok", "failed"} /\ query[q].op = o
Ok(q) == query[q].phase = "ok"
Done(q) == query' = [query EXCEPT ![q] = NoQuery]
GoOn(q, o) == query' = [query EXCEPT ![q].phase = "sent", ![q].op = o]

Saves == {"save", "raise", "submit"}
SavedOf(qs) == {query[q].of : q \in {p \in qs : query[p].op \in Saves /\ query[p].phase # "idle"}}
\* A save that failed may have been stored; one that is still under way when
\* another handler clears the flag, or saves the same where there is no flag, is
\* not waited for.
Failure(q) == excused' = (excused \union (IF Ok(q) THEN {} ELSE SavedOf({q}))) \cap Fillings
Again == excused' = (excused \union (SavedOf(Queries) \cap {form.of})) \cap Fillings
\* A bug: the flag is cleared on success only.
ReleaseIfOk(q) ==
  /\ busy' = (busy /\ ~Ok(q))
  /\ excused' = (excused \union SavedOf(Queries \ {q})
                         \union (IF Ok(q) THEN {} ELSE SavedOf({q}))) \cap Fillings
Release(q) ==
  /\ busy' = FALSE
  /\ excused' = (excused \union SavedOf(Queries \ {q})
                         \union (IF Ok(q) THEN {} ELSE SavedOf({q}))) \cap Fillings

\* A new form; React keeps what the last one had unless it is set.
Open ==
  /\ Listed
  /\ \E f \in Fresh :
       Show(NoPaper, f) /\ excused' = excused \ {f}
  /\ UNCHANGED <<page, busy, modal, query, row, cached>>
Close == Shown /\ Shut /\ UNCHANGED <<page, busy, modal, query, row, excused, cached>>

\* A rejected document is opened as a new one, filled in from it.
Loads(q, d) == Exists(d) /\ \E f \in Fresh : Ask(q, "load", d, f)
ShowLoaded(q) ==
  IF query[q].no = NoPaper THEN Show(NoPaper, query[q].of) ELSE Show(query[q].no, NoPaper)
Same == UNCHANGED <<page, row, cached>>

Loaded(q) ==
  /\ Answer(q, "load") /\ Done(q)
  /\ IF Ok(q) THEN ShowLoaded(q) ELSE UNCHANGED form
  /\ Release(q) /\ UNCHANGED modal /\ Same
Load(q, d) ==
  /\ Listed /\ Loads(q, d) /\ busy' = TRUE
  /\ UNCHANGED <<form, modal, excused>> /\ Same

Save(q, o) ==
  /\ Shown /\ ~busy /\ form.upload = {} /\ busy' = TRUE
  /\ AskOf(q, o) /\ UNCHANGED <<form, modal, excused>> /\ Same
Saved(q) ==
  /\ Answer(q, "save") /\ Done(q) /\ Release(q)
  /\ IF Ok(q) THEN Shut ELSE UNCHANGED form
  /\ UNCHANGED modal /\ Same

\* The number that was saved is set, and its approval drafted.
\* A bug: the form stays that of a new document.
KeepNumber(q) == UNCHANGED form
SetNumber(q) == form' = [form EXCEPT !.no = query[q].no]
DraftApproval(q) == modal' = [modal EXCEPT !.paper = query[q].no]
Raised(q) ==
  /\ Answer(q, "raise") /\ Done(q) /\ Release(q)
  /\ IF Ok(q) THEN SetNumber(q) /\ DraftApproval(q) ELSE UNCHANGED <<form, modal>>
  /\ Same

\* Deleting holds no flag.
Delete(q, d) ==
  /\ d # NoPaper /\ Ask(q, "delete", d, NoPaper)
  /\ UNCHANGED <<form, busy, modal, excused>> /\ Same
Deleted(q, closes) ==
  /\ Answer(q, "delete") /\ Done(q)
  /\ IF Ok(q) /\ closes THEN Shut ELSE UNCHANGED form
  /\ UNCHANGED <<busy, modal, excused>> /\ Same

\* FileUpload, in the form of a post and of an approval draft, linked or not:
\* a form that is opened again has one that does not know of an upload before.
Upload(q) ==
  /\ \/ /\ page \in {"post", "draft"} /\ Shown /\ form.upload = {}
        /\ AskOf(q, "upload") /\ form' = [form EXCEPT !.upload = {q}] /\ UNCHANGED modal
     \/ /\ modal.paper # NoPaper /\ modal.upload = {}
        /\ Ask(q, "upload", modal.paper, NoPaper)
        /\ modal' = [modal EXCEPT !.upload = {q}] /\ UNCHANGED form
  /\ UNCHANGED <<busy, excused>> /\ Same
Uploaded(q) ==
  /\ Answer(q, "upload") /\ Done(q)
  /\ form' = [form EXCEPT !.upload = @ \ {q}] /\ modal' = [modal EXCEPT !.upload = @ \ {q}]
  /\ UNCHANGED <<busy, excused>> /\ Same
-----------------------------------------------------------------------------
(***************************************************************************)
(* The screens: per handler its start and its going on.                    *)
(***************************************************************************)
\* WorkOrder.tsx.  A confirmed plan is the start of a new form as well.
WorkOrderForm == Open \/ Close
WorkOrderRead(q) == (\E d \in Papers : Load(q, d)) \/ Loaded(q)
WorkOrderSave(q) == (\E o \in {"save", "raise"} : Save(q, o)) \/ Saved(q) \/ Raised(q)
WorkOrderDelete(q) == (Shown /\ ~busy /\ Delete(q, form.no)) \/ Deleted(q, TRUE)
ResultFromPlan(q) ==
  \/ /\ Listed /\ busy' = TRUE
     /\ \E d \in Papers, f \in Fresh : row[d].status = "confirmed" /\ Ask(q, "rows", d, f)
     /\ UNCHANGED <<form, modal, excused>> /\ Same
  \/ /\ Answer(q, "rows") /\ Done(q) /\ Release(q)
     /\ IF Ok(q) THEN Show(NoPaper, query[q].of) ELSE UNCHANGED form
     /\ UNCHANGED modal /\ Same

\* WorkPermit.tsx.
WorkPermitForm == Open \/ Close
WorkPermitRead(q) == (\E d \in Papers : Load(q, d)) \/ Loaded(q)
WorkPermitSave(q) == (\E o \in {"save", "raise"} : Save(q, o)) \/ Saved(q) \/ Raised(q)
WorkPermitDelete(q) == (Shown /\ ~busy /\ Delete(q, form.no)) \/ Deleted(q, TRUE)

\* PmRecord.tsx.  The templates are loaded whether or not something is under way.
MaintenanceForm == Open \/ Close
MaintenanceRead(q) == (\E d \in Papers : Load(q, d)) \/ Loaded(q)
MaintenanceSave(q) == (\E o \in {"save", "raise"} : Save(q, o)) \/ Saved(q) \/ Raised(q)
MaintenanceDelete(q) == (Shown /\ ~busy /\ Delete(q, form.no)) \/ Deleted(q, TRUE)
LoadTemplates(q) ==
  \/ /\ Shown /\ AskOf(q, "rows") /\ busy' = TRUE
     /\ UNCHANGED <<form, modal, excused>> /\ Same
  \/ /\ Answer(q, "rows") /\ Done(q) /\ Release(q) /\ UNCHANGED <<form, modal>> /\ Same

\* The linked ApprovalDraftModal.  The screens of work orders and permits keep
\* it and its flag, the others drop it.  A submission that is answered closes
\* what is open by then.
KeepModal == {"workOrder", "workPermit"}
CloseModal ==
  /\ modal.paper # NoPaper
  /\ modal' = [NoModal EXCEPT !.busy = modal.busy /\ page \in KeepModal]
  /\ UNCHANGED <<page, form, busy, query, row, excused, cached>>
SubmitModal(q) ==
  /\ modal.paper # NoPaper /\ ~modal.busy /\ modal.upload = {} /\ modal' = [modal EXCEPT !.busy = TRUE]
  /\ Ask(q, "confirm", modal.paper, NoPaper)
  /\ UNCHANGED <<form, busy, excused>> /\ Same
ModalSubmitted(q) ==
  /\ Answer(q, "confirm") /\ Done(q)
  /\ IF Ok(q) THEN modal' = NoModal /\ Shut
     ELSE modal' = [modal EXCEPT !.busy = FALSE] /\ UNCHANGED form
  /\ UNCHANGED <<busy, excused>> /\ Same

\* ProcurementContainer.tsx, requests: nothing waits for anything.
RequestForm == Open \/ Close
RequestRead(q) ==
  \/ Listed /\ (\E d \in Papers : Loads(q, d)) /\ UNCHANGED <<form, busy, modal, excused>> /\ Same
  \/ /\ Answer(q, "load") /\ Done(q)
     /\ IF Ok(q) THEN ShowLoaded(q) ELSE UNCHANGED form
     /\ UNCHANGED <<busy, modal, excused>> /\ Same
RequestSave(q) ==
  \/ /\ Shown /\ (\E o \in {"save", "raise"} : AskOf(q, o)) /\ Again
     /\ UNCHANGED <<form, busy, modal>> /\ Same
  \/ /\ Answer(q, "save") /\ Done(q) /\ Failure(q)
     /\ IF Ok(q) THEN Shut ELSE UNCHANGED form
     /\ UNCHANGED <<busy, modal>> /\ Same
  \/ /\ Answer(q, "raise") /\ Done(q) /\ Failure(q)
     /\ IF Ok(q) THEN SetNumber(q) /\ DraftApproval(q) ELSE UNCHANGED <<form, modal>>
     /\ UNCHANGED busy /\ Same
RequestDelete(q) == (Shown /\ Delete(q, form.no)) \/ Deleted(q, TRUE)

\* ProcurementContainer.tsx, orders.  The header and the lines are shown before
\* the allocations are there, which only then open the form.
OrderForm == Open \/ Close
OrderRead(q) ==
  \/ /\ Listed /\ \E d \in Papers : Exists(d) /\ Ask(q, "load", d, NoPaper)
     /\ UNCHANGED <<form, busy, modal, excused>> /\ Same
  \/ /\ Answer(q, "load")
     /\ IF Ok(q) THEN form' = [form EXCEPT !.no = query[q].no, !.of = NoPaper] /\ GoOn(q, "rows")
        ELSE UNCHANGED form /\ Done(q)
     /\ UNCHANGED <<busy, modal, excused>> /\ Same
  \/ /\ Answer(q, "rows") /\ Done(q)
     /\ form' = IF Ok(q) THEN [form EXCEPT !.open = TRUE] ELSE form
     /\ UNCHANGED <<busy, modal, excused>> /\ Same
\* What is filled in as new is created whatever its number; it is numbered, and
\* then confirmed if that was asked for.
NewOrder == form.of # NoPaper
OrderSave(q) ==
  \/ /\ Shown
     /\ \/ Ask(q, "save", IF NewOrder THEN NoPaper ELSE form.no, form.of)
        \/ NewOrder /\ form.no = NoPaper /\ AskOf(q, "submit")
     /\ UNCHANGED <<form, busy, modal, excused>> /\ Same
  \/ /\ Answer(q, "submit") /\ IF Ok(q) THEN SetNumber(q) /\ GoOn(q, "confirm")
                               ELSE UNCHANGED form /\ Done(q)
     /\ UNCHANGED <<busy, modal, excused>> /\ Same
  \/ /\ Answer(q, "save") \/ Answer(q, "confirm")
     /\ Done(q)
     /\ IF ~Ok(q) THEN UNCHANGED form ELSE IF query[q].op = "confirm" THEN Shut
        ELSE form' = [form EXCEPT !.open = FALSE, !.no = query[q].no]
     /\ UNCHANGED <<busy, modal, excused>> /\ Same
SaveAllocations(q) ==
  \/ /\ Shown /\ ~NewOrder /\ form.no # NoPaper /\ AskOf(q, "allocate")
     /\ UNCHANGED <<form, busy, modal, excused>> /\ Same
  \/ /\ Answer(q, "allocate") /\ Done(q) /\ UNCHANGED <<form, busy, modal, excused>> /\ Same
ConfirmOrder(q) ==
  \/ /\ Shown /\ form.no # NoPaper /\ Ask(q, "decide", form.no, NoPaper)
     /\ UNCHANGED <<form, busy, modal, excused>> /\ Same
  \/ /\ Answer(q, "decide") /\ IF Ok(q) THEN GoOn(q, "load") ELSE Done(q)
     /\ UNCHANGED <<form, busy, modal, excused>> /\ Same
CloseOrder(q) ==
  \/ /\ Shown /\ ~NewOrder /\ form.no # NoPaper /\ Ask(q, "close", form.no, NoPaper)
     /\ UNCHANGED <<form, busy, modal, excused>> /\ Same
  \/ /\ Answer(q, "close") /\ Done(q)
     /\ IF Ok(q) THEN Shut ELSE UNCHANGED form
     /\ UNCHANGED <<busy, modal, excused>> /\ Same

\* Drafts of approvals of their own: Approval.tsx and ApprovalDraftModal.
NewDraft ==
  /\ Listed
  /\ \/ cached # NoPaper /\ Show(NoPaper, cached) /\ UNCHANGED <<excused, cached>>
     \/ \E f \in Fresh : Show(NoPaper, f) /\ excused' = excused \ {f} /\ cached' = NoPaper
  /\ UNCHANGED <<page, busy, modal, query, row>>
Autosave ==
  /\ Shown /\ form.of # NoPaper /\ form.no = NoPaper /\ cached' = form.of
  /\ UNCHANGED <<page, form, busy, modal, query, row, excused>>
\* The form opens at once, empty.  A load that was left clears no flag, and closes
\* what is open when it fails.
Active(q) == form.open /\ form.of = query[q].of
EditDraft(q) ==
  \/ \E d \in Papers :
       /\ Listed /\ Loads(q, d) /\ busy' = TRUE
       /\ Show(d, query'[q].of) /\ UNCHANGED <<modal, excused>> /\ Same
  \/ /\ Answer(q, "load") /\ Done(q)
     /\ IF Active(q) THEN Release(q) ELSE UNCHANGED <<busy, excused>>
     /\ \/ ~Ok(q) /\ Shut
        \/ Ok(q) /\ IF Active(q) THEN Show(query[q].no, NoPaper) ELSE UNCHANGED form
     /\ UNCHANGED modal /\ Same
SaveDraft(q) ==
  \/ \E o \in {"save", "submit"} : Save(q, o)
  \/ /\ Answer(q, "save") \/ Answer(q, "submit")
     /\ Done(q) /\ Release(q)
     /\ IF Ok(q) THEN Shut ELSE UNCHANGED form
     /\ cached' = IF Ok(q) /\ query[q].of # NoPaper THEN NoPaper ELSE cached
     /\ UNCHANGED <<page, modal, row>>
DeleteDraft(q) ==
  (Listed /\ \E d \in Papers : Exists(d) /\ Delete(q, d)) \/ Deleted(q, FALSE)

\* Approval.tsx, the documents to decide.  The document is shown before its
\* attachments are there.
InboxRead(q) ==
  \/ \E d \in Papers : Load(q, d)
  \/ /\ Answer(q, "load") /\ UNCHANGED modal /\ Same
     /\ \/ ~Ok(q) /\ Done(q) /\ Release(q) /\ UNCHANGED form
        \/ Ok(q) /\ Done(q) /\ Release(q) /\ Show(query[q].no, NoPaper)
        \/ /\ Ok(q) /\ GoOn(q, "rows") /\ UNCHANGED <<busy, excused>>
           /\ form' = [form EXCEPT !.no = query[q].no]
  \/ /\ Answer(q, "rows") /\ Done(q) /\ Release(q)
     /\ form' = IF Ok(q) THEN [form EXCEPT !.open = TRUE] ELSE form
     /\ UNCHANGED modal /\ Same
Decide(q) ==
  \/ Save(q, "decide")
  \/ /\ Answer(q, "decide") /\ Done(q) /\ Release(q)
     /\ IF Ok(q) THEN Shut ELSE UNCHANGED form
     /\ UNCHANGED modal /\ Same

\* Board.tsx.  A post is read in a view of its own, that may open behind a form;
\* the view offers the form that edits it.
View(d) == form' = [form EXCEPT !.behind = d]
PostForm ==
  \/ Open \/ Close
  \/ /\ ~form.open /\ form.behind # NoPaper
     /\ Show(form.behind, NoPaper) \/ View(NoPaper)
     /\ UNCHANGED <<page, busy, modal, query, row, excused, cached>>
PostRead(q) ==
  \/ /\ Listed /\ ~busy /\ \E d \in Papers : Exists(d) /\ Ask(q, "load", d, NoPaper)
     /\ busy' = TRUE /\ UNCHANGED <<form, modal, excused>> /\ Same
  \/ /\ Answer(q, "load") /\ Done(q) /\ Release(q)
     /\ IF Ok(q) THEN View(query[q].no) ELSE UNCHANGED form
     /\ UNCHANGED modal /\ Same
PostSave(q) == Save(q, "save") \/ Saved(q)
PostDelete(q) ==
  \/ ~form.open /\ Delete(q, form.behind)
  \/ /\ Answer(q, "delete") /\ Done(q)
     /\ IF Ok(q) THEN View(NoPaper) ELSE UNCHANGED form
     /\ UNCHANGED <<busy, modal, excused>> /\ Same

\* InventoryProcessing.tsx.  Choosing an order is possible whatever is under way.
Grid(f) == form' = [form EXCEPT !.of = f]
ChangeGrid ==
  /\ \/ form.of # NoPaper /\ Grid(NoPaper) /\ UNCHANGED excused
     \/ form.of = NoPaper /\ \E f \in Fresh : Grid(f) /\ excused' = excused \ {f}
  /\ UNCHANGED <<page, busy, modal, query, row, cached>>
ChooseOrder(q) ==
  \/ /\ \E d \in Papers : Loads(q, d)
     /\ busy' = TRUE /\ UNCHANGED <<form, modal, excused>> /\ Same
  \/ /\ Answer(q, "load") /\ Done(q) /\ Release(q)
     /\ IF Ok(q) THEN Grid(query[q].of) ELSE UNCHANGED form
     /\ UNCHANGED modal /\ Same
Process(q) ==
  \/ form.of # NoPaper /\ Save(q, "submit")
  \/ /\ Answer(q, "submit") /\ Done(q) /\ Release(q)
     /\ IF Ok(q) THEN Grid(NoPaper) ELSE UNCHANGED form
     /\ UNCHANGED modal /\ Same
\* A cancellation or a monthly closing.
CloseMonth(q) ==
  \/ /\ ~busy /\ busy' = TRUE /\ Ask(q, "other", NoPaper, NoPaper)
     /\ UNCHANGED <<form, modal, excused>> /\ Same
  \/ /\ Answer(q, "other") /\ Done(q) /\ Release(q) /\ UNCHANGED <<form, modal>> /\ Same

-----------------------------------------------------------------------------
(***************************************************************************)
(* The server, as far as the screens can tell, and other users.            *)
(***************************************************************************)
NewStatus(q) == IF query[q].op # "submit" \/ page = "order" THEN "draft"
                ELSE IF page = "draft" THEN "approval" ELSE "confirmed"
Answers(q, phases, n) ==
  \E ph \in phases : query' = [query EXCEPT ![q].phase = ph, ![q].no = n]

Read(q) ==
  /\ query[q].op \in {"load", "rows", "upload", "other"} /\ UNCHANGED row
  /\ LET d == query[q].no IN
     Answers(q, {"ok"}, IF query[q].op = "load" /\ page \in WithApproval
                           /\ row[d].status = "rejected" THEN NoPaper ELSE d)
Create(q) ==
  /\ query[q].op \in Saves /\ query[q].no = NoPaper
  /\ \E d \in Papers :
       /\ row[d].status = "none" /\ Answers(q, {"ok", "failed"}, d)
       /\ row' = [row EXCEPT ![d] = [status |-> NewStatus(q), from |-> query[q].of]]
Change(q) ==
  LET d == query[q].no IN
  /\ d # NoPaper /\ Answers(q, {"ok", "failed"}, d)
  /\ \/ /\ query[q].op \in Saves \union {"allocate"} /\ row[d].status = "draft"
        /\ row' = [row EXCEPT ![d].status = IF query[q].op = "submit" THEN NewStatus(q) ELSE @]
     \/ /\ query[q].op = "delete" /\ row[d].status = "draft"
        /\ row' = [row EXCEPT ![d].status = "gone"]
     \/ /\ query[q].op = "confirm" /\ row[d].status = "draft"
        /\ row' = [row EXCEPT ![d].status = IF page = "order" THEN "confirmed" ELSE "approval"]
     \/ /\ query[q].op = "decide" /\ row[d].status = IF page = "order" THEN "draft" ELSE "approval"
        /\ row' = [row EXCEPT ![d].status = "confirmed"]
     \/ query[q].op = "close" /\ row[d].status = "confirmed" /\ UNCHANGED row
Refuse(q) == UNCHANGED row /\ Answers(q, {"failed"}, query[q].no)
Serve(q) ==
  /\ query[q].phase = "sent" /\ (Read(q) \/ Create(q) \/ Change(q) \/ Refuse(q))
  /\ UNCHANGED <<page, form, busy, modal, excused, cached>>

\* Approvers, other tabs.
Elsewhere ==
  /\ \E d \in Papers, next \in {<<"draft", "approval">>, <<"draft", "gone">>,
                                 <<"approval", "confirmed">>, <<"approval", "rejected">>} :
       row[d].status = next[1] /\ row' = [row EXCEPT ![d].status = next[2]]
  /\ UNCHANGED <<page, form, busy, modal, query, excused, cached>>

-----------------------------------------------------------------------------
Handle(q) ==
  \/ page = "workOrder" /\ (\/ WorkOrderRead(q) \/ WorkOrderSave(q) \/ WorkOrderDelete(q)
                            \/ ResultFromPlan(q))
  \/ page = "workPermit" /\ (WorkPermitRead(q) \/ WorkPermitSave(q) \/ WorkPermitDelete(q))
  \/ page = "maintenance" /\ (\/ MaintenanceRead(q) \/ MaintenanceSave(q) \/ MaintenanceDelete(q)
                              \/ LoadTemplates(q))
  \/ page \in WithApproval /\ (SubmitModal(q) \/ ModalSubmitted(q))
  \/ page = "request" /\ (RequestRead(q) \/ RequestSave(q) \/ RequestDelete(q))
  \/ page = "order" /\ (\/ OrderRead(q) \/ OrderSave(q) \/ SaveAllocations(q)
                        \/ ConfirmOrder(q) \/ CloseOrder(q))
  \/ page = "draft" /\ (EditDraft(q) \/ SaveDraft(q) \/ DeleteDraft(q))
  \/ page = "inbox" /\ (InboxRead(q) \/ Decide(q))
  \/ page = "post" /\ (PostRead(q) \/ PostSave(q) \/ PostDelete(q))
  \/ page = "stock" /\ (ChooseOrder(q) \/ Process(q) \/ CloseMonth(q))
  \/ Upload(q) \/ Uploaded(q)

Turn ==
  \/ page = "workOrder" /\ WorkOrderForm
  \/ page = "workPermit" /\ WorkPermitForm
  \/ page = "maintenance" /\ MaintenanceForm
  \/ page = "request" /\ RequestForm
  \/ page = "order" /\ OrderForm
  \/ page \in WithApproval /\ CloseModal
  \/ page = "draft" /\ (NewDraft \/ Autosave \/ Close)
  \/ page = "inbox" /\ Close
  \/ page = "post" /\ PostForm
  \/ page = "stock" /\ ChangeGrid

\* Users do MaxTurns things.
UserTurn ==
  /\ turns < MaxTurns[page] /\ turns' = turns + 1
  /\ Turn \/ Elsewhere \/ \E q \in Queries : query[q].phase = "idle" /\ Handle(q)
Answered(q) == Serve(q) /\ UNCHANGED turns
GoesOn(q) == query[q].phase \in {"ok", "failed"} /\ Handle(q) /\ UNCHANGED turns
PagesNext == UserTurn \/ \E q \in Queries : Answered(q) \/ GoesOn(q)

\* Every call is answered, by an error at the latest, and every answer handled;
\* the user need not do anything.
PagesFairness == \A q \in Queries : WF_pageVars(Answered(q)) /\ WF_pageVars(GoesOn(q))

-----------------------------------------------------------------------------
\* What was filled in once becomes one document: two only if the first answer was
\* an error, or the first save was still under way when a second handler cleared
\* the flag or, where there is none, the user saved again.  A new order stays new
\* when it is saved.
OneDocumentPerFilling ==
  \A d, e \in Papers :
    d # e /\ row[d].from = row[e].from /\ row[d].from # NoPaper
      => page = "order" \/ row[d].from \in excused

\* A screen does not stay disabled, except that of a draft that was closed while
\* it was loaded.
Settled == ~busy \/ (page = "draft" /\ \A q \in Queries : query[q].phase = "idle")
ScreenSettles == busy ~> Settled
=============================================================================
