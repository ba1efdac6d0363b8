--------------------------- MODULE Screens_proofs ---------------------------
(***************************************************************************)
(* Theorems about the screens of MCScreens, for any documents, fillings,   *)
(* calls under way and number of things the user does.                     *)
(*                                                                         *)
(* The argument: whatever a screen does is one of a few moves: it asks     *)
(* (Asks), it goes on with an answer (Handles), or the user changes the    *)
(* form (Turns).  For what was filled in once, the flag is the lock: while *)
(* an unexcused save is under way the screen is busy, so there is one, and *)
(* when it has ended the form has a number or is gone (Flights,            *)
(* Submittable).  On the screen of requests, which has no flag, a second   *)
(* save excuses the filling instead.                                       *)
(***************************************************************************)
EXTENDS MCScreens, StockLedger_proofs

Numbers == Papers \union {NoPaper}
Sources == Fillings \union {NoPaper}
Forms == [open: BOOLEAN, no: Numbers, of: Sources, upload: SUBSET Queries, behind: Numbers]
Calls == [phase: {"idle", "sent", "ok", "failed"}, op: Screen!Operations, no: Numbers, of: Sources]
Stati == {"none", "draft", "approval", "confirmed", "rejected", "gone"}
Sheets == [status: Stati, from: Sources]
Modals == [paper: Numbers, busy: BOOLEAN, upload: SUBSET Queries]

\* The types, and a call that is idle names nothing.
PInv ==
  /\ Screen!PagesTypeOK
  /\ \A q \in Queries : query[q].phase = "idle" => query[q] = Screen!NoQuery

\* A call whose answer opens a form with what it was started for.
Opens(s, w) == \/ w.op = "load" /\ s \in Screen!WithApproval \union {"stock"}
               \/ w.op = "rows" /\ s = "workOrder"

\* The form is of the same filling and number.
Kept == form'.no = form.no /\ form'.of = form.of

\* A call q becomes w.
Becomes(q, w) == query' = [query EXCEPT ![q] = w]

\* A document is asked for, to be shown as a new filling at the most.
Reads(w) ==
  /\ w.op \in {"load", "rows"} /\ w.of \in Screen!Unused \union {NoPaper}
  /\ Kept \/ (page = "draft" /\ form'.no \in Papers)
  /\ excused' = excused

\* What is on the form is sent, under the flag or without one.
Stores(w) ==
  /\ w.op \in Screen!Saves /\ w.of = form.of /\ Kept
  /\ page # "order" => w.no = form.no
  /\ page \notin {"order", "request"} => ~busy /\ busy'
  /\ IF page = "request" THEN Screen!Again ELSE excused' = excused

\* Something else is done to a document.
Touches(w) ==
  /\ w.op \notin Screen!Saves /\ ~Opens(page, w) /\ w.of \in {NoPaper, form.of}
  /\ Kept /\ excused' = excused

Asks(q) ==
  /\ query[q].phase = "idle" /\ form' \in Forms /\ modal' \in Modals
  /\ busy' \in BOOLEAN /\ (busy => busy') /\ UNCHANGED <<page, row, cached>>
  /\ \E w \in Calls : /\ Becomes(q, w) /\ w.phase = "sent"
                      /\ Reads(w) \/ Stores(w) \/ Touches(w)

\* What an answer makes of the form.
FormAfter(q) ==
  /\ form' \in Forms
  /\ \/ Kept
     \/ form'.of = NoPaper
     \/ Opens(page, query[q]) /\ form'.of = query[q].of
     \/ /\ form'.no = query[q].no /\ form'.of = form.of
        /\ page \in {"order", "inbox"} \/ (query[q].op = "raise" /\ Screen!Ok(q))

\* The call has ended, or is followed by the next of its handler.
CallAfter(q) ==
  \E w \in Calls : /\ Becomes(q, w) /\ (w.phase = "idle" => w = Screen!NoQuery)
                   /\ w.op \notin Screen!Saves /\ ~Opens(page, w) /\ w.of \in {NoPaper, query[q].of}

\* The flag is released, and a save that was answered leaves no new form behind.
FlagAfter(q) ==
  /\ \/ Screen!Release(q)
     \/ Screen!Failure(q) /\ busy' = busy
     \/ UNCHANGED <<busy, excused>> /\ (query[q].op \in Screen!Saves => page = "order")
  /\ cached' = cached \/ (page = "draft" /\ cached' = NoPaper)
  /\ page # "order" /\ query[q].op \in Screen!Saves /\ Screen!Ok(q) =>
       /\ form'.of = NoPaper \/ form'.no = query[q].no
       /\ page = "draft" /\ query[q].of # NoPaper => cached' = NoPaper

Handles(q) ==
  /\ query[q].phase \in {"ok", "failed"} /\ UNCHANGED <<page, row>> /\ modal' \in Modals
  /\ FormAfter(q) /\ CallAfter(q) /\ FlagAfter(q)

\* What users do to a form without a call.
NewForm ==
  /\ page # "inbox"
  /\ \E f \in Screen!Unused : form'.of = f /\ excused' = excused \ {f}
  /\ cached' = cached \/ (page = "draft" /\ cached' = NoPaper)
OldForm == (Kept \/ form'.of = NoPaper) /\ UNCHANGED <<excused, cached>>
Cache ==
  /\ page = "draft" /\ excused' = excused
  /\ \/ cached # NoPaper /\ form'.no = NoPaper /\ form'.of = cached /\ cached' = cached
     \/ Kept /\ form.of # NoPaper /\ form.no = NoPaper /\ cached' = form.of
Turns ==
  /\ form' \in Forms /\ modal' \in Modals /\ UNCHANGED <<page, busy, query, row>>
  /\ NewForm \/ OldForm \/ Cache

-----------------------------------------------------------------------------
(***************************************************************************)
(* What the handlers share.                                                *)
(***************************************************************************)
LEMMA NoPaperFacts == /\ NoPaper \notin Papers /\ NoPaper \notin Fillings
                      /\ Screen!Unused \subseteq Fillings /\ Screen!Fresh \subseteq Screen!Unused
  BY ScreenAssumption DEF Screen!PaperNames, Screen!Unused, Screen!Fresh

LEMMA Types ==
  ASSUME PInv
  PROVE  /\ page \in Screen!Screens /\ busy \in BOOLEAN /\ turns \in 0..MaxTurns[page]
         /\ form \in Forms /\ modal \in Modals
         /\ query \in [Queries -> Calls] /\ row \in [Papers -> Sheets]
         /\ excused \subseteq Fillings /\ cached \in Sources
  BY DEF PInv, Screen!PagesTypeOK, Forms, Modals, Calls, Sheets, Stati, Numbers, Sources

LEMMA TypesBack ==
  ASSUME page \in Screen!Screens, busy \in BOOLEAN, turns \in 0..MaxTurns[page],
         form \in Forms, modal \in Modals, query \in [Queries -> Calls],
         row \in [Papers -> Sheets], excused \subseteq Fillings, cached \in Sources
  PROVE  Screen!PagesTypeOK
  BY DEF Screen!PagesTypeOK, Forms, Modals, Calls, Sheets, Stati, Numbers, Sources

\* What is done to a form.
LEMMA KeepForm == PInv /\ form' = form => form' \in Forms /\ Kept
  BY Types DEF Kept

LEMMA ShowForm ==
  ASSUME PInv, NEW n \in Numbers, NEW f \in Sources, Screen!Show(n, f)
  PROVE  form' \in Forms /\ form'.no = n /\ form'.of = f
  BY Types DEF Screen!Show, Forms

LEMMA ShutForm ==
  ASSUME PInv, Screen!Shut
  PROVE  /\ form' \in Forms /\ form'.no = form.no
         /\ form'.of = IF page = "order" THEN form.of ELSE NoPaper
  BY Types DEF Screen!Shut, Forms, Sources

LEMMA NumberForm ==
  ASSUME PInv, NEW q \in Queries, Screen!SetNumber(q)
  PROVE  form' \in Forms /\ form'.no = query[q].no /\ form'.of = form.of
  BY Types DEF Screen!SetNumber, Forms, Calls

LEMMA GridForm ==
  ASSUME PInv, NEW f \in Sources, Screen!Grid(f)
  PROVE  form' \in Forms /\ form'.no = form.no /\ form'.of = f
  BY Types DEF Screen!Grid, Forms

LEMMA ViewForm ==
  ASSUME PInv, NEW d \in Numbers, Screen!View(d)
  PROVE  form' \in Forms /\ Kept
  BY Types DEF Screen!View, Forms, Kept

\* A call that is started.
LEMMA Asked ==
  ASSUME PInv, NEW q \in Queries, NEW o \in Screen!Operations, NEW n \in Numbers,
         NEW f \in Sources, Screen!Ask(q, o, n, f)
  PROVE  /\ query[q].phase = "idle"
         /\ \E w \in Calls : /\ Becomes(q, w) /\ w.phase = "sent"
                             /\ w.op = o /\ w.no = n /\ w.of = f
<1> DEFINE w == [phase |-> "sent", op |-> o, no |-> n, of |-> f]
<1>1. w \in Calls /\ w.phase = "sent" /\ w.op = o /\ w.no = n /\ w.of = f
  BY DEF Calls
<1>2. query[q].phase = "idle" /\ Becomes(q, w)
  BY DEF Screen!Ask, Becomes
<1> HIDE DEF w
<1> QED
  BY <1>1, <1>2

LEMMA ReadMove ==
  ASSUME PInv, NEW q \in Queries, NEW o \in {"load", "rows"}, NEW n \in Papers,
         NEW f \in Screen!Unused \union {NoPaper}, Screen!Ask(q, o, n, f),
         form' \in Forms, Kept \/ (page = "draft" /\ form'.no \in Papers),
         busy' \in BOOLEAN, busy => busy', UNCHANGED <<modal, excused, page, row, cached>>
  PROVE  Asks(q)
<1>1. o \in Screen!Operations /\ n \in Numbers /\ f \in Sources
  BY NoPaperFacts DEF Screen!Operations, Numbers, Sources
<1>2. /\ query[q].phase = "idle"
      /\ \E w \in Calls : /\ Becomes(q, w) /\ w.phase = "sent"
                          /\ w.op = o /\ w.no = n /\ w.of = f
  BY <1>1, Asked
<1>3. PICK w \in Calls : Becomes(q, w) /\ w.phase = "sent" /\ w.op = o /\ w.of = f
  BY <1>2
<1>4. Reads(w)
  BY <1>3 DEF Reads
<1>5. modal' \in Modals
  BY Types
<1> QED
  BY <1>2, <1>3, <1>4, <1>5 DEF Asks

LEMMA SaveMove ==
  ASSUME PInv, NEW q \in Queries, NEW o \in Screen!Saves, NEW n \in Numbers,
         Screen!Ask(q, o, n, form.of), form' = form,
         page # "order" => n = form.no, page \notin {"order", "request"} => ~busy /\ busy',
         IF page = "request" THEN Screen!Again ELSE excused' = excused,
         busy' \in BOOLEAN, busy => busy', UNCHANGED <<modal, page, row, cached>>
  PROVE  Asks(q)
<1>1. o \in Screen!Operations /\ form.of \in Sources
  BY Types DEF Screen!Operations, Screen!Saves, Forms
<1>2. /\ query[q].phase = "idle"
      /\ \E w \in Calls : /\ Becomes(q, w) /\ w.phase = "sent"
                          /\ w.op = o /\ w.no = n /\ w.of = form.of
  BY <1>1, Asked
<1>3. PICK w \in Calls : /\ Becomes(q, w) /\ w.phase = "sent"
                         /\ w.op = o /\ w.no = n /\ w.of = form.of
  BY <1>2
<1>4. Stores(w)
  BY <1>3 DEF Stores, Kept
<1>5. modal' \in Modals /\ form' \in Forms
  BY Types
<1> QED
  BY <1>2, <1>3, <1>4, <1>5 DEF Asks

LEMMA TouchMove ==
  ASSUME PInv, NEW q \in Queries, NEW o \in Screen!Operations \ Screen!Saves, NEW n \in Numbers,
         NEW f \in {NoPaper, form.of}, Screen!Ask(q, o, n, f),
         o = "load" => page = "order", o = "rows" => page = "maintenance",
         form' \in Forms, Kept, modal' \in Modals,
         busy' \in BOOLEAN, busy => busy', UNCHANGED <<excused, page, row, cached>>
  PROVE  Asks(q)
<1>1. f \in Sources
  BY Types DEF Forms, Sources
<1>2. /\ query[q].phase = "idle"
      /\ \E w \in Calls : /\ Becomes(q, w) /\ w.phase = "sent"
                          /\ w.op = o /\ w.no = n /\ w.of = f
  BY <1>1, Asked
<1>3. PICK w \in Calls : Becomes(q, w) /\ w.phase = "sent" /\ w.op = o /\ w.of = f
  BY <1>2
<1>4. Touches(w)
  BY <1>3 DEF Touches, Opens, Screen!WithApproval
<1> QED
  BY <1>2, <1>3, <1>4 DEF Asks

\* A call that has ended.
LEMMA EndMove ==
  ASSUME PInv, NEW q \in Queries, query[q].phase \in {"ok", "failed"}, Screen!Done(q),
         FormAfter(q), FlagAfter(q), modal' \in Modals, UNCHANGED <<page, row>>
  PROVE  Handles(q)
<1>1. /\ Screen!NoQuery \in Calls /\ Screen!NoQuery.op \notin Screen!Saves
      /\ ~Opens(page, Screen!NoQuery) /\ Screen!NoQuery.of = NoPaper
  BY DEF Screen!NoQuery, Calls, Numbers, Sources, Screen!Operations, Screen!Saves, Opens
<1>2. Becomes(q, Screen!NoQuery)
  BY DEF Screen!Done, Becomes
<1> QED
  BY <1>1, <1>2 DEF Handles, CallAfter

LEMMA GoesMove ==
  ASSUME PInv, NEW q \in Queries, query[q].phase \in {"ok", "failed"},
         NEW o \in {"rows", "confirm", "load"}, Screen!GoOn(q, o), page \in {"order", "inbox"},
         FormAfter(q), FlagAfter(q), modal' \in Modals, UNCHANGED <<page, row>>
  PROVE  Handles(q)
<1> DEFINE w == [query[q] EXCEPT !.phase = "sent", !.op = o]
<1>1. query \in [Queries -> Calls]
  BY Types
<1>2. w \in Calls /\ w.phase = "sent" /\ w.op = o /\ w.of = query[q].of
  BY <1>1 DEF Calls, Screen!Operations
<1>3. Becomes(q, w)
  BY <1>1 DEF Screen!GoOn, Becomes
<1> HIDE DEF w
<1>4. w.op \notin Screen!Saves /\ ~Opens(page, w)
  BY <1>2 DEF Screen!Saves, Opens, Screen!WithApproval
<1> QED
  BY <1>2, <1>3, <1>4 DEF Handles, CallAfter

-----------------------------------------------------------------------------
(***************************************************************************)
(* The handlers are made of these moves.                                   *)
(***************************************************************************)
\* A filling is opened for what is loaded.
LEMMA LoadsMove ==
  ASSUME PInv, NEW q \in Queries, NEW d \in Papers, Screen!Loads(q, d), form' = form,
         busy' \in BOOLEAN, busy => busy', UNCHANGED <<modal, excused, page, row, cached>>
  PROVE  Asks(q)
<1>1. PICK f \in Screen!Unused : Screen!Ask(q, "load", d, f)
  BY NoPaperFacts DEF Screen!Loads
<1> QED
  BY <1>1, ReadMove, KeepForm

LEMMA LoadMoves ==
  ASSUME PInv, NEW q \in Queries, \E d \in Papers : Screen!Load(q, d)
  PROVE  Asks(q)
  BY LoadsMove DEF Screen!Load, Screen!Same

\* A loaded document is shown, by its number or as a new one.
LEMMA ShowLoadedForm ==
  ASSUME PInv, NEW q \in Queries, query[q].op = "load", Screen!ShowLoaded(q),
         page \in Screen!WithApproval
  PROVE  FormAfter(q)
<1>1. query[q].no \in Numbers /\ query[q].of \in Sources /\ NoPaper \in Sources /\ NoPaper \in Numbers
  BY Types DEF Calls, Numbers, Sources
<1>2. CASE Screen!Show(NoPaper, query[q].of)
  BY <1>1, <1>2, ShowForm DEF FormAfter, Opens
<1>3. CASE Screen!Show(query[q].no, NoPaper)
  BY <1>1, <1>3, ShowForm DEF FormAfter
<1> QED
  BY <1>2, <1>3 DEF Screen!ShowLoaded

LEMMA ShutAfter == ASSUME PInv, NEW q \in Queries, Screen!Shut
                   PROVE  FormAfter(q) /\ (page # "order" => form'.of = NoPaper)
  BY ShutForm DEF FormAfter, Kept

LEMMA KeepAfter == ASSUME PInv, NEW q \in Queries, form' = form PROVE FormAfter(q)
  BY KeepForm DEF FormAfter

LEMMA LoadedMoves ==
  ASSUME PInv, NEW q \in Queries, Screen!Loaded(q), page \in Screen!WithApproval
  PROVE  Handles(q)
<1>1. FormAfter(q)
  BY ShowLoadedForm, KeepAfter DEF Screen!Loaded, Screen!Answer
<1>2. FlagAfter(q)
  BY DEF FlagAfter, Screen!Loaded, Screen!Same, Screen!Answer, Screen!Saves
<1> QED
  BY <1>1, <1>2, EndMove, Types DEF Screen!Loaded, Screen!Same, Screen!Answer

LEMMA SaveMoves ==
  ASSUME PInv, NEW q \in Queries, NEW o \in Screen!Saves, Screen!Save(q, o),
         page \notin {"order", "request"}
  PROVE  Asks(q)
<1>1. form.no \in Numbers
  BY Types DEF Forms
<1> QED
  BY <1>1, SaveMove DEF Screen!Save, Screen!Same, Screen!AskOf

LEMMA SavedMoves ==
  ASSUME PInv, NEW q \in Queries, Screen!Saved(q), page \notin {"order", "draft"}
  PROVE  Handles(q)
<1>1. FormAfter(q)
  BY ShutAfter, KeepAfter DEF Screen!Saved
<1>2. FlagAfter(q)
  BY ShutAfter DEF FlagAfter, Screen!Saved, Screen!Same
<1> QED
  BY <1>1, <1>2, EndMove, Types DEF Screen!Saved, Screen!Same, Screen!Answer

\* The approval of what was saved is drafted.
LEMMA RaisedForm ==
  ASSUME PInv, NEW q \in Queries, query[q].op = "raise",
         IF Screen!Ok(q) THEN Screen!SetNumber(q) /\ Screen!DraftApproval(q)
                         ELSE UNCHANGED <<form, modal>>
  PROVE  FormAfter(q) /\ modal' \in Modals /\ (Screen!Ok(q) => form'.no = query[q].no)
<1>1. FormAfter(q) /\ (Screen!Ok(q) => form'.no = query[q].no)
  BY NumberForm, KeepAfter DEF FormAfter
<1>2. modal' \in Modals
  BY Types DEF Screen!DraftApproval, Modals, Calls
<1> QED
  BY <1>1, <1>2

LEMMA RaisedMoves ==
  ASSUME PInv, NEW q \in Queries, Screen!Raised(q), page \notin {"order", "draft"}
  PROVE  Handles(q)
<1>1. /\ FormAfter(q) /\ modal' \in Modals
      /\ Screen!Ok(q) => form'.no = query[q].no
  BY RaisedForm DEF Screen!Raised, Screen!Answer
<1>2. FlagAfter(q)
  BY <1>1 DEF FlagAfter, Screen!Raised, Screen!Same
<1> QED
  BY <1>1, <1>2, EndMove DEF Screen!Raised, Screen!Same, Screen!Answer

LEMMA DeleteMoves ==
  ASSUME PInv, NEW q \in Queries, NEW d \in Numbers, Screen!Delete(q, d)
  PROVE  Asks(q)
<1>1. "delete" \in Screen!Operations \ Screen!Saves /\ modal' \in Modals /\ busy \in BOOLEAN
      /\ busy' = busy
  BY Types DEF Screen!Operations, Screen!Saves, Screen!Delete
<1> QED
  BY <1>1, TouchMove, KeepForm DEF Screen!Delete, Screen!Same

LEMMA DeletedMoves ==
  ASSUME PInv, NEW q \in Queries, NEW c, Screen!Deleted(q, c)
  PROVE  Handles(q)
<1>1. FormAfter(q)
  BY ShutAfter, KeepAfter DEF Screen!Deleted
<1>2. FlagAfter(q)
  BY DEF FlagAfter, Screen!Deleted, Screen!Same, Screen!Answer, Screen!Saves
<1> QED
  BY <1>1, <1>2, EndMove, Types DEF Screen!Deleted, Screen!Same, Screen!Answer

\* Uploads to a form or to the draft of an approval.
LEMMA UploadMoves ==
  ASSUME PInv, NEW q \in Queries, Screen!Upload(q)
  PROVE  Asks(q)
<1> USE DEF Screen!Same
<1>1. /\ "upload" \in Screen!Operations \ Screen!Saves /\ busy \in BOOLEAN
      /\ form.no \in Numbers /\ modal.paper \in Numbers /\ busy' = busy
      /\ UNCHANGED <<excused, page, row, cached>>
  BY Types DEF Screen!Operations, Screen!Saves, Forms, Modals, Screen!Upload
<1>2. CASE /\ Screen!AskOf(q, "upload") /\ form' = [form EXCEPT !.upload = {q}]
           /\ UNCHANGED modal
  <2>1. form' \in Forms /\ Kept /\ modal' \in Modals
    BY <1>2, Types DEF Forms, Kept
  <2> QED
    BY <1>1, <1>2, <2>1, TouchMove DEF Screen!AskOf
<1>3. CASE /\ Screen!Ask(q, "upload", modal.paper, NoPaper)
           /\ modal' = [modal EXCEPT !.upload = {q}] /\ UNCHANGED form
  <2>1. form' \in Forms /\ Kept /\ modal' \in Modals
    BY <1>3, Types DEF Modals, Kept
  <2> QED
    BY <1>1, <1>3, <2>1, TouchMove
<1> QED
  BY <1>2, <1>3 DEF Screen!Upload

LEMMA UploadedMoves ==
  ASSUME PInv, NEW q \in Queries, Screen!Uploaded(q)
  PROVE  Handles(q)
<1>1. form' \in Forms /\ Kept /\ modal' \in Modals
  BY Types DEF Screen!Uploaded, Forms, Modals, Kept
<1>2. FormAfter(q) /\ FlagAfter(q)
  BY <1>1 DEF FormAfter, FlagAfter, Screen!Uploaded, Screen!Same, Screen!Answer, Screen!Saves
<1> QED
  BY <1>1, <1>2, EndMove DEF Screen!Uploaded, Screen!Same, Screen!Answer

-----------------------------------------------------------------------------
(***************************************************************************)
(* The screens.                                                            *)
(***************************************************************************)
LEMMA ModalMoves ==
  ASSUME PInv, NEW q \in Queries, Screen!SubmitModal(q) \/ Screen!ModalSubmitted(q)
  PROVE  Asks(q) \/ Handles(q)
<1> USE DEF Screen!Same
<1>1. CASE Screen!SubmitModal(q)
  <2>1. /\ "confirm" \in Screen!Operations \ Screen!Saves /\ busy \in BOOLEAN /\ busy' = busy
        /\ modal.paper \in Numbers /\ modal' \in Modals
    BY <1>1, Types DEF Screen!Operations, Screen!Saves, Modals, Screen!SubmitModal
  <2>2. /\ Screen!Ask(q, "confirm", modal.paper, NoPaper) /\ form' = form
        /\ UNCHANGED <<excused, page, row, cached>>
    BY <1>1 DEF Screen!SubmitModal
  <2> QED
    BY <2>1, <2>2, TouchMove, KeepForm
<1>2. CASE Screen!ModalSubmitted(q)
  <2>1. modal' \in Modals
    <3>1. Screen!NoModal \in Modals
      BY DEF Screen!NoModal, Modals, Numbers
    <3>2. [modal EXCEPT !.busy = FALSE] \in Modals
      BY Types DEF Modals
    <3> QED
      BY <1>2, <3>1, <3>2 DEF Screen!ModalSubmitted
  <2>2. FormAfter(q)
    BY <1>2, ShutAfter, KeepAfter DEF Screen!ModalSubmitted
  <2>3. FlagAfter(q)
    BY <1>2 DEF FlagAfter, Screen!ModalSubmitted, Screen!Answer, Screen!Saves
  <2> QED
    BY <1>2, <2>1, <2>2, <2>3, EndMove DEF Screen!ModalSubmitted, Screen!Answer
<1> QED
  BY <1>1, <1>2

LEMMA PlanMoves ==
  ASSUME PInv, NEW q \in Queries, page = "workOrder", Screen!ResultFromPlan(q)
  PROVE  Asks(q) \/ Handles(q)
<1> USE DEF Screen!Same
<1>1. CASE /\ busy' = TRUE /\ UNCHANGED <<form, modal, excused>> /\ Screen!Same
           /\ \E d \in Papers, f \in Screen!Fresh : Screen!Ask(q, "rows", d, f)
  <2>1. PICK d \in Papers, f \in Screen!Unused : Screen!Ask(q, "rows", d, f)
    BY <1>1, NoPaperFacts
  <2> QED
    BY <1>1, <2>1, ReadMove, KeepForm
<1>2. CASE /\ Screen!Answer(q, "rows") /\ Screen!Done(q) /\ Screen!Release(q)
           /\ IF Screen!Ok(q) THEN Screen!Show(NoPaper, query[q].of) ELSE UNCHANGED form
           /\ UNCHANGED modal /\ Screen!Same
  <2>1. query[q].of \in Sources /\ NoPaper \in Numbers
    BY Types DEF Calls, Numbers
  <2>2. FormAfter(q)
    BY <1>2, <2>1, ShowForm, KeepAfter DEF FormAfter, Opens, Screen!Answer
  <2>3. FlagAfter(q)
    BY <1>2 DEF FlagAfter, Screen!Answer, Screen!Saves
  <2> QED
    BY <1>2, <2>2, <2>3, EndMove, Types DEF Screen!Answer
<1> QED
  BY <1>1, <1>2 DEF Screen!ResultFromPlan

LEMMA TemplateMoves ==
  ASSUME PInv, NEW q \in Queries, page = "maintenance", Screen!LoadTemplates(q)
  PROVE  Asks(q) \/ Handles(q)
<1> USE DEF Screen!Same
<1>1. CASE /\ Screen!AskOf(q, "rows") /\ busy' = TRUE
           /\ UNCHANGED <<form, modal, excused>> /\ Screen!Same
  <2>1. /\ "rows" \in Screen!Operations \ Screen!Saves /\ form.no \in Numbers /\ modal' \in Modals
    BY <1>1, Types DEF Screen!Operations, Screen!Saves, Forms
  <2> QED
    BY <1>1, <2>1, TouchMove, KeepForm DEF Screen!AskOf
<1>2. CASE /\ Screen!Answer(q, "rows") /\ Screen!Done(q) /\ Screen!Release(q)
           /\ UNCHANGED <<form, modal>> /\ Screen!Same
  <2>1. FlagAfter(q)
    BY <1>2 DEF FlagAfter, Screen!Answer, Screen!Saves
  <2> QED
    BY <1>2, <2>1, EndMove, KeepAfter, Types DEF Screen!Answer
<1> QED
  BY <1>1, <1>2 DEF Screen!LoadTemplates

LEMMA RequestMoves ==
  ASSUME PInv, NEW q \in Queries, page = "request",
         Screen!RequestRead(q) \/ Screen!RequestSave(q) \/ Screen!RequestDelete(q)
  PROVE  Asks(q) \/ Handles(q)
<1> USE DEF Screen!Same
<1>0. busy \in BOOLEAN /\ modal \in Modals /\ form.no \in Numbers
  BY Types DEF Forms
<1>1. CASE /\ (\E d \in Papers : Screen!Loads(q, d))
           /\ UNCHANGED <<form, busy, modal, excused>> /\ Screen!Same
  BY <1>0, <1>1, LoadsMove
<1>2. CASE /\ Screen!Answer(q, "load") /\ Screen!Done(q)
           /\ IF Screen!Ok(q) THEN Screen!ShowLoaded(q) ELSE UNCHANGED form
           /\ UNCHANGED <<busy, modal, excused>> /\ Screen!Same
  <2>1. FormAfter(q)
    BY <1>2, ShowLoadedForm, KeepAfter DEF Screen!WithApproval, Screen!Answer
  <2>2. FlagAfter(q)
    BY <1>2 DEF FlagAfter, Screen!Answer, Screen!Saves
  <2> QED
    BY <1>0, <1>2, <2>1, <2>2, EndMove DEF Screen!Answer
<1>3. CASE /\ (\E o \in {"save", "raise"} : Screen!AskOf(q, o)) /\ Screen!Again
           /\ UNCHANGED <<form, busy, modal>> /\ Screen!Same
  <2>1. PICK o \in Screen!Saves : Screen!Ask(q, o, form.no, form.of)
    BY <1>3 DEF Screen!AskOf, Screen!Saves
  <2> QED
    BY <1>0, <1>3, <2>1, SaveMove
<1>4. CASE /\ Screen!Answer(q, "save") /\ Screen!Done(q) /\ Screen!Failure(q)
           /\ IF Screen!Ok(q) THEN Screen!Shut ELSE UNCHANGED form
           /\ UNCHANGED <<busy, modal>> /\ Screen!Same
  <2>1. FormAfter(q) /\ (Screen!Ok(q) => form'.of = NoPaper)
    BY <1>4, ShutAfter, KeepAfter
  <2>2. FlagAfter(q)
    BY <1>4, <2>1 DEF FlagAfter
  <2> QED
    BY <1>0, <1>4, <2>1, <2>2, EndMove DEF Screen!Answer
<1>5. CASE /\ Screen!Answer(q, "raise") /\ Screen!Done(q) /\ Screen!Failure(q)
           /\ IF Screen!Ok(q) THEN Screen!SetNumber(q) /\ Screen!DraftApproval(q)
                              ELSE UNCHANGED <<form, modal>>
           /\ UNCHANGED busy /\ Screen!Same
  <2>1. /\ FormAfter(q) /\ modal' \in Modals
        /\ Screen!Ok(q) => form'.no = query[q].no
    BY <1>5, RaisedForm DEF Screen!Answer
  <2>2. FlagAfter(q)
    BY <1>5, <2>1 DEF FlagAfter
  <2> QED
    BY <1>5, <2>1, <2>2, EndMove DEF Screen!Answer
<1>6. CASE Screen!RequestDelete(q)
  BY <1>0, <1>6, DeleteMoves, DeletedMoves DEF Screen!RequestDelete
<1> QED
  BY <1>1, <1>2, <1>3, <1>4, <1>5, <1>6 DEF Screen!RequestRead, Screen!RequestSave

LEMMA OrderReadMoves ==
  ASSUME PInv, NEW q \in Queries, page = "order", Screen!OrderRead(q)
  PROVE  Asks(q) \/ Handles(q)
<1> USE DEF Screen!Same
<1>0. busy \in BOOLEAN /\ modal \in Modals
  BY Types
<1>1. CASE /\ \E d \in Papers : Screen!Ask(q, "load", d, NoPaper)
           /\ UNCHANGED <<form, busy, modal, excused>> /\ Screen!Same
  BY <1>0, <1>1, ReadMove, KeepForm
<1>2. CASE /\ Screen!Answer(q, "load")
           /\ IF Screen!Ok(q) THEN /\ form' = [form EXCEPT !.no = query[q].no, !.of = NoPaper]
                                   /\ Screen!GoOn(q, "rows")
              ELSE UNCHANGED form /\ Screen!Done(q)
           /\ UNCHANGED <<busy, modal, excused>> /\ Screen!Same
  <2>1. form' = [form EXCEPT !.no = query[q].no, !.of = NoPaper] \/ form' = form
    BY <1>2
  <2>2. FormAfter(q)
    BY <2>1, KeepAfter, Types DEF FormAfter, Forms, Calls, Sources
  <2>3. FlagAfter(q)
    BY <1>2 DEF FlagAfter
  <2> QED
    BY <1>0, <1>2, <2>2, <2>3, EndMove, GoesMove DEF Screen!Answer
<1>3. CASE /\ Screen!Answer(q, "rows") /\ Screen!Done(q)
           /\ form' = IF Screen!Ok(q) THEN [form EXCEPT !.open = TRUE] ELSE form
           /\ UNCHANGED <<busy, modal, excused>> /\ Screen!Same
  <2>1. FormAfter(q)
    BY <1>3, Types DEF FormAfter, Kept, Forms
  <2>2. FlagAfter(q)
    BY <1>3 DEF FlagAfter
  <2> QED
    BY <1>0, <1>3, <2>1, <2>2, EndMove DEF Screen!Answer
<1> QED
  BY <1>1, <1>2, <1>3 DEF Screen!OrderRead

LEMMA OrderSaveMoves ==
  ASSUME PInv, NEW q \in Queries, page = "order", Screen!OrderSave(q)
  PROVE  Asks(q) \/ Handles(q)
<1> USE DEF Screen!Same
<1>0. /\ busy \in BOOLEAN /\ modal \in Modals /\ form.no \in Numbers /\ NoPaper \in Numbers
      /\ query[q].no \in Numbers /\ form.of \in Sources
  BY Types DEF Forms, Calls, Numbers
<1>1. CASE /\ \E o \in {"save", "submit"}, n \in Numbers : Screen!Ask(q, o, n, form.of)
           /\ UNCHANGED <<form, busy, modal, excused>> /\ Screen!Same
  <2>1. PICK o \in Screen!Saves, n \in Numbers : Screen!Ask(q, o, n, form.of)
    BY <1>1 DEF Screen!Saves
  <2> QED
    BY <1>0, <1>1, <2>1, SaveMove
<1>2. CASE /\ Screen!Answer(q, "submit")
           /\ IF Screen!Ok(q) THEN Screen!SetNumber(q) /\ Screen!GoOn(q, "confirm")
                              ELSE UNCHANGED form /\ Screen!Done(q)
           /\ UNCHANGED <<busy, modal, excused>> /\ Screen!Same
  <2>1. FormAfter(q)
    BY <1>2, NumberForm, KeepAfter DEF FormAfter
  <2>2. FlagAfter(q)
    BY <1>2 DEF FlagAfter
  <2> QED
    BY <1>0, <1>2, <2>1, <2>2, EndMove, GoesMove DEF Screen!Answer
<1>3. CASE /\ Screen!Answer(q, "save") \/ Screen!Answer(q, "confirm")
           /\ Screen!Done(q)
           /\ IF ~Screen!Ok(q) THEN UNCHANGED form
              ELSE IF query[q].op = "confirm" THEN Screen!Shut
              ELSE form' = [form EXCEPT !.open = FALSE, !.no = query[q].no]
           /\ UNCHANGED <<busy, modal, excused>> /\ Screen!Same
  <2>1. \/ form' = form \/ Screen!Shut
        \/ form' = [form EXCEPT !.open = FALSE, !.no = query[q].no]
    BY <1>3
  <2>2. ASSUME form' = [form EXCEPT !.open = FALSE, !.no = query[q].no]
        PROVE  FormAfter(q)
    BY <1>0, <2>2, Types DEF FormAfter, Forms
  <2>3. FormAfter(q)
    BY <2>1, <2>2, ShutAfter, KeepAfter
  <2>4. FlagAfter(q)
    BY <1>3 DEF FlagAfter
  <2> QED
    BY <1>0, <1>3, <2>3, <2>4, EndMove DEF Screen!Answer
<1>4. CASE /\ Screen!Shown
           /\ \/ Screen!Ask(q, "save", IF Screen!NewOrder THEN NoPaper ELSE form.no, form.of)
              \/ Screen!NewOrder /\ form.no = NoPaper /\ Screen!AskOf(q, "submit")
           /\ UNCHANGED <<form, busy, modal, excused>> /\ Screen!Same
  BY <1>0, <1>1, <1>4 DEF Screen!AskOf
<1> QED
  BY <1>2, <1>3, <1>4 DEF Screen!OrderSave

LEMMA OrderDecideMoves ==
  ASSUME PInv, NEW q \in Queries, page = "order",
         Screen!SaveAllocations(q) \/ Screen!ConfirmOrder(q) \/ Screen!CloseOrder(q)
  PROVE  Asks(q) \/ Handles(q)
<1> USE DEF Screen!Same
<1>0. /\ busy \in BOOLEAN /\ modal \in Modals /\ form.no \in Numbers
      /\ {"allocate", "decide", "close"} \subseteq Screen!Operations \ Screen!Saves
  BY Types DEF Forms, Screen!Operations, Screen!Saves
<1>1. CASE /\ \E o \in {"allocate", "decide", "close"}, f \in {NoPaper, form.of} :
                Screen!Ask(q, o, form.no, f)
           /\ UNCHANGED <<form, busy, modal, excused>> /\ Screen!Same
  <2>1. PICK o \in {"allocate", "decide", "close"}, f \in {NoPaper, form.of} :
          Screen!Ask(q, o, form.no, f)
    BY <1>1
  <2>2. o \in Screen!Operations \ Screen!Saves
    BY <1>0
  <2> QED
    BY <1>0, <1>1, <2>1, <2>2, TouchMove, KeepForm
<1>2. CASE /\ Screen!Answer(q, "allocate") /\ Screen!Done(q)
           /\ UNCHANGED <<form, busy, modal, excused>> /\ Screen!Same
  <2>1. FlagAfter(q)
    BY <1>2 DEF FlagAfter
  <2> QED
    BY <1>0, <1>2, <2>1, EndMove, KeepAfter DEF Screen!Answer
<1>3. CASE /\ Screen!Answer(q, "decide")
           /\ IF Screen!Ok(q) THEN Screen!GoOn(q, "load") ELSE Screen!Done(q)
           /\ UNCHANGED <<form, busy, modal, excused>> /\ Screen!Same
  <2>1. FlagAfter(q)
    BY <1>3 DEF FlagAfter
  <2> QED
    BY <1>0, <1>3, <2>1, EndMove, GoesMove, KeepAfter DEF Screen!Answer
<1>4. CASE /\ Screen!Answer(q, "close") /\ Screen!Done(q)
           /\ IF Screen!Ok(q) THEN Screen!Shut ELSE UNCHANGED form
           /\ UNCHANGED <<busy, modal, excused>> /\ Screen!Same
  <2>1. FormAfter(q) /\ FlagAfter(q)
    BY <1>4, ShutAfter, KeepAfter DEF FlagAfter
  <2> QED
    BY <1>0, <1>4, <2>1, EndMove DEF Screen!Answer
<1>5. CASE Screen!SaveAllocations(q)
  BY <1>1, <1>2, <1>5 DEF Screen!SaveAllocations, Screen!AskOf
<1>6. CASE Screen!ConfirmOrder(q)
  BY <1>1, <1>3, <1>6 DEF Screen!ConfirmOrder
<1>7. CASE Screen!CloseOrder(q)
  BY <1>1, <1>4, <1>7 DEF Screen!CloseOrder
<1> QED
  BY <1>5, <1>6, <1>7

LEMMA DraftReadMoves ==
  ASSUME PInv, NEW q \in Queries, page = "draft", Screen!EditDraft(q)
  PROVE  Asks(q) \/ Handles(q)
<1> USE DEF Screen!Same
<1>0. modal \in Modals /\ query \in [Queries -> Calls]
  BY Types
<1>1. CASE \E d \in Papers :
             /\ Screen!Loads(q, d) /\ busy' = TRUE
             /\ Screen!Show(d, query'[q].of) /\ UNCHANGED <<modal, excused>> /\ Screen!Same
  <2>1. PICK d \in Papers :
          /\ Screen!Loads(q, d) /\ busy' = TRUE
          /\ Screen!Show(d, query'[q].of) /\ UNCHANGED <<modal, excused>> /\ Screen!Same
    BY <1>1
  <2>2. PICK f \in Screen!Unused : Screen!Ask(q, "load", d, f)
    BY <2>1, NoPaperFacts DEF Screen!Loads
  <2>3. query'[q].of = f
    BY <1>0, <2>2 DEF Screen!Ask
  <2>4. d \in Numbers /\ f \in Sources
    BY NoPaperFacts DEF Numbers, Sources
  <2>5. form' \in Forms /\ form'.no = d
    BY <2>1, <2>3, <2>4, ShowForm
  <2> QED
    BY <2>1, <2>2, <2>5, ReadMove
<1>2. CASE /\ Screen!Answer(q, "load") /\ Screen!Done(q)
           /\ IF Screen!Active(q) THEN Screen!Release(q) ELSE UNCHANGED <<busy, excused>>
           /\ \/ ~Screen!Ok(q) /\ Screen!Shut
              \/ /\ Screen!Ok(q)
                 /\ IF Screen!Active(q) THEN Screen!Show(query[q].no, NoPaper)
                    ELSE UNCHANGED form
           /\ UNCHANGED modal /\ Screen!Same
  <2>1. query[q].no \in Numbers /\ NoPaper \in Sources
    BY <1>0 DEF Calls, Sources
  <2>2. FormAfter(q)
    BY <1>2, <2>1, ShutAfter, KeepAfter, ShowForm DEF FormAfter
  <2>3. FlagAfter(q)
    BY <1>2 DEF FlagAfter, Screen!Answer, Screen!Saves
  <2> QED
    BY <1>0, <1>2, <2>2, <2>3, EndMove DEF Screen!Answer
<1> QED
  BY <1>1, <1>2 DEF Screen!EditDraft

LEMMA DraftSaveMoves ==
  ASSUME PInv, NEW q \in Queries, page = "draft", Screen!SaveDraft(q) \/ Screen!DeleteDraft(q)
  PROVE  Asks(q) \/ Handles(q)
<1> USE DEF Screen!Same
<1>1. CASE \E o \in {"save", "submit"} : Screen!Save(q, o)
  BY <1>1, SaveMoves DEF Screen!Saves
<1>2. CASE /\ Screen!Answer(q, "save") \/ Screen!Answer(q, "submit")
           /\ Screen!Done(q) /\ Screen!Release(q)
           /\ IF Screen!Ok(q) THEN Screen!Shut ELSE UNCHANGED form
           /\ cached' = IF Screen!Ok(q) /\ query[q].of # NoPaper THEN NoPaper ELSE cached
           /\ UNCHANGED <<page, modal, row>>
  <2>1. FormAfter(q) /\ (Screen!Ok(q) => form'.of = NoPaper)
    BY <1>2, ShutAfter, KeepAfter
  <2>2. FlagAfter(q)
    BY <1>2, <2>1 DEF FlagAfter
  <2> QED
    BY <1>2, <2>1, <2>2, EndMove, Types DEF Screen!Answer
<1>3. CASE Screen!DeleteDraft(q)
  BY <1>3, DeleteMoves, DeletedMoves DEF Screen!DeleteDraft, Numbers
<1> QED
  BY <1>1, <1>2, <1>3 DEF Screen!SaveDraft

LEMMA InboxMoves ==
  ASSUME PInv, NEW q \in Queries, page = "inbox", Screen!InboxRead(q) \/ Screen!Decide(q)
  PROVE  Asks(q) \/ Handles(q)
<1> USE DEF Screen!Same
<1>0. /\ modal \in Modals /\ query[q].no \in Numbers /\ NoPaper \in Sources /\ busy \in BOOLEAN
      /\ form.no \in Numbers
  BY Types DEF Calls, Sources, Forms
<1>1. CASE \E d \in Papers : Screen!Load(q, d)
  BY <1>1, LoadMoves
<1>2. CASE Screen!Save(q, "decide")
  <2>1. "decide" \in Screen!Operations \ Screen!Saves
    BY DEF Screen!Operations, Screen!Saves
  <2> QED
    BY <1>0, <1>2, <2>1, TouchMove, KeepForm DEF Screen!Save, Screen!AskOf
<1>3. CASE /\ Screen!Answer(q, "load") /\ UNCHANGED modal /\ Screen!Same
           /\ \/ ~Screen!Ok(q) /\ Screen!Done(q) /\ Screen!Release(q) /\ UNCHANGED form
              \/ /\ Screen!Ok(q) /\ Screen!Done(q) /\ Screen!Release(q)
                 /\ Screen!Show(query[q].no, NoPaper)
              \/ /\ Screen!Ok(q) /\ Screen!GoOn(q, "rows") /\ UNCHANGED <<busy, excused>>
                 /\ form' = [form EXCEPT !.no = query[q].no]
  <2>1. ASSUME form' = [form EXCEPT !.no = query[q].no] PROVE FormAfter(q)
    BY <1>0, <2>1, Types DEF FormAfter, Forms
  <2>2. FormAfter(q)
    BY <1>0, <1>3, <2>1, KeepAfter, ShowForm DEF FormAfter
  <2>3. FlagAfter(q)
    BY <1>3 DEF FlagAfter, Screen!Answer, Screen!Saves
  <2> QED
    BY <1>0, <1>3, <2>2, <2>3, EndMove, GoesMove DEF Screen!Answer
<1>4. CASE /\ Screen!Answer(q, "rows") /\ Screen!Done(q) /\ Screen!Release(q)
           /\ form' = IF Screen!Ok(q) THEN [form EXCEPT !.open = TRUE] ELSE form
           /\ UNCHANGED modal /\ Screen!Same
  <2>1. FormAfter(q)
    BY <1>4, Types DEF FormAfter, Kept, Forms
  <2>2. FlagAfter(q)
    BY <1>4 DEF FlagAfter, Screen!Answer, Screen!Saves
  <2> QED
    BY <1>0, <1>4, <2>1, <2>2, EndMove DEF Screen!Answer
<1>5. CASE /\ Screen!Answer(q, "decide") /\ Screen!Done(q) /\ Screen!Release(q)
           /\ IF Screen!Ok(q) THEN Screen!Shut ELSE UNCHANGED form
           /\ UNCHANGED modal /\ Screen!Same
  <2>1. FormAfter(q)
    BY <1>5, ShutAfter, KeepAfter
  <2>2. FlagAfter(q)
    BY <1>5 DEF FlagAfter, Screen!Answer, Screen!Saves
  <2> QED
    BY <1>0, <1>5, <2>1, <2>2, EndMove DEF Screen!Answer
<1> QED
  BY <1>1, <1>2, <1>3, <1>4, <1>5 DEF Screen!InboxRead, Screen!Decide

LEMMA PostMoves ==
  ASSUME PInv, NEW q \in Queries, page = "post",
         Screen!PostRead(q) \/ Screen!PostSave(q) \/ Screen!PostDelete(q)
  PROVE  Asks(q) \/ Handles(q)
<1> USE DEF Screen!Same
<1>0. /\ modal \in Modals /\ query[q].no \in Numbers /\ NoPaper \in Numbers
      /\ form.behind \in Numbers
  BY Types DEF Calls, Numbers, Forms
<1>1. CASE /\ \E d \in Papers : Screen!Ask(q, "load", d, NoPaper)
           /\ busy' = TRUE /\ UNCHANGED <<form, modal, excused>> /\ Screen!Same
  BY <1>1, ReadMove, KeepForm
<1>2. CASE /\ Screen!Answer(q, "load") /\ Screen!Done(q) /\ Screen!Release(q)
           /\ IF Screen!Ok(q) THEN Screen!View(query[q].no) ELSE UNCHANGED form
           /\ UNCHANGED modal /\ Screen!Same
  <2>1. FormAfter(q)
    BY <1>0, <1>2, ViewForm, KeepAfter DEF FormAfter
  <2>2. FlagAfter(q)
    BY <1>2 DEF FlagAfter, Screen!Answer, Screen!Saves
  <2> QED
    BY <1>0, <1>2, <2>1, <2>2, EndMove DEF Screen!Answer
<1>3. CASE Screen!PostSave(q)
  BY <1>3, SaveMoves, SavedMoves DEF Screen!PostSave, Screen!Saves
<1>4. CASE Screen!Delete(q, form.behind)
  BY <1>0, <1>4, DeleteMoves
<1>5. CASE /\ Screen!Answer(q, "delete") /\ Screen!Done(q)
           /\ IF Screen!Ok(q) THEN Screen!View(NoPaper) ELSE UNCHANGED form
           /\ UNCHANGED <<busy, modal, excused>> /\ Screen!Same
  <2>1. FormAfter(q)
    BY <1>0, <1>5, ViewForm, KeepAfter DEF FormAfter
  <2>2. FlagAfter(q)
    BY <1>5 DEF FlagAfter, Screen!Answer, Screen!Saves
  <2> QED
    BY <1>0, <1>5, <2>1, <2>2, EndMove DEF Screen!Answer
<1> QED
  BY <1>1, <1>2, <1>3, <1>4, <1>5 DEF Screen!PostRead, Screen!PostDelete

LEMMA StockMoves ==
  ASSUME PInv, NEW q \in Queries, page = "stock",
         Screen!ChooseOrder(q) \/ Screen!Process(q) \/ Screen!CloseMonth(q)
  PROVE  Asks(q) \/ Handles(q)
<1> USE DEF Screen!Same
<1>0. modal \in Modals /\ query[q].of \in Sources /\ NoPaper \in Sources /\ NoPaper \in Numbers
  BY Types DEF Calls, Sources, Numbers
<1>1. CASE /\ \E d \in Papers : Screen!Loads(q, d)
           /\ busy' = TRUE /\ UNCHANGED <<form, modal, excused>> /\ Screen!Same
  BY <1>1, LoadsMove
<1>2. CASE /\ Screen!Answer(q, "load") /\ Screen!Done(q) /\ Screen!Release(q)
           /\ IF Screen!Ok(q) THEN Screen!Grid(query[q].of) ELSE UNCHANGED form
           /\ UNCHANGED modal /\ Screen!Same
  <2>1. FormAfter(q)
    BY <1>0, <1>2, GridForm, KeepAfter DEF FormAfter, Opens, Screen!Answer
  <2>2. FlagAfter(q)
    BY <1>2 DEF FlagAfter, Screen!Answer, Screen!Saves
  <2> QED
    BY <1>0, <1>2, <2>1, <2>2, EndMove DEF Screen!Answer
<1>3. CASE form.of # NoPaper /\ Screen!Save(q, "submit")
  BY <1>3, SaveMoves DEF Screen!Saves
<1>4. CASE /\ Screen!Answer(q, "submit") /\ Screen!Done(q) /\ Screen!Release(q)
           /\ IF Screen!Ok(q) THEN Screen!Grid(NoPaper) ELSE UNCHANGED form
           /\ UNCHANGED modal /\ Screen!Same
  <2>1. FormAfter(q) /\ (Screen!Ok(q) => form'.of = NoPaper)
    BY <1>0, <1>4, GridForm, KeepAfter DEF FormAfter
  <2>2. FlagAfter(q)
    BY <1>4, <2>1 DEF FlagAfter
  <2> QED
    BY <1>0, <1>4, <2>1, <2>2, EndMove DEF Screen!Answer
<1>5. CASE /\ busy' = TRUE /\ Screen!Ask(q, "other", NoPaper, NoPaper)
           /\ UNCHANGED <<form, modal, excused>> /\ Screen!Same
  <2>1. "other" \in Screen!Operations \ Screen!Saves
    BY DEF Screen!Operations, Screen!Saves
  <2> QED
    BY <1>0, <1>5, <2>1, TouchMove, KeepForm
<1>6. CASE /\ Screen!Answer(q, "other") /\ Screen!Done(q) /\ Screen!Release(q)
           /\ UNCHANGED <<form, modal>> /\ Screen!Same
  <2>1. FlagAfter(q)
    BY <1>6 DEF FlagAfter, Screen!Answer, Screen!Saves
  <2> QED
    BY <1>0, <1>6, <2>1, EndMove, KeepAfter DEF Screen!Answer
<1> QED
  BY <1>1, <1>2, <1>3, <1>4, <1>5, <1>6 DEF Screen!ChooseOrder, Screen!Process, Screen!CloseMonth

LEMMA HandleMoves ==
  ASSUME PInv, NEW q \in Queries, Screen!Handle(q)
  PROVE  Asks(q) \/ Handles(q)
<1>0. form.no \in Numbers
  BY Types DEF Forms
<1>1. ASSUME page \in {"workOrder", "workPermit", "maintenance"},
             \/ \E d \in Papers : Screen!Load(q, d)
             \/ Screen!Loaded(q)
             \/ \E o \in {"save", "raise"} : Screen!Save(q, o)
             \/ Screen!Saved(q)
             \/ Screen!Raised(q)
             \/ Screen!Delete(q, form.no)
             \/ Screen!Deleted(q, TRUE)
      PROVE  Asks(q) \/ Handles(q)
  <2>1. page \in Screen!WithApproval /\ page \notin {"order", "draft", "request"}
    BY <1>1 DEF Screen!WithApproval
  <2> QED
    BY <1>0, <1>1, <2>1, LoadMoves, LoadedMoves, SaveMoves, SavedMoves, RaisedMoves, DeleteMoves,
       DeletedMoves DEF Screen!Saves
<1>2. CASE page = "workOrder" /\ (\/ Screen!WorkOrderRead(q) \/ Screen!WorkOrderSave(q)
                                  \/ Screen!WorkOrderDelete(q) \/ Screen!ResultFromPlan(q))
  BY <1>1, <1>2, PlanMoves
     DEF Screen!WorkOrderRead, Screen!WorkOrderSave, Screen!WorkOrderDelete
<1>3. CASE page = "workPermit" /\ (\/ Screen!WorkPermitRead(q) \/ Screen!WorkPermitSave(q)
                                  \/ Screen!WorkPermitDelete(q))
  BY <1>1, <1>3 DEF Screen!WorkPermitRead, Screen!WorkPermitSave, Screen!WorkPermitDelete
<1>4. CASE page = "maintenance" /\ (\/ Screen!MaintenanceRead(q) \/ Screen!MaintenanceSave(q)
                                   \/ Screen!MaintenanceDelete(q) \/ Screen!LoadTemplates(q))
  BY <1>1, <1>4, TemplateMoves
     DEF Screen!MaintenanceRead, Screen!MaintenanceSave, Screen!MaintenanceDelete
<1>5. CASE Screen!SubmitModal(q) \/ Screen!ModalSubmitted(q)
  BY <1>5, ModalMoves
<1>6. CASE page = "request" /\ (\/ Screen!RequestRead(q) \/ Screen!RequestSave(q)
                                \/ Screen!RequestDelete(q))
  BY <1>6, RequestMoves
<1>7. CASE page = "order" /\ (\/ Screen!OrderRead(q) \/ Screen!OrderSave(q)
                              \/ Screen!SaveAllocations(q) \/ Screen!ConfirmOrder(q)
                              \/ Screen!CloseOrder(q))
  BY <1>7, OrderReadMoves, OrderSaveMoves, OrderDecideMoves
<1>8. CASE page = "draft" /\ (Screen!EditDraft(q) \/ Screen!SaveDraft(q) \/ Screen!DeleteDraft(q))
  BY <1>8, DraftReadMoves, DraftSaveMoves
<1>9. CASE page = "inbox" /\ (Screen!InboxRead(q) \/ Screen!Decide(q))
  BY <1>9, InboxMoves
<1>10. CASE page = "post" /\ (Screen!PostRead(q) \/ Screen!PostSave(q) \/ Screen!PostDelete(q))
  BY <1>10, PostMoves
<1>11. CASE page = "stock" /\ (Screen!ChooseOrder(q) \/ Screen!Process(q) \/ Screen!CloseMonth(q))
  BY <1>11, StockMoves
<1>12. CASE Screen!Upload(q) \/ Screen!Uploaded(q)
  BY <1>12, UploadMoves, UploadedMoves
<1> QED
  BY <1>2, <1>3, <1>4, <1>5, <1>6, <1>7, <1>8, <1>9, <1>10, <1>11, <1>12 DEF Screen!Handle

LEMMA TurnMoves == ASSUME PInv, Screen!Turn PROVE Turns
<1>0. /\ modal \in Modals /\ NoPaper \in Numbers /\ NoPaper \in Sources /\ cached \in Sources
      /\ form.behind \in Numbers /\ Screen!Unused \subseteq Sources
  BY Types, NoPaperFacts DEF Numbers, Sources, Forms
<1>1. ASSUME Screen!Open, page \notin {"inbox", "draft"} PROVE Turns
  <2>1. PICK f \in Screen!Unused : Screen!Show(NoPaper, f) /\ excused' = excused \ {f}
    BY <1>1, NoPaperFacts DEF Screen!Open
  <2>2. form' \in Forms /\ form'.of = f
    BY <1>0, <2>1, ShowForm
  <2>3. NewForm
    BY <1>1, <2>1, <2>2 DEF NewForm, Screen!Open
  <2> QED
    BY <1>0, <1>1, <2>2, <2>3 DEF Turns, Screen!Open
<1>2. ASSUME Screen!Close PROVE Turns
  <2>1. form' \in Forms /\ (Kept \/ form'.of = NoPaper)
    BY <1>2, ShutForm DEF Screen!Close, Kept
  <2> QED
    BY <1>0, <1>2, <2>1 DEF Turns, OldForm, Screen!Close
<1>3. CASE page \in {"workOrder", "workPermit", "maintenance", "request", "order", "post"}
           /\ (Screen!Open \/ Screen!Close)
  BY <1>1, <1>2, <1>3
<1>4. CASE Screen!CloseModal
  <2>1. modal' \in Modals
    BY <1>0, <1>4 DEF Screen!CloseModal, Screen!NoModal, Modals
  <2> QED
    BY <1>4, <2>1, KeepForm DEF Turns, OldForm, Screen!CloseModal
<1>5. CASE page = "draft" /\ (Screen!NewDraft \/ Screen!Autosave)
  <2>1. CASE /\ cached # NoPaper /\ Screen!Show(NoPaper, cached)
             /\ UNCHANGED <<excused, cached, page, busy, modal, query, row>>
    <3>1. form' \in Forms /\ form'.no = NoPaper /\ form'.of = cached
      BY <1>0, <2>1, ShowForm
    <3> QED
      BY <1>0, <1>5, <2>1, <3>1 DEF Turns, Cache
  <2>2. CASE /\ UNCHANGED <<page, busy, modal, query, row>>
             /\ \E f \in Screen!Fresh :
                  /\ Screen!Show(NoPaper, f) /\ excused' = excused \ {f} /\ cached' = NoPaper
    <3>1. PICK f \in Screen!Unused :
            Screen!Show(NoPaper, f) /\ excused' = excused \ {f} /\ cached' = NoPaper
      BY <2>2, NoPaperFacts
    <3>2. form' \in Forms /\ form'.of = f
      BY <1>0, <3>1, ShowForm
    <3>3. NewForm
      BY <1>5, <2>2, <3>1, <3>2 DEF NewForm
    <3> QED
      BY <1>0, <2>2, <3>2, <3>3 DEF Turns
  <2>3. CASE Screen!Autosave
    BY <1>0, <1>5, <2>3, KeepForm DEF Turns, Cache, Screen!Autosave
  <2> QED
    BY <1>5, <2>1, <2>2, <2>3 DEF Screen!NewDraft
<1>6. CASE page \in {"draft", "inbox"} /\ Screen!Close
  BY <1>2, <1>6
<1>7. CASE page = "stock" /\ Screen!ChangeGrid
  <2>1. CASE Screen!Grid(NoPaper) /\ excused' = excused
    <3>1. form' \in Forms /\ form'.of = NoPaper
      BY <1>0, <2>1, GridForm
    <3> QED
      BY <1>0, <1>7, <2>1, <3>1 DEF Turns, OldForm, Screen!ChangeGrid
  <2>2. CASE \E f \in Screen!Fresh : Screen!Grid(f) /\ excused' = excused \ {f}
    <3>1. PICK f \in Screen!Unused : Screen!Grid(f) /\ excused' = excused \ {f}
      BY <2>2, NoPaperFacts
    <3>2. form' \in Forms /\ form'.of = f
      BY <1>0, <3>1, GridForm
    <3>3. NewForm
      BY <1>7, <3>1, <3>2 DEF NewForm, Screen!ChangeGrid
    <3> QED
      BY <1>0, <1>7, <3>2, <3>3 DEF Turns, Screen!ChangeGrid
  <2> QED
    BY <1>7, <2>1, <2>2 DEF Screen!ChangeGrid
<1>8. CASE /\ Screen!Show(form.behind, NoPaper) \/ Screen!View(NoPaper)
           /\ UNCHANGED <<page, busy, modal, query, row, excused, cached>>
  <2>1. form' \in Forms /\ (Kept \/ form'.of = NoPaper)
    BY <1>0, <1>8, ShowForm, ViewForm
  <2> QED
    BY <1>0, <1>8, <2>1 DEF Turns, OldForm
<1> QED
  BY <1>3, <1>4, <1>5, <1>6, <1>7, <1>8
     DEF Screen!Turn, Screen!WorkOrderForm, Screen!WorkPermitForm, Screen!MaintenanceForm,
         Screen!RequestForm, Screen!OrderForm, Screen!PostForm

-----------------------------------------------------------------------------
(***************************************************************************)
(* The moves keep the types.                                               *)
(***************************************************************************)
LEMMA InitPInv == Screen!PagesInit => PInv
<1> SUFFICES ASSUME Screen!PagesInit PROVE PInv
  OBVIOUS
<1>0. page \in Screen!Screens /\ turns = 0 /\ busy \in BOOLEAN
  <2>1. busy = FALSE /\ turns = 0 /\ page \in Screen!Screens
    BY Zenon DEF Screen!PagesInit
  <2> QED
    BY <2>1
<1>1. MaxTurns[page] \in Nat
  BY <1>0, ScreenAssumption
<1>t. turns \in 0..MaxTurns[page]
  BY <1>0, <1>1
<1>2. form \in Forms
  BY DEF Screen!PagesInit, Screen!NoForm, Forms, Numbers, Sources
<1>3. modal \in Modals
  BY DEF Screen!PagesInit, Screen!NoModal, Modals, Numbers
<1>4. Screen!NoQuery \in Calls
  BY DEF Screen!NoQuery, Calls, Numbers, Sources, Screen!Operations
<1>5. query \in [Queries -> Calls] /\ \A q \in Queries : query[q] = Screen!NoQuery
  BY <1>4 DEF Screen!PagesInit
<1>6. row \in [Papers -> Sheets] /\ excused \subseteq Fillings /\ cached \in Sources
  BY DEF Screen!PagesInit, Sheets, Stati, Sources
<1> QED
  BY <1>0, <1>t, <1>2, <1>3, <1>5, <1>6, TypesBack DEF PInv

\* One call changes.
LEMMA Called ==
  ASSUME PInv, NEW q \in Queries, NEW w \in Calls, Becomes(q, w),
         w.phase = "idle" => w = Screen!NoQuery
  PROVE  /\ query' \in [Queries -> Calls]
         /\ \A p \in Queries : query'[p] = IF p = q THEN w ELSE query[p]
         /\ \A p \in Queries : query'[p].phase = "idle" => query'[p] = Screen!NoQuery
<1>1. query \in [Queries -> Calls]
  BY Types
<1>2. /\ query' \in [Queries -> Calls]
      /\ \A p \in Queries : query'[p] = IF p = q THEN w ELSE query[p]
  BY <1>1 DEF Becomes
<1> QED
  BY <1>2 DEF PInv

LEMMA PInvBack ==
  ASSUME page' \in Screen!Screens, busy' \in BOOLEAN, turns' \in 0..MaxTurns[page]', form' \in Forms,
         modal' \in Modals, query' \in [Queries -> Calls], row' \in [Papers -> Sheets],
         excused' \subseteq Fillings, cached' \in Sources,
         \A q \in Queries : query'[q].phase = "idle" => query'[q] = Screen!NoQuery
  PROVE  PInv'
<1>1. Screen!PagesTypeOK'
  BY DEF Screen!PagesTypeOK, Forms, Modals, Calls, Sheets, Stati, Numbers, Sources
<1> QED
  BY <1>1 DEF PInv

LEMMA AsksPInv ==
  ASSUME PInv, NEW q \in Queries, Asks(q), turns' \in 0..MaxTurns[page] PROVE PInv'
<1>1. PICK w \in Calls : /\ Becomes(q, w) /\ w.phase = "sent"
                         /\ Reads(w) \/ Stores(w) \/ Touches(w)
  BY DEF Asks
<1>2. excused' \subseteq Fillings
  BY <1>1, Types DEF Reads, Stores, Touches, Screen!Again
<1>3. /\ query' \in [Queries -> Calls]
      /\ \A p \in Queries : query'[p].phase = "idle" => query'[p] = Screen!NoQuery
  BY <1>1, Called
<1> QED
  BY <1>2, <1>3, Types, PInvBack DEF Asks

LEMMA HandlesPInv ==
  ASSUME PInv, NEW q \in Queries, Handles(q), turns' \in 0..MaxTurns[page] PROVE PInv'
<1>1. PICK w \in Calls : Becomes(q, w) /\ (w.phase = "idle" => w = Screen!NoQuery)
  BY DEF Handles, CallAfter
<1>2. excused' \subseteq Fillings /\ busy' \in BOOLEAN
  BY Types DEF Handles, FlagAfter, Screen!Release, Screen!Failure
<1>3. cached' \in Sources
  BY Types DEF Handles, FlagAfter, Sources
<1>4. /\ query' \in [Queries -> Calls]
      /\ \A p \in Queries : query'[p].phase = "idle" => query'[p] = Screen!NoQuery
  BY <1>1, Called
<1> QED
  BY <1>2, <1>3, <1>4, Types, PInvBack DEF Handles, FormAfter

LEMMA TurnsPInv == ASSUME PInv, Turns, turns' \in 0..MaxTurns[page] PROVE PInv'
<1>1. excused' \subseteq Fillings
  BY Types DEF Turns, NewForm, OldForm, Cache
<1>2. cached' \in Sources
  BY Types DEF Turns, NewForm, OldForm, Cache, Sources, Forms
<1> QED
  BY <1>1, <1>2, Types, PInvBack DEF Turns, PInv

-----------------------------------------------------------------------------
(***************************************************************************)
(* The server and the other users.                                         *)
(***************************************************************************)
\* A document changes, and stays what it was filled in as.
LEMMA OneRow ==
  ASSUME PInv, NEW d \in Papers, NEW st \in Stati, row' = [row EXCEPT ![d].status = st]
  PROVE  row' \in [Papers -> Sheets] /\ \A e \in Papers : row'[e].from = row[e].from
<1>1. row \in [Papers -> Sheets]
  BY Types
<1> DEFINE w == [row[d] EXCEPT !.status = st]
<1>2. w \in Sheets /\ w.from = row[d].from
  BY <1>1 DEF Sheets
<1>3. row' = [row EXCEPT ![d] = w]
  BY <1>1
<1> HIDE DEF w
<1> QED
  BY <1>1, <1>2, <1>3

\* The answer to call q is about document n.
Replied(q, phases, n) ==
  /\ \A p \in Queries \ {q} : query'[p] = query[p]
  /\ query'[q].op = query[q].op /\ query'[q].of = query[q].of /\ query'[q].no = n
  /\ query'[q].phase \in phases
  /\ query' \in [Queries -> Calls]
  /\ \A p \in Queries : query'[p].phase = "idle" => query'[p] = Screen!NoQuery

LEMMA Answered ==
  ASSUME PInv, NEW q \in Queries, NEW phases, NEW n \in Numbers, phases \subseteq {"ok", "failed"},
         Screen!Answers(q, phases, n)
  PROVE  Replied(q, phases, n)
<1>1. PICK ph \in phases : query' = [query EXCEPT ![q].phase = ph, ![q].no = n]
  BY DEF Screen!Answers
<1>2. query \in [Queries -> Calls]
  BY Types
<1> DEFINE w == [query[q] EXCEPT !.phase = ph, !.no = n]
<1>3. /\ w \in Calls /\ w.op = query[q].op /\ w.of = query[q].of /\ w.no = n /\ w.phase = ph
  BY <1>2 DEF Calls
<1>4. Becomes(q, w)
  BY <1>1, <1>2 DEF Becomes
<1> HIDE DEF w
<1>5. /\ query' \in [Queries -> Calls]
      /\ \A p \in Queries : query'[p] = IF p = q THEN w ELSE query[p]
      /\ \A p \in Queries : query'[p].phase = "idle" => query'[p] = Screen!NoQuery
  BY <1>3, <1>4, Called
<1> QED
  BY <1>3, <1>5 DEF Replied

\* What the server makes of the documents: a new one from the call, or the ones
\* there are with their fillings.
Files(q) ==
  /\ row' \in [Papers -> Sheets] /\ UNCHANGED <<page, form, busy, modal, excused, cached>>
  /\ \A p \in Queries \ {q} : query'[p] = query[p]
  /\ query'[q].op = query[q].op /\ query'[q].of = query[q].of
  /\ query' \in [Queries -> Calls] /\ query[q].phase = "sent"
  /\ query'[q].phase \in {"ok", "failed"}
  /\ query[q].op \in Screen!Saves /\ query'[q].phase = "ok" => query'[q].no \in Papers
  /\ \/ \A d \in Papers : row'[d].from = row[d].from
     \/ /\ query[q].op \in Screen!Saves /\ query[q].no = NoPaper
        /\ \E d \in Papers : \A e \in Papers :
             row'[e].from = IF e = d THEN query[q].of ELSE row[e].from

LEMMA ServeMoves ==
  ASSUME PInv, NEW q \in Queries, Screen!Serve(q)
  PROVE  Files(q) /\ \A p \in Queries : query'[p].phase = "idle" => query'[p] = Screen!NoQuery
<1>0. /\ query[q].phase = "sent" /\ UNCHANGED <<page, form, busy, modal, excused, cached>>
      /\ query[q].no \in Numbers /\ row \in [Papers -> Sheets] /\ NoPaper \in Numbers
      /\ query[q].of \in Sources
  BY Types DEF Screen!Serve, Calls, Numbers
<1>1. CASE Screen!Read(q)
  <2>1. PICK m \in Numbers : Screen!Answers(q, {"ok"}, m)
    BY <1>0, <1>1 DEF Screen!Read
  <2>2. row' = row /\ query[q].op \notin Screen!Saves
    BY <1>1 DEF Screen!Read, Screen!Saves
  <2>3. Replied(q, {"ok"}, m)
    BY <2>1, Answered
  <2> QED
    BY <1>0, <2>2, <2>3 DEF Files, Replied
<1>2. CASE Screen!Create(q)
  <2>1. PICK d \in Papers :
          /\ Screen!Answers(q, {"ok", "failed"}, d)
          /\ row' = [row EXCEPT ![d] = [status |-> Screen!NewStatus(q), from |-> query[q].of]]
    BY <1>2 DEF Screen!Create
  <2>2. query[q].op \in Screen!Saves /\ query[q].no = NoPaper
    BY <1>2 DEF Screen!Create
  <2> DEFINE w == [status |-> Screen!NewStatus(q), from |-> query[q].of]
  <2>3. w \in Sheets /\ w.from = query[q].of
    BY <1>0 DEF Screen!NewStatus, Sheets, Stati
  <2>4. row' = [row EXCEPT ![d] = w]
    BY <2>1
  <2> HIDE DEF w
  <2>5. /\ row' \in [Papers -> Sheets]
        /\ \A e \in Papers : row'[e].from = IF e = d THEN query[q].of ELSE row[e].from
    BY <1>0, <2>3, <2>4
  <2>6. d \in Numbers
    BY DEF Numbers
  <2>7. Replied(q, {"ok", "failed"}, d)
    BY <2>1, <2>6, Answered
  <2> QED
    BY <1>0, <2>2, <2>5, <2>7 DEF Files, Replied
<1>3. CASE Screen!Change(q)
  <2>1. query[q].no \in Papers /\ Screen!Answers(q, {"ok", "failed"}, query[q].no)
    BY <1>0, <1>3 DEF Screen!Change, Numbers
  <2>2. \E st \in Stati : row' = [row EXCEPT ![query[q].no].status = st] \/ row' = row
    <3>1. row[query[q].no].status \in Stati /\ Screen!NewStatus(q) \in Stati
      BY <1>0, <2>1 DEF Sheets, Screen!NewStatus, Stati
    <3> QED
      BY <1>3, <3>1 DEF Screen!Change, Stati
  <2>3. row' \in [Papers -> Sheets] /\ \A e \in Papers : row'[e].from = row[e].from
    BY <1>0, <2>1, <2>2, OneRow
  <2>4. Replied(q, {"ok", "failed"}, query[q].no)
    BY <1>0, <2>1, Answered
  <2> QED
    BY <1>0, <2>1, <2>3, <2>4 DEF Files, Replied
<1>4. CASE Screen!Refuse(q)
  <2>1. row' = row /\ Screen!Answers(q, {"failed"}, query[q].no)
    BY <1>4 DEF Screen!Refuse
  <2>2. Replied(q, {"failed"}, query[q].no)
    BY <1>0, <2>1, Answered
  <2> QED
    BY <1>0, <2>1, <2>2 DEF Files, Replied
<1> QED
  BY <1>1, <1>2, <1>3, <1>4 DEF Screen!Serve

LEMMA ServePInv ==
  ASSUME PInv, NEW q \in Queries, Screen!Serve(q), turns' \in 0..MaxTurns[page] PROVE PInv'
<1>1. Files(q) /\ \A p \in Queries : query'[p].phase = "idle" => query'[p] = Screen!NoQuery
  BY ServeMoves
<1> QED
  BY <1>1, Types, PInvBack DEF Files

LEMMA ElsewhereMoves ==
  ASSUME PInv, Screen!Elsewhere
  PROVE  row' \in [Papers -> Sheets] /\ \A e \in Papers : row'[e].from = row[e].from
<1>1. PICK d \in Papers, next \in {<<"draft", "approval">>, <<"draft", "gone">>,
                                   <<"approval", "confirmed">>, <<"approval", "rejected">>} :
        row' = [row EXCEPT ![d].status = next[2]]
  BY DEF Screen!Elsewhere
<1>2. next[2] \in Stati
  BY DEF Stati
<1> QED
  BY <1>1, <1>2, OneRow

LEMMA ElsewherePInv ==
  ASSUME PInv, Screen!Elsewhere, turns' \in 0..MaxTurns[page] PROVE PInv'
  BY ElsewhereMoves, Types, PInvBack DEF Screen!Elsewhere, PInv

-----------------------------------------------------------------------------
(***************************************************************************)
(* The behaviours of MCScreens.                                            *)
(***************************************************************************)
allVars == <<subject, vars, pageVars>>

LEMMA PagesNextPInv == PInv /\ Screen!PagesNext => PInv'
<1> SUFFICES ASSUME PInv, Screen!PagesNext PROVE PInv'
  OBVIOUS
<1>1. turns \in 0..MaxTurns[page] /\ MaxTurns[page] \in Nat
  BY ScreenAssumption, Types
<1>2. CASE Screen!UserTurn
  <2>1. turns' \in 0..MaxTurns[page]
    BY <1>1, <1>2 DEF Screen!UserTurn
  <2> QED
    BY <1>2, <2>1, HandleMoves, TurnMoves, AsksPInv, HandlesPInv, TurnsPInv, ElsewherePInv
       DEF Screen!UserTurn
<1>3. CASE \E q \in Queries : Screen!Answered(q)
  BY <1>1, <1>3, ServePInv DEF Screen!Answered
<1>4. CASE \E q \in Queries : Screen!GoesOn(q)
  BY <1>1, <1>4, HandleMoves, AsksPInv, HandlesPInv DEF Screen!GoesOn
<1> QED
  BY <1>2, <1>3, <1>4 DEF Screen!PagesNext

ScreensPInv == subject = "screen" => PInv

LEMMA ScreensInvariance == ScreensSpec => [](ScreensPInv /\ TypeOK)
<1>1. ScreensInit => ScreensPInv
  BY InitPInv DEF ScreensInit, ScreensPInv
<1>2. ScreensPInv /\ [ScreensNext]_allVars => ScreensPInv'
  <2> SUFFICES ASSUME ScreensPInv, [ScreensNext]_allVars PROVE ScreensPInv'
    OBVIOUS
  <2>1. CASE subject = "ledger" /\ Next /\ UNCHANGED <<subject, pageVars>>
    BY <2>1 DEF ScreensPInv
  <2>2. CASE subject = "screen" /\ Screen!PagesNext /\ UNCHANGED <<subject, vars>>
    BY <2>2, PagesNextPInv DEF ScreensPInv
  <2>3. CASE UNCHANGED allVars
    BY <2>3 DEF ScreensPInv, allVars, pageVars, PInv, Screen!PagesTypeOK
  <2> QED
    BY <2>1, <2>2, <2>3 DEF ScreensNext
<1>3. ScreensInit => Init
  BY DEF ScreensInit
<1>4. [ScreensNext]_allVars => [Next]_vars
  BY DEF ScreensNext, allVars
<1>5. Spec => []TypeOK
  BY TypeCorrect
<1> QED
  BY <1>1, <1>2, <1>3, <1>4, <1>5, PTL DEF ScreensSpec, Spec, allVars

\* The screens and the ledger are of their types.
THEOREM ScreensTypesHold == ScreensSpec => []ScreensTypeOK
<1>1. ScreensPInv /\ TypeOK => ScreensTypeOK
  BY DEF ScreensPInv, ScreensTypeOK, PInv
<1> QED
  BY <1>1, ScreensInvariance, PTL

-----------------------------------------------------------------------------
(***************************************************************************)
(* What was filled in once.  Of filling f: s is the screen, b its flag, w  *)
(* the form, c the cache, g the calls and r the documents.                 *)
(***************************************************************************)
Saving(w, f) == w.op \in Screen!Saves /\ w.of = f
Unfiled(f, r) == \A d \in Papers : r[d].from # f
\* f can be saved as a new document.
Submittable(f, w, c) == (w.no = NoPaper /\ w.of = f) \/ c = f

\* At most one save is under way, and its screen is busy if it has a flag; what
\* is still to be stored, or can be submitted again, is in no document.
Flights(f, s, b, w, c, g, r) ==
  /\ \A q \in Queries :
       Saving(g[q], f) => (b \/ s = "request") /\ \A p \in Queries : Saving(g[p], f) => p = q
  /\ \A q \in Queries :
       Saving(g[q], f) /\ g[q].phase = "sent" /\ g[q].no = NoPaper => Unfiled(f, r)
  /\ Submittable(f, w, c) /\ (\A q \in Queries : ~Saving(g[q], f)) => Unfiled(f, r)
  /\ \A d, e \in Papers : r[d].from = f /\ r[e].from = f => d = e

\* A form that is only going to be opened is nowhere else.
Openings(f, s, w, c, g, r) ==
  \A q \in Queries : Opens(s, g[q]) /\ g[q].of = f =>
    Unfiled(f, r) /\ w.of # f /\ c # f /\ \A p \in Queries \ {q} : g[p].of # f

\* Drafts are cached, the inbox fills nothing in, and what was saved has a number.
Orderly(s, w, c, g) ==
  /\ s # "draft" => c = NoPaper
  /\ s = "inbox" => w.of = NoPaper
  /\ \A q \in Queries : g[q].op \in Screen!Saves /\ g[q].phase = "ok" => g[q].no \in Papers

OInv ==
  page # "order" =>
    /\ Orderly(page, form, cached, query)
    /\ \A f \in Fillings \ excused : Flights(f, page, busy, form, cached, query, row)
    /\ \A f \in Fillings : Openings(f, page, form, cached, query, row)

LEMMA OInvOne == PInv /\ OInv => Screen!OneDocumentPerFilling
<1> SUFFICES ASSUME PInv, OInv, NEW d \in Papers, NEW e \in Papers, row[d].from = row[e].from,
                    row[d].from # NoPaper, page # "order", row[d].from \notin excused
             PROVE  d = e
  BY DEF Screen!OneDocumentPerFilling
<1>1. row[d].from \in Fillings \ excused
  BY Types DEF Sheets, Sources
<1> QED
  BY <1>1 DEF OInv, Flights

LEMMA InitOInv == Screen!PagesInit => OInv
<1> SUFFICES ASSUME Screen!PagesInit
             PROVE  /\ Orderly(page, form, cached, query)
                    /\ \A f \in Fillings : /\ Flights(f, page, busy, form, cached, query, row)
                                           /\ Openings(f, page, form, cached, query, row)
  BY DEF OInv
<1>1. \A q \in Queries : query[q].op = "none" /\ query[q].of = NoPaper
  BY DEF Screen!PagesInit, Screen!NoQuery
<1>2. \A d \in Papers : row[d].from = NoPaper
  BY DEF Screen!PagesInit
<1>3. form.of = NoPaper /\ cached = NoPaper
  BY DEF Screen!PagesInit, Screen!NoForm
<1> QED
  BY <1>1, <1>2, <1>3, NoPaperFacts
     DEF Orderly, Flights, Openings, Saving, Opens, Unfiled, Submittable, Screen!Saves

LEMMA IdleCall ==
  ASSUME PInv, NEW q \in Queries, query[q].phase = "idle"
  PROVE  query[q].op = "none" /\ query[q].of = NoPaper
  BY DEF PInv, Screen!NoQuery

LEMMA UnusedIsNew ==
  ASSUME NEW f \in Screen!Unused
  PROVE  /\ f \in Fillings /\ Unfiled(f, row) /\ form.of # f /\ cached # f
         /\ \A q \in Queries : query[q].of # f
  BY DEF Screen!Unused, Unfiled

\* Nothing about f changes.
LEMMA SameFlights ==
  ASSUME NEW f, Flights(f, page, busy, form, cached, query, row), busy => busy',
         \A p \in Queries : /\ Saving(query'[p], f) <=> Saving(query[p], f)
                            /\ Saving(query'[p], f) => query'[p] = query[p],
         Submittable(f, form', cached') => Submittable(f, form, cached) \/ Unfiled(f, row)
  PROVE  Flights(f, page, busy', form', cached', query', row)
<1>1. ASSUME NEW q \in Queries, Saving(query'[q], f)
      PROVE  /\ busy' \/ page = "request"
             /\ \A p \in Queries : Saving(query'[p], f) => p = q
  BY <1>1 DEF Flights
<1>2. ASSUME NEW q \in Queries, Saving(query'[q], f), query'[q].phase = "sent",
             query'[q].no = NoPaper
      PROVE  Unfiled(f, row)
  BY <1>2 DEF Flights
<1>3. ASSUME Submittable(f, form', cached'), \A q \in Queries : ~Saving(query'[q], f)
      PROVE  Unfiled(f, row)
  BY <1>3 DEF Flights
<1>4. \A d, e \in Papers : row[d].from = f /\ row[e].from = f => d = e
  BY DEF Flights
<1> QED
  BY <1>1, <1>2, <1>3, <1>4 DEF Flights

LEMMA AsksOInv ==
  ASSUME PInv, OInv, NEW q \in Queries, Asks(q)
  PROVE  OInv'
<1> SUFFICES ASSUME page # "order"
             PROVE  /\ Orderly(page, form', cached, query')
                    /\ \A f \in Fillings \ excused' :
                         Flights(f, page, busy', form', cached, query', row)
                    /\ \A f \in Fillings : Openings(f, page, form', cached, query', row)
  BY DEF OInv, Asks
<1>0. /\ Orderly(page, form, cached, query)
      /\ \A f \in Fillings \ excused : Flights(f, page, busy, form, cached, query, row)
      /\ \A f \in Fillings : Openings(f, page, form, cached, query, row)
  BY DEF OInv
<1>1. PICK w \in Calls : /\ Becomes(q, w) /\ w.phase = "sent"
                         /\ Reads(w) \/ Stores(w) \/ Touches(w)
  BY DEF Asks
<1>2. \A p \in Queries : query'[p] = IF p = q THEN w ELSE query[p]
  BY <1>1, Called
<1>3. query[q].op = "none" /\ query[q].of = NoPaper
  BY IdleCall DEF Asks
<1>b. (busy => busy') /\ cached' = cached
  BY DEF Asks
<1>4. CASE Reads(w)
  <2>1. /\ w.op \notin Screen!Saves /\ excused' = excused
        /\ Kept \/ (page = "draft" /\ form'.no \in Papers)
    BY <1>4 DEF Reads, Screen!Saves
  <2>2. w.of = NoPaper \/ (/\ w.of \in Fillings /\ Unfiled(w.of, row) /\ form.of # w.of
                           /\ cached # w.of /\ \A p \in Queries : query[p].of # w.of)
    BY <1>4, UnusedIsNew DEF Reads
  <2>3. Orderly(page, form', cached, query')
    BY <1>0, <1>1, <1>2, <2>1 DEF Orderly, Kept
  <2>4. ASSUME NEW f \in Fillings \ excused' PROVE Flights(f, page, busy', form', cached, query', row)
    <3>1. \A p \in Queries : /\ Saving(query'[p], f) <=> Saving(query[p], f)
                             /\ Saving(query'[p], f) => query'[p] = query[p]
      BY <1>2, <1>3, <2>1 DEF Saving, Screen!Saves
    <3>2. Submittable(f, form', cached) => Submittable(f, form, cached)
      BY <2>1, NoPaperFacts DEF Submittable, Kept
    <3>3. Flights(f, page, busy, form, cached, query, row)
      BY <1>0, <2>1, <2>4
    <3> QED
      BY <1>b, <3>1, <3>2, <3>3, SameFlights
  <2>5. ASSUME NEW f \in Fillings PROVE Openings(f, page, form', cached, query', row)
    <3>1. CASE page = "draft"
      BY <3>1 DEF Openings, Opens, Screen!WithApproval
    <3>2. CASE page # "draft"
      BY <1>0, <1>2, <2>1, <2>2, <3>2, NoPaperFacts DEF Openings, Kept
    <3> QED
      BY <3>1, <3>2
  <2> QED
    BY <2>3, <2>4, <2>5
<1>5. CASE Stores(w) \/ Touches(w)
  <2>1. Kept /\ w.of \in {NoPaper, form.of} /\ ~Opens(page, w)
    BY <1>5 DEF Stores, Touches, Opens, Screen!Saves
  <2>2. Orderly(page, form', cached, query')
    BY <1>0, <1>1, <1>2, <2>1 DEF Orderly, Kept
  <2>3. ASSUME NEW f \in Fillings PROVE Openings(f, page, form', cached, query', row)
    BY <1>0, <1>2, <2>1, NoPaperFacts DEF Openings, Kept
  <2>4. ASSUME NEW f \in Fillings \ excused' PROVE Flights(f, page, busy', form', cached, query', row)
    <3>1. f \notin excused
      BY <1>5, <2>4, Types DEF Stores, Touches, Screen!Again
    <3>2. Flights(f, page, busy, form, cached, query, row)
      BY <1>0, <3>1
    <3>3. CASE ~Saving(w, f)
      <4>1. \A p \in Queries : /\ Saving(query'[p], f) <=> Saving(query[p], f)
                               /\ Saving(query'[p], f) => query'[p] = query[p]
        BY <1>2, <1>3, <3>3 DEF Saving, Screen!Saves
      <4>2. Submittable(f, form', cached) => Submittable(f, form, cached)
        BY <2>1 DEF Submittable, Kept
      <4> QED
        BY <1>b, <3>2, <4>1, <4>2, SameFlights
    <3>4. CASE Saving(w, f)
      <4>1. /\ w.no = form.no /\ form.of = f
            /\ IF page = "request" THEN Screen!Again ELSE ~busy /\ busy'
        BY <1>5, <3>4 DEF Stores, Touches, Saving
      <4>2. \A p \in Queries : ~Saving(query[p], f)
        <5>1. CASE page # "request"
          BY <3>2, <4>1, <5>1 DEF Flights
        <5>2. CASE Screen!Again
          <6> SUFFICES ASSUME NEW p \in Queries, Saving(query[p], f) PROVE FALSE
            OBVIOUS
          <6>1. query[p].phase # "idle"
            BY IdleCall DEF Saving, Screen!Saves
          <6>2. f \in Screen!SavedOf(Queries)
            BY <6>1 DEF Screen!SavedOf, Saving
          <6> QED
            BY <2>4, <4>1, <5>2, <6>2 DEF Screen!Again
        <5> QED
          BY <4>1, <5>1, <5>2
      <4>3. \A p \in Queries : Saving(query'[p], f) => p = q
        BY <1>2, <4>2
      <4>4. Submittable(f, form, cached) => Unfiled(f, row)
        BY <3>2, <4>2 DEF Flights
      <4>5. query'[q].no = NoPaper => Submittable(f, form, cached)
        BY <1>2, <4>1 DEF Submittable
      <4>6. Saving(query'[q], f)
        BY <1>2, <3>4
      <4> QED
        BY <3>2, <4>1, <4>3, <4>4, <4>5, <4>6 DEF Flights
    <3> QED
      BY <3>3, <3>4
  <2> QED
    BY <2>2, <2>3, <2>4
<1> QED
  BY <1>1, <1>4, <1>5

\* What the form is after an answer is no new chance to save what was saved.
LEMMA FormOpened ==
  ASSUME PInv, OInv, page # "order", NEW q \in Queries, FormAfter(q)
  PROVE  /\ page = "inbox" => form'.of = NoPaper
         /\ \A f \in Fillings : form'.of = f => \/ form.of = f
                                                \/ Opens(page, query[q]) /\ query[q].of = f
         /\ \A f \in Fillings :
              form'.no = NoPaper /\ form'.of = f /\ ~(form.no = NoPaper /\ form.of = f)
                => Unfiled(f, row)
<1>0. /\ Orderly(page, form, cached, query)
      /\ \A f \in Fillings : Openings(f, page, form, cached, query, row)
  BY DEF OInv
<1>1. CASE Kept
  BY <1>0, <1>1 DEF Kept, Orderly
<1>2. CASE form'.of = NoPaper
  BY <1>2, NoPaperFacts
<1>3. CASE Opens(page, query[q]) /\ form'.of = query[q].of
  BY <1>0, <1>3 DEF Openings, Opens, Screen!WithApproval
<1>4. CASE /\ form'.no = query[q].no /\ form'.of = form.of
           /\ page = "inbox" \/ (query[q].op = "raise" /\ Screen!Ok(q))
  <2>1. CASE page = "inbox"
    BY <1>0, <1>4, <2>1, NoPaperFacts DEF Orderly
  <2>2. CASE query[q].op = "raise" /\ Screen!Ok(q)
    <3>1. form'.no \in Papers
      BY <1>0, <1>4, <2>2 DEF Orderly, Screen!Saves, Screen!Ok
    <3> QED
      BY <1>0, <1>4, <3>1, NoPaperFacts DEF Orderly
  <2> QED
    BY <1>4, <2>1, <2>2
<1> QED
  BY <1>1, <1>2, <1>3, <1>4 DEF FormAfter

LEMMA HandlesOInv ==
  ASSUME PInv, OInv, NEW q \in Queries, Handles(q)
  PROVE  OInv'
<1> SUFFICES ASSUME page # "order"
             PROVE  /\ Orderly(page, form', cached', query')
                    /\ \A f \in Fillings \ excused' :
                         Flights(f, page, busy', form', cached', query', row)
                    /\ \A f \in Fillings : Openings(f, page, form', cached', query', row)
  BY DEF OInv, Handles
<1>0. /\ Orderly(page, form, cached, query)
      /\ \A f \in Fillings \ excused : Flights(f, page, busy, form, cached, query, row)
      /\ \A f \in Fillings : Openings(f, page, form, cached, query, row)
  BY DEF OInv
<1>1. PICK w \in Calls : /\ Becomes(q, w) /\ (w.phase = "idle" => w = Screen!NoQuery)
                         /\ w.op \notin Screen!Saves /\ ~Opens(page, w)
                         /\ w.of \in {NoPaper, query[q].of}
  BY DEF Handles, CallAfter
<1>2. \A p \in Queries : query'[p] = IF p = q THEN w ELSE query[p]
  BY <1>1, Called
<1>3. /\ page = "inbox" => form'.of = NoPaper
      /\ \A f \in Fillings : form'.of = f => \/ form.of = f
                                             \/ Opens(page, query[q]) /\ query[q].of = f
      /\ \A f \in Fillings :
           form'.no = NoPaper /\ form'.of = f /\ ~(form.no = NoPaper /\ form.of = f)
             => Unfiled(f, row)
  BY FormOpened DEF Handles
<1>4. cached' = cached \/ (page = "draft" /\ cached' = NoPaper)
  BY DEF Handles, FlagAfter
<1>5. Orderly(page, form', cached', query')
  BY <1>0, <1>1, <1>2, <1>3, <1>4 DEF Orderly
<1>6. ASSUME NEW f \in Fillings PROVE Openings(f, page, form', cached', query', row)
  <2> SUFFICES ASSUME NEW p \in Queries, Opens(page, query'[p]), query'[p].of = f
               PROVE  /\ Unfiled(f, row) /\ form'.of # f /\ cached' # f
                      /\ \A o \in Queries \ {p} : query'[o].of # f
    BY DEF Openings
  <2>1. p # q /\ query'[p] = query[p]
    BY <1>1, <1>2
  <2>2. /\ Unfiled(f, row) /\ form.of # f /\ cached # f
        /\ \A o \in Queries \ {p} : query[o].of # f
    BY <1>0, <2>1 DEF Openings
  <2>3. form'.of # f /\ cached' # f
    BY <1>3, <1>4, <2>1, <2>2, NoPaperFacts
  <2>4. \A o \in Queries \ {p} : query'[o].of # f
    BY <1>1, <1>2, <2>1, <2>2, NoPaperFacts
  <2> QED
    BY <2>2, <2>3, <2>4
<1>7. ASSUME NEW f \in Fillings \ excused'
      PROVE  Flights(f, page, busy', form', cached', query', row)
  <2>1. /\ f \notin excused
        /\ (busy => busy') \/ f \notin Screen!SavedOf(Queries \ {q})
        /\ query[q].op \in Screen!Saves /\ ~Screen!Ok(q) => f \notin Screen!SavedOf({q})
    <3>1. /\ f \in Fillings /\ f \notin excused' /\ excused \subseteq Fillings
          /\ busy' = busy => (busy => busy')
      BY <1>7, Types
    <3>2. CASE Screen!Release(q)
      BY <3>1, <3>2 DEF Screen!Release
    <3>3. CASE Screen!Failure(q) /\ busy' = busy
      BY <3>1, <3>3 DEF Screen!Failure
    <3>4. CASE UNCHANGED <<busy, excused>> /\ query[q].op \notin Screen!Saves
      BY <3>1, <3>4
    <3> QED
      BY <3>2, <3>3, <3>4 DEF Handles, FlagAfter
  <2>2. Flights(f, page, busy, form, cached, query, row)
    BY <1>0, <2>1
  <2>3. \A p \in Queries : Saving(query[p], f) => query[p].phase # "idle"
    BY IdleCall DEF Saving, Screen!Saves
  <2>4. CASE Saving(query[q], f)
    <3>1. \A p \in Queries : ~Saving(query'[p], f)
      BY <1>1, <1>2, <2>2, <2>4 DEF Flights, Saving
    <3>2. Screen!Ok(q)
      BY <2>1, <2>3, <2>4 DEF Screen!SavedOf, Saving
    <3>3. query[q].no \in Papers
      BY <1>0, <2>4, <3>2 DEF Orderly, Saving, Screen!Ok
    <3>4. /\ form'.of = NoPaper \/ form'.no = query[q].no
          /\ page = "draft" => cached' = NoPaper
      BY <2>4, <3>2, NoPaperFacts DEF Handles, FlagAfter, Saving
    <3>5. ~Submittable(f, form', cached')
      BY <1>0, <1>4, <3>3, <3>4, NoPaperFacts DEF Submittable, Orderly
    <3> QED
      BY <2>2, <3>1, <3>5 DEF Flights
  <2>5. CASE ~Saving(query[q], f)
    <3>1. \A p \in Queries : /\ Saving(query'[p], f) <=> Saving(query[p], f)
                             /\ Saving(query'[p], f) => query'[p] = query[p]
      BY <1>1, <1>2, <2>5 DEF Saving
    <3>2. Submittable(f, form', cached') => Submittable(f, form, cached) \/ Unfiled(f, row)
      BY <1>3, <1>4, NoPaperFacts DEF Submittable
    <3>3. CASE busy => busy'
      BY <2>2, <3>1, <3>2, <3>3, SameFlights
    <3>4. CASE f \notin Screen!SavedOf(Queries \ {q})
      <4>1. \A p \in Queries : ~Saving(query[p], f)
        BY <2>3, <2>5, <3>4 DEF Screen!SavedOf, Saving
      <4> QED
        BY <2>2, <3>1, <3>2, <4>1 DEF Flights
    <3> QED
      BY <2>1, <3>3, <3>4
  <2> QED
    BY <2>4, <2>5
<1> QED
  BY <1>5, <1>6, <1>7

LEMMA TurnsOInv ==
  ASSUME PInv, OInv, Turns
  PROVE  OInv'
<1> SUFFICES ASSUME page # "order"
             PROVE  /\ Orderly(page, form', cached', query)
                    /\ \A f \in Fillings \ excused' :
                         Flights(f, page, busy, form', cached', query, row)
                    /\ \A f \in Fillings : Openings(f, page, form', cached', query, row)
  BY DEF OInv, Turns
<1>0. /\ Orderly(page, form, cached, query)
      /\ \A f \in Fillings \ excused : Flights(f, page, busy, form, cached, query, row)
      /\ \A f \in Fillings : Openings(f, page, form, cached, query, row)
      /\ UNCHANGED <<page, busy, query, row>>
  BY DEF OInv, Turns
<1>1. CASE NewForm
  <2>1. PICK f0 \in Screen!Unused : form'.of = f0 /\ excused' = excused \ {f0}
    BY <1>1 DEF NewForm
  <2>2. /\ f0 \in Fillings /\ Unfiled(f0, row) /\ form.of # f0 /\ cached # f0
        /\ \A p \in Queries : query[p].of # f0
    BY UnusedIsNew
  <2>3. page # "inbox" /\ (cached' = cached \/ (page = "draft" /\ cached' = NoPaper))
    BY <1>1 DEF NewForm
  <2>4. Orderly(page, form', cached', query)
    BY <1>0, <2>3 DEF Orderly
  <2>5. ASSUME NEW f \in Fillings \ excused' PROVE Flights(f, page, busy, form', cached', query, row)
    <3>1. CASE f = f0
      BY <2>2, <3>1 DEF Flights, Saving, Unfiled
    <3>2. CASE f # f0
      <4>1. Submittable(f, form', cached') => Submittable(f, form, cached)
        BY <2>1, <2>3, <3>2, NoPaperFacts DEF Submittable
      <4>2. Flights(f, page, busy, form, cached, query, row)
        BY <1>0, <2>1, <2>5, <3>2
      <4> QED
        BY <1>0, <4>1, <4>2, SameFlights
    <3> QED
      BY <3>1, <3>2
  <2>6. ASSUME NEW f \in Fillings PROVE Openings(f, page, form', cached', query, row)
    BY <1>0, <2>1, <2>2, <2>3, NoPaperFacts DEF Openings
  <2> QED
    BY <2>4, <2>5, <2>6
<1>2. CASE OldForm
  <2>1. /\ form'.of = NoPaper \/ (form'.of = form.of /\ form'.no = form.no)
        /\ excused' = excused /\ cached' = cached
    BY <1>2 DEF OldForm, Kept
  <2>2. Orderly(page, form', cached', query)
    BY <1>0, <2>1 DEF Orderly
  <2>3. ASSUME NEW f \in Fillings \ excused' PROVE Flights(f, page, busy, form', cached', query, row)
    <3>1. Submittable(f, form', cached') => Submittable(f, form, cached)
      BY <2>1, NoPaperFacts DEF Submittable
    <3> QED
      BY <1>0, <2>1, <3>1, SameFlights
  <2>4. ASSUME NEW f \in Fillings PROVE Openings(f, page, form', cached', query, row)
    BY <1>0, <2>1, NoPaperFacts DEF Openings
  <2> QED
    BY <2>2, <2>3, <2>4
<1>3. CASE Cache
  <2>1. page = "draft" /\ excused' = excused
    BY <1>3 DEF Cache
  <2>2. \A f \in Fillings : Submittable(f, form', cached') => Submittable(f, form, cached)
    BY <1>3 DEF Cache, Submittable, Kept
  <2>3. Orderly(page, form', cached', query)
    BY <1>0, <2>1 DEF Orderly
  <2>4. ASSUME NEW f \in Fillings \ excused' PROVE Flights(f, page, busy, form', cached', query, row)
    BY <1>0, <2>1, <2>2, SameFlights
  <2>5. ASSUME NEW f \in Fillings PROVE Openings(f, page, form', cached', query, row)
    BY <2>1 DEF Openings, Opens, Screen!WithApproval
  <2> QED
    BY <2>3, <2>4, <2>5
<1> QED
  BY <1>1, <1>2, <1>3 DEF Turns

\* The server, and others, which leave the calls alone.
LEMMA FilesOInv ==
  ASSUME PInv, OInv, NEW q \in Queries, Files(q)
  PROVE  OInv'
<1> SUFFICES ASSUME page # "order"
             PROVE  /\ Orderly(page, form, cached, query')
                    /\ \A f \in Fillings \ excused :
                         Flights(f, page, busy, form, cached, query', row')
                    /\ \A f \in Fillings : Openings(f, page, form, cached, query', row')
  BY DEF OInv, Files
<1>0. /\ Orderly(page, form, cached, query)
      /\ \A f \in Fillings \ excused : Flights(f, page, busy, form, cached, query, row)
      /\ \A f \in Fillings : Openings(f, page, form, cached, query, row)
  BY DEF OInv
<1>1. /\ \A p \in Queries \ {q} : query'[p] = query[p]
      /\ query'[q].op = query[q].op /\ query'[q].of = query[q].of
      /\ query[q].phase = "sent" /\ query'[q].phase \in {"ok", "failed"}
      /\ query[q].op \in Screen!Saves /\ query'[q].phase = "ok" => query'[q].no \in Papers
  BY DEF Files
<1>2. Orderly(page, form, cached, query')
  BY <1>0, <1>1 DEF Orderly
<1>3. /\ \A p \in Queries : Opens(page, query'[p]) <=> Opens(page, query[p])
      /\ \A f : \A p \in Queries : Saving(query'[p], f) <=> Saving(query[p], f)
      /\ \A p \in Queries : query'[p].of = query[p].of
      /\ \A p \in Queries : query'[p].phase = "sent" => p # q /\ query'[p] = query[p]
  BY <1>1 DEF Opens, Saving
<1>4. CASE \A d \in Papers : row'[d].from = row[d].from
  <2>1. \A f : Unfiled(f, row') <=> Unfiled(f, row)
    BY <1>4 DEF Unfiled
  <2>2. ASSUME NEW f \in Fillings \ excused PROVE Flights(f, page, busy, form, cached, query', row')
    BY <1>0, <1>3, <1>4, <2>1 DEF Flights
  <2>3. ASSUME NEW f \in Fillings PROVE Openings(f, page, form, cached, query', row')
    BY <1>0, <1>3, <2>1 DEF Openings
  <2> QED
    BY <1>2, <2>2, <2>3
<1>5. CASE /\ query[q].op \in Screen!Saves /\ query[q].no = NoPaper
           /\ \E d \in Papers : \A e \in Papers :
                row'[e].from = IF e = d THEN query[q].of ELSE row[e].from
  <2>1. PICK d \in Papers : \A e \in Papers :
          row'[e].from = IF e = d THEN query[q].of ELSE row[e].from
    BY <1>5
  <2>2. \A f : f # query[q].of /\ Unfiled(f, row) => Unfiled(f, row')
    BY <2>1 DEF Unfiled
  <2>3. ASSUME NEW f \in Fillings \ excused PROVE Flights(f, page, busy, form, cached, query', row')
    <3>0. Flights(f, page, busy, form, cached, query, row)
      BY <1>0
    <3>1. CASE f = query[q].of
      <4>1. Saving(query[q], f)
        BY <1>5, <3>1 DEF Saving
      <4>2. Unfiled(f, row) /\ \A p \in Queries : Saving(query[p], f) => p = q
        BY <1>1, <1>5, <3>0, <4>1 DEF Flights
      <4>3. \A e \in Papers : row'[e].from = f => e = d
        BY <2>1, <4>2 DEF Unfiled
      <4>4. Saving(query'[q], f) /\ query'[q].phase # "sent"
        BY <1>1, <1>3, <4>1
      <4>5. \A p \in Queries : Saving(query'[p], f) => (busy \/ page = "request") /\ p = q
        BY <1>3, <3>0, <4>2 DEF Flights
      <4> QED
        BY <4>3, <4>4, <4>5 DEF Flights
    <3>2. CASE f # query[q].of
      <4>1. \A e, c \in Papers : row'[c].from = f /\ row'[e].from = f => c = e
        BY <2>1, <3>0, <3>2 DEF Flights
      <4> QED
        BY <1>3, <2>2, <3>0, <3>2, <4>1 DEF Flights
    <3> QED
      BY <3>1, <3>2
  <2>4. ASSUME NEW f \in Fillings PROVE Openings(f, page, form, cached, query', row')
    <3> SUFFICES ASSUME NEW p \in Queries, Opens(page, query[p]), query[p].of = f
                 PROVE  /\ Unfiled(f, row') /\ form.of # f /\ cached # f
                        /\ \A o \in Queries \ {p} : query'[o].of # f
      BY <1>3 DEF Openings
    <3>1. /\ Unfiled(f, row) /\ form.of # f /\ cached # f
          /\ \A o \in Queries \ {p} : query[o].of # f
      BY <1>0 DEF Openings
    <3>2. p # q
      BY <1>5 DEF Opens, Screen!Saves
    <3> QED
      BY <1>3, <2>2, <3>1, <3>2
  <2> QED
    BY <1>2, <2>3, <2>4
<1> QED
  BY <1>4, <1>5 DEF Files

LEMMA ElsewhereOInv == ASSUME PInv, OInv, Screen!Elsewhere PROVE OInv'
<1>1. /\ \A d \in Papers : row'[d].from = row[d].from
      /\ UNCHANGED <<page, form, busy, modal, query, excused, cached>>
  BY ElsewhereMoves DEF Screen!Elsewhere
<1>2. \A f : Unfiled(f, row') <=> Unfiled(f, row)
  BY <1>1 DEF Unfiled
<1> QED
  BY <1>1, <1>2 DEF OInv, Orderly, Flights, Openings

LEMMA PagesNextOInv == PInv /\ OInv /\ Screen!PagesNext => OInv'
  BY HandleMoves, TurnMoves, ServeMoves, AsksOInv, HandlesOInv, TurnsOInv, FilesOInv, ElsewhereOInv
     DEF Screen!PagesNext, Screen!UserTurn, Screen!Answered, Screen!GoesOn

\* What was filled in once becomes one document on every screen but that of
\* orders, through the buttons a screen disables (isLoading): two only if the
\* first answer was an error, a second handler cleared the flag while the first
\* save was under way or, on the screen of requests, which disables none, the
\* user saved again before the answer.
THEOREM OneDocumentForEachFilling == ScreensSpec => []OneDocumentPerFilling
<1> DEFINE ScreensOInv == subject = "screen" => OInv
<1>1. ScreensInit => ScreensOInv
  BY InitOInv DEF ScreensInit
<1>2. ScreensPInv /\ ScreensOInv /\ [ScreensNext]_allVars => ScreensOInv'
  <2> SUFFICES ASSUME ScreensPInv, ScreensOInv, [ScreensNext]_allVars PROVE ScreensOInv'
    OBVIOUS
  <2>1. CASE subject = "ledger" /\ Next /\ UNCHANGED <<subject, pageVars>>
    BY <2>1
  <2>2. CASE subject = "screen" /\ Screen!PagesNext /\ UNCHANGED <<subject, vars>>
    BY <2>2, PagesNextOInv DEF ScreensPInv
  <2>3. CASE UNCHANGED allVars
    BY <2>3 DEF allVars, pageVars, OInv
  <2> QED
    BY <2>1, <2>2, <2>3 DEF ScreensNext
<1>3. ScreensPInv /\ ScreensOInv => OneDocumentPerFilling
  BY OInvOne DEF OneDocumentPerFilling, ScreensPInv
<1> QED
  BY <1>1, <1>2, <1>3, ScreensInvariance, PTL DEF ScreensSpec, allVars

=============================================================================
