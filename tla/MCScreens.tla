------------------------------ MODULE MCScreens ------------------------------
(***************************************************************************)
(* StockLedger and Pages on small instances.  A screen sees a call of it   *)
(* only start and end, so a behaviour is about the ledger or about one     *)
(* screen, the subject.                                                    *)
(***************************************************************************)
EXTENDS MCStockLedger

CONSTANTS Queries, Papers, NoPaper, Fillings, MaxTurns

VARIABLES subject, page, form, busy, modal, query, row, excused, cached, turns

\* One turn more on the screens with the least to do.
MCMaxTurns == [s \in {"inbox", "post", "request"} |-> 5]
              @@ [s \in {"workOrder", "workPermit", "maintenance", "order", "draft",
                         "stock"} |-> 4]

Screen == INSTANCE Pages
ASSUME ScreenAssumption == Screen!PaperNames /\ MaxTurns \in [Screen!Screens -> Nat]
pageVars == <<page, form, busy, modal, query, row, excused, cached, turns>>

ScreensInit ==
  /\ Init
  /\ \/ subject = "screen" /\ Screen!PagesInit
     \/ /\ subject = "ledger" /\ page = {} /\ form = {} /\ busy = {} /\ modal = {}
        /\ query = {} /\ row = {} /\ excused = {} /\ cached = {} /\ turns = {}

ScreensNext ==
  \/ subject = "ledger" /\ Next /\ UNCHANGED <<subject, pageVars>>
  \/ subject = "screen" /\ Screen!PagesNext /\ UNCHANGED <<subject, vars>>

\* PagesFairness, when there is a screen.
ScreensFairness ==
  \A q \in Queries : /\ WF_pageVars(subject = "screen" /\ Screen!Answered(q))
                    /\ WF_pageVars(subject = "screen" /\ Screen!GoesOn(q))

ScreensSpec == ScreensInit /\ [][ScreensNext]_<<subject, vars, pageVars>> /\ ScreensFairness

\* The type invariants of StockLedger and Pages.
ScreensTypeOK == TypeOK /\ (subject = "screen" => Screen!PagesTypeOK)
\* Properties of Pages, stated there.
OneDocumentPerFilling == subject = "screen" => Screen!OneDocumentPerFilling
ScreenSettles ==
  (subject = "screen" /\ busy) ~> (subject = "screen" /\ Screen!Settled)
=============================================================================
