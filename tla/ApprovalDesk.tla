----------------------------- MODULE ApprovalDesk -----------------------------
(***************************************************************************)
(* What the approval service promises about documents and approvals: every *)
(* call checks and writes at one instant.  A draft is saved with its items,*)
(* an approval together with the status of its document, and a decision is *)
(* taken at the step that waits for it.  What the service does not promise *)
(* is the rest of a row that repository.save writes from an old copy: see  *)
(* Leftovers and Remainders.                                               *)
(***************************************************************************)
EXTENDS Naturals, Sequences

CONSTANTS
  Docs, Records, NoDoc,
  Approvals,
  Targets,       \* documents an approval may be raised for
  Lines,         \* the lines of approvers a drafter may send
  Bodies         \* contents of a document

VARIABLES doc, items, approval, lastChecked

deskVars == <<doc, items, approval, lastChecked>>

AnyBody == CHOOSE b \in Bodies : TRUE

Init ==
  /\ doc = [d \in Docs |->
       [status |-> "none", deleted |-> FALSE, header |-> AnyBody]]
  /\ items = [d \in Docs |-> AnyBody]
  /\ approval = [a \in Approvals |->
       [status |-> "none", deleted |-> FALSE, ref |-> NoDoc,
        line |-> <<>>, result |-> <<>>]]
  /\ lastChecked = NoDoc

-----------------------------------------------------------------------------
(***************************************************************************)
(* Documents.                                                              *)
(***************************************************************************)
Live(d) == doc[d].status # "none" /\ ~doc[d].deleted
Draft(d) == doc[d].status = "T" /\ ~doc[d].deleted

\* What a call leaves of its row is stated of doc'[d] or approval'[a]: the
\* other rows stay as they are.
OnlyDoc(d) == doc' = [doc EXCEPT ![d] = doc'[d]]
OnlyApproval(a) == approval' = [approval EXCEPT ![a] = approval'[a]]

\* A draft is created or edited: the header and the items of one request.
Write(d) ==
  /\ doc[d].status = "none" \/ Draft(d)
  /\ doc'[d] = [status |-> "T", deleted |-> FALSE, header |-> items'[d]]
  /\ OnlyDoc(d) /\ items' = [items EXCEPT ![d] = items'[d]]
  /\ UNCHANGED <<approval, lastChecked>>

\* What the deletion of a document may leave besides its being deleted.
Remainders(d) ==
  [status: {"T", doc[d].status}, deleted: {TRUE}, header: Bodies]

\* A record is deleted while it is a draft; any other document at a moment
\* at which it may be one no more.
Remove(d) ==
  /\ IF d \in Records
     THEN Draft(d) /\ doc'[d] = [doc[d] EXCEPT !.deleted = TRUE]
     ELSE doc[d].status # "none" /\ doc'[d] \in Remainders(d)
  /\ OnlyDoc(d)
  /\ UNCHANGED <<items, approval, lastChecked>>

-----------------------------------------------------------------------------
(***************************************************************************)
(* Approvals.                                                              *)
(***************************************************************************)
\* Documents that one approval at most may be raised for.
Sole == {d \in Docs : \A a, b \in Approvals :
           d \in Targets[a] /\ d \in Targets[b] => a = b}

\* What the save of a record may leave of it, which is to have this status.
\* The status is promised of a record with one approval, and the content
\* when that record is in approval.
Leftovers(d, status) ==
  [status: IF d \in Sole THEN {status} ELSE {status, doc[d].status},
   deleted: BOOLEAN,
   header: IF d \in Sole /\ doc[d].status = "P" THEN {doc[d].header} ELSE Bodies]

\* The document of an approval takes its status.
Mark(d, status) ==
  \/ d = NoDoc /\ UNCHANGED <<doc, lastChecked>>
  \/ /\ d \in Docs \ Records /\ Live(d)
     /\ doc'[d] = [doc[d] EXCEPT !.status = status] /\ OnlyDoc(d)
     /\ UNCHANGED lastChecked
  \/ /\ d \in Records /\ doc[d].status # "none"
     /\ doc'[d] \in Leftovers(d, status) /\ OnlyDoc(d)
     /\ lastChecked' = IF status = "C" THEN d ELSE lastChecked

Savable(a) == approval[a].status \in {"none", "T"} /\ ~approval[a].deleted

\* e is approval a as a drafter may send it.
Fresh(a, e, status, lines) ==
  /\ e.ref \in Targets[a] /\ e.line \in lines
  /\ e = [status |-> status, deleted |-> FALSE, ref |-> e.ref, line |-> e.line,
          result |-> [i \in DOMAIN e.line |-> "none"]]

\* The draft of an approval is saved, with a line or without, or deleted.
Filed(a, e) ==
  /\ Savable(a) /\ e.status = "T"
  /\ \/ Fresh(a, e, "T", Lines \union {<<>>})
     \/ approval[a].status = "T" /\ e = [approval[a] EXCEPT !.deleted = TRUE]

\* It is raised for a document.
Raised(a, e) == Savable(a) /\ e.status = "P" /\ Fresh(a, e, "P", Lines)

\* It waits for step i, when all before have agreed.
Waiting(a, i) ==
  /\ approval[a].status = "P" /\ ~approval[a].deleted
  /\ approval[a].result[i] = "none"
  /\ \A j \in 1..(i - 1) : approval[a].result[j] = "yes"

Outcome(a, i, result) ==
  IF result = "no" THEN "R"
  ELSE IF i = Len(approval[a].result) THEN "C" ELSE "P"

\* It is decided there.
Decided(a, e) ==
  \E i \in DOMAIN approval[a].result :
    /\ Waiting(a, i)
    /\ \E result \in {"yes", "no"} :
         e = [approval[a] EXCEPT !.result[i] = result,
                                 !.status = Outcome(a, i, result)]

File(a) ==
  /\ Filed(a, approval'[a]) /\ OnlyApproval(a)
  /\ UNCHANGED <<doc, items, lastChecked>>

\* Every change of the status is one of the document, at the same instant.
Raise(a) ==
  /\ Raised(a, approval'[a]) /\ OnlyApproval(a)
  /\ Mark(approval'[a].ref, "P")
  /\ UNCHANGED items

Decide(a) ==
  /\ Decided(a, approval'[a]) /\ OnlyApproval(a)
  /\ IF approval'[a].status = "P" THEN UNCHANGED <<doc, lastChecked>>
     ELSE Mark(approval'[a].ref, approval'[a].status)
  /\ UNCHANGED items

-----------------------------------------------------------------------------
\* A call that is refused or fails has no effect.
Refuse == UNCHANGED deskVars

Next ==
  \/ Refuse
  \/ \E a \in Approvals : File(a) \/ Raise(a) \/ Decide(a)
  \/ \E d \in Docs : Write(d) \/ Remove(d)

Spec == Init /\ [][Next]_deskVars
=============================================================================
