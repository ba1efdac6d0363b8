------------------------------ MODULE Documents ------------------------------
(***************************************************************************)
(* Approvals and the documents they are raised for: approval.service.ts    *)
(* with the drafts of work-order, work-permit, pm and procurement.         *)
(*                                                                         *)
(* A document is a work order, work permit or purchase request, or, in     *)
(* Records, a PM record: records are deleted under their lock, and an      *)
(* approval reads and saves them where it issues an UPDATE for the others. *)
(* Owners and permissions are left out, as are the steps of an approval    *)
(* line that decide nothing.                                               *)
(***************************************************************************)
EXTENDS Clients, Naturals, Sequences

CONSTANTS
  Docs, Records, NoDoc,
  Approvals, NoApproval,
  Targets,           \* documents an approval may be raised for
  Lines,             \* the lines of approvers a drafter may send
  Bodies             \* contents of a document

ASSUME NameAssumption ==
  NoDoc \notin Docs /\ NoApproval \notin Approvals
ASSUME DocumentAssumption ==
  /\ Records \subseteq Docs /\ Bodies # {}
  /\ Targets \in [Approvals -> SUBSET (Docs \union {NoDoc})]
  /\ Lines \subseteq Seq(Users) \ {<<>>}

VARIABLES
  doc,          \* header row of a document, committed
  items,        \* its item rows: the content they were saved with
  approval,     \* approval and approval_step rows, committed
  lastChecked,  \* equipment_check_cycle: the record that set it
  docLock, approvalLock,   \* FOR UPDATE
  pc, on, doing,\* per call: where it is, its document, its approval
  content,      \* per call: what it saves in the document
  next,         \* per call: the approval it will commit
  copy,         \* per call: the entity findOne returned, as changed since
  columns       \* per call: the columns repository.save will write

dbVars == <<doc, items, approval, lastChecked>>
locks == <<docLock, approvalLock>>
callVars == <<pc, on, doing, content, next, copy, columns>>
vars == <<dbVars, locks, callVars>>

Results == {"none", "yes", "no"}
Entity == [status: {"none", "T", "P", "C", "R"}, deleted: BOOLEAN, header: Bodies]
Approval == [status: {"none", "T", "P", "C", "R"}, deleted: BOOLEAN,
             ref: Docs \union {NoDoc}, line: Seq(Users), result: Seq(Results)]
AnyBody == CHOOSE b \in Bodies : TRUE
Absent == [status |-> "none", deleted |-> FALSE, header |-> AnyBody]
NotRaised == [status |-> "none", deleted |-> FALSE, ref |-> NoDoc,
              line |-> <<>>, result |-> <<>>]
Phases == {"idle", "edit", "deleteRecord", "deleteSelect", "deleteSave",
           "link", "linkSelect", "linkSave", "commit"}

TypeOK ==
  /\ doc \in [Docs -> Entity]
  /\ items \in [Docs -> Bodies]
  /\ approval \in [Approvals -> Approval]
  /\ lastChecked \in Records \union {NoDoc}
  /\ docLock \in [Docs -> Calls \union {NoCall}]
  /\ approvalLock \in [Approvals -> Calls \union {NoCall}]
  /\ pc \in [Calls -> Phases]
  /\ on \in [Calls -> Docs \union {NoDoc}]
  /\ doing \in [Calls -> Approvals \union {NoApproval}]
  /\ content \in [Calls -> Bodies]
  /\ next \in [Calls -> Approval]
  /\ copy \in [Calls -> Entity]
  /\ columns \in [Calls -> SUBSET {"status", "deleted", "header"}]

Init ==
  /\ doc = [d \in Docs |-> Absent]
  /\ items = [d \in Docs |-> AnyBody]
  /\ approval = [a \in Approvals |-> NotRaised]
  /\ lastChecked = NoDoc
  /\ docLock = [d \in Docs |-> NoCall]
  /\ approvalLock = [a \in Approvals |-> NoCall]
  /\ pc = [c \in Calls |-> "idle"]
  /\ on = [c \in Calls |-> NoDoc]
  /\ doing = [c \in Calls |-> NoApproval]
  /\ content = [c \in Calls |-> AnyBody]
  /\ next = [c \in Calls |-> NotRaised]
  /\ copy = [c \in Calls |-> Absent]
  /\ columns = [c \in Calls |-> {}]

-----------------------------------------------------------------------------
\* A call ends, and with it its transaction's locks.
End(c) ==
  /\ pc' = [pc EXCEPT ![c] = "idle"]
  /\ on' = [on EXCEPT ![c] = NoDoc]
  /\ doing' = [doing EXCEPT ![c] = NoApproval]
  /\ content' = [content EXCEPT ![c] = AnyBody]
  /\ next' = [next EXCEPT ![c] = NotRaised]
  /\ copy' = [copy EXCEPT ![c] = Absent]
  /\ columns' = [columns EXCEPT ![c] = {}]
  /\ docLock' = [d \in Docs |-> IF docLock[d] = c THEN NoCall ELSE docLock[d]]
  /\ approvalLock' = [a \in Approvals |->
       IF approvalLock[a] = c THEN NoCall ELSE approvalLock[a]]

\* A refusal, an error, a lock timeout or the end of the process.
Fail(c) == pc[c] # "idle" /\ End(c) /\ UNCHANGED dbVars

Start(c, phase) == pc[c] = "idle" /\ pc' = [pc EXCEPT ![c] = phase]

Live(d) == doc[d].status # "none" /\ ~doc[d].deleted

\* Mutant of IsDraft: a rejected document can be edited again.
IsDraftOrRejected(d) == doc[d].status \in {"T", "R"} /\ ~doc[d].deleted

IsDraft(d) == doc[d].status = "T" /\ ~doc[d].deleted

-----------------------------------------------------------------------------
(***************************************************************************)
(* Drafts.                                                                 *)
(***************************************************************************)
\* Mutant of Create: the status the request asks for is stored.
CreateEnded(d, b) ==
  /\ doc[d].status = "none"
  /\ doc' = [doc EXCEPT ![d] = [status |-> "E", deleted |-> FALSE, header |-> b]]
  /\ items' = [items EXCEPT ![d] = b]
  /\ UNCHANGED <<approval, lastChecked, locks, callVars>>

\* saveDraft of a new document: nobody sees it before it is committed.
Create(d, b) ==
  /\ doc[d].status = "none"
  /\ doc' = [doc EXCEPT ![d] = [status |-> "T", deleted |-> FALSE, header |-> b]]
  /\ items' = [items EXCEPT ![d] = b]
  /\ UNCHANGED <<approval, lastChecked, locks, callVars>>

\* Mutant of LockDoc: the document is read without a lock.
ReadDoc(c, d) ==
  /\ docLock[d] = NoCall /\ IsDraft(d)
  /\ on' = [on EXCEPT ![c] = d]
  /\ UNCHANGED <<dbVars, locks, doing, next, copy, columns>>

LockDoc(c, d) ==
  /\ docLock[d] = NoCall /\ IsDraft(d)
  /\ docLock' = [docLock EXCEPT ![d] = c]
  /\ on' = [on EXCEPT ![c] = d]
  /\ UNCHANGED <<dbVars, approvalLock, doing, next, copy, columns>>

\* saveDraft of an existing one: lock, replace the header and the items.
LockDraft(c, d, b) ==
  /\ Start(c, "edit") /\ LockDoc(c, d)
  /\ content' = [content EXCEPT ![c] = b]

\* Mutant of Edit: the old items are kept.
EditHeader(c) ==
  /\ pc[c] = "edit"
  /\ doc' = [doc EXCEPT ![on[c]] =
       [status |-> "T", deleted |-> FALSE, header |-> content[c]]]
  /\ End(c)
  /\ UNCHANGED <<items, approval, lastChecked>>

Edit(c) ==
  /\ pc[c] = "edit"
  /\ doc' = [doc EXCEPT ![on[c]] =
       [status |-> "T", deleted |-> FALSE, header |-> content[c]]]
  /\ items' = [items EXCEPT ![on[c]] = content[c]]
  /\ End(c)
  /\ UNCHANGED <<approval, lastChecked>>

\* deletePmRecord.
LockRecord(c, d) ==
  d \in Records /\ Start(c, "deleteRecord") /\ LockDoc(c, d) /\ UNCHANGED content

DeleteRecord(c) ==
  /\ pc[c] = "deleteRecord"
  /\ doc' = [doc EXCEPT ![on[c]].deleted = TRUE]
  /\ End(c)
  /\ UNCHANGED <<items, approval, lastChecked>>

\* deleteWorkOrder, deleteWorkPermit, deleteRequest: findOne without a lock,
\* then repository.save, which reads the row again and updates the columns
\* in which the entity differs from it.
FindDraft(c, d) ==
  /\ d \notin Records /\ IsDraft(d) /\ Start(c, "deleteSelect")
  /\ on' = [on EXCEPT ![c] = d]
  /\ copy' = [copy EXCEPT ![c] = [doc[d] EXCEPT !.deleted = TRUE]]
  /\ UNCHANGED <<dbVars, locks, doing, content, next, columns>>

Differing(c, d) == {f \in DOMAIN Absent : copy[c][f] # doc[d][f]}

Written(c, d) ==
  [f \in DOMAIN Absent |-> IF f \in columns[c] THEN copy[c][f] ELSE doc[d][f]]

Select(c, from, to) ==
  /\ pc[c] = from /\ pc' = [pc EXCEPT ![c] = to]
  /\ columns' = [columns EXCEPT ![c] = Differing(c, on[c])]
  /\ UNCHANGED <<dbVars, locks, on, doing, content, next, copy>>

DeleteSelect(c) == Select(c, "deleteSelect", "deleteSave")

DeleteSave(c) ==
  /\ pc[c] = "deleteSave" /\ docLock[on[c]] = NoCall
  /\ doc' = [doc EXCEPT ![on[c]] = Written(c, on[c])]
  /\ End(c)
  /\ UNCHANGED <<items, approval, lastChecked>>

-----------------------------------------------------------------------------
(***************************************************************************)
(* Approvals.  Each call is one transaction that holds the approval.       *)
(***************************************************************************)
\* Mutant of LockApproval: the approval is read without a lock.
ReadApproval(c, a) == UNCHANGED approvalLock

LockApproval(c, a) ==
  /\ approvalLock[a] = NoCall
  /\ approvalLock' = [approvalLock EXCEPT ![a] = c]

\* The approval is written; with a document to update, that comes next.
Prepare(c, a, entity, linked) ==
  /\ Start(c, IF linked /\ entity.ref # NoDoc THEN "link" ELSE "commit")
  /\ LockApproval(c, a)
  /\ doing' = [doing EXCEPT ![c] = a]
  /\ on' = [on EXCEPT ![c] = IF linked THEN entity.ref ELSE NoDoc]
  /\ next' = [next EXCEPT ![c] = entity]
  /\ UNCHANGED <<dbVars, docLock, content, copy, columns>>

Undecided(line) == [i \in DOMAIN line |-> "none"]

\* An approval that can be saved: a new one or a draft.
Savable(a) == approval[a].status \in {"none", "T"} /\ ~approval[a].deleted

SaveApproval(c, a, ref, line) ==
  /\ Savable(a)
  /\ Prepare(c, a, [status |-> "T", deleted |-> FALSE, ref |-> ref,
                    line |-> line, result |-> Undecided(line)], FALSE)

Submit(c, a, ref, line) ==
  /\ Savable(a)
  /\ Prepare(c, a, [status |-> "P", deleted |-> FALSE, ref |-> ref,
                    line |-> line, result |-> Undecided(line)], TRUE)

DeleteApproval(c, a) ==
  /\ approval[a].status = "T" /\ ~approval[a].deleted
  /\ Prepare(c, a, [approval[a] EXCEPT !.deleted = TRUE], FALSE)

\* Mutant of Current: whoever of the line comes first.
AnyUndecided(a, i) == approval[a].result[i] = "none"

\* The step i is the first without a result.
Current(a, i) ==
  /\ approval[a].result[i] = "none"
  /\ \A j \in 1..(i - 1) : approval[a].result[j] # "none"

\* processApprovalAction at step i, by its approver.
Deciding(a, i, u) ==
  /\ approval[a].status = "P" /\ ~approval[a].deleted
  /\ Current(a, i) /\ approval[a].line[i] = u

Approve(c, a, i, u) ==
  /\ Deciding(a, i, u)
  /\ LET last == \A j \in DOMAIN approval[a].result :
                  approval[a].result[j] = "none" => j = i
     IN Prepare(c, a, [approval[a] EXCEPT !.result[i] = "yes",
                         !.status = IF last THEN "C" ELSE "P"], last)

Reject(c, a, i, u) ==
  /\ Deciding(a, i, u)
  /\ Prepare(c, a, [approval[a] EXCEPT !.result[i] = "no", !.status = "R"], TRUE)

CommitApproval(c) == approval' = [approval EXCEPT ![doing[c]] = next[c]] /\ End(c)

Commit(c) ==
  /\ pc[c] = "commit" /\ CommitApproval(c)
  /\ UNCHANGED <<doc, items, lastChecked>>

\* updateLinkedDocument: UPDATE ... WHERE delete_yn = 'N', whatever the
\* document's status.  No row updated is an error (Fail).
Link(c) ==
  /\ pc[c] = "link" /\ on[c] \notin Records
  /\ docLock[on[c]] = NoCall /\ Live(on[c])
  /\ doc' = [doc EXCEPT ![on[c]].status = next[c].status]
  /\ CommitApproval(c)
  /\ UNCHANGED <<items, lastChecked>>

\* The same of a PM record: findOne without a lock, then save; on
\* confirmation the check cycle of its equipment takes the record's date.
FindRecord(c) ==
  /\ pc[c] = "link" /\ on[c] \in Records /\ Live(on[c])
  /\ pc' = [pc EXCEPT ![c] = "linkSelect"]
  /\ copy' = [copy EXCEPT ![c] = [doc[on[c]] EXCEPT !.status = next[c].status]]
  /\ UNCHANGED <<dbVars, locks, on, doing, content, next, columns>>

LinkSelect(c) == Select(c, "linkSelect", "linkSave")

\* Mutant of SaveRecord: the check cycle is updated on any decision.
SaveAnyRecord(c) ==
  /\ pc[c] = "linkSave" /\ docLock[on[c]] = NoCall
  /\ doc' = [doc EXCEPT ![on[c]] = Written(c, on[c])]
  /\ lastChecked' = on[c]
  /\ CommitApproval(c)
  /\ UNCHANGED items

SaveRecord(c) ==
  /\ pc[c] = "linkSave" /\ docLock[on[c]] = NoCall
  /\ doc' = [doc EXCEPT ![on[c]] = Written(c, on[c])]
  /\ lastChecked' = IF next[c].status = "C" THEN on[c] ELSE lastChecked
  /\ CommitApproval(c)
  /\ UNCHANGED items

-----------------------------------------------------------------------------
Proceed(c) ==
  \/ Edit(c) \/ DeleteRecord(c) \/ DeleteSelect(c) \/ DeleteSave(c)
  \/ Commit(c) \/ Link(c) \/ FindRecord(c) \/ LinkSelect(c) \/ SaveRecord(c)

Next ==
  \/ \E d \in Docs, b \in Bodies : Create(d, b)
  \/ \E c \in Calls :
       \/ Proceed(c) \/ Fail(c)
       \/ \E d \in Docs : LockRecord(c, d) \/ FindDraft(c, d)
       \/ \E d \in Docs, b \in Bodies : LockDraft(c, d, b)
       \/ \E a \in Approvals :
            \/ DeleteApproval(c, a)
            \/ \E i \in DOMAIN approval[a].result, u \in Users :
                 Approve(c, a, i, u) \/ Reject(c, a, i, u)
            \/ \E ref \in Targets[a], line \in Lines \union {<<>>} :
                 SaveApproval(c, a, ref, line)
            \/ \E ref \in Targets[a], line \in Lines : Submit(c, a, ref, line)

Spec == Init /\ [][Next]_vars

-----------------------------------------------------------------------------
(***************************************************************************)
(* Properties.                                                             *)
(***************************************************************************)
\* Documents that one approval at most may be raised for.
Sole == {d \in Docs : \A a, b \in Approvals :
           d \in Targets[a] /\ d \in Targets[b] => a = b}

Raised(a, d) == approval[a].ref = d /\ approval[a].status \in {"P", "C", "R"}

\* The status of a live document is that of its approval, and a draft's
\* while no approval is raised: submitting, deciding, editing and deleting
\* at once never leave the two apart.
DocumentFollowsApproval ==
  \A d \in Sole :
    Live(d) =>
      /\ \A a \in Approvals : Raised(a, d) => doc[d].status = approval[a].status
      /\ (\A a \in Approvals : ~Raised(a, d)) => doc[d].status = "T"

\* The first n steps have agreed; nobody has decided from step n on.
Agreed(e, n) == \A i \in 1..n : e.result[i] = "yes"
Open(e, n) == \A i \in n..Len(e.result) : e.result[i] = "none"

Explained(e) ==
  /\ e.status \in {"none", "T"} => Open(e, 1)
  /\ e.status = "C" => Agreed(e, Len(e.result))
  /\ e.status = "P" => \E n \in 1..Len(e.result) : Agreed(e, n - 1) /\ Open(e, n)
  /\ e.status = "R" => \E n \in 1..Len(e.result) :
       Agreed(e, n - 1) /\ e.result[n] = "no" /\ Open(e, n + 1)

\* The results of an approval explain its status: confirmed when all have
\* agreed, rejected by the last one who decided, in progress while the
\* first undecided step waits, with nobody skipped.
ApprovalMatchesResults == \A a \in Approvals : Explained(approval[a])

\* The content of a document in approval or confirmed doesn't change
\* (product_spec.md:78), unless it is deleted at that moment.
UnderApprovalIsFrozen ==
  [][\A d \in (Docs \ Records) \union Sole :
       Live(d) /\ doc[d].status \in {"P", "C", "R"} /\ ~doc'[d].deleted =>
         doc'[d].header = doc[d].header /\ items'[d] = items[d]]_vars

\* The header and the items of a live document were saved together.
HeaderMatchesItems ==
  \A d \in Docs \ Records : Live(d) => doc[d].header = items[d]

\* The check cycle always shows a record that has been confirmed.
CheckCycleIsConfirmed ==
  lastChecked \in Sole => doc[lastChecked].status = "C"

\* Only a draft is deleted (work-order.service.ts:236).
OnlyDraftsAreDeleted ==
  [][\A d \in Docs :
       ~doc[d].deleted /\ doc'[d].deleted => doc[d].status = "T"]_vars

-----------------------------------------------------------------------------
(***************************************************************************)
(* What the service promises.                                              *)
(***************************************************************************)
\* Documents and approvals as they would be if each call took effect at once.
AtDesk == INSTANCE ApprovalDesk

\* Concurrent calls on documents and approvals are equivalent to calls that
\* check and write at one instant: the decision a call has prepared is still
\* the one to take when it is committed, two of them (one approver's double
\* click) never replace each other, and it reaches the document with it.
ImplementsApprovalDesk == AtDesk!Spec

=============================================================================
