-------------------------- MODULE Documents_proofs --------------------------
(***************************************************************************)
(* Theorems about Documents, for any documents, approvals, approval lines  *)
(* and number of concurrent calls.                                         *)
(*                                                                         *)
(* The argument: a call holds the approval it writes, so what it has       *)
(* prepared stays a continuation of the committed row (Holds, Prepared).   *)
(* Editors hold a draft (EditorHolds).  The calls that save a document     *)
(* without a lock are of two kinds: a deletion always leaves the document  *)
(* deleted (Deleting), and the save of a PM record belongs to the holder   *)
(* of its approval, so that its status is not written by others            *)
(* (Recording).                                                            *)
(***************************************************************************)
EXTENDS Documents, TLAPS

Linking == {"link", "linkSelect", "linkSave"}
Committing == Linking \union {"commit"}

\* A call holds the approval it will write.
Holds ==
  \A c \in Calls : pc[c] \in Committing =>
    doing[c] \in Approvals /\ approvalLock[doing[c]] = c

\* e can follow the committed approval o.
Follows(o, e) ==
  /\ o.status \in {"none", "T", "P"}
  /\ o.status = "P" => e.ref = o.ref /\ e.status \in {"P", "C", "R"}
  /\ o.status # "P" => e.status \in {"T", "P"}
  /\ \A i \in DOMAIN o.result : o.result[i] # "none" =>
       i \in DOMAIN e.result /\ e.result[i] = o.result[i]
  /\ Explained(e)

\* What is prepared follows from what is committed; a new status reaches
\* the document that is named.
Prepared ==
  \A c \in Calls : pc[c] \in Committing =>
    /\ Follows(approval[doing[c]], next[c])
    /\ next[c].ref # NoDoc => next[c].ref \in Targets[doing[c]]
    /\ IF pc[c] = "commit"
       THEN next[c].ref = NoDoc \/ next[c].status \in {"T", approval[doing[c]].status}
       ELSE /\ on[c] = next[c].ref /\ on[c] # NoDoc
            /\ next[c].status \notin {"T", approval[doing[c]].status}

\* saveDraft and deletePmRecord hold a draft.
EditorHolds ==
  \A c \in Calls : pc[c] \in {"edit", "deleteRecord"} =>
    on[c] \in Docs /\ docLock[on[c]] = c /\ IsDraft(on[c])

\* A deletion that isn't locked leaves the document deleted.
Deleting ==
  \A c \in Calls : pc[c] \in {"deleteSelect", "deleteSave"} =>
    /\ on[c] \in Docs \ Records /\ doc[on[c]].status # "none"
    /\ copy[c].deleted /\ copy[c].status # "none"
    /\ pc[c] = "deleteSave" => "deleted" \in columns[c] \/ doc[on[c]].deleted

\* The record an approval is saving keeps the status it had, and a record
\* in approval the content it was read with.
Recording ==
  \A c \in Calls : pc[c] \in {"linkSelect", "linkSave"} =>
    /\ on[c] \in Records /\ doc[on[c]].status # "none"
    /\ copy[c].status = next[c].status
    /\ on[c] \in Sole =>
         /\ doc[on[c]].status = IF approval[doing[c]].status = "P" THEN "P" ELSE "T"
         /\ doc[on[c]].status = "P" => copy[c].header = doc[on[c]].header
         /\ pc[c] = "linkSave" => "status" \in columns[c]

\* Approvals are raised for targets that have been saved.
RaisedForSaved ==
  \A a \in Approvals :
    /\ approval[a].ref # NoDoc => approval[a].ref \in Targets[a]
    /\ \A d \in Docs : Raised(a, d) => doc[d].status # "none"

IInv ==
  /\ TypeOK
  /\ Holds
  /\ Prepared
  /\ EditorHolds
  /\ Deleting
  /\ Recording
  /\ RaisedForSaved
  /\ ApprovalMatchesResults
  /\ HeaderMatchesItems
  /\ DocumentFollowsApproval
  /\ CheckCycleIsConfirmed

-----------------------------------------------------------------------------
LEMMA InitIInv == Init => IInv
<1> SUFFICES ASSUME Init PROVE IInv
  OBVIOUS
<1>1. AnyBody \in Bodies
  BY DocumentAssumption DEF AnyBody
<1>2. TypeOK
  BY <1>1, DocumentAssumption, CallNames DEF Init, TypeOK, Entity,
     Approval, Absent, NotRaised, Phases, Results
<1>3. Holds /\ Prepared /\ EditorHolds /\ Deleting /\ Recording
  BY DEF Init, Holds, Prepared, EditorHolds, Deleting, Recording, Committing,
     Linking
<1>4. RaisedForSaved /\ ApprovalMatchesResults
  BY DEF Init, RaisedForSaved, Raised, ApprovalMatchesResults, NotRaised,
     Explained, Open
<1>5. HeaderMatchesItems /\ DocumentFollowsApproval /\ CheckCycleIsConfirmed
  BY DocumentAssumption, NameAssumption DEF Init, HeaderMatchesItems,
     DocumentFollowsApproval, CheckCycleIsConfirmed, Live, Absent, Sole
<1> QED
  BY <1>2, <1>3, <1>4, <1>5 DEF IInv

\* A call that ends gives back its locks and leaves the others theirs.
LEMMA EndFacts ==
  ASSUME TypeOK, NEW c \in Calls, End(c)
  PROVE  /\ docLock' \in [Docs -> Calls \union {NoCall}]
         /\ approvalLock' \in [Approvals -> Calls \union {NoCall}]
         /\ pc' \in [Calls -> Phases]
         /\ on' \in [Calls -> Docs \union {NoDoc}]
         /\ doing' \in [Calls -> Approvals \union {NoApproval}]
         /\ content' \in [Calls -> Bodies]
         /\ next' \in [Calls -> Approval]
         /\ copy' \in [Calls -> Entity]
         /\ columns' \in [Calls -> SUBSET {"status", "deleted", "header"}]
         /\ pc'[c] = "idle"
         /\ \A d \in Calls \ {c} :
              /\ pc'[d] = pc[d] /\ on'[d] = on[d] /\ doing'[d] = doing[d]
              /\ next'[d] = next[d] /\ copy'[d] = copy[d]
              /\ columns'[d] = columns[d]
              /\ \A k \in Docs : docLock[k] = d => docLock'[k] = d
              /\ \A a \in Approvals : approvalLock[a] = d => approvalLock'[a] = d
<1>1. AnyBody \in Bodies /\ NotRaised \in Approval /\ Absent \in Entity
  BY DocumentAssumption DEF AnyBody, NotRaised, Approval, Absent, Entity
<1> QED
  BY <1>1, CallNames DEF TypeOK, End, Phases

LEMMA DeletedFacts ==
  ASSUME NEW row \in Entity, NEW e, e = [row EXCEPT !.deleted = TRUE]
  PROVE  e \in Entity /\ e.deleted = TRUE /\ e.status = row.status
<1>1. e = [status |-> row.status, deleted |-> TRUE, header |-> row.header]
  BY DEF Entity
<1> QED
  BY <1>1 DEF Entity

\* What repository.save leaves in a row.
LEMMA WrittenFacts ==
  ASSUME TypeOK, NEW c \in Calls, NEW d \in Docs
  PROVE  /\ Written(c, d) \in Entity
         /\ Written(c, d).status =
              IF "status" \in columns[c] THEN copy[c].status ELSE doc[d].status
         /\ Written(c, d).deleted =
              IF "deleted" \in columns[c] THEN copy[c].deleted ELSE doc[d].deleted
         /\ Written(c, d).header =
              IF "header" \in columns[c] THEN copy[c].header ELSE doc[d].header
<1>1. copy[c] \in Entity /\ doc[d] \in Entity
  BY DEF TypeOK
<1>2. DOMAIN Absent = {"status", "deleted", "header"}
  BY DEF Absent
<1>3. Written(c, d) =
        [status |-> IF "status" \in columns[c] THEN copy[c].status ELSE doc[d].status,
         deleted |-> IF "deleted" \in columns[c] THEN copy[c].deleted ELSE doc[d].deleted,
         header |-> IF "header" \in columns[c] THEN copy[c].header ELSE doc[d].header]
  BY <1>2 DEF Written
<1> QED
  BY <1>1, <1>3 DEF Entity

-----------------------------------------------------------------------------
(***************************************************************************)
(* Decisions.                                                              *)
(***************************************************************************)
\* The current step is where the agreed steps end.
LEMMA CurrentStep ==
  ASSUME TypeOK, NEW a \in Approvals, Explained(approval[a]),
         NEW i \in DOMAIN approval[a].result, Current(a, i),
         approval[a].status = "P"
  PROVE  /\ i \in 1..Len(approval[a].result)
         /\ Agreed(approval[a], i - 1) /\ Open(approval[a], i)
<1>1. approval[a].result \in Seq(Results)
  BY DEF TypeOK, Approval
<1>2. PICK n \in 1..Len(approval[a].result) :
        Agreed(approval[a], n - 1) /\ Open(approval[a], n)
  BY DEF Explained
<1>3. i \in 1..Len(approval[a].result)
  BY <1>1
<1>4. n = i
  <2>1. ~(n < i)
    BY <1>1, <1>2, <1>3 DEF Current, Open
  <2>2. ~(i < n)
    BY <1>1, <1>2, <1>3 DEF Current, Agreed
  <2> QED
    BY <1>2, <1>3, <2>1, <2>2
<1> QED
  BY <1>2, <1>3, <1>4

LEMMA ApproveFollows ==
  ASSUME TypeOK, NEW a \in Approvals, Explained(approval[a]),
         NEW i \in DOMAIN approval[a].result, NEW u, Deciding(a, i, u),
         NEW status \in {"P", "C"},
         status = "C" <=> \A j \in DOMAIN approval[a].result :
                            approval[a].result[j] = "none" => j = i,
         NEW e, e = [approval[a] EXCEPT !.result[i] = "yes", !.status = status]
  PROVE  Follows(approval[a], e) /\ e \in Approval
<1> DEFINE r == approval[a].result
<1>1. r \in Seq(Results) /\ approval[a] \in Approval
  BY DEF TypeOK, Approval
<1>2. i \in 1..Len(r) /\ Agreed(approval[a], i - 1) /\ Open(approval[a], i)
  BY CurrentStep DEF Deciding
<1>3. /\ e.result = [r EXCEPT ![i] = "yes"] /\ e.ref = approval[a].ref
      /\ e.status = status
  BY <1>1 DEF Approval
<1>4. e.result \in Seq(Results) /\ Len(e.result) = Len(r)
  BY <1>1, <1>2, <1>3 DEF Results
<1>5. e \in Approval
  BY <1>1, <1>3, <1>4 DEF Approval
<1>6. CASE status = "C"
  <2>0. \A j \in 1..Len(r) : r[j] = "none" => j = i
    BY <1>1, <1>6
  <2>1. Agreed(e, Len(e.result))
    BY <2>0, <1>1, <1>2, <1>3, <1>4, <1>6 DEF Agreed, Open
  <2> QED
    BY <1>1, <1>2, <1>3, <1>4, <1>5, <1>6, <2>1 DEF Follows, Explained,
       Deciding, Current
<1>7. CASE status = "P"
  <2>1. PICK j \in 1..Len(r) : r[j] = "none" /\ j # i
    BY <1>1, <1>7
  <2>2. i + 1 \in 1..Len(r)
    BY <1>1, <1>2, <2>1 DEF Agreed
  <2>3. Agreed(e, i + 1 - 1) /\ Open(e, i + 1)
    BY <1>1, <1>2, <1>3, <1>4 DEF Agreed, Open
  <2>4. Explained(e)
    BY <1>3, <1>4, <1>7, <2>2, <2>3 DEF Explained
  <2> QED
    BY <1>1, <1>2, <1>3, <1>4, <1>5, <1>7, <2>4 DEF Follows, Deciding, Current
<1> QED
  BY <1>6, <1>7

LEMMA RejectFollows ==
  ASSUME TypeOK, NEW a \in Approvals, Explained(approval[a]),
         NEW i \in DOMAIN approval[a].result, NEW u, Deciding(a, i, u),
         NEW e, e = [approval[a] EXCEPT !.result[i] = "no", !.status = "R"]
  PROVE  Follows(approval[a], e) /\ e \in Approval
<1> DEFINE r == approval[a].result
<1>1. r \in Seq(Results) /\ approval[a] \in Approval
  BY DEF TypeOK, Approval
<1>2. i \in 1..Len(r) /\ Agreed(approval[a], i - 1) /\ Open(approval[a], i)
  BY CurrentStep DEF Deciding
<1>3. /\ e.result = [r EXCEPT ![i] = "no"] /\ e.ref = approval[a].ref
      /\ e.status = "R"
  BY <1>1 DEF Approval
<1>4. e.result \in Seq(Results) /\ Len(e.result) = Len(r)
  BY <1>1, <1>2, <1>3 DEF Results
<1>5. e \in Approval
  BY <1>1, <1>3, <1>4 DEF Approval
<1>6. Agreed(e, i - 1) /\ e.result[i] = "no" /\ Open(e, i + 1)
  BY <1>1, <1>2, <1>3, <1>4 DEF Agreed, Open
<1>7. Explained(e)
  BY <1>2, <1>3, <1>4, <1>6 DEF Explained
<1> QED
  BY <1>1, <1>2, <1>3, <1>5, <1>7 DEF Follows, Deciding, Current

\* A draft is submitted or saved again with any line.
LEMMA UndecidedFollows ==
  ASSUME TypeOK, NEW a \in Approvals, Explained(approval[a]), Savable(a),
         NEW status \in {"T", "P"}, NEW ref \in Targets[a],
         NEW line \in Lines \union {<<>>}, status = "P" => line # <<>>,
         NEW e, e = [status |-> status, deleted |-> FALSE, ref |-> ref,
                     line |-> line, result |-> Undecided(line)]
  PROVE  Follows(approval[a], e) /\ e \in Approval
<1>1. line \in Seq(Users) /\ ref \in Docs \union {NoDoc}
  <2>1. ref \in Docs \union {NoDoc} /\ Lines \subseteq Seq(Users)
    BY DocumentAssumption
  <2>2. <<>> \in Seq(Users)
    OBVIOUS
  <2> QED
    BY <2>1, <2>2
<1>2. e.result \in Seq(Results) /\ Len(e.result) = Len(line)
  <2>1. e.result = [i \in 1..Len(line) |-> "none"] /\ Len(line) \in Nat
    BY <1>1 DEF Undecided
  <2> QED
    <3>1. e.result \in [1..Len(line) -> Results]
      BY <2>1 DEF Results
    <3> QED
      BY <2>1, <3>1
<1>3. e \in Approval
  BY <1>1, <1>2 DEF Approval
<1>4. Open(e, 1)
  BY <1>1, <1>2 DEF Open, Undecided
<1>5. status = "P" => 1 \in 1..Len(e.result)
  BY <1>1, <1>2
<1>6. Agreed(e, 1 - 1)
  BY DEF Agreed
<1>7. Explained(e)
  BY <1>4, <1>5, <1>6 DEF Explained
<1>8. approval[a].result \in Seq(Results) /\ Open(approval[a], 1)
  BY DEF TypeOK, Approval, Savable, Explained
<1>9. \A i \in DOMAIN approval[a].result : approval[a].result[i] = "none"
  BY <1>8 DEF Open
<1> QED
  BY <1>3, <1>7, <1>9 DEF Follows, Savable

\* A call that ends without a commit leaves the others what they hold.
LEMMA EndHolds ==
  ASSUME TypeOK, Holds, Prepared, NEW c \in Calls, End(c), approval' = approval
  PROVE  Holds' /\ Prepared'
<1>1. Holds'
  BY EndFacts DEF Holds, Committing, Linking
<1>2. Prepared'
  BY EndFacts DEF Prepared, Committing, Linking
<1> QED
  BY <1>1, <1>2

-----------------------------------------------------------------------------
(***************************************************************************)
(* Every step preserves the invariant.                                     *)
(***************************************************************************)
LEMMA FailIInv ==
  ASSUME IInv, NEW c \in Calls, Fail(c)
  PROVE  IInv'
<1>1. End(c) /\ UNCHANGED dbVars /\ TypeOK
  BY DEF Fail, IInv
<1>2. TypeOK'
  BY <1>1, EndFacts DEF TypeOK, dbVars
<1>3. Holds' /\ Prepared'
  BY <1>1, EndHolds DEF IInv, dbVars
<1>4. EditorHolds' /\ Deleting' /\ Recording'
  <2>1. EditorHolds'
    BY <1>1, EndFacts DEF IInv, EditorHolds, IsDraft, dbVars
  <2>2. Deleting'
    BY <1>1, EndFacts DEF IInv, Deleting, dbVars
  <2>3. Recording'
    BY <1>1, EndFacts DEF IInv, Recording, dbVars
  <2> QED
    BY <2>1, <2>2, <2>3
<1>5. /\ RaisedForSaved' /\ ApprovalMatchesResults' /\ HeaderMatchesItems'
      /\ DocumentFollowsApproval' /\ CheckCycleIsConfirmed'
  BY <1>1 DEF IInv, RaisedForSaved, Raised, ApprovalMatchesResults,
     HeaderMatchesItems, DocumentFollowsApproval, CheckCycleIsConfirmed, Live,
     dbVars
<1> QED
  BY <1>2, <1>3, <1>4, <1>5 DEF IInv

\* A call that takes an approval and prepares what can follow it.
LEMMA PrepareIInv ==
  ASSUME IInv, NEW c \in Calls, NEW a \in Approvals, NEW e \in Approval,
         NEW linked \in BOOLEAN, Prepare(c, a, e, linked),
         Follows(approval[a], e), e.ref # NoDoc => e.ref \in Targets[a],
         IF linked THEN e.status \notin {"T", approval[a].status}
                   ELSE e.status \in {"T", approval[a].status}
  PROVE  IInv'
<1> DEFINE phase == IF linked /\ e.ref # NoDoc THEN "link" ELSE "commit"
<1>1. /\ pc[c] = "idle" /\ pc' = [pc EXCEPT ![c] = phase]
      /\ approvalLock[a] = NoCall /\ approvalLock' = [approvalLock EXCEPT ![a] = c]
      /\ doing' = [doing EXCEPT ![c] = a]
      /\ on' = [on EXCEPT ![c] = IF linked THEN e.ref ELSE NoDoc]
      /\ next' = [next EXCEPT ![c] = e]
      /\ UNCHANGED <<dbVars, docLock, content, copy, columns>>
      /\ TypeOK
  BY DEF Prepare, Start, LockApproval, IInv
<1>2. phase \in {"link", "commit"} /\ e.ref \in Docs \union {NoDoc}
  BY DEF Approval
<1>3. TypeOK'
  BY <1>1, <1>2 DEF TypeOK, dbVars, Phases
<1>4. Holds'
  BY <1>1, <1>2, CallNames DEF IInv, TypeOK, Holds, Committing, Linking
<1>5. Prepared'
  BY <1>1, <1>2 DEF IInv, TypeOK, Prepared, Committing, Linking, dbVars
<1>6. EditorHolds' /\ Deleting' /\ Recording'
  <2>1. EditorHolds'
    BY <1>1, <1>2 DEF IInv, TypeOK, EditorHolds, IsDraft, dbVars
  <2>2. Deleting'
    BY <1>1, <1>2 DEF IInv, TypeOK, Deleting, dbVars
  <2>3. Recording'
    BY <1>1, <1>2 DEF IInv, TypeOK, Recording, dbVars
  <2> QED
    BY <2>1, <2>2, <2>3
<1>7. /\ RaisedForSaved' /\ ApprovalMatchesResults' /\ HeaderMatchesItems'
      /\ DocumentFollowsApproval' /\ CheckCycleIsConfirmed'
  BY <1>1 DEF IInv, RaisedForSaved, Raised, ApprovalMatchesResults,
     HeaderMatchesItems, DocumentFollowsApproval, CheckCycleIsConfirmed, Live,
     dbVars
<1> QED
  BY <1>3, <1>4, <1>5, <1>6, <1>7 DEF IInv

LEMMA ApprovalIInv ==
  ASSUME IInv, NEW c \in Calls, NEW a \in Approvals
  PROVE  /\ DeleteApproval(c, a) => IInv'
         /\ \A i \in DOMAIN approval[a].result, u \in Users :
              Approve(c, a, i, u) \/ Reject(c, a, i, u) => IInv'
         /\ \A ref \in Targets[a], line \in Lines \union {<<>>} :
              SaveApproval(c, a, ref, line) => IInv'
         /\ \A ref \in Targets[a], line \in Lines :
              Submit(c, a, ref, line) => IInv'
<1>1. /\ TypeOK /\ approval[a] \in Approval /\ Explained(approval[a])
      /\ approval[a].ref # NoDoc => approval[a].ref \in Targets[a]
  BY DEF IInv, TypeOK, ApprovalMatchesResults, RaisedForSaved
<1>2. ASSUME DeleteApproval(c, a) PROVE IInv'
  <2> DEFINE e == [approval[a] EXCEPT !.deleted = TRUE]
  <2>1. /\ e \in Approval /\ e.status = "T" /\ e.ref = approval[a].ref
        /\ e.result = approval[a].result
    BY <1>1, <1>2 DEF DeleteApproval, Approval
  <2>2. Follows(approval[a], e)
    BY <1>1, <1>2, <2>1 DEF Follows, Explained, Open, DeleteApproval
  <2>3. Prepare(c, a, e, FALSE)
    BY <1>2 DEF DeleteApproval
  <2> HIDE DEF e
  <2> QED
    BY <1>1, <2>1, <2>2, <2>3, PrepareIInv
<1>3. ASSUME NEW i \in DOMAIN approval[a].result, NEW u \in Users,
             Approve(c, a, i, u)
      PROVE  IInv'
  <2> DEFINE last == \A j \in DOMAIN approval[a].result :
                       approval[a].result[j] = "none" => j = i
             e == [approval[a] EXCEPT !.result[i] = "yes",
                                      !.status = IF last THEN "C" ELSE "P"]
  <2>1. Deciding(a, i, u) /\ Prepare(c, a, e, last)
    BY <1>3 DEF Approve
  <2>2. Follows(approval[a], e) /\ e \in Approval
    BY <1>1, <2>1, ApproveFollows
  <2>3. /\ e.ref = approval[a].ref /\ e.status = IF last THEN "C" ELSE "P"
        /\ approval[a].status = "P"
    BY <1>1, <2>1 DEF Approval, Deciding
  <2>4. last \in BOOLEAN
    OBVIOUS
  <2> HIDE DEF e, last
  <2> QED
    BY <1>1, <2>1, <2>2, <2>3, <2>4, PrepareIInv
<1>4. ASSUME NEW i \in DOMAIN approval[a].result, NEW u \in Users,
             Reject(c, a, i, u)
      PROVE  IInv'
  <2> DEFINE e == [approval[a] EXCEPT !.result[i] = "no", !.status = "R"]
  <2>1. Deciding(a, i, u) /\ Prepare(c, a, e, TRUE)
    BY <1>4 DEF Reject
  <2>2. Follows(approval[a], e) /\ e \in Approval
    BY <1>1, <2>1, RejectFollows
  <2>3. e.ref = approval[a].ref /\ e.status = "R" /\ approval[a].status = "P"
    BY <1>1, <2>1 DEF Approval, Deciding
  <2> HIDE DEF e
  <2> QED
    BY <1>1, <2>1, <2>2, <2>3, PrepareIInv
<1>5. ASSUME NEW ref \in Targets[a], NEW line \in Lines \union {<<>>},
             SaveApproval(c, a, ref, line)
      PROVE  IInv'
  <2> DEFINE e == [status |-> "T", deleted |-> FALSE, ref |-> ref,
                   line |-> line, result |-> Undecided(line)]
  <2>1. Savable(a) /\ Prepare(c, a, e, FALSE)
    BY <1>5 DEF SaveApproval
  <2>2. Follows(approval[a], e) /\ e \in Approval
    BY <1>1, <2>1, UndecidedFollows
  <2>3. e.ref = ref /\ e.status = "T"
    OBVIOUS
  <2> HIDE DEF e
  <2> QED
    BY <2>1, <2>2, <2>3, PrepareIInv
<1>6. ASSUME NEW ref \in Targets[a], NEW line \in Lines, Submit(c, a, ref, line)
      PROVE  IInv'
  <2> DEFINE e == [status |-> "P", deleted |-> FALSE, ref |-> ref,
                   line |-> line, result |-> Undecided(line)]
  <2>1. Savable(a) /\ Prepare(c, a, e, TRUE) /\ line # <<>>
    BY <1>6, DocumentAssumption DEF Submit
  <2>2. Follows(approval[a], e) /\ e \in Approval
    BY <1>1, <2>1, UndecidedFollows
  <2>3. e.ref = ref /\ e.status = "P" /\ approval[a].status # "P"
    BY <2>1 DEF Savable
  <2> HIDE DEF e
  <2> QED
    BY <2>1, <2>2, <2>3, PrepareIInv
<1> QED
  BY <1>2, <1>3, <1>4, <1>5, <1>6

LEMMA CreateIInv ==
  ASSUME IInv, NEW d \in Docs, NEW b \in Bodies, Create(d, b)
  PROVE  IInv'
<1> DEFINE row == [status |-> "T", deleted |-> FALSE, header |-> b]
<1>1. /\ doc[d].status = "none" /\ doc' = [doc EXCEPT ![d] = row]
      /\ items' = [items EXCEPT ![d] = b]
      /\ UNCHANGED <<approval, lastChecked, locks, callVars>> /\ TypeOK
  BY DEF Create, IInv
<1>2. /\ row \in Entity /\ row.status = "T" /\ row.deleted = FALSE
      /\ row.header = b
  BY DEF Entity
<1> HIDE DEF row
<1>3. TypeOK'
  BY <1>1, <1>2 DEF TypeOK, locks, callVars
<1>4. Holds' /\ Prepared'
  BY <1>1 DEF IInv, Holds, Prepared, locks, callVars
<1>5. EditorHolds' /\ Deleting' /\ Recording'
  BY <1>1, <1>2 DEF IInv, TypeOK, EditorHolds, Deleting, Recording, IsDraft,
     locks, callVars
<1>6. RaisedForSaved' /\ ApprovalMatchesResults' /\ HeaderMatchesItems'
  BY <1>1, <1>2 DEF IInv, TypeOK, RaisedForSaved, Raised,
     ApprovalMatchesResults, HeaderMatchesItems, Live
<1>7. DocumentFollowsApproval' /\ CheckCycleIsConfirmed'
  BY <1>1, <1>2 DEF IInv, TypeOK, RaisedForSaved, Raised,
     DocumentFollowsApproval, CheckCycleIsConfirmed, Sole, Live
<1> QED
  BY <1>3, <1>4, <1>5, <1>6, <1>7 DEF IInv

\* A call that begins to work on a draft.
LEMMA StartIInv ==
  ASSUME IInv, NEW c \in Calls, NEW d \in Docs
  PROVE  /\ LockRecord(c, d) => IInv'
         /\ \A b \in Bodies : LockDraft(c, d, b) => IInv'
         /\ FindDraft(c, d) => IInv'
<1>1. ASSUME NEW phase \in {"edit", "deleteRecord"}, NEW b \in Bodies,
             Start(c, phase), LockDoc(c, d),
             content' \in [Calls -> Bodies]
      PROVE  IInv'
  <2>1. /\ pc[c] = "idle" /\ pc' = [pc EXCEPT ![c] = phase]
        /\ docLock[d] = NoCall /\ docLock' = [docLock EXCEPT ![d] = c]
        /\ IsDraft(d) /\ on' = [on EXCEPT ![c] = d]
        /\ UNCHANGED <<dbVars, approvalLock, doing, next, copy, columns>>
        /\ TypeOK
    BY <1>1 DEF Start, LockDoc, IInv
  <2>2. TypeOK'
    BY <2>1, <1>1 DEF TypeOK, dbVars, Phases
  <2>3. Holds' /\ Prepared'
    BY <2>1 DEF IInv, TypeOK, Holds, Prepared, Committing, Linking, dbVars
  <2>4. EditorHolds'
    BY <2>1, CallNames DEF IInv, TypeOK, EditorHolds, IsDraft, dbVars
  <2>5. Deleting' /\ Recording'
    BY <2>1 DEF IInv, TypeOK, Deleting, Recording, dbVars
  <2>6. /\ RaisedForSaved' /\ ApprovalMatchesResults' /\ HeaderMatchesItems'
        /\ DocumentFollowsApproval' /\ CheckCycleIsConfirmed'
    BY <2>1 DEF IInv, RaisedForSaved, Raised, ApprovalMatchesResults,
       HeaderMatchesItems, DocumentFollowsApproval, CheckCycleIsConfirmed,
       Live, dbVars
  <2> QED
    BY <2>2, <2>3, <2>4, <2>5, <2>6 DEF IInv
<1>2. ASSUME LockRecord(c, d) PROVE IInv'
  BY <1>1, <1>2, DocumentAssumption DEF LockRecord, IInv, TypeOK
<1>3. ASSUME NEW b \in Bodies, LockDraft(c, d, b) PROVE IInv'
  <2>1. content' \in [Calls -> Bodies]
    BY <1>3 DEF LockDraft, IInv, TypeOK
  <2> QED
    BY <1>1, <1>3, <2>1 DEF LockDraft
<1>4. ASSUME FindDraft(c, d) PROVE IInv'
  <2> DEFINE e == [doc[d] EXCEPT !.deleted = TRUE]
  <2>1. /\ d \notin Records /\ doc[d].status = "T" /\ pc[c] = "idle"
        /\ pc' = [pc EXCEPT ![c] = "deleteSelect"]
        /\ on' = [on EXCEPT ![c] = d] /\ copy' = [copy EXCEPT ![c] = e]
        /\ UNCHANGED <<dbVars, locks, doing, content, next, columns>> /\ TypeOK
    BY <1>4 DEF FindDraft, IsDraft, Start, IInv
  <2>2. e \in Entity /\ e.deleted /\ e.status = "T"
    BY <2>1, DeletedFacts DEF TypeOK
  <2> HIDE DEF e
  <2>3. TypeOK'
    BY <2>1, <2>2 DEF TypeOK, dbVars, locks, Phases
  <2>4. Holds' /\ Prepared'
    BY <2>1 DEF IInv, TypeOK, Holds, Prepared, Committing, Linking, dbVars,
       locks
  <2>5. EditorHolds' /\ Deleting' /\ Recording'
    BY <2>1, <2>2 DEF IInv, TypeOK, EditorHolds, Deleting, Recording, IsDraft,
       dbVars, locks
  <2>6. /\ RaisedForSaved' /\ ApprovalMatchesResults' /\ HeaderMatchesItems'
        /\ DocumentFollowsApproval' /\ CheckCycleIsConfirmed'
    BY <2>1 DEF IInv, RaisedForSaved, Raised, ApprovalMatchesResults,
       HeaderMatchesItems, DocumentFollowsApproval, CheckCycleIsConfirmed,
       Live, dbVars
  <2> QED
    BY <2>3, <2>4, <2>5, <2>6 DEF IInv
<1> QED
  BY <1>2, <1>3, <1>4

\* The holder of a draft writes it.
LEMMA EditIInv ==
  ASSUME IInv, NEW c \in Calls, Edit(c) \/ DeleteRecord(c)
  PROVE  IInv'
<1> DEFINE d == on[c]
<1>1. /\ d \in Docs /\ docLock[d] = c /\ doc[d].status = "T" /\ ~doc[d].deleted
      /\ pc[c] \in {"edit", "deleteRecord"}
      /\ End(c) /\ UNCHANGED <<approval, lastChecked>> /\ TypeOK
  BY DEF Edit, DeleteRecord, IInv, EditorHolds, IsDraft
<1>2. /\ doc' \in [Docs -> Entity] /\ items' \in [Docs -> Bodies]
      /\ doc'[d].status = "T"
      /\ doc'[d].deleted \/ doc'[d].header = items'[d]
      /\ \A k \in Docs \ {d} : doc'[k] = doc[k] /\ items'[k] = items[k]
  <2>1. CASE Edit(c)
    BY <1>1, <2>1 DEF Edit, TypeOK, Entity
  <2>2. CASE DeleteRecord(c)
    <3> DEFINE e == [doc[d] EXCEPT !.deleted = TRUE]
    <3>1. doc' = [doc EXCEPT ![d] = e] /\ UNCHANGED items
      BY <2>2 DEF DeleteRecord
    <3>2. e \in Entity /\ e.deleted /\ e.status = "T"
      BY <1>1, DeletedFacts DEF TypeOK
    <3> HIDE DEF e
    <3> QED
      BY <1>1, <3>1, <3>2 DEF TypeOK
  <2> QED
    BY <2>1, <2>2
<1>3. \A a \in Approvals : d \in Sole => ~Raised(a, d)
  BY <1>1 DEF IInv, DocumentFollowsApproval, Live, Raised
<1> HIDE DEF d
<1>4. TypeOK'
  BY <1>1, <1>2, EndFacts DEF TypeOK
<1>5. Holds' /\ Prepared'
  BY <1>1, EndHolds DEF IInv
<1>6. EditorHolds'
  BY <1>1, <1>2, EndFacts DEF IInv, TypeOK, EditorHolds, IsDraft
<1>7. Deleting'
  BY <1>1, <1>2, EndFacts DEF IInv, TypeOK, Deleting
<1>8. Recording'
  <2>1. \A k \in Docs : doc'[k].status = doc[k].status
    BY <1>1, <1>2
  <2>2. \A k \in Docs : doc[k].status = "P" => doc'[k].header = doc[k].header
    BY <1>1, <1>2
  <2> QED
    BY <1>1, <2>1, <2>2, EndFacts, DocumentAssumption DEF IInv, TypeOK, Recording
<1>9. RaisedForSaved' /\ ApprovalMatchesResults' /\ HeaderMatchesItems'
  BY <1>1, <1>2 DEF IInv, TypeOK, RaisedForSaved, Raised,
     ApprovalMatchesResults, HeaderMatchesItems, Live
<1>10. DocumentFollowsApproval' /\ CheckCycleIsConfirmed'
  BY <1>1, <1>2, <1>3 DEF IInv, TypeOK, DocumentFollowsApproval,
     CheckCycleIsConfirmed, Sole, Live, Raised
<1> QED
  BY <1>4, <1>5, <1>6, <1>7, <1>8, <1>9, <1>10 DEF IInv

\* repository.save has read the row it will write.
LEMMA SelectIInv ==
  ASSUME IInv, NEW c \in Calls, DeleteSelect(c) \/ LinkSelect(c)
  PROVE  IInv'
<1>1. /\ \/ pc[c] = "deleteSelect" /\ pc' = [pc EXCEPT ![c] = "deleteSave"]
         \/ pc[c] = "linkSelect" /\ pc' = [pc EXCEPT ![c] = "linkSave"]
      /\ columns' = [columns EXCEPT ![c] = Differing(c, on[c])]
      /\ UNCHANGED <<dbVars, locks, on, doing, content, next, copy>> /\ TypeOK
  BY DEF DeleteSelect, LinkSelect, Select, IInv
<1>2. /\ Differing(c, on[c]) \in SUBSET {"status", "deleted", "header"}
      /\ copy[c].status # doc[on[c]].status => "status" \in Differing(c, on[c])
      /\ copy[c].deleted # doc[on[c]].deleted => "deleted" \in Differing(c, on[c])
  BY DEF Differing, Absent
<1>3. TypeOK'
  BY <1>1, <1>2 DEF TypeOK, dbVars, locks, Phases
<1>4. Holds' /\ Prepared'
  BY <1>1 DEF IInv, TypeOK, Holds, Prepared, Committing, Linking, dbVars, locks
<1>5. EditorHolds'
  BY <1>1 DEF IInv, TypeOK, EditorHolds, IsDraft, dbVars, locks
<1>6. Deleting'
  <2>1. pc[c] = "deleteSelect" =>
          "deleted" \in Differing(c, on[c]) \/ doc[on[c]].deleted
    BY <1>2 DEF IInv, Deleting
  <2> QED
    BY <1>1, <2>1 DEF IInv, TypeOK, Deleting, dbVars
<1>7. Recording'
  <2>1. pc[c] = "linkSelect" /\ on[c] \in Sole => copy[c].status # doc[on[c]].status
    BY <1>1 DEF IInv, Prepared, Recording, Follows, Committing, Linking
  <2> QED
    BY <1>1, <1>2, <2>1 DEF IInv, TypeOK, Recording, dbVars
<1>8. /\ RaisedForSaved' /\ ApprovalMatchesResults' /\ HeaderMatchesItems'
      /\ DocumentFollowsApproval' /\ CheckCycleIsConfirmed'
  BY <1>1 DEF IInv, RaisedForSaved, Raised, ApprovalMatchesResults,
     HeaderMatchesItems, DocumentFollowsApproval, CheckCycleIsConfirmed, Live,
     dbVars
<1> QED
  BY <1>3, <1>4, <1>5, <1>6, <1>7, <1>8 DEF IInv

LEMMA DeleteSaveIInv ==
  ASSUME IInv, NEW c \in Calls, DeleteSave(c)
  PROVE  IInv'
<1> DEFINE d == on[c]
           row == Written(c, on[c])
<1>1. /\ d \in Docs \ Records /\ docLock[d] = NoCall /\ doc[d].status # "none"
      /\ pc[c] = "deleteSave" /\ doc' = [doc EXCEPT ![d] = row]
      /\ End(c) /\ UNCHANGED <<items, approval, lastChecked>> /\ TypeOK
  BY DEF DeleteSave, IInv, Deleting
<1>2. row \in Entity /\ row.status # "none" /\ row.deleted
  BY <1>1, WrittenFacts DEF IInv, Deleting
<1> HIDE DEF d, row
<1>3. TypeOK'
  BY <1>1, <1>2, EndFacts DEF TypeOK
<1>4. Holds' /\ Prepared'
  BY <1>1, EndHolds DEF IInv
<1>5. EditorHolds'
  BY <1>1, EndFacts, CallNames DEF IInv, TypeOK, EditorHolds, IsDraft
<1>6. Deleting' /\ Recording'
  BY <1>1, <1>2, EndFacts DEF IInv, TypeOK, Deleting, Recording
<1>7. RaisedForSaved' /\ ApprovalMatchesResults' /\ HeaderMatchesItems'
  BY <1>1, <1>2 DEF IInv, TypeOK, RaisedForSaved, Raised,
     ApprovalMatchesResults, HeaderMatchesItems, Live
<1>8. DocumentFollowsApproval'
  BY <1>1, <1>2 DEF IInv, TypeOK, DocumentFollowsApproval, Sole, Live, Raised
<1>9. CheckCycleIsConfirmed'
  BY <1>1, <1>2, NameAssumption DEF IInv, TypeOK, CheckCycleIsConfirmed, Sole
<1> QED
  BY <1>3, <1>4, <1>5, <1>6, <1>7, <1>8, <1>9 DEF IInv

\* What a commit of an approval does, whatever it writes with it.
LEMMA CommitFacts ==
  ASSUME IInv, NEW c \in Calls, pc[c] \in Committing, CommitApproval(c)
  PROVE  /\ doing[c] \in Approvals /\ End(c) /\ TypeOK
         /\ approval' = [approval EXCEPT ![doing[c]] = next[c]]
         /\ approval' \in [Approvals -> Approval]
         /\ Holds' /\ Prepared' /\ ApprovalMatchesResults'
         /\ \A k \in Calls \ {c} : pc[k] \in Committing => doing[k] # doing[c]
         /\ \A a \in Approvals :
              approval'[a].ref # NoDoc => approval'[a].ref \in Targets[a]
<1>1. /\ doing[c] \in Approvals /\ End(c) /\ TypeOK
      /\ approval' = [approval EXCEPT ![doing[c]] = next[c]]
      /\ next[c] \in Approval /\ Explained(next[c])
      /\ next[c].ref # NoDoc => next[c].ref \in Targets[doing[c]]
  BY DEF IInv, CommitApproval, Holds, Prepared, Follows, TypeOK
<1>2. \A k \in Calls \ {c} : pc[k] \in Committing => doing[k] # doing[c]
  BY DEF IInv, Holds
<1>3. approval' \in [Approvals -> Approval]
  BY <1>1 DEF TypeOK
<1>4. Holds'
  BY <1>1, EndFacts DEF IInv, TypeOK, Holds, Committing, Linking
<1>5. Prepared'
  <2>1. \A k \in Calls \ {c} : pc[k] \in Committing => approval'[doing[k]] = approval[doing[k]]
    BY <1>1, <1>2 DEF IInv, TypeOK, Holds
  <2> QED
    BY <1>1, <2>1, EndFacts DEF IInv, Prepared, Committing, Linking
<1>6. ApprovalMatchesResults'
  BY <1>1 DEF IInv, TypeOK, ApprovalMatchesResults
<1>7. \A a \in Approvals :
        approval'[a].ref # NoDoc => approval'[a].ref \in Targets[a]
  BY <1>1 DEF IInv, TypeOK, RaisedForSaved
<1> QED
  BY <1>1, <1>2, <1>3, <1>4, <1>5, <1>6, <1>7

\* An approval without a document, or whose status stays what it is.
LEMMA CommitIInv ==
  ASSUME IInv, NEW c \in Calls, Commit(c)
  PROVE  IInv'
<1> DEFINE a == doing[c]
           e == next[c]
<1>1. /\ pc[c] = "commit" /\ pc[c] \in Committing /\ CommitApproval(c)
      /\ UNCHANGED <<doc, items, lastChecked>>
  BY DEF Commit, Committing
<1>2. /\ a \in Approvals /\ End(c) /\ TypeOK
      /\ approval' = [approval EXCEPT ![a] = e]
      /\ approval' \in [Approvals -> Approval]
      /\ Holds' /\ Prepared' /\ ApprovalMatchesResults'
      /\ \A k \in Calls \ {c} : pc[k] \in Committing => doing[k] # a
      /\ \A b \in Approvals : approval'[b].ref # NoDoc => approval'[b].ref \in Targets[b]
  BY <1>1, CommitFacts
<1>3. /\ Follows(approval[a], e)
      /\ e.ref = NoDoc \/ e.status \in {"T", approval[a].status}
  BY <1>1 DEF IInv, Prepared
<1> HIDE DEF a, e
<1>4. \A b \in Approvals, d \in Docs :
        /\ Raised(b, d)' <=> Raised(b, d)
        /\ Raised(b, d) => approval'[b].status = approval[b].status
  <2> SUFFICES ASSUME NEW b \in Approvals, NEW d \in Docs
               PROVE  /\ Raised(b, d)' <=> Raised(b, d)
                      /\ Raised(b, d) => approval'[b].status = approval[b].status
    OBVIOUS
  <2>1. CASE b = a
    BY <1>2, <1>3, <2>1, NameAssumption DEF TypeOK, Raised, Follows
  <2>2. CASE b # a
    BY <1>2, <2>2 DEF TypeOK, Raised
  <2> QED
    BY <2>1, <2>2
<1>5. TypeOK'
  BY <1>1, <1>2, EndFacts DEF TypeOK
<1>6. EditorHolds' /\ Deleting'
  BY <1>1, <1>2, EndFacts DEF IInv, EditorHolds, Deleting, IsDraft
<1>7. Recording'
  <2>1. \A k \in Calls \ {c} :
          pc[k] \in Committing => approval'[doing[k]] = approval[doing[k]]
    BY <1>2 DEF IInv, TypeOK, Holds
  <2> QED
    BY <1>1, <1>2, <2>1, EndFacts DEF IInv, Recording, Committing, Linking
<1>8. RaisedForSaved'
  BY <1>1, <1>2, <1>4 DEF IInv, RaisedForSaved
<1>9. DocumentFollowsApproval'
  <2>1. \A d \in Sole : d \in Docs /\ Live(d)' = Live(d) /\ doc'[d] = doc[d]
    BY <1>1 DEF Sole, Live
  <2> QED
    BY <1>4, <2>1 DEF IInv, DocumentFollowsApproval
<1>10. HeaderMatchesItems' /\ CheckCycleIsConfirmed'
  BY <1>1 DEF IInv, HeaderMatchesItems, CheckCycleIsConfirmed, Live
<1> QED
  BY <1>2, <1>5, <1>6, <1>7, <1>8, <1>9, <1>10 DEF IInv

LEMMA FindRecordIInv ==
  ASSUME IInv, NEW c \in Calls, FindRecord(c)
  PROVE  IInv'
<1> DEFINE d == on[c]
           a == doing[c]
           row == [doc[d] EXCEPT !.status = next[c].status]
<1>1. /\ pc[c] = "link" /\ d \in Records /\ Live(d)
      /\ pc' = [pc EXCEPT ![c] = "linkSelect"] /\ copy' = [copy EXCEPT ![c] = row]
      /\ UNCHANGED <<dbVars, locks, on, doing, content, next, columns>> /\ TypeOK
  BY DEF FindRecord, IInv
<1>2. /\ row \in Entity /\ row.status = next[c].status
      /\ row.header = doc[d].header
  <2>1. doc[d] \in Entity /\ next[c] \in Approval
    BY <1>1, DocumentAssumption DEF TypeOK
  <2>2. row = [status |-> next[c].status, deleted |-> doc[d].deleted,
               header |-> doc[d].header]
    BY <2>1 DEF Entity
  <2> QED
    BY <2>1, <2>2 DEF Entity, Approval
<1>3. d \in Sole => doc[d].status = IF approval[a].status = "P" THEN "P" ELSE "T"
  <2>1. /\ a \in Approvals /\ Follows(approval[a], next[c])
        /\ next[c].ref = d /\ d # NoDoc /\ d \in Targets[a]
    BY <1>1 DEF IInv, Holds, Prepared, Committing, Linking
  <2>2. CASE approval[a].status = "P"
    BY <1>1, <2>1, <2>2 DEF IInv, DocumentFollowsApproval, Raised, Follows
  <2>3. CASE approval[a].status # "P"
    <3>1. d \in Sole => \A b \in Approvals : ~Raised(b, d)
      BY <2>1, <2>3 DEF IInv, RaisedForSaved, Raised, Sole, Follows
    <3> QED
      BY <1>1, <2>3, <3>1 DEF IInv, DocumentFollowsApproval
  <2> QED
    BY <2>2, <2>3
<1> HIDE DEF row
<1>4. TypeOK'
  BY <1>1, <1>2 DEF TypeOK, dbVars, locks, Phases
<1>5. Holds' /\ Prepared'
  BY <1>1 DEF IInv, TypeOK, Holds, Prepared, Committing, Linking, dbVars, locks
<1>6. EditorHolds' /\ Deleting'
  BY <1>1 DEF IInv, TypeOK, EditorHolds, Deleting, IsDraft, dbVars, locks
<1>7. Recording'
  BY <1>1, <1>2, <1>3 DEF IInv, TypeOK, Recording, Live, dbVars
<1>8. /\ RaisedForSaved' /\ ApprovalMatchesResults' /\ HeaderMatchesItems'
      /\ DocumentFollowsApproval' /\ CheckCycleIsConfirmed'
  BY <1>1 DEF IInv, RaisedForSaved, Raised, ApprovalMatchesResults,
     HeaderMatchesItems, DocumentFollowsApproval, CheckCycleIsConfirmed, Live,
     dbVars
<1> QED
  BY <1>4, <1>5, <1>6, <1>7, <1>8 DEF IInv

\* The status of the document and of its approval change together.
LEMMA LinkedIInv ==
  ASSUME IInv, NEW c \in Calls, pc[c] \in Linking, CommitApproval(c),
         NEW row \in Entity, doc' = [doc EXCEPT ![on[c]] = row],
         doc[on[c]].status # "none", row.status # "none",
         docLock[on[c]] = NoCall, UNCHANGED items,
         on[c] \in Sole => row.status = next[c].status,
         on[c] \notin Records => /\ row.header = doc[on[c]].header
                                 /\ row.deleted = doc[on[c]].deleted
                                 /\ row.status = next[c].status,
         IF on[c] \in Records /\ next[c].status = "C"
         THEN lastChecked' = on[c] ELSE lastChecked' = lastChecked,
         lastChecked = on[c] /\ on[c] \in Sole => next[c].status = "C"
  PROVE  IInv'
<1> DEFINE d == on[c]
           a == doing[c]
           e == next[c]
<1>1. /\ a \in Approvals /\ End(c) /\ TypeOK
      /\ approval' = [approval EXCEPT ![a] = e]
      /\ approval' \in [Approvals -> Approval]
      /\ Holds' /\ Prepared' /\ ApprovalMatchesResults'
      /\ \A k \in Calls \ {c} : pc[k] \in Committing => doing[k] # a
      /\ \A b \in Approvals : approval'[b].ref # NoDoc => approval'[b].ref \in Targets[b]
  BY CommitFacts DEF Committing
<1>2. /\ Follows(approval[a], e) /\ d = e.ref /\ d # NoDoc /\ d \in Docs
      /\ d \in Targets[a] /\ e.status \in {"P", "C", "R"}
  <2>1. pc[c] \in Committing /\ pc[c] # "commit"
    BY DEF Committing, Linking
  <2>2. /\ Follows(approval[a], e) /\ d = e.ref /\ d # NoDoc
        /\ d \in Targets[a] /\ e.status # "T"
    BY <2>1 DEF IInv, Prepared
  <2>3. d \in Docs
    BY <1>1, <2>2 DEF TypeOK
  <2> QED
    BY <2>2, <2>3 DEF Follows
<1>3. /\ doc' = [doc EXCEPT ![d] = row] /\ docLock[d] = NoCall
      /\ doc[d].status # "none"
  OBVIOUS
<1>4. /\ d \in Sole => row.status = e.status
      /\ d \notin Records => /\ row.header = doc[d].header
                             /\ row.deleted = doc[d].deleted
  OBVIOUS
<1>5. /\ IF d \in Records /\ e.status = "C" THEN lastChecked' = d
                                            ELSE lastChecked' = lastChecked
      /\ lastChecked = d /\ d \in Sole => e.status = "C"
      /\ pc[c] \in Committing
  BY DEF Committing
<1> HIDE DEF d, a, e
<1>6. TypeOK'
  <2>0. row \in Entity /\ doc \in [Docs -> Entity] /\ items \in [Docs -> Bodies]
    BY <1>1 DEF TypeOK
  <2>1. doc' \in [Docs -> Entity] /\ items' \in [Docs -> Bodies]
    BY <2>0, <1>3
  <2>2. lastChecked' \in Records \union {NoDoc}
    BY <1>1, <1>5 DEF TypeOK
  <2> QED
    BY <1>1, <2>1, <2>2, EndFacts DEF TypeOK
<1>7. EditorHolds'
  BY <1>1, <1>2, <1>3, EndFacts, CallNames DEF IInv, TypeOK, EditorHolds,
     IsDraft
<1>8. Deleting'
  BY <1>1, <1>2, <1>3, <1>4, EndFacts DEF IInv, TypeOK, Deleting
<1>9. Recording'
  <2>1. ASSUME NEW k \in Calls \ {c}, pc[k] \in {"linkSelect", "linkSave"}
        PROVE  /\ approval'[doing[k]] = approval[doing[k]]
               /\ on[k] \in Sole => on[k] # d
    <3>1. /\ pc[k] \in Committing /\ doing[k] \in Approvals
          /\ on[k] = next[k].ref /\ on[k] # NoDoc /\ on[k] \in Targets[doing[k]]
      BY <2>1 DEF IInv, Holds, Prepared, Committing, Linking
    <3>2. doing[k] # a
      BY <1>1, <3>1
    <3> QED
      BY <1>1, <1>2, <3>1, <3>2 DEF TypeOK, Sole
  <2> SUFFICES ASSUME NEW k \in Calls, pc'[k] \in {"linkSelect", "linkSave"}
               PROVE  /\ on'[k] \in Records /\ doc'[on'[k]].status # "none"
                      /\ copy'[k].status = next'[k].status
                      /\ on'[k] \in Sole =>
                           /\ doc'[on'[k]].status =
                                IF approval'[doing'[k]].status = "P" THEN "P" ELSE "T"
                           /\ doc'[on'[k]].status = "P" =>
                                copy'[k].header = doc'[on'[k]].header
                           /\ pc'[k] = "linkSave" => "status" \in columns'[k]
    BY DEF Recording
  <2>2. /\ k # c /\ pc[k] \in {"linkSelect", "linkSave"} /\ pc'[k] = pc[k]
        /\ on'[k] = on[k] /\ doing'[k] = doing[k] /\ next'[k] = next[k]
        /\ copy'[k] = copy[k] /\ columns'[k] = columns[k]
    BY <1>1, EndFacts
  <2>3. /\ on[k] \in Docs /\ doc'[on[k]].status # "none"
        /\ on[k] \in Sole => doc'[on[k]] = doc[on[k]]
    BY <1>1, <1>2, <1>3, <2>1, <2>2, DocumentAssumption DEF IInv, TypeOK, Recording
  <2> QED
    BY <2>1, <2>2, <2>3 DEF IInv, Recording
<1>10. RaisedForSaved'
  BY <1>1, <1>2, <1>3 DEF IInv, TypeOK, RaisedForSaved, Raised
<1>11. HeaderMatchesItems'
  BY <1>1, <1>2, <1>3, <1>4 DEF IInv, TypeOK, HeaderMatchesItems, Live
<1>12. DocumentFollowsApproval'
  <2> SUFFICES ASSUME NEW k \in Sole, Live(k)'
               PROVE  /\ \A b \in Approvals :
                           Raised(b, k)' => doc'[k].status = approval'[b].status
                      /\ (\A b \in Approvals : ~Raised(b, k)') => doc'[k].status = "T"
    BY DEF DocumentFollowsApproval
  <2>1. CASE k = d
    <3>1. \A b \in Approvals \ {a} : ~Raised(b, k)'
      BY <1>1, <1>2, <2>1, CallNames DEF TypeOK, Raised, Sole
    <3> QED
      BY <1>1, <1>2, <1>3, <1>4, <2>1, <3>1 DEF TypeOK, Raised
  <2>2. CASE k # d
    <3>1. k \in Docs /\ doc'[k] = doc[k] /\ Live(k)
      BY <1>1, <1>3, <2>2 DEF TypeOK, Live, Sole
    <3>2. \A b \in Approvals : /\ Raised(b, k)' <=> Raised(b, k)
                               /\ Raised(b, k) => approval'[b] = approval[b]
      BY <1>1, <1>2, <2>2 DEF TypeOK, Raised, Follows
    <3> QED
      BY <3>1, <3>2 DEF IInv, DocumentFollowsApproval
  <2> QED
    BY <2>1, <2>2
<1>13. CheckCycleIsConfirmed'
  BY <1>1, <1>2, <1>3, <1>4, <1>5 DEF IInv, TypeOK, CheckCycleIsConfirmed, Sole
<1> QED
  BY <1>1, <1>6, <1>7, <1>8, <1>9, <1>10, <1>11, <1>12, <1>13 DEF IInv

LEMMA LinkIInv ==
  ASSUME IInv, NEW c \in Calls, Link(c)
  PROVE  IInv'
<1> DEFINE d == on[c]
           row == [doc[d] EXCEPT !.status = next[c].status]
<1>1. /\ pc[c] = "link" /\ d \notin Records /\ docLock[d] = NoCall /\ Live(d)
      /\ doc' = [doc EXCEPT ![d] = row] /\ CommitApproval(c)
      /\ UNCHANGED <<items, lastChecked>> /\ TypeOK
  BY DEF Link, IInv
<1>2. d \in Docs /\ next[c] \in Approval /\ next[c].status # "none" /\ doc[d] \in Entity
  BY <1>1 DEF IInv, Prepared, Committing, Linking, Follows, TypeOK
<1>3. row = [status |-> next[c].status, deleted |-> doc[d].deleted,
             header |-> doc[d].header]
  BY <1>2 DEF Entity
<1>4. /\ row \in Entity /\ row.status = next[c].status
      /\ row.deleted = doc[d].deleted /\ row.header = doc[d].header
  BY <1>2, <1>3 DEF Entity, Approval
<1>5. lastChecked # d
  BY <1>1, <1>2, NameAssumption DEF TypeOK
<1> HIDE DEF row
<1> QED
  BY <1>1, <1>2, <1>4, <1>5, LinkedIInv DEF Linking, Live

LEMMA SaveRecordIInv ==
  ASSUME IInv, NEW c \in Calls, SaveRecord(c)
  PROVE  IInv'
<1> DEFINE d == on[c]
           row == Written(c, on[c])
<1>1. /\ pc[c] = "linkSave" /\ docLock[d] = NoCall
      /\ doc' = [doc EXCEPT ![d] = row] /\ CommitApproval(c)
      /\ lastChecked' = IF next[c].status = "C" THEN d ELSE lastChecked
      /\ UNCHANGED items /\ TypeOK
  BY DEF SaveRecord, IInv
<1>2. /\ d \in Records /\ d \in Docs /\ doc[d].status # "none"
      /\ copy[c].status = next[c].status /\ next[c].status # "none"
      /\ d \in Sole => "status" \in columns[c] /\ doc[d].status # "C"
  BY <1>1, DocumentAssumption DEF IInv, Recording, Prepared, Committing, Linking, Follows
<1>3. /\ row \in Entity /\ row.status # "none"
      /\ d \in Sole => row.status = next[c].status
  BY <1>1, <1>2, WrittenFacts
<1>4. ~(lastChecked = d /\ d \in Sole)
  BY <1>2 DEF IInv, CheckCycleIsConfirmed
<1> HIDE DEF row
<1> QED
  BY <1>1, <1>2, <1>3, <1>4, LinkedIInv DEF Linking

LEMMA NextIInv ==
  ASSUME IInv, [Next]_vars
  PROVE  IInv'
<1>1. ASSUME NEW d \in Docs, NEW b \in Bodies, Create(d, b) PROVE IInv'
  BY <1>1, CreateIInv
<1>2. ASSUME NEW c \in Calls, Proceed(c) \/ Fail(c) PROVE IInv'
  BY <1>2, FailIInv, EditIInv, SelectIInv, DeleteSaveIInv, CommitIInv,
     LinkIInv, FindRecordIInv, SaveRecordIInv DEF Proceed
<1>3. ASSUME NEW c \in Calls, NEW d \in Docs,
             \/ LockRecord(c, d) \/ FindDraft(c, d)
             \/ \E b \in Bodies : LockDraft(c, d, b)
      PROVE  IInv'
  BY <1>3, StartIInv
<1>4. ASSUME NEW c \in Calls, NEW a \in Approvals,
             \/ DeleteApproval(c, a)
             \/ \E i \in DOMAIN approval[a].result, u \in Users :
                  Approve(c, a, i, u) \/ Reject(c, a, i, u)
             \/ \E ref \in Targets[a], line \in Lines \union {<<>>} :
                  SaveApproval(c, a, ref, line)
             \/ \E ref \in Targets[a], line \in Lines : Submit(c, a, ref, line)
      PROVE  IInv'
  BY <1>4, ApprovalIInv
<1>5. CASE UNCHANGED vars
  BY <1>5 DEF IInv, vars, dbVars, locks, callVars, TypeOK, Holds, Prepared,
     EditorHolds, IsDraft, Deleting, Recording, RaisedForSaved, Raised,
     ApprovalMatchesResults, HeaderMatchesItems, Live,
     DocumentFollowsApproval, CheckCycleIsConfirmed
<1> QED
  BY <1>1, <1>2, <1>3, <1>4, <1>5 DEF Next

THEOREM Invariance == Spec => []IInv
  BY InitIInv, NextIInv, PTL DEF Spec

-----------------------------------------------------------------------------
(***************************************************************************)
(* The theorems.                                                           *)
(***************************************************************************)
\* A live document has the status of its approval, whatever drafts,
\* deletions and decisions run at once.
THEOREM DocumentsFollowApprovals == Spec => []DocumentFollowsApproval
  BY Invariance, PTL DEF IInv

\* The status of an approval is what the results of its line say.
THEOREM ApprovalsMatchResults == Spec => []ApprovalMatchesResults
  BY Invariance, PTL DEF IInv

\* saveDraft replaces the items under the lock it saves the header with.
THEOREM HeadersMatchItems == Spec => []HeaderMatchesItems
  BY Invariance, PTL DEF IInv

\* The check cycle is written in the transaction that confirms the record.
THEOREM CheckCyclesAreConfirmed == Spec => []CheckCycleIsConfirmed
  BY Invariance, PTL DEF IInv

\* Steps other than the commits of the lock holder leave approvals alone.
LEMMA ApprovalChanges ==
  ASSUME [Next]_vars
  PROVE  \/ approval' = approval
         \/ \E c \in Calls : pc[c] \in Committing /\ CommitApproval(c)
<1>1. ASSUME NEW c \in Calls, Proceed(c)
      PROVE  approval' = approval \/ (pc[c] \in Committing /\ CommitApproval(c))
  BY <1>1 DEF Proceed, Edit, DeleteRecord, DeleteSelect, DeleteSave, Commit,
     Link, FindRecord, LinkSelect, SaveRecord, Select, dbVars, Committing,
     Linking
<1>2. ASSUME NEW c \in Calls, Fail(c) PROVE approval' = approval
  BY <1>2 DEF Fail, dbVars
<1>3. ASSUME NEW d \in Docs, NEW b \in Bodies, Create(d, b)
      PROVE  approval' = approval
  BY <1>3 DEF Create
<1>4. ASSUME NEW c \in Calls, NEW d \in Docs,
             \/ LockRecord(c, d) \/ FindDraft(c, d)
             \/ \E b \in Bodies : LockDraft(c, d, b)
      PROVE  approval' = approval
  BY <1>4 DEF LockRecord, FindDraft, LockDraft, LockDoc, dbVars
<1>5. ASSUME NEW c \in Calls, NEW a \in Approvals, NEW e, NEW linked,
             Prepare(c, a, e, linked)
      PROVE  approval' = approval
  BY <1>5 DEF Prepare, dbVars
<1>6. ASSUME NEW c \in Calls, NEW a \in Approvals,
             \/ DeleteApproval(c, a)
             \/ \E i \in DOMAIN approval[a].result, u \in Users :
                  Approve(c, a, i, u) \/ Reject(c, a, i, u)
             \/ \E ref \in Targets[a], line \in Lines \union {<<>>} :
                  SaveApproval(c, a, ref, line)
             \/ \E ref \in Targets[a], line \in Lines : Submit(c, a, ref, line)
      PROVE  approval' = approval
  BY <1>5, <1>6 DEF DeleteApproval, Approve, Reject, SaveApproval, Submit
<1>7. CASE UNCHANGED vars
  BY <1>7 DEF vars, dbVars
<1> QED
  BY <1>1, <1>2, <1>3, <1>4, <1>6, <1>7 DEF Next

\* A decision is taken once: two calls on one step, one approver's double
\* click among them, never replace each other's result.
DecidedOnce ==
  [][\A a \in Approvals : \A i \in DOMAIN approval[a].result :
       approval[a].result[i] # "none" =>
         /\ i \in DOMAIN approval'[a].result
         /\ approval'[a].result[i] = approval[a].result[i]]_vars

\* What is committed follows from the row the call has locked, decisions
\* included.
THEOREM DecisionsStand == Spec => DecidedOnce
<1>1. ASSUME IInv, [Next]_vars, NEW a \in Approvals,
             NEW i \in DOMAIN approval[a].result, approval[a].result[i] # "none"
      PROVE  /\ i \in DOMAIN approval'[a].result
             /\ approval'[a].result[i] = approval[a].result[i]
  <2>1. CASE approval' = approval
    BY <1>1, <2>1
  <2>2. ASSUME NEW c \in Calls, pc[c] \in Committing, CommitApproval(c)
        PROVE  /\ i \in DOMAIN approval'[a].result
               /\ approval'[a].result[i] = approval[a].result[i]
    <3>1. /\ doing[c] \in Approvals /\ Follows(approval[doing[c]], next[c])
          /\ approval' = [approval EXCEPT ![doing[c]] = next[c]]
          /\ approval \in [Approvals -> Approval]
      BY <1>1, <2>2 DEF IInv, Holds, Prepared, CommitApproval, TypeOK
    <3> QED
      BY <1>1, <3>1 DEF Follows
  <2> QED
    BY <1>1, <2>1, <2>2, ApprovalChanges
<1>2. IInv /\ [Next]_vars =>
        [\A a \in Approvals : \A i \in DOMAIN approval[a].result :
           approval[a].result[i] # "none" =>
             /\ i \in DOMAIN approval'[a].result
             /\ approval'[a].result[i] = approval[a].result[i]]_vars
  BY <1>1
<1> QED
  BY Invariance, <1>2, PTL DEF Spec, DecidedOnce

\* Editors hold a draft; a deletion deletes; the save of a record writes
\* back the content it has read.
THEOREM UnderApprovalStaysFrozen == Spec => UnderApprovalIsFrozen
<1>1. ASSUME IInv, [Next]_vars, NEW d \in (Docs \ Records) \union Sole,
             Live(d), doc[d].status \in {"P", "C", "R"}, ~doc'[d].deleted
      PROVE  doc'[d].header = doc[d].header /\ items'[d] = items[d]
  <2>1. d \in Docs /\ doc \in [Docs -> Entity]
    BY <1>1 DEF Sole, IInv, TypeOK
  <2>2. ASSUME NEW c \in Calls, Proceed(c)
        PROVE  doc'[d].header = doc[d].header /\ items'[d] = items[d]
    <3>1. CASE Edit(c) \/ DeleteRecord(c)
      <4>1. on[c] # d
        BY <1>1, <3>1 DEF IInv, EditorHolds, IsDraft, Edit, DeleteRecord
      <4>2. on[c] \in Docs /\ items \in [Docs -> Bodies]
        BY <1>1, <3>1 DEF IInv, TypeOK, EditorHolds, Edit, DeleteRecord
      <4>3. doc'[d] = doc[d] /\ items'[d] = items[d]
        <5>1. CASE Edit(c)
          BY <2>1, <4>1, <4>2, <5>1 DEF Edit
        <5>2. CASE DeleteRecord(c)
          BY <2>1, <4>1, <4>2, <5>2 DEF DeleteRecord
        <5> QED
          BY <3>1, <5>1, <5>2
      <4> QED
        BY <4>3
    <3>2. CASE DeleteSave(c)
      <4>1. /\ on[c] \in Docs /\ doc' = [doc EXCEPT ![on[c]] = Written(c, on[c])]
            /\ Written(c, on[c]).deleted /\ items' = items
        BY <1>1, <3>2, WrittenFacts DEF IInv, Deleting, DeleteSave
      <4> QED
        BY <1>1, <2>1, <4>1
    <3>3. CASE Link(c)
      BY <2>1, <3>3 DEF Link, Entity
    <3>4. CASE SaveRecord(c)
      <4>1. /\ on[c] \in Docs /\ doc' = [doc EXCEPT ![on[c]] = Written(c, on[c])]
            /\ items' = items /\ pc[c] = "linkSave" /\ on[c] \in Records
        BY <1>1, <3>4, DocumentAssumption DEF IInv, Recording, SaveRecord
      <4>2. on[c] = d => d \in Sole /\ doc[d].status = "P"
        BY <1>1, <4>1 DEF IInv, Recording
      <4>3. on[c] = d => Written(c, on[c]).header = doc[d].header
        BY <1>1, <2>1, <4>1, <4>2, WrittenFacts DEF IInv, Recording
      <4> QED
        BY <2>1, <4>1, <4>3
    <3>5. CASE UNCHANGED <<doc, items>>
      BY <3>5
    <3> QED
      BY <2>2, <3>1, <3>2, <3>3, <3>4, <3>5 DEF Proceed, DeleteSelect, Commit,
         FindRecord, LinkSelect, Select, dbVars
  <2>3. ASSUME NEW k \in Docs, NEW b \in Bodies, Create(k, b)
        PROVE  doc'[d].header = doc[d].header /\ items'[d] = items[d]
    <3>1. k # d
      BY <1>1, <2>3 DEF Create
    <3> QED
      BY <1>1, <2>1, <2>3, <3>1 DEF Create, IInv, TypeOK
  <2>4. ASSUME NEW c \in Calls, Fail(c) PROVE UNCHANGED <<doc, items>>
    BY <2>4 DEF Fail, dbVars
  <2>5. ASSUME NEW c \in Calls, NEW k \in Docs,
               \/ LockRecord(c, k) \/ FindDraft(c, k)
               \/ \E b \in Bodies : LockDraft(c, k, b)
        PROVE  UNCHANGED <<doc, items>>
    BY <2>5 DEF LockRecord, FindDraft, LockDraft, LockDoc, dbVars
  <2>6. ASSUME NEW c \in Calls, NEW a \in Approvals,
               \/ DeleteApproval(c, a)
               \/ \E i \in DOMAIN approval[a].result, u \in Users :
                    Approve(c, a, i, u) \/ Reject(c, a, i, u)
               \/ \E ref \in Targets[a], line \in Lines \union {<<>>} :
                    SaveApproval(c, a, ref, line)
               \/ \E ref \in Targets[a], line \in Lines : Submit(c, a, ref, line)
        PROVE  UNCHANGED <<doc, items>>
    BY <2>6 DEF DeleteApproval, Approve, Reject, SaveApproval, Submit,
       Prepare, dbVars
  <2>7. UNCHANGED vars => UNCHANGED <<doc, items>>
    BY DEF vars, dbVars
  <2> QED
    BY <1>1, <2>2, <2>3, <2>4, <2>5, <2>6, <2>7 DEF Next
<1>2. IInv /\ [Next]_vars =>
        [\A d \in (Docs \ Records) \union Sole :
           Live(d) /\ doc[d].status \in {"P", "C", "R"} /\ ~doc'[d].deleted =>
             doc'[d].header = doc[d].header /\ items'[d] = items[d]]_vars
  BY <1>1
<1> QED
  BY Invariance, <1>2, PTL DEF Spec, UnderApprovalIsFrozen

-----------------------------------------------------------------------------
(***************************************************************************)
(* Documents implements ApprovalDesk.                                      *)
(*                                                                         *)
(* A call decides what to write of an approval when it locks it, and       *)
(* commits later: what it wrote down is still a step of the abstract       *)
(* approval then (Intended).  A call that deletes without a lock writes    *)
(* nothing but its own columns, the status it read among them              *)
(* (DraftCopies).                                                          *)
(***************************************************************************)
Intends(a, e) == AtDesk!Filed(a, e) \/ AtDesk!Raised(a, e) \/ AtDesk!Decided(a, e)

Intended ==
  \A c \in Calls : pc[c] \in Committing =>
    \A a \in {doing[c]}, e \in {next[c]} : Intends(a, e)

DraftCopies ==
  \A c \in Calls : pc[c] \in {"deleteSelect", "deleteSave"} => copy[c].status = "T"

\* A new version of an approval is one that its drafter may send.
LEMMA SentIntended ==
  ASSUME NEW a \in Approvals, Savable(a), NEW ref \in Targets[a],
         NEW status \in {"T", "P"}, NEW line,
         line \in IF status = "T" THEN Lines \union {<<>>} ELSE Lines,
         NEW e, e = [status |-> status, deleted |-> FALSE, ref |-> ref,
                     line |-> line, result |-> Undecided(line)]
  PROVE  IF status = "T" THEN AtDesk!Filed(a, e) ELSE AtDesk!Raised(a, e)
<1>1. /\ e.ref = ref /\ e.line = line /\ e.status = status
      /\ e = [status |-> status, deleted |-> FALSE, ref |-> e.ref,
              line |-> e.line, result |-> [i \in DOMAIN e.line |-> "none"]]
  BY DEF Undecided
<1> HIDE DEF Undecided
<1>2. AtDesk!Savable(a)
  BY DEF Savable, AtDesk!Savable
<1>3. CASE status = "T"
  <2>1. AtDesk!Fresh(a, e, "T", Lines \union {<<>>})
    BY <1>1, <1>3 DEF AtDesk!Fresh
  <2> QED
    BY <1>1, <1>2, <1>3, <2>1 DEF AtDesk!Filed
<1>4. CASE status = "P"
  <2>1. AtDesk!Fresh(a, e, "P", Lines)
    BY <1>1, <1>4 DEF AtDesk!Fresh
  <2> QED
    BY <1>1, <1>2, <1>4, <2>1 DEF AtDesk!Raised
<1> QED
  BY <1>3, <1>4

\* A decision is taken at the step that waits, and the last one ends it.
LEMMA DecisionIntended ==
  ASSUME TypeOK, NEW a \in Approvals, Explained(approval[a]),
         NEW i \in DOMAIN approval[a].result, NEW u, Deciding(a, i, u),
         NEW result \in {"yes", "no"}, NEW status,
         status = IF result = "no" THEN "R"
                  ELSE IF \A j \in DOMAIN approval[a].result :
                            approval[a].result[j] = "none" => j = i
                       THEN "C" ELSE "P",
         NEW e, e = [approval[a] EXCEPT !.result[i] = result, !.status = status]
  PROVE  AtDesk!Decided(a, e)
<1> DEFINE r == approval[a].result
<1>1. r \in Seq(Results) /\ approval[a].status = "P" /\ ~approval[a].deleted
  BY DEF TypeOK, Approval, Deciding
<1>2. i \in 1..Len(r) /\ Agreed(approval[a], i - 1) /\ Open(approval[a], i)
  BY CurrentStep DEF Deciding
<1>3. r[i] = "none"
  BY DEF Deciding, Current
<1>4. AtDesk!Waiting(a, i)
  BY <1>1, <1>2, <1>3 DEF AtDesk!Waiting, Agreed
<1>5. (\A j \in DOMAIN r : r[j] = "none" => j = i) <=> i = Len(r)
  <2>1. Len(r) \in DOMAIN r /\ Len(r) \in i..Len(r)
    BY <1>1, <1>2
  <2>2. r[Len(r)] = "none"
    BY <1>2, <2>1 DEF Open
  <2>3. ASSUME i = Len(r), NEW j \in DOMAIN r, r[j] = "none" PROVE j = i
    BY <1>1, <1>2, <2>3 DEF Agreed
  <2> QED
    BY <2>1, <2>2, <2>3
<1>6. status = AtDesk!Outcome(a, i, result)
  BY <1>5 DEF AtDesk!Outcome
<1> QED
  BY <1>4, <1>6 DEF AtDesk!Decided

DInv == Intended /\ DraftCopies

LEMMA InitDInv == Init => DInv
  BY DEF Init, DInv, Intended, DraftCopies, Committing, Linking

\* An approval that doesn't change can still take the step.
LEMMA StillIntends ==
  ASSUME NEW a, NEW e, approval'[a] = approval[a], Intends(a, e)
  PROVE  Intends(a, e)'
<1>1. CASE AtDesk!Filed(a, e)
  <2>1. AtDesk!Filed(a, e)'
    BY <1>1 DEF AtDesk!Filed, AtDesk!Savable, AtDesk!Fresh
  <2> QED
    BY <2>1 DEF Intends
<1>2. CASE AtDesk!Raised(a, e)
  <2>1. AtDesk!Raised(a, e)'
    BY <1>2 DEF AtDesk!Raised, AtDesk!Savable, AtDesk!Fresh
  <2> QED
    BY <2>1 DEF Intends
<1>3. CASE AtDesk!Decided(a, e)
  <2>1. PICK i \in DOMAIN approval[a].result, result \in {"yes", "no"} :
          /\ AtDesk!Waiting(a, i)
          /\ e = [approval[a] EXCEPT !.result[i] = result,
                                     !.status = AtDesk!Outcome(a, i, result)]
    BY <1>3 DEF AtDesk!Decided
  <2>2. AtDesk!Waiting(a, i)'
    BY <2>1 DEF AtDesk!Waiting
  <2>3. AtDesk!Outcome(a, i, result)' = AtDesk!Outcome(a, i, result)
    BY DEF AtDesk!Outcome
  <2>4. e = [approval'[a] EXCEPT !.result[i] = result,
                                 !.status = AtDesk!Outcome(a, i, result)']
    BY <2>1, <2>3
  <2>5. i \in DOMAIN approval'[a].result
    OBVIOUS
  <2>6. AtDesk!Decided(a, e)'
    BY <2>2, <2>4, <2>5 DEF AtDesk!Decided
  <2> QED
    BY <2>6 DEF Intends
<1> QED
  BY <1>1, <1>2, <1>3 DEF Intends

LEMMA StillIntended ==
  ASSUME \A k \in Calls : pc'[k] \in Committing =>
           \E a, e : /\ doing'[k] = a /\ next'[k] = e
                     /\ approval'[a] = approval[a] /\ Intends(a, e)
  PROVE  Intended'
<1> SUFFICES ASSUME NEW k \in Calls, pc'[k] \in Committing,
                    NEW a \in {doing'[k]}, NEW e \in {next'[k]}
             PROVE  Intends(a, e)'
  BY DEF Intended
<1>1. approval'[a] = approval[a] /\ Intends(a, e)
  OBVIOUS
<1> QED
  BY <1>1, StillIntends

\* A call that takes an approval writes down a step of it.
LEMMA PrepareDInv ==
  ASSUME IInv, DInv, NEW c \in Calls, NEW a \in Approvals, NEW e, NEW linked,
         Prepare(c, a, e, linked),
         Intends(a, e)
  PROVE  DInv'
<1>1. /\ pc[c] = "idle" /\ pc'[c] \notin {"deleteSelect", "deleteSave"}
      /\ doing'[c] = a /\ next'[c] = e
      /\ \A k \in Calls \ {c} :
           pc'[k] = pc[k] /\ doing'[k] = doing[k] /\ next'[k] = next[k]
      /\ UNCHANGED <<approval, copy>>
  BY DEF Prepare, Start, IInv, TypeOK, dbVars
<1>2. Intended'
  BY <1>1, StillIntended DEF DInv, Intended
<1>3. DraftCopies'
  BY <1>1 DEF DInv, DraftCopies
<1> QED
  BY <1>2, <1>3 DEF DInv

LEMMA ApprovalDInv ==
  ASSUME IInv, DInv, NEW c \in Calls, NEW a \in Approvals
  PROVE  /\ DeleteApproval(c, a) => DInv'
         /\ \A i \in DOMAIN approval[a].result, u \in Users :
              Approve(c, a, i, u) \/ Reject(c, a, i, u) => DInv'
         /\ \A ref \in Targets[a], line \in Lines \union {<<>>} :
              SaveApproval(c, a, ref, line) => DInv'
         /\ \A ref \in Targets[a], line \in Lines :
              Submit(c, a, ref, line) => DInv'
<1>1. TypeOK /\ Explained(approval[a]) /\ approval[a] \in Approval
  BY DEF IInv, ApprovalMatchesResults, TypeOK
<1>2. ASSUME DeleteApproval(c, a) PROVE DInv'
  <2> DEFINE e == [approval[a] EXCEPT !.deleted = TRUE]
  <2>1. e.status = "T" /\ AtDesk!Savable(a)
    BY <1>1, <1>2 DEF DeleteApproval, Approval, AtDesk!Savable
  <2>2. AtDesk!Filed(a, e)
    BY <1>2, <2>1 DEF DeleteApproval, AtDesk!Filed
  <2>3. Prepare(c, a, e, FALSE)
    BY <1>2 DEF DeleteApproval
  <2> HIDE DEF e
  <2> QED
    BY <2>2, <2>3, PrepareDInv DEF Intends
<1>3. ASSUME NEW i \in DOMAIN approval[a].result, NEW u \in Users,
             Approve(c, a, i, u)
      PROVE  DInv'
  <2> DEFINE last == \A j \in DOMAIN approval[a].result :
                       approval[a].result[j] = "none" => j = i
             status == IF last THEN "C" ELSE "P"
             e == [approval[a] EXCEPT !.result[i] = "yes", !.status = status]
  <2>1. Deciding(a, i, u) /\ Prepare(c, a, e, last)
    BY <1>3 DEF Approve
  <2>2. AtDesk!Decided(a, e)
    BY <1>1, <2>1, DecisionIntended
  <2> HIDE DEF e, last
  <2> QED
    BY <2>1, <2>2, PrepareDInv DEF Intends
<1>4. ASSUME NEW i \in DOMAIN approval[a].result, NEW u \in Users,
             Reject(c, a, i, u)
      PROVE  DInv'
  <2> DEFINE e == [approval[a] EXCEPT !.result[i] = "no", !.status = "R"]
  <2>1. Deciding(a, i, u) /\ Prepare(c, a, e, TRUE)
    BY <1>4 DEF Reject
  <2>2. AtDesk!Decided(a, e)
    BY <1>1, <2>1, DecisionIntended
  <2> HIDE DEF e
  <2> QED
    BY <2>1, <2>2, PrepareDInv DEF Intends
<1>5. ASSUME NEW ref \in Targets[a], NEW line \in Lines \union {<<>>},
             SaveApproval(c, a, ref, line)
      PROVE  DInv'
  <2> DEFINE e == [status |-> "T", deleted |-> FALSE, ref |-> ref,
                   line |-> line, result |-> Undecided(line)]
  <2>1. Savable(a) /\ Prepare(c, a, e, FALSE)
    BY <1>5 DEF SaveApproval
  <2>2. AtDesk!Filed(a, e)
    BY <2>1, SentIntended
  <2> HIDE DEF e
  <2> QED
    BY <2>1, <2>2, PrepareDInv DEF Intends
<1>6. ASSUME NEW ref \in Targets[a], NEW line \in Lines, Submit(c, a, ref, line)
      PROVE  DInv'
  <2> DEFINE e == [status |-> "P", deleted |-> FALSE, ref |-> ref,
                   line |-> line, result |-> Undecided(line)]
  <2>1. Savable(a) /\ Prepare(c, a, e, TRUE)
    BY <1>6 DEF Submit
  <2>2. AtDesk!Raised(a, e)
    BY <2>1, SentIntended
  <2> HIDE DEF e
  <2> QED
    BY <2>1, <2>2, PrepareDInv DEF Intends
<1> QED
  BY <1>2, <1>3, <1>4, <1>5, <1>6

\* A call that ends takes its intention with it, and the approval it may
\* have written is nobody else's.
LEMMA EndDInv ==
  ASSUME IInv, DInv, NEW c \in Calls, End(c),
         \/ approval' = approval
         \/ pc[c] \in Committing /\ CommitApproval(c)
  PROVE  DInv'
<1>1. TypeOK /\ Holds
  BY DEF IInv
<1>2. \A k \in Calls \ {c} : pc[k] \in Committing =>
        approval'[doing[k]] = approval[doing[k]]
  <2>1. CASE approval' = approval
    BY <2>1
  <2>2. CASE pc[c] \in Committing /\ CommitApproval(c)
    <3>1. /\ \A k \in Calls \ {c} : pc[k] \in Committing => doing[k] # doing[c]
          /\ approval' = [approval EXCEPT ![doing[c]] = next[c]]
      BY <2>2, CommitFacts
    <3> QED
      BY <1>1, <3>1 DEF TypeOK, Holds
  <2> QED
    BY <2>1, <2>2
<1>3. Intended'
  BY <1>1, <1>2, EndFacts, StillIntended DEF DInv, Intended, Committing, Linking
<1>4. DraftCopies'
  BY <1>1, EndFacts DEF DInv, DraftCopies
<1> QED
  BY <1>3, <1>4 DEF DInv

LEMMA NextDInv ==
  ASSUME IInv, DInv, [Next]_vars
  PROVE  DInv'
<1>1. ASSUME NEW c \in Calls, Proceed(c) \/ Fail(c) PROVE DInv'
  <2>1. CASE Edit(c) \/ DeleteRecord(c) \/ DeleteSave(c) \/ Fail(c)
    BY <2>1, EndDInv DEF Edit, DeleteRecord, DeleteSave, Fail, dbVars
  <2>2. CASE Commit(c) \/ Link(c) \/ SaveRecord(c)
    BY <2>2, EndDInv DEF Commit, Link, SaveRecord, CommitApproval, Committing,
       Linking
  <2>3. CASE DeleteSelect(c) \/ FindRecord(c) \/ LinkSelect(c)
    <3>1. /\ UNCHANGED <<approval, doing, next>>
          /\ \A k \in Calls \ {c} : pc'[k] = pc[k] /\ copy'[k] = copy[k]
          /\ pc'[c] \in Committing => pc[c] \in Committing
          /\ pc'[c] \in {"deleteSelect", "deleteSave"} =>
               pc[c] = "deleteSelect" /\ copy'[c] = copy[c]
      BY <2>3 DEF DeleteSelect, FindRecord, LinkSelect, Select, dbVars,
         IInv, TypeOK, Committing, Linking
    <3>2. Intended'
      BY <3>1, StillIntended DEF DInv, Intended
    <3>3. DraftCopies'
      BY <3>1 DEF DInv, DraftCopies
    <3> QED
      BY <3>2, <3>3 DEF DInv
  <2> QED
    BY <1>1, <2>1, <2>2, <2>3 DEF Proceed
<1>2. ASSUME NEW c \in Calls, NEW d \in Docs,
             \/ LockRecord(c, d) \/ FindDraft(c, d)
             \/ \E b \in Bodies : LockDraft(c, d, b)
      PROVE  DInv'
  <2>1. /\ UNCHANGED <<approval, doing, next>>
        /\ \A k \in Calls \ {c} : pc'[k] = pc[k] /\ copy'[k] = copy[k]
        /\ pc'[c] \notin Committing
    BY <1>2 DEF LockRecord, FindDraft, LockDraft, LockDoc, Start, dbVars,
       IInv, TypeOK, Committing, Linking
  <2>2. pc'[c] \in {"deleteSelect", "deleteSave"} => copy'[c].status = "T"
    <3>1. CASE FindDraft(c, d)
      <4> DEFINE e == [doc[d] EXCEPT !.deleted = TRUE]
      <4>1. e.status = "T"
        BY <3>1, DeletedFacts DEF FindDraft, IsDraft, IInv, TypeOK
      <4>2. copy' = [copy EXCEPT ![c] = e]
        BY <3>1 DEF FindDraft
      <4> HIDE DEF e
      <4> QED
        BY <4>1, <4>2 DEF IInv, TypeOK
    <3>2. CASE LockRecord(c, d) \/ \E b \in Bodies : LockDraft(c, d, b)
      BY <3>2 DEF LockRecord, LockDraft, Start, IInv, TypeOK
    <3> QED
      BY <1>2, <3>1, <3>2
  <2>3. Intended'
    BY <2>1, StillIntended DEF DInv, Intended
  <2>4. DraftCopies'
    BY <2>1, <2>2 DEF DInv, DraftCopies
  <2> QED
    BY <2>3, <2>4 DEF DInv
<1>3. ASSUME NEW c \in Calls, NEW a \in Approvals,
             \/ DeleteApproval(c, a)
             \/ \E i \in DOMAIN approval[a].result, u \in Users :
                  Approve(c, a, i, u) \/ Reject(c, a, i, u)
             \/ \E ref \in Targets[a], line \in Lines \union {<<>>} :
                  SaveApproval(c, a, ref, line)
             \/ \E ref \in Targets[a], line \in Lines : Submit(c, a, ref, line)
      PROVE  DInv'
  BY <1>3, ApprovalDInv
<1>4. ASSUME UNCHANGED <<approval, callVars>> PROVE DInv'
  BY <1>4, StillIntended DEF DInv, Intended, DraftCopies, callVars
<1>5. ASSUME NEW d \in Docs, NEW b \in Bodies, Create(d, b) PROVE DInv'
  BY <1>4, <1>5 DEF Create
<1>6. CASE UNCHANGED vars
  BY <1>4, <1>6 DEF vars, dbVars
<1> QED
  BY <1>1, <1>2, <1>3, <1>5, <1>6 DEF Next

LEMMA DInvariance == Spec => []DInv
<1>1. IInv /\ DInv /\ [Next]_vars => DInv'
  BY NextDInv
<1> QED
  BY InitDInv, Invariance, <1>1, PTL DEF Spec

LEMMA InitDesk == Init => AtDesk!Init
  BY DEF Init, AtDesk!Init, Absent, NotRaised, AnyBody, AtDesk!AnyBody

\* A draft is written under its lock.
LEMMA WriteTakesEffect ==
  ASSUME IInv, NEW c \in Calls, Edit(c) \/ DeleteRecord(c)
  PROVE  AtDesk!Next
<1>1. PICK d \in Docs : d = on[c]
  BY DEF IInv, EditorHolds, Edit, DeleteRecord
<1>2. /\ AtDesk!Draft(d) /\ doc \in [Docs -> Entity]
      /\ items \in [Docs -> Bodies] /\ UNCHANGED <<approval, lastChecked>>
  BY <1>1 DEF IInv, EditorHolds, IsDraft, TypeOK, Edit, DeleteRecord, AtDesk!Draft
<1>3. CASE Edit(c)
  <2>1. /\ doc' = [doc EXCEPT ![d] =
             [status |-> "T", deleted |-> FALSE, header |-> content[c]]]
        /\ items' = [items EXCEPT ![d] = content[c]]
    BY <1>1, <1>3 DEF Edit
  <2>2. /\ doc'[d] = [status |-> "T", deleted |-> FALSE, header |-> content[c]]
        /\ items'[d] = content[c]
    BY <1>2, <2>1
  <2>3. AtDesk!Write(d)
    BY <1>2, <2>1, <2>2 DEF AtDesk!Write, AtDesk!OnlyDoc
  <2> QED
    BY <2>3 DEF AtDesk!Next
<1>4. CASE DeleteRecord(c)
  <2>1. /\ doc' = [doc EXCEPT ![d].deleted = TRUE] /\ UNCHANGED items
        /\ pc[c] = "deleteRecord"
    BY <1>1, <1>4 DEF DeleteRecord
  <2>2. doc'[d] = [doc[d] EXCEPT !.deleted = TRUE] /\ doc'[d] \in AtDesk!Remainders(d)
    <3> DEFINE row == [doc[d] EXCEPT !.deleted = TRUE]
    <3>1. doc'[d] = row
      BY <1>2, <2>1
    <3>2. row \in Entity /\ row.deleted = TRUE /\ row.status = doc[d].status
      BY <1>2, DeletedFacts
    <3> HIDE DEF row
    <3>3. row \in AtDesk!Remainders(d)
      BY <3>2 DEF Entity, AtDesk!Remainders
    <3> QED
      BY <3>1, <3>3 DEF row
  <2>3. AtDesk!OnlyDoc(d)
    BY <1>2, <2>1, <2>2 DEF AtDesk!OnlyDoc
  <2>4. AtDesk!Remove(d)
    BY <1>2, <2>1, <2>2, <2>3 DEF AtDesk!Remove, AtDesk!Draft
  <2> QED
    BY <2>4 DEF AtDesk!Next
<1> QED
  BY <1>3, <1>4

LEMMA DeletionTakesEffect ==
  ASSUME IInv, DInv, NEW c \in Calls, DeleteSave(c)
  PROVE  AtDesk!Next
<1>1. PICK d \in Docs : d = on[c]
  BY DEF IInv, Deleting, DeleteSave
<1> DEFINE row == Written(c, d)
<1>2. /\ d \notin Records /\ doc[d].status # "none" /\ doc \in [Docs -> Entity]
      /\ doc' = [doc EXCEPT ![d] = row]
      /\ UNCHANGED <<items, approval, lastChecked>> /\ TypeOK
  BY <1>1 DEF IInv, Deleting, DeleteSave, TypeOK
<1>3. row \in Entity /\ row.deleted = TRUE /\ row.status \in {"T", doc[d].status}
  <2>1. /\ copy[c].status = "T" /\ copy[c].deleted
        /\ "deleted" \in columns[c] \/ doc[d].deleted
    BY <1>1 DEF IInv, DInv, Deleting, DraftCopies, DeleteSave
  <2>2. row \in Entity /\ row.deleted /\ row.status \in {"T", doc[d].status}
    BY <1>2, <2>1, WrittenFacts
  <2> QED
    BY <2>2 DEF Entity
<1> HIDE DEF row
<1>4. row \in AtDesk!Remainders(d)
  BY <1>3 DEF Entity, AtDesk!Remainders
<1>5. doc'[d] = row
  BY <1>2
<1>6. AtDesk!Remove(d)
  BY <1>2, <1>4, <1>5 DEF AtDesk!Remove, AtDesk!OnlyDoc
<1> QED
  BY <1>6 DEF AtDesk!Next

\* An approval is committed, and its document with it unless the status
\* stays what it is.
LEMMA CommitTakesEffect ==
  ASSUME IInv, DInv, NEW c \in Calls, pc[c] \in Committing, CommitApproval(c),
         items' = items,
         IF next[c].status \in {"T", approval[doing[c]].status}
         THEN UNCHANGED <<doc, lastChecked>>
         ELSE AtDesk!Mark(next[c].ref, next[c].status)
  PROVE  AtDesk!Next
<1>1. PICK a \in Approvals : a = doing[c]
  BY DEF IInv, Holds
<1>2. PICK e \in Approval : e = next[c]
  BY DEF IInv, TypeOK
<1>3. approval'[a] = e /\ AtDesk!OnlyApproval(a)
  BY <1>1, <1>2 DEF CommitApproval, IInv, TypeOK, AtDesk!OnlyApproval
<1>4. Intends(a, e)
  BY <1>1, <1>2 DEF DInv, Intended
<1>5. CASE AtDesk!Filed(a, e)
  <2>1. UNCHANGED <<doc, items, lastChecked>>
    BY <1>2, <1>5 DEF AtDesk!Filed
  <2>2. AtDesk!File(a)
    BY <1>3, <1>5, <2>1 DEF AtDesk!File
  <2> QED
    BY <2>2 DEF AtDesk!Next
<1>6. CASE AtDesk!Raised(a, e)
  <2>1. e.status = "P" /\ approval[a].status # "P"
    BY <1>6 DEF AtDesk!Raised, AtDesk!Savable
  <2>2. AtDesk!Mark(e.ref, "P")
    BY <1>1, <1>2, <2>1
  <2>3. AtDesk!Raise(a)
    BY <1>3, <1>6, <2>2 DEF AtDesk!Raise
  <2> QED
    BY <2>3 DEF AtDesk!Next
<1>7. CASE AtDesk!Decided(a, e)
  <2>1. approval[a].status = "P" /\ e.status # "T"
    <3>1. approval[a].status = "P"
      BY <1>7 DEF AtDesk!Decided, AtDesk!Waiting
    <3> QED
      BY <1>1, <1>2, <3>1 DEF IInv, Prepared, Follows
  <2>2. IF e.status = "P" THEN UNCHANGED <<doc, lastChecked>>
                          ELSE AtDesk!Mark(e.ref, e.status)
    BY <1>1, <1>2, <2>1
  <2>3. AtDesk!Decide(a)
    BY <1>3, <1>7, <2>2 DEF AtDesk!Decide
  <2> QED
    BY <2>3 DEF AtDesk!Next
<1> QED
  BY <1>4, <1>5, <1>6, <1>7 DEF Intends

LEMMA ApprovalTakesEffect ==
  ASSUME IInv, DInv, NEW c \in Calls, Commit(c) \/ Link(c) \/ SaveRecord(c)
  PROVE  AtDesk!Next
<1>1. pc[c] \in Committing /\ CommitApproval(c) /\ items' = items /\ TypeOK
  BY DEF Commit, Link, SaveRecord, Committing, Linking, IInv
<1>2. CASE Commit(c)
  <2>1. /\ next[c].ref = NoDoc \/ next[c].status \in {"T", approval[doing[c]].status}
        /\ UNCHANGED <<doc, lastChecked>>
    BY <1>1, <1>2 DEF Commit, IInv, Prepared
  <2>2. next[c].ref = NoDoc => AtDesk!Mark(next[c].ref, next[c].status)
    BY <2>1 DEF AtDesk!Mark
  <2> QED
    BY <1>1, <2>1, <2>2, CommitTakesEffect
<1>3. CASE Link(c) \/ SaveRecord(c)
  <2>1. PICK d, status : d = on[c] /\ status = next[c].status
    OBVIOUS
  <2>2. /\ next[c].ref = d /\ d \in Docs
        /\ status \notin {"T", approval[doing[c]].status}
    BY <1>1, <1>3, <2>1 DEF Link, SaveRecord, IInv, Prepared, TypeOK
  <2>3. AtDesk!Mark(d, status)
    <3>1. CASE Link(c)
      <4>1. /\ d \notin Records /\ AtDesk!Live(d) /\ UNCHANGED lastChecked
            /\ doc' = [doc EXCEPT ![d].status = status]
        BY <2>1, <3>1 DEF Link, Live, AtDesk!Live
      <4>2. doc'[d] = [doc[d] EXCEPT !.status = status]
        BY <1>1, <2>2, <4>1 DEF TypeOK
      <4>3. AtDesk!OnlyDoc(d)
        BY <4>1, <4>2 DEF AtDesk!OnlyDoc
      <4> QED
        BY <2>2, <4>1, <4>2, <4>3 DEF AtDesk!Mark
    <3>2. CASE SaveRecord(c)
      <4> DEFINE row == Written(c, d)
      <4>1. /\ d \in Records /\ doc[d].status # "none" /\ copy[c].status = status
            /\ d \in Sole =>
                 /\ "status" \in columns[c]
                 /\ doc[d].status = "P" => copy[c].header = doc[d].header
            /\ doc' = [doc EXCEPT ![d] = row]
            /\ lastChecked' = IF status = "C" THEN d ELSE lastChecked
        BY <2>1, <3>2 DEF SaveRecord, IInv, Recording
      <4>2. /\ row \in Entity
            /\ row.status \in IF d \in Sole THEN {status} ELSE {status, doc[d].status}
            /\ d \in Sole /\ doc[d].status = "P" => row.header = doc[d].header
        BY <1>1, <2>2, <4>1, WrittenFacts
      <4> HIDE DEF row
      <4>3. d \in Sole <=> d \in AtDesk!Sole
        BY DEF Sole, AtDesk!Sole
      <4>4. row \in AtDesk!Leftovers(d, status)
        BY <4>2, <4>3 DEF Entity, AtDesk!Leftovers
      <4>5. doc'[d] = row
        BY <1>1, <2>2, <4>1 DEF TypeOK
      <4>6. AtDesk!OnlyDoc(d)
        BY <4>1, <4>5 DEF AtDesk!OnlyDoc
      <4> QED
        BY <4>1, <4>4, <4>5, <4>6 DEF AtDesk!Mark
    <3> QED
      BY <1>3, <3>1, <3>2
  <2> QED
    BY <1>1, <2>1, <2>2, <2>3, CommitTakesEffect
<1> QED
  BY <1>2, <1>3

LEMMA CreateTakesEffect ==
  ASSUME IInv, NEW d \in Docs, NEW b \in Bodies, Create(d, b)
  PROVE  AtDesk!Next
<1>1. /\ doc' = [doc EXCEPT ![d] =
           [status |-> "T", deleted |-> FALSE, header |-> b]]
      /\ items' = [items EXCEPT ![d] = b] /\ doc[d].status = "none"
      /\ UNCHANGED <<approval, lastChecked>>
      /\ doc \in [Docs -> Entity] /\ items \in [Docs -> Bodies]
  BY DEF Create, IInv, TypeOK
<1>2. doc'[d] = [status |-> "T", deleted |-> FALSE, header |-> b] /\ items'[d] = b
  BY <1>1
<1>3. AtDesk!Write(d)
  BY <1>1, <1>2 DEF AtDesk!Write, AtDesk!OnlyDoc
<1> QED
  BY <1>3 DEF AtDesk!Next

\* Any number of concurrent calls behave like calls that take effect at one
\* instant: drafts with their items, approvals with the status of their
\* documents, and each decision at the step that waits for it.
THEOREM ImplementsDesk == Spec => ImplementsApprovalDesk
<1>1. ASSUME IInv, DInv, [Next]_vars PROVE [AtDesk!Next]_AtDesk!deskVars
  <2>1. ASSUME NEW c \in Calls, Proceed(c) PROVE AtDesk!Next \/ UNCHANGED dbVars
    <3>1. CASE Edit(c) \/ DeleteRecord(c)
      BY <1>1, <3>1, WriteTakesEffect
    <3>2. CASE DeleteSave(c)
      BY <1>1, <3>2, DeletionTakesEffect
    <3>3. CASE Commit(c) \/ Link(c) \/ SaveRecord(c)
      BY <1>1, <3>3, ApprovalTakesEffect
    <3>4. CASE DeleteSelect(c) \/ FindRecord(c) \/ LinkSelect(c)
      BY <3>4 DEF DeleteSelect, FindRecord, LinkSelect, Select
    <3> QED
      BY <2>1, <3>1, <3>2, <3>3, <3>4 DEF Proceed
  <2>2. ASSUME NEW d \in Docs, NEW b \in Bodies, Create(d, b) PROVE AtDesk!Next
    BY <1>1, <2>2, CreateTakesEffect
  <2>3. ASSUME NEW c \in Calls, NEW d \in Docs,
               \/ LockRecord(c, d) \/ FindDraft(c, d)
               \/ \E b \in Bodies : LockDraft(c, d, b)
        PROVE  UNCHANGED dbVars
    BY <2>3 DEF LockRecord, FindDraft, LockDraft, LockDoc
  <2>4. ASSUME NEW c \in Calls, NEW a \in Approvals,
               \/ DeleteApproval(c, a)
               \/ \E i \in DOMAIN approval[a].result, u \in Users :
                    Approve(c, a, i, u) \/ Reject(c, a, i, u)
               \/ \E ref \in Targets[a], line \in Lines \union {<<>>} :
                    SaveApproval(c, a, ref, line)
               \/ \E ref \in Targets[a], line \in Lines : Submit(c, a, ref, line)
        PROVE  UNCHANGED dbVars
    BY <2>4 DEF DeleteApproval, Approve, Reject, SaveApproval, Submit, Prepare
  <2>5. ASSUME NEW c \in Calls, Fail(c) PROVE UNCHANGED dbVars
    BY <2>5 DEF Fail
  <2>6. UNCHANGED vars => UNCHANGED dbVars
    BY DEF vars
  <2>7. AtDesk!Next \/ UNCHANGED dbVars
    BY <1>1, <2>1, <2>2, <2>3, <2>4, <2>5, <2>6 DEF Next
  <2> QED
    BY <2>7 DEF dbVars, AtDesk!deskVars
<1>2. IInv /\ DInv /\ [Next]_vars => [AtDesk!Next]_AtDesk!deskVars
  BY <1>1
<1> QED
  BY InitDesk, Invariance, DInvariance, <1>2, PTL
  DEF Spec, ImplementsApprovalDesk, AtDesk!Spec

=============================================================================
