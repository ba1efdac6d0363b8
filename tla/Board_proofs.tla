---------------------------- MODULE Board_proofs ----------------------------
(***************************************************************************)
(* Theorems about Board and Attachments, for any groups, posts, objects,   *)
(* bounds and number of calls, and about Access, for any plants.           *)
(*                                                                         *)
(* The board: an object has one owner.  It belongs to one row              *)
(* (RowsKept), or to one upload that no other call knows of and reconcile  *)
(* has not listed (UploadsApart); what a deletion has read is in its own   *)
(* rows or in none (DeletionsApart).  So nobody deletes the object of      *)
(* another's row.  Two uploads never share a group (Exclusive): the first  *)
(* locks its row, or is the only one to know of it.  A comment is written  *)
(* by the holder of its post (CommentLocked).  Whoever gives up an object  *)
(* hands it on (Accounts): an upload fills its numbers one after another,  *)
(* so no file takes the place of another in its memory.                    *)
(***************************************************************************)
EXTENDS MCOffers, FiniteSetTheorems, TLAPS

GroupPhases ==
  UploadPhases \union
  {"remove", "findGroup", "removeAll", "markGroup", "bind", "saveGroup"}
PostPhases ==
  CommentPhases \union {"edit", "bind", "saveGroup", "markPost", "removeComment"}

\* What a call works on.
Targets ==
  \A c \in Calls :
    /\ pc[c] \in GroupPhases => on[c] \in Groups
    /\ pc[c] \in PostPhases => at[c] \in Posts
    /\ pc[c] \in {"comment", "removeComment"} => first[c] \in Numbers

\* The object of a row is kept, and is the object of no other row.
RowsKept ==
  \A g \in Groups, n \in Numbers : row[g][n] # NoObject =>
    /\ row[g][n] \in stored \ removing
    /\ \A h \in Groups, k \in Numbers : row[h][k] = row[g][n] => h = g /\ k = n

\* What an upload has stored, only this upload knows.
UploadsApart ==
  \A c \in Calls, n \in Numbers : Uploading(c) /\ copy[c][n] # NoObject =>
    /\ copy[c][n] \in stored \ (removing \union listed)
    /\ \A g \in Groups, k \in Numbers : row[g][k] # copy[c][n]
    /\ \A d \in Calls, k \in Numbers : copy[d][k] = copy[c][n] => d = c /\ k = n

Deleting(c) == pc[c] \in {"remove", "removeAll", "markGroup"}

\* What a deletion has read is in the row it was read from or in none.
DeletionsApart ==
  \A c \in Calls, n \in Numbers : Deleting(c) /\ copy[c][n] # NoObject =>
    \A g \in Groups, k \in Numbers : row[g][k] = copy[c][n] =>
      g = on[c] /\ k = n /\ pc[c] # "markGroup"

CopyEmpty == \A c \in Calls : pc[c] \in {"idle", "lock", "check"} => copy[c] = NoItems

\* An upload numbers its items after those of its group.
UploadNumbers ==
  \A c \in Calls, n \in Numbers : pc[c] = "store" =>
    /\ n >= first[c] => row[on[c]][n] = NoObject
    /\ n < first[c] => copy[c][n] = NoObject

Inside(c) == pc[c] \in {"check", "store"}

\* An upload past its first step holds its group, or is alone to know of it.
Exclusive ==
  \A c \in Calls : on[c] \in Groups =>
    /\ Inside(c) => groupLock[on[c]] = c \/ group[on[c]].status = "none"
    /\ group[on[c]].status = "none" =>
         Inside(c) /\ \A d \in Calls : on[d] = on[c] => d = c

\* The group of a post has been committed.
PostGroups ==
  \A p \in Posts : post[p].group \in Groups => group[post[p].group].status # "none"

\* A comment is written under a live post that its call holds.
CommentLocked ==
  \A c \in Calls : pc[c] = "comment" =>
    /\ postLock[at[c]] = c /\ LivePost(at[c])
    /\ comment[at[c]][first[c]] = NoAuthor

ObjectsInv ==
  RowsKept /\ UploadsApart /\ DeletionsApart /\ CopyEmpty /\ UploadNumbers
IInv ==
  /\ TypeOK /\ Targets
  /\ ObjectsInv
  /\ Exclusive /\ PostGroups /\ CommentLocked

\* The calls other than c stay as they are.
OthersStay(c) ==
  \A d \in Calls \ {c} :
    /\ pc'[d] = pc[d] /\ on'[d] = on[d] /\ at'[d] = at[d]
    /\ copy'[d] = copy[d] /\ first'[d] = first[d]

\* They keep the locks they have.
LocksStay(c) ==
  /\ \A d \in Calls \ {c}, g \in Groups : groupLock[g] = d => groupLock'[g] = d
  /\ \A d \in Calls \ {c}, p \in Posts : postLock[p] = d => postLock'[p] = d

-----------------------------------------------------------------------------
LEMMA BasicFacts ==
  NoItems \in Items /\ 1 \in 1..MaxNo + 1 /\ Numbers \subseteq 1..MaxNo + 1
BY AttachmentBounds DEF NoItems, Items, Numbers

LEMMA InitIInv == Init => IInv
<1> SUFFICES ASSUME Init PROVE IInv
  OBVIOUS
<1>1. TypeOK
  BY BasicFacts DEF Init, AttachmentsInit, TypeOK, AttachmentsTypeOK, Phases, Status, Items
<1>2. Targets
  BY DEF Init, AttachmentsInit, Targets, GroupPhases, PostPhases, UploadPhases, CommentPhases
<1>3. ObjectsInv
  BY DEF Init, AttachmentsInit, ObjectsInv, RowsKept, UploadsApart, DeletionsApart,
     CopyEmpty, UploadNumbers, NoItems, Uploading, UploadPhases, Deleting
<1>4. Exclusive /\ PostGroups /\ CommentLocked
  BY AttachmentNames DEF Init, AttachmentsInit, Exclusive, PostGroups, CommentLocked
<1> QED
  BY <1>1, <1>2, <1>3, <1>4 DEF IInv

\* A call that ends gives back its locks and leaves the others theirs.
LEMMA EndFacts ==
  ASSUME TypeOK, NEW c \in Calls, End(c)
  PROVE  /\ groupLock' \in [Groups -> Calls \union {NoCall}]
         /\ postLock' \in [Posts -> Calls \union {NoCall}]
         /\ pc' \in [Calls -> Phases]
         /\ on' \in [Calls -> Groups \union {NoGroup}]
         /\ at' \in [Calls -> Posts \union {NoPost}]
         /\ copy' \in [Calls -> Items]
         /\ first' \in [Calls -> 1..MaxNo + 1]
         /\ pc'[c] = "idle" /\ on'[c] = NoGroup /\ copy'[c] = NoItems
         /\ OthersStay(c) /\ LocksStay(c)
<1> USE BasicFacts DEF TypeOK, AttachmentsTypeOK, End
<1>1. /\ groupLock' \in [Groups -> Calls \union {NoCall}]
      /\ postLock' \in [Posts -> Calls \union {NoCall}]
  OBVIOUS
<1>2. /\ pc' \in [Calls -> Phases]
      /\ on' \in [Calls -> Groups \union {NoGroup}]
      /\ at' \in [Calls -> Posts \union {NoPost}]
      /\ copy' \in [Calls -> Items]
      /\ first' \in [Calls -> 1..MaxNo + 1]
  BY DEF Phases
<1>3. /\ pc'[c] = "idle" /\ on'[c] = NoGroup /\ copy'[c] = NoItems
      /\ OthersStay(c)
  BY DEF OthersStay
<1>4. LocksStay(c)
  BY AttachmentNames DEF LocksStay
<1> QED
  BY <1>1, <1>2, <1>3, <1>4

-----------------------------------------------------------------------------
(***************************************************************************)
(* What keeps the parts of the invariant.                                  *)
(***************************************************************************)
\* What a call deletes when it ends belongs to nobody else.
LEMMA EndKeepsObjects ==
  ASSUME IInv, NEW c \in Calls, End(c),
         row' = row, listed' = listed, stored \subseteq stored',
         removing' \subseteq removing \union Claimed(c)
  PROVE  ObjectsInv'
<1> USE DEF IInv, ObjectsInv
<1>0. OthersStay(c) /\ pc'[c] = "idle" /\ copy'[c] = NoItems
  BY EndFacts
<1>1. \A g \in Groups, n \in Numbers : row[g][n] # NoObject => row[g][n] \notin Claimed(c)
  BY DEF Claimed, Of, UploadsApart, DeletionsApart, Deleting
<1>2. RowsKept'
  BY <1>1 DEF RowsKept
<1>3. UploadsApart'
  <2> SUFFICES ASSUME NEW d \in Calls, NEW n \in Numbers, Uploading(d)', copy'[d][n] # NoObject
               PROVE  /\ copy'[d][n] \in stored' \ (removing' \union listed')
                      /\ \A g \in Groups, k \in Numbers : row'[g][k] # copy'[d][n]
                      /\ \A e \in Calls, k \in Numbers :
                           copy'[e][k] = copy'[d][n] => e = d /\ k = n
    BY DEF UploadsApart
  <2>1. d # c /\ Uploading(d) /\ copy'[d] = copy[d]
    BY <1>0 DEF OthersStay, Uploading, UploadPhases
  <2>2. copy[d][n] \notin Claimed(c)
    BY <2>1 DEF UploadsApart, Claimed, Of
  <2>3. \A e \in Calls, k \in Numbers : copy'[e][k] = copy'[d][n] => e = d /\ k = n
    BY <1>0, <2>1 DEF OthersStay, UploadsApart, NoItems
  <2> QED
    BY <2>1, <2>2, <2>3 DEF UploadsApart
<1>4. DeletionsApart'
  BY <1>0 DEF DeletionsApart, Deleting, OthersStay, NoItems
<1>5. CopyEmpty'
  BY <1>0 DEF CopyEmpty, OthersStay
<1>6. UploadNumbers'
  BY <1>0 DEF UploadNumbers, OthersStay
<1> QED
  BY <1>2, <1>3, <1>4, <1>5, <1>6

LEMMA MoveKeepsObjects ==
  ASSUME IInv, NEW c \in Calls, OthersStay(c),
         UNCHANGED <<row, stored, removing, listed, copy>>,
         pc'[c] \notin {"store", "remove", "removeAll", "markGroup"},
         pc'[c] \in {"idle", "lock", "check"} => pc[c] \in {"idle", "lock", "check"}
  PROVE  ObjectsInv'
<1> USE DEF IInv, ObjectsInv, OthersStay
<1>1. RowsKept'
  BY DEF RowsKept
<1>2. UploadsApart'
  <2> SUFFICES ASSUME NEW d \in Calls, NEW n \in Numbers, Uploading(d)', copy'[d][n] # NoObject
               PROVE  /\ copy'[d][n] \in stored' \ (removing' \union listed')
                      /\ \A g \in Groups, k \in Numbers : row'[g][k] # copy'[d][n]
                      /\ \A e \in Calls, k \in Numbers :
                           copy'[e][k] = copy'[d][n] => e = d /\ k = n
    BY DEF UploadsApart
  <2>1. d # c \/ copy[c] = NoItems
    BY DEF Uploading, UploadPhases, CopyEmpty
  <2>2. d # c /\ Uploading(d)
    BY <2>1 DEF Uploading, NoItems
  <2> QED
    BY <2>2 DEF UploadsApart
<1>3. DeletionsApart'
  BY DEF DeletionsApart, Deleting
<1>4. CopyEmpty'
  BY DEF CopyEmpty
<1>5. UploadNumbers'
  BY DEF UploadNumbers
<1> QED
  BY <1>1, <1>2, <1>3, <1>4, <1>5

\* A call that doesn't begin a comment leaves those of the others.
LEMMA KeepsComments ==
  ASSUME IInv, NEW c \in Calls, OthersStay(c), LocksStay(c), pc'[c] # "comment",
         \A d \in Calls \ {c} : pc[d] = "comment" =>
           /\ post'[at[d]].status = "live"
           /\ comment'[at[d]][first[d]] = NoAuthor
  PROVE  CommentLocked'
BY DEF IInv, CommentLocked, Targets, PostPhases, CommentPhases, LivePost, OthersStay,
   LocksStay

\* A group is written by a call that works on it, and never taken back.
LEMMA KeepsGroups ==
  ASSUME IInv, NEW c \in Calls, OthersStay(c), LocksStay(c),
         \A g \in Groups : group'[g].status = "none" => group[g].status = "none",
         \A g \in Groups : group'[g].status # group[g].status => on[c] = g,
         on'[c] \in Groups =>
           \/ group'[on'[c]].status # "none" /\ ~Inside(c)'
           \/ Inside(c) /\ Inside(c)' /\ on'[c] = on[c] /\ UNCHANGED <<group, groupLock>>
  PROVE  Exclusive'
<1> SUFFICES ASSUME NEW d \in Calls, on'[d] \in Groups
             PROVE  /\ Inside(d)' => groupLock'[on'[d]] = d \/ group'[on'[d]].status = "none"
                    /\ group'[on'[d]].status = "none" =>
                         Inside(d)' /\ \A e \in Calls : on'[e] = on'[d] => e = d
  BY DEF Exclusive
<1>1. \A e \in Calls \ {c} : on'[e] = on[e] /\ pc'[e] = pc[e]
  BY DEF OthersStay
<1>2. CASE d = c
  BY <1>1, <1>2 DEF IInv, Exclusive, Inside
<1>3. CASE d # c
  <2>1. on'[d] = on[d] /\ (Inside(d)' <=> Inside(d))
    BY <1>1, <1>3 DEF Inside
  <2>2. Inside(d) => groupLock'[on[d]] = d \/ group'[on[d]].status = "none"
    BY <1>3, <2>1 DEF IInv, Exclusive, LocksStay
  <2>3. group'[on[d]].status = "none" =>
          Inside(d) /\ \A e \in Calls : on'[e] = on[d] => e = d
    BY <1>1, <1>3, <2>1 DEF IInv, Exclusive
  <2> QED
    BY <2>1, <2>2, <2>3
<1> QED
  BY <1>2, <1>3

\* The end of a call, whatever it writes at that moment.
LEMMA EndKeepsRest ==
  ASSUME IInv, NEW c \in Calls, End(c),
         \A g \in Groups : group'[g].status = "none" => group[g].status = "none",
         \A g \in Groups : group'[g].status # group[g].status => on[c] = g,
         \A d \in Calls \ {c} : pc[d] = "comment" =>
           /\ post'[at[d]].status = "live"
           /\ comment'[at[d]][first[d]] = NoAuthor
  PROVE  Targets' /\ Exclusive' /\ CommentLocked'
<1>1. /\ pc'[c] = "idle" /\ on'[c] = NoGroup
      /\ OthersStay(c) /\ LocksStay(c)
  BY EndFacts DEF IInv
<1>2. Targets'
  BY <1>1 DEF IInv, Targets, OthersStay, GroupPhases, PostPhases, UploadPhases,
     CommentPhases
<1>3. Exclusive'
  BY <1>1, KeepsGroups, AttachmentNames
<1>4. CommentLocked'
  BY <1>1, KeepsComments
<1> QED
  BY <1>2, <1>3, <1>4

\* A step of a call that writes no group, post or comment.
LEMMA MoveKeepsRest ==
  ASSUME IInv, NEW c \in Calls, OthersStay(c), LocksStay(c),
         UNCHANGED <<group, post, comment>>,
         on'[c] \in Groups =>
           \/ group[on'[c]].status # "none" /\ ~Inside(c)'
           \/ Inside(c) /\ Inside(c)' /\ on'[c] = on[c] /\ groupLock' = groupLock,
         pc'[c] # "comment"
  PROVE  Exclusive' /\ PostGroups' /\ CommentLocked'
<1>1. \A d \in Calls \ {c} : pc[d] = "comment" =>
        post'[at[d]].status = "live" /\ comment'[at[d]][first[d]] = NoAuthor
  BY DEF IInv, CommentLocked, LivePost
<1>2. CommentLocked'
  BY <1>1, KeepsComments
<1>3. Exclusive'
  BY KeepsGroups
<1>4. PostGroups'
  BY DEF IInv, PostGroups
<1> QED
  BY <1>2, <1>3, <1>4

LEMMA CommentsAsTheyWere ==
  ASSUME IInv, NEW d \in Calls, pc[d] = "comment", UNCHANGED <<post, comment>>
  PROVE  post'[at[d]].status = "live" /\ comment'[at[d]][first[d]] = NoAuthor
BY DEF IInv, CommentLocked, LivePost

-----------------------------------------------------------------------------
(***************************************************************************)
(* The steps of Attachments.                                               *)
(***************************************************************************)
LEMMA AbortKeeps ==
  ASSUME IInv, NEW c \in Calls, Abort(c), UNCHANGED comment
  PROVE  IInv'
<1> USE DEF Abort, rowVars
<1>1. TypeOK'
  <2>1. removing' \subseteq Objects
    BY DEF IInv, TypeOK, AttachmentsTypeOK, Compensate, Of, Items
  <2>2. orphan' \subseteq Objects
    BY DEF IInv, TypeOK, AttachmentsTypeOK, Abandon
  <2> QED
    BY <2>1, <2>2, EndFacts DEF IInv, TypeOK, AttachmentsTypeOK
<1>2. ObjectsInv'
  <2>1. removing' \subseteq removing \union Claimed(c)
    BY DEF Compensate, Claimed
  <2> QED
    BY <2>1, EndKeepsObjects
<1>3. Targets' /\ Exclusive' /\ CommentLocked'
  BY EndKeepsRest, CommentsAsTheyWere
<1>4. PostGroups'
  BY DEF IInv, PostGroups
<1> QED
  BY <1>1, <1>2, <1>3, <1>4 DEF IInv

LEMMA StartUploadKeeps ==
  ASSUME IInv, NEW c \in Calls, NEW g \in Groups, StartUpload(c, g), UNCHANGED comment
  PROVE  IInv'
<1> USE DEF StartUpload, Start, rowVars, storeVars, locks
<1>1. TypeOK'
  BY DEF IInv, TypeOK, AttachmentsTypeOK, Phases, UploadPhases
<1>2. OthersStay(c) /\ LocksStay(c)
  BY DEF OthersStay, LocksStay, IInv, TypeOK, AttachmentsTypeOK
<1>3. pc'[c] = "lock" /\ on'[c] = g
  BY DEF IInv, TypeOK, AttachmentsTypeOK
<1>4. Targets'
  BY <1>2, <1>3 DEF IInv, Targets, OthersStay, GroupPhases, PostPhases, UploadPhases,
     CommentPhases
<1>5. ObjectsInv'
  BY <1>2, <1>3, MoveKeepsObjects
<1>6. Exclusive' /\ PostGroups' /\ CommentLocked'
  BY <1>2, <1>3, MoveKeepsRest DEF Inside
<1> QED
  BY <1>1, <1>4, <1>5, <1>6 DEF IInv

LEMMA LockGroupKeeps ==
  ASSUME IInv, NEW c \in Calls, LockGroup(c), UNCHANGED comment
  PROVE  IInv'
<1> USE DEF LockGroup, Goto, rowVars, storeVars
<1>1. TypeOK'
  BY DEF IInv, TypeOK, AttachmentsTypeOK, Phases, UploadPhases
<1>2. on[c] \in Groups
  BY DEF IInv, Targets, GroupPhases, UploadPhases
<1>3. OthersStay(c) /\ LocksStay(c)
  BY <1>2, AttachmentNames DEF OthersStay, LocksStay, IInv, TypeOK, AttachmentsTypeOK
<1>4. pc'[c] = "check" /\ groupLock'[on[c]] = c
  BY <1>2 DEF IInv, TypeOK, AttachmentsTypeOK
<1>5. Targets'
  BY <1>2, <1>3, <1>4 DEF IInv, Targets, OthersStay, GroupPhases, PostPhases,
     UploadPhases, CommentPhases
<1>6. ObjectsInv'
  BY <1>3, <1>4, MoveKeepsObjects
<1>7. Exclusive'
  BY <1>2, <1>3, <1>4 DEF IInv, Exclusive, OthersStay, LocksStay, Inside, LiveGroup
<1>8. PostGroups'
  BY DEF IInv, PostGroups
<1>9. CommentLocked'
  BY <1>3, <1>4, KeepsComments, CommentsAsTheyWere
<1> QED
  BY <1>1, <1>5, <1>6, <1>7, <1>8, <1>9 DEF IInv

LEMMA StartNewGroupKeeps ==
  ASSUME IInv, NEW c \in Calls, NEW g \in Groups, StartNewGroup(c, g), UNCHANGED comment
  PROVE  IInv'
<1> USE DEF StartNewGroup, Start, rowVars, storeVars, locks
<1>1. TypeOK'
  BY DEF IInv, TypeOK, AttachmentsTypeOK, Phases, UploadPhases
<1>2. OthersStay(c) /\ LocksStay(c)
  BY DEF OthersStay, LocksStay, IInv, TypeOK, AttachmentsTypeOK
<1>3. pc'[c] = "check" /\ on'[c] = g
  BY DEF IInv, TypeOK, AttachmentsTypeOK
<1>4. Targets'
  BY <1>2, <1>3 DEF IInv, Targets, OthersStay, GroupPhases, PostPhases, UploadPhases,
     CommentPhases
<1>5. ObjectsInv'
  BY <1>2, <1>3, MoveKeepsObjects
<1>6. Exclusive'
  BY <1>2, <1>3 DEF IInv, Exclusive, OthersStay, Inside
<1>7. PostGroups'
  BY DEF IInv, PostGroups
<1>8. CommentLocked'
  BY <1>2, <1>3, KeepsComments, CommentsAsTheyWere
<1> QED
  BY <1>1, <1>4, <1>5, <1>6, <1>7, <1>8 DEF IInv

LEMMA CheckUploadKeeps ==
  ASSUME IInv, NEW c \in Calls, CheckUpload(c), UNCHANGED comment
  PROVE  IInv'
<1>1. /\ UNCHANGED <<pool, group, row, post, stored, removing, listed, orphan>>
      /\ UNCHANGED <<groupLock, postLock, on, at, copy>>
      /\ pc[c] = "check" /\ pc' = [pc EXCEPT ![c] = "store"]
  BY DEF CheckUpload, Goto, rowVars, storeVars, locks
<1>2. PICK n \in 1..MaxNo + 1 : NextNo(ItemNos(on[c]), n) /\ first' = [first EXCEPT ![c] = n]
  BY DEF CheckUpload
<1>3. TypeOK'
  BY <1>1, <1>2 DEF IInv, TypeOK, AttachmentsTypeOK, Phases, UploadPhases
<1>4. /\ OthersStay(c) /\ LocksStay(c)
      /\ pc'[c] = "store" /\ on[c] \in Groups /\ first'[c] = n
  BY <1>1, <1>2 DEF OthersStay, LocksStay, IInv, TypeOK, AttachmentsTypeOK, Targets,
     GroupPhases, UploadPhases
<1>5. Targets'
  BY <1>1, <1>4 DEF IInv, Targets, OthersStay, GroupPhases, PostPhases, UploadPhases,
     CommentPhases
<1>6. ObjectsInv'
  <2> USE <1>1, <1>4 DEF IInv, ObjectsInv, OthersStay
  <2>1. \A k \in Numbers : copy[c][k] = NoObject
    BY DEF CopyEmpty, NoItems
  <2>2. RowsKept'
    BY DEF RowsKept
  <2>3. \A d \in Calls : Uploading(d)' <=> Uploading(d)
    BY DEF Uploading, UploadPhases
  <2>4. UploadsApart'
    BY <2>1, <2>3 DEF UploadsApart
  <2>5. DeletionsApart'
    BY DEF DeletionsApart, Deleting
  <2>6. CopyEmpty'
    BY DEF CopyEmpty
  <2>7. \A k \in Numbers : k >= n => row[on[c]][k] = NoObject
    BY <1>2 DEF NextNo, ItemNos, Numbers
  <2>8. UploadNumbers'
    BY <2>1, <2>7 DEF UploadNumbers
  <2> QED
    BY <2>2, <2>4, <2>5, <2>6, <2>8
<1>7. Exclusive' /\ PostGroups' /\ CommentLocked'
  BY <1>1, <1>4, MoveKeepsRest DEF Inside
<1> QED
  BY <1>3, <1>5, <1>6, <1>7 DEF IInv

LEMMA SentType == ASSUME NEW c \in Calls PROVE Sent(c) \in Nat
<1>1. IsFiniteSet(Numbers)
  BY FS_Interval, AttachmentBounds DEF Numbers
<1>2. IsFiniteSet({n \in Numbers : copy[c][n] # NoObject})
  BY <1>1, FS_Subset
<1> QED
  BY <1>2, FS_CardinalityType DEF Sent

LEMMA StoreFileKeeps ==
  ASSUME IInv, NEW c \in Calls, NEW o \in Objects, StoreFile(c, o), UNCHANGED comment
  PROVE  IInv'
<1> DEFINE i == first[c] + Sent(c)
<1>1. /\ UNCHANGED <<pool, group, row, post, removing, listed, orphan>>
      /\ UNCHANGED <<groupLock, postLock, pc, on, at, first>>
      /\ pc[c] = "store" /\ stored' = stored \union {o}
      /\ copy' = [copy EXCEPT ![c][i] = o]
  BY DEF StoreFile, rowVars, locks
<1>2. /\ o \notin stored \union removing \union listed
      /\ \A d \in Calls, k \in Numbers : copy[d][k] # o
  BY AttachmentNames DEF StoreFile, Fresh, Of
<1>3. i \in Numbers /\ i >= first[c]
  BY SentType DEF StoreFile, IInv, TypeOK, AttachmentsTypeOK, Numbers
<1> HIDE DEF i
<1>4. \A d \in Calls, k \in Numbers :
        copy'[d][k] = IF d = c /\ k = i THEN o ELSE copy[d][k]
  BY <1>1, <1>3 DEF IInv, TypeOK, AttachmentsTypeOK, Items
<1>5. TypeOK'
  <2>1. copy' \in [Calls -> Items]
    BY <1>1 DEF IInv, TypeOK, AttachmentsTypeOK, Items
  <2> QED
    BY <1>1, <2>1 DEF IInv, TypeOK, AttachmentsTypeOK
<1>6. ObjectsInv'
  <2> USE DEF IInv, ObjectsInv
  <2>1. RowsKept'
    BY <1>1, <1>2 DEF RowsKept
  <2>2. \A g \in Groups, k \in Numbers : row[g][k] # o
    BY <1>2, AttachmentNames DEF RowsKept
  <2>3. UploadsApart'
    <3> SUFFICES ASSUME NEW d \in Calls, NEW n \in Numbers, Uploading(d), copy'[d][n] # NoObject
                 PROVE  /\ copy'[d][n] \in stored' \ (removing \union listed)
                        /\ \A g \in Groups, k \in Numbers : row[g][k] # copy'[d][n]
                        /\ \A e \in Calls, k \in Numbers :
                             copy'[e][k] = copy'[d][n] => e = d /\ k = n
      BY <1>1 DEF UploadsApart, Uploading
    <3>1. CASE copy'[d][n] = o
      BY <1>1, <1>2, <1>4, <2>2, <3>1
    <3>2. CASE copy'[d][n] # o
      BY <1>1, <1>4, <3>2 DEF UploadsApart
    <3> QED
      BY <3>1, <3>2
  <2>4. DeletionsApart'
    BY <1>1, <1>4 DEF DeletionsApart, Deleting
  <2>5. CopyEmpty'
    BY <1>1 DEF CopyEmpty, TypeOK, AttachmentsTypeOK
  <2>6. UploadNumbers'
    <3>1. i \in Nat /\ \A d \in Calls : first[d] \in Nat
      BY <1>3 DEF TypeOK, AttachmentsTypeOK, Numbers
    <3> QED
      BY <1>1, <1>3, <1>4, <3>1 DEF UploadNumbers, Numbers
  <2> QED
    BY <2>1, <2>3, <2>4, <2>5, <2>6
<1>7. OthersStay(c) /\ LocksStay(c)
  BY <1>1, <1>4 DEF OthersStay, LocksStay, IInv, TypeOK, AttachmentsTypeOK
<1>8. Targets' /\ Exclusive' /\ PostGroups' /\ CommentLocked'
  BY <1>1 DEF IInv, Targets, Exclusive, Inside, PostGroups, CommentLocked, LivePost
<1> QED
  BY <1>5, <1>6, <1>8 DEF IInv

LEMMA StoreUnansweredKeeps ==
  ASSUME IInv, NEW c \in Calls, NEW o \in Objects, StoreUnanswered(c, o), UNCHANGED comment
  PROVE  IInv'
<1> USE DEF StoreUnanswered, rowVars
<1>1. TypeOK'
  <2>1. removing' \subseteq Objects
    BY DEF IInv, TypeOK, AttachmentsTypeOK, Compensate, Of, Items
  <2> QED
    BY <2>1, EndFacts DEF IInv, TypeOK, AttachmentsTypeOK
<1>2. ObjectsInv'
  <2>1. removing' \subseteq removing \union Claimed(c)
    BY DEF Compensate, Claimed
  <2> QED
    BY <2>1, EndKeepsObjects
<1>3. Targets' /\ Exclusive' /\ CommentLocked'
  BY EndKeepsRest, CommentsAsTheyWere
<1>4. PostGroups'
  BY DEF IInv, PostGroups
<1> QED
  BY <1>1, <1>2, <1>3, <1>4 DEF IInv

LEMMA CommitUploadKeeps ==
  ASSUME IInv, NEW c \in Calls, CommitUpload(c), UNCHANGED comment
  PROVE  IInv'
<1>1. /\ UNCHANGED <<pool, post, stored, removing, listed, orphan>>
      /\ pc[c] = "store" /\ End(c)
      /\ row' = [row EXCEPT ![on[c]] =
           [n \in Numbers |-> IF copy[c][n] # NoObject THEN copy[c][n] ELSE @[n]]]
      /\ group' = [group EXCEPT ![on[c]].status = IF @ = "none" THEN "live" ELSE @]
  BY DEF CommitUpload, storeVars
<1>2. on[c] \in Groups
  BY <1>1 DEF IInv, Targets, GroupPhases, UploadPhases
<1>3. \A g \in Groups, n \in Numbers :
        row'[g][n] = IF g = on[c] /\ copy[c][n] # NoObject THEN copy[c][n] ELSE row[g][n]
  BY <1>1, <1>2 DEF IInv, TypeOK, AttachmentsTypeOK, Items
<1>4. /\ pc'[c] = "idle" /\ on'[c] = NoGroup /\ copy'[c] = NoItems
      /\ OthersStay(c) /\ LocksStay(c)
  BY <1>1, EndFacts DEF IInv
<1>5. TypeOK'
  <2>1. row' \in [Groups -> Items]
    <3>1. row \in [Groups -> Items] /\ copy[c] \in Items /\ row[on[c]] \in Items
      BY <1>2 DEF IInv, TypeOK, AttachmentsTypeOK
    <3>2. [n \in Numbers |-> IF copy[c][n] # NoObject THEN copy[c][n] ELSE row[on[c]][n]]
            \in Items
      BY <3>1 DEF Items
    <3> QED
      BY <1>1, <1>2, <3>1, <3>2
  <2>2. group' \in [Groups -> [status: Status, ref: Posts \union {NoPost}]]
    <3> DEFINE Row == [status: Status, ref: Posts \union {NoPost}]
    <3>1. group \in [Groups -> Row]
      BY DEF IInv, TypeOK, AttachmentsTypeOK
    <3>2. \A r \in Row, s \in Status : [r EXCEPT !.status = s] \in Row
      OBVIOUS
    <3>3. (IF group[on[c]].status = "none" THEN "live" ELSE group[on[c]].status) \in Status
      BY <1>2, <3>1 DEF Status
    <3>4. group' = [group EXCEPT ![on[c]] = [group[on[c]] EXCEPT !.status =
                      IF group[on[c]].status = "none" THEN "live" ELSE group[on[c]].status]]
      BY <1>1, <1>2, <3>1
    <3> QED
      BY <1>2, <3>1, <3>2, <3>3, <3>4
  <2> QED
    BY <1>1, <2>1, <2>2, EndFacts DEF IInv, TypeOK, AttachmentsTypeOK
<1>6. \A g \in Groups : /\ group'[g].status = "none" => group[g].status = "none"
                        /\ group'[g].status # group[g].status => on[c] = g
  BY <1>1, <1>2 DEF IInv, TypeOK, AttachmentsTypeOK
<1>7. ObjectsInv'
  <2> USE DEF IInv, ObjectsInv
  <2>1. \A n \in Numbers : copy[c][n] # NoObject =>
          /\ copy[c][n] \in stored \ removing
          /\ \A g \in Groups, k \in Numbers : row[g][k] # copy[c][n]
          /\ \A d \in Calls, k \in Numbers : copy[d][k] = copy[c][n] => d = c /\ k = n
    BY <1>1 DEF UploadsApart, Uploading, UploadPhases
  <2>2. RowsKept'
    BY <1>1, <1>3, <2>1 DEF RowsKept
  <2>3. UploadsApart'
    <3> SUFFICES ASSUME NEW d \in Calls, NEW n \in Numbers, Uploading(d)', copy'[d][n] # NoObject
                 PROVE  /\ copy'[d][n] \in stored \ (removing \union listed)
                        /\ \A g \in Groups, k \in Numbers : row'[g][k] # copy'[d][n]
                        /\ \A e \in Calls, k \in Numbers :
                             copy'[e][k] = copy'[d][n] => e = d /\ k = n
      BY <1>1 DEF UploadsApart
    <3>1. d # c /\ Uploading(d) /\ copy'[d] = copy[d]
      BY <1>4 DEF OthersStay, Uploading, UploadPhases
    <3>2. \A e \in Calls, k \in Numbers : copy'[e][k] = copy'[d][n] => e = d /\ k = n
      BY <1>4, <3>1 DEF UploadsApart, OthersStay, NoItems
    <3> QED
      BY <1>3, <2>1, <3>1, <3>2 DEF UploadsApart
  <2>4. DeletionsApart'
    BY <1>3, <1>4, <2>1 DEF DeletionsApart, Deleting, OthersStay
  <2>5. CopyEmpty'
    BY <1>4 DEF CopyEmpty, OthersStay
  <2>6. UploadNumbers'
    <3> SUFFICES ASSUME NEW d \in Calls, pc'[d] = "store", NEW n \in Numbers
                 PROVE  /\ n >= first'[d] => row'[on'[d]][n] = NoObject
                        /\ n < first'[d] => copy'[d][n] = NoObject
      BY DEF UploadNumbers
    <3>1. d # c /\ pc[d] = "store" /\ on'[d] = on[d] /\ first'[d] = first[d] /\ copy'[d] = copy[d]
      BY <1>4 DEF OthersStay
    <3>2. on[d] # on[c] /\ on[d] \in Groups
      BY <1>1, <1>2, <3>1, AttachmentNames DEF Exclusive, Inside, Targets, GroupPhases,
         UploadPhases
    <3> QED
      BY <1>3, <3>1, <3>2 DEF UploadNumbers
  <2> QED
    BY <2>2, <2>3, <2>4, <2>5, <2>6
<1>8. Targets' /\ Exclusive' /\ CommentLocked'
  BY <1>1, <1>6, EndKeepsRest, CommentsAsTheyWere
<1>9. PostGroups'
  BY <1>1, <1>6 DEF IInv, PostGroups
<1> QED
  BY <1>5, <1>7, <1>8, <1>9 DEF IInv

LEMMA FindItemKeeps ==
  ASSUME IInv, NEW c \in Calls, NEW g \in Groups, NEW n \in Numbers,
         FindItem(c, g, n), UNCHANGED comment
  PROVE  IInv'
<1>1. /\ UNCHANGED <<pool, group, row, post, stored, removing, listed, orphan>>
      /\ UNCHANGED <<groupLock, postLock, at, first, comment>>
      /\ group[g].status # "none" /\ row[g][n] # NoObject
      /\ pc[c] = "idle" /\ pc' = [pc EXCEPT ![c] = "remove"]
      /\ on' = [on EXCEPT ![c] = g]
      /\ copy' = [copy EXCEPT ![c] = [NoItems EXCEPT ![n] = row[g][n]]]
  BY DEF FindItem, Start, LiveGroup, rowVars, storeVars, locks
<1>2. TypeOK'
  <2>1. [NoItems EXCEPT ![n] = row[g][n]] \in Items
    BY DEF IInv, TypeOK, AttachmentsTypeOK, NoItems, Items
  <2> QED
    BY <1>1, <2>1 DEF IInv, TypeOK, AttachmentsTypeOK, Phases
<1>3. /\ OthersStay(c) /\ LocksStay(c) /\ pc'[c] = "remove" /\ on'[c] = g
      /\ \A k \in Numbers : copy'[c][k] = IF k = n THEN row[g][n] ELSE NoObject
  BY <1>1 DEF OthersStay, LocksStay, IInv, TypeOK, AttachmentsTypeOK, NoItems
<1>4. ObjectsInv'
  <2> USE <1>1, <1>3 DEF IInv, ObjectsInv, OthersStay
  <2>1. RowsKept'
    BY DEF RowsKept
  <2>2. UploadsApart'
    <3> SUFFICES ASSUME NEW d \in Calls, NEW i \in Numbers, Uploading(d)', copy'[d][i] # NoObject
                 PROVE  /\ copy'[d][i] \in stored \ (removing \union listed)
                        /\ \A h \in Groups, k \in Numbers : row[h][k] # copy'[d][i]
                        /\ \A e \in Calls, k \in Numbers :
                             copy'[e][k] = copy'[d][i] => e = d /\ k = i
      BY DEF UploadsApart
    <3>1. d # c /\ Uploading(d) /\ copy'[d] = copy[d]
      BY DEF Uploading, UploadPhases
    <3> QED
      BY <3>1 DEF UploadsApart
  <2>3. DeletionsApart'
    <3>1. \A i \in Numbers, h \in Groups, k \in Numbers :
            copy'[c][i] # NoObject /\ row[h][k] = copy'[c][i] => h = g /\ k = i
      BY DEF RowsKept
    <3> QED
      BY <3>1 DEF DeletionsApart, Deleting
  <2>4. CopyEmpty' /\ UploadNumbers'
    BY DEF CopyEmpty, UploadNumbers
  <2> QED
    BY <2>1, <2>2, <2>3, <2>4
<1>5. Targets'
  BY <1>1, <1>3 DEF IInv, Targets, OthersStay, GroupPhases, PostPhases, UploadPhases,
     CommentPhases
<1>6. Exclusive' /\ PostGroups' /\ CommentLocked'
  BY <1>1, <1>3, MoveKeepsRest DEF Inside
<1> QED
  BY <1>2, <1>4, <1>5, <1>6 DEF IInv

LEMMA FindGroupKeeps ==
  ASSUME IInv, NEW c \in Calls, FindGroup(c), UNCHANGED comment
  PROVE  IInv'
<1>1. /\ UNCHANGED <<pool, group, row, post, stored, removing, listed, orphan>>
      /\ UNCHANGED <<groupLock, postLock, on, at, first, comment>>
      /\ pc[c] = "findGroup" /\ pc' = [pc EXCEPT ![c] = "removeAll"]
      /\ copy' = [copy EXCEPT ![c] = row[on[c]]] /\ group[on[c]].status # "none"
  BY DEF FindGroup, Goto, LiveGroup, rowVars, storeVars, locks
<1>2. on[c] \in Groups
  BY <1>1 DEF IInv, Targets, GroupPhases
<1>3. TypeOK'
  BY <1>1, <1>2 DEF IInv, TypeOK, AttachmentsTypeOK, Phases
<1>4. /\ OthersStay(c) /\ LocksStay(c) /\ pc'[c] = "removeAll"
      /\ on'[c] = on[c] /\ copy'[c] = row[on[c]]
  BY <1>1 DEF OthersStay, LocksStay, IInv, TypeOK, AttachmentsTypeOK
<1>5. ObjectsInv'
  <2> USE <1>1, <1>2, <1>4 DEF IInv, ObjectsInv, OthersStay
  <2>1. RowsKept'
    BY DEF RowsKept
  <2>2. UploadsApart'
    <3> SUFFICES ASSUME NEW d \in Calls, NEW i \in Numbers, Uploading(d)', copy'[d][i] # NoObject
                 PROVE  /\ copy'[d][i] \in stored \ (removing \union listed)
                        /\ \A h \in Groups, k \in Numbers : row[h][k] # copy'[d][i]
                        /\ \A e \in Calls, k \in Numbers :
                             copy'[e][k] = copy'[d][i] => e = d /\ k = i
      BY DEF UploadsApart
    <3>1. d # c /\ Uploading(d) /\ copy'[d] = copy[d]
      BY DEF Uploading, UploadPhases
    <3> QED
      BY <3>1 DEF UploadsApart
  <2>3. DeletionsApart'
    <3>1. \A i \in Numbers, h \in Groups, k \in Numbers :
            copy'[c][i] # NoObject /\ row[h][k] = copy'[c][i] => h = on[c] /\ k = i
      BY DEF RowsKept
    <3> QED
      BY <3>1 DEF DeletionsApart, Deleting
  <2>4. CopyEmpty' /\ UploadNumbers'
    BY DEF CopyEmpty, UploadNumbers
  <2> QED
    BY <2>1, <2>2, <2>3, <2>4
<1>6. Targets'
  BY <1>1, <1>2, <1>4 DEF IInv, Targets, OthersStay, GroupPhases, PostPhases,
     UploadPhases, CommentPhases
<1>7. Exclusive' /\ PostGroups' /\ CommentLocked'
  BY <1>1, <1>4, MoveKeepsRest DEF Inside
<1> QED
  BY <1>3, <1>5, <1>6, <1>7 DEF IInv

\* The rows a deletion removes are those it has read, or later ones of the
\* same numbers.
LEMMA RemovedRows ==
  ASSUME IInv, NEW c \in Calls, pc[c] \in {"remove", "removeAll"}, RemoveRows(c)
  PROVE  /\ row' \in [Groups -> Items] /\ orphan' \subseteq Objects
         /\ \A g \in Groups, n \in Numbers :
              row'[g][n] = IF g = on[c] /\ copy[c][n] # NoObject THEN NoObject ELSE row[g][n]
         /\ \A g \in Groups, n \in Numbers : row'[g][n] \notin Of(copy[c])
<1>1. on[c] \in Groups
  BY DEF IInv, Targets, GroupPhases
<1>2. row' \in [Groups -> Items]
  BY <1>1 DEF RemoveRows, IInv, TypeOK, AttachmentsTypeOK, Items
<1>3. orphan' \subseteq Objects
  BY <1>1 DEF RemoveRows, IInv, TypeOK, AttachmentsTypeOK, Items, Of
<1>4. \A g \in Groups, n \in Numbers :
        row'[g][n] = IF g = on[c] /\ copy[c][n] # NoObject THEN NoObject ELSE row[g][n]
  BY <1>1 DEF RemoveRows, IInv, TypeOK, AttachmentsTypeOK
<1>5. \A g \in Groups, n \in Numbers : row'[g][n] \notin Of(copy[c])
  BY <1>4 DEF Of, IInv, ObjectsInv, DeletionsApart, Deleting
<1> QED
  BY <1>2, <1>3, <1>4, <1>5

LEMMA RemovalKeepsObjects ==
  ASSUME IInv, NEW c \in Calls, pc[c] \in {"remove", "removeAll"}, RemoveRows(c),
         OthersStay(c), UNCHANGED <<stored, listed>>,
         removing' \subseteq removing \union Of(copy[c]),
         \/ pc'[c] = "idle" /\ copy'[c] = NoItems
         \/ pc'[c] = "markGroup" /\ copy'[c] = copy[c]
  PROVE  ObjectsInv'
<1> USE DEF IInv, ObjectsInv, OthersStay
<1>1. /\ \A g \in Groups, n \in Numbers : row'[g][n] \in {NoObject, row[g][n]}
      /\ \A g \in Groups, n \in Numbers : row'[g][n] \notin Of(copy[c])
  BY RemovedRows
<1>2. RowsKept'
  BY <1>1 DEF RowsKept
<1>3. \A d \in Calls : Uploading(d)' => d # c /\ Uploading(d)
  BY DEF Uploading, UploadPhases
<1>4. UploadsApart'
  <2> SUFFICES ASSUME NEW d \in Calls, NEW i \in Numbers, Uploading(d)', copy'[d][i] # NoObject
               PROVE  /\ copy'[d][i] \in stored \ (removing' \union listed)
                      /\ \A h \in Groups, k \in Numbers : row'[h][k] # copy'[d][i]
                      /\ \A e \in Calls, k \in Numbers :
                           copy'[e][k] = copy'[d][i] => e = d /\ k = i
    BY DEF UploadsApart
  <2>1. copy'[d] = copy[d] /\ Uploading(d) /\ d # c
    BY <1>3
  <2>2. copy[d][i] \notin Of(copy[c])
    BY <2>1 DEF UploadsApart, Of
  <2>3. \A e \in Calls, k \in Numbers : copy'[e][k] = copy'[d][i] => e = d /\ k = i
    BY <2>1 DEF UploadsApart, NoItems
  <2> QED
    BY <1>1, <2>1, <2>2, <2>3 DEF UploadsApart
<1>5. DeletionsApart'
  BY <1>1 DEF DeletionsApart, Deleting, Of
<1>6. CopyEmpty'
  BY DEF CopyEmpty
<1>7. UploadNumbers'
  BY <1>1 DEF UploadNumbers, Targets, GroupPhases, UploadPhases
<1> QED
  BY <1>2, <1>4, <1>5, <1>6, <1>7

LEMMA RemoveItemKeeps ==
  ASSUME IInv, NEW c \in Calls, RemoveItem(c), UNCHANGED comment
  PROVE  IInv'
<1>1. /\ UNCHANGED <<pool, group, post, stored, listed>> /\ End(c)
      /\ pc[c] = "remove" /\ RemoveRows(c)
      /\ removing' = removing \union Of(copy[c])
  BY DEF RemoveItem
<1>2. TypeOK'
  <2>1. removing' \subseteq Objects
    BY <1>1 DEF IInv, TypeOK, AttachmentsTypeOK, Of, Items
  <2> QED
    BY <1>1, <2>1, EndFacts, RemovedRows DEF IInv, TypeOK, AttachmentsTypeOK
<1>3. ObjectsInv'
  BY <1>1, EndFacts, RemovalKeepsObjects DEF IInv
<1>4. Targets' /\ Exclusive' /\ CommentLocked'
  BY <1>1, EndKeepsRest, CommentsAsTheyWere
<1>5. PostGroups'
  BY <1>1 DEF IInv, PostGroups
<1> QED
  BY <1>2, <1>3, <1>4, <1>5 DEF IInv

LEMMA RemoveItemsKeeps ==
  ASSUME IInv, NEW c \in Calls, RemoveItems(c), UNCHANGED comment
  PROVE  IInv'
<1>1. /\ UNCHANGED <<pool, group, post, stored, removing, listed>>
      /\ UNCHANGED <<groupLock, postLock, on, at, copy, first, comment>>
      /\ pc[c] = "removeAll" /\ RemoveRows(c)
      /\ pc' = [pc EXCEPT ![c] = "markGroup"]
  BY DEF RemoveItems, Goto, locks
<1>2. on[c] \in Groups /\ group[on[c]].status # "none"
  BY <1>1 DEF IInv, Targets, GroupPhases, Exclusive, Inside
<1>3. TypeOK'
  BY <1>1, RemovedRows DEF IInv, TypeOK, AttachmentsTypeOK, Phases
<1>4. OthersStay(c) /\ LocksStay(c) /\ pc'[c] = "markGroup" /\ on'[c] = on[c]
  BY <1>1 DEF OthersStay, LocksStay, IInv, TypeOK, AttachmentsTypeOK
<1>5. ObjectsInv'
  BY <1>1, <1>4, RemovalKeepsObjects
<1>6. Targets'
  BY <1>1, <1>2, <1>4 DEF IInv, Targets, OthersStay, GroupPhases, PostPhases,
     UploadPhases, CommentPhases
<1>7. Exclusive' /\ PostGroups' /\ CommentLocked'
  BY <1>1, <1>2, <1>4, MoveKeepsRest DEF Inside
<1> QED
  BY <1>3, <1>5, <1>6, <1>7 DEF IInv

LEMMA NothingToDeleteKeeps ==
  ASSUME IInv, NEW c \in Calls, NothingToDelete(c), UNCHANGED comment
  PROVE  IInv'
<1> USE DEF NothingToDelete, rowVars, storeVars
<1>1. TypeOK'
  BY EndFacts DEF IInv, TypeOK, AttachmentsTypeOK
<1>2. ObjectsInv'
  BY EndKeepsObjects
<1>3. Targets' /\ Exclusive' /\ CommentLocked'
  BY EndKeepsRest, CommentsAsTheyWere
<1>4. PostGroups'
  BY DEF IInv, PostGroups
<1> QED
  BY <1>1, <1>2, <1>3, <1>4 DEF IInv

LEMMA MarkGroupKeeps ==
  ASSUME IInv, NEW c \in Calls, MarkGroup(c), UNCHANGED comment
  PROVE  IInv'
<1>1. /\ UNCHANGED <<pool, row, post, stored, listed, orphan>> /\ End(c)
      /\ pc[c] = "markGroup"
      /\ group' = [group EXCEPT ![on[c]].status = "deleted"]
      /\ removing' = removing \union Of(copy[c])
  BY DEF MarkGroup
<1>2. on[c] \in Groups
  BY <1>1 DEF IInv, Targets, GroupPhases
<1>3. TypeOK'
  <2>1. removing' \subseteq Objects
    BY DEF IInv, TypeOK, AttachmentsTypeOK, MarkGroup, Of, Items
  <2>2. group' \in [Groups -> [status: Status, ref: Posts \union {NoPost}]]
    <3>1. group \in [Groups -> [status: Status, ref: Posts \union {NoPost}]]
      BY DEF IInv, TypeOK, AttachmentsTypeOK
    <3>2. "deleted" \in Status
      BY DEF Status
    <3> QED
      BY <1>1, <1>2, <3>1, <3>2
  <2> QED
    BY <1>1, <2>1, <2>2, EndFacts DEF IInv, TypeOK, AttachmentsTypeOK
<1>4. \A g \in Groups : /\ group'[g].status = "none" => group[g].status = "none"
                        /\ group'[g].status # group[g].status => on[c] = g
  BY <1>1, <1>2 DEF IInv, TypeOK, AttachmentsTypeOK
<1>5. ObjectsInv'
  BY <1>1, EndKeepsObjects DEF Claimed
<1>6. Targets' /\ Exclusive' /\ CommentLocked'
  BY <1>1, <1>4, EndKeepsRest, CommentsAsTheyWere
<1>7. PostGroups'
  BY <1>1, <1>4 DEF IInv, PostGroups
<1> QED
  BY <1>3, <1>5, <1>6, <1>7 DEF IInv

LEMMA FindToBindKeeps ==
  ASSUME IInv, NEW c \in Calls, FindToBind(c), UNCHANGED comment
  PROVE  IInv'
<1>1. /\ UNCHANGED <<pool, group, row, post, stored, removing, listed, orphan>>
      /\ UNCHANGED <<groupLock, postLock, on, at, copy, first, comment>>
      /\ pc[c] = "bind" /\ pc' = [pc EXCEPT ![c] = "saveGroup"]
      /\ group[on[c]].status # "none"
  BY DEF FindToBind, Goto, LiveGroup, rowVars, storeVars, locks
<1>2. TypeOK'
  BY <1>1 DEF IInv, TypeOK, AttachmentsTypeOK, Phases
<1>3. OthersStay(c) /\ LocksStay(c) /\ pc'[c] = "saveGroup" /\ on'[c] = on[c]
  BY <1>1 DEF OthersStay, LocksStay, IInv, TypeOK, AttachmentsTypeOK
<1>4. Targets'
  BY <1>1, <1>3 DEF IInv, Targets, OthersStay, GroupPhases, PostPhases, UploadPhases,
     CommentPhases
<1>5. ObjectsInv'
  BY <1>1, <1>3, MoveKeepsObjects
<1>6. Exclusive' /\ PostGroups' /\ CommentLocked'
  BY <1>1, <1>3, MoveKeepsRest DEF Inside
<1> QED
  BY <1>2, <1>4, <1>5, <1>6 DEF IInv

LEMMA SaveGroupKeeps ==
  ASSUME IInv, NEW c \in Calls, SaveGroup(c), UNCHANGED comment
  PROVE  IInv'
<1>1. /\ UNCHANGED <<pool, row, post, stored, removing, listed, orphan>> /\ End(c)
      /\ pc[c] = "saveGroup"
      /\ group' = [group EXCEPT ![on[c]] = [status |-> "live", ref |-> at[c]]]
  BY DEF SaveGroup, storeVars
<1>2. on[c] \in Groups /\ at[c] \in Posts
  BY <1>1 DEF IInv, Targets, GroupPhases, PostPhases
<1>3. TypeOK'
  <2>1. group' \in [Groups -> [status: Status, ref: Posts \union {NoPost}]]
    BY <1>1, <1>2 DEF IInv, TypeOK, AttachmentsTypeOK, Status
  <2> QED
    BY <1>1, <2>1, EndFacts DEF IInv, TypeOK, AttachmentsTypeOK
<1>4. \A g \in Groups : /\ group'[g].status = "none" => group[g].status = "none"
                        /\ group'[g].status # group[g].status => on[c] = g
  BY <1>1, <1>2 DEF IInv, TypeOK, AttachmentsTypeOK
<1>5. ObjectsInv'
  BY <1>1, EndKeepsObjects
<1>6. Targets' /\ Exclusive' /\ CommentLocked'
  BY <1>1, <1>4, EndKeepsRest, CommentsAsTheyWere
<1>7. PostGroups'
  BY <1>1, <1>4 DEF IInv, PostGroups
<1> QED
  BY <1>3, <1>5, <1>6, <1>7 DEF IInv

-----------------------------------------------------------------------------
(***************************************************************************)
(* The object store and the end of the process.                            *)
(***************************************************************************)
\* Deleting or listing objects that have no owner leaves the calls alone.
LEMMA StoreKeeps ==
  ASSUME IInv, UNCHANGED <<group, row, post, comment, groupLock, postLock, callVars>>,
         \A g \in Groups, n \in Numbers : row[g][n] # NoObject =>
           row[g][n] \in stored' \ removing',
         \A c \in Calls, n \in Numbers : Uploading(c) /\ copy[c][n] # NoObject =>
           copy[c][n] \in stored' \ (removing' \union listed')
  PROVE  /\ Targets' /\ ObjectsInv'
         /\ Exclusive' /\ PostGroups' /\ CommentLocked'
<1> USE DEF IInv, ObjectsInv, callVars
<1>1. Targets'
  BY DEF Targets
<1>2. RowsKept'
  BY DEF RowsKept
<1>3. UploadsApart'
  BY DEF UploadsApart, Uploading
<1>4. DeletionsApart' /\ CopyEmpty' /\ UploadNumbers'
  BY DEF DeletionsApart, Deleting, CopyEmpty, UploadNumbers
<1>5. Exclusive' /\ PostGroups' /\ CommentLocked'
  BY DEF Exclusive, Inside, PostGroups, CommentLocked, LivePost
<1> QED
  BY <1>1, <1>2, <1>3, <1>4, <1>5

LEMMA StoreStepsKeep ==
  ASSUME IInv, ListObjects \/ CompareRows \/ \E o \in Objects : DeleteObject(o) \/ DeleteFails(o),
         UNCHANGED comment
  PROVE  IInv'
<1>1. UNCHANGED <<pool, group, row, post, comment, groupLock, postLock, callVars>>
  BY DEF ListObjects, CompareRows, DeleteObject, DeleteFails, rowVars, locks, callVars
<1>2. /\ stored' \subseteq Objects /\ removing' \subseteq Objects
      /\ listed' \subseteq Objects /\ orphan' \subseteq Objects
  BY DEF IInv, TypeOK, AttachmentsTypeOK, ListObjects, CompareRows, DeleteObject, DeleteFails
<1>3. TypeOK'
  BY <1>1, <1>2 DEF IInv, TypeOK, AttachmentsTypeOK, callVars
<1>4. /\ removing' \subseteq removing \union (listed \ RowObjects)
      /\ stored \ removing \subseteq stored'
      /\ listed' \subseteq listed \union (stored \ Underway)
  BY DEF ListObjects, CompareRows, DeleteObject, DeleteFails
<1>5. \A g \in Groups, n \in Numbers : row[g][n] # NoObject => row[g][n] \in stored' \ removing'
  BY <1>4 DEF IInv, ObjectsInv, RowsKept, RowObjects, Of
<1>6. \A c \in Calls, n \in Numbers : Uploading(c) /\ copy[c][n] # NoObject =>
        copy[c][n] \in stored' \ (removing' \union listed')
  BY <1>4 DEF IInv, ObjectsInv, UploadsApart, Underway, Of
<1> QED
  BY <1>1, <1>3, <1>5, <1>6, StoreKeeps DEF IInv

LEMMA CrashKeeps ==
  ASSUME IInv, Crash, UNCHANGED comment
  PROVE  IInv'
<1> USE DEF Crash, rowVars
<1>1. TypeOK'
  BY BasicFacts DEF IInv, TypeOK, AttachmentsTypeOK, Phases
<1>2. Targets'
  BY DEF Targets, GroupPhases, PostPhases, UploadPhases, CommentPhases
<1>3. ObjectsInv'
  BY DEF IInv, ObjectsInv, RowsKept, UploadsApart, DeletionsApart,
     CopyEmpty, UploadNumbers, NoItems, Uploading, UploadPhases, Deleting
<1>4. Exclusive' /\ PostGroups' /\ CommentLocked'
  BY AttachmentNames DEF IInv, Exclusive, PostGroups, CommentLocked
<1> QED
  BY <1>1, <1>2, <1>3, <1>4 DEF IInv

-----------------------------------------------------------------------------
(***************************************************************************)
(* The steps of Board.                                                     *)
(***************************************************************************)
\* A group the form of a post holds has been committed.
LEMMA FormGroupFacts ==
  ASSUME IInv, NEW p \in Posts, NEW g \in FormGroups(p)
  PROVE  g \in Groups \union {NoGroup} /\ (g \in Groups => group[g].status # "none")
BY AttachmentNames DEF FormGroups

LEMMA CreatePostKeeps ==
  ASSUME IInv, NEW c \in Calls, NEW p \in Posts, NEW g \in Groups \union {NoGroup},
         CreatePost(c, p, g)
  PROVE  IInv'
<1>1. /\ UNCHANGED <<pool, group, row, stored, removing, listed, orphan, comment>>
      /\ UNCHANGED <<groupLock, postLock, copy, first>>
      /\ pc[c] = "idle" /\ post[p].status = "none" /\ g \in FormGroups(p)
      /\ post' = [post EXCEPT ![p] = [status |-> "live", group |-> g]]
      /\ pc' = [pc EXCEPT ![c] = IF g = NoGroup THEN "idle" ELSE "bind"]
      /\ on' = [on EXCEPT ![c] = g]
      /\ at' = [at EXCEPT ![c] = IF g = NoGroup THEN NoPost ELSE p]
  BY DEF CreatePost, rowVars, storeVars, locks
<1>2. g \in Groups => group[g].status # "none"
  BY <1>1, FormGroupFacts
<1>3. post' \in [Posts -> [status: Status, group: Groups \union {NoGroup}]]
  BY <1>1 DEF IInv, TypeOK, AttachmentsTypeOK, Status
<1>4. TypeOK'
  BY <1>1, <1>3 DEF IInv, TypeOK, AttachmentsTypeOK, Phases
<1>5. /\ OthersStay(c) /\ LocksStay(c)
      /\ pc'[c] = (IF g = NoGroup THEN "idle" ELSE "bind")
      /\ on'[c] = g /\ at'[c] = (IF g = NoGroup THEN NoPost ELSE p)
  BY <1>1 DEF OthersStay, LocksStay, IInv, TypeOK, AttachmentsTypeOK
<1>6. Targets'
  BY <1>5 DEF IInv, Targets, OthersStay, GroupPhases, PostPhases, UploadPhases,
     CommentPhases
<1>7. ObjectsInv'
  BY <1>1, <1>5, MoveKeepsObjects
<1>8. Exclusive'
  BY <1>1, <1>2, <1>5, KeepsGroups DEF Inside
<1>9. PostGroups'
  BY <1>1, <1>2 DEF IInv, PostGroups, TypeOK, AttachmentsTypeOK
<1>10. CommentLocked'
  <2>1. \A d \in Calls \ {c} : pc[d] = "comment" =>
          post'[at[d]].status = "live" /\ comment'[at[d]][first[d]] = NoAuthor
    BY <1>1 DEF IInv, CommentLocked, LivePost, TypeOK, AttachmentsTypeOK, Targets,
       PostPhases, CommentPhases
  <2> QED
    BY <1>5, <2>1, KeepsComments
<1> QED
  BY <1>4, <1>6, <1>7, <1>8, <1>9, <1>10 DEF IInv

LEMMA FindPostKeeps ==
  ASSUME IInv, NEW c \in Calls, NEW p \in Posts, FindPost(c, p)
  PROVE  IInv'
<1>1. /\ UNCHANGED <<pool, group, row, post, stored, removing, listed, orphan, comment>>
      /\ UNCHANGED <<groupLock, postLock, on, copy, first>>
      /\ pc[c] = "idle" /\ pc' = [pc EXCEPT ![c] = "edit"]
      /\ at' = [at EXCEPT ![c] = p]
  BY DEF FindPost, Start, rowVars, storeVars, locks
<1>2. TypeOK'
  BY <1>1 DEF IInv, TypeOK, AttachmentsTypeOK, Phases
<1>3. OthersStay(c) /\ LocksStay(c) /\ pc'[c] = "edit" /\ on'[c] = on[c] /\ at'[c] = p
  BY <1>1 DEF OthersStay, LocksStay, IInv, TypeOK, AttachmentsTypeOK
<1>4. Targets'
  BY <1>1, <1>3 DEF IInv, Targets, OthersStay, GroupPhases, PostPhases, UploadPhases,
     CommentPhases
<1>5. ObjectsInv'
  BY <1>1, <1>3, MoveKeepsObjects
<1>6. on'[c] \in Groups => group[on'[c]].status # "none" /\ ~Inside(c)'
  BY <1>1, <1>3 DEF IInv, Exclusive, Inside
<1>7. Exclusive' /\ PostGroups' /\ CommentLocked'
  BY <1>1, <1>3, <1>6, MoveKeepsRest
<1> QED
  BY <1>2, <1>4, <1>5, <1>7 DEF IInv

LEMMA SavePostKeeps ==
  ASSUME IInv, NEW c \in Calls, NEW g \in Groups \union {NoGroup}, SavePost(c, g)
  PROVE  IInv'
<1>1. /\ UNCHANGED <<pool, group, row, stored, removing, listed, orphan, comment>>
      /\ pc[c] = "edit" /\ postLock[at[c]] = NoCall /\ g \in FormGroups(at[c])
      /\ post' = [post EXCEPT ![at[c]] = [status |-> "live", group |-> g]]
  BY DEF SavePost, rowVars, storeVars
<1>2. at[c] \in Posts
  BY <1>1 DEF IInv, Targets, PostPhases
<1>3. g \in Groups => group[g].status # "none"
  BY <1>1, <1>2, FormGroupFacts
<1>4. post' \in [Posts -> [status: Status, group: Groups \union {NoGroup}]]
  BY <1>1 DEF IInv, TypeOK, AttachmentsTypeOK, Status
<1>5. PostGroups'
  BY <1>1, <1>3 DEF IInv, PostGroups, TypeOK, AttachmentsTypeOK
<1>6. \A d \in Calls \ {c} : pc[d] = "comment" =>
        post'[at[d]].status = "live" /\ comment'[at[d]][first[d]] = NoAuthor
  BY <1>1, <1>2, AttachmentNames DEF IInv, CommentLocked, LivePost, TypeOK, AttachmentsTypeOK
<1>7. CASE g = NoGroup
  <2>1. End(c)
    BY <1>7 DEF SavePost
  <2>2. TypeOK'
    BY <1>1, <1>4, <2>1, EndFacts DEF IInv, TypeOK, AttachmentsTypeOK
  <2>3. ObjectsInv'
    BY <1>1, <2>1, EndKeepsObjects
  <2>4. Targets' /\ Exclusive' /\ CommentLocked'
    BY <1>1, <1>6, <2>1, EndKeepsRest
  <2> QED
    BY <1>5, <2>2, <2>3, <2>4 DEF IInv
<1>8. CASE g # NoGroup
  <2>1. /\ pc' = [pc EXCEPT ![c] = "bind"] /\ on' = [on EXCEPT ![c] = g]
        /\ UNCHANGED <<groupLock, postLock, at, copy, first>>
    BY <1>8 DEF SavePost, Goto, locks
  <2>2. TypeOK'
    BY <1>1, <1>4, <2>1 DEF IInv, TypeOK, AttachmentsTypeOK, Phases
  <2>3. OthersStay(c) /\ LocksStay(c) /\ pc'[c] = "bind" /\ on'[c] = g /\ at'[c] = at[c]
    BY <2>1 DEF OthersStay, LocksStay, IInv, TypeOK, AttachmentsTypeOK
  <2>4. Targets'
    BY <1>2, <1>8, <2>3 DEF IInv, Targets, OthersStay, GroupPhases, PostPhases,
       UploadPhases, CommentPhases
  <2>5. ObjectsInv'
    BY <1>1, <2>1, <2>3, MoveKeepsObjects
  <2>6. Exclusive'
    BY <1>1, <1>3, <2>3, KeepsGroups DEF Inside
  <2>7. CommentLocked'
    BY <1>6, <2>3, KeepsComments
  <2> QED
    BY <1>5, <2>2, <2>4, <2>5, <2>6, <2>7 DEF IInv
<1> QED
  BY <1>7, <1>8

LEMMA FindToDeleteKeeps ==
  ASSUME IInv, NEW c \in Calls, NEW p \in Posts, FindToDelete(c, p)
  PROVE  IInv'
<1>1. /\ UNCHANGED <<pool, group, row, post, stored, removing, listed, orphan, comment>>
      /\ UNCHANGED <<groupLock, postLock, copy, first>>
      /\ pc[c] = "idle" /\ pc' = [pc EXCEPT ![c] = "markPost"]
      /\ at' = [at EXCEPT ![c] = p] /\ on' = [on EXCEPT ![c] = post[p].group]
  BY DEF FindToDelete, Start, rowVars, storeVars, locks
<1>2. TypeOK'
  BY <1>1 DEF IInv, TypeOK, AttachmentsTypeOK, Phases
<1>3. /\ OthersStay(c) /\ LocksStay(c) /\ pc'[c] = "markPost"
      /\ on'[c] = post[p].group /\ at'[c] = p
  BY <1>1 DEF OthersStay, LocksStay, IInv, TypeOK, AttachmentsTypeOK
<1>4. Targets'
  BY <1>1, <1>3 DEF IInv, Targets, OthersStay, GroupPhases, PostPhases, UploadPhases,
     CommentPhases
<1>5. ObjectsInv'
  BY <1>1, <1>3, MoveKeepsObjects
<1>6. Exclusive' /\ PostGroups' /\ CommentLocked'
  BY <1>1, <1>3, MoveKeepsRest DEF Inside, IInv, PostGroups
<1> QED
  BY <1>2, <1>4, <1>5, <1>6 DEF IInv

LEMMA MarkPostKeeps ==
  ASSUME IInv, NEW c \in Calls, MarkPost(c)
  PROVE  IInv'
<1>1. /\ UNCHANGED <<pool, group, row, stored, removing, listed, orphan, comment>>
      /\ pc[c] = "markPost" /\ postLock[at[c]] = NoCall
      /\ post' = [post EXCEPT ![at[c]] = [status |-> "deleted", group |-> on[c]]]
  BY DEF MarkPost, rowVars, storeVars
<1>2. at[c] \in Posts
  BY <1>1 DEF IInv, Targets, PostPhases
<1>3. on[c] \in Groups => group[on[c]].status # "none"
  BY <1>1 DEF IInv, Exclusive, Inside
<1>4. post' \in [Posts -> [status: Status, group: Groups \union {NoGroup}]]
  BY <1>1 DEF IInv, TypeOK, AttachmentsTypeOK, Status
<1>5. PostGroups'
  BY <1>1, <1>3 DEF IInv, PostGroups, TypeOK, AttachmentsTypeOK
<1>6. \A d \in Calls \ {c} : pc[d] = "comment" =>
        post'[at[d]].status = "live" /\ comment'[at[d]][first[d]] = NoAuthor
  BY <1>1, <1>2, AttachmentNames DEF IInv, CommentLocked, LivePost, TypeOK, AttachmentsTypeOK
<1>7. CASE on[c] = NoGroup
  <2>1. End(c)
    BY <1>7 DEF MarkPost
  <2>2. TypeOK'
    BY <1>1, <1>4, <2>1, EndFacts DEF IInv, TypeOK, AttachmentsTypeOK
  <2>3. ObjectsInv'
    BY <1>1, <2>1, EndKeepsObjects
  <2>4. Targets' /\ Exclusive' /\ CommentLocked'
    BY <1>1, <1>6, <2>1, EndKeepsRest
  <2> QED
    BY <1>5, <2>2, <2>3, <2>4 DEF IInv
<1>8. CASE on[c] # NoGroup
  <2>1. /\ pc' = [pc EXCEPT ![c] = "findGroup"]
        /\ UNCHANGED <<groupLock, postLock, on, at, copy, first>>
    BY <1>8 DEF MarkPost, Goto, locks
  <2>2. TypeOK'
    BY <1>1, <1>4, <2>1 DEF IInv, TypeOK, AttachmentsTypeOK, Phases
  <2>3. OthersStay(c) /\ LocksStay(c) /\ pc'[c] = "findGroup" /\ on'[c] = on[c]
    BY <2>1 DEF OthersStay, LocksStay, IInv, TypeOK, AttachmentsTypeOK
  <2>4. Targets'
    BY <1>8, <2>1, <2>3 DEF IInv, Targets, OthersStay, GroupPhases, PostPhases,
       UploadPhases, CommentPhases, TypeOK, AttachmentsTypeOK
  <2>5. ObjectsInv'
    BY <1>1, <2>1, <2>3, MoveKeepsObjects
  <2>6. Exclusive'
    BY <1>1, <1>3, <2>3, KeepsGroups DEF Inside
  <2>7. CommentLocked'
    BY <1>6, <2>3, KeepsComments
  <2> QED
    BY <1>5, <2>2, <2>4, <2>5, <2>6, <2>7 DEF IInv
<1> QED
  BY <1>7, <1>8

LEMMA LockPostKeeps ==
  ASSUME IInv, NEW c \in Calls, NEW p \in Posts, LockPost(c, p)
  PROVE  IInv'
<1>1. /\ UNCHANGED <<pool, group, row, post, stored, removing, listed, orphan, comment>>
      /\ UNCHANGED <<groupLock, on, copy>>
      /\ pc[c] = "idle" /\ pc' = [pc EXCEPT ![c] = "comment"]
      /\ LivePost(p) /\ postLock[p] = NoCall
      /\ postLock' = [postLock EXCEPT ![p] = c] /\ at' = [at EXCEPT ![c] = p]
  BY DEF LockPost, Start, rowVars, storeVars
<1>2. PICK n \in Numbers : NextNo(CommentNos(p), n) /\ first' = [first EXCEPT ![c] = n]
  BY DEF LockPost
<1>3. comment[p][n] = NoAuthor
  BY <1>2 DEF NextNo, CommentNos, Numbers
<1>4. TypeOK'
  BY <1>1, <1>2, BasicFacts DEF IInv, TypeOK, AttachmentsTypeOK, Phases, CommentPhases
<1>5. /\ OthersStay(c) /\ LocksStay(c) /\ pc'[c] = "comment"
      /\ on'[c] = on[c] /\ at'[c] = p /\ first'[c] = n
  BY <1>1, <1>2, AttachmentNames DEF OthersStay, LocksStay, IInv, TypeOK, AttachmentsTypeOK
<1>6. Targets'
  BY <1>1, <1>5 DEF IInv, Targets, OthersStay, GroupPhases, PostPhases, UploadPhases,
     CommentPhases
<1>7. ObjectsInv'
  BY <1>1, <1>5, MoveKeepsObjects
<1>8. Exclusive'
  <2>1. on'[c] \in Groups => group'[on'[c]].status # "none" /\ ~Inside(c)'
    BY <1>1, <1>5 DEF IInv, Exclusive, Inside
  <2> QED
    BY <1>1, <1>5, <2>1, KeepsGroups
<1>9. PostGroups'
  BY <1>1 DEF IInv, PostGroups
<1>10. CommentLocked'
  BY <1>1, <1>3, <1>5 DEF IInv, CommentLocked, LivePost, OthersStay, LocksStay, Targets,
     PostPhases, CommentPhases, TypeOK, AttachmentsTypeOK
<1> QED
  BY <1>4, <1>6, <1>7, <1>8, <1>9, <1>10 DEF IInv

LEMMA CommitCommentKeeps ==
  ASSUME IInv, NEW c \in Calls, NEW u \in Authors, CommitComment(c, u)
  PROVE  IInv'
<1>1. /\ UNCHANGED <<pool, group, row, post, stored, removing, listed, orphan>> /\ End(c)
      /\ pc[c] = "comment" /\ comment' = [comment EXCEPT ![at[c]][first[c]] = u]
  BY DEF CommitComment, rowVars, storeVars
<1>2. at[c] \in Posts
  BY <1>1 DEF IInv, Targets, PostPhases, CommentPhases
<1>3. TypeOK'
  <2>1. comment' \in [Posts -> [Numbers -> Authors \union {NoAuthor}]]
    BY <1>1 DEF IInv, TypeOK
  <2> QED
    BY <1>1, <2>1, EndFacts DEF IInv, TypeOK, AttachmentsTypeOK
<1>4. ObjectsInv'
  BY <1>1, EndKeepsObjects
<1>5. \A d \in Calls \ {c} : pc[d] = "comment" =>
        post'[at[d]].status = "live" /\ comment'[at[d]][first[d]] = NoAuthor
  <2> SUFFICES ASSUME NEW d \in Calls \ {c}, pc[d] = "comment"
               PROVE  post'[at[d]].status = "live" /\ comment'[at[d]][first[d]] = NoAuthor
    OBVIOUS
  <2>1. at[d] # at[c] /\ at[d] \in Posts
    BY <1>1 DEF IInv, CommentLocked, Targets, PostPhases, CommentPhases
  <2> QED
    BY <1>1, <1>2, <2>1 DEF IInv, CommentLocked, LivePost, TypeOK
<1>6. Targets' /\ Exclusive' /\ CommentLocked'
  BY <1>1, <1>5, EndKeepsRest
<1>7. PostGroups'
  BY <1>1 DEF IInv, PostGroups
<1> QED
  BY <1>3, <1>4, <1>6, <1>7 DEF IInv

LEMMA FindCommentKeeps ==
  ASSUME IInv, NEW c \in Calls, NEW p \in Posts, NEW n \in Numbers, FindComment(c, p, n)
  PROVE  IInv'
<1>1. /\ UNCHANGED <<pool, group, row, post, stored, removing, listed, orphan, comment>>
      /\ UNCHANGED <<groupLock, postLock, on, copy>>
      /\ pc[c] = "idle" /\ pc' = [pc EXCEPT ![c] = "removeComment"]
      /\ at' = [at EXCEPT ![c] = p] /\ first' = [first EXCEPT ![c] = n]
  BY DEF FindComment, Start, rowVars, storeVars, locks
<1>2. TypeOK'
  BY <1>1, BasicFacts DEF IInv, TypeOK, AttachmentsTypeOK, Phases
<1>3. /\ OthersStay(c) /\ LocksStay(c) /\ pc'[c] = "removeComment"
      /\ on'[c] = on[c] /\ at'[c] = p /\ first'[c] = n
  BY <1>1 DEF OthersStay, LocksStay, IInv, TypeOK, AttachmentsTypeOK
<1>4. Targets'
  BY <1>1, <1>3 DEF IInv, Targets, OthersStay, GroupPhases, PostPhases, UploadPhases,
     CommentPhases
<1>5. ObjectsInv'
  BY <1>1, <1>3, MoveKeepsObjects
<1>6. on'[c] \in Groups => group[on'[c]].status # "none" /\ ~Inside(c)'
  BY <1>1, <1>3 DEF IInv, Exclusive, Inside
<1>7. Exclusive' /\ PostGroups' /\ CommentLocked'
  BY <1>1, <1>3, <1>6, MoveKeepsRest
<1> QED
  BY <1>2, <1>4, <1>5, <1>7 DEF IInv

LEMMA RemoveCommentKeeps ==
  ASSUME IInv, NEW c \in Calls, RemoveComment(c)
  PROVE  IInv'
<1>1. /\ UNCHANGED <<pool, group, row, post, stored, removing, listed, orphan>> /\ End(c)
      /\ pc[c] = "removeComment" /\ comment' = [comment EXCEPT ![at[c]][first[c]] = NoAuthor]
  BY DEF RemoveComment, rowVars, storeVars
<1>2. TypeOK'
  <2>1. comment' \in [Posts -> [Numbers -> Authors \union {NoAuthor}]]
    BY <1>1 DEF IInv, TypeOK
  <2> QED
    BY <1>1, <2>1, EndFacts DEF IInv, TypeOK, AttachmentsTypeOK
<1>3. ObjectsInv'
  BY <1>1, EndKeepsObjects
<1>4. \A d \in Calls \ {c} : pc[d] = "comment" =>
        post'[at[d]].status = "live" /\ comment'[at[d]][first[d]] = NoAuthor
  BY <1>1 DEF IInv, CommentLocked, LivePost, TypeOK, Targets, PostPhases, CommentPhases
<1>5. Targets' /\ Exclusive' /\ CommentLocked'
  BY <1>1, <1>4, EndKeepsRest
<1>6. PostGroups'
  BY <1>1 DEF IInv, PostGroups
<1> QED
  BY <1>2, <1>3, <1>5, <1>6 DEF IInv

-----------------------------------------------------------------------------
LEMMA RequestKeeps ==
  ASSUME IInv, NEW c \in Calls, Request(c)
  PROVE  IInv'
<1>1. CASE AttachmentRequests(c) /\ UNCHANGED comment
  BY <1>1, StartUploadKeeps, StartNewGroupKeeps, FindItemKeeps DEF AttachmentRequests
<1>2. CASE \E p \in Posts :
             \/ \E g \in Groups \union {NoGroup} : CreatePost(c, p, g)
             \/ FindPost(c, p) \/ FindToDelete(c, p) \/ LockPost(c, p)
             \/ \E n \in Numbers : FindComment(c, p, n)
  BY <1>2, CreatePostKeeps, FindPostKeeps, FindToDeleteKeeps, LockPostKeeps, FindCommentKeeps
<1> QED
  BY <1>1, <1>2 DEF Request

LEMMA ProgressKeeps ==
  ASSUME IInv, NEW c \in Calls, Progress(c)
  PROVE  IInv'
<1>1. CASE AttachmentSteps(c) /\ UNCHANGED comment
  <2>1. CASE StoreFails(c) \/ ConnectTimeout(c) \/ LockTimeout(c) \/ RefuseGroup(c)
    BY <1>1, <2>1, AbortKeeps DEF StoreFails, ConnectTimeout, LockTimeout, RefuseGroup
  <2>2. CASE LockGroup(c) \/ CheckUpload(c) \/ (\E o \in Objects : StoreFile(c, o))
             \/ CommitUpload(c)
    BY <1>1, <2>2, LockGroupKeeps, CheckUploadKeeps, StoreFileKeeps, CommitUploadKeeps
  <2>3. CASE RemoveItem(c) \/ NothingToDelete(c) \/ FindGroup(c) \/ RemoveItems(c)
             \/ MarkGroup(c)
    BY <1>1, <2>3, RemoveItemKeeps, NothingToDeleteKeeps, FindGroupKeeps, RemoveItemsKeeps,
       MarkGroupKeeps
  <2>4. CASE FindToBind(c) \/ SaveGroup(c)
    BY <1>1, <2>4, FindToBindKeeps, SaveGroupKeeps
  <2> QED
    BY <1>1, <2>1, <2>2, <2>3, <2>4 DEF AttachmentSteps
<1>2. CASE BoardSteps(c)
  BY <1>2, SavePostKeeps, MarkPostKeeps, RemoveCommentKeeps, CommitCommentKeeps DEF BoardSteps
<1> QED
  BY <1>1, <1>2 DEF Progress

LEMMA NextIInv == IInv /\ [Next]_vars => IInv'
<1> SUFFICES ASSUME IInv, [Next]_vars PROVE IInv'
  OBVIOUS
<1>1. ASSUME NEW c \in Calls, Request(c) PROVE IInv'
  BY <1>1, RequestKeeps
<1>2. ASSUME NEW c \in Calls, Progress(c) PROVE IInv'
  BY <1>2, ProgressKeeps
<1>3. ASSUME NEW c \in Calls, AttachmentFaults(c), UNCHANGED comment PROVE IInv'
  BY <1>3, AbortKeeps, StoreUnansweredKeeps DEF AttachmentFaults, Fail
<1>4. CASE StoreSteps /\ UNCHANGED comment
  BY <1>4, StoreStepsKeep, CrashKeeps DEF StoreSteps
<1>5. CASE UNCHANGED vars
  <2>1. UNCHANGED <<pool, group, row, post, stored, removing, listed, orphan, comment>>
        /\ UNCHANGED <<groupLock, postLock, pc, on, at, copy, first>>
    BY <1>5 DEF vars, rowVars, storeVars, locks, callVars
  <2>2. TypeOK' /\ Targets'
    BY <2>1 DEF IInv, TypeOK, AttachmentsTypeOK, Targets
  <2>3. ObjectsInv'
    BY <2>1 DEF IInv, ObjectsInv, RowsKept, UploadsApart, Uploading, DeletionsApart,
       Deleting, CopyEmpty, UploadNumbers
  <2>4. Exclusive' /\ PostGroups' /\ CommentLocked'
    BY <2>1 DEF IInv, Exclusive, Inside, PostGroups, CommentLocked, LivePost
  <2> QED
    BY <2>2, <2>3, <2>4 DEF IInv
<1> QED
  BY <1>1, <1>2, <1>3, <1>4, <1>5 DEF Next

LEMMA SpecIInv == Spec => []IInv
BY InitIInv, NextIInv, PTL DEF Spec

\* The state of the file service and of the board keeps its type.
THEOREM TypeCorrect == Spec => []TypeOK
<1>1. IInv => TypeOK
  BY DEF IInv
<1> QED
  BY <1>1, SpecIInv, PTL

\* The object of a committed attachment is in the store, whatever uploads are
\* undone, deletions are late or objects are reconciled in the meantime.
THEOREM RowsHaveObjects == Spec => []RowHasObject
<1>1. IInv => RowHasObject
  BY DEF IInv, ObjectsInv, RowsKept, RowHasObject, RowObjects, Of
<1> QED
  BY <1>1, SpecIInv, PTL

-----------------------------------------------------------------------------
(***************************************************************************)
(* Steps that write rows and comments.                                     *)
(***************************************************************************)
LEMMA RowWriters ==
  ASSUME [Next]_vars
  PROVE  \/ row' = row
         \/ \E c \in Calls : \/ CommitUpload(c)
                             \/ pc[c] \in {"remove", "removeAll"} /\ RemoveRows(c)
<1>1. ASSUME NEW c \in Calls, Request(c) PROVE row' = row
  BY <1>1 DEF Request, AttachmentRequests, StartUpload, StartNewGroup, FindItem,
     CreatePost, FindPost, FindToDelete, LockPost, FindComment, rowVars
<1>2. ASSUME NEW c \in Calls, AttachmentSteps(c)
      PROVE  \/ row' = row
             \/ CommitUpload(c)
             \/ pc[c] \in {"remove", "removeAll"} /\ RemoveRows(c)
  <2>1. Abort(c) => row' = row
    BY DEF Abort, rowVars
  <2>2. StoreFails(c) \/ ConnectTimeout(c) \/ LockTimeout(c) \/ RefuseGroup(c) => row' = row
    BY <2>1 DEF StoreFails, ConnectTimeout, LockTimeout, RefuseGroup
  <2>3. LockGroup(c) \/ CheckUpload(c) \/ (\E o \in Objects : StoreFile(c, o)) => row' = row
    BY DEF LockGroup, CheckUpload, StoreFile, rowVars
  <2>4. NothingToDelete(c) \/ FindGroup(c) \/ MarkGroup(c) \/ FindToBind(c) \/ SaveGroup(c) =>
          row' = row
    BY DEF NothingToDelete, FindGroup, MarkGroup, FindToBind, SaveGroup, rowVars
  <2>5. RemoveItem(c) \/ RemoveItems(c) =>
          pc[c] \in {"remove", "removeAll"} /\ RemoveRows(c)
    BY DEF RemoveItem, RemoveItems
  <2>6. CASE CommitUpload(c)
    BY <2>6
  <2>7. CASE \/ StoreFails(c) \/ ConnectTimeout(c) \/ LockTimeout(c) \/ RefuseGroup(c)
    BY <2>2, <2>7
  <2>8. CASE LockGroup(c) \/ CheckUpload(c) \/ (\E o \in Objects : StoreFile(c, o))
    BY <2>3, <2>8
  <2>9. CASE NothingToDelete(c) \/ FindGroup(c) \/ MarkGroup(c) \/ FindToBind(c) \/ SaveGroup(c)
    BY <2>4, <2>9
  <2>10. CASE RemoveItem(c) \/ RemoveItems(c)
    BY <2>5, <2>10
  <2> QED
    BY <1>2, <2>6, <2>7, <2>8, <2>9, <2>10 DEF AttachmentSteps
<1>3. ASSUME NEW c \in Calls, BoardSteps(c) PROVE row' = row
  BY <1>3 DEF BoardSteps, SavePost, MarkPost, RemoveComment, CommitComment, rowVars
<1>4. ASSUME NEW c \in Calls, AttachmentFaults(c) PROVE row' = row
  BY <1>4 DEF AttachmentFaults, Fail, Abort, StoreUnanswered, rowVars
<1>5. CASE StoreSteps
  BY <1>5 DEF StoreSteps, DeleteObject, DeleteFails, ListObjects, CompareRows, Crash, rowVars
<1>6. CASE UNCHANGED vars
  BY <1>6 DEF vars, rowVars
<1> QED
  BY <1>1, <1>2, <1>3, <1>4, <1>5, <1>6 DEF Next, Progress

\* An upload writes numbers its group does not use.
LEMMA CommitKeepsRows ==
  ASSUME IInv, NEW c \in Calls, CommitUpload(c),
         NEW g \in Groups, NEW n \in Numbers, row[g][n] # NoObject
  PROVE  row'[g][n] = row[g][n]
<1>1. /\ pc[c] = "store" /\ on[c] \in Groups
      /\ row' = [row EXCEPT ![on[c]] =
           [k \in Numbers |-> IF copy[c][k] # NoObject THEN copy[c][k] ELSE @[k]]]
  BY DEF CommitUpload, IInv, Targets, GroupPhases, UploadPhases
<1>2. row'[g][n] # row[g][n] => g = on[c] /\ copy[c][n] # NoObject
  BY <1>1 DEF IInv, TypeOK, AttachmentsTypeOK
<1>3. n \in Nat /\ first[c] \in Nat
  BY DEF IInv, TypeOK, AttachmentsTypeOK, Numbers
<1>4. g = on[c] => copy[c][n] = NoObject
  BY <1>1, <1>3 DEF IInv, ObjectsInv, UploadNumbers
<1> QED
  BY <1>2, <1>4

LEMMA RowsOnlyRemoved ==
  ASSUME IInv, [Next]_vars, NEW g \in Groups, NEW n \in Numbers, row[g][n] # NoObject
  PROVE  row'[g][n] \in {row[g][n], NoObject}
<1>1. ASSUME NEW c \in Calls, pc[c] \in {"remove", "removeAll"}, RemoveRows(c)
      PROVE  row'[g][n] \in {row[g][n], NoObject}
  BY <1>1, RemovedRows
<1> QED
  BY <1>1, CommitKeepsRows, RowWriters

\* A committed attachment keeps its number and its object until it is removed.
THEOREM AttachmentsAreOnlyRemoved == Spec => ItemsAreOnlyRemoved
<1>1. IInv /\ [Next]_vars =>
        \A g \in Groups, n \in Numbers :
          row[g][n] # NoObject => row'[g][n] \in {row[g][n], NoObject}
  BY RowsOnlyRemoved
<1> QED
  BY <1>1, SpecIInv, PTL DEF Spec, ItemsAreOnlyRemoved

LEMMA CommentWriters ==
  ASSUME [Next]_vars
  PROVE  \/ comment' = comment
         \/ \E c \in Calls : RemoveComment(c) \/ \E u \in Authors : CommitComment(c, u)
<1>1. ASSUME NEW c \in Calls, Request(c) PROVE comment' = comment
  BY <1>1 DEF Request, CreatePost, FindPost, FindToDelete, LockPost, FindComment
<1>2. ASSUME NEW c \in Calls, BoardSteps(c)
      PROVE  comment' = comment \/ RemoveComment(c) \/ \E u \in Authors : CommitComment(c, u)
  BY <1>2 DEF BoardSteps, SavePost, MarkPost
<1>3. CASE UNCHANGED vars
  BY <1>3 DEF vars
<1> QED
  BY <1>1, <1>2, <1>3 DEF Next, Progress

LEMMA CommentsJoin ==
  ASSUME IInv, [Next]_vars, NEW p \in Posts, NEW n \in Numbers,
         comment'[p][n] \notin {comment[p][n], NoAuthor}
  PROVE  LivePost(p) /\ comment[p][n] = NoAuthor
<1>1. ASSUME NEW c \in Calls, RemoveComment(c) PROVE FALSE
  BY <1>1 DEF RemoveComment, IInv, TypeOK
<1>2. ASSUME NEW c \in Calls, NEW u \in Authors, CommitComment(c, u)
      PROVE  LivePost(p) /\ comment[p][n] = NoAuthor
  <2>1. pc[c] = "comment" /\ comment' = [comment EXCEPT ![at[c]][first[c]] = u]
    BY <1>2 DEF CommitComment
  <2>2. p = at[c] /\ n = first[c]
    BY <2>1 DEF IInv, TypeOK
  <2> QED
    BY <2>1, <2>2 DEF IInv, CommentLocked
<1> QED
  BY <1>1, <1>2, CommentWriters

\* A comment appears under a live post only, at a number nobody holds.
THEOREM CommentsUnderLivePosts == Spec => CommentsJoinLivePosts
<1>1. IInv /\ [Next]_vars =>
        \A p \in Posts, n \in Numbers : comment'[p][n] \notin {comment[p][n], NoAuthor} =>
          LivePost(p) /\ comment[p][n] = NoAuthor
  BY CommentsJoin
<1> QED
  BY <1>1, SpecIInv, PTL DEF Spec, CommentsJoinLivePosts

-----------------------------------------------------------------------------
(***************************************************************************)
(* Who answers for an object.                                              *)
(***************************************************************************)
\* An upload fills its numbers one after another.
FilesInOrder ==
  \A c \in Calls : pc[c] = "store" => \A n \in Numbers :
    copy[c][n] # NoObject <=> first[c] <= n /\ n < first[c] + Sent(c)

Accounts == ObjectsAccountedFor /\ FilesInOrder

\* A call may hand an object on; nobody else answers for less.
LEMMA HandedOver ==
  ASSUME ObjectsAccountedFor, NEW c \in Calls, OthersStay(c),
         stored' \subseteq stored \union orphan' \union Claimed(c)',
         removing \subseteq removing', orphan \subseteq orphan',
         (RowObjects \union Claimed(c)) \intersect stored \subseteq
           RowObjects' \union removing' \union orphan' \union Claimed(c)'
  PROVE  ObjectsAccountedFor'
<1>1. ASSUME NEW d \in Calls \ {c} PROVE Claimed(d)' = Claimed(d)
  <2>1. pc'[d] = pc[d] /\ copy'[d] = copy[d]
    BY DEF OthersStay
  <2> QED
    BY <2>1 DEF Claimed, Uploading, Of
<1> SUFFICES ASSUME NEW o \in stored', o \notin RowObjects' \union removing' \union orphan'
             PROVE  \E d \in Calls : o \in Claimed(d)'
  BY DEF ObjectsAccountedFor
<1>2. CASE o \in Claimed(c)'
  BY <1>2
<1>3. CASE o \notin Claimed(c)'
  <2>1. o \in stored /\ o \notin RowObjects \union Claimed(c)
    BY <1>3
  <2>2. o \notin removing \union orphan
    OBVIOUS
  <2>3. PICK d \in Calls : o \in Claimed(d)
    BY <2>1, <2>2 DEF ObjectsAccountedFor
  <2> QED
    BY <1>1, <2>1, <2>3
<1> QED
  BY <1>2, <1>3

LEMMA OrderKept ==
  ASSUME FilesInOrder, NEW c \in Calls, OthersStay(c), pc'[c] # "store"
  PROVE  FilesInOrder'
<1> SUFFICES ASSUME NEW d \in Calls, pc'[d] = "store", NEW n \in Numbers
             PROVE  copy'[d][n] # NoObject <=>
                      first'[d] <= n /\ n < first'[d] + Sent(d)'
  BY DEF FilesInOrder
<1>1. d # c
  OBVIOUS
<1>2. pc[d] = "store" /\ first'[d] = first[d] /\ copy'[d] = copy[d]
  BY <1>1 DEF OthersStay
<1>3. Sent(d)' = Sent(d)
  BY <1>2 DEF Sent
<1> QED
  BY <1>2, <1>3 DEF FilesInOrder

\* A step of a call that touches no object.
LEMMA QuietStep ==
  ASSUME Accounts, NEW c \in Calls, OthersStay(c), pc'[c] # "store",
         UNCHANGED <<row, stored, removing, orphan>>,
         \/ ~Uploading(c) /\ pc[c] # "markGroup"
         \/ Uploading(c) /\ Uploading(c)' /\ copy'[c] = copy[c]
  PROVE  Accounts'
<1>1. Claimed(c) \subseteq Claimed(c)' /\ RowObjects' = RowObjects
  BY DEF Claimed, Uploading, Of, RowObjects
<1> QED
  BY <1>1, HandedOver, OrderKept DEF Accounts

\* The last step of a call hands on what it answers for.
LEMMA EndAccounts ==
  ASSUME IInv, Accounts, NEW c \in Calls, End(c),
         stored' \subseteq stored \union orphan',
         removing \subseteq removing', orphan \subseteq orphan',
         (RowObjects \union Claimed(c)) \intersect stored \subseteq
           RowObjects' \union removing' \union orphan'
  PROVE  Accounts'
<1>1. OthersStay(c) /\ pc'[c] = "idle"
  BY EndFacts DEF IInv
<1> QED
  BY <1>1, HandedOver, OrderKept DEF Accounts

LEMMA AbortAccounts ==
  ASSUME IInv, Accounts, NEW c \in Calls, Abort(c)
  PROVE  Accounts'
<1>1. /\ End(c) /\ stored' = stored /\ RowObjects' = RowObjects
      /\ removing \subseteq removing' /\ orphan \subseteq orphan'
  BY DEF Abort, Compensate, Abandon, rowVars, RowObjects
<1>2. Claimed(c) \intersect stored \subseteq removing' \union orphan'
  BY DEF Abort, Compensate, Abandon, Claimed
<1> QED
  BY <1>1, <1>2, EndAccounts

LEMMA StoreUnansweredAccounts ==
  ASSUME IInv, Accounts, NEW c \in Calls, NEW o \in Objects, StoreUnanswered(c, o)
  PROVE  Accounts'
<1>1. /\ End(c) /\ stored' = stored \union {o} /\ RowObjects' = RowObjects
      /\ removing \subseteq removing' /\ orphan' = orphan \union {o}
  BY DEF StoreUnanswered, Compensate, rowVars, RowObjects
<1>2. Claimed(c) \subseteq removing'
  BY DEF StoreUnanswered, Compensate, Claimed, Uploading, UploadPhases
<1> QED
  BY <1>1, <1>2, EndAccounts

\* The number of the next file is free.
LEMMA OneMore ==
  ASSUME IInv, FilesInOrder, NEW c \in Calls, NEW o \in Objects, StoreFile(c, o)
  PROVE  /\ first[c] + Sent(c) \in Numbers
         /\ copy[c][first[c] + Sent(c)] = NoObject
         /\ Sent(c) \in Nat /\ Sent(c)' = Sent(c) + 1
<1> DEFINE i == first[c] + Sent(c)
           Filled == {n \in Numbers : copy[c][n] # NoObject}
<1>1. Sent(c) \in Nat /\ first[c] \in 1..MaxNo + 1
  BY SentType DEF IInv, TypeOK, AttachmentsTypeOK
<1>2. i \in Numbers
  BY <1>1 DEF StoreFile, Numbers
<1>3. copy[c][i] = NoObject
  BY <1>1, <1>2 DEF StoreFile, FilesInOrder, Numbers
<1>4. copy'[c] = [copy[c] EXCEPT ![i] = o]
  BY <1>2 DEF StoreFile, IInv, TypeOK, AttachmentsTypeOK
<1>5. copy[c] \in Items
  BY DEF IInv, TypeOK, AttachmentsTypeOK
<1> HIDE DEF i
<1>6. {n \in Numbers : copy'[c][n] # NoObject} = Filled \union {i}
  BY <1>2, <1>4, <1>5, AttachmentNames DEF Items
<1>7. IsFiniteSet(Filled) /\ i \notin Filled
  <2>1. IsFiniteSet(Numbers)
    BY FS_Interval, AttachmentBounds DEF Numbers
  <2> QED
    BY <1>3, <2>1, FS_Subset
<1>8. Cardinality(Filled \union {i}) = Cardinality(Filled) + 1
  BY <1>7, FS_AddElement
<1> QED
  BY <1>1, <1>2, <1>3, <1>6, <1>8 DEF i, Sent

LEMMA StoreFileAccounts ==
  ASSUME IInv, Accounts, NEW c \in Calls, NEW o \in Objects, StoreFile(c, o)
  PROVE  Accounts'
<1> DEFINE i == first[c] + Sent(c)
<1>1. /\ UNCHANGED <<row, removing, orphan, pc, on, at, first>>
      /\ pc[c] = "store" /\ stored' = stored \union {o}
      /\ copy' = [copy EXCEPT ![c][i] = o]
  BY DEF StoreFile, rowVars
<1>2. /\ i \in Numbers /\ copy[c][i] = NoObject
      /\ Sent(c) \in Nat /\ Sent(c)' = Sent(c) + 1
  BY OneMore DEF Accounts
<1>3. first[c] \in Nat /\ i = first[c] + Sent(c)
  BY DEF IInv, TypeOK, AttachmentsTypeOK
<1> HIDE DEF i
<1>4. \A d \in Calls, k \in Numbers :
        copy'[d][k] = IF d = c /\ k = i THEN o ELSE copy[d][k]
  BY <1>1, <1>2 DEF IInv, TypeOK, AttachmentsTypeOK, Items
<1>5. OthersStay(c)
  BY <1>1 DEF OthersStay, IInv, TypeOK, AttachmentsTypeOK
<1>6. ObjectsAccountedFor'
  <2>1. Claimed(c) = Of(copy[c]) /\ Claimed(c)' = Of(copy'[c])
    BY <1>1 DEF Claimed, Uploading, UploadPhases
  <2>2. Of(copy[c]) \subseteq Of(copy'[c]) /\ o \in Of(copy'[c])
    BY <1>2, <1>4, AttachmentNames DEF Of
  <2>3. RowObjects' = RowObjects
    BY <1>1 DEF RowObjects
  <2> QED
    BY <1>1, <1>5, <2>1, <2>2, <2>3, HandedOver DEF Accounts
<1>7. FilesInOrder'
  <2> SUFFICES ASSUME NEW d \in Calls, pc[d] = "store", NEW n \in Numbers
               PROVE  copy'[d][n] # NoObject <=> first[d] <= n /\ n < first[d] + Sent(d)'
    BY <1>1 DEF FilesInOrder
  <2>1. copy[d][n] # NoObject <=> first[d] <= n /\ n < first[d] + Sent(d)
    BY DEF Accounts, FilesInOrder
  <2>2. CASE d = c
    BY <1>2, <1>3, <1>4, <2>1, <2>2, AttachmentNames DEF Numbers
  <2>3. CASE d # c
    <3>1. Sent(d)' = Sent(d)
      BY <1>4, <2>3 DEF Sent
    <3> QED
      BY <1>4, <2>1, <2>3, <3>1
  <2> QED
    BY <2>2, <2>3
<1> QED
  BY <1>6, <1>7 DEF Accounts

LEMMA CheckUploadAccounts ==
  ASSUME IInv, Accounts, NEW c \in Calls, CheckUpload(c)
  PROVE  Accounts'
<1>1. /\ UNCHANGED <<row, stored, removing, orphan, on, at, copy>>
      /\ pc[c] = "check" /\ pc' = [pc EXCEPT ![c] = "store"]
      /\ \E n \in 1..MaxNo + 1 : first' = [first EXCEPT ![c] = n]
  BY DEF CheckUpload, Goto, rowVars, storeVars
<1>2. OthersStay(c) /\ first'[c] \in Nat
  BY <1>1, AttachmentBounds DEF OthersStay, IInv, TypeOK, AttachmentsTypeOK
<1>3. \A k \in Numbers : copy[c][k] = NoObject
  BY <1>1 DEF IInv, ObjectsInv, CopyEmpty, NoItems
<1>4. ObjectsAccountedFor'
  <2>1. Claimed(c) = {} /\ RowObjects' = RowObjects
    BY <1>1, <1>3 DEF Claimed, Of, RowObjects
  <2> QED
    BY <1>1, <1>2, <2>1, HandedOver DEF Accounts
<1>5. Sent(c)' = 0
  <2>1. {n \in Numbers : copy'[c][n] # NoObject} = {}
    BY <1>1, <1>3
  <2> QED
    BY <2>1, FS_EmptySet DEF Sent
<1>6. FilesInOrder'
  <2> SUFFICES ASSUME NEW d \in Calls, pc'[d] = "store", NEW n \in Numbers
               PROVE  copy'[d][n] # NoObject <=> first'[d] <= n /\ n < first'[d] + Sent(d)'
    BY DEF FilesInOrder
  <2>1. CASE d = c
    BY <1>1, <1>2, <1>3, <1>5, <2>1 DEF Numbers
  <2>2. CASE d # c
    <3>1. pc[d] = "store" /\ first'[d] = first[d] /\ copy'[d] = copy[d]
      BY <1>2, <2>2 DEF OthersStay
    <3>2. Sent(d)' = Sent(d)
      BY <3>1 DEF Sent
    <3> QED
      BY <3>1, <3>2 DEF Accounts, FilesInOrder
  <2> QED
    BY <2>1, <2>2
<1> QED
  BY <1>4, <1>6 DEF Accounts

LEMMA CommitUploadAccounts ==
  ASSUME IInv, Accounts, NEW c \in Calls, CommitUpload(c)
  PROVE  Accounts'
<1>1. End(c) /\ UNCHANGED <<stored, removing, orphan>> /\ pc[c] = "store"
  BY DEF CommitUpload, storeVars
<1>2. on[c] \in Groups
  BY <1>1 DEF IInv, Targets, GroupPhases, UploadPhases
<1>3. RowObjects \subseteq RowObjects'
  BY CommitKeepsRows DEF RowObjects, Of
<1>4. \A n \in Numbers : copy[c][n] # NoObject => row'[on[c]][n] = copy[c][n]
  BY <1>2 DEF CommitUpload, IInv, TypeOK, AttachmentsTypeOK
<1>5. Of(copy[c]) \subseteq RowObjects'
  BY <1>2, <1>4 DEF RowObjects, Of
<1>6. Claimed(c) = Of(copy[c])
  BY <1>1 DEF Claimed, Uploading, UploadPhases
<1> QED
  BY <1>1, <1>3, <1>5, <1>6, EndAccounts

\* The objects of removed rows have been read, or are lost track of.
LEMMA RemovedObjects ==
  ASSUME IInv, NEW c \in Calls, pc[c] \in {"remove", "removeAll"}, RemoveRows(c)
  PROVE  /\ RowObjects \subseteq RowObjects' \union orphan' \union Of(copy[c])
         /\ orphan \subseteq orphan' /\ Claimed(c) = {}
<1> DEFINE kept == [n \in Numbers |-> IF copy[c][n] = NoObject THEN row[on[c]][n] ELSE NoObject]
<1>1. on[c] \in Groups /\ row \in [Groups -> Items]
  BY DEF IInv, Targets, GroupPhases, TypeOK, AttachmentsTypeOK
<1>2. /\ row' = [row EXCEPT ![on[c]] = kept]
      /\ orphan' = orphan \union ((Of(row[on[c]]) \ Of(kept)) \ Of(copy[c]))
  BY DEF RemoveRows
<1> HIDE DEF kept
<1>3. row'[on[c]] = kept /\ \A g \in Groups \ {on[c]} : row'[g] = row[g]
  BY <1>1, <1>2
<1>4. Of(kept) \subseteq RowObjects'
  BY <1>1, <1>3 DEF RowObjects
<1>5. RowObjects \subseteq RowObjects' \union Of(row[on[c]])
  BY <1>3 DEF RowObjects
<1> QED
  BY <1>2, <1>4, <1>5 DEF Claimed, Uploading, UploadPhases

LEMMA RemovalAccounts ==
  ASSUME IInv, Accounts, NEW c \in Calls, RemoveItem(c) \/ RemoveItems(c)
  PROVE  Accounts'
<1>1. pc[c] \in {"remove", "removeAll"} /\ RemoveRows(c) /\ stored' = stored
  BY DEF RemoveItem, RemoveItems
<1>2. CASE RemoveItem(c)
  <2>1. End(c) /\ removing' = removing \union Of(copy[c])
    BY <1>2 DEF RemoveItem
  <2> QED
    BY <1>1, <2>1, RemovedObjects, EndAccounts
<1>3. CASE RemoveItems(c)
  <2>1. /\ removing' = removing /\ copy' = copy
        /\ OthersStay(c) /\ pc'[c] = "markGroup"
    BY <1>3 DEF RemoveItems, Goto, OthersStay, IInv, TypeOK, AttachmentsTypeOK
  <2>2. Claimed(c)' = Of(copy[c])
    BY <2>1 DEF Claimed, Of
  <2> QED
    BY <1>1, <2>1, <2>2, RemovedObjects, HandedOver, OrderKept DEF Accounts
<1> QED
  BY <1>2, <1>3

LEMMA MarkGroupAccounts ==
  ASSUME IInv, Accounts, NEW c \in Calls, MarkGroup(c)
  PROVE  Accounts'
<1>1. /\ End(c) /\ UNCHANGED <<row, stored, orphan>> /\ pc[c] = "markGroup"
      /\ removing' = removing \union Of(copy[c]) /\ RowObjects' = RowObjects
  BY DEF MarkGroup, RowObjects
<1>2. Claimed(c) = Of(copy[c])
  BY <1>1 DEF Claimed
<1> QED
  BY <1>1, <1>2, EndAccounts

\* Calls that begin, or move on without an object.
LEMMA MoveAccounts ==
  ASSUME IInv, Accounts, NEW c \in Calls,
         \/ LockGroup(c) \/ NothingToDelete(c) \/ FindGroup(c) \/ FindToBind(c) \/ SaveGroup(c)
         \/ AttachmentRequests(c)
  PROVE  Accounts'
<1> USE DEF rowVars, storeVars
<1>1. UNCHANGED <<row, stored, removing, orphan>> /\ pc'[c] # "store"
  BY DEF LockGroup, NothingToDelete, FindGroup, FindToBind, SaveGroup, AttachmentRequests,
     StartUpload, StartNewGroup, FindItem, Start, Goto, End, IInv, TypeOK, AttachmentsTypeOK
<1>2. OthersStay(c)
  BY DEF LockGroup, NothingToDelete, FindGroup, FindToBind, SaveGroup, AttachmentRequests,
     StartUpload, StartNewGroup, FindItem, Start, Goto, End, IInv, TypeOK, AttachmentsTypeOK,
     OthersStay
<1>3. \/ ~Uploading(c) /\ pc[c] # "markGroup"
      \/ Uploading(c) /\ Uploading(c)' /\ copy'[c] = copy[c]
  BY DEF LockGroup, NothingToDelete, FindGroup, FindToBind, SaveGroup, AttachmentRequests,
     StartUpload, StartNewGroup, FindItem, Start, Goto, IInv, TypeOK, AttachmentsTypeOK,
     Uploading, UploadPhases
<1> QED
  BY <1>1, <1>2, <1>3, QuietStep

LEMMA BoardAccounts ==
  ASSUME IInv, Accounts, NEW c \in Calls,
         \/ \E p \in Posts :
              \/ \E g \in Groups \union {NoGroup} : CreatePost(c, p, g)
              \/ FindPost(c, p) \/ FindToDelete(c, p) \/ LockPost(c, p)
              \/ \E n \in Numbers : FindComment(c, p, n)
         \/ BoardSteps(c)
  PROVE  Accounts'
<1> USE DEF rowVars, storeVars
<1>1. UNCHANGED <<row, stored, removing, orphan>> /\ ~Uploading(c) /\ pc[c] # "markGroup"
  BY DEF CreatePost, FindPost, FindToDelete, LockPost, FindComment, BoardSteps, SavePost,
     MarkPost, RemoveComment, CommitComment, Start, Uploading, UploadPhases
<1>2. OthersStay(c) /\ pc'[c] # "store"
  BY DEF CreatePost, FindPost, FindToDelete, LockPost, FindComment, BoardSteps, SavePost,
     MarkPost, RemoveComment, CommitComment, Start, Goto, End, IInv, TypeOK,
     AttachmentsTypeOK, OthersStay
<1> QED
  BY <1>1, <1>2, QuietStep

LEMMA StoreStepsAccounts ==
  ASSUME IInv, Accounts, StoreSteps
  PROVE  Accounts'
<1>1. RowObjects' = RowObjects
  BY DEF StoreSteps, DeleteObject, DeleteFails, ListObjects, CompareRows, Crash, rowVars,
     RowObjects
<1>2. CASE Crash
  <2>1. ObjectsAccountedFor'
    BY <1>1, <1>2 DEF Crash, ObjectsAccountedFor
  <2>2. FilesInOrder'
    BY <1>2 DEF Crash, FilesInOrder
  <2> QED
    BY <2>1, <2>2 DEF Accounts
<1>3. CASE ListObjects \/ CompareRows \/ \E o \in Objects : DeleteObject(o) \/ DeleteFails(o)
  <2>1. UNCHANGED <<pc, on, at, copy, first>>
    BY <1>3 DEF ListObjects, CompareRows, DeleteObject, DeleteFails, callVars
  <2>2. \A d \in Calls : Claimed(d)' = Claimed(d)
    BY <2>1 DEF Claimed, Uploading, Of
  <2>3. /\ stored' \subseteq stored
        /\ (removing \union orphan) \intersect stored' \subseteq removing' \union orphan'
    BY <1>3 DEF ListObjects, CompareRows, DeleteObject, DeleteFails
  <2>4. ObjectsAccountedFor'
    BY <1>1, <2>2, <2>3 DEF Accounts, ObjectsAccountedFor
  <2>5. FilesInOrder'
    BY <2>1 DEF Accounts, FilesInOrder, Sent
  <2> QED
    BY <2>4, <2>5 DEF Accounts
<1> QED
  BY <1>2, <1>3 DEF StoreSteps

LEMMA NextAccounts == IInv /\ Accounts /\ [Next]_vars => Accounts'
<1> SUFFICES ASSUME IInv, Accounts, [Next]_vars PROVE Accounts'
  OBVIOUS
<1>1. ASSUME NEW c \in Calls, Request(c) PROVE Accounts'
  BY <1>1, MoveAccounts, BoardAccounts DEF Request
<1>2. ASSUME NEW c \in Calls, AttachmentSteps(c) PROVE Accounts'
  <2>1. CASE StoreFails(c) \/ ConnectTimeout(c) \/ LockTimeout(c) \/ RefuseGroup(c)
    BY <2>1, AbortAccounts DEF StoreFails, ConnectTimeout, LockTimeout, RefuseGroup
  <2>2. CASE CheckUpload(c) \/ (\E o \in Objects : StoreFile(c, o)) \/ CommitUpload(c)
    BY <2>2, CheckUploadAccounts, StoreFileAccounts, CommitUploadAccounts
  <2>3. CASE RemoveItem(c) \/ RemoveItems(c) \/ MarkGroup(c)
    BY <2>3, RemovalAccounts, MarkGroupAccounts
  <2>4. CASE \/ LockGroup(c) \/ NothingToDelete(c) \/ FindGroup(c) \/ FindToBind(c)
             \/ SaveGroup(c)
    BY <2>4, MoveAccounts
  <2> QED
    BY <1>2, <2>1, <2>2, <2>3, <2>4 DEF AttachmentSteps
<1>3. ASSUME NEW c \in Calls, BoardSteps(c) PROVE Accounts'
  BY <1>3, BoardAccounts
<1>4. ASSUME NEW c \in Calls, AttachmentFaults(c) PROVE Accounts'
  BY <1>4, AbortAccounts, StoreUnansweredAccounts DEF AttachmentFaults, Fail
<1>5. CASE StoreSteps
  BY <1>5, StoreStepsAccounts
<1>6. CASE UNCHANGED vars
  <2>1. UNCHANGED <<row, stored, removing, orphan, pc, copy, first>>
    BY <1>6 DEF vars, rowVars, storeVars, callVars
  <2>2. RowObjects' = RowObjects /\ \A d \in Calls : Claimed(d)' = Claimed(d)
    BY <2>1 DEF RowObjects, Claimed, Uploading, Of
  <2> QED
    BY <2>1, <2>2 DEF Accounts, ObjectsAccountedFor, FilesInOrder, Sent
<1> QED
  BY <1>1, <1>2, <1>3, <1>4, <1>5, <1>6 DEF Next, Progress

\* No object is lost silently: one without a row belongs to a call under way,
\* is being deleted, or is known to be lost by a fault, by a crash or by the
\* deletion of a row that had taken the number of another.
THEOREM NoObjectLostSilently == Spec => []ObjectsAccountedFor
<1>1. Init => Accounts
  BY DEF Init, AttachmentsInit, Accounts, ObjectsAccountedFor, FilesInOrder
<1>2. Accounts => ObjectsAccountedFor
  BY DEF Accounts
<1> QED
  BY <1>1, <1>2, NextAccounts, SpecIInv, PTL DEF Spec

-----------------------------------------------------------------------------
(***************************************************************************)
(* Access.                                                                 *)
(*                                                                         *)
(* The argument: a screen offers what the list it has loaded, the form it  *)
(* has opened and the row allow.  Each was asked for when it was loaded or *)
(* opened, and what it was asked for still holds: the permissions don't    *)
(* change (Loaded), the row does not change under a form, and the plant of *)
(* the form is the one the row or the user is in (FormPlants).             *)
(***************************************************************************)
Papers == {"WO", "WP", "PM"}
\* The plant by which an order is found.
OrderPlant == IF doc.seed = NoPlant THEN doc.plant ELSE doc.seed

\* A list that was loaded, and a form that was opened for a new document, were allowed.
Loaded ==
  /\ screen.list => Offer!Permitted(Offer!Request("list", NoPlant))
  /\ Offer!New /\ kind # "PUR" => Offer!Has(<<kind, "C">>)

FormPlants ==
  /\ screen.form # "none" => screen.at \in Plants /\ kind # "STK"
  /\ screen.form # "none" /\ kind \in Papers /\ me.scope = "PLANT" => screen.at = screen.since
  /\ Offer!Open /\ (kind = "POR" => doc.seed # NoPlant) => screen.at = doc.plant
  /\ Offer!Open /\ kind = "POR" /\ me.scope = "PLANT" => screen.since = OrderPlant

AccessInv == Offer!AccessTypeOK /\ Loaded /\ FormPlants

\* The plants a call goes on with.
LEMMA PlaceFacts ==
  ASSUME Offer!AccessTypeOK
  PROVE  /\ me.scope \in {"COMPANY", "PLANT"}
         /\ me.scope = "COMPANY" => \A p : Offer!Resolved(p) = {p}
         /\ me.scope = "PLANT" => /\ screen.plant \in Plants
                                  /\ \A p : Offer!Resolved(p) = IF p \in {NoPlant, screen.plant}
                                                                THEN {screen.plant} ELSE {}
<1>1. me.scope \in {"COMPANY", "PLANT"}
  BY DEF Offer!AccessTypeOK
<1>2. ASSUME me.scope = "COMPANY" PROVE \A p : Offer!Resolved(p) = {p}
  BY <1>2 DEF Offer!Resolved
<1>3. ASSUME me.scope = "PLANT" PROVE screen.plant \in Plants /\ Offer!Active = screen.plant
  BY <1>3, PlantNames DEF Offer!AccessTypeOK, Offer!Active
<1>4. ASSUME me.scope = "PLANT", NEW p
      PROVE  Offer!Resolved(p) = IF p \in {NoPlant, screen.plant} THEN {screen.plant} ELSE {}
  BY <1>3, <1>4 DEF Offer!Resolved
<1> QED
  BY <1>1, <1>2, <1>3, <1>4

\* Which plants a call of the user reaches.
LEMMA ReachFacts ==
  ASSUME Offer!AccessTypeOK, NEW q \in Plants
  PROVE  /\ me.scope = "PLANT" => (Offer!Reaches(screen.plant, q) <=> screen.plant = q)
         /\ me.scope = "PLANT" => (Offer!Reaches(NoPlant, q) <=> screen.plant = q)
         /\ me.scope = "COMPANY" => Offer!Reaches(NoPlant, q)
<1> USE DEF Offer!Reaches
<1>1. ASSUME me.scope = "PLANT"
      PROVE  /\ Offer!Reaches(screen.plant, q) <=> screen.plant = q
             /\ Offer!Reaches(NoPlant, q) <=> screen.plant = q
  <2>1. /\ screen.plant \in Plants
        /\ Offer!Resolved(screen.plant) = {screen.plant}
        /\ Offer!Resolved(NoPlant) = {screen.plant}
    BY <1>1, PlaceFacts
  <2>2. screen.plant # NoPlant
    BY <2>1, PlantNames
  <2> QED
    BY <2>1, <2>2
<1>2. ASSUME me.scope = "COMPANY" PROVE Offer!Reaches(NoPlant, q)
  <2>1. Offer!Resolved(NoPlant) = {NoPlant}
    BY <1>2, PlaceFacts
  <2> QED
    BY <2>1
<1> QED
  BY <1>1, <1>2

LEMMA RowFacts ==
  ASSUME Offer!AccessTypeOK, Offer!Live
  PROVE  doc \in Offer!Rows /\ doc.plant \in Plants /\ OrderPlant \in Plants
<1>1. Offer!Blank.plant \in Plants
  BY PlantNames DEF Offer!Blank
<1>2. doc \in Offer!Rows
  BY DEF Offer!AccessTypeOK, Offer!Live, Offer!Blank
<1>3. doc.plant \in Plants
  BY <1>1, <1>2 DEF Offer!Rows, Offer!OrderRows, Offer!ApprovalRows, Offer!PaperRows
<1>4. doc.seed \in Plants \union {NoPlant}
  BY <1>2 DEF Offer!Rows, Offer!OrderRows, Offer!ApprovalRows, Offer!PaperRows, Offer!Maybe
<1> QED
  BY <1>2, <1>3, <1>4 DEF OrderPlant

\* The rows of work orders, work permits and PM records, and their forms.
PaperOffers ==
  IF screen.form = "none" THEN {r \in {Offer!Request("detail", doc.plant)} : Offer!Listed}
  ELSE {r \in [op : {"lookup", "create"}, at : {screen.at}] : Offer!New}
       \union {r \in [op : {"lookup", "update", "delete"}, at : {screen.at}] :
                 Offer!Open /\ Offer!OwnDraft}

LEMMA PapersGranted ==
  ASSUME AccessInv, kind \in Papers, NEW r \in Offer!Offers \ Offer!KnownRefusals
  PROVE  Offer!Granted(r)
<1> USE DEF AccessInv, Papers
<1>1. r \in PaperOffers
  BY DEF Offer!Offers, Offer!WorkOrderRow, Offer!WorkPermitRow, Offer!MaintenanceRow,
     Offer!WorkOrderForm, Offer!WorkPermitForm, Offer!MaintenanceForm, PaperOffers
<1>2. /\ r.op = "lookup" => Offer!Has(<<"EQP", "R">>)
      /\ me.scope = "PLANT" /\ screen.form # "none" => screen.plant = screen.since
  BY DEF Offer!KnownRefusals
<1>3. ASSUME screen.form = "none" PROVE Offer!Granted(r)
  <2>1. Offer!Listed /\ r = Offer!Request("detail", doc.plant)
    BY <1>1, <1>3 DEF PaperOffers
  <2>2. screen.list /\ Offer!Live /\ Offer!Reaches(screen.plant, doc.plant)
    BY <2>1 DEF Offer!Listed, Offer!WorkOrderList, Offer!WorkPermitList, Offer!MaintenanceList
  <2>3. Offer!Permitted(r)
    BY <2>1, <2>2 DEF Loaded, Offer!Permitted, Offer!Request, Offer!Needs, Offer!WorkOrderNeeds,
       Offer!WorkPermitNeeds, Offer!MaintenanceNeeds
  <2>4. doc.plant \in Offer!Resolved(doc.plant)
    BY <2>2, RowFacts, PlaceFacts, ReachFacts
  <2>5. r.op = "detail" /\ Offer!Holds(r.at)
    BY <2>1, <2>2, <2>4 DEF Offer!Holds, Offer!Request
  <2>6. Offer!Served(r)
    BY <2>5 DEF Offer!Served, Offer!WorkOrderReads, Offer!WorkPermitReads, Offer!MaintenanceReads
  <2> QED
    BY <2>3, <2>6 DEF Offer!Granted
<1>4. ASSUME screen.form # "none" PROVE Offer!Granted(r)
  <2>1. r.at = screen.at /\ screen.at \in Plants
    BY <1>1, <1>4 DEF PaperOffers, FormPlants
  <2>2. screen.at \in Offer!Resolved(screen.at)
    BY <1>2, <1>4, <2>1, PlaceFacts DEF FormPlants
  <2>3. CASE r.op = "lookup"
    <3>1. Offer!Permitted(r)
      BY <1>2, <2>3 DEF Offer!Permitted, Offer!Needs, Offer!WorkOrderNeeds,
         Offer!WorkPermitNeeds, Offer!MaintenanceNeeds
    <3>2. Offer!EquipmentFound(r)
      BY <2>1, <2>2, <2>3 DEF Offer!EquipmentFound
    <3> QED
      BY <3>1, <3>2 DEF Offer!Granted, Offer!Served
  <2>4. CASE r.op = "create"
    <3>1. Offer!New
      BY <1>1, <1>4, <2>4 DEF PaperOffers
    <3>2. Offer!Permitted(r)
      BY <2>4, <3>1 DEF Loaded, Offer!Permitted, Offer!Needs, Offer!WorkOrderNeeds,
         Offer!WorkPermitNeeds, Offer!MaintenanceNeeds
    <3> QED
      BY <2>1, <2>2, <2>4, <3>2 DEF Offer!Granted, Offer!Served, Offer!WorkOrderSaves,
         Offer!WorkPermitSaves, Offer!MaintenanceSaves
  <2>5. CASE r.op \in {"update", "delete"}
    <3>1. Offer!Open /\ Offer!OwnDraft
      BY <1>1, <1>4, <2>5 DEF PaperOffers
    <3>2. Offer!Holds(r.at)
      BY <2>1, <2>2, <3>1 DEF Offer!Holds, FormPlants, Offer!Live, Offer!OwnDraft
    <3>3. Offer!Permitted(r)
      BY <2>5 DEF Offer!Permitted, Offer!Needs, Offer!WorkOrderNeeds, Offer!WorkPermitNeeds,
         Offer!MaintenanceNeeds
    <3> QED
      BY <2>5, <3>1, <3>2, <3>3 DEF Offer!Granted, Offer!Served, Offer!WorkOrderSaves,
         Offer!WorkPermitSaves, Offer!MaintenanceSaves, Offer!WorkOrderDeletes,
         Offer!WorkPermitDeletes, Offer!MaintenanceDeletes
  <2> QED
    BY <1>1, <1>4, <2>3, <2>4, <2>5 DEF PaperOffers
<1> QED
  BY <1>3, <1>4

\* Requests.
LEMMA RequestsGranted ==
  ASSUME AccessInv, kind = "PUR", NEW r \in Offer!Offers \ Offer!KnownRefusals
  PROVE  Offer!Granted(r)
<1> USE DEF AccessInv
<1>1. r \in IF screen.form = "none" THEN Offer!RequestRow ELSE Offer!RequestForm
  BY DEF Offer!Offers
<1>2. Offer!Needs[kind] = Offer!PurchaseNeeds
  BY DEF Offer!Needs
<1>3. ASSUME screen.form = "none" PROVE Offer!Granted(r)
  <2>1. /\ r.op \in {"detail", "links", "integrate"} /\ r.at = screen.plant /\ Offer!Listed
        /\ r.op = "integrate" => Offer!Has(<<"POR", "C">>) /\ Offer!Approved
    BY <1>1, <1>3 DEF Offer!RequestRow, Offer!Request
  <2>2. screen.list /\ Offer!Live /\ Offer!Reaches(screen.plant, doc.plant)
    BY <2>1 DEF Offer!Listed, Offer!RequestList
  <2>3. Offer!RequestRead(r.at)
    BY <2>1, <2>2 DEF Offer!RequestRead
  <2>4. Offer!Has(<<"PUR", "R">>)
    BY <1>2, <2>2 DEF Loaded, Offer!Permitted, Offer!Request, Offer!PurchaseNeeds
  <2>5. Offer!Permitted(r)
    BY <1>2, <2>1, <2>4 DEF Offer!Permitted, Offer!PurchaseNeeds
  <2>6. Offer!Served(r)
    BY <2>1, <2>3 DEF Offer!Served, Offer!Integrated
  <2> QED
    BY <2>5, <2>6 DEF Offer!Granted
<1>4. ASSUME screen.form # "none" PROVE Offer!Granted(r)
  <2>1. \/ r.op = "create" /\ Offer!Has(<<"PUR", "C">>)
        \/ r.op \in {"update", "delete"} /\ Offer!OwnDraft
    BY <1>1, <1>4 DEF Offer!RequestForm, Offer!Request
  <2>2. Offer!Permitted(r)
    BY <1>2, <2>1 DEF Offer!Permitted, Offer!PurchaseNeeds
  <2>3. Offer!Served(r)
    BY <2>1 DEF Offer!Served, Offer!RequestSaved, Offer!RequestDeleted
  <2> QED
    BY <2>2, <2>3 DEF Offer!Granted
<1> QED
  BY <1>3, <1>4

\* Orders.
LEMMA OrdersGranted ==
  ASSUME AccessInv, kind = "POR", NEW r \in Offer!Offers \ Offer!KnownRefusals
  PROVE  Offer!Granted(r)
<1> USE DEF AccessInv
<1>1. r \in IF screen.form = "none" THEN Offer!OrderRow ELSE Offer!OrderForm
  BY DEF Offer!Offers
<1>2. Offer!Needs[kind] = Offer!OrderNeeds
  BY DEF Offer!Needs
<1>3. /\ me.scope = "PLANT" /\ screen.form # "none" => screen.plant = screen.since
      /\ r.op = "close" => doc.asked
      /\ r.op = "update" => r.at \in Offer!Resolved(r.at) /\ doc.seed \in {NoPlant, r.at}
      /\ r.op = "createConfirmed" => r.at \in Offer!Resolved(r.at)
  BY DEF Offer!KnownRefusals
<1>4. ASSUME screen.form = "none" PROVE Offer!Granted(r)
  <2>1. r.op \in {"detail", "links"} /\ r.at = screen.plant /\ Offer!Listed
    BY <1>1, <1>4 DEF Offer!OrderRow
  <2>2. screen.list /\ Offer!OrderRead(screen.plant)
    BY <2>1 DEF Offer!Listed, Offer!OrderList
  <2>3. Offer!Permitted(r)
    BY <1>2, <2>1, <2>2 DEF Loaded, Offer!Permitted, Offer!Request, Offer!OrderNeeds
  <2>4. Offer!Served(r)
    BY <2>1, <2>2 DEF Offer!Served
  <2> QED
    BY <2>3, <2>4 DEF Offer!Granted
<1>5. ASSUME screen.form # "none" PROVE Offer!Granted(r)
  <2>1. /\ r.op \in {"create", "createConfirmed", "update", "allocate", "confirm", "close"}
        /\ r.at = screen.at /\ screen.at \in Plants
        /\ r.op \in {"create", "createConfirmed"} => Offer!New
        /\ r.op \in {"update", "allocate"} => Offer!Open /\ Offer!OwnDraft
        /\ r.op = "confirm" => Offer!Open /\ doc.status = "T"
        /\ r.op \in {"createConfirmed", "confirm"} => Offer!Has(<<"POR", "A">>)
        /\ r.op = "close" => Offer!Approved /\ ~doc.closed
    BY <1>1, <1>5 DEF Offer!OrderForm, Offer!Request, FormPlants
  <2>2. Offer!Permitted(r)
    BY <1>2, <2>1 DEF Loaded, Offer!Permitted, Offer!OrderNeeds
  <2>3. ASSUME r.op = "createConfirmed" PROVE Offer!OrderCreated(r)
    BY <1>3, <2>1, <2>3, PlaceFacts, ReachFacts DEF Offer!OrderCreated
  <2>4. ASSUME r.op = "update" PROVE Offer!OrderUpdated(r)
    <3>1. CASE doc.seed = NoPlant
      BY <1>3, <2>1, <2>4, <3>1 DEF Offer!OrderUpdated
    <3>2. CASE doc.seed # NoPlant
      <4>1. doc.seed = r.at /\ r.at = doc.plant /\ Offer!Live
        BY <1>3, <2>1, <2>4, <3>2 DEF FormPlants, Offer!OwnDraft, Offer!Live
      <4>2. Offer!OrderRead(r.at)
        BY <1>3, <2>4, <3>2, <4>1 DEF Offer!OrderRead, Offer!Reaches
      <4> QED
        BY <1>3, <2>1, <2>4, <4>1, <4>2 DEF Offer!OrderUpdated
    <3> QED
      BY <3>1, <3>2
  <2>5. ASSUME r.op = "confirm" PROVE Offer!OrderConfirmed(r)
    <3>1. Offer!Live /\ Offer!Open
      BY <2>1, <2>5 DEF Offer!Live
    <3>2. OrderPlant \in Plants
      BY <3>1, RowFacts
    <3>3. Offer!Reaches(NoPlant, OrderPlant)
      BY <1>3, <1>5, <3>1, <3>2, PlaceFacts, ReachFacts DEF FormPlants
    <3> QED
      BY <2>1, <2>5, <3>1, <3>3 DEF Offer!OrderConfirmed, Offer!OrderRead, OrderPlant
  <2>6. ASSUME r.op \in {"create", "allocate", "close"}
        PROVE  Offer!OrderCreated(r) \/ Offer!OrderAllocated(r) \/ Offer!OrderClosed(r)
    BY <1>3, <2>1, <2>6 DEF Offer!OrderCreated, Offer!OrderAllocated, Offer!OrderClosed
  <2>7. Offer!Served(r)
    BY <2>1, <2>3, <2>4, <2>5, <2>6 DEF Offer!Served
  <2> QED
    BY <2>2, <2>7 DEF Offer!Granted
<1> QED
  BY <1>4, <1>5

\* Stock.
LEMMA StockGranted ==
  ASSUME AccessInv, kind = "STK", NEW r \in Offer!Offers \ Offer!KnownRefusals
  PROVE  Offer!Granted(r)
<1> USE DEF AccessInv
<1>1. /\ r.op \in {"detail", "receive", "closeMonth", "cancel"}
      /\ r.op = "detail" => Offer!Listed /\ r.at = screen.plant
      /\ r.op = "receive" => Offer!Has(<<"STK", "C">>)
  BY DEF Offer!Offers, Offer!StockGrid, Offer!Request
<1>2. Offer!Needs[kind] = Offer!StockNeeds
  BY DEF Offer!Needs
<1>3. /\ r.op = "closeMonth" => Offer!Has(<<"STK", "U">>)
      /\ r.op = "cancel" => Offer!Has(<<"STK", "C">>)
      /\ r.op = "receive" => me.home = r.at
  BY DEF Offer!KnownRefusals
<1>4. ASSUME r.op = "detail" PROVE Offer!Permitted(r) /\ Offer!StockPosted(r)
  <2>1. /\ screen.list /\ Offer!Approved /\ ~doc.closed /\ Offer!OrderRead(r.at)
    BY <1>1, <1>4 DEF Offer!Listed, Offer!StockList
  <2>2. Offer!Permitted(r)
    BY <1>2, <1>4, <2>1 DEF Loaded, Offer!Permitted, Offer!Request, Offer!StockNeeds
  <2> QED
    BY <1>4, <2>1, <2>2 DEF Offer!StockPosted
<1>5. ASSUME r.op # "detail" PROVE Offer!Permitted(r) /\ Offer!StockPosted(r)
  <2>1. Offer!Permitted(r)
    BY <1>1, <1>2, <1>3, <1>5 DEF Offer!Permitted, Offer!StockNeeds
  <2>2. Offer!StockPosted(r)
    BY <1>1, <1>3, <1>5 DEF Offer!StockPosted, Offer!HomeReaches
  <2> QED
    BY <2>1, <2>2
<1> QED
  BY <1>4, <1>5 DEF Offer!Granted, Offer!Served

\* Approvals.
LEMMA ApprovalsGranted ==
  ASSUME AccessInv, kind = "APR", NEW r \in Offer!Offers \ Offer!KnownRefusals
  PROVE  Offer!Granted(r)
<1> USE DEF AccessInv
<1>1. /\ r.op \in {"detail", "update", "delete", "files", "decide"}
      /\ r.op = "detail" => Offer!Listed
      /\ r.op \in {"update", "delete"} => Offer!OwnDraft
      /\ r.op = "decide" => doc.status = "P" /\ doc.line = "next"
  BY DEF Offer!Offers, Offer!ApprovalRow, Offer!ApprovalDetail, Offer!Request
<1>2. /\ r.op = "detail" => doc.mine \/ doc.status # "T"
      /\ r.op = "files" => Offer!Has(<<"APR", "R">>)
  BY DEF Offer!KnownRefusals
<1>3. Offer!Permitted(r)
  BY <1>1 DEF Offer!Permitted, Offer!Needs, Offer!ApprovalNeeds
<1>4. ASSUME r.op = "detail" PROVE Offer!ApprovalRead
  <2>1. Offer!Live /\ Offer!ApprovalList
    BY <1>1, <1>4 DEF Offer!Listed
  <2>2. screen.tab \in {"sent", "pending", "processed", "referenced"}
    BY DEF Offer!AccessTypeOK, Offer!Tabs, Offer!Kinds
  <2>3. doc.mine \/ doc.line \in {"next", "done", "reference"}
    BY <2>1, <2>2 DEF Offer!ApprovalList
  <2> QED
    BY <1>2, <1>4, <2>1, <2>3 DEF Offer!ApprovalRead
<1>5. Offer!ApprovalServes(r)
  BY <1>1, <1>2, <1>4 DEF Offer!ApprovalServes, Offer!FilesRead, Offer!ApprovalDecided
<1> QED
  BY <1>3, <1>5 DEF Offer!Granted, Offer!Served

\* The invariant is enough for every screen.
LEMMA OffersGranted == AccessInv => Offer!OfferedIsGranted
<1> SUFFICES ASSUME AccessInv, NEW r \in Offer!Offers \ Offer!KnownRefusals
             PROVE  Offer!Granted(r)
  BY DEF Offer!OfferedIsGranted
<1>1. kind \in Papers \union {"PUR", "POR", "STK", "APR"}
  BY DEF AccessInv, Offer!AccessTypeOK, Offer!Kinds, Offer!Needs, Papers
<1> QED
  BY <1>1, PapersGranted, RequestsGranted, OrdersGranted, StockGranted, ApprovalsGranted

-----------------------------------------------------------------------------
LEMMA InitAccess == Offer!AccessInit => AccessInv
<1> SUFFICES ASSUME Offer!AccessInit PROVE AccessInv
  OBVIOUS
<1>1. PICK t \in Offer!Tabs[kind] :
        screen = [plant |-> me.home, tab |-> t, list |-> FALSE,
                  form |-> "none", at |-> NoPlant, since |-> NoPlant]
  BY DEF Offer!AccessInit
<1>2. screen \in [plant : Offer!Maybe, tab : Offer!Tabs[kind], list : BOOLEAN,
                  form : {"none", "new", "open"}, at : Offer!Maybe, since : Offer!Maybe]
  BY <1>1 DEF Offer!AccessInit, Offer!Maybe
<1>3. me.scope = "PLANT" => me.home \in Plants /\ screen.plant \in Plants
  BY <1>1 DEF Offer!AccessInit, Offer!Maybe
<1>4. Offer!AccessTypeOK
  BY <1>1, <1>2, <1>3 DEF Offer!AccessInit, Offer!AccessTypeOK
<1>5. Loaded /\ FormPlants
  BY <1>1 DEF Loaded, FormPlants, Offer!New, Offer!Open
<1> QED
  BY <1>4, <1>5 DEF AccessInv

\* The permissions of the user, and what they let through, stay as they are.
LEMMA SameUser ==
  ASSUME UNCHANGED <<kind, me>>
  PROVE  /\ \A p : Offer!Has(p)' <=> Offer!Has(p)
         /\ \A r : Offer!Permitted(r)' <=> Offer!Permitted(r)
BY DEF Offer!Has, Offer!Permitted

\* Permission to load a list is asked for no plant in particular.
LEMMA ListPermission ==
  ASSUME NEW p PROVE Offer!Permitted(Offer!Request("list", p))
                     <=> Offer!Permitted(Offer!Request("list", NoPlant))
BY DEF Offer!Permitted, Offer!Request

\* The states of a screen.
Screens ==
  [plant : Offer!Maybe, tab : Offer!Tabs[kind], list : BOOLEAN,
   form : {"none", "new", "open"}, at : Offer!Maybe, since : Offer!Maybe]

\* A step that leaves the row alone and the form closed.
LEMMA ClosedKeeps ==
  ASSUME AccessInv, UNCHANGED <<kind, me, doc>>, screen' \in Screens,
         screen'.form = "none", screen'.at = NoPlant, screen'.since = NoPlant,
         me.scope = "PLANT" => screen'.plant \in Plants,
         screen'.list => Offer!Permitted(Offer!Request("list", NoPlant))
  PROVE  AccessInv'
<1>1. Offer!AccessTypeOK'
  BY DEF AccessInv, Offer!AccessTypeOK, Screens, Offer!Rows, Offer!OrderRows, Offer!ApprovalRows,
     Offer!PaperRows, Offer!Live
<1>2. Loaded'
  BY SameUser DEF Loaded, Offer!New, Offer!Request
<1>3. FormPlants'
  BY DEF FormPlants, Offer!Open
<1> QED
  BY <1>1, <1>2, <1>3 DEF AccessInv

\* A form is opened over the list.
LEMMA ShownKeeps ==
  ASSUME AccessInv, UNCHANGED <<kind, me, doc>>, kind # "STK", screen.form = "none",
         NEW f \in {"new", "open"}, NEW p \in Plants, screen' = Offer!Shown(f, p),
         f = "open" => Offer!Live /\ p = doc.plant,
         f = "new" /\ kind # "PUR" => Offer!Has(<<kind, "C">>),
         kind \in Papers /\ me.scope = "PLANT" => p = screen.plant,
         f = "open" /\ kind = "POR" /\ me.scope = "PLANT" => screen.plant = OrderPlant
  PROVE  AccessInv'
<1>1. /\ screen \in Screens
      /\ screen' = [screen EXCEPT !.form = f, !.at = p, !.since = screen.plant]
  BY DEF AccessInv, Offer!AccessTypeOK, Screens, Offer!Shown
<1>2. /\ screen' \in Screens
      /\ screen'.plant = screen.plant /\ screen'.list = screen.list
      /\ screen'.form = f /\ screen'.at = p /\ screen'.since = screen.plant
  BY <1>1 DEF Screens, Offer!Maybe
<1>3. Offer!AccessTypeOK'
  BY <1>2 DEF AccessInv, Offer!AccessTypeOK, Screens, Offer!Rows, Offer!OrderRows,
     Offer!ApprovalRows, Offer!PaperRows, Offer!Live
<1>4. Loaded'
  BY <1>2, SameUser DEF AccessInv, Loaded, Offer!New, Offer!Request
<1>5. FormPlants'
  BY <1>2 DEF FormPlants, Offer!Open, OrderPlant
<1> QED
  BY <1>3, <1>4, <1>5 DEF AccessInv

\* The row changes, and the screen starts again from its list.
LEMMA ShutKeeps ==
  ASSUME AccessInv, UNCHANGED <<kind, me>>, screen' = Offer!Shut(screen),
         doc' \in Offer!Rows \/ doc'.status = "gone"
  PROVE  AccessInv'
<1>1. /\ screen \in Screens
      /\ screen' = [screen EXCEPT !.form = "none", !.at = NoPlant, !.since = NoPlant,
                                  !.list = FALSE]
  BY DEF AccessInv, Offer!AccessTypeOK, Screens, Offer!Shut, Offer!Closed
<1>2. /\ screen' \in Screens
      /\ screen'.plant = screen.plant /\ ~screen'.list
      /\ screen'.form = "none" /\ screen'.at = NoPlant /\ screen'.since = NoPlant
  BY <1>1 DEF Screens, Offer!Maybe
<1>3. doc' \in Offer!Rows' \/ doc'.status = "gone"
  BY DEF Offer!Rows, Offer!OrderRows, Offer!ApprovalRows, Offer!PaperRows, Offer!Blank, Offer!Maybe
<1>4. Offer!AccessTypeOK'
  BY <1>2, <1>3 DEF AccessInv, Offer!AccessTypeOK, Screens
<1>5. Loaded' /\ FormPlants'
  BY <1>2 DEF Loaded, FormPlants, Offer!New, Offer!Open
<1> QED
  BY <1>4, <1>5 DEF AccessInv

LEMMA SelectKeeps ==
  ASSUME AccessInv,
         Offer!SelectPlant \/ Offer!Refreshed \/ Offer!SelectTab \/ Offer!LoadList
           \/ Offer!CloseForm
  PROVE  AccessInv'
<1>1. /\ screen \in Screens /\ me.home \in Offer!Maybe
      /\ me.scope = "PLANT" => me.home \in Plants /\ screen.plant \in Plants
      /\ screen.form = "none" => screen.at = NoPlant /\ screen.since = NoPlant
      /\ screen.list => Offer!Permitted(Offer!Request("list", NoPlant))
  BY DEF AccessInv, Offer!AccessTypeOK, Screens, Loaded
<1>2. CASE Offer!SelectPlant
  <2>1. PICK p \in Plants \union IF me.scope = "COMPANY" THEN {NoPlant} ELSE {} :
          screen' = [screen EXCEPT !.plant = p, !.list = kind = "APR" /\ screen.list]
    BY <1>2 DEF Offer!SelectPlant
  <2>2. p \in Offer!Maybe /\ (me.scope = "PLANT" => p \in Plants)
    BY <2>1 DEF Offer!Maybe
  <2>3. /\ screen' \in Screens /\ screen'.plant = p
        /\ screen'.form = screen.form /\ screen'.at = screen.at
        /\ screen'.since = screen.since /\ (screen'.list => screen.list)
    BY <1>1, <2>1, <2>2 DEF Screens
  <2> QED
    BY <1>1, <1>2, <2>2, <2>3, ClosedKeeps DEF Offer!SelectPlant
<1>3. CASE Offer!SelectTab
  <2>1. PICK t \in Offer!Tabs[kind] : screen' = [screen EXCEPT !.tab = t, !.list = FALSE]
    BY <1>3 DEF Offer!SelectTab
  <2>2. /\ screen' \in Screens /\ screen'.plant = screen.plant
        /\ screen'.form = screen.form /\ screen'.at = screen.at
        /\ screen'.since = screen.since /\ ~screen'.list
    BY <1>1, <2>1 DEF Screens
  <2> QED
    BY <1>1, <1>3, <2>2, ClosedKeeps DEF Offer!SelectTab
<1>4. CASE Offer!LoadList
  <2>1. /\ screen' \in Screens /\ screen'.plant = screen.plant
        /\ screen'.form = screen.form /\ screen'.at = screen.at /\ screen'.since = screen.since
    BY <1>1, <1>4 DEF Screens, Offer!LoadList
  <2>2. Offer!Permitted(Offer!Request("list", NoPlant))
    BY <1>4, ListPermission DEF Offer!LoadList
  <2> QED
    BY <1>1, <1>4, <2>1, <2>2, ClosedKeeps DEF Offer!LoadList
<1>5. CASE Offer!CloseForm
  <2>1. /\ screen' \in Screens /\ screen'.plant = screen.plant /\ screen'.list = screen.list
        /\ screen'.form = "none" /\ screen'.at = NoPlant /\ screen'.since = NoPlant
    BY <1>1, <1>5 DEF Screens, Offer!CloseForm, Offer!Closed, Offer!Maybe
  <2> QED
    BY <1>1, <1>5, <2>1, ClosedKeeps DEF Offer!CloseForm
\* The home plant comes back under an open form, which keeps the plant it was opened in.
<1>6. CASE Offer!Refreshed
  <2>1. /\ screen' = [screen EXCEPT !.plant = me.home, !.list = kind = "APR" /\ screen.list]
        /\ UNCHANGED <<kind, me, doc>>
    BY <1>6 DEF Offer!Refreshed
  <2>2. /\ screen' \in Screens /\ screen'.plant = me.home
        /\ screen'.form = screen.form /\ screen'.at = screen.at
        /\ screen'.since = screen.since /\ (screen'.list => screen.list)
    BY <1>1, <2>1 DEF Screens
  <2>3. Offer!AccessTypeOK'
    BY <1>1, <2>1, <2>2 DEF AccessInv, Offer!AccessTypeOK, Screens, Offer!Rows, Offer!OrderRows,
       Offer!ApprovalRows, Offer!PaperRows, Offer!Live
  <2>4. Loaded'
    BY <2>1, <2>2, SameUser DEF AccessInv, Loaded, Offer!New, Offer!Request
  <2>5. FormPlants'
    BY <2>1, <2>2 DEF AccessInv, FormPlants, Offer!Open, OrderPlant
  <2> QED
    BY <2>3, <2>4, <2>5 DEF AccessInv
<1> QED
  BY <1>2, <1>3, <1>4, <1>5, <1>6

LEMMA OpenKeeps ==
  ASSUME AccessInv, Offer!OpenNew \/ Offer!OpenRow \/ Offer!OpenResult
  PROVE  AccessInv'
<1> USE DEF AccessInv
<1>1. CASE Offer!OpenNew
  <2>1. PICK p \in Offer!NewAt : screen' = Offer!Shown("new", p)
    BY <1>1 DEF Offer!OpenNew
  <2>2. kind \in Papers \union {"PUR", "POR", "STK", "APR"}
    BY DEF Offer!AccessTypeOK, Offer!Kinds, Offer!Needs, Papers
  <2>3. /\ p \in Plants /\ kind # "STK"
        /\ kind \in {"WO", "WP"} => Offer!Reaches(NoPlant, p)
        /\ kind = "PM" => Offer!Reaches(screen.plant, p)
    BY <2>1, <2>2 DEF Offer!NewAt, Papers
  <2>4. kind \in Papers /\ me.scope = "PLANT" => p = screen.plant
    BY <2>3, ReachFacts DEF Papers
  <2>5. "new" # "open" /\ "new" \in {"new", "open"}
    OBVIOUS
  <2> QED
    BY <1>1, <2>1, <2>3, <2>4, <2>5, ShownKeeps DEF Offer!OpenNew
<1>2. ASSUME Offer!Listed, kind # "STK"
      PROVE  /\ Offer!Live /\ doc.plant \in Plants
             /\ kind \in Papers /\ me.scope = "PLANT" => doc.plant = screen.plant
             /\ kind = "POR" /\ me.scope = "PLANT" => screen.plant = OrderPlant
  <2>1. Offer!Live
    BY <1>2 DEF Offer!Listed
  <2>2. doc.plant \in Plants /\ OrderPlant \in Plants
    BY <2>1, RowFacts
  <2>3. kind \in Papers => Offer!Reaches(screen.plant, doc.plant)
    BY <1>2 DEF Papers, Offer!Listed, Offer!WorkOrderList, Offer!WorkPermitList,
       Offer!MaintenanceList
  <2>4. kind = "POR" => Offer!Reaches(screen.plant, OrderPlant)
    BY <1>2 DEF Offer!Listed, Offer!OrderList, Offer!OrderRead, OrderPlant
  <2> QED
    BY <2>1, <2>2, <2>3, <2>4, ReachFacts
<1>3. CASE Offer!OpenRow
  <2>1. PICK f \in {"new", "open"} :
          f = (IF kind = "PUR" /\ doc.status = "R" THEN "new" ELSE "open")
    OBVIOUS
  <2>2. /\ screen' = Offer!Shown(f, doc.plant)
        /\ Offer!Listed /\ kind # "STK" /\ screen.form = "none" /\ UNCHANGED <<kind, me, doc>>
    BY <1>3, <2>1 DEF Offer!OpenRow
  <2>3. f = "new" => kind = "PUR"
    BY <2>1
  <2> QED
    BY <1>2, <2>2, <2>3, ShownKeeps
<1>4. CASE Offer!OpenResult
  <2>1. "new" # "open" /\ "new" \in {"new", "open"}
    OBVIOUS
  <2> QED
    BY <1>2, <1>4, <2>1, ShownKeeps DEF Offer!OpenResult
<1> QED
  BY <1>1, <1>3, <1>4

LEMMA PickKeeps ==
  ASSUME AccessInv, Offer!PickPlant
  PROVE  AccessInv'
<1>1. PICK p \in Plants : screen' = [screen EXCEPT !.at = p]
  BY DEF Offer!PickPlant
<1>2. /\ screen \in Screens /\ screen.form = "open" /\ kind = "POR" /\ doc.seed = NoPlant
      /\ UNCHANGED <<kind, me, doc>>
  BY DEF AccessInv, Offer!AccessTypeOK, Screens, Offer!PickPlant, Offer!Open
<1>3. /\ screen' \in Screens /\ screen'.plant = screen.plant /\ screen'.list = screen.list
      /\ screen'.form = "open" /\ screen'.at = p /\ screen'.since = screen.since
  BY <1>1, <1>2 DEF Screens, Offer!Maybe
<1>4. Offer!AccessTypeOK'
  BY <1>2, <1>3 DEF AccessInv, Offer!AccessTypeOK, Screens, Offer!Rows, Offer!OrderRows,
     Offer!ApprovalRows, Offer!PaperRows, Offer!Live
<1>5. Loaded'
  BY <1>2, <1>3, SameUser DEF AccessInv, Loaded, Offer!New, Offer!Request
<1>6. FormPlants'
  BY <1>2, <1>3 DEF AccessInv, FormPlants, Offer!Open, OrderPlant, Papers
<1> QED
  BY <1>4, <1>5, <1>6 DEF AccessInv

\* What the offers that change the row say of it.
LEMMA OfferFacts ==
  ASSUME AccessInv, NEW r \in Offer!Offers
  PROVE  /\ r.op = "create" => kind \in Papers \union {"PUR", "POR"} /\ r.at \in Plants
         /\ r.op = "createConfirmed" => kind = "POR" /\ r.at \in Plants
         /\ r.op \in {"update", "delete"} => kind # "STK" /\ Offer!OwnDraft
         /\ r.op = "update" /\ kind = "POR" => r.at \in Plants
         /\ r.op = "confirm" => kind = "POR" /\ doc.status = "T"
         /\ r.op = "close" => kind = "POR"
         /\ r.op = "decide" => kind = "APR" /\ doc.status = "P"
<1> USE DEF AccessInv
<1>1. CASE kind \in Papers
  <2>1. r \in PaperOffers
    BY <1>1 DEF Papers, Offer!Offers, Offer!WorkOrderRow, Offer!WorkPermitRow,
       Offer!MaintenanceRow, Offer!WorkOrderForm, Offer!WorkPermitForm, Offer!MaintenanceForm,
       PaperOffers
  <2> QED
    BY <1>1, <2>1 DEF PaperOffers, Offer!Request, FormPlants, Papers
<1>2. CASE kind = "PUR"
  <2>1. r \in IF screen.form = "none" THEN Offer!RequestRow ELSE Offer!RequestForm
    BY <1>2 DEF Offer!Offers
  <2> QED
    BY <1>2, <2>1 DEF Offer!RequestRow, Offer!RequestForm, Offer!Request, FormPlants
<1>3. CASE kind = "POR"
  <2>1. r \in IF screen.form = "none" THEN Offer!OrderRow ELSE Offer!OrderForm
    BY <1>3 DEF Offer!Offers
  <2> QED
    BY <1>3, <2>1 DEF Offer!OrderRow, Offer!OrderForm, Offer!Request, FormPlants
<1>4. CASE kind = "STK"
  BY <1>4 DEF Offer!Offers, Offer!StockGrid, Offer!Request
<1>5. CASE kind = "APR"
  BY <1>5 DEF Offer!Offers, Offer!ApprovalRow, Offer!ApprovalDetail, Offer!Request
<1>6. kind \in Papers \union {"PUR", "POR", "STK", "APR"}
  BY DEF Offer!AccessTypeOK, Offer!Kinds, Offer!Needs, Papers
<1> QED
  BY <1>1, <1>2, <1>3, <1>4, <1>5, <1>6

\* The rows of a new document.
LEMMA NewRow ==
  ASSUME NEW p \in Plants, NEW s \in {"T", "P", "C"},
         kind \in Papers \union {"PUR", "POR"}, kind = "POR" => s \in {"T", "C"}
  PROVE  [Offer!Blank EXCEPT !.plant = p, !.status = s] \in Offer!Rows
<1> DEFINE new == [Offer!Blank EXCEPT !.plant = p, !.status = s]
           RowsLikeNew(status, plants) ==
             [status : status, mine : {TRUE}, plant : plants, seed : {NoPlant},
              asked : {FALSE}, closed : {FALSE}, line : {"off"}, files : {FALSE}]
<1>1. PICK q : Offer!Blank \in RowsLikeNew({"none"}, {q})
  BY DEF Offer!Blank
<1>2. new \in RowsLikeNew({"none", s}, {q, p})
  BY <1>1
<1>3. new.status = s /\ new.plant = p
  BY <1>1
<1> HIDE DEF new
<1>4. new \in RowsLikeNew({s}, {p})
  BY <1>2, <1>3
<1>5. ASSUME kind = "POR" PROVE new \in Offer!Rows
  BY <1>4, <1>5 DEF Offer!Rows, Offer!OrderRows, Offer!Maybe
<1>6. ASSUME kind # "POR" PROVE new \in Offer!Rows
  BY <1>4, <1>6 DEF Offer!Rows, Offer!PaperRows, Papers
<1> QED
  BY <1>5, <1>6 DEF new

\* The status and line of a paper, a request or an approval are set.
LEMMA RowSet ==
  ASSUME doc \in Offer!Rows, kind \notin {"POR", "STK"},
         NEW s \in {"T", "P", "C", "R"},
         NEW l \in {doc.line, "done"},
         kind # "APR" => l = doc.line,
         kind = "APR" => (l = "done" => s # "T") /\ (l = "next" => s # "C")
  PROVE  [doc EXCEPT !.status = s, !.line = l] \in Offer!Rows
<1>1. CASE kind = "APR"
  BY <1>1 DEF Offer!Rows, Offer!ApprovalRows
<1>2. CASE kind # "APR"
  BY <1>2 DEF Offer!Rows, Offer!PaperRows
<1> QED
  BY <1>1, <1>2

\* The status, plant and closing of an order are set.
LEMMA OrderSet ==
  ASSUME doc \in Offer!Rows, kind = "POR",
         NEW s \in {"T", "C"}, NEW p \in Plants, NEW c \in BOOLEAN,
         doc.asked => p = doc.plant, c => doc.asked /\ s = "C"
  PROVE  [doc EXCEPT !.status = s, !.plant = p, !.closed = c] \in Offer!Rows
BY DEF Offer!Rows, Offer!OrderRows

LEMMA TakeKeeps ==
  ASSUME AccessInv, Offer!Take
  PROVE  AccessInv'
<1>1. PICK r \in Offer!Offers : Offer!Granted(r) /\ doc' \in Offer!Outcomes(r)
  BY DEF Offer!Take
<1> USE OfferFacts DEF Offer!Outcomes, Offer!Stored
<1>2. doc' \in Offer!Rows \/ doc'.status = "gone"
  <2>1. CASE r.op = "create"
    <3>1. PICK s \in {"T", "P"} :
            /\ doc' = [[Offer!Blank EXCEPT !.plant = r.at] EXCEPT !.status = s]
            /\ kind = "POR" => s = "T"
      BY <1>1, <2>1
    <3>2. doc' = [Offer!Blank EXCEPT !.plant = r.at, !.status = s]
      BY <3>1 DEF Offer!Blank
    <3>3. /\ r.at \in Plants /\ kind \in Papers \union {"PUR", "POR"}
          /\ s \in {"T", "P", "C"} /\ (kind = "POR" => s \in {"T", "C"})
      BY <2>1, <3>1
    <3> HIDE OfferFacts DEF Offer!Outcomes, Offer!Stored
    <3>4. [Offer!Blank EXCEPT !.plant = r.at, !.status = s] \in Offer!Rows
      BY <3>3, NewRow
    <3> QED
      BY <3>2, <3>4
  <2>2. CASE r.op = "createConfirmed"
    <3>1. doc' = [Offer!Blank EXCEPT !.plant = r.at, !.status = "C"]
      BY <1>1, <2>2
    <3> QED
      BY <2>2, <3>1, NewRow
  <2>3. ASSUME Offer!Live PROVE doc \in Offer!Rows
    BY <2>3, RowFacts DEF AccessInv
  <2>4. CASE r.op = "update"
    <3>1. doc \in Offer!Rows /\ doc.status = "T"
      BY <2>3, <2>4 DEF Offer!OwnDraft, Offer!Live
    <3>2. CASE kind = "POR"
      <4>1. doc' = [[doc EXCEPT !.plant = r.at] EXCEPT !.status = "T"]
        BY <1>1, <2>4, <3>2
      <4>2. doc.asked => r.at = doc.plant
        BY <1>1, <2>4, <3>1, <3>2, PlantNames DEF Offer!Granted, Offer!Served,
           Offer!OrderCreated, Offer!OrderUpdated, Offer!OrderConfirmed, Offer!OrderAllocated,
           Offer!OrderClosed, Offer!Rows, Offer!OrderRows
      <4>3. ~doc.closed /\ doc.closed \in BOOLEAN
        BY <3>1, <3>2 DEF Offer!Rows, Offer!OrderRows
      <4>4. doc' = [doc EXCEPT !.status = "T", !.plant = r.at, !.closed = FALSE]
        BY <3>1, <3>2, <4>1, <4>3 DEF Offer!Rows, Offer!OrderRows
      <4> QED
        BY <2>4, <3>1, <3>2, <4>2, <4>4, OrderSet
    <3>3. CASE kind # "POR"
      <4>1. PICK s \in {"T", "P"} : doc' = [doc EXCEPT !.status = s]
        BY <1>1, <2>4, <3>3
      <4>2. kind \notin {"POR", "STK"}
        BY <2>4, <3>3
      <4>3. /\ doc' = [doc EXCEPT !.status = s, !.line = doc.line]
            /\ kind = "APR" => doc.line # "done"
        BY <3>1, <4>1, <4>2 DEF Offer!Rows, Offer!ApprovalRows, Offer!PaperRows
      <4> QED
        BY <3>1, <4>2, <4>3, RowSet
    <3> QED
      BY <3>2, <3>3
  <2>5. CASE r.op = "delete"
    <3>1. doc \in Offer!Rows /\ kind # "STK"
      BY <2>3, <2>5 DEF Offer!OwnDraft, Offer!Live
    <3> QED
      BY <1>1, <2>5, <3>1 DEF Offer!Rows, Offer!OrderRows, Offer!ApprovalRows, Offer!PaperRows
  <2>6. CASE r.op \in {"confirm", "close"}
    <3>1. PICK c \in BOOLEAN :
            /\ doc' = IF c THEN [doc EXCEPT !.closed = TRUE] ELSE [doc EXCEPT !.status = "C"]
            /\ kind = "POR" /\ doc.status = IF c THEN "C" ELSE "T"
            /\ c => doc.asked
      <4>1. CASE r.op = "confirm"
        BY <1>1, <4>1
      <4>2. CASE r.op = "close"
        <5>1. kind = "POR" /\ doc' = [doc EXCEPT !.closed = TRUE]
          BY <1>1, <4>2
        <5>2. Offer!OrderClosed(r)
          BY <1>1, <4>2, <5>1 DEF Offer!Granted, Offer!Served, Offer!OrderCreated,
             Offer!OrderUpdated, Offer!OrderConfirmed, Offer!OrderAllocated
        <5> QED
          BY <5>1, <5>2 DEF Offer!OrderClosed, Offer!Approved
      <4> QED
        BY <2>6, <4>1, <4>2
    <3>2. doc \in Offer!Rows
      BY <2>3, <3>1 DEF Offer!Live
    <3>3. /\ doc.plant \in Plants /\ (doc.status = "T" => doc.closed = FALSE)
          /\ doc' = [doc EXCEPT !.status = "C", !.plant = doc.plant, !.closed = c]
      BY <3>1, <3>2 DEF Offer!Rows, Offer!OrderRows
    <3>4. kind = "POR" /\ (c => doc.asked /\ "C" = "C") /\ "C" \in {"T", "C"}
      BY <3>1
    <3> HIDE OfferFacts DEF Offer!Outcomes, Offer!Stored
    <3>5. [doc EXCEPT !.status = "C", !.plant = doc.plant, !.closed = c] \in Offer!Rows
      BY <3>2, <3>3, <3>4, OrderSet
    <3> QED
      BY <3>3, <3>5
  <2>7. CASE r.op = "decide"
    <3>1. PICK s \in {"P", "C", "R"} : doc' = [doc EXCEPT !.status = s, !.line = "done"]
      BY <1>1, <2>7
    <3>2. kind = "APR" /\ doc \in Offer!Rows
      BY <2>3, <2>7 DEF Offer!Live
    <3> QED
      BY <3>1, <3>2, RowSet
  <2> QED
    BY <1>1, <2>1, <2>2, <2>4, <2>5, <2>6, <2>7
<1> QED
  BY <1>2, ShutKeeps DEF Offer!Take

LEMMA OthersKeep ==
  ASSUME AccessInv, Offer!OthersAct
  PROVE  AccessInv'
<1>1. PICK s \in {"P", "C", "R"} :
        /\ doc' = [doc EXCEPT !.status = s]
        /\ \/ doc.status = "T" /\ kind \notin {"POR", "STK"} /\ s = "P"
           \/ doc.status = "P" /\ doc.line # "next"
  BY DEF Offer!OthersAct
<1>2. doc \in Offer!Rows
  BY <1>1, RowFacts DEF AccessInv, Offer!Live
<1>3. kind \notin {"POR", "STK"}
  BY <1>1, <1>2 DEF Offer!Rows, Offer!OrderRows
<1>4. /\ doc' = [doc EXCEPT !.status = s, !.line = doc.line]
      /\ kind = "APR" /\ doc.line = "next" => s # "C"
  BY <1>1, <1>2, <1>3 DEF Offer!Rows, Offer!ApprovalRows, Offer!PaperRows
<1>5. doc' \in Offer!Rows
  BY <1>2, <1>3, <1>4, RowSet
<1> QED
  BY <1>5, ShutKeeps DEF Offer!OthersAct

LEMMA NextAccess ==
  ASSUME AccessInv, [Offer!AccessNext]_accessVars
  PROVE  AccessInv'
<1>1. CASE UNCHANGED accessVars
  BY <1>1 DEF accessVars, AccessInv, Offer!AccessTypeOK, Loaded, FormPlants, Offer!Rows,
     Offer!OrderRows, Offer!ApprovalRows, Offer!PaperRows, Offer!Blank, Offer!Live, Offer!Maybe,
     Offer!New, Offer!Open, Offer!Permitted, Offer!Has, Offer!Request, OrderPlant
<1>2. CASE Offer!AccessNext
  BY <1>2, SelectKeeps, OpenKeeps, PickKeeps, TakeKeeps, OthersKeep DEF Offer!AccessNext
<1> QED
  BY <1>1, <1>2

-----------------------------------------------------------------------------
(***************************************************************************)
(* Together.                                                               *)
(***************************************************************************)
\* The board is as it was at first when the subject is a screen.
OffersInv ==
  /\ subject \in {"board", "access"} /\ IInv
  /\ subject = "access" => AccessInv

LEMMA OffersInvariance == OffersSpec => []OffersInv
<1>1. OffersInit => OffersInv
  BY InitIInv, InitAccess DEF OffersInit, OffersInv
<1>2. ASSUME OffersInv, [OffersNext]_<<subject, vars, accessVars>>
      PROVE  OffersInv'
  <2>1. subject' = subject /\ [Next]_vars
    BY <1>2 DEF OffersNext
  <2>2. subject = "access" => [Offer!AccessNext]_accessVars
    BY <1>2 DEF OffersNext, OffersInv
  <2>3. IInv'
    BY <1>2, <2>1, NextIInv DEF OffersInv
  <2>4. subject = "access" => AccessInv'
    BY <1>2, <2>2, NextAccess DEF OffersInv
  <2> QED
    BY <1>2, <2>1, <2>3, <2>4 DEF OffersInv
<1> QED
  BY <1>1, <1>2, PTL DEF OffersSpec

\* Posts, attachments and calls stay well typed, and so do the row, the form and
\* the plants of a document screen.
THEOREM OffersTypesHold == OffersSpec => []OffersTypeOK
<1>1. OffersInv => OffersTypeOK
  BY DEF OffersInv, OffersTypeOK, IInv, AccessInv
<1> QED
  BY <1>1, OffersInvariance, PTL

\* What a screen offers its user, the server grants to him, the known refusals
\* apart, whatever he opens, picks and saves and the others do to the document.
THEOREM OffersAreGranted == OffersSpec => []OfferedIsGranted
<1>1. OffersInv => OfferedIsGranted
  BY OffersGranted DEF OffersInv, OfferedIsGranted
<1> QED
  BY <1>1, OffersInvariance, PTL
=============================================================================
