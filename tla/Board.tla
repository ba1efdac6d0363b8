-------------------------------- MODULE Board --------------------------------
(***************************************************************************)
(* The notice board: board.service.ts composed with Attachments.           *)
(*                                                                         *)
(* saveBoard and deleteBoard call the file service after their own         *)
(* transaction; a comment is saved under the lock of its post.  The owner  *)
(* of a post and its text are left out.                                    *)
(***************************************************************************)
EXTENDS Attachments

CONSTANTS Authors, NoAuthor

ASSUME AuthorName == NoAuthor \notin Authors

VARIABLES
  comment   \* board_comment rows: the author of each number of a post

vars == <<pool, rowVars, storeVars, post, comment, locks, callVars>>

TypeOK ==
  /\ AttachmentsTypeOK
  /\ comment \in [Posts -> [Numbers -> Authors \union {NoAuthor}]]

Init ==
  /\ AttachmentsInit
  /\ comment = [p \in Posts |-> [n \in Numbers |-> NoAuthor]]

-----------------------------------------------------------------------------
CommentNos(p) == {n \in Numbers : comment[p][n] # NoAuthor}

\* The groups the form of a post can hold: none, a draft, or the post's own.
FormGroups(p) == {NoGroup} \union
  {g \in Groups : group[g].status # "none" /\ group[g].ref \in {NoPost, p}}

\* saveBoard of a new post.
CreatePost(c, p, g) ==
  /\ pc[c] = "idle" /\ Free /\ post[p].status = "none" /\ g \in FormGroups(p)
  /\ post' = [post EXCEPT ![p] = [status |-> "live", group |-> g]]
  /\ pc' = [pc EXCEPT ![c] = IF g = NoGroup THEN "idle" ELSE "bind"]
  /\ on' = [on EXCEPT ![c] = g]
  /\ at' = [at EXCEPT ![c] = IF g = NoGroup THEN NoPost ELSE p]
  /\ UNCHANGED <<pool, rowVars, storeVars, comment, locks, copy, first>>

\* saveBoard of an existing one: found live, then saved whole.
FindPost(c, p) ==
  /\ Start(c, "edit") /\ LivePost(p)
  /\ at' = [at EXCEPT ![c] = p]
  /\ UNCHANGED <<pool, rowVars, storeVars, post, comment, locks, on, copy, first>>

SavePost(c, g) ==
  /\ pc[c] = "edit" /\ Free /\ postLock[at[c]] = NoCall /\ g \in FormGroups(at[c])
  /\ post' = [post EXCEPT ![at[c]] = [status |-> "live", group |-> g]]
  /\ IF g = NoGroup THEN End(c)
     ELSE /\ Goto(c, "bind")
          /\ on' = [on EXCEPT ![c] = g]
          /\ UNCHANGED <<locks, at, copy, first>>
  /\ UNCHANGED <<pool, rowVars, storeVars, comment>>

\* deleteBoard: the post is found without comments, then saved whole.
FindToDelete(c, p) ==
  /\ Start(c, "markPost") /\ LivePost(p) /\ CommentNos(p) = {}
  /\ at' = [at EXCEPT ![c] = p]
  /\ on' = [on EXCEPT ![c] = post[p].group]
  /\ UNCHANGED <<pool, rowVars, storeVars, post, comment, locks, copy, first>>

MarkPost(c) ==
  /\ pc[c] = "markPost" /\ Free /\ postLock[at[c]] = NoCall
  /\ post' = [post EXCEPT ![at[c]] = [status |-> "deleted", group |-> on[c]]]
  /\ IF on[c] = NoGroup THEN End(c)
     ELSE Goto(c, "findGroup") /\ UNCHANGED <<locks, on, at, copy, first>>
  /\ UNCHANGED <<pool, rowVars, storeVars, comment>>

-----------------------------------------------------------------------------
\* Mutant of LockPost: the post is read without a lock.
ReadPost(c, p) ==
  /\ Start(c, "comment") /\ LivePost(p)
  /\ at' = [at EXCEPT ![c] = p]
  /\ \E n \in Numbers :
       NextNo(CommentNos(p), n) /\ first' = [first EXCEPT ![c] = n]
  /\ UNCHANGED <<pool, rowVars, storeVars, post, comment, locks, on, copy>>

\* saveComment: the post is locked, the next number read.
LockPost(c, p) ==
  /\ Start(c, "comment") /\ LivePost(p) /\ postLock[p] = NoCall
  /\ postLock' = [postLock EXCEPT ![p] = c]
  /\ at' = [at EXCEPT ![c] = p]
  /\ \E n \in Numbers :
       NextNo(CommentNos(p), n) /\ first' = [first EXCEPT ![c] = n]
  /\ UNCHANGED <<pool, rowVars, storeVars, post, comment, groupLock, on, copy>>

CommitComment(c, u) ==
  /\ pc[c] = "comment"
  /\ comment' = [comment EXCEPT ![at[c]][first[c]] = u]
  /\ End(c) /\ UNCHANGED <<pool, rowVars, storeVars, post>>

\* deleteComment of one's own comment, by its number.
FindComment(c, p, n) ==
  /\ Start(c, "removeComment") /\ comment[p][n] # NoAuthor
  /\ at' = [at EXCEPT ![c] = p]
  /\ first' = [first EXCEPT ![c] = n]
  /\ UNCHANGED <<pool, rowVars, storeVars, post, comment, locks, on, copy>>

RemoveComment(c) ==
  /\ pc[c] = "removeComment" /\ Free
  /\ comment' = [comment EXCEPT ![at[c]][first[c]] = NoAuthor]
  /\ End(c) /\ UNCHANGED <<pool, rowVars, storeVars, post>>

-----------------------------------------------------------------------------
Request(c) ==
  \/ AttachmentRequests(c) /\ UNCHANGED comment
  \/ \E p \in Posts :
       \/ \E g \in Groups \union {NoGroup} : CreatePost(c, p, g)
       \/ FindPost(c, p) \/ FindToDelete(c, p)
       \/ LockPost(c, p)
       \/ \E n \in Numbers : FindComment(c, p, n)

BoardSteps(c) ==
  \/ \E g \in Groups \union {NoGroup} : SavePost(c, g)
  \/ MarkPost(c) \/ RemoveComment(c)
  \/ \E u \in Authors : CommitComment(c, u)

\* What a call does by itself once it has begun, waits and timeouts included.
Progress(c) ==
  \/ AttachmentSteps(c) /\ UNCHANGED comment
  \/ BoardSteps(c)

Next ==
  \/ \E c \in Calls : Request(c) \/ Progress(c) \/ (AttachmentFaults(c) /\ UNCHANGED comment)
  \/ StoreSteps /\ UNCHANGED comment

Spec == Init /\ [][Next]_vars

-----------------------------------------------------------------------------
(***************************************************************************)
(* Properties.                                                             *)
(***************************************************************************)
\* Every committed attachment can be downloaded: its object is in the store,
\* whatever deletes, compensates or reconciles objects at the same time.
RowHasObject == RowObjects \subseteq stored

Claimed(c) ==
  IF Uploading(c) \/ pc[c] = "markGroup" THEN Of(copy[c]) ELSE {}
\* No object is lost silently: one without a row belongs to a call under way,
\* is being deleted, or somebody lost track of it by a fault or by deleting
\* the row that had taken the number of another.
ObjectsAccountedFor ==
  stored \subseteq RowObjects \union removing \union orphan
                   \union UNION {Claimed(c) : c \in Calls}

\* A committed attachment keeps its number and its object until it is removed:
\* two uploads to a group never take the same number.
ItemsAreOnlyRemoved ==
  [][\A g \in Groups, n \in Numbers :
       row[g][n] # NoObject => row'[g][n] \in {row[g][n], NoObject}]_vars

\* A comment appears under a live post only, at a number nobody holds, while a
\* deletion of the post or another comment runs.
CommentsJoinLivePosts ==
  [][\A p \in Posts, n \in Numbers : comment'[p][n] \notin {comment[p][n], NoAuthor} =>
       LivePost(p) /\ comment[p][n] = NoAuthor]_vars

\* No call waits for ever, although an upload asks the pool for a second
\* connection while it holds one and perhaps the row another upload waits for.
NoneWaitsForEver == \A c \in Calls : pc[c] # "idle" => ENABLED Progress(c)
=============================================================================
