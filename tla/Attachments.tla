----------------------------- MODULE Attachments -----------------------------
(***************************************************************************)
(* File attachments: file-storage.service.ts over the database, the object *)
(* store and the connection pool.                                          *)
(*                                                                         *)
(* A group of attachments belongs to a document once it is bound; here the *)
(* documents are the posts of the notice board (module Board).  Who may    *)
(* read or change a group is left out beyond the state of its post: a      *)
(* refusal for a missing permission is one of the errors of Fail.          *)
(***************************************************************************)
EXTENDS Naturals, FiniteSets

CONSTANTS
  Groups, NoGroup,
  Posts, NoPost,
  Objects, NoObject, \* storage keys
  MaxNo,             \* bound: numbers of the items of a group, of the comments of a post
  MaxFiles,          \* files in one upload request
  PoolSizes,         \* connections the rest of the server may leave to the calls
  Calls, NoCall

ASSUME AttachmentNames ==
  /\ NoGroup \notin Groups /\ NoPost \notin Posts
  /\ NoObject \notin Objects /\ NoCall \notin Calls
ASSUME AttachmentBounds ==
  MaxNo \in Nat \ {0} /\ MaxFiles \in Nat \ {0} /\ PoolSizes \subseteq Nat

VARIABLES
  pool,       \* connections left to the calls, constant
  group,      \* file_attachment rows: status and the post they are bound to
  row,        \* file_attachment_item rows: the object each number stands for
  post,       \* board rows: status and group
  stored,     \* the keys of the object store
  removing,   \* deletions of objects sent, not yet carried out
  listed,     \* reconcile: the keys it has listed
  orphan,     \* history: objects somebody has lost track of
  groupLock, postLock,     \* FOR UPDATE
  pc, on, at, \* per call: where it is, its group and its post
  copy,       \* per call: the items it has stored, or has read to delete
  first       \* per call: the number of its first item or comment

storeVars == <<stored, removing, listed, orphan>>
rowVars == <<group, row>>
callVars == <<pc, on, at, copy, first>>
locks == <<groupLock, postLock>>

Numbers == 1..MaxNo
Items == [Numbers -> Objects \union {NoObject}]
NoItems == [n \in Numbers |-> NoObject]
Status == {"none", "live", "deleted"}
UploadPhases == {"lock", "check", "store"}
CommentPhases == {"comment"}
Phases == UploadPhases \union CommentPhases \union
  {"idle", "remove", "findGroup", "removeAll", "markGroup",
   "edit", "bind", "saveGroup", "markPost", "removeComment"}

AttachmentsTypeOK ==
  /\ pool \in PoolSizes
  /\ group \in [Groups -> [status: Status, ref: Posts \union {NoPost}]]
  /\ row \in [Groups -> Items]
  /\ post \in [Posts -> [status: Status, group: Groups \union {NoGroup}]]
  /\ stored \subseteq Objects /\ removing \subseteq Objects
  /\ listed \subseteq Objects /\ orphan \subseteq Objects
  /\ groupLock \in [Groups -> Calls \union {NoCall}]
  /\ postLock \in [Posts -> Calls \union {NoCall}]
  /\ pc \in [Calls -> Phases]
  /\ on \in [Calls -> Groups \union {NoGroup}]
  /\ at \in [Calls -> Posts \union {NoPost}]
  /\ copy \in [Calls -> Items]
  /\ first \in [Calls -> 1..MaxNo + 1]

AttachmentsInit ==
  /\ pool \in PoolSizes
  /\ group = [g \in Groups |-> [status |-> "none", ref |-> NoPost]]
  /\ row = [g \in Groups |-> NoItems]
  /\ post = [p \in Posts |-> [status |-> "none", group |-> NoGroup]]
  /\ stored = {} /\ removing = {} /\ listed = {} /\ orphan = {}
  /\ groupLock = [g \in Groups |-> NoCall]
  /\ postLock = [p \in Posts |-> NoCall]
  /\ pc = [c \in Calls |-> "idle"]
  /\ on = [c \in Calls |-> NoGroup]
  /\ at = [c \in Calls |-> NoPost]
  /\ copy = [c \in Calls |-> NoItems]
  /\ first = [c \in Calls |-> 1]

-----------------------------------------------------------------------------
Of(items) == {items[n] : n \in Numbers} \ {NoObject}
RowObjects == UNION {Of(row[g]) : g \in Groups}
Uploading(c) == pc[c] \in UploadPhases

\* A transaction keeps its connection from its first statement to its end.
HoldsConnection(c) == pc[c] \in UploadPhases \union CommentPhases
Free == Cardinality({c \in Calls : HoldsConnection(c)}) < pool
\* The calls whose next step asks the pool for a connection.
Asking(c) == pc[c] \notin {"idle", "lock", "store"} \union CommentPhases

LiveGroup(g) == group[g].status = "live"
LivePost(p) == post[p].status = "live"
\* A group without a post is its creator's draft.
CanMutate(g) == group[g].ref # NoPost => LivePost(group[g].ref)

\* A call ends; with it go its transaction, its locks and what it holds in memory.
End(c) ==
  /\ pc' = [pc EXCEPT ![c] = "idle"]
  /\ on' = [on EXCEPT ![c] = NoGroup]
  /\ at' = [at EXCEPT ![c] = NoPost]
  /\ copy' = [copy EXCEPT ![c] = NoItems]
  /\ first' = [first EXCEPT ![c] = 1]
  /\ groupLock' = [g \in Groups |-> IF groupLock[g] = c THEN NoCall ELSE groupLock[g]]
  /\ postLock' = [p \in Posts |-> IF postLock[p] = c THEN NoCall ELSE postLock[p]]

\* The catch of upload: the objects it has stored are deleted, without waiting.
Compensate(c) ==
  removing' = IF Uploading(c) THEN removing \union Of(copy[c]) ELSE removing

\* What an error leaves untracked: a group deletion that has removed its rows.
Abandon(c) ==
  orphan' = IF pc[c] = "markGroup" THEN orphan \union (Of(copy[c]) \intersect stored)
            ELSE orphan

\* A refusal, an error or a timeout: the transaction is rolled back.
Abort(c) ==
  /\ Compensate(c) /\ Abandon(c) /\ End(c)
  /\ UNCHANGED <<pool, rowVars, post, stored, listed>>

Fail(c) == pc[c] # "idle" /\ Abort(c)

\* Mutant of ConnectTimeout: the pool lets a request wait for ever.
WaitForEver(c) == FALSE
\* No connection within connectionTimeoutMillis.
ConnectTimeout(c) == Asking(c) /\ ~Free /\ Abort(c)

\* No row lock within lock_timeout.
LockTimeout(c) ==
  /\ \/ pc[c] \in {"lock", "markGroup", "saveGroup"} /\ groupLock[on[c]] # NoCall
     \/ pc[c] \in {"edit", "markPost"} /\ postLock[at[c]] # NoCall
  /\ Abort(c)

\* The group is not there, or its post does not let it change.
RefuseGroup(c) ==
  /\ \/ pc[c] = "lock" /\ groupLock[on[c]] = NoCall /\ ~LiveGroup(on[c])
     \/ pc[c] = "check" /\ Free /\ ~CanMutate(on[c])
     \/ pc[c] = "bind" /\ Free /\ ~LiveGroup(on[c])
  /\ Abort(c)

Start(c, phase) == pc[c] = "idle" /\ Free /\ pc' = [pc EXCEPT ![c] = phase]
Goto(c, phase) == pc' = [pc EXCEPT ![c] = phase]

-----------------------------------------------------------------------------
(***************************************************************************)
(* upload.                                                                 *)
(***************************************************************************)
\* upload with a group number: its transaction waits for the group's row.
StartUpload(c, g) ==
  /\ Start(c, "lock") /\ group[g].status # "none"
  /\ on' = [on EXCEPT ![c] = g]
  /\ UNCHANGED <<pool, rowVars, post, storeVars, locks, at, copy, first>>

\* Mutant of LockGroup: the group is read without a lock.
ReadGroup(c) ==
  /\ pc[c] = "lock" /\ LiveGroup(on[c]) /\ Goto(c, "check")
  /\ UNCHANGED <<pool, rowVars, post, storeVars, locks, on, at, copy, first>>

LockGroup(c) ==
  /\ pc[c] = "lock" /\ groupLock[on[c]] = NoCall /\ LiveGroup(on[c])
  /\ groupLock' = [groupLock EXCEPT ![on[c]] = c]
  /\ Goto(c, "check")
  /\ UNCHANGED <<pool, rowVars, post, storeVars, postLock, on, at, copy, first>>

\* upload without one: nobody sees the new group before it is committed.
StartNewGroup(c, g) ==
  /\ Start(c, "check")
  /\ group[g].status = "none" /\ \A d \in Calls : on[d] # g
  /\ on' = [on EXCEPT ![c] = g]
  /\ UNCHANGED <<pool, rowVars, post, storeVars, locks, at, copy, first>>

\* The last number in use, plus one.
NextNo(used, n) == (n = 1 \/ n - 1 \in used) /\ \A k \in used : k < n

ItemNos(g) == {n \in Numbers : row[g][n] # NoObject}

\* The permission is read over a second connection, then the last item number.
CheckUpload(c) ==
  /\ pc[c] = "check" /\ Free /\ CanMutate(on[c])
  /\ \E n \in 1..MaxNo + 1 :
       NextNo(ItemNos(on[c]), n) /\ first' = [first EXCEPT ![c] = n]
  /\ Goto(c, "store")
  /\ UNCHANGED <<pool, rowVars, post, storeVars, locks, on, at, copy>>

\* A random key names an object that nothing has ever mentioned.
Fresh(o) ==
  /\ o \notin stored \union removing \union listed
  /\ \A c \in Calls : o \notin Of(copy[c])

Sent(c) == Cardinality({n \in Numbers : copy[c][n] # NoObject})

\* One file: its object is stored, then its row inserted.
StoreFile(c, o) ==
  /\ pc[c] = "store" /\ Fresh(o)
  /\ Sent(c) < MaxFiles /\ first[c] + Sent(c) <= MaxNo
  /\ stored' = stored \union {o}
  /\ copy' = [copy EXCEPT ![c][first[c] + Sent(c)] = o]
  /\ UNCHANGED <<pool, rowVars, post, removing, listed, orphan, locks, pc, on, at, first>>

\* The store keeps the object but its answer is lost: the key is not noted.
StoreUnanswered(c, o) ==
  /\ pc[c] = "store" /\ Fresh(o)
  /\ stored' = stored \union {o}
  /\ orphan' = orphan \union {o}
  /\ Compensate(c) /\ End(c)
  /\ UNCHANGED <<pool, rowVars, post, listed>>

\* The store refuses the file.
StoreFails(c) == pc[c] = "store" /\ Abort(c)

\* Answered or not: when the answer is lost, the rollback throws on the broken
\* connection and the catch ends before it deletes an object.
CommitUpload(c) ==
  /\ pc[c] = "store" /\ Sent(c) > 0
  /\ row' = [row EXCEPT ![on[c]] =
       [n \in Numbers |-> IF copy[c][n] # NoObject THEN copy[c][n] ELSE @[n]]]
  /\ group' = [group EXCEPT ![on[c]].status =
       IF @ = "none" THEN "live" ELSE @]
  /\ End(c) /\ UNCHANGED <<pool, post, storeVars>>

-----------------------------------------------------------------------------
(***************************************************************************)
(* delete and deleteGroupByCompany.  repository.remove deletes by primary  *)
(* key, whatever the row of that number holds by then.                     *)
(***************************************************************************)
\* delete reads the group, the permission and the item.
FindItem(c, g, n) ==
  /\ Start(c, "remove") /\ LiveGroup(g) /\ CanMutate(g) /\ row[g][n] # NoObject
  /\ on' = [on EXCEPT ![c] = g]
  /\ copy' = [copy EXCEPT ![c] = [NoItems EXCEPT ![n] = row[g][n]]]
  /\ UNCHANGED <<pool, rowVars, post, storeVars, locks, at, first>>

RemoveRows(c) ==
  LET kept == [n \in Numbers |-> IF copy[c][n] = NoObject THEN row[on[c]][n] ELSE NoObject]
  IN /\ row' = [row EXCEPT ![on[c]] = kept]
     \* the objects of rows that have taken the place of those read
     /\ orphan' = orphan \union ((Of(row[on[c]]) \ Of(kept)) \ Of(copy[c]))

RemoveItem(c) ==
  /\ pc[c] = "remove" /\ Free /\ RemoveRows(c)
  /\ removing' = removing \union Of(copy[c])
  /\ UNCHANGED <<pool, group, post, stored, listed>> /\ End(c)

\* deleteGroupByCompany of a group that is not there returns at once.
NothingToDelete(c) ==
  /\ pc[c] = "findGroup" /\ Free /\ ~LiveGroup(on[c])
  /\ UNCHANGED <<pool, rowVars, post, storeVars>> /\ End(c)

FindGroup(c) ==
  /\ pc[c] = "findGroup" /\ Free /\ LiveGroup(on[c])
  /\ copy' = [copy EXCEPT ![c] = row[on[c]]]
  /\ Goto(c, "removeAll")
  /\ UNCHANGED <<pool, rowVars, post, storeVars, locks, on, at, first>>

RemoveItems(c) ==
  /\ pc[c] = "removeAll" /\ Free /\ RemoveRows(c) /\ Goto(c, "markGroup")
  /\ UNCHANGED <<pool, group, post, stored, removing, listed, locks, on, at, copy, first>>

\* Mutant of MarkGroup: the objects are not deleted.
MarkOnly(c) ==
  /\ pc[c] = "markGroup" /\ Free /\ groupLock[on[c]] = NoCall
  /\ group' = [group EXCEPT ![on[c]].status = "deleted"]
  /\ UNCHANGED <<pool, row, post, storeVars>> /\ End(c)

MarkGroup(c) ==
  /\ pc[c] = "markGroup" /\ Free /\ groupLock[on[c]] = NoCall
  /\ group' = [group EXCEPT ![on[c]].status = "deleted"]
  /\ removing' = removing \union Of(copy[c])
  /\ UNCHANGED <<pool, row, post, stored, listed, orphan>> /\ End(c)

\* bindGroupToReference: the entity found live is saved whole.
FindToBind(c) ==
  /\ pc[c] = "bind" /\ Free /\ LiveGroup(on[c]) /\ Goto(c, "saveGroup")
  /\ UNCHANGED <<pool, rowVars, post, storeVars, locks, on, at, copy, first>>

\* Mutant of SaveGroup: the group's own number is saved as its reference.
SaveOwnNo(c) ==
  /\ pc[c] = "saveGroup" /\ Free /\ groupLock[on[c]] = NoCall
  /\ group' = [group EXCEPT ![on[c]] = [status |-> "live", ref |-> on[c]]]
  /\ UNCHANGED <<pool, row, post, storeVars>> /\ End(c)

SaveGroup(c) ==
  /\ pc[c] = "saveGroup" /\ Free /\ groupLock[on[c]] = NoCall
  /\ group' = [group EXCEPT ![on[c]] = [status |-> "live", ref |-> at[c]]]
  /\ UNCHANGED <<pool, row, post, storeVars>> /\ End(c)

-----------------------------------------------------------------------------
(***************************************************************************)
(* The object store, reconcile and the end of the process.                 *)
(***************************************************************************)
Underway == UNION {Of(copy[c]) : c \in {d \in Calls : Uploading(d)}}

\* Mutant of ListObjects: the grace period is ignored.
ListAll == listed = {} /\ listed' = stored
           /\ UNCHANGED <<pool, rowVars, post, stored, removing, orphan, locks, callVars>>

\* reconcile lists the objects older than the grace period; no upload lasts
\* that long.
ListObjects ==
  /\ listed = {} /\ listed' \in SUBSET (stored \ Underway)
  /\ UNCHANGED <<pool, rowVars, post, stored, removing, orphan, locks, callVars>>

CompareRows ==
  /\ listed # {} /\ Free
  /\ removing' = removing \union (listed \ RowObjects)
  /\ listed' = {}
  /\ UNCHANGED <<pool, rowVars, post, stored, orphan, locks, callVars>>

DeleteObject(o) ==
  /\ o \in removing /\ removing' = removing \ {o}
  /\ stored' = stored \ {o}
  /\ orphan' = orphan \ {o}
  /\ UNCHANGED <<pool, rowVars, post, listed, locks, callVars>>

\* deleteObjectQuietly logs the failure.
DeleteFails(o) ==
  /\ o \in removing /\ removing' = removing \ {o}
  /\ orphan' = IF o \in stored THEN orphan \union {o} ELSE orphan
  /\ UNCHANGED <<pool, rowVars, post, stored, listed, locks, callVars>>

\* The process ends: every transaction is rolled back, every call forgotten.
Crash ==
  /\ pc' = [c \in Calls |-> "idle"]
  /\ on' = [c \in Calls |-> NoGroup]
  /\ at' = [c \in Calls |-> NoPost]
  /\ copy' = [c \in Calls |-> NoItems]
  /\ first' = [c \in Calls |-> 1]
  /\ groupLock' = [g \in Groups |-> NoCall]
  /\ postLock' = [p \in Posts |-> NoCall]
  /\ removing' = {} /\ listed' = {}
  /\ orphan' = stored \ RowObjects
  /\ UNCHANGED <<pool, rowVars, post, stored>>

AttachmentSteps(c) ==
  \/ LockGroup(c) \/ CheckUpload(c) \/ \E o \in Objects : StoreFile(c, o)
  \/ StoreFails(c) \/ CommitUpload(c) \/ RemoveItem(c)
  \/ NothingToDelete(c) \/ FindGroup(c) \/ RemoveItems(c) \/ MarkGroup(c)
  \/ FindToBind(c) \/ SaveGroup(c)
  \/ ConnectTimeout(c) \/ LockTimeout(c) \/ RefuseGroup(c)

AttachmentRequests(c) ==
  \E g \in Groups : \/ StartUpload(c, g) \/ StartNewGroup(c, g)
                    \/ \E n \in Numbers : FindItem(c, g, n)

StoreSteps ==
  \/ \E o \in Objects : DeleteObject(o) \/ DeleteFails(o)
  \/ ListObjects \/ CompareRows \/ Crash

AttachmentFaults(c) ==
  Fail(c) \/ \E o \in Objects : StoreUnanswered(c, o)
=============================================================================
