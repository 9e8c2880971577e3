---------------------- MODULE KnowledgeDocumentsProofs ----------------------
(***************************************************************************)
(* What KnowledgeDocuments promises for every number of requests, document *)
(* ids, files and every set of faults.                                     *)
(***************************************************************************)
EXTENDS KnowledgeDocuments, FiniteSetTheorems, TLAPS

-----------------------------------------------------------------------------
(* The inductive invariant.                                                *)

AtAny(t, pcs) == task[t].pc \in pcs

\* An upload before its row, one that may still index it, and one that has
\* an id at all; a deletion that has reserved the document.
Uncreated == {"put", "create"}
Indexer   == {"mark_indexing", "embed", "upsert", "mark_ready"}
Uploader  == Uncreated \cup {"undo"} \cup Indexer
Deleter   == {"delete_vectors", "delete_object", "delete_row"}
Referring == Uploader \cup Deleter \cup {"mark_deleting", "mark_failed"}

Reopened(t) == VectorId(task[t].file) \in reopened

\* A request names a document exactly from its uuid4, or its get, onwards.
TaskShape ==
    \A t \in Task :
        /\ At(t, "idle") \/ At(t, "find") => task[t].doc = None
        /\ At(t, "find") => task[t].file \in File
        /\ AtAny(t, Referring) => task[t].doc \in Document /\ task[t].file \in File

\* The unique constraint.
OneRowPerContent ==
    \A d, e \in Document :
        Exists(d) /\ Exists(e) /\ row[d].file.content = row[e].file.content => d = e

\* An id is never used for a second file while a request knows it.
FileIsTheRows ==
    \A t \in Task :
        AtAny(t, Referring \ Uncreated) /\ Exists(task[t].doc) =>
            row[task[t].doc].file = task[t].file

\* Nobody can refer to a document before its row is committed ...
NewIdIsPrivate ==
    \A t \in Task : AtAny(t, Uncreated) =>
        /\ ~Exists(task[t].doc)
        /\ \A u \in Task : task[u].doc = task[t].doc => u = t

\* ... and afterwards only deletions can.
OneUploader ==
    \A t, u \in Task :
        AtAny(t, Uploader) /\ AtAny(u, Uploader) /\ task[t].doc = task[u].doc => t = u

\* mark_deleting reserves the row until somebody else's mark_failed reopens it.
ReservedIsDeleting ==
    \A t \in Task : AtAny(t, Deleter) /\ ~Reopened(t) => Status(task[t].doc, {"deleting"})

UndoneIsNotIndexed ==
    \A t \in Task : At(t, "undo") => ~Status(task[t].doc, {"indexing", "ready"})

\* What an upload has stored and written so far is still there.
UploadIsComplete ==
    \A t \in Task :
        /\ At(t, "create") => task[t].doc \in objects
        /\ AtAny(t, Indexer) /\ Exists(task[t].doc) =>
              \/ Status(task[t].doc, {"deleting"})
              \/ Reopened(t)
              \/ /\ task[t].doc \in objects
                 /\ At(t, "mark_ready") => VectorId(task[t].file) \in vectors

\* mark_deleting reserves a document: of the deletions that have read the same
\* row only one cleans up, unless a mark_failed took it out of deleting meanwhile.
OneDeleter ==
    \A t, u \in Task :
        /\ {task[t].pc, task[u].pc} \subseteq {"delete_vectors", "delete_object", "delete_row"}
        /\ task[t].doc = task[u].doc
        /\ VectorId(task[t].file) \notin reopened
        => t = u

\* While an upload may still index its document, one deletion at most is past
\* its reservation, and only while the row is reserved or gone.
OneCleanupPerUpload ==
    \A t, u \in Task :
        /\ AtAny(t, Indexer) /\ AtAny(u, Deleter \cup {"mark_failed"})
        /\ task[t].doc = task[u].doc
        => /\ Exists(task[t].doc) => Status(task[t].doc, {"deleting"})
           /\ \A w \in Task :
                AtAny(w, Deleter \cup {"mark_failed"}) /\ task[w].doc = task[t].doc => w = u

\* The request that will take a document out of its transient status.
TransientIsOwned ==
    \A d \in Document \ lost :
        /\ Status(d, {"pending"}) => \E t \in Task : task[t].doc = d /\ At(t, "mark_indexing")
        /\ Status(d, {"indexing"}) => \E t \in Task :
              task[t].doc = d /\ AtAny(t, {"embed", "upsert", "mark_ready", "mark_failed"})
        /\ Status(d, {"deleting"}) => \E t \in Task :
              task[t].doc = d /\ AtAny(t, Deleter \cup {"mark_failed"})

ObjectIsOwned ==
    \A d \in objects \ lost :
        Exists(d) \/ \E t \in Task : task[t].doc = d /\ AtAny(t, {"create", "undo"})

\* The cleanup so far: the object is gone, and the vectors but those outrun.
CleanedUp ==
    \A t \in Task :
        /\ At(t, "delete_row") => task[t].doc \notin objects
        /\ AtAny(t, {"delete_object", "delete_row"}) /\ Exists(task[t].doc) =>
              VectorId(task[t].file) \notin vectors \ outrun

\* Every upload before its uuid4 will find an id of its own.
FreshIds == {d \in Document : Fresh(d)}
Finding  == {t \in Task : At(t, "find")}
EnoughIds == Cardinality(Finding) <= Cardinality(FreshIds)

DocumentsInv ==
    /\ TypeOK
    /\ TaskShape
    /\ OneRowPerContent
    /\ FileIsTheRows
    /\ NewIdIsPrivate
    /\ OneUploader
    /\ ReservedIsDeleting
    /\ OneDeleter
    /\ UndoneIsNotIndexed
    /\ UploadIsComplete
    /\ OneCleanupPerUpload
    /\ ReadyIsSearchable
    /\ TransientIsOwned
    /\ ObjectIsOwned
    /\ CleanedUp
    /\ OrphansAreOutrun
    /\ EnoughIds

-----------------------------------------------------------------------------
(* Fresh ids.                                                              *)

\* An upload that has found no duplicate gets an id of its own.
LEMMA IdIsFound ==
    ASSUME EnoughIds, NEW t \in Task, At(t, "find")
    PROVE  \E d \in Document : Fresh(d) /\ d = CHOOSE e \in Document : Fresh(e)
<1>1. IsFiniteSet(Finding) /\ IsFiniteSet(FreshIds)
  BY DocumentsAssumption, FS_Subset DEF Finding, FreshIds
<1>2. Finding # {}
  BY DEF Finding
<1>3. Cardinality(Finding) # 0 /\ Cardinality(Finding) \in Nat /\ Cardinality(FreshIds) \in Nat
  BY <1>1, <1>2, FS_CardinalityType, FS_EmptySet
<1>4. Cardinality(FreshIds) # 0
  BY <1>3 DEF EnoughIds
<1>5. FreshIds # {}
  BY <1>4, FS_EmptySet
<1> QED BY <1>5 DEF FreshIds

-----------------------------------------------------------------------------
(* What one step changes, entry by entry.                                  *)

\* The steps of one request.
Action(t) == \/ \E file \in File : StartUpload(t, file)
             \/ \E d \in Document : StartDelete(t, d)
             \/ Step(t)
             \/ Crash(t)

\* Requests: t alone moves, goes on to pc, begins there with a document, or ends.
OthersWait(t) == \A u \in Task \ {t} : task'[u] = task[u]

Moved(t, pc) == /\ OthersWait(t)
                /\ task'[t].pc = pc /\ task'[t].doc = task[t].doc /\ task'[t].file = task[t].file

Begun(t, pc, d, file) == /\ OthersWait(t)
                         /\ task'[t].pc = pc /\ task'[t].doc = d /\ task'[t].file = file

Ended(t) == /\ OthersWait(t)
            /\ task'[t].pc = "idle" /\ task'[t].doc = None

Statuses == {"pending", "indexing", "ready", "failed", "deleting"}

\* Rows: the one of d alone changes its status, is gone, or is made.
RowMoved(d, to) ==
    /\ \A e \in Document \ {d} : row'[e] = row[e]
    /\ row'[d] # None /\ row'[d].status = to /\ row'[d].file = row[d].file

RowGone(d) == /\ \A e \in Document \ {d} : row'[e] = row[e]
              /\ row'[d] = None

RowMade(d, file) == /\ \A e \in Document \ {d} : row'[e] = row[e]
                    /\ row'[d] # None /\ row'[d].status = "pending" /\ row'[d].file = file

USE DEF history, At, AtAny, Exists, Status, Maybe, Put, Unlink, Upsert, Discard, VectorId,
        Reopened, Duplicate, Indexable, Failable, Deletable,
        Uncreated, Indexer, Uploader, Deleter, Referring

\* A request goes on to another await, or ends.
LEMMA TaskMoves ==
    ASSUME TypeOK, NEW t \in Task
    PROVE  /\ \A pc : Goto(t, pc) => Moved(t, pc)
           /\ Done(t) => Ended(t)
  BY DEF TypeOK, Goto, Done, Idle, Moved, Ended, OthersWait

\* A request begins.
LEMMA TaskBegins ==
    ASSUME TypeOK, NEW t \in Task
    PROVE  /\ \A file : StartUpload(t, file) => Begun(t, "find", None, file)
           /\ \A d \in Document : StartDelete(t, d) => Begun(t, "mark_deleting", d, row[d].file)
  BY DEF TypeOK, StartUpload, StartDelete, Begun, OthersWait

\* An upload that is no duplicate gets a fresh id.
LEMMA TaskFinds ==
    ASSUME TypeOK, EnoughIds, NEW t \in Task, FindDuplicate(t)
    PROVE  /\ At(t, "find") /\ UNCHANGED <<row, objects, vectors, history>>
           /\ \/ Ended(t)
              \/ \E d \in Document : Fresh(d) /\ Begun(t, "put", d, task[t].file)
<1>1. ASSUME ~Done(t)
      PROVE  \E d \in Document : Fresh(d) /\ Begun(t, "put", d, task[t].file)
  <2>1. PICK d \in Document : Fresh(d) /\ d = CHOOSE e \in Document : Fresh(e)
    BY IdIsFound DEF FindDuplicate
  <2>2. task' = [task EXCEPT ![t] = [@ EXCEPT !.pc = "put", !.doc = d]]
    BY <1>1, <2>1 DEF FindDuplicate
  <2>3. Begun(t, "put", d, task[t].file)
    BY <2>2 DEF TypeOK, Begun, OthersWait
  <2> QED BY <2>1, <2>3
<1>2. At(t, "find") /\ UNCHANGED <<row, objects, vectors, history>>
  BY DEF FindDuplicate
<1> QED BY <1>1, <1>2, TaskMoves

\* A row is made, changes its status or is removed; its file never changes.
LEMMA RowMoves ==
    ASSUME TypeOK, NEW d \in Document
    PROVE  /\ \A to \in Statuses : Exists(d) /\ Transition(d, to) => RowMoved(d, to)
           /\ Remove(d) => Status(d, {"deleting"}) /\ RowGone(d)
           /\ \A file \in File : row' = [row EXCEPT ![d] = Pending(file)] => RowMade(d, file)
<1>1. ASSUME NEW to \in Statuses, Exists(d), Transition(d, to)  PROVE RowMoved(d, to)
  <2>1. row[d] \in Row /\ row' = [row EXCEPT ![d] = [@ EXCEPT !.status = to]]
    BY <1>1 DEF TypeOK, Transition
  <2>2. [row[d] EXCEPT !.status = to] \in Row
    BY <2>1 DEF Row, Statuses
  <2> QED BY <2>1, <2>2, NoneIsNoRow DEF TypeOK, Row, RowMoved
<1>2. ASSUME Remove(d)  PROVE Status(d, {"deleting"}) /\ RowGone(d)
  BY <1>2 DEF TypeOK, Remove, RowGone
<1>3. ASSUME NEW file \in File, row' = [row EXCEPT ![d] = Pending(file)]  PROVE RowMade(d, file)
  BY <1>3, NoneIsNoRow DEF TypeOK, Row, Pending, RowMade
<1> QED BY <1>1, <1>2, <1>3

USE DEF Moved, Begun, Ended, OthersWait, RowMoved, RowGone, RowMade, Statuses

-----------------------------------------------------------------------------
(* Types.                                                                  *)

Await == {"idle", "find"} \cup Referring

Request == [pc : Await, doc : Document \cup {None}, file : File \cup {None}]

\* The table of requests keeps its shape.
LEMMA TaskTyped ==
    ASSUME TypeOK, EnoughIds, NEW t \in Task, Action(t)
    PROVE  task' \in [Task -> Request]
<1> DEFINE Typed == task' \in [Task -> Request]
<1>0. task \in [Task -> Request]
  BY DEF TypeOK, Await, Request
<1>1. ASSUME NEW pc \in Await, Goto(t, pc)  PROVE Typed
  BY <1>0, <1>1 DEF Goto, Request
<1>2. ASSUME Done(t)  PROVE Typed
  BY <1>0, <1>2 DEF Done, Idle, Request, Await
<1>3. ASSUME NEW file \in File, StartUpload(t, file)  PROVE Typed
  BY <1>0, <1>3 DEF StartUpload, Request, Await
<1>4. ASSUME NEW d \in Document, StartDelete(t, d)  PROVE Typed
  BY <1>0, <1>4 DEF StartDelete, Request, Await, TypeOK, Row
<1>5. ASSUME FindDuplicate(t), ~Done(t)  PROVE Typed
  <2>1. PICK d \in Document : Fresh(d) /\ d = CHOOSE e \in Document : Fresh(e)
    BY <1>5, IdIsFound DEF FindDuplicate
  <2>2. task' = [task EXCEPT ![t] = [@ EXCEPT !.pc = "put", !.doc = d]]
    BY <1>5, <2>1 DEF FindDuplicate
  <2> QED BY <1>0, <2>2 DEF Request, Await
<1> SUFFICES Typed
  OBVIOUS
<1> HIDE DEF Typed
<1>6. ASSUME Step(t), ~FindDuplicate(t)  PROVE Done(t) \/ \E pc \in Await : Goto(t, pc)
  <2>1. ASSUME PutObject(t) \/ CreatePending(t) \/ UndoPut(t) \/ MarkIndexing(t) \/ Embed(t)
        PROVE  Done(t) \/ \E pc \in Await : Goto(t, pc)
    BY <2>1 DEF PutObject, CreatePending, UndoPut, MarkIndexing, Embed, Await
  <2>2. ASSUME UpsertVectors(t) \/ MarkReady(t) \/ MarkDeleting(t) \/ DeleteVectors(t)
        PROVE  Done(t) \/ \E pc \in Await : Goto(t, pc)
    BY <2>2 DEF UpsertVectors, MarkReady, MarkDeleting, DeleteVectors, Await
  <2>3. ASSUME DeleteObject(t) \/ DeleteRow(t) \/ MarkFailed(t)
        PROVE  Done(t) \/ \E pc \in Await : Goto(t, pc)
    BY <2>3 DEF DeleteObject, DeleteRow, MarkFailed, Await
  <2> QED BY <1>6, <2>1, <2>2, <2>3 DEF Step
<1>7. Crash(t) => Done(t)
  BY DEF Crash
<1> QED BY <1>1, <1>2, <1>3, <1>4, <1>5, <1>6, <1>7 DEF Action

\* The table of rows keeps its shape.
LEMMA RowTyped ==
    ASSUME TypeOK, TaskShape, EnoughIds, NEW t \in Task, Action(t)
    PROVE  row' \in [Document -> Row \cup {None}]
<1> DEFINE Typed == row' \in [Document -> Row \cup {None}]
<1>0. row \in [Document -> Row \cup {None}]
  BY DEF TypeOK
<1>1. ASSUME NEW d \in Document, NEW to \in Statuses, Exists(d), Transition(d, to)  PROVE Typed
  BY <1>0, <1>1 DEF Transition, Row
<1>2. ASSUME NEW d \in Document, Remove(d)  PROVE Typed
  BY <1>0, <1>2 DEF Remove
<1>3. ASSUME NEW d \in Document, NEW file \in File, row' = [row EXCEPT ![d] = Pending(file)]
      PROVE  Typed
  BY <1>0, <1>3 DEF Pending, Row
<1>4. ASSUME UNCHANGED row  PROVE Typed
  BY <1>0, <1>4
<1> SUFFICES Typed
  OBVIOUS
<1> HIDE DEF Typed
<1>5. CASE CreatePending(t)
  BY <1>3, <1>4, <1>5 DEF CreatePending, TaskShape
<1>6. CASE MarkIndexing(t)
  BY <1>1, <1>4, <1>6 DEF MarkIndexing, TaskShape
<1>7. CASE MarkReady(t)
  BY <1>1, <1>4, <1>7 DEF MarkReady, TaskShape
<1>8. CASE MarkDeleting(t)
  BY <1>1, <1>4, <1>8 DEF MarkDeleting, TaskShape
<1>9. CASE DeleteRow(t)
  BY <1>2, <1>4, <1>9 DEF DeleteRow, TaskShape
<1>10. CASE MarkFailed(t)
  BY <1>1, <1>4, <1>10 DEF MarkFailed, TaskShape
<1>11. CASE PutObject(t) \/ UndoPut(t) \/ Embed(t) \/ UpsertVectors(t) \/ DeleteVectors(t)
              \/ DeleteObject(t) \/ Crash(t)
  BY <1>4, <1>11 DEF PutObject, UndoPut, Embed, UpsertVectors, DeleteVectors, DeleteObject, Crash
<1>12. CASE FindDuplicate(t) \/ (\E file \in File : StartUpload(t, file))
              \/ \E d \in Document : StartDelete(t, d)
  BY <1>4, <1>12 DEF FindDuplicate, StartUpload, StartDelete
<1> QED BY <1>5, <1>6, <1>7, <1>8, <1>9, <1>10, <1>11, <1>12 DEF Action, Step

\* What is stored, and the history, speaks of documents and of files.
LEMMA StoresTyped ==
    ASSUME TypeOK, TaskShape, NEW t \in Task, Action(t)
    PROVE  /\ objects' \subseteq Document /\ lost' \subseteq Document
           /\ vectors' \subseteq Name \X Content
           /\ reopened' \subseteq Name \X Content /\ outrun' \subseteq Name \X Content
<1> DEFINE Typed == /\ objects' \subseteq Document /\ lost' \subseteq Document
                    /\ vectors' \subseteq Name \X Content
                    /\ reopened' \subseteq Name \X Content /\ outrun' \subseteq Name \X Content
<1>1. /\ objects \subseteq Document /\ lost \subseteq Document
      /\ vectors \subseteq Name \X Content
      /\ reopened \subseteq Name \X Content /\ outrun \subseteq Name \X Content
  BY DEF TypeOK
<1>2. \A d \in Document : Exists(d) => VectorId(row[d].file) \in Name \X Content
  BY DEF TypeOK, Row, File
<1>3. AtAny(t, Referring) => task[t].doc \in Document /\ VectorId(task[t].file) \in Name \X Content
  BY DEF TaskShape, File
<1>4. CASE PutObject(t) \/ CreatePending(t) \/ UndoPut(t) \/ MarkIndexing(t)
  BY <1>1, <1>3, <1>4 DEF PutObject, CreatePending, UndoPut, MarkIndexing
<1>5. CASE Embed(t) \/ UpsertVectors(t) \/ MarkReady(t)
  BY <1>1, <1>3, <1>5 DEF Embed, UpsertVectors, MarkReady
<1>6. CASE MarkDeleting(t) \/ DeleteVectors(t) \/ DeleteObject(t) \/ DeleteRow(t)
  BY <1>1, <1>3, <1>6 DEF MarkDeleting, DeleteVectors, DeleteObject, DeleteRow
<1>7. CASE MarkFailed(t)
  BY <1>1, <1>2, <1>3, <1>7 DEF MarkFailed
<1>8. CASE Crash(t)
  <2>1. task[t].doc \in Document
    BY <1>8 DEF TypeOK, Crash
  <2> QED BY <1>1, <1>8, <2>1 DEF Crash
<1>9. CASE FindDuplicate(t) \/ (\E file \in File : StartUpload(t, file))
              \/ \E d \in Document : StartDelete(t, d)
  BY <1>1, <1>9 DEF FindDuplicate, StartUpload, StartDelete
<1> QED BY <1>4, <1>5, <1>6, <1>7, <1>8, <1>9 DEF Action, Step

\* Every step preserves the types.
LEMMA TypeStep ==
    ASSUME TypeOK, TaskShape, EnoughIds, NEW t \in Task, Action(t)
    PROVE  TypeOK'
  BY TaskTyped, RowTyped, StoresTyped DEF TypeOK, Await, Request

-----------------------------------------------------------------------------
(* Enough ids.                                                             *)

\* No step but an upload's uuid4 uses up a fresh id, none but a new upload
\* waits for one.
LEMMA FreshStays ==
    ASSUME TypeOK, TaskShape, NEW t \in Task,
           Step(t) \/ Crash(t) \/ (\E d \in Document : StartDelete(t, d)), ~FindDuplicate(t)
    PROVE  FreshIds \subseteq FreshIds' /\ Finding' \subseteq Finding
<1> SUFFICES /\ \A d \in Document : Fresh(d) => Fresh(d)'
             /\ \A u \in Task : At(u, "find")' => At(u, "find")
  BY DEF FreshIds, Finding
<1>0. None \notin Document
  BY DocumentsAssumption
<1> USE <1>0 DEF Fresh, TaskShape
<1>1. CASE \E d \in Document : StartDelete(t, d)
  BY <1>1, TaskBegins DEF StartDelete
<1>2. CASE PutObject(t) \/ UndoPut(t) \/ Embed(t) \/ UpsertVectors(t) \/ DeleteVectors(t)
             \/ DeleteObject(t)
  BY <1>2, TaskMoves DEF PutObject, UndoPut, Embed, UpsertVectors, DeleteVectors, DeleteObject
<1>3. CASE Crash(t)
  BY <1>3, TaskMoves DEF Crash
<1>4. CASE CreatePending(t)
  BY <1>4, TaskMoves, RowMoves DEF CreatePending
<1>5. CASE MarkIndexing(t) \/ MarkReady(t)
  BY <1>5, TaskMoves, RowMoves DEF MarkIndexing, MarkReady
<1>6. CASE MarkDeleting(t)
  BY <1>6, TaskMoves, RowMoves DEF MarkDeleting
<1>7. CASE DeleteRow(t)
  BY <1>7, TaskMoves, RowMoves DEF DeleteRow
<1>8. CASE MarkFailed(t)
  BY <1>8, TaskMoves, RowMoves DEF MarkFailed
<1> QED BY <1>1, <1>2, <1>3, <1>4, <1>5, <1>6, <1>7, <1>8 DEF Step

\* StartUpload asks for one id more than the uploads before it wait for, and
\* FindDuplicate takes one id for itself.
LEMMA EnoughIdsStep ==
    ASSUME TypeOK, TaskShape, EnoughIds, NEW t \in Task, Action(t)
    PROVE  EnoughIds'
<1>1. /\ IsFiniteSet(Finding) /\ IsFiniteSet(FreshIds)
      /\ IsFiniteSet(Finding') /\ IsFiniteSet(FreshIds')
  BY DocumentsAssumption, FS_Subset DEF Finding, FreshIds
<1>2. /\ Cardinality(Finding) \in Nat /\ Cardinality(FreshIds) \in Nat
      /\ Cardinality(Finding') \in Nat /\ Cardinality(FreshIds') \in Nat
  BY <1>1, FS_CardinalityType
<1>3. CASE \E file \in File : StartUpload(t, file)
  <2>1. Cardinality(FreshIds) > Cardinality(Finding)
    BY <1>3 DEF StartUpload, FreshIds, Finding
  <2>2. FreshIds \subseteq FreshIds' /\ Finding' = Finding \cup {t}
    <3>1. Begun(t, "find", None, task'[t].file) /\ UNCHANGED <<row, objects>>
      BY <1>3, TaskBegins DEF StartUpload
    <3>2. \A d \in Document : Fresh(d) => Fresh(d)'
      BY <3>1, DocumentsAssumption DEF Fresh
    <3>3. \A u \in Task : At(u, "find")' <=> At(u, "find") \/ u = t
      BY <3>1
    <3> QED BY <3>2, <3>3 DEF FreshIds, Finding
  <2>3. Cardinality(Finding') <= Cardinality(Finding) + 1
    BY <1>1, <1>2, <2>2, FS_AddElement
  <2>4. Cardinality(FreshIds) <= Cardinality(FreshIds')
    BY <1>1, <2>2, FS_Subset
  <2> QED BY <1>2, <2>1, <2>3, <2>4 DEF EnoughIds
<1>4. CASE FindDuplicate(t)
  <2>1. t \in Finding /\ Finding' = Finding \ {t}
    BY <1>4, TaskFinds DEF Finding
  <2>2. \E d \in Document : FreshIds \ {d} \subseteq FreshIds'
    <3>1. CASE Ended(t)
      BY <1>4, <3>1, TaskFinds, IdIsFound, DocumentsAssumption DEF FreshIds, Fresh
    <3>2. ASSUME NEW d \in Document, Begun(t, "put", d, task[t].file)
          PROVE  FreshIds \ {d} \subseteq FreshIds'
      BY <1>4, <3>2, TaskFinds DEF FreshIds, Fresh
    <3> QED BY <1>4, <3>1, <3>2, TaskFinds
  <2>3. PICK d \in Document : FreshIds \ {d} \subseteq FreshIds'
    BY <2>2
  <2>4. IsFiniteSet(FreshIds \ {d}) /\ Cardinality(FreshIds) - 1 <= Cardinality(FreshIds \ {d})
    <3>1. CASE d \in FreshIds
      <4>1. /\ IsFiniteSet(FreshIds \ {d})
            /\ Cardinality(FreshIds \ {d}) = Cardinality(FreshIds) - 1
        BY <1>1, <3>1, FS_RemoveElement
      <4> QED BY <1>2, <4>1
    <3>2. CASE d \notin FreshIds
      <4>1. FreshIds \ {d} = FreshIds
        BY <3>2
      <4> QED BY <1>1, <1>2, <4>1
    <3> QED BY <3>1, <3>2
  <2>5. Cardinality(FreshIds \ {d}) <= Cardinality(FreshIds')
    BY <1>1, <2>3, FS_Subset
  <2>6. Cardinality(Finding') = Cardinality(Finding) - 1
    BY <1>1, <2>1, FS_RemoveElement
  <2>7. Cardinality(FreshIds \ {d}) \in Nat
    BY <2>4, FS_CardinalityType
  <2> QED BY <1>2, <2>4, <2>5, <2>6, <2>7 DEF EnoughIds
<1>5. CASE ~FindDuplicate(t) /\ ~\E file \in File : StartUpload(t, file)
  <2>1. FreshIds \subseteq FreshIds' /\ Finding' \subseteq Finding
    BY <1>5, FreshStays DEF Action
  <2>2. Cardinality(FreshIds) <= Cardinality(FreshIds') /\ Cardinality(Finding') <= Cardinality(Finding)
    BY <1>1, <2>1, FS_Subset
  <2> QED BY <1>2, <2>2 DEF EnoughIds
<1> QED BY <1>3, <1>4, <1>5

-----------------------------------------------------------------------------
(* Each part of the invariant, step by step.                               *)

\* A request names a document from its uuid4, or its get, to its end.
LEMMA TaskShapeStep ==
    ASSUME TypeOK, EnoughIds, TaskShape,
           NEW t \in Task, Action(t)
    PROVE  TaskShape'
<1> USE DEF TaskShape, Row
<1>1. \A d \in Document : Exists(d) => row[d].file \in File
  BY DEF TypeOK, Row
<1>2. CASE \E file \in File : StartUpload(t, file)
  BY <1>2, <1>1, DocumentsAssumption, TaskBegins DEF StartUpload
<1>3. CASE FindDuplicate(t)
  BY <1>3, <1>1, TaskFinds DEF Fresh
<1>4. CASE PutObject(t) \/ UndoPut(t) \/ Embed(t) \/ UpsertVectors(t)
    \/ DeleteVectors(t) \/ DeleteObject(t) \/ Crash(t)
  BY <1>4, <1>1, TaskMoves DEF PutObject, UndoPut, Embed, UpsertVectors,
      DeleteVectors, DeleteObject, Crash
<1>5. CASE MarkIndexing(t) \/ MarkReady(t)
  BY <1>5, <1>1, TaskMoves, RowMoves DEF MarkIndexing, MarkReady
<1>6. CASE MarkDeleting(t)
  BY <1>6, <1>1, TaskMoves, RowMoves DEF MarkDeleting
<1>7. CASE MarkFailed(t)
  BY <1>7, <1>1, TaskMoves, RowMoves DEF MarkFailed
<1>8. CASE CreatePending(t)
  BY <1>8, <1>1, TaskMoves, RowMoves DEF CreatePending
<1>9. CASE DeleteRow(t)
  BY <1>9, <1>1, TaskMoves, RowMoves DEF DeleteRow
<1>10. CASE \E d \in Document : StartDelete(t, d)
  BY <1>10, <1>1, TaskBegins DEF StartDelete
<1> QED BY <1>2, <1>3, <1>4, <1>5, <1>6, <1>7, <1>8, <1>9, <1>10 DEF Action, Step

\* A row is only made for a content no row has.
LEMMA OneRowPerContentStep ==
    ASSUME TypeOK, EnoughIds, OneRowPerContent, TaskShape,
           NEW t \in Task, Action(t)
    PROVE  OneRowPerContent'
<1> USE DEF OneRowPerContent, TaskShape
<1>1. CASE \E file \in File : StartUpload(t, file)
  BY <1>1, DocumentsAssumption, TaskBegins DEF StartUpload
<1>2. CASE FindDuplicate(t)
  BY <1>2, TaskFinds DEF Fresh
<1>3. CASE PutObject(t) \/ UndoPut(t) \/ Embed(t) \/ UpsertVectors(t)
    \/ DeleteVectors(t) \/ DeleteObject(t) \/ Crash(t)
  BY <1>3, TaskMoves DEF PutObject, UndoPut, Embed, UpsertVectors, DeleteVectors,
      DeleteObject, Crash
<1>4. CASE MarkIndexing(t) \/ MarkReady(t)
  BY <1>4, TaskMoves, RowMoves DEF MarkIndexing, MarkReady
<1>5. CASE MarkDeleting(t)
  BY <1>5, TaskMoves, RowMoves DEF MarkDeleting
<1>6. CASE MarkFailed(t)
  BY <1>6, TaskMoves, RowMoves DEF MarkFailed
<1>7. CASE CreatePending(t)
  BY <1>7, TaskMoves, RowMoves DEF CreatePending
<1>8. CASE DeleteRow(t)
  BY <1>8, TaskMoves, RowMoves DEF DeleteRow
<1>9. CASE \E d \in Document : StartDelete(t, d)
  BY <1>9, TaskBegins DEF StartDelete
<1> QED BY <1>1, <1>2, <1>3, <1>4, <1>5, <1>6, <1>7, <1>8, <1>9 DEF Action, Step

\* No id that a request knows gets a row for another file.
LEMMA FileIsTheRowsStep ==
    ASSUME TypeOK, EnoughIds, FileIsTheRows, TaskShape, NewIdIsPrivate,
           NEW t \in Task, Action(t)
    PROVE  FileIsTheRows'
<1> USE DEF FileIsTheRows, TaskShape, NewIdIsPrivate
<1>1. CASE \E file \in File : StartUpload(t, file)
  BY <1>1, DocumentsAssumption, TaskBegins DEF StartUpload
<1>2. CASE FindDuplicate(t)
  BY <1>2, TaskFinds DEF Fresh
<1>3. CASE PutObject(t) \/ UndoPut(t) \/ Embed(t) \/ UpsertVectors(t)
    \/ DeleteVectors(t) \/ DeleteObject(t) \/ Crash(t)
  BY <1>3, TaskMoves DEF PutObject, UndoPut, Embed, UpsertVectors, DeleteVectors,
      DeleteObject, Crash
<1>4. CASE MarkIndexing(t) \/ MarkReady(t)
  BY <1>4, TaskMoves, RowMoves DEF MarkIndexing, MarkReady
<1>5. CASE MarkDeleting(t)
  BY <1>5, TaskMoves, RowMoves DEF MarkDeleting
<1>6. CASE MarkFailed(t)
  BY <1>6, TaskMoves, RowMoves DEF MarkFailed
<1>7. CASE CreatePending(t)
  BY <1>7, TaskMoves, RowMoves DEF CreatePending
<1>8. CASE DeleteRow(t)
  BY <1>8, TaskMoves, RowMoves DEF DeleteRow
<1>9. CASE \E d \in Document : StartDelete(t, d)
  BY <1>9, TaskBegins DEF StartDelete
<1> QED BY <1>1, <1>2, <1>3, <1>4, <1>5, <1>6, <1>7, <1>8, <1>9 DEF Action, Step

\* An id stays its upload's own up to create_pending.
LEMMA NewIdIsPrivateStep ==
    ASSUME TypeOK, EnoughIds, NewIdIsPrivate, TaskShape,
           NEW t \in Task, Action(t)
    PROVE  NewIdIsPrivate'
<1> USE DEF NewIdIsPrivate, TaskShape
<1>1. CASE \E file \in File : StartUpload(t, file)
  BY <1>1, DocumentsAssumption, TaskBegins DEF StartUpload
<1>2. CASE FindDuplicate(t)
  BY <1>2, TaskFinds DEF Fresh
<1>3. CASE PutObject(t) \/ UndoPut(t) \/ Embed(t) \/ UpsertVectors(t)
    \/ DeleteVectors(t) \/ DeleteObject(t) \/ Crash(t)
  BY <1>3, DocumentsAssumption, TaskMoves DEF PutObject, UndoPut, Embed,
      UpsertVectors, DeleteVectors, DeleteObject, Crash
<1>4. CASE MarkIndexing(t) \/ MarkReady(t)
  BY <1>4, DocumentsAssumption, TaskMoves, RowMoves DEF MarkIndexing, MarkReady
<1>5. CASE MarkDeleting(t)
  BY <1>5, DocumentsAssumption, TaskMoves, RowMoves DEF MarkDeleting
<1>6. CASE MarkFailed(t)
  BY <1>6, DocumentsAssumption, TaskMoves, RowMoves DEF MarkFailed
<1>7. CASE CreatePending(t)
  BY <1>7, DocumentsAssumption, TaskMoves, RowMoves DEF CreatePending
<1>8. CASE DeleteRow(t)
  BY <1>8, DocumentsAssumption, TaskMoves, RowMoves DEF DeleteRow
<1>9. CASE \E d \in Document : StartDelete(t, d)
  BY <1>9, DocumentsAssumption, TaskBegins DEF StartDelete
<1> QED BY <1>1, <1>2, <1>3, <1>4, <1>5, <1>6, <1>7, <1>8, <1>9 DEF Action, Step

\* No second upload gets hold of an id.
LEMMA OneUploaderStep ==
    ASSUME TypeOK, EnoughIds, OneUploader,
           NEW t \in Task, Action(t)
    PROVE  OneUploader'
<1> USE DEF OneUploader
<1>1. CASE \E file \in File : StartUpload(t, file)
  BY <1>1, DocumentsAssumption, TaskBegins DEF StartUpload
<1>2. CASE FindDuplicate(t)
  BY <1>2, TaskFinds DEF Fresh
<1>3. CASE PutObject(t) \/ UndoPut(t) \/ Embed(t) \/ UpsertVectors(t)
    \/ DeleteVectors(t) \/ DeleteObject(t) \/ Crash(t)
  BY <1>3, TaskMoves DEF PutObject, UndoPut, Embed, UpsertVectors, DeleteVectors,
      DeleteObject, Crash
<1>4. CASE MarkIndexing(t) \/ MarkReady(t)
  BY <1>4, TaskMoves, RowMoves DEF MarkIndexing, MarkReady
<1>5. CASE MarkDeleting(t)
  BY <1>5, TaskMoves, RowMoves DEF MarkDeleting
<1>6. CASE MarkFailed(t)
  BY <1>6, TaskMoves, RowMoves DEF MarkFailed
<1>7. CASE CreatePending(t)
  BY <1>7, TaskMoves, RowMoves DEF CreatePending
<1>8. CASE DeleteRow(t)
  BY <1>8, TaskMoves, RowMoves DEF DeleteRow
<1>9. CASE \E d \in Document : StartDelete(t, d)
  BY <1>9, TaskBegins DEF StartDelete
<1> QED BY <1>1, <1>2, <1>3, <1>4, <1>5, <1>6, <1>7, <1>8, <1>9 DEF Action, Step

\* Only a mark_failed, or the deletion that reserved the row, takes a row out of
\* "deleting".
LEMMA ReservedIsDeletingStep ==
    ASSUME TypeOK, EnoughIds, ReservedIsDeleting, TaskShape, FileIsTheRows,
           NewIdIsPrivate, OneDeleter,
           NEW t \in Task, Action(t)
    PROVE  ReservedIsDeleting'
<1> USE DEF ReservedIsDeleting, TaskShape, FileIsTheRows, NewIdIsPrivate, OneDeleter
<1>1. CASE \E file \in File : StartUpload(t, file)
  BY <1>1, DocumentsAssumption, TaskBegins DEF StartUpload
<1>2. CASE FindDuplicate(t)
  BY <1>2, TaskFinds DEF Fresh
<1>3. CASE PutObject(t) \/ UndoPut(t) \/ Embed(t) \/ UpsertVectors(t)
    \/ DeleteVectors(t) \/ DeleteObject(t) \/ Crash(t)
  BY <1>3, TaskMoves DEF PutObject, UndoPut, Embed, UpsertVectors, DeleteVectors,
      DeleteObject, Crash
<1>4. CASE MarkIndexing(t) \/ MarkReady(t)
  BY <1>4, TaskMoves, RowMoves DEF MarkIndexing, MarkReady
<1>5. CASE MarkDeleting(t)
  BY <1>5, TaskMoves, RowMoves DEF MarkDeleting
<1>6. CASE MarkFailed(t)
  BY <1>6, TaskMoves, RowMoves DEF MarkFailed
<1>7. CASE CreatePending(t)
  BY <1>7, TaskMoves, RowMoves DEF CreatePending
<1>8. CASE DeleteRow(t)
  BY <1>8, TaskMoves, RowMoves DEF DeleteRow
<1>9. CASE \E d \in Document : StartDelete(t, d)
  BY <1>9, TaskBegins DEF StartDelete
<1> QED BY <1>1, <1>2, <1>3, <1>4, <1>5, <1>6, <1>7, <1>8, <1>9 DEF Action, Step

\* mark_deleting does not reserve what is reserved already.
LEMMA OneDeleterStep ==
    ASSUME TypeOK, EnoughIds, OneDeleter, TaskShape, ReservedIsDeleting, FileIsTheRows,
           NEW t \in Task, Action(t)
    PROVE  OneDeleter'
<1> USE DEF OneDeleter, TaskShape, ReservedIsDeleting, FileIsTheRows
<1>1. CASE \E file \in File : StartUpload(t, file)
  BY <1>1, DocumentsAssumption, TaskBegins DEF StartUpload
<1>2. CASE FindDuplicate(t)
  BY <1>2, TaskFinds DEF Fresh
<1>3. CASE PutObject(t) \/ UndoPut(t) \/ Embed(t) \/ UpsertVectors(t)
    \/ DeleteVectors(t) \/ DeleteObject(t) \/ Crash(t)
  BY <1>3, TaskMoves DEF PutObject, UndoPut, Embed, UpsertVectors, DeleteVectors,
      DeleteObject, Crash
<1>4. CASE MarkIndexing(t) \/ MarkReady(t)
  BY <1>4, TaskMoves, RowMoves DEF MarkIndexing, MarkReady
<1>5. CASE MarkDeleting(t)
  BY <1>5, TaskMoves, RowMoves DEF MarkDeleting
<1>6. CASE MarkFailed(t)
  BY <1>6, TaskMoves, RowMoves DEF MarkFailed
<1>7. CASE CreatePending(t)
  BY <1>7, TaskMoves, RowMoves DEF CreatePending
<1>8. CASE DeleteRow(t)
  BY <1>8, TaskMoves, RowMoves DEF DeleteRow
<1>9. CASE \E d \in Document : StartDelete(t, d)
  BY <1>9, TaskBegins DEF StartDelete
<1> QED BY <1>1, <1>2, <1>3, <1>4, <1>5, <1>6, <1>7, <1>8, <1>9 DEF Action, Step

\* Only the upload itself indexes its document, and this one has given up.
LEMMA UndoneIsNotIndexedStep ==
    ASSUME TypeOK, EnoughIds, UndoneIsNotIndexed, TaskShape, NewIdIsPrivate,
           OneUploader,
           NEW t \in Task, Action(t)
    PROVE  UndoneIsNotIndexed'
<1> USE DEF UndoneIsNotIndexed, TaskShape, NewIdIsPrivate, OneUploader
<1>1. CASE \E file \in File : StartUpload(t, file)
  BY <1>1, DocumentsAssumption, TaskBegins DEF StartUpload
<1>2. CASE FindDuplicate(t)
  BY <1>2, TaskFinds DEF Fresh
<1>3. CASE PutObject(t) \/ UndoPut(t) \/ Embed(t) \/ UpsertVectors(t)
    \/ DeleteVectors(t) \/ DeleteObject(t) \/ Crash(t)
  BY <1>3, TaskMoves DEF PutObject, UndoPut, Embed, UpsertVectors, DeleteVectors,
      DeleteObject, Crash
<1>4. CASE MarkIndexing(t) \/ MarkReady(t)
  BY <1>4, TaskMoves, RowMoves DEF MarkIndexing, MarkReady
<1>5. CASE MarkDeleting(t)
  BY <1>5, TaskMoves, RowMoves DEF MarkDeleting
<1>6. CASE MarkFailed(t)
  BY <1>6, TaskMoves, RowMoves DEF MarkFailed
<1>7. CASE CreatePending(t)
  BY <1>7, TaskMoves, RowMoves DEF CreatePending
<1>8. CASE DeleteRow(t)
  BY <1>8, TaskMoves, RowMoves DEF DeleteRow
<1>9. CASE \E d \in Document : StartDelete(t, d)
  BY <1>9, TaskBegins DEF StartDelete
<1> QED BY <1>1, <1>2, <1>3, <1>4, <1>5, <1>6, <1>7, <1>8, <1>9 DEF Action, Step

\* Whoever removes an object or vectors has reserved the only row that has them.
LEMMA UploadIsCompleteStep ==
    ASSUME TypeOK, EnoughIds, UploadIsComplete, TaskShape, NewIdIsPrivate,
           OneUploader, ReservedIsDeleting, FileIsTheRows, OneRowPerContent,
           NEW t \in Task, Action(t)
    PROVE  UploadIsComplete'
<1> USE DEF UploadIsComplete, TaskShape, NewIdIsPrivate, OneUploader,
            ReservedIsDeleting, FileIsTheRows, OneRowPerContent
<1>1. CASE \E file \in File : StartUpload(t, file)
  BY <1>1, DocumentsAssumption, TaskBegins DEF StartUpload
<1>2. CASE FindDuplicate(t)
  BY <1>2, TaskFinds DEF Fresh
<1>3. CASE PutObject(t) \/ UndoPut(t) \/ Embed(t) \/ UpsertVectors(t)
    \/ DeleteVectors(t) \/ DeleteObject(t) \/ Crash(t)
  BY <1>3, TaskMoves DEF PutObject, UndoPut, Embed, UpsertVectors, DeleteVectors,
      DeleteObject, Crash
<1>4. CASE MarkIndexing(t) \/ MarkReady(t)
  BY <1>4, TaskMoves, RowMoves DEF MarkIndexing, MarkReady
<1>5. CASE MarkDeleting(t)
  BY <1>5, TaskMoves, RowMoves DEF MarkDeleting
<1>6. CASE MarkFailed(t)
  BY <1>6, TaskMoves, RowMoves DEF MarkFailed
<1>7. CASE CreatePending(t)
  BY <1>7, TaskMoves, RowMoves DEF CreatePending
<1>8. CASE DeleteRow(t)
  BY <1>8, TaskMoves, RowMoves DEF DeleteRow
<1>9. CASE \E d \in Document : StartDelete(t, d)
  BY <1>9, TaskBegins DEF StartDelete
<1> QED BY <1>1, <1>2, <1>3, <1>4, <1>5, <1>6, <1>7, <1>8, <1>9 DEF Action, Step

\* A second deletion gets past its reservation only after the first has ended.
LEMMA OneCleanupPerUploadStep ==
    ASSUME TypeOK, EnoughIds, OneCleanupPerUpload, TaskShape, NewIdIsPrivate,
           OneUploader,
           NEW t \in Task, Action(t)
    PROVE  OneCleanupPerUpload'
<1> USE DEF OneCleanupPerUpload, TaskShape, NewIdIsPrivate, OneUploader
<1>1. CASE \E file \in File : StartUpload(t, file)
  BY <1>1, DocumentsAssumption, TaskBegins DEF StartUpload
<1>2. CASE FindDuplicate(t)
  BY <1>2, TaskFinds DEF Fresh
<1>3. CASE PutObject(t) \/ UndoPut(t) \/ Embed(t) \/ UpsertVectors(t)
    \/ DeleteVectors(t) \/ DeleteObject(t) \/ Crash(t)
  BY <1>3, TaskMoves DEF PutObject, UndoPut, Embed, UpsertVectors, DeleteVectors,
      DeleteObject, Crash
<1>4. CASE MarkIndexing(t) \/ MarkReady(t)
  BY <1>4, TaskMoves, RowMoves DEF MarkIndexing, MarkReady
<1>5. CASE MarkDeleting(t)
  BY <1>5, TaskMoves, RowMoves DEF MarkDeleting
<1>6. CASE MarkFailed(t)
  BY <1>6, TaskMoves, RowMoves DEF MarkFailed
<1>7. CASE CreatePending(t)
  BY <1>7, TaskMoves, RowMoves DEF CreatePending
<1>8. CASE DeleteRow(t)
  BY <1>8, TaskMoves, RowMoves DEF DeleteRow
<1>9. CASE \E d \in Document : StartDelete(t, d)
  BY <1>9, TaskBegins DEF StartDelete
<1> QED BY <1>1, <1>2, <1>3, <1>4, <1>5, <1>6, <1>7, <1>8, <1>9 DEF Action, Step

\* mark_ready finds the vectors and the object in place, and no deletion removes
\* those of a row it has not reserved.
LEMMA ReadyIsSearchableStep ==
    ASSUME TypeOK, EnoughIds, ReadyIsSearchable, TaskShape, UploadIsComplete,
           OneRowPerContent, ReservedIsDeleting, FileIsTheRows, UndoneIsNotIndexed,
           NEW t \in Task, Action(t)
    PROVE  ReadyIsSearchable'
<1> USE DEF ReadyIsSearchable, TaskShape, UploadIsComplete, OneRowPerContent,
            ReservedIsDeleting, FileIsTheRows, UndoneIsNotIndexed, Resolvable, Found
<1>1. CASE \E file \in File : StartUpload(t, file)
  BY <1>1, DocumentsAssumption, TaskBegins DEF StartUpload
<1>2. CASE FindDuplicate(t)
  BY <1>2, TaskFinds DEF Fresh
<1>3. CASE PutObject(t) \/ UndoPut(t) \/ Embed(t) \/ UpsertVectors(t)
    \/ DeleteVectors(t) \/ DeleteObject(t) \/ Crash(t)
  BY <1>3, DocumentsAssumption, TaskMoves DEF PutObject, UndoPut, Embed,
      UpsertVectors, DeleteVectors, DeleteObject, Crash
<1>4. CASE MarkIndexing(t) \/ MarkReady(t)
  BY <1>4, DocumentsAssumption, TaskMoves, RowMoves DEF MarkIndexing, MarkReady
<1>5. CASE MarkDeleting(t)
  BY <1>5, DocumentsAssumption, TaskMoves, RowMoves DEF MarkDeleting
<1>6. CASE MarkFailed(t)
  <2>1. reopened \subseteq reopened' /\ UNCHANGED <<objects, vectors>>
    BY <1>6 DEF MarkFailed
  <2>2. \A d \in Document : Status(d, {"ready"})' => row'[d] = row[d]
    BY <1>6, RowMoves DEF MarkFailed, TaskShape
  <2> QED BY <2>1, <2>2 DEF ReadyIsSearchable, Resolvable, Found
<1>7. CASE CreatePending(t)
  BY <1>7, DocumentsAssumption, TaskMoves, RowMoves DEF CreatePending
<1>8. CASE DeleteRow(t)
  BY <1>8, DocumentsAssumption, TaskMoves, RowMoves DEF DeleteRow
<1>9. CASE \E d \in Document : StartDelete(t, d)
  BY <1>9, DocumentsAssumption, TaskBegins DEF StartDelete
<1> QED BY <1>1, <1>2, <1>3, <1>4, <1>5, <1>6, <1>7, <1>8, <1>9 DEF Action, Step

\* Whoever takes a document into a transient status takes it out again.
LEMMA TransientIsOwnedStep ==
    ASSUME TypeOK, EnoughIds, TransientIsOwned, TaskShape,
           NEW t \in Task, Action(t)
    PROVE  TransientIsOwned'
<1> USE DEF TransientIsOwned, TaskShape
<1>1. CASE \E file \in File : StartUpload(t, file)
  BY <1>1, DocumentsAssumption, TaskBegins DEF StartUpload
<1>2. CASE FindDuplicate(t)
  BY <1>2, TaskFinds DEF Fresh
<1>3. CASE PutObject(t) \/ UndoPut(t) \/ Embed(t) \/ UpsertVectors(t)
    \/ DeleteVectors(t) \/ DeleteObject(t) \/ Crash(t)
  BY <1>3, TaskMoves DEF PutObject, UndoPut, Embed, UpsertVectors, DeleteVectors,
      DeleteObject, Crash
<1>4. CASE MarkIndexing(t) \/ MarkReady(t)
  BY <1>4, TaskMoves, RowMoves DEF MarkIndexing, MarkReady
<1>5. CASE MarkDeleting(t)
  BY <1>5, TaskMoves, RowMoves DEF MarkDeleting
<1>6. CASE MarkFailed(t)
  BY <1>6, TaskMoves, RowMoves DEF MarkFailed
<1>7. CASE CreatePending(t)
  BY <1>7, TaskMoves, RowMoves DEF CreatePending
<1>8. CASE DeleteRow(t)
  BY <1>8, TaskMoves, RowMoves DEF DeleteRow
<1>9. CASE \E d \in Document : StartDelete(t, d)
  BY <1>9, TaskBegins DEF StartDelete
<1> QED BY <1>1, <1>2, <1>3, <1>4, <1>5, <1>6, <1>7, <1>8, <1>9 DEF Action, Step

\* A row is only removed after its object, and an upload removes the object it
\* leaves without a row.
LEMMA ObjectIsOwnedStep ==
    ASSUME TypeOK, EnoughIds, ObjectIsOwned, TaskShape, CleanedUp,
           NEW t \in Task, Action(t)
    PROVE  ObjectIsOwned'
<1> USE DEF ObjectIsOwned, TaskShape, CleanedUp
<1>1. objects \subseteq Document
  BY DEF TypeOK
<1>2. CASE \E file \in File : StartUpload(t, file)
  BY <1>2, <1>1, DocumentsAssumption, TaskBegins DEF StartUpload
<1>3. CASE FindDuplicate(t)
  BY <1>3, <1>1, TaskFinds DEF Fresh
<1>4. CASE PutObject(t) \/ UndoPut(t) \/ Embed(t) \/ UpsertVectors(t)
    \/ DeleteVectors(t) \/ DeleteObject(t) \/ Crash(t)
  BY <1>4, <1>1, DocumentsAssumption, TaskMoves DEF PutObject, UndoPut, Embed,
      UpsertVectors, DeleteVectors, DeleteObject, Crash
<1>5. CASE MarkIndexing(t) \/ MarkReady(t)
  BY <1>5, <1>1, DocumentsAssumption, TaskMoves, RowMoves DEF MarkIndexing, MarkReady
<1>6. CASE MarkDeleting(t)
  BY <1>6, <1>1, DocumentsAssumption, TaskMoves, RowMoves DEF MarkDeleting
<1>7. CASE MarkFailed(t)
  BY <1>7, <1>1, DocumentsAssumption, TaskMoves, RowMoves DEF MarkFailed
<1>8. CASE CreatePending(t)
  BY <1>8, <1>1, DocumentsAssumption, TaskMoves, RowMoves DEF CreatePending
<1>9. CASE DeleteRow(t)
  <2>1. \A d \in Document \ {task[t].doc} : row'[d] = row[d] /\ (d \in lost => d \in
      lost')
    BY <1>9, RowMoves DEF DeleteRow, TaskShape
  <2>2. task[t].doc \notin objects /\ UNCHANGED objects
    BY <1>9 DEF DeleteRow, CleanedUp
  <2>3. OthersWait(t) /\ At(t, "delete_row")
    BY <1>9, TaskMoves DEF DeleteRow
  <2> QED BY <1>1, <2>1, <2>2, <2>3 DEF ObjectIsOwned
<1>10. CASE \E d \in Document : StartDelete(t, d)
  BY <1>10, <1>1, DocumentsAssumption, TaskBegins DEF StartDelete
<1> QED BY <1>2, <1>3, <1>4, <1>5, <1>6, <1>7, <1>8, <1>9, <1>10 DEF Action, Step

\* An upload that writes vectors after the cleanup has been outrun by it.
LEMMA CleanedUpStep ==
    ASSUME TypeOK, EnoughIds, CleanedUp, TaskShape, NewIdIsPrivate,
           OneCleanupPerUpload, OneRowPerContent, FileIsTheRows,
           NEW t \in Task, Action(t)
    PROVE  CleanedUp'
<1> USE DEF CleanedUp, TaskShape, NewIdIsPrivate, OneCleanupPerUpload,
            OneRowPerContent, FileIsTheRows
<1>1. CASE \E file \in File : StartUpload(t, file)
  BY <1>1, DocumentsAssumption, TaskBegins DEF StartUpload
<1>2. CASE FindDuplicate(t)
  BY <1>2, TaskFinds DEF Fresh
<1>3. CASE PutObject(t) \/ UndoPut(t) \/ Embed(t) \/ Crash(t)
  BY <1>3, TaskMoves DEF PutObject, UndoPut, Embed, Crash
<1>4. CASE UpsertVectors(t)
  BY <1>4, TaskMoves DEF UpsertVectors
<1>5. CASE DeleteVectors(t)
  BY <1>5, TaskMoves DEF DeleteVectors
<1>6. CASE DeleteObject(t)
  BY <1>6, TaskMoves DEF DeleteObject
<1>7. CASE MarkIndexing(t) \/ MarkReady(t)
  BY <1>7, TaskMoves, RowMoves DEF MarkIndexing, MarkReady
<1>8. CASE MarkDeleting(t)
  BY <1>8, TaskMoves, RowMoves DEF MarkDeleting
<1>9. CASE MarkFailed(t)
  BY <1>9, TaskMoves, RowMoves DEF MarkFailed
<1>10. CASE CreatePending(t)
  BY <1>10, TaskMoves, RowMoves DEF CreatePending
<1>11. CASE DeleteRow(t)
  BY <1>11, TaskMoves, RowMoves DEF DeleteRow
<1>12. CASE \E d \in Document : StartDelete(t, d)
  BY <1>12, TaskBegins DEF StartDelete
<1> QED BY <1>1, <1>2, <1>3, <1>4, <1>5, <1>6, <1>7, <1>8, <1>9, <1>10, <1>11, <1>12
    DEF Action, Step

\* A row is only removed after its vectors.
LEMMA OrphansAreOutrunStep ==
    ASSUME TypeOK, EnoughIds, OrphansAreOutrun, TaskShape, CleanedUp, FileIsTheRows,
           NewIdIsPrivate,
           NEW t \in Task, Action(t)
    PROVE  OrphansAreOutrun'
<1> USE DEF OrphansAreOutrun, TaskShape, CleanedUp, FileIsTheRows, NewIdIsPrivate
<1>1. CASE \E file \in File : StartUpload(t, file)
  BY <1>1, DocumentsAssumption, TaskBegins DEF StartUpload
<1>2. CASE FindDuplicate(t)
  BY <1>2, TaskFinds DEF Fresh
<1>3. CASE PutObject(t) \/ UndoPut(t) \/ Embed(t) \/ UpsertVectors(t)
    \/ DeleteVectors(t) \/ DeleteObject(t) \/ Crash(t)
  BY <1>3, TaskMoves DEF PutObject, UndoPut, Embed, UpsertVectors, DeleteVectors,
      DeleteObject, Crash
<1>4. CASE MarkIndexing(t) \/ MarkReady(t)
  BY <1>4, TaskMoves, RowMoves DEF MarkIndexing, MarkReady
<1>5. CASE MarkDeleting(t)
  BY <1>5, TaskMoves, RowMoves DEF MarkDeleting
<1>6. CASE MarkFailed(t)
  BY <1>6, TaskMoves, RowMoves DEF MarkFailed
<1>7. CASE CreatePending(t)
  BY <1>7, TaskMoves, RowMoves DEF CreatePending
<1>8. CASE DeleteRow(t)
  BY <1>8, TaskMoves, RowMoves DEF DeleteRow
<1>9. CASE \E d \in Document : StartDelete(t, d)
  BY <1>9, TaskBegins DEF StartDelete
<1> QED BY <1>1, <1>2, <1>3, <1>4, <1>5, <1>6, <1>7, <1>8, <1>9 DEF Action, Step

-----------------------------------------------------------------------------
(* The theorems.                                                           *)

\* Before any request there is nothing to relate.
LEMMA InitInv == Init => DocumentsInv
<1> SUFFICES ASSUME Init  PROVE DocumentsInv
  OBVIOUS
<1> USE DEF Init, Idle
<1>1. TypeOK
  BY DEF TypeOK
<1>2. TaskShape /\ FileIsTheRows /\ NewIdIsPrivate /\ OneUploader /\ ReservedIsDeleting
  BY DEF TaskShape, FileIsTheRows, NewIdIsPrivate, OneUploader, ReservedIsDeleting
<1>3. OneDeleter /\ UndoneIsNotIndexed /\ UploadIsComplete /\ OneCleanupPerUpload /\ CleanedUp
  BY DEF OneDeleter, UndoneIsNotIndexed, UploadIsComplete, OneCleanupPerUpload, CleanedUp
<1>4. OneRowPerContent /\ ReadyIsSearchable /\ TransientIsOwned /\ ObjectIsOwned /\ OrphansAreOutrun
  BY DEF OneRowPerContent, ReadyIsSearchable, Resolvable, TransientIsOwned, ObjectIsOwned,
         OrphansAreOutrun
<1>5. EnoughIds
  <2>1. Finding = {} /\ IsFiniteSet(FreshIds)
    BY DocumentsAssumption, FS_Subset DEF Finding, FreshIds
  <2>2. Cardinality(Finding) = 0 /\ Cardinality(FreshIds) \in Nat
    BY <2>1, FS_EmptySet, FS_CardinalityType
  <2> QED BY <2>2 DEF EnoughIds
<1> QED BY <1>1, <1>2, <1>3, <1>4, <1>5 DEF DocumentsInv

\* Every step of every request preserves it.
LEMMA StepInv ==
    ASSUME DocumentsInv, NEW t \in Task, Action(t)
    PROVE  DocumentsInv'
<1> USE DEF DocumentsInv
<1>1. TypeOK' /\ EnoughIds' /\ TaskShape'
  BY TypeStep, EnoughIdsStep, TaskShapeStep
<1>2. OneRowPerContent' /\ FileIsTheRows' /\ NewIdIsPrivate' /\ OneUploader'
  BY OneRowPerContentStep, FileIsTheRowsStep, NewIdIsPrivateStep, OneUploaderStep
<1>3. ReservedIsDeleting' /\ OneDeleter' /\ UndoneIsNotIndexed' /\ UploadIsComplete'
  BY ReservedIsDeletingStep, OneDeleterStep, UndoneIsNotIndexedStep, UploadIsCompleteStep
<1>4. OneCleanupPerUpload' /\ ReadyIsSearchable' /\ TransientIsOwned' /\ ObjectIsOwned'
  BY OneCleanupPerUploadStep, ReadyIsSearchableStep, TransientIsOwnedStep, ObjectIsOwnedStep
<1>5. CleanedUp' /\ OrphansAreOutrun'
  BY CleanedUpStep, OrphansAreOutrunStep
<1> QED BY <1>1, <1>2, <1>3, <1>4, <1>5

\* A step that changes nothing preserves it.
LEMMA StutterInv == DocumentsInv /\ UNCHANGED vars => DocumentsInv'
<1> SUFFICES ASSUME DocumentsInv, UNCHANGED vars  PROVE DocumentsInv'
  OBVIOUS
<1> USE DEF DocumentsInv, vars
<1>1. TypeOK' /\ TaskShape' /\ OneRowPerContent' /\ FileIsTheRows' /\ NewIdIsPrivate' /\ OneUploader'
  BY DEF TypeOK, TaskShape, OneRowPerContent, FileIsTheRows, NewIdIsPrivate, OneUploader
<1>2. ReservedIsDeleting' /\ OneDeleter' /\ UndoneIsNotIndexed' /\ UploadIsComplete'
  BY DEF ReservedIsDeleting, OneDeleter, UndoneIsNotIndexed, UploadIsComplete
<1>3. OneCleanupPerUpload' /\ ReadyIsSearchable' /\ TransientIsOwned' /\ ObjectIsOwned'
  BY DEF OneCleanupPerUpload, ReadyIsSearchable, Resolvable, Found, TransientIsOwned, ObjectIsOwned
<1>4. CleanedUp' /\ OrphansAreOutrun' /\ EnoughIds'
  BY DEF CleanedUp, OrphansAreOutrun, EnoughIds, Finding, FreshIds, Fresh
<1> QED BY <1>1, <1>2, <1>3, <1>4

\* The inductive invariant: requests, rows, objects and vectors fit together
\* in every state of every upload and deletion.
THEOREM Invariance == Spec => []DocumentsInv
<1>1. DocumentsInv /\ [Next]_vars => DocumentsInv'
  BY StepInv, StutterInv DEF Next, Action
<1> QED BY InitInv, <1>1, PTL DEF Spec

\* Every variable keeps its type.
THEOREM TypeCorrect == Spec => []TypeOK
<1>1. DocumentsInv => TypeOK
  BY DEF DocumentsInv
<1> QED BY Invariance, <1>1, PTL

\* A document that resolve_vector_document_ids accepts can be found by a search
\* and has its source object, unless its deletion was reopened midway.
THEOREM Searchable == Spec => []ReadyIsSearchable
<1>1. DocumentsInv => ReadyIsSearchable
  BY DEF DocumentsInv
<1> QED BY Invariance, <1>1, PTL

\* No two requests leave a document pending, indexing or deleting between them:
\* only a failed call or a crash does.
THEOREM NoneLeftBehind == Spec => []TransientHasOwner
<1>1. DocumentsInv => TransientHasOwner
  BY DEF DocumentsInv, TransientIsOwned, TransientHasOwner
<1> QED BY Invariance, <1>1, PTL

\* A stored object belongs to a row or to the upload that stored it.
THEOREM NoObjectLeftBehind == Spec => []ObjectHasOwner
<1>1. DocumentsInv => ObjectHasOwner
  BY DEF DocumentsInv, TypeOK, ObjectIsOwned, ObjectHasOwner
<1> QED BY Invariance, <1>1, PTL

\* The only vectors without a row are those an upload wrote after its row had
\* left "indexing".
THEOREM NoOtherOrphans == Spec => []OrphansAreOutrun
<1>1. DocumentsInv => OrphansAreOutrun
  BY DEF DocumentsInv
<1> QED BY Invariance, <1>1, PTL
=============================================================================
