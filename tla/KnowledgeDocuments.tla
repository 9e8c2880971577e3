------------------------- MODULE KnowledgeDocuments -------------------------
(***************************************************************************)
(* KnowledgeDocumentService (services/knowledge/management.py): uploads,   *)
(* deletions and scoped searches of one tenant's private documents.  A     *)
(* document is a row in PostgreSQL, a source object in the document        *)
(* storage and vectors in Milvus; no transaction spans the three.          *)
(*                                                                         *)
(* pc names the await a request is about to perform.  An indexing job      *)
(* writes its vectors in one upsert (DocumentIndexing shows that it does). *)
(***************************************************************************)
EXTENDS Naturals, FiniteSets

CONSTANTS
    Task,       \* HTTP requests in progress at once
    Document,   \* document ids (uuid4); one that nothing refers to is fresh
    Name,       \* filenames
    Content,    \* normalized contents, as told apart by their SHA-256
    None,       \* no row, no document
    Fault       \* which of AnyFault the environment may do

AnyFault == {"postgres",  \* a transaction raises
             "storage",   \* the document storage raises
             "vectors",   \* Milvus or the embedding provider raises
             "crash"}     \* the process serving a request dies

ASSUME DocumentsAssumption == /\ None \notin Document
                              /\ Fault \subseteq AnyFault
                              /\ IsFiniteSet(Task) /\ IsFiniteSet(Document)

VARIABLES
    row,       \* document id -> knowledge_documents row
    objects,   \* the document ids under whose storage key an object is stored
    vectors,   \* the vector document ids Milvus holds vectors of
    task,      \* what each request is doing
    reopened,  \* history: vector ids of rows a mark_failed took out of "deleting"
    outrun,    \* history: vector ids written for a row no longer being indexed
    lost       \* history: documents a failed call or a crash left behind

vars == <<row, objects, vectors, task, reopened, outrun, lost>>

history == <<reopened, outrun, lost>>

-----------------------------------------------------------------------------
File == [name : Name, content : Content]

\* Mutant: the filename is left out.
VectorIdOfContent(file) == <<file.content>>

\* create_private_document: the digest of (tenant, filename, content), so that
\* the same file uploaded again has the same vector document id.
VectorId(file) == <<file.name, file.content>>

Row == [status : {"pending", "indexing", "ready", "failed", "deleting"}, file : File]

ASSUME NoneIsNoRow == None \notin Row

Pending(file) == [status |-> "pending", file |-> file]

Exists(d)     == row[d] # None
Status(d, ss) == Exists(d) /\ row[d].status \in ss

\* get_by_content_sha256, and the unique constraint on (tenant, content).
Duplicate(file) == \E d \in Document : Exists(d) /\ row[d].file.content = file.content

Idle == [pc |-> "idle", doc |-> None, file |-> None]

At(t, pc) == task[t].pc = pc

Goto(t, pc) == task' = [task EXCEPT ![t].pc = pc]
Done(t)     == task' = [task EXCEPT ![t] = Idle]

\* No row and no request has this id, and no object is stored under it.
Fresh(d) == /\ ~Exists(d) /\ d \notin objects
            /\ \A t \in Task : task[t].doc # d

\* resolve_vector_document_ids: a research run may be scoped to d.
Resolvable(d) == Status(d, {"ready"})

\* What a search scoped to some vector document ids can find.
Found(scope) == vectors \cap scope

Init == /\ row = [d \in Document |-> None]
        /\ objects = {}
        /\ vectors = {}
        /\ task = [t \in Task |-> Idle]
        /\ reopened = {}
        /\ outrun = {}
        /\ lost = {}

-----------------------------------------------------------------------------
(* The stores.  A call that raises may have been applied, or not.          *)

\* KnowledgeDocumentRepository._transition: UPDATE ... WHERE status IN (...).
Transition(d, to) == row' = [row EXCEPT ![d].status = to]

\* delete_marked: DELETE ... WHERE status = 'deleting'.
Remove(d) == Status(d, {"deleting"}) /\ row' = [row EXCEPT ![d] = None]

Put(d)     == objects' = objects \cup {d}
Unlink(d)  == objects' = objects \ {d}
Upsert(v)  == vectors' = vectors \cup {v}
Discard(v) == vectors' = vectors \ {v}

Maybe(change, unchanged) == change \/ unchanged

\* Mutants: an indexing document cannot fail; a deletion can be started twice.
FailableIfDeleting == {"pending", "deleting"}
DeletableAgain == {"pending", "indexing", "ready", "failed", "deleting"}

\* The statuses each transition starts from.
Indexable == {"pending", "failed"}
Failable  == {"pending", "indexing", "deleting"}
Deletable == {"pending", "indexing", "ready", "failed"}

-----------------------------------------------------------------------------
(* upload.                                                                 *)

\* upload_document, after _parse_document accepted the file.  The model bounds
\* the uploads by the ids it has left.
StartUpload(t, file) ==
    /\ At(t, "idle")
    /\ Cardinality({d \in Document : Fresh(d)}) > Cardinality({u \in Task : At(u, "find")})
    /\ task' = [task EXCEPT ![t] = [pc |-> "find", doc |-> None, file |-> file]]
    /\ UNCHANGED <<row, objects, vectors, history>>

\* find_by_content_sha256: 409 for a duplicate, else uuid4.
FindDuplicate(t) ==
    /\ At(t, "find")
    /\ IF Duplicate(task[t].file) THEN Done(t)
       ELSE task' = [task EXCEPT ![t] =
              [@ EXCEPT !.pc = "put", !.doc = CHOOSE d \in Document : Fresh(d)]]
    /\ UNCHANGED <<row, objects, vectors, history>>

\* storage.put.  Nothing removes what a failed put has stored.
PutObject(t) ==
    LET d == task[t].doc IN
    /\ At(t, "put")
    /\ \/ Put(d) /\ Goto(t, "create") /\ UNCHANGED lost
       \/ /\ "storage" \in Fault
          /\ \/ Put(d) /\ lost' = lost \cup {d}
             \/ UNCHANGED <<objects, lost>>
          /\ Done(t)
    /\ UNCHANGED <<row, vectors, reopened, outrun>>

\* create_pending.  Any exception, the unique constraint's among them, removes
\* the object again, also when the commit did succeed.
CreatePending(t) ==
    LET d == task[t].doc
        Create == row' = [row EXCEPT ![d] = Pending(task[t].file)]
    IN
    /\ At(t, "create")
    /\ \/ ~Duplicate(task[t].file) /\ Create /\ Goto(t, "mark_indexing") /\ UNCHANGED lost
       \/ Duplicate(task[t].file) /\ Goto(t, "undo") /\ UNCHANGED <<row, lost>>
       \/ /\ "postgres" \in Fault
          /\ \/ ~Duplicate(task[t].file) /\ Create /\ lost' = lost \cup {d}
             \/ UNCHANGED <<row, lost>>
          /\ Goto(t, "undo")
    /\ UNCHANGED <<objects, vectors, reopened, outrun>>

\* Mutant: the object of a duplicate is left.
UndoPutNever(t) == /\ At(t, "undo") /\ Done(t)
                   /\ UNCHANGED <<row, objects, vectors, history>>

UndoPut(t) ==
    LET d == task[t].doc IN
    /\ At(t, "undo")
    /\ \/ Unlink(d) /\ UNCHANGED lost
       \/ /\ "storage" \in Fault
          /\ \/ Unlink(d) /\ UNCHANGED lost
             \/ lost' = lost \cup {d} /\ UNCHANGED objects
    /\ Done(t)
    /\ UNCHANGED <<row, vectors, reopened, outrun>>

\* mark_indexing, outside the try block: its exception ends the upload.
MarkIndexing(t) ==
    LET d == task[t].doc IN
    /\ At(t, "mark_indexing")
    /\ \/ Status(d, Indexable) /\ Transition(d, "indexing") /\ Goto(t, "embed")
          /\ UNCHANGED lost
       \/ ~Status(d, Indexable) /\ Done(t) /\ UNCHANGED <<row, lost>>
       \/ /\ "postgres" \in Fault
          /\ Maybe(Status(d, Indexable) /\ Transition(d, "indexing"), UNCHANGED row)
          /\ Done(t)
          /\ lost' = lost \cup {d}
    /\ UNCHANGED <<objects, vectors, reopened, outrun>>

\* index_document: the embeddings of every chunk, then one upsert.
Embed(t) ==
    /\ At(t, "embed")
    /\ \/ Goto(t, "upsert")
       \/ "vectors" \in Fault /\ Goto(t, "mark_failed")
    /\ UNCHANGED <<row, objects, vectors, history>>

UpsertVectors(t) ==
    LET v == VectorId(task[t].file) IN
    /\ At(t, "upsert")
    /\ \/ Upsert(v) /\ Goto(t, "mark_ready")
       \/ /\ "vectors" \in Fault
          /\ Maybe(Upsert(v), UNCHANGED vectors)
          /\ Goto(t, "mark_failed")
    /\ outrun' = IF Status(task[t].doc, {"indexing"}) THEN outrun ELSE outrun \cup {v}
    /\ UNCHANGED <<row, objects, reopened, lost>>

MarkReady(t) ==
    LET d == task[t].doc IN
    /\ At(t, "mark_ready")
    /\ \/ Status(d, {"indexing"}) /\ Transition(d, "ready") /\ UNCHANGED lost
       \/ ~Status(d, {"indexing"}) /\ UNCHANGED <<row, lost>>
       \/ /\ "postgres" \in Fault
          /\ Maybe(Status(d, {"indexing"}) /\ Transition(d, "ready"), UNCHANGED row)
          /\ lost' = lost \cup {d}
    /\ Done(t)
    /\ UNCHANGED <<objects, vectors, reopened, outrun>>

-----------------------------------------------------------------------------
(* delete.                                                                 *)

\* delete_document and the get: 404, or the row it will clean up after.
StartDelete(t, d) ==
    /\ At(t, "idle")
    /\ Exists(d)
    /\ task' = [task EXCEPT ![t] =
                  [pc |-> "mark_deleting", doc |-> d, file |-> row[d].file]]
    /\ UNCHANGED <<row, objects, vectors, history>>

\* mark_deleting, outside the try block.
MarkDeleting(t) ==
    LET d == task[t].doc IN
    /\ At(t, "mark_deleting")
    /\ \/ /\ Status(d, Deletable)
          /\ Transition(d, "deleting") /\ Goto(t, "delete_vectors") /\ UNCHANGED lost
       \/ ~Status(d, Deletable) /\ Done(t) /\ UNCHANGED <<row, lost>>
       \/ /\ "postgres" \in Fault
          /\ \/ Status(d, Deletable) /\ Transition(d, "deleting") /\ lost' = lost \cup {d}
             \/ UNCHANGED <<row, lost>>
          /\ Done(t)
    /\ UNCHANGED <<objects, vectors, reopened, outrun>>

\* Mutant: a failed cleanup of the vectors does not stop the deletion.
DeleteVectorsIfPossible(t) ==
    LET v == VectorId(task[t].file) IN
    /\ At(t, "delete_vectors")
    /\ Maybe(Discard(v), UNCHANGED vectors)
    /\ Goto(t, "delete_object")
    /\ UNCHANGED <<row, objects, history>>

DeleteVectors(t) ==
    LET v == VectorId(task[t].file) IN
    /\ At(t, "delete_vectors")
    /\ \/ Discard(v) /\ Goto(t, "delete_object")
       \/ /\ "vectors" \in Fault
          /\ Maybe(Discard(v), UNCHANGED vectors)
          /\ Goto(t, "mark_failed")
    /\ UNCHANGED <<row, objects, history>>

DeleteObject(t) ==
    LET d == task[t].doc IN
    /\ At(t, "delete_object")
    /\ \/ Unlink(d) /\ Goto(t, "delete_row")
       \/ /\ "storage" \in Fault
          /\ Maybe(Unlink(d), UNCHANGED objects)
          /\ Goto(t, "mark_failed")
    /\ UNCHANGED <<row, vectors, history>>

DeleteRow(t) ==
    LET d == task[t].doc IN
    /\ At(t, "delete_row")
    /\ \/ Remove(d) /\ Done(t)
       \/ ~Status(d, {"deleting"}) /\ Goto(t, "mark_failed") /\ UNCHANGED row
       \/ /\ "postgres" \in Fault
          /\ Maybe(Remove(d), UNCHANGED row)
          /\ Goto(t, "mark_failed")
    /\ lost' = IF row'[d] = None THEN lost \ {d} ELSE lost
    /\ UNCHANGED <<objects, vectors, reopened, outrun>>

-----------------------------------------------------------------------------
(* Failures.                                                               *)

\* _mark_failed swallows every exception: one after the transition is as good
\* as none, one before it leaves the row as it is.
MarkFailed(t) ==
    LET d == task[t].doc IN
    /\ At(t, "mark_failed")
    /\ \/ /\ Status(d, Failable)
          /\ Transition(d, "failed")
          /\ reopened' = IF Status(d, {"deleting"})
                         THEN reopened \cup {VectorId(row[d].file)} ELSE reopened
          /\ UNCHANGED lost
       \/ ~Status(d, Failable) /\ UNCHANGED <<row, reopened, lost>>
       \/ /\ "postgres" \in Fault
          /\ Status(d, Failable) /\ lost' = lost \cup {d}
          /\ UNCHANGED <<row, reopened>>
    /\ Done(t)
    /\ UNCHANGED <<objects, vectors, outrun>>

\* Also a CancelledError: neither except clause catches it.
Crash(t) ==
    /\ "crash" \in Fault
    /\ task[t].doc # None
    /\ lost' = IF Exists(task[t].doc) \/ task[t].doc \in objects
               THEN lost \cup {task[t].doc} ELSE lost
    /\ Done(t)
    /\ UNCHANGED <<row, objects, vectors, reopened, outrun>>

-----------------------------------------------------------------------------
Step(t) == \/ FindDuplicate(t) \/ PutObject(t) \/ CreatePending(t) \/ UndoPut(t)
           \/ MarkIndexing(t) \/ Embed(t) \/ UpsertVectors(t) \/ MarkReady(t)
           \/ MarkDeleting(t) \/ DeleteVectors(t) \/ DeleteObject(t) \/ DeleteRow(t)
           \/ MarkFailed(t)

Next == \E t \in Task :
          \/ \E file \in File : StartUpload(t, file)
          \/ \E d \in Document : StartDelete(t, d)
          \/ Step(t)
          \/ Crash(t)

Spec == Init /\ [][Next]_vars

-----------------------------------------------------------------------------
(* Properties.                                                             *)

TypeOK ==
    /\ row \in [Document -> Row \cup {None}]
    /\ objects \subseteq Document
    /\ vectors \subseteq Name \X Content
    /\ task \in [Task ->
          [pc : {"idle", "find", "put", "create", "undo", "mark_indexing", "embed",
                 "upsert", "mark_ready", "mark_deleting", "delete_vectors",
                 "delete_object", "delete_row", "mark_failed"},
           doc : Document \cup {None}, file : File \cup {None}]]
    /\ reopened \subseteq Name \X Content
    /\ outrun \subseteq Name \X Content
    /\ lost \subseteq Document

\* A ready document has its vectors and its source object, whatever uploads and
\* deletions go on beside it, unless a mark_failed took a row of the same file
\* out of deleting (ScopedIsSearchable shows what comes of that).
ReadyIsSearchable ==
    \A d \in Document :
        Resolvable(d) /\ VectorId(row[d].file) \notin reopened =>
            /\ Found({VectorId(row[d].file)}) # {}
            /\ d \in objects

\* A document is pending, indexing or deleting only while a request works on
\* it, or after a call failed or a process died: none is left there by two
\* requests getting in each other's way.
TransientHasOwner ==
    \A d \in Document :
        Status(d, {"pending", "indexing", "deleting"}) /\ d \notin lost =>
            \E t \in Task : task[t].doc = d

\* A stored object belongs to a row or to the upload that stored it, unless a
\* call failed or a process died.
ObjectHasOwner ==
    \A d \in objects \ lost : Exists(d) \/ \E t \in Task : task[t].doc = d

\* Vectors of a document that is gone remain only where its upload wrote them
\* after its row had left "indexing".
OrphansAreOutrun ==
    \A v \in vectors \ outrun :
        \E d \in Document : Exists(d) /\ VectorId(row[d].file) = v

\* "Every ID must belong to this tenant and have finished indexing, so a
\* research request can never be scoped to a document it can't actually search"
\* (management.py:222).
ScopedIsSearchable ==
    \A d \in Document : Resolvable(d) => Found({VectorId(row[d].file)}) # {}
=============================================================================
