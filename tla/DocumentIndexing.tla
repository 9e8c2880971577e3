-------------------------- MODULE DocumentIndexing --------------------------
(***************************************************************************)
(* KnowledgeIndexer.index_document (services/knowledge/indexing.py): one   *)
(* document is cut into overlapping chunks (chunking.py), embedded batch   *)
(* by batch and written with one upsert to the Milvus collection, which    *)
(* the process's MilvusVectorStore creates and loads on first use.         *)
(*                                                                         *)
(* A chunk is the range of words it holds; an embedding is known by the    *)
(* chunk whose text it was made from.                                      *)
(***************************************************************************)
EXTENDS Integers, Sequences, SequencesExt, FiniteSets

CONSTANTS
    Job,        \* indexing jobs that share one vector store
    MaxWords,   \* bound on the words of a document
    ChunkWords, \* KnowledgeIndexer's max_words
    Overlap,    \* its overlap_words
    BatchSize,  \* its embedding_batch_size
    None        \* nobody

ASSUME IndexingAssumption ==
    /\ MaxWords \in Nat \ {0} /\ ChunkWords \in Nat \ {0} /\ BatchSize \in Nat \ {0}
    /\ Overlap \in 0 .. ChunkWords - 1
    /\ None \notin Job

VARIABLES
    collection,   \* the Milvus collection
    initialized,  \* _initialized
    initLock,     \* who holds _initialize_lock
    stored,       \* the rows of the collection
    job           \* what each indexing job is doing

vars == <<collection, initialized, initLock, stored, job>>

-----------------------------------------------------------------------------
(* chunk_document.                                                         *)

Advance == ChunkWords - Overlap     \* step

\* The chunk at a position, counted from 0: words first .. last - 1.
ChunkAt(words, p) ==
    [position |-> p,
     first    |-> p * Advance,
     last     |-> IF p * Advance + ChunkWords < words THEN p * Advance + ChunkWords
                  ELSE words]

\* Mutant: the loop runs over every start.
EndsAtLastStart(words, p) == (p + 1) * Advance >= words

\* The loop ends with the first chunk that reaches the last word.
EndsAt(words, p) == ChunkAt(words, p).last = words

Chunks(words) ==
    LET positions == {p \in 0 .. words - 1 : \A q \in 0 .. p - 1 : ~EndsAt(words, q)}
    IN  [n \in 1 .. Cardinality(positions) |-> ChunkAt(words, n - 1)]

-----------------------------------------------------------------------------
NotStarted == [pc |-> "idle", words |-> 0, vectors |-> <<>>]

At(j, pc)   == job[j].pc = pc
Goto(j, pc) == job' = [job EXCEPT ![j].pc = pc]
Fail(j)     == Goto(j, "failed")

ChunksOf(j) == Chunks(job[j].words)

\* Mutant: the next batch begins one chunk early.
BatchAgain(j) ==
    LET done == Len(job[j].vectors)
        all  == Len(ChunksOf(j))
    IN  SubSeq(ChunksOf(j), IF done = 0 THEN 1 ELSE done,
               IF done = 0 THEN IF BatchSize < all THEN BatchSize ELSE all
               ELSE IF done + BatchSize - 1 < all THEN done + BatchSize - 1 ELSE all - 1)

\* chunks[batch_start : batch_start + embedding_batch_size]
Batch(j) ==
    LET done == Len(job[j].vectors)
        all  == Len(ChunksOf(j))
    IN  SubSeq(ChunksOf(j), done + 1, IF done + BatchSize < all THEN done + BatchSize ELSE all)

\* embed_texts: one vector per text, in the order of the texts ...
Embedded(texts) == texts

\* ... or, from a provider that misbehaves, not as many: indexing fails.
WrongCount(vectors, texts) == Len(vectors) # Len(texts)

\* zip(chunks, embeddings, strict=True), one row per chunk; chunk_id, the
\* primary key, stands for document and position.
Row(j, n) == [document |-> j, chunk |-> ChunksOf(j)[n], embedding |-> job[j].vectors[n]]
Rows(j)   == {Row(j, n) : n \in DOMAIN ChunksOf(j)}

Init == /\ collection = "absent"
        /\ initialized = FALSE
        /\ initLock = None
        /\ stored = {}
        /\ job = [j \in Job |-> NotStarted]

-----------------------------------------------------------------------------
\* index_document on a document of some words (never none: the content is not
\* blank).
Start(j, words) ==
    /\ At(j, "idle")
    /\ job' = [job EXCEPT ![j] = [@ EXCEPT !.pc = "embed", !.words = words]]
    /\ UNCHANGED <<collection, initialized, initLock, stored>>

\* embeddings.extend: on to the store with the last batch.
Extend(j, vectors) ==
    job' = [job EXCEPT ![j] =
       [@ EXCEPT !.vectors = job[j].vectors \o vectors,
                 !.pc = IF Len(job[j].vectors) + Len(vectors) = Len(ChunksOf(j))
                        THEN "initialize" ELSE "embed"]]

\* Mutant: each batch is written at once.
EmbedBatchStoring(j) ==
    /\ At(j, "embed")
    /\ \/ /\ Extend(j, Batch(j))
          /\ stored' = stored \cup {[document |-> j, chunk |-> c, embedding |-> c] :
                                      c \in ToSet(Batch(j))}
       \/ Fail(j) /\ UNCHANGED stored
    /\ UNCHANGED <<collection, initialized, initLock>>

EmbedBatch(j) ==
    /\ At(j, "embed")
    /\ \E vectors \in {Embedded(Batch(j)), <<>>} :
          IF WrongCount(vectors, Batch(j)) THEN Fail(j) ELSE Extend(j, vectors)
    /\ UNCHANGED <<collection, initialized, initLock, stored>>

-----------------------------------------------------------------------------
(* MilvusVectorStore.initialize: double-checked under an asyncio.Lock.     *)

\* Mutant: without the lock.
LockNobody(j) ==
    /\ At(j, "initialize")
    /\ Goto(j, IF initialized THEN "upsert" ELSE "has_collection")
    /\ UNCHANGED <<collection, initialized, initLock, stored>>

Lock(j) ==
    /\ At(j, "initialize")
    /\ \/ initialized /\ Goto(j, "upsert") /\ UNCHANGED initLock
       \/ /\ ~initialized /\ initLock = None
          /\ initLock' = j
          /\ Goto(j, "has_collection")
    /\ UNCHANGED <<collection, initialized, stored>>

Unlock(j, pc) == initLock' = None /\ Goto(j, pc)

\* The second look, and has_collection.
HasCollection(j) ==
    /\ At(j, "has_collection")
    /\ \/ initialized /\ Unlock(j, "upsert")
       \/ ~initialized /\ collection = "absent" /\ Goto(j, "create") /\ UNCHANGED initLock
       \/ ~initialized /\ collection # "absent" /\ Goto(j, "load") /\ UNCHANGED initLock
       \/ Unlock(j, "failed")
    /\ UNCHANGED <<collection, initialized, stored>>

\* create_collection raises when another process has created it meanwhile.
Create(j) ==
    /\ At(j, "create")
    /\ \/ /\ collection = "absent" /\ collection' = "created"
          /\ Goto(j, "load") /\ UNCHANGED initLock
       \/ /\ collection' \in IF collection = "absent" THEN {"absent", "created"}
                            ELSE {collection}
          /\ Unlock(j, "failed")
    /\ UNCHANGED <<initialized, stored>>

Load(j) ==
    /\ At(j, "load")
    /\ \/ collection' = "loaded" /\ initialized' = TRUE /\ Unlock(j, "upsert")
       \/ collection' \in {collection, "loaded"} /\ Unlock(j, "failed") /\ UNCHANGED initialized
    /\ UNCHANGED stored

\* One request with every row of the document.
Upsert(j) ==
    /\ At(j, "upsert")
    /\ \/ stored' = stored \cup Rows(j) /\ Goto(j, "done")
       \/ stored' \in {stored, stored \cup Rows(j)} /\ Fail(j)
    /\ UNCHANGED <<collection, initialized, initLock>>

\* Another process of the deployment (an API worker, mcp_server.py) has a
\* MilvusVectorStore of its own.
CreateElsewhere ==
    /\ \/ collection = "absent" /\ collection' = "created"
       \/ collection = "created" /\ collection' = "loaded"
    /\ UNCHANGED <<initialized, initLock, stored, job>>

Next == \/ \E j \in Job :
              \/ \E words \in 1 .. MaxWords : Start(j, words)
              \/ EmbedBatch(j) \/ Lock(j) \/ HasCollection(j) \/ Create(j) \/ Load(j)
              \/ Upsert(j)
        \/ CreateElsewhere

Spec == Init /\ [][Next]_vars

-----------------------------------------------------------------------------
(* Properties.                                                             *)

RowsOf(j) == {row \in stored : row.document = j}

\* An indexed document can be found by every word of it: each is in a stored
\* chunk, and each chunk's vector was made from that chunk.
EveryWordIndexed ==
    \A j \in Job : At(j, "done") =>
        /\ \A w \in 0 .. job[j].words - 1 : \E row \in RowsOf(j) :
              w \in row.chunk.first .. row.chunk.last - 1
        /\ \A row \in RowsOf(j) : row.embedding = row.chunk

\* "Index one document without partial vector writes" (indexing.py:62): whatever
\* fails, none or all of a document's rows are in the collection.
NoPartialWrites ==
    \A j \in Job : RowsOf(j) # {} =>
        /\ job[j].pc \in {"done", "failed"}
        /\ Cardinality(RowsOf(j)) = Len(ChunksOf(j))

\* Neighbouring chunks share overlap_words words, and no chunk only repeats
\* words of the one before.
ChunksOverlap ==
    \A j \in Job : \A n \in 1 .. Len(ChunksOf(j)) - 1 :
        /\ ChunksOf(j)[n].last - ChunksOf(j)[n + 1].first = Overlap
        /\ ChunksOf(j)[n].last < ChunksOf(j)[n + 1].last

\* "Create and load the collection once" (milvus.py:156): the jobs of a process
\* never race to create it, and none writes before it is loaded.
CollectionReadyOnce ==
    /\ \A i, j \in Job : At(i, "create") /\ At(j, "create") => i = j
    /\ \A j \in Job : At(j, "upsert") => collection = "loaded"
=============================================================================
