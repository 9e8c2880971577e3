----------------------- MODULE DocumentIndexingProofs -----------------------
(***************************************************************************)
(* What KnowledgeIndexer and its vector store promise for every number of  *)
(* jobs, every length of a document and every size of chunk and batch.     *)
(***************************************************************************)
EXTENDS DocumentIndexing, FiniteSetTheorems, FunctionTheorems, SequenceTheorems, TLAPS

-----------------------------------------------------------------------------
(* chunk_document.                                                         *)

\* What a loop that stops at the first of something has passed is counted by it.
LEMMA InitialSegment ==
    ASSUME NEW n \in Nat, NEW P \in SUBSET (0 .. n - 1), \A p \in P : 0 .. p \subseteq P
    PROVE  Cardinality(P) \in Nat /\ Cardinality(P) <= n /\ P = 0 .. Cardinality(P) - 1
<1> DEFINE k == Cardinality(P)
<1>1. IsFiniteSet(0 .. n - 1) /\ Cardinality(0 .. n - 1) = n
  BY FS_Interval
<1>2. IsFiniteSet(P) /\ k <= n
  BY <1>1, FS_Subset
<1>3. k \in Nat
  BY <1>2, FS_CardinalityType
<1>4. P \subseteq 0 .. k - 1
  <2> SUFFICES ASSUME NEW p \in P PROVE p \in 0 .. k - 1
    OBVIOUS
  <2>1. p \in Nat /\ 0 .. p \in SUBSET P
    OBVIOUS
  <2>2. Cardinality(0 .. p) <= k
    BY <1>2, <2>1, FS_Subset
  <2>3. Cardinality(0 .. p) = p + 1
    BY <2>1, FS_Interval
  <2> QED BY <1>3, <2>1, <2>2, <2>3
<1>5. IsFiniteSet(0 .. k - 1) /\ Cardinality(0 .. k - 1) = k
  BY <1>3, FS_Interval
<1>6. P = 0 .. k - 1
  BY <1>4, <1>5, FS_Subset
<1> QED BY <1>2, <1>3, <1>6

\* The step and the size of a chunk.
LEMMA Sizes ==
    /\ Advance \in Nat \ {0} /\ ChunkWords \in Nat /\ Advance <= ChunkWords
    /\ Overlap = ChunkWords - Advance
    /\ \A p \in Nat : /\ p * Advance \in Nat /\ p <= p * Advance
                      /\ (p + 1) * Advance = p * Advance + Advance
<1>1. /\ Advance \in Nat \ {0} /\ ChunkWords \in Nat /\ Advance <= ChunkWords
      /\ Overlap = ChunkWords - Advance
  BY IndexingAssumption DEF Advance
<1>2. ASSUME NEW a \in Nat \ {0}, NEW p \in Nat
      PROVE  p * a \in Nat /\ p <= p * a /\ (p + 1) * a = p * a + a
  OBVIOUS
<1> QED BY <1>1, <1>2

\* The positions of the loop, the last of which reaches the last word.
LEMMA ChunksOfWords ==
    ASSUME NEW words \in Nat \ {0}
    PROVE  \E k \in Nat \ {0} :
              /\ Chunks(words) = [n \in 1 .. k |-> ChunkAt(words, n - 1)]
              /\ \A p \in 0 .. k - 2 : ~EndsAt(words, p)
              /\ EndsAt(words, k - 1)
<1> DEFINE P == {p \in 0 .. words - 1 : \A q \in 0 .. p - 1 : ~EndsAt(words, q)}
           k == Cardinality(P)
<1>1. k \in Nat /\ k <= words /\ P = 0 .. k - 1
  <2>1. P \in SUBSET (0 .. words - 1)
    OBVIOUS
  <2>2. \A p \in P : 0 .. p \subseteq P
    OBVIOUS
  <2> HIDE DEF P
  <2> QED BY <2>1, <2>2, InitialSegment
<1>2. /\ 0 \in P
      /\ \A p \in 0 .. words - 1 : p \in P <=> \A q \in 0 .. p - 1 : ~EndsAt(words, q)
  OBVIOUS
<1>7. Chunks(words) = [n \in 1 .. k |-> ChunkAt(words, n - 1)]
  BY DEF Chunks
<1> HIDE DEF P, k
<1>3. k # 0
  BY <1>1, <1>2
<1>4. \A p \in 0 .. k - 2 : ~EndsAt(words, p)
  <2>1. k - 1 \in P /\ k - 1 \in 0 .. words - 1
    BY <1>1, <1>3
  <2> QED BY <1>1, <1>2, <2>1
<1>5. EndsAt(words, words - 1)
  <2>1. (words - 1) * Advance \in Nat /\ words - 1 <= (words - 1) * Advance /\ ChunkWords \in Nat \ {0}
    BY Sizes, IndexingAssumption
  <2> QED BY <2>1 DEF EndsAt, ChunkAt
<1>6. EndsAt(words, k - 1)
  <2> SUFFICES ASSUME ~EndsAt(words, k - 1) PROVE FALSE
    OBVIOUS
  <2>1. k # words
    BY <1>5
  <2>2. k \in 0 .. words - 1 /\ \A q \in 0 .. k - 1 : ~EndsAt(words, q)
    BY <1>1, <1>4, <2>1
  <2>3. k \in P
    BY <1>2, <2>2
  <2> QED BY <1>1, <2>3
<1> QED BY <1>1, <1>3, <1>4, <1>6, <1>7

\* A chunk is a range of words.
Chunk == [position : Nat, first : Nat, last : Nat]

\* Chunks of a document: one after the other, each reaching Overlap words into the next.
LEMMA ChunksAre ==
    ASSUME NEW words \in Nat \ {0}, NEW chunks, chunks = Chunks(words)
    PROVE  /\ chunks \in Seq(Chunk) /\ Len(chunks) \in Nat \ {0}
           /\ DOMAIN chunks = 1 .. Len(chunks)
           /\ \A n \in 1 .. Len(chunks) : chunks[n].position = n - 1
           /\ \A n \in 1 .. Len(chunks) - 1 :
                 /\ chunks[n].last - chunks[n + 1].first = Overlap
                 /\ chunks[n].last < chunks[n + 1].last
<1>1. PICK k \in Nat \ {0} : /\ chunks = [n \in 1 .. k |-> ChunkAt(words, n - 1)]
                             /\ \A p \in 0 .. k - 2 : ~EndsAt(words, p)
                             /\ EndsAt(words, k - 1)
  BY ChunksOfWords
<1>2. \A p \in Nat : ChunkAt(words, p) \in Chunk /\ ChunkAt(words, p).position = p
  BY Sizes DEF ChunkAt, Chunk
<1>3. chunks \in Seq(Chunk) /\ Len(chunks) = k /\ DOMAIN chunks = 1 .. k
  BY <1>1, <1>2
<1>4. ASSUME NEW n \in 1 .. k - 1
      PROVE  /\ chunks[n].last - chunks[n + 1].first = Overlap
             /\ chunks[n].last < chunks[n + 1].last
  <2> DEFINE a == (n - 1) * Advance
             b == n * Advance
  <2>1. a \in Nat /\ b \in Nat /\ b = a + Advance
    BY Sizes, n - 1 \in Nat, (n - 1) + 1 = n
  <2>2. ~EndsAt(words, n - 1)
    BY <1>1
  <2>3. chunks[n] = ChunkAt(words, n - 1) /\ chunks[n + 1] = ChunkAt(words, n)
    BY <1>1
  <2>4. chunks[n].last = IF a + ChunkWords < words THEN a + ChunkWords ELSE words
    BY <2>3 DEF ChunkAt
  <2>5. chunks[n + 1].first = b
           /\ chunks[n + 1].last = IF b + ChunkWords < words THEN b + ChunkWords ELSE words
    BY <2>3 DEF ChunkAt
  <2>6. chunks[n].last # words
    BY <2>2, <2>3 DEF EndsAt
  <2> HIDE DEF a, b
  <2> QED BY <2>1, <2>4, <2>5, <2>6, Sizes
<1>5. \A n \in 1 .. k : chunks[n].position = n - 1
  BY <1>1, <1>2
<1> QED BY <1>3, <1>4, <1>5

\* Every word of a document is in a chunk of it.
LEMMA EveryWordInAChunk ==
    ASSUME NEW words \in Nat \ {0}, NEW w \in 0 .. words - 1
    PROVE  \E n \in DOMAIN Chunks(words) :
              w \in Chunks(words)[n].first .. Chunks(words)[n].last - 1
<1> DEFINE chunks == Chunks(words)
<1>1. PICK k \in Nat \ {0} : /\ chunks = [n \in 1 .. k |-> ChunkAt(words, n - 1)]
                             /\ \A p \in 0 .. k - 2 : ~EndsAt(words, p)
                             /\ EndsAt(words, k - 1)
  BY ChunksOfWords
<1> HIDE DEF chunks
<1> DEFINE P == {p \in 0 .. k - 1 : p * Advance <= w}
           m == Cardinality(P) - 1
<1>2. ASSUME NEW p \in P, NEW q \in 0 .. p  PROVE q \in P
  <2>1. ASSUME NEW a \in Nat, NEW x \in Nat, NEW y \in 0 .. x  PROVE y * a <= x * a
    OBVIOUS
  <2>2. q * Advance <= p * Advance /\ q * Advance \in Nat /\ p * Advance \in Nat
    BY <2>1, Sizes
  <2> QED BY <2>2
<1>3. Cardinality(P) \in Nat /\ Cardinality(P) <= k /\ P = 0 .. m
  <2>1. P \in SUBSET (0 .. k - 1) /\ \A p \in P : 0 .. p \subseteq P
    BY <1>2
  <2> HIDE DEF P
  <2> QED BY <2>1, InitialSegment
<1>4. 0 \in P
  BY Sizes
<1>5. m \in 0 .. k - 1 /\ m \in P /\ m + 1 \notin P
  BY <1>3, <1>4
<1> HIDE DEF m
<1>6. m * Advance <= w /\ (m = k - 1 \/ w < m * Advance + Advance)
  <2>1. (m + 1) * Advance = m * Advance + Advance /\ m * Advance \in Nat /\ Advance \in Nat
    BY <1>5, Sizes
  <2> QED BY <1>5, <2>1
<1>7. chunks[m + 1] = ChunkAt(words, m) /\ m + 1 \in DOMAIN chunks
  BY <1>1, <1>5
<1>8. w < ChunkAt(words, m).last
  <2>1. CASE m = k - 1
    BY <1>1, <2>1 DEF EndsAt
  <2>2. CASE m # k - 1 /\ w < m * Advance + Advance
    <3>1. ~EndsAt(words, m)
      BY <1>1, <1>5, <2>2
    <3>2. m * Advance \in Nat
      BY <1>5, Sizes
    <3> QED BY <2>2, <3>1, <3>2, Sizes DEF EndsAt, ChunkAt
  <2> QED BY <1>6, <2>1, <2>2
<1>9. w \in chunks[m + 1].first .. chunks[m + 1].last - 1
  <2>1. m * Advance \in Nat
    BY <1>5, Sizes
  <2> QED BY <1>6, <1>7, <1>8, <2>1, Sizes DEF ChunkAt
<1> QED BY <1>7, <1>9 DEF chunks

-----------------------------------------------------------------------------
(* The inductive invariant.                                                *)

Steps == {"idle", "embed", "initialize", "has_collection", "create", "load", "upsert",
          "done", "failed"}

JobState == [pc : Steps, words : Nat, vectors : Seq(Chunk)]

TypeOK ==
    /\ collection \in {"absent", "created", "loaded"}
    /\ initialized \in BOOLEAN
    /\ job \in [Job -> JobState]

\* The embeddings of a job are those of its first chunks, in their order, and
\* of all of them once it has left the loop.
InOrder(q) ==
    /\ q.pc = "idle" => q.vectors = <<>>
    /\ q.pc # "idle" =>
          /\ q.words \in Nat \ {0}
          /\ Len(q.vectors) <= Len(Chunks(q.words))
          /\ \A n \in 1 .. Len(q.vectors) : q.vectors[n] = Chunks(q.words)[n]
    /\ q.pc = "embed" => Len(q.vectors) < Len(Chunks(q.words))
    /\ q.pc \in Steps \ {"idle", "embed", "failed"} => Len(q.vectors) = Len(Chunks(q.words))

EmbeddedInOrder == \A j \in Job : InOrder(job[j])

\* A document has all of its rows or none of them, and none before its upsert.
WholeOrNothing ==
    \A j \in Job : /\ RowsOf(j) # {} => job[j].pc \in {"done", "failed"} /\ RowsOf(j) = Rows(j)
                   /\ job[j].pc = "done" => RowsOf(j) = Rows(j)

Initializing == {"has_collection", "create", "load"}

\* Whoever initializes the store holds the lock.
InitializerHoldsLock == \A j \in Job : job[j].pc \in Initializing => initLock = j

\* The collection is loaded before the store says it is, and before a job writes.
LoadedWhenReady ==
    initialized \/ (\E j \in Job : job[j].pc = "upsert") => collection = "loaded"

IndexingInv ==
    /\ TypeOK
    /\ EmbeddedInOrder
    /\ WholeOrNothing
    /\ InitializerHoldsLock
    /\ LoadedWhenReady

-----------------------------------------------------------------------------
(* What a step does to the jobs.                                           *)

\* The rows a job in this state writes.
RowsFor(j, q) ==
    {[document |-> j, chunk |-> Chunks(q.words)[n], embedding |-> q.vectors[n]] :
        n \in DOMAIN Chunks(q.words)}

\* Only j moves, and its document and embeddings stay.
Moves(j, pc) ==
    /\ job' \in [Job -> JobState]
    /\ \A i \in Job \ {j} : job'[i] = job[i]
    /\ job'[j].pc = pc /\ job'[j].words = job[j].words /\ job'[j].vectors = job[j].vectors

\* An assignment of pc moves the job.
LEMMA GotoMoves ==
    ASSUME TypeOK, NEW j \in Job, NEW pc \in Steps, Goto(j, pc)
    PROVE  Moves(j, pc)
<1>1. job \in [Job -> JobState] /\ job' = [job EXCEPT ![j] = [job[j] EXCEPT !.pc = pc]]
  BY DEF TypeOK, Goto
<1>2. [job[j] EXCEPT !.pc = pc] \in JobState
  BY <1>1 DEF JobState
<1> QED BY <1>1, <1>2 DEF Moves, JobState

\* A document is taken with no embedding yet.
LEMMA StartDoes ==
    ASSUME TypeOK, NEW j \in Job, NEW words \in 1 .. MaxWords, Start(j, words)
    PROVE  /\ job' \in [Job -> JobState] /\ \A i \in Job \ {j} : job'[i] = job[i]
           /\ job[j].pc = "idle" /\ job'[j].pc = "embed"
           /\ job'[j].words = words /\ job'[j].vectors = job[j].vectors
           /\ UNCHANGED <<collection, initialized, initLock, stored>>
<1>1. job \in [Job -> JobState]
      /\ job' = [job EXCEPT ![j] = [job[j] EXCEPT !.pc = "embed", !.words = words]]
  BY DEF TypeOK, Start
<1>2. [[job[j] EXCEPT !.pc = "embed"] EXCEPT !.words = words] \in JobState
  <2>1. [job[j] EXCEPT !.pc = "embed"] \in JobState
    BY <1>1 DEF JobState, Steps
  <2>2. words \in Nat
    BY IndexingAssumption
  <2> QED BY <2>1, <2>2 DEF JobState
<1>3. [[job[j] EXCEPT !.pc = "embed"] EXCEPT !.words = words]
        = [job[j] EXCEPT !.pc = "embed", !.words = words]
  BY <1>1 DEF JobState
<1>4. LET q == [job[j] EXCEPT !.pc = "embed", !.words = words]
      IN  q.pc = "embed" /\ q.words = words /\ q.vectors = job[j].vectors
  BY <1>1 DEF JobState
<1> QED BY <1>1, <1>2, <1>3, <1>4 DEF Start, At

\* A batch that is embedded holds the chunks that come next.
LEMMA BatchIs ==
    ASSUME TypeOK, EmbeddedInOrder, NEW j \in Job, job[j].pc = "embed"
    PROVE  LET done == Len(job[j].vectors) IN
           /\ Batch(j) \in Seq(Chunk) /\ Len(Batch(j)) \in Nat
           /\ done + Len(Batch(j)) <= Len(ChunksOf(j))
           /\ \A n \in 1 .. Len(Batch(j)) : Batch(j)[n] = ChunksOf(j)[done + n]
<1> DEFINE done   == Len(job[j].vectors)
           chunks == ChunksOf(j)
           all    == Len(chunks)
           last   == IF done + BatchSize < all THEN done + BatchSize ELSE all
<1>1. /\ job[j].vectors \in Seq(Chunk) /\ job[j].words \in Nat \ {0} /\ done < all
  BY DEF TypeOK, JobState, EmbeddedInOrder, InOrder, ChunksOf
<1>2. chunks \in Seq(Chunk) /\ all \in Nat /\ done \in Nat
  BY <1>1, ChunksAre, LenProperties DEF ChunksOf
<1>3. last \in Nat /\ last <= all /\ done <= last
  BY <1>1, <1>2, IndexingAssumption
<1>4. Batch(j) = SubSeq(chunks, done + 1, last)
  BY DEF Batch
<1> HIDE DEF done, chunks, last
<1>5. /\ Batch(j) \in Seq(Chunk) /\ Len(Batch(j)) = last - done
      /\ \A n \in 1 .. last - done : Batch(j)[n] = chunks[done + n]
  BY <1>2, <1>3, <1>4
<1> QED BY <1>2, <1>3, <1>5 DEF done, chunks

\* They are appended, and the loop ends with the last of them.
LEMMA ExtendDoes ==
    ASSUME TypeOK, NEW j \in Job, NEW vectors \in Seq(Chunk), Extend(j, vectors)
    PROVE  /\ job' \in [Job -> JobState] /\ \A i \in Job \ {j} : job'[i] = job[i]
           /\ job'[j].words = job[j].words /\ job'[j].vectors = job[j].vectors \o vectors
           /\ job'[j].pc = IF Len(job[j].vectors) + Len(vectors) = Len(ChunksOf(j))
                           THEN "initialize" ELSE "embed"
<1> DEFINE all == job[j].vectors \o vectors
           pc  == IF Len(job[j].vectors) + Len(vectors) = Len(ChunksOf(j))
                  THEN "initialize" ELSE "embed"
<1>1. job \in [Job -> JobState] /\ all \in Seq(Chunk) /\ pc \in Steps
  BY DEF TypeOK, JobState, Steps
<1>2. job' = [job EXCEPT ![j] = [job[j] EXCEPT !.vectors = all, !.pc = pc]]
  BY <1>1 DEF Extend
<1> HIDE DEF all, pc
<1>3. LET q == [job[j] EXCEPT !.vectors = all, !.pc = pc]
      IN  q.words = job[j].words /\ q.vectors = all /\ q.pc = pc
  BY <1>1 DEF JobState
<1>4. [job[j] EXCEPT !.vectors = all, !.pc = pc] = [[job[j] EXCEPT !.vectors = all] EXCEPT !.pc = pc]
  BY <1>1 DEF JobState
<1>5. [job[j] EXCEPT !.vectors = all] \in JobState
  BY <1>1 DEF JobState
<1>6. [[job[j] EXCEPT !.vectors = all] EXCEPT !.pc = pc] \in JobState
  BY <1>1, <1>5 DEF JobState
<1> QED BY <1>1, <1>2, <1>3, <1>4, <1>6 DEF all, pc

\* A batch fails, or its vectors follow the earlier ones.
LEMMA EmbedBatchDoes ==
    ASSUME TypeOK, EmbeddedInOrder, NEW j \in Job, EmbedBatch(j)
    PROVE  /\ job[j].pc = "embed" /\ UNCHANGED <<collection, initialized, initLock, stored>>
           /\ \/ Moves(j, "failed")
              \/ /\ job' \in [Job -> JobState] /\ \A i \in Job \ {j} : job'[i] = job[i]
                 /\ job'[j].pc \in {"initialize", "embed"} /\ InOrder(job'[j])
<1>1. job[j].pc = "embed" /\ UNCHANGED <<collection, initialized, initLock, stored>>
  BY DEF EmbedBatch, At
<1>2. PICK vectors \in {Batch(j), <<>>} :
         IF Len(vectors) # Len(Batch(j)) THEN Goto(j, "failed") ELSE Extend(j, vectors)
  BY DEF EmbedBatch, Embedded, WrongCount, Fail
<1>3. CASE Len(vectors) # Len(Batch(j))
  BY <1>1, <1>2, <1>3, GotoMoves DEF Steps
<1>4. CASE Len(vectors) = Len(Batch(j))
  <2> DEFINE done == Len(job[j].vectors)
  <2>1. /\ Batch(j) \in Seq(Chunk) /\ Len(Batch(j)) \in Nat
        /\ done + Len(Batch(j)) <= Len(ChunksOf(j))
        /\ \A n \in 1 .. Len(Batch(j)) : Batch(j)[n] = ChunksOf(j)[done + n]
    BY <1>1, BatchIs
  <2>2. vectors = Batch(j)
    BY <1>2, <1>4, <2>1
  <2>3. /\ job[j].vectors \in Seq(Chunk) /\ job[j].words \in Nat \ {0} /\ done \in Nat
        /\ \A n \in 1 .. done : job[j].vectors[n] = ChunksOf(j)[n]
    BY <1>1, LenProperties DEF TypeOK, JobState, EmbeddedInOrder, InOrder, ChunksOf
  <2>4. /\ job' \in [Job -> JobState] /\ \A i \in Job \ {j} : job'[i] = job[i]
        /\ job'[j].words = job[j].words /\ job'[j].vectors = job[j].vectors \o Batch(j)
        /\ job'[j].pc = IF done + Len(Batch(j)) = Len(ChunksOf(j)) THEN "initialize" ELSE "embed"
    BY <1>2, <1>4, <2>1, <2>2, ExtendDoes
  <2> HIDE DEF done
  <2>5. /\ Len(job'[j].vectors) = done + Len(Batch(j))
        /\ \A n \in 1 .. done + Len(Batch(j)) : job'[j].vectors[n] = ChunksOf(j)[n]
    <3>1. Len(job'[j].vectors) = done + Len(Batch(j))
      BY <2>1, <2>3, <2>4, ConcatProperties DEF done
    <3>2. ASSUME NEW n \in 1 .. done + Len(Batch(j))
          PROVE  job'[j].vectors[n] = ChunksOf(j)[n]
      <4>1. job'[j].vectors[n] = IF n <= done THEN job[j].vectors[n] ELSE Batch(j)[n - done]
        BY <2>1, <2>3, <2>4, ConcatProperties DEF done
      <4>2. CASE n <= done
        BY <2>3, <4>1, <4>2
      <4>3. CASE n > done
        <5>1. n - done \in 1 .. Len(Batch(j)) /\ done + (n - done) = n
          BY <2>1, <2>3, <4>3
        <5> QED BY <2>1, <2>3, <4>1, <4>3, <5>1
      <4> QED BY <2>3, <4>2, <4>3
    <3> QED BY <3>1, <3>2
  <2>6. Len(ChunksOf(j)) \in Nat
    BY <2>3, ChunksAre DEF ChunksOf
  <2>7. job'[j].pc \in {"initialize", "embed"}
    BY <2>4
  <2>8. InOrder(job'[j])
    <3>1. job'[j].words = job[j].words /\ ChunksOf(j) = Chunks(job'[j].words)
      BY <2>4 DEF ChunksOf
    <3> QED BY <2>1, <2>3, <2>4, <2>5, <2>6, <3>1 DEF InOrder
  <2> QED BY <1>1, <2>4, <2>7, <2>8
<1> QED BY <1>3, <1>4

-----------------------------------------------------------------------------
(* What a step does to the store.                                          *)

\* initialize and upsert take a job on, and only its upsert writes.
LEMMA StoreDoes ==
    ASSUME TypeOK, NEW j \in Job,
           Lock(j) \/ HasCollection(j) \/ Create(j) \/ Load(j) \/ Upsert(j)
    PROVE  /\ job[j].pc \in Initializing \cup {"initialize", "upsert"}
           /\ \/ /\ UNCHANGED stored
                 /\ \E pc \in Initializing \cup {"upsert", "failed"} : Moves(j, pc)
              \/ stored' = stored \cup Rows(j) /\ \E pc \in {"done", "failed"} : Moves(j, pc)
<1> USE DEF Initializing
<1>0. Initializing \cup {"upsert", "failed", "done"} \subseteq Steps
  BY DEF Steps
<1>1. CASE Lock(j)
  <2>1. Goto(j, "upsert") \/ Goto(j, "has_collection")
    BY <1>1 DEF Lock
  <2> QED BY <1>0, <1>1, <2>1, GotoMoves DEF Lock, At
<1>2. CASE HasCollection(j)
  <2>1. Goto(j, "upsert") \/ Goto(j, "create") \/ Goto(j, "load") \/ Goto(j, "failed")
    BY <1>2 DEF HasCollection, Unlock
  <2> QED BY <1>0, <1>2, <2>1, GotoMoves DEF HasCollection, At
<1>3. CASE Create(j)
  <2>1. Goto(j, "load") \/ Goto(j, "failed")
    BY <1>3 DEF Create, Unlock
  <2> QED BY <1>0, <1>3, <2>1, GotoMoves DEF Create, At
<1>4. CASE Load(j)
  <2>1. Goto(j, "upsert") \/ Goto(j, "failed")
    BY <1>4 DEF Load, Unlock
  <2> QED BY <1>0, <1>4, <2>1, GotoMoves DEF Load, At
<1>5. CASE Upsert(j)
  <2>1. /\ job[j].pc = "upsert"
        /\ \/ stored' = stored \cup Rows(j) /\ (Goto(j, "done") \/ Goto(j, "failed"))
           \/ stored' = stored /\ Goto(j, "failed")
    BY <1>5 DEF Upsert, Fail, At
  <2>2. (Goto(j, "done") => Moves(j, "done")) /\ (Goto(j, "failed") => Moves(j, "failed"))
    BY <1>0, GotoMoves
  <2> QED BY <2>1, <2>2
<1> QED BY <1>1, <1>2, <1>3, <1>4, <1>5

\* A step is one of these.
LEMMA NextIs ==
    ASSUME [Next]_vars
    PROVE  \/ UNCHANGED vars
           \/ CreateElsewhere
           \/ \E j \in Job :
                 \/ \E words \in 1 .. MaxWords : Start(j, words)
                 \/ EmbedBatch(j)
                 \/ Lock(j) \/ HasCollection(j) \/ Create(j) \/ Load(j) \/ Upsert(j)
  BY DEF Next

-----------------------------------------------------------------------------
(* One conjunct at a time.                                                 *)

\* A step keeps the types.
LEMMA TypeOKPreserved ==
    ASSUME IndexingInv, [Next]_vars
    PROVE  TypeOK'
<1> USE DEF IndexingInv
<1>1. CASE UNCHANGED vars
  BY <1>1 DEF vars, TypeOK
<1>2. CASE CreateElsewhere
  BY <1>2 DEF CreateElsewhere, TypeOK
<1>3. ASSUME NEW j \in Job, NEW words \in 1 .. MaxWords, Start(j, words)
      PROVE  TypeOK'
  BY <1>3, StartDoes DEF TypeOK
<1>4. ASSUME NEW j \in Job, EmbedBatch(j)
      PROVE  TypeOK'
  BY <1>4, EmbedBatchDoes DEF TypeOK, Moves
<1>5. ASSUME NEW j \in Job, Lock(j) \/ HasCollection(j) \/ Create(j) \/ Load(j) \/ Upsert(j)
      PROVE  TypeOK'
  <2>1. job' \in [Job -> JobState]
    BY <1>5, StoreDoes DEF Moves
  <2>2. collection' \in {"absent", "created", "loaded"} /\ initialized' \in BOOLEAN
    BY <1>5 DEF TypeOK, Lock, HasCollection, Create, Load, Upsert
  <2> QED BY <2>1, <2>2 DEF TypeOK
<1> QED BY <1>1, <1>2, <1>3, <1>4, <1>5, NextIs

\* A step keeps what is embedded in order.
LEMMA EmbeddedInOrderPreserved ==
    ASSUME IndexingInv, [Next]_vars
    PROVE  EmbeddedInOrder'
<1> USE DEF IndexingInv
<1>0. (\A i \in Job : InOrder(job'[i])) => EmbeddedInOrder'
  BY DEF EmbeddedInOrder, InOrder
<1>1. CASE UNCHANGED vars \/ CreateElsewhere
  <2>1. job' = job
    BY <1>1 DEF vars, CreateElsewhere
  <2> QED BY <1>0, <2>1 DEF EmbeddedInOrder
<1>2. ASSUME NEW j \in Job, \A i \in Job \ {j} : job'[i] = job[i], InOrder(job'[j])
      PROVE  EmbeddedInOrder'
  BY <1>0, <1>2 DEF EmbeddedInOrder
<1>3. ASSUME NEW j \in Job, NEW words \in 1 .. MaxWords, Start(j, words)
      PROVE  EmbeddedInOrder'
  <2>1. /\ words \in Nat \ {0} /\ Len(Chunks(words)) \in Nat \ {0}
        /\ Len(<<>>) = 0
    BY IndexingAssumption, ChunksAre
  <2>2. /\ \A i \in Job \ {j} : job'[i] = job[i]
        /\ job'[j].pc = "embed" /\ job'[j].words = words /\ job'[j].vectors = <<>>
    BY <1>3, StartDoes DEF EmbeddedInOrder, InOrder
  <2>3. InOrder(job'[j])
    BY <2>1, <2>2 DEF InOrder
  <2> QED BY <1>2, <2>2, <2>3
<1>4. ASSUME NEW j \in Job, NEW pc \in Steps \ {"idle", "embed"}, Moves(j, pc),
             pc = "failed" \/ job[j].pc \in Steps \ {"idle", "embed", "failed"},
             job[j].pc # "idle"
      PROVE  EmbeddedInOrder'
  <2>1. InOrder(job[j])
    BY DEF EmbeddedInOrder
  <2>2. InOrder(job'[j])
    BY <1>4, <2>1 DEF Moves, InOrder
  <2> QED BY <1>2, <1>4, <2>2 DEF Moves
<1>5. ASSUME NEW j \in Job, EmbedBatch(j)
      PROVE  EmbeddedInOrder'
  BY <1>2, <1>4, <1>5, EmbedBatchDoes DEF Steps
<1>6. ASSUME NEW j \in Job, Lock(j) \/ HasCollection(j) \/ Create(j) \/ Load(j) \/ Upsert(j)
      PROVE  EmbeddedInOrder'
  <2>1. /\ job[j].pc \in Steps \ {"idle", "embed", "failed"}
        /\ \E pc \in Steps \ {"idle", "embed"} : Moves(j, pc)
    BY <1>6, StoreDoes DEF Steps, Initializing
  <2> QED BY <1>4, <2>1
<1> QED BY <1>1, <1>3, <1>5, <1>6, NextIs

\* A step writes every row of a document, or none.
LEMMA WholeOrNothingPreserved ==
    ASSUME IndexingInv, [Next]_vars
    PROVE  WholeOrNothing'
<1> USE DEF IndexingInv
<1> DEFINE In(rows, j) == {row \in rows : row.document = j}
<1>0. /\ \A j \in Job : /\ In(stored, j) \in {{}, RowsFor(j, job[j])}
                        /\ job[j].pc \notin {"done", "failed"} => In(stored, j) = {}
                        /\ job[j].pc = "done" => In(stored, j) = RowsFor(j, job[j])
      /\ \A j \in Job : Rows(j) = RowsFor(j, job[j])
      /\ (\A j \in Job : /\ In(stored', j) \in {{}, RowsFor(j, job'[j])}
                         /\ job'[j].pc \notin {"done", "failed"} => In(stored', j) = {}
                         /\ job'[j].pc = "done" => In(stored', j) = RowsFor(j, job'[j]))
           => WholeOrNothing'
  BY DEF WholeOrNothing, RowsOf, Rows, Row, RowsFor, ChunksOf
<1>1. \A i, j \in Job : In(RowsFor(j, job[j]), i) = IF i = j THEN RowsFor(j, job[j]) ELSE {}
  BY DEF RowsFor
<1>3. ASSUME NEW j \in Job, Moves(j, job'[j].pc)
      PROVE  RowsFor(j, job'[j]) = RowsFor(j, job[j])
  BY <1>3 DEF Moves, RowsFor
<1> HIDE DEF In
<1>4. CASE UNCHANGED vars \/ CreateElsewhere
  <2>1. job' = job /\ stored' = stored
    BY <1>4 DEF vars, CreateElsewhere
  <2> QED BY <1>0, <2>1
<1>5. ASSUME NEW j \in Job, stored' = stored, \A i \in Job \ {j} : job'[i] = job[i],
             job[j].pc \notin {"done", "failed"}, job'[j].pc # "done"
      PROVE  WholeOrNothing'
  BY <1>0, <1>5
<1>6. ASSUME NEW j \in Job, NEW words \in 1 .. MaxWords, Start(j, words)
      PROVE  WholeOrNothing'
  BY <1>5, <1>6, StartDoes
<1>7. ASSUME NEW j \in Job, EmbedBatch(j)
      PROVE  WholeOrNothing'
  BY <1>5, <1>7, EmbedBatchDoes DEF Moves
<1>8. ASSUME NEW j \in Job, Lock(j) \/ HasCollection(j) \/ Create(j) \/ Load(j) \/ Upsert(j)
      PROVE  WholeOrNothing'
  <2>1. job[j].pc \notin {"done", "failed"}
    BY <1>8, StoreDoes DEF Initializing
  <2>2. CASE stored' = stored /\ \E pc \in Initializing \cup {"upsert", "failed"} : Moves(j, pc)
    BY <1>5, <2>1, <2>2 DEF Moves, Initializing
  <2>3. CASE stored' = stored \cup Rows(j) /\ \E pc \in {"done", "failed"} : Moves(j, pc)
    <3>1. /\ \A i \in Job \ {j} : job'[i] = job[i]
          /\ RowsFor(j, job'[j]) = RowsFor(j, job[j]) /\ job'[j].pc \in {"done", "failed"}
      BY <1>3, <2>3 DEF Moves
    <3>2. ASSUME NEW i \in Job
          PROVE  In(stored', i) = In(stored, i) \cup IF i = j THEN RowsFor(j, job[j]) ELSE {}
      <4>1. stored' = stored \cup RowsFor(j, job[j])
        BY <1>0, <2>3
      <4>2. In(stored', i) = In(stored, i) \cup In(RowsFor(j, job[j]), i)
        BY <4>1 DEF In
      <4> QED BY <1>1, <4>2
    <3>3. In(stored', j) = RowsFor(j, job'[j])
      BY <1>0, <2>1, <3>1, <3>2
    <3>4. \A i \in Job \ {j} : In(stored', i) = In(stored, i)
      BY <3>2
    <3> QED BY <1>0, <3>1, <3>3, <3>4
  <2> QED BY <1>8, <2>2, <2>3, StoreDoes
<1> QED BY <1>4, <1>6, <1>7, <1>8, NextIs

\* A step leaves the lock with whoever initializes.
LEMMA InitializerHoldsLockPreserved ==
    ASSUME IndexingInv, [Next]_vars
    PROVE  InitializerHoldsLock'
<1> USE DEF IndexingInv, Initializing
<1>1. CASE UNCHANGED vars \/ CreateElsewhere
  BY <1>1 DEF vars, CreateElsewhere, InitializerHoldsLock
<1>2. ASSUME NEW j \in Job, initLock' = initLock, \A i \in Job \ {j} : job'[i] = job[i],
             job'[j].pc \in Initializing => job[j].pc \in Initializing
      PROVE  InitializerHoldsLock'
  BY <1>2 DEF InitializerHoldsLock
<1>3. ASSUME NEW j \in Job, NEW words \in 1 .. MaxWords, Start(j, words)
      PROVE  InitializerHoldsLock'
  BY <1>2, <1>3, StartDoes
<1>4. ASSUME NEW j \in Job, EmbedBatch(j)
      PROVE  InitializerHoldsLock'
  BY <1>2, <1>4, EmbedBatchDoes DEF Moves
<1>5. ASSUME NEW j \in Job, initLock = j, NEW pc \in Steps \ Initializing, Moves(j, pc)
      PROVE  InitializerHoldsLock'
  BY <1>5 DEF Moves, InitializerHoldsLock
<1>6. ASSUME NEW j \in Job, Lock(j)
      PROVE  InitializerHoldsLock'
  <2>1. CASE Goto(j, "upsert") /\ UNCHANGED initLock
    BY <1>2, <2>1, GotoMoves DEF Moves, Steps
  <2>2. CASE initLock = None /\ initLock' = j /\ Goto(j, "has_collection")
    <3>1. Moves(j, "has_collection")
      BY <2>2, GotoMoves DEF Steps
    <3>2. \A i \in Job : job[i].pc \notin Initializing
      BY <2>2, IndexingAssumption DEF InitializerHoldsLock
    <3> QED BY <2>2, <3>1, <3>2 DEF Moves, InitializerHoldsLock
  <2> QED BY <1>6, <2>1, <2>2 DEF Lock
<1>7. ASSUME NEW j \in Job, HasCollection(j) \/ Create(j) \/ Load(j)
      PROVE  InitializerHoldsLock'
  <2>1. initLock = j /\ job[j].pc \in Initializing
    BY <1>7 DEF HasCollection, Create, Load, At, InitializerHoldsLock
  <2>2. \/ UNCHANGED initLock /\ (Goto(j, "create") \/ Goto(j, "load"))
        \/ Goto(j, "upsert") \/ Goto(j, "failed")
    BY <1>7 DEF HasCollection, Create, Load, Unlock
  <2>3. {"create", "load", "upsert", "failed"} \subseteq Steps
    BY DEF Steps
  <2> QED BY <1>2, <1>5, <2>1, <2>2, <2>3, GotoMoves DEF Moves
<1>8. ASSUME NEW j \in Job, Upsert(j)
      PROVE  InitializerHoldsLock'
  <2>1. UNCHANGED initLock /\ (Goto(j, "done") \/ Goto(j, "failed"))
    BY <1>8 DEF Upsert, Fail
  <2> QED BY <1>2, <2>1, GotoMoves DEF Moves, Steps
<1> QED BY <1>1, <1>3, <1>4, <1>6, <1>7, <1>8, NextIs

\* A step does not say the store is ready before the collection is loaded.
LEMMA LoadedWhenReadyPreserved ==
    ASSUME IndexingInv, [Next]_vars
    PROVE  LoadedWhenReady'
<1> USE DEF IndexingInv
<1>1. CASE UNCHANGED vars
  BY <1>1 DEF vars, LoadedWhenReady
<1>2. CASE CreateElsewhere
  BY <1>2 DEF CreateElsewhere, LoadedWhenReady
<1>3. ASSUME NEW j \in Job, UNCHANGED initialized, collection = "loaded" => collection' = "loaded",
             \A i \in Job \ {j} : job'[i] = job[i],
             job'[j].pc = "upsert" => initialized \/ job[j].pc = "upsert"
      PROVE  LoadedWhenReady'
  BY <1>3 DEF LoadedWhenReady
<1>4. ASSUME NEW j \in Job, NEW words \in 1 .. MaxWords, Start(j, words)
      PROVE  LoadedWhenReady'
  BY <1>3, <1>4, StartDoes
<1>5. ASSUME NEW j \in Job, EmbedBatch(j)
      PROVE  LoadedWhenReady'
  BY <1>3, <1>5, EmbedBatchDoes DEF Moves
<1>6. ASSUME NEW j \in Job, Lock(j)
      PROVE  LoadedWhenReady'
  <2>1. /\ UNCHANGED <<initialized, collection>>
        /\ (Goto(j, "upsert") /\ initialized) \/ Goto(j, "has_collection")
    BY <1>6 DEF Lock
  <2> QED BY <1>3, <2>1, GotoMoves DEF Moves, Steps
<1>7. ASSUME NEW j \in Job, HasCollection(j)
      PROVE  LoadedWhenReady'
  <2>1. /\ UNCHANGED <<initialized, collection>>
        /\ \/ Goto(j, "upsert") /\ initialized
           \/ Goto(j, "create") \/ Goto(j, "load") \/ Goto(j, "failed")
    BY <1>7 DEF HasCollection, Unlock
  <2>2. {"create", "load", "upsert", "failed"} \subseteq Steps
    BY DEF Steps
  <2> QED BY <1>3, <2>1, <2>2, GotoMoves DEF Moves
<1>8. ASSUME NEW j \in Job, Create(j)
      PROVE  LoadedWhenReady'
  <2>1. /\ UNCHANGED initialized
        /\ collection = "loaded" => collection' = "loaded"
        /\ Goto(j, "load") \/ Goto(j, "failed")
    BY <1>8 DEF Create, Unlock
  <2> QED BY <1>3, <2>1, GotoMoves DEF Moves, Steps
<1>9. ASSUME NEW j \in Job, Load(j)
      PROVE  LoadedWhenReady'
  <2>1. CASE collection' = "loaded"
    BY <2>1 DEF LoadedWhenReady
  <2>2. CASE collection' # "loaded"
    <3>1. UNCHANGED <<initialized, collection>> /\ Goto(j, "failed")
      BY <1>9, <2>2 DEF Load, Unlock
    <3> QED BY <1>3, <3>1, GotoMoves DEF Moves, Steps
  <2> QED BY <2>1, <2>2
<1>10. ASSUME NEW j \in Job, Upsert(j)
      PROVE  LoadedWhenReady'
  <2>1. UNCHANGED <<initialized, collection>> /\ (Goto(j, "done") \/ Goto(j, "failed"))
    BY <1>10 DEF Upsert, Fail
  <2> QED BY <1>3, <2>1, GotoMoves DEF Moves, Steps
<1> QED BY <1>1, <1>2, <1>4, <1>5, <1>6, <1>7, <1>8, <1>9, <1>10, NextIs

-----------------------------------------------------------------------------
(* The theorems.                                                           *)

\* It holds before anything is indexed.
LEMMA InitInv ==
    ASSUME Init
    PROVE  IndexingInv
<1>1. /\ job = [j \in Job |-> NotStarted] /\ NotStarted \in JobState
      /\ NotStarted.pc = "idle" /\ NotStarted.vectors = <<>>
  BY DEF Init, NotStarted, JobState, Steps
<1>2. TypeOK
  BY <1>1 DEF Init, TypeOK
<1>3. EmbeddedInOrder
  BY <1>1 DEF EmbeddedInOrder, InOrder
<1>4. WholeOrNothing
  BY <1>1 DEF Init, WholeOrNothing, RowsOf
<1>5. InitializerHoldsLock /\ LoadedWhenReady
  BY <1>1 DEF Init, InitializerHoldsLock, LoadedWhenReady, Initializing
<1> QED BY <1>2, <1>3, <1>4, <1>5 DEF IndexingInv

\* Every reachable state has the invariant.
THEOREM Invariance == Spec => []IndexingInv
<1>1. IndexingInv /\ [Next]_vars => IndexingInv'
  BY TypeOKPreserved, EmbeddedInOrderPreserved, WholeOrNothingPreserved,
     InitializerHoldsLockPreserved, LoadedWhenReadyPreserved DEF IndexingInv
<1> QED BY <1>1, InitInv, PTL DEF Spec

\* The jobs of a process never race to create the collection, and none writes
\* before it is loaded (milvus.py: initialize).
THEOREM CollectionIsReadyOnce == Spec => []CollectionReadyOnce
<1>1. IndexingInv => CollectionReadyOnce
  BY DEF IndexingInv, InitializerHoldsLock, LoadedWhenReady, CollectionReadyOnce, At, Initializing
<1> QED BY <1>1, Invariance, PTL

\* The rows of a document are as many as its chunks.
LEMMA AsManyRows ==
    ASSUME NEW j \in Job, job[j].words \in Nat \ {0}
    PROVE  Cardinality(Rows(j)) = Len(ChunksOf(j))
<1> DEFINE k == Len(ChunksOf(j))
           f == [n \in 1 .. k |-> Row(j, n)]
<1>1. /\ k \in Nat /\ DOMAIN ChunksOf(j) = 1 .. k
      /\ \A n \in 1 .. k : ChunksOf(j)[n].position = n - 1
  BY ChunksAre DEF ChunksOf
<1>2. Rows(j) = {Row(j, n) : n \in 1 .. k}
  BY <1>1 DEF Rows
<1>3. f \in [1 .. k -> Rows(j)]
  BY <1>2
<1>4. \A t \in Rows(j) : \E n \in 1 .. k : f[n] = t
  BY <1>2
<1>5. ASSUME NEW m \in 1 .. k, NEW n \in 1 .. k, f[m] = f[n]
      PROVE  m = n
  <2>1. ChunksOf(j)[m] = ChunksOf(j)[n]
    BY <1>5 DEF Row
  <2> QED BY <1>1, <2>1
<1> HIDE DEF f, k
<1>6. f \in Bijection(1 .. k, Rows(j))
  BY <1>3, <1>4, <1>5, Fun_IsBij
<1>7. IsFiniteSet(1 .. k) /\ Cardinality(1 .. k) = k
  BY <1>1, FS_Interval
<1>8. Cardinality(Rows(j)) = k
  BY <1>6, <1>7, FS_Bijection, Fun_ExistsBij
<1> QED BY <1>8 DEF k

\* Whatever fails, none or all of a document's rows are in the collection
\* (indexing.py: index_document, one upsert after every embedding).
THEOREM WritesAreWhole == Spec => []NoPartialWrites
<1>1. IndexingInv => NoPartialWrites
  <2> SUFFICES ASSUME IndexingInv, NEW j \in Job, RowsOf(j) # {}
               PROVE  /\ job[j].pc \in {"done", "failed"}
                      /\ Cardinality(RowsOf(j)) = Len(ChunksOf(j))
    BY DEF NoPartialWrites
  <2>1. RowsOf(j) = Rows(j) /\ job[j].pc \in {"done", "failed"}
    BY DEF IndexingInv, WholeOrNothing
  <2>2. job[j].words \in Nat \ {0}
    BY <2>1 DEF IndexingInv, EmbeddedInOrder, InOrder
  <2> QED BY <2>1, <2>2, AsManyRows
<1> QED BY <1>1, Invariance, PTL

\* Every word of an indexed document is in a stored chunk of it, whose vector
\* was made from that chunk (indexing.py: index_document; chunking.py).
THEOREM WordsAreIndexed == Spec => []EveryWordIndexed
<1>1. IndexingInv => EveryWordIndexed
  <2> SUFFICES ASSUME IndexingInv, NEW j \in Job, job[j].pc = "done"
               PROVE  /\ \A w \in 0 .. job[j].words - 1 : \E row \in RowsOf(j) :
                            w \in row.chunk.first .. row.chunk.last - 1
                      /\ \A row \in RowsOf(j) : row.embedding = row.chunk
    BY DEF EveryWordIndexed, At
  <2>1. /\ RowsOf(j) = Rows(j) /\ job[j].words \in Nat \ {0}
        /\ Len(job[j].vectors) = Len(ChunksOf(j))
        /\ \A n \in 1 .. Len(job[j].vectors) : job[j].vectors[n] = ChunksOf(j)[n]
    BY DEF IndexingInv, WholeOrNothing, EmbeddedInOrder, InOrder, ChunksOf, Steps
  <2>2. DOMAIN ChunksOf(j) = 1 .. Len(ChunksOf(j))
    BY <2>1, ChunksAre DEF ChunksOf
  <2>3. \A w \in 0 .. job[j].words - 1 : \E n \in DOMAIN ChunksOf(j) :
           w \in ChunksOf(j)[n].first .. ChunksOf(j)[n].last - 1
    BY <2>1, EveryWordInAChunk DEF ChunksOf
  <2>4. \A n \in DOMAIN ChunksOf(j) : Row(j, n) \in Rows(j) /\ Row(j, n).chunk = ChunksOf(j)[n]
    BY DEF Rows, Row
  <2>5. \A row \in Rows(j) : row.embedding = row.chunk
    BY <2>1, <2>2 DEF Rows, Row
  <2> QED BY <2>1, <2>3, <2>4, <2>5
<1> QED BY <1>1, Invariance, PTL

\* Nothing is cut out of nothing.
LEMMA NoChunks == Len(Chunks(0)) = 0
<1>1. {p \in 0 .. 0 - 1 : \A q \in 0 .. p - 1 : ~EndsAt(0, q)} = {}
  OBVIOUS
<1>2. Chunks(0) = [n \in 1 .. 0 |-> ChunkAt(0, n - 1)]
  BY <1>1, FS_EmptySet DEF Chunks
<1> QED BY <1>2

\* Neighbouring chunks share Overlap words, and each goes on where the one
\* before it ended (chunking.py: chunk_document).
THEOREM ChunksDoOverlap == Spec => []ChunksOverlap
<1>1. IndexingInv => ChunksOverlap
  <2> SUFFICES ASSUME IndexingInv, NEW j \in Job, NEW n \in 1 .. Len(ChunksOf(j)) - 1
               PROVE  /\ ChunksOf(j)[n].last - ChunksOf(j)[n + 1].first = Overlap
                      /\ ChunksOf(j)[n].last < ChunksOf(j)[n + 1].last
    BY DEF ChunksOverlap
  <2>1. CASE job[j].words \in Nat \ {0}
    BY <2>1, ChunksAre DEF ChunksOf
  <2>2. CASE job[j].words = 0
    BY <2>2, NoChunks DEF ChunksOf
  <2> QED BY <2>1, <2>2 DEF IndexingInv, TypeOK, JobState
<1> QED BY <1>1, Invariance, PTL
=============================================================================
