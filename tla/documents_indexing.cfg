SPECIFICATION Spec
CONSTANTS
    Job = {j1, j2, j3}
    MaxWords = 8
    ChunkWords = 3
    Overlap = 1
    BatchSize = 2
    None = None
SYMMETRY Symmetry
CHECK_DEADLOCK FALSE
INVARIANT EveryWordIndexed
INVARIANT NoPartialWrites
INVARIANT ChunksOverlap
INVARIANT CollectionReadyOnce
