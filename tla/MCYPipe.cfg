SPECIFICATION Spec
CONSTANTS
    Chunks = {k1, k2, k3, k4, k5, k6}
    N = 2
    MaxWrites = 7
    Null = Null
SYMMETRY ChunkSymmetry
INVARIANTS ChunksConserved
PROPERTIES IsSleepyQueue
