\* One chunk, two models the configuration moves between, three workers.
SPECIFICATION Spec
CONSTANTS
    s1 = s1  c1 = c1
    None = None
    Source = {s1}
    Chunk = {c1}
    SourceOf <- SourceOfChunk
    Model = {m1, m2}
    Worker = {w1, w2, w3}
    MaxAttempts = 2
SYMMETRY Symmetry
INVARIANTS
    TypeOK
    RevokedIsCleared
    NeverStranded
    VectorsHaveJobs
