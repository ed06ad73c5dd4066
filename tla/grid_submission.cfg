SPECIFICATION Spec
CONSTANTS
    Shards = {s1, s2}
    Processes = {p1, p2}
    Batches = 1
    MaxAttempts = 2
    None = None
SYMMETRY Symmetry
INVARIANTS
    AtMostOneLiveJob
    LiveJobIsReserved
    IntentsReadable
    CompleteIsFinal
