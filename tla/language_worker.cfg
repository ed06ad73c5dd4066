SPECIFICATION FairSpec
CONSTANTS
    Rows = 4
    Boundaries = {0, 1, 3}
    Described = {0, 1, 3}
    BatchSizes = {1, 2, 3}
    NoFile = NoFile
    MaxFaults = 2
INVARIANTS
    PausedEqualsUninterrupted
    NeverUnusable
    QuarantineSuffices
PROPERTIES
    ImplementsExactlyOnce
    CompletesInTheEnd
