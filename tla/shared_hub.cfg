SPECIFICATION Spec
CONSTANTS
    Versions = {1, 2}
    Exports = {a, b}
    NoExport = NoExport
    MaxCommits = 4
    MaxExports = 1
    MaxFaults = 1
INVARIANTS
    ReleasedStatsDescribeData
    NoLostUpdate
    UnverifiedUploadIsKnown
PROPERTY
    SentOnceOnBaseline
