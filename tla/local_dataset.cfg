SPECIFICATION FairSpec
CONSTANTS
    o1 = o1
    o2 = o2
    Sources = {1, 2}
    Objects = {o1, o2}
    Ranks = {1, 2}
    Extracts <- MCExtracts
    Tokens = {t1, t2}
    NoFile = NoFile
    MaxChanges = 2
    MaxFaults = 1
    ChangePoints <- AllButManifest
    CrashPoints <- Anywhere
INVARIANTS
    OneRowPerObject
    RowsAccountedFor
    StagedWorkIsRecoverable
    CompleteStateTruthful
    UnchangedKeepsCanonicalRow
PROPERTIES
    ImplementsTables
    KeepsHandingOver
