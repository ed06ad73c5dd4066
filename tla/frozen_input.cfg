SPECIFICATION Spec
CONSTANTS
    en = en
    br = br
    Nothing = Nothing
    Absent = Absent
    MinAlphabeticChars = 2
    TieEpsilon = 0
    One = 3
    Tolerance = 1
    SplitterLanguages = {en}
    DayLength = 8
    DayStart = 3
    DayEnd = 7
    MaxWalltime = 2
    MaxEvidenceAge = 1
    Versions = {0, 1}
    Batches = 2
    TextsOf <- MCTextsOf
    Requests <- MCRequests
    MaxChanges = 2
    MaxStages = 2
INVARIANTS
    AnnotatesFrozenInput
    StagedIsFrozen
    GrantedWithinPolicy
    RowsAreJustified
