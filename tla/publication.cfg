SPECIFICATION FairSpec
CONSTANTS
    Sources = {1, 2}
    NoFile = NoFile
    Edited = Edited
    ChangeKinds = {"replace", "rewrite", "withdraw"}
    MaxRetries = 1
    MaxChanges = 2
    MaxFaults = 2
    MaxEdits = 1
INVARIANTS
    CompletedRunIsPublished
    CompletedRunSettles
PROPERTIES
    OnlyPublishedIsRecorded
    KeepsCompleting
