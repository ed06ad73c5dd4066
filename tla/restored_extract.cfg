SPECIFICATION Spec
CONSTANTS
    Sources = {1, 2}
    NoFile = NoFile
    Edited = Edited
    ChangeKinds = {"restore", "withdraw"}
    MaxRetries = 1
    MaxChanges = 2
    MaxFaults = 0
    MaxEdits = 0
INVARIANT
    CompletedRunHasTables
