SPECIFICATION RunSpec
CONSTANTS
    s1 = s1
    s2 = s2
    Share <- MCShare
    Size <- MCSize
    Earlier <- MCEarlier
    MaxShards = 0
    OneJobSuffices = TRUE
    MaxFaults = 1
    MaxKills = 1
    None = None
    Nothing = Nothing
INVARIANTS
    CollectedIsWhole
    OneJobInFlight
    PublishedIsOneExport
    PublishedIsComplete
PROPERTIES
    CollectedOnlyExtends
    SubmittedWorkSurvives
    ShareCompletesOrStrands
