SPECIFICATION FairSpec
CONSTANTS
    s1 = s1
    s2 = s2
    Share <- MCShare
    Size <- MCSize
    MaxShards = 0
    OneJobSuffices = FALSE
    MaxFaults = 0
    None = None
PROPERTY
    NewRunContinues
