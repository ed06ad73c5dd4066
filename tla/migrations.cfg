SPECIFICATION FairSpec
CONSTANTS
    o1 = o1
    o2 = o2
    o3 = o3
    Artifacts = {1, 2}
    FeatureTables <- MCFeatureTables
    MaxKills = 2
    MaxChanges = 1
    Nothing = Nothing
INVARIANTS
    CountsAreExact
    RepairedIsRebuilt
    ViewsAgree
PROPERTIES
    RepairIsIdempotent
    RepairSettles
