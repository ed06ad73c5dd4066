SPECIFICATION Spec
CONSTANTS
    o1 = o1
    o2 = o2
    Sources = {1, 2}
    Objects = {o1, o2}
    Ranks = {1, 2}
    Extracts <- MCExtracts
    Tokens = {t1, t2}
    NoFile = NoFile
    MaxChanges = 0
    MaxFaults = 1
    ChangePoints = {"idle"}
    CrashPoints = {"pair"}
INVARIANT
    InterruptedPromotionFinishes
