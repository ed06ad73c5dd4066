SPECIFICATION Spec
CONSTANTS
    o1 = o1
    o2 = o2
    Sources = {1, 2}
    Objects = {o1, o2}
    Ranks = {1, 2}
    Extracts <- MCExtracts
    Tokens = {t1, t2}
    NoFile = NoFile
    MaxChanges = 1
    MaxFaults = 0
    ChangePoints = {"idle"}
    CrashPoints = {}
INVARIANT
    CanonicalRowKept
