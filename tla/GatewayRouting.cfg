SPECIFICATION Spec
CONSTANTS
    i1 = i1
    i2 = i2
    Ids = {i1, i2}
    MaxBoots = 3
    GatedBoots <- MCGatedBoots
    TopN = 2
    Threshold = 2
    MaxChanges = 4
    MaxFaults = 1
    None = None
INVARIANTS CacheFollowsTable VerdictOfThisBoot DeclarationAgrees QuietMatchesStore
