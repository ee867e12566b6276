SPECIFICATION CSpec
CONSTANTS
    Traits = {1}
    Enhanced = {2}
    Origins = {3}
    Hardware = {4}
    Indexes = {0, 1, 2, 3}
    MaxRolls = 8
    Width = 8
    Definitions <- MCDefinitions
    PlugSets <- MCPlugSets
    Collectibles <- MCCollectibles
INVARIANTS
    ColumnsAreThePool
    KindsAgree
    EnhanceableRolls
    EveryComboOnce
    CapHolds
    SkippedOnlyOverCap
    RollsFromPool
