SPECIFICATION Spec
CONSTANTS
    Versions <- MCVersions
    Weapons <- MCWeapons
    Perks <- MCPerks
    Columns <- MCColumns
    Facts <- MCFacts
    NoRow = NoRow
    Null = Null
    PerkOf <- MCPerkOf
    WeaponOf <- MCWeaponOf
    PoolOf <- MCPoolOf
    CombosOf <- MCCombosOf
    Scores = {1}
    Hosts = {h1, h2}
    DBWorkers = 2
    Releases <- UpgradeAndRollback
    MaxFaults = 2
SYMMETRY HostSymmetry
INVARIANTS
    IngestTypeOK
    JobsResolve
    RowsReferenced
    IInv
PROPERTIES
    ImportComplete
    HeldVersionStays
    ScoresSurvive
    DryRunWritesNothing
    ImplementsMirror
