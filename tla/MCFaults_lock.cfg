SPECIFICATION FSpec
CONSTANTS
    Versions <- MCVersions
    Weapons <- MCWeapons
    Perks <- MCPerks
    Columns <- MCColumns
    Facts <- MCFacts
    NoRow = NoRow
    Null = Null
    PerkOf <- MCPerkOf
    WeaponOf <- MCWeaponOf
    PoolOf <- MCPoolOf
    CombosOf <- MCCombosOf
    Scores = {1}
    Hosts = {h1, h2}
    DBWorkers = 1
    Releases <- Upgrade
    MaxFaults = 1
INVARIANT OneRunMutates
