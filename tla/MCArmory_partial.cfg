SPECIFICATION ArmorySpec
CONSTANTS
    Versions <- MCVersions
    Weapons <- MCWeapons
    Perks <- MCPerks
    Columns <- MCColumns
    Facts <- MCFacts
    NoRow = NoRow
    Null = Null
    Torn = Torn
    PerkOf <- MCPerkOf
    WeaponOf <- MCWeaponOf
    PoolOf <- MCPoolOf
    CombosOf <- MCCombosOf
    Scores = {1}
    Hosts = {h1}
    Exporter = x
    DBWorkers = 1
    Releases <- Upgrade
    MaxFaults = 1
PROPERTY ExportsReconciled
