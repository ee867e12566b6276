SPECIFICATION Spec
CONSTANTS
    Traits = {1}
    Enhanced = {2}
    Origins = {3}
    Hardware = {4}
    Indexes = {0, 1, 3}
    MaxRolls = 6
    Width = 4
INVARIANT CapHolds
