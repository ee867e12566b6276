SPECIFICATION Spec
CONSTANTS
    Callers = {manifest, items, plugs}
    Tables = {items, plugs}
    Manifest = manifest
    MaxAttempts = 3
    Size = 2
    NoBody = NoBody
INVARIANTS
    DownloadInv
    RetriesBounded
    NilMeansWhole
    NoBodyLeft
    RootCause
PROPERTIES
    ImplementsMap
