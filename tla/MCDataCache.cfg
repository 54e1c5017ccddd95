SPECIFICATION Spec
CONSTANTS
    c1 = c1
    c2 = c2
    v1 = v1
    v2 = v2
    Callers <- TwoCallers
    Versions <- TwoVersions
    Damaged = Damaged
    NoFile = NoFile
    NoPin = NoPin
    Kinds <- AllKinds
    Retries = 2
    InitialData = {NoFile}
    Faults <- AllFaults
SYMMETRY CallerSymmetry
INVARIANTS TypeOK ServedIsVerified NoOrphanData MixedCacheHeals OfflineOnlyReads
PROPERTY CallAdvances
