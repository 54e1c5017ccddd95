SPECIFICATION Spec
CONSTANTS
    c1 = c1
    c2 = c2
    v1 = v1
    v2 = v2
    Callers <- TwoCallers
    Nobody = Nobody
    Sources <- TwoSources
    Network <- OnlyDirect
    NoSource = "nil"
    Plans <- RemoteFirst
    Choices <- SomePinned
    Versions = {v1, v2}
    NoEntry = NoEntry
    Unreadable = Unreadable
    NoPin = NoPin
    Retries = 2
    InitialLegacy = {NoEntry, v1}
    Faults <- AllFaults
SYMMETRY CallerSymmetry
INVARIANTS WaitersReuse ServedInOrder CleanUnderOwner
PROPERTY BrokenEntryEndsWalk
