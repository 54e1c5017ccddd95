SPECIFICATION FairSpec
CONSTANTS
    c1 = c1
    c2 = c2
    v1 = v1
    v2 = v2
    Callers <- TwoCallers
    Nobody = Nobody
    Sources <- TwoRemotes
    Network <- TwoRemotes
    NoSource = "nil"
    Plans <- RemoteOrders
    Choices <- Online
    Versions = {v1}
    NoEntry = NoEntry
    Unreadable = Unreadable
    NoPin = NoPin
    Retries = 2
    InitialLegacy = {NoEntry}
    Faults = {"crash", "disk"}
INVARIANTS TypeOK HeldWhereInside FailureReport
PROPERTY AcquireReturns
