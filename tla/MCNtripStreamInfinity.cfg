CONSTANTS
    Sockets = {1, 2, 3}
    NoSocket = NoSocket
    Refs = {11, 12, 13, 14, 15, 16, 17}
    NoRef = NoRef
    Unlimited = Unlimited
    Options <- MCPlainOptions
    StallTimeout = 2
    StallTick = 1
    GgaInterval = 1
    BackoffInitial = 1
    BackoffFactor = 2
    BackoffCap = 2
    PowOverflow = 2
SPECIFICATION Spec
PROPERTIES
    AnnouncedMeansWaiting
