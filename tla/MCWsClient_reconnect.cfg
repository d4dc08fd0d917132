CONSTANTS
    Sockets = {s1, s2, s3, s4}
    NoSocket = NoSocket
    MaxAttempts = 2
    MaxFuel = 5
SPECIFICATION Spec
INVARIANTS
    TypeOK
    OneConnection
    DisconnectIsFinal
    FlagTellsTruth
PROPERTIES
    Reconnects
    KeepsUpdated
CHECK_DEADLOCK FALSE
