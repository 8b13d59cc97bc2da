CONSTANTS
    NumRouters = 2
    Capacity = 2
    MaxVersion = 2
    MaxSkipped = 1
    Keep = {TRUE, FALSE}
    Oversized = {2}
    Nothing = Nothing
    NoHandle = NoHandle
SPECIFICATION Spec
INVARIANTS
    AcknowledgedIsLast
    GenerationsIncrease
    HandlesConserved
    BorrowedImmutable
PROPERTIES
    RoutesReachManagerByDeadline
    ChannelIsFifo
    ChannelProtocol
CHECK_DEADLOCK FALSE
