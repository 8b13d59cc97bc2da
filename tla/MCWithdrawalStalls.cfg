CONSTANTS
    NumRouters = 3
    Capacity = 2
    MaxVersion = 1
    MaxSkipped = 1
    Keep = {FALSE}
    Oversized = {}
    Nothing = Nothing
    NoHandle = NoHandle
SPECIFICATION Spec
PROPERTY RoutesReachManager
CHECK_DEADLOCK FALSE
