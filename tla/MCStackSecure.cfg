CONSTANTS
    Secure = {TRUE}
    Requesters <- NoRequesters
    MaxOpen = 2
SPECIFICATION Spec
PROPERTY DisconnectReturns
CHECK_DEADLOCK FALSE
