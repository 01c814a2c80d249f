CONSTANTS
    Secure = {FALSE, TRUE}
    Requesters <- AnyRequesters
    MaxOpen = 2
SPECIFICATION Spec
INVARIANTS TypeOK ClosedOnce NoLeak SessionOnSocket
PROPERTIES ReturnsClosed HandedBack
CHECK_DEADLOCK FALSE
