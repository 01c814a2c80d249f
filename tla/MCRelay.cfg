CONSTANTS
    a = a
    st = st
    Names <- MCNames
    Shorts <- MCShorts
    Normal = 2
    Wrap = 6
    Clients <- MCClients
    MaxInflight = 2
    MaxSend = 5
    MaxPublish = 1
    MaxQueue = 2
SPECIFICATION FairSpec
INVARIANTS TypeOK IdsDistinct NeverMisrouted RegisteredFirst IdKept
PROPERTIES PublishAnswered
CHECK_DEADLOCK FALSE
