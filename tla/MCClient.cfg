CONSTANTS
    Names <- MCNames
    Subs <- MCSubs
    Configs <- MCConfigs
    Retry = 2
    MaxFlight = 1
SPECIFICATION FairSpec
INVARIANTS TypeOK DoneArrived NeverMisrouted Qos2Once SuspendedIsRegistered
PROPERTIES Completed JobEnds
CHECK_DEADLOCK FALSE
