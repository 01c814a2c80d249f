CONSTANTS
    Stable = TRUE
    Prompt = TRUE
    BrokerFails = FALSE
    StrictBroker = FALSE
    Inputs <- MCAll
    Codes = {"accepted"}
    MaxRecv = 4
    MaxPublish = 1
    MaxQueue = 3
SPECIFICATION Spec
INVARIANTS ConnectValid ActiveHasSession
CHECK_DEADLOCK FALSE
