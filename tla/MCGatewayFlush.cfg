CONSTANTS
    Stable = TRUE
    Prompt = TRUE
    BrokerFails = FALSE
    StrictBroker = FALSE
    Inputs <- MCAll
    Codes = {"accepted"}
    MaxRecv = 3
    MaxPublish = 1
    MaxQueue = 3
SPECIFICATION FairSpec
PROPERTIES FlushEnds
CHECK_DEADLOCK FALSE
