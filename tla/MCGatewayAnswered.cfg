CONSTANTS
    Stable = FALSE
    Prompt = TRUE
    BrokerFails = FALSE
    StrictBroker = FALSE
    Inputs <- MCAll
    Codes = {"accepted", "rejected"}
    MaxRecv = 5
    MaxPublish = 0
    MaxQueue = 3
SPECIFICATION FairSpec
PROPERTIES FreshConnectAnswered
CHECK_DEADLOCK FALSE
