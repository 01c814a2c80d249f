CONSTANTS
    Stable = TRUE
    Prompt = FALSE
    BrokerFails = FALSE
    StrictBroker = FALSE
    Inputs <- MCPlain
    Codes = {"accepted"}
    MaxRecv = 2
    MaxPublish = 0
    MaxQueue = 3
SPECIFICATION FairSpec
PROPERTIES ConnectAnswered
CHECK_DEADLOCK FALSE
