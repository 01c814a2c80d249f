CONSTANTS
    Stable = FALSE
    Prompt = FALSE
    BrokerFails = TRUE
    StrictBroker = TRUE
    Inputs <- MCAll
    Codes = {"accepted", "rejected"}
    MaxRecv = 2
    MaxPublish = 1
    MaxQueue = 3
SPECIFICATION Spec
INVARIANTS TypeOK EventsPaired AcceptedByBroker WillForwarded
CHECK_DEADLOCK FALSE
