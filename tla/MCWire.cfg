CONSTANTS
    Sessions <- MCSessions
    GatewayId = 1
SPECIFICATION Spec
INVARIANTS TypeOK BrokerReadsSaid ClientReadsSaid AllArrive
CHECK_DEADLOCK FALSE
