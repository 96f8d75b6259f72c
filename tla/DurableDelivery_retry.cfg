\* A store failure while the rows are being quarantined.
SPECIFICATION Spec
CONSTANTS
    d1 = d1
    d2 = d2
    NoDelivery = NoDelivery
    Deliveries <- One
    MaxPacketId = 2
    MaxRecords = 2
    MaxInflight = 2
    Mqtt5 = TRUE
    ReconnectAttempts = 2
    Expirable <- Nobody
    MessageExpirable <- Nobody
    MaxGen = 3
    MaxLives = 1
    MaxFaults = 1
CHECK_DEADLOCK FALSE
PROPERTIES
    NoRetryAfterStoreFailure
