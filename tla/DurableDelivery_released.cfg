\* An expiry whose connection is lost while it commits.
SPECIFICATION Spec
CONSTANTS
    d1 = d1
    d2 = d2
    NoDelivery = NoDelivery
    Deliveries <- One
    MaxPacketId = 2
    MaxRecords = 2
    MaxInflight = 2
    Mqtt5 = FALSE
    ReconnectAttempts = 1
    Expirable <- One
    MessageExpirable <- Nobody
    MaxGen = 2
    MaxLives = 1
    MaxFaults = 0
CHECK_DEADLOCK FALSE
INVARIANTS
    CompletedIsReleased
