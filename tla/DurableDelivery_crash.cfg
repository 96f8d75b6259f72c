\* Two deliveries, one with Message Expiry: crash and recovery, lost
\* connections, a forgetful broker.
SPECIFICATION Spec
CONSTANTS
    d1 = d1
    d2 = d2
    NoDelivery = NoDelivery
    Deliveries <- Two
    MaxPacketId = 2
    MaxRecords = 2
    MaxInflight = 2
    Mqtt5 = TRUE
    ReconnectAttempts = 1
    Expirable <- Nobody
    MessageExpirable <- One
    MaxGen = 2
    MaxLives = 2
    MaxFaults = 0
CHECK_DEADLOCK FALSE
INVARIANTS
    EvidenceKept
    CompletionIsTrue
PROPERTIES
    FirstCopyHasNoPredecessor
    ReplayKeepsOrder
