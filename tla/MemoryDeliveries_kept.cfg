\* Two deliveries, one with Message Expiry, and a request that compete for
\* inflight places, one queue place, credit for one publish and identifiers
\* that wrap around; nothing is asked of the broker.
SPECIFICATION FairSpec
CONSTANTS
    d1 = d1
    d2 = d2
    r = r
    NoItem = NoItem
    Deliveries = {d1, d2}
    Expiring = {d2}
    Requests = {r}
    SendCapacity = 1
    MaxInflight = 2
    ReceiveMaximums = {1}
    MaxPacketId = 3
    ReconnectAttempts = 1
INVARIANTS
    AnswersFindTheirOwner
    LimitsHold
PROPERTIES
    CopiesAreDue
    ImplementsContract
    Settles
CHECK_DEADLOCK FALSE
