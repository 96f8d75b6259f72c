\* Publishes of both kinds and a subscribe, credit for one publish,
\* identifiers that wrap around, a heartbeat, an incoming message and
\* DISCONNECT, with every way to end the generation.
SPECIFICATION Spec
CONSTANTS
    a = a
    p1 = p1
    p2 = p2
    s = s
    Close = Close
    Ping = Ping
    Puback = Puback
    NoItem = NoItem
    Publish0 = {a}
    Publish1 = {p1, p2}
    Subscribe = {s}
    Expiring = {a}
    SendCapacity = 2
    ControlCapacity = 2
    MaxInflight = 3
    ReceiveMaximum = 1
    MaxPacketId = 3
    MaxPings = 1
    MaxIncoming = 1
    Timers = TRUE
    Faults = TRUE
SYMMETRY Symmetric
INVARIANTS
    AnswersFindRequest
    ResultsAreTrue
    HandedInOrder
    PingsMatch
PROPERTIES
    NothingAfterDisconnect
    DisconnectSucceeds
CHECK_DEADLOCK FALSE
