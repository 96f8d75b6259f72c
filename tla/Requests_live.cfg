\* A broker that answers and no budgets needed, or one that may fall silent with
\* writes that may never return.
SPECIFICATION EitherSpec
CONSTANTS
    a = a
    s = s
    p1 = p1
    p2 = p2
    Close = Close
    Ping = Ping
    Puback = Puback
    NoItem = NoItem
    Publish0 = {}
    Publish1 = {p1, p2}
    Subscribe = {s}
    Expiring = {}
    SendCapacity = 2
    ControlCapacity = 1
    MaxInflight = 2
    ReceiveMaximum = 1
    MaxPacketId = 2
    MaxPings = 1
    MaxIncoming = 1
    Timers = TRUE
    Faults = FALSE
PROPERTIES
    Settles
CHECK_DEADLOCK FALSE
