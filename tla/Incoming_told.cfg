CONSTANTS
    ReceiveCapacity = 2
    ControlCapacity = 1
    ReconnectAttempts = 2
    MaxMessages = 3
    MaxFaults = 3
SPECIFICATION FairSpec
INVARIANT StoryInOrder
INVARIANT OnlyUnreadyIsLost
PROPERTY EndsForACause
PROPERTY Drains
CHECK_DEADLOCK FALSE
