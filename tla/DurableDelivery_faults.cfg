\* One delivery with a deadline over two connections in each of two lives; every
\* SQLite statement may fail, once; the scheduler is fair.
SPECIFICATION FairSpec
CONSTANTS
    d1 = d1
    d2 = d2
    NoDelivery = NoDelivery
    Deliveries <- One
    MaxPacketId = 2
    MaxRecords = 2
    MaxInflight = 2
    Mqtt5 = TRUE
    ReconnectAttempts = 1
    Expirable <- One
    MessageExpirable <- Nobody
    MaxGen = 2
    MaxLives = 2
    MaxFaults = 1
CHECK_DEADLOCK FALSE
INVARIANTS
    BookMatchesTable
    SlotsExact
    NotSentIsTrue
    StorageErrorNeedsFault
    WriterOutlivesSession
PROPERTIES
    ImplementsContract
    StopSettles
    AttachmentEnds
