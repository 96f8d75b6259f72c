\* Applications that start whenever they can, a tool that dies anywhere.
SPECIFICATION FairSpec
CONSTANTS
    EarlyTarget = TRUE
    MaxEdits = 2
    MaxCrashes = 4
INVARIANTS
    OneOwner
    EvidenceArchived
    HandedOverClean
    RefusalsHaveCause
PROPERTIES
    NewSessionSurvives
    NeverReplaces
    Settles
CHECK_DEADLOCK FALSE
