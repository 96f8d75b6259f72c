\* One sample and one broken connection.
SPECIFICATION FairScript
CONSTANTS
    Scripts = {"free"}
    MaxSamples = 1
    MaxFaults = 1
    MaxEvents = 2
PROPERTIES
    CannotPark
CHECK_DEADLOCK FALSE
