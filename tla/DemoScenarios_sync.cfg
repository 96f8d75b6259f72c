\* The four scripts of demo.py, and a free environment of three events.
SPECIFICATION FairScript
CONSTANTS
    Scripts = {"free", "normal", "lost_puback", "broker_restart", "controller_restart"}
    MaxSamples = 2
    MaxFaults = 2
    MaxEvents = 3
INVARIANTS
    ReportedWasTrue
    ConfirmedMeansTarget
    RequirementsHold
PROPERTIES
    Concludes
    Converges
CHECK_DEADLOCK FALSE
