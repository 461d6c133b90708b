SPECIFICATION Spec
CONSTANTS
    SyncPolicy = "always"
    MaxBatch = 1
    MaxCommands = 2
    MaxCrashes = 2
    MaxFaults = 1
INVARIANT OwedAlwaysSurvives
