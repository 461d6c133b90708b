SPECIFICATION FairSpec
CONSTANTS
    SyncPolicy = "everysec"
    MaxBatch = 2
    MaxCommands = 3
    MaxCrashes = 1
    MaxFaults = 2
INVARIANTS OwedSurvives AlwaysRecoverable
PROPERTIES RewriteEnds CloseEnds
