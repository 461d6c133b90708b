SPECIFICATION Spec
CONSTANTS
    SyncPolicy = "always"
    MaxBatch = 2
    MaxCommands = 3
    MaxCrashes = 2
    MaxFaults = 3
INVARIANTS TypeOK StoreIsLogged OwedSurvives RefusedLeavesNoRecord AlwaysRecoverable
PROPERTY ReplacementIsEquivalent
