SPECIFICATION Spec
CONSTANTS
    NumInstances = 1
    NumPeriods = 1
    Kinds = {"systemd", "launchd"}
    Commands = {"setup", "install", "uninstall", "purge", "start"}
    All = All
    MaxCommands = 4
    MaxEdits = 2
    MaxFaults = 0
INVARIANTS
    PurgeStopsServices
CHECK_DEADLOCK FALSE
