SPECIFICATION Spec
CONSTANTS
    NumInstances = 2
    NumPeriods = 2
    Kinds = {"systemd", "launchd"}
    Commands = {"setup", "install", "uninstall", "purge", "uninstall-resource", "traffic-install",
                "traffic-uninstall", "traffic-enable", "traffic-disable", "start", "stop"}
    All = All
    MaxCommands = 4
    MaxEdits = 2
    MaxFaults = 1
INVARIANTS
    TimersHaveFiles
    BaseOutlivesServices
    PurgeRemoves
    InstallReady
CHECK_DEADLOCK FALSE
