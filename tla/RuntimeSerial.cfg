SPECIFICATION MCSpec
CONSTANTS
    Instances <- MCInstances
    Globals <- MCGlobals
    Bodies <- MCBodies
    LogLevel <- MCLogLevel
    LogLevels <- MCGlobals
    Refs <- MCRefs
    Ports <- MCPorts
    Exposed <- MCExposed
    Endpoints <- MCEndpoints
    Accepts <- MCAccepts
    None = None
    All = All
    Stopped = Stopped
    Procs = {p1}
    Operations = {"start", "restart"}
    Systemd = TRUE
    MaxChanges = 2
    MaxFaults = 1
INVARIANTS
    TypeOK
    QuietRunIsIdempotent
    NoOrphans
PROPERTIES
    ImplementsDeployment
    TargetScope
CHECK_DEADLOCK FALSE
