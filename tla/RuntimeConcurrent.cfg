SPECIFICATION MCSpec
SYMMETRY ProcSymmetry
CONSTANTS
    Instances <- MCInstances
    Globals <- MCGlobals
    Bodies <- FewBodies
    LogLevel <- MCLogLevel
    LogLevels <- MCGlobals
    Refs <- MCRefs
    Ports <- MCPorts
    Exposed <- MCExposed
    Endpoints <- MCEndpoints
    Accepts <- MCAccepts
    None = None
    All = All
    Stopped = Stopped
    Procs = {p1, p2}
    Operations = {"restart"}
    Systemd = FALSE
    MaxChanges = 1
    MaxFaults = 1
INVARIANTS
    OnlyChecked
    QuietRunConverges
CHECK_DEADLOCK FALSE
