SPECIFICATION Spec
CONSTANTS
    Last = 4
    Contents <- MCContents
    None = None
    Loads <- Loadable
    Instances = {"a", "b"}
    InstanceOf <- MCInstanceOf
    MaxFaults = 1
    Ports = {1, 2, 3}
    Broken = Broken
    DefaultGlobal <- MCDefault
    Yaml <- MCYaml
    Templates <- MCTemplates
    Typed <- MCTyped
    Archives <- MCArchives
    Starts <- MCStarts
    Procs = {p1, p2}
    MaxCommands = 2
    MaxHand = 1
    MaxExports = 1
INVARIANTS
    TypeOK
    ImportIsAllOrNothing
    NothingLost
    StoppedFirst
PROPERTIES
    LockOutsHaveCauses
    AllocatedIsFree
    DraftsKept
SYMMETRY ProcSymmetry
CHECK_DEADLOCK FALSE
