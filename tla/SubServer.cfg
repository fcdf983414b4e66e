SPECIFICATION MCSpec
CONSTANTS
    Files <- MCFiles
    Versions <- MCVersions
    Compatible <- MCCompatible
    None = None
    Missing = Missing
    NoSnapshot = NoSnapshot
    Server = Server
    Editors = {e1}
    Operations = {"import", "edit", "set-host", "remove", "clear"}
    MaxWrites = 2
    MaxTouches = 1
    MaxFaults = 1
INVARIANTS
    TypeOK
    ServedIsChecked
    CommandsKeepLoadable
PROPERTIES
    Heals
    Reports
CHECK_DEADLOCK FALSE
