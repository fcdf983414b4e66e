SPECIFICATION MCSpec
CONSTANTS
    Files <- MCFiles
    Versions <- MCVersions
    Compatible <- MCCompatible
    None = None
    Missing = Missing
    NoSnapshot = NoSnapshot
    Server = Server
    Editors = {e1}
    Operations = {"edit"}
    MaxWrites = 1
    MaxTouches = 0
    MaxFaults = 0
PROPERTIES
    Serves
CHECK_DEADLOCK FALSE
