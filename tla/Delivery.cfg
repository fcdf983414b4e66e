SPECIFICATION Spec
CONSTANTS
    None = None
    Words <- MCWords
    TwoKeys = {"2022"}
    Instances = {"a", "b"}
    Globals <- MCGlobals
    Starts <- MCStarts
    Offered <- MCOffered
    Users = {"alice", "bob"}
    Owner <- MCOwner
    MaxEdits = 1
INVARIANTS
    Connects
    Relays
    OwnCredentials
    NamesUnique
CHECK_DEADLOCK FALSE
