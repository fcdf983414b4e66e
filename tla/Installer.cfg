SPECIFICATION Spec
CONSTANTS
    Contents <- MCContents
    Names <- MCNames
    UnsafeNames <- MCUnsafeNames
    BinaryNames <- MCBinaryNames
    Archive <- MCArchive
    BuiltinSingBox = "old"
    BuiltinRules <- MCBuiltinRules
    Requests <- MCRequests
    None = None
    Link = Link
    Digest = Digest
    MaxCommands = 3
    MaxLinks = 1
    MaxFaults = 2
INVARIANTS
    TypeOK
    MarkerTruthful
    DoneIsDone
    FailureRollsBack
PROPERTIES
    LinksAreKept
CHECK_DEADLOCK FALSE
