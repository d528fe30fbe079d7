CONSTANTS
    a = a
    b = b
    c = c
    NoCursor = NoCursor
    NilSelector = NilSelector
    VolumeLists <- DistinctLists
    ReplicaCounts = {1, 2, 3}
    PodLabels <- TemplateLabels
    PDBSets <- TwoPDBSets
    Commands <- AllCommands
    UserDeletes = TRUE
SPECIFICATION CSpec
INVARIANTS
    TypeOK
    WalkMatchesReference
    SwapsFollowOrder
    SwappedPairNeverRedone
    ValidationRespectsPDB
    SuccessMeansMigrated
PROPERTIES
    MigrationEnds
    CommandEnds
