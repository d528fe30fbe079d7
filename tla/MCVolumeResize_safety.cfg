CONSTANTS
    data = data
    logs = logs
    NoRef = NoRef
    StaleRef = StaleRef
    Empty = Empty
    NoCursor = NoCursor
    Replicas = 2
    Volumes <- OneVolume
    BindingModes = {"Immediate"}
    MaxPV = 5
    MaxCrashes = 1
    MigratorLoss = TRUE
    UserDeletes = FALSE
    UnboundAtStart <- UnboundReplicaOne
    MaxStsEdits = 0
SPECIFICATION Spec
INVARIANTS
    TypeOK
    StsRecoverable
PROPERTIES
    DataPVsNeverDeleted
    MigrationSafety
