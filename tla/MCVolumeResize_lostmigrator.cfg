CONSTANTS
    data = data
    logs = logs
    NoRef = NoRef
    StaleRef = StaleRef
    Empty = Empty
    NoCursor = NoCursor
    Replicas = 2
    Volumes <- OneVolume
    BindingModes = {"Immediate"}
    MaxPV = 4
    MaxCrashes = 0
    MigratorLoss = TRUE
    UserDeletes = FALSE
    UnboundAtStart = {}
    MaxStsEdits = 0
SPECIFICATION Spec
INVARIANT ServedDataIntact
