CONSTANTS
    a = a
    b = b
    c = c
    NoCursor = NoCursor
    NilSelector = NilSelector
    VolumeLists <- DistinctLists
    ReplicaCounts = {0, 1, 2}
    PodLabels <- TemplateLabels
    PDBSets <- NoExprPDBSets
SPECIFICATION Spec
PROPERTY OutcomeJustified
