SPECIFICATION Spec
CONSTANTS
    Packs <- MCPacks
    NoAmbiguity = NoAmbiguity
    NoGroup = NoGroup
    MimeTypes = {}
    MaxRefusals = 1
INVARIANTS
    PlanIsExact
    AdviceIsExecutable
    AdviceMakesProgress
    OfferedActionHelps
    SimulationPredicts
    ReplayRebuilds
PROPERTIES
    DiffTellsTheTruth
