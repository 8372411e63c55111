SPECIFICATION Spec
CONSTANTS
    Fields <- MCFields
    DefaultFields <- MCDefault
    InitiallyFalse <- MCInitiallyFalse
    MandatoryFields <- MCMandatory
    Dependencies <- MCDependencies
    UnmetGoals <- MCUnmetGoals
    DeadEnds <- MCDeadEnds
    Actions <- MCActions
    EvidenceActions <- MCEvidenceActions
    Satisfies <- MCSatisfies
    Preconditions <- MCPreconditions
    AcceptedDocs <- MCAcceptedDocs
    Ambiguities = {"INCOME_MISMATCH"}
    AmbiguityField <- MCAmbiguityField
    NoAmbiguity = NoAmbiguity
    JourneyIds = {j1}
    Clients = {c1, c2}
    Keys = {k1, k2, k3}
    Uploads = {}
    DocTypes = {}
    Verdicts <- MCVerdicts
    Inputs <- MCRaceInputs
    Answers <- MCAllAnswers
    EvidenceOptional = FALSE
    MaxVersion = 4
    Reviewers = {r1}
    NoReviewer = NoReviewer
    NoUpload = NoUpload
    NoKey = NoKey
    NoOne = NoOne
    None = None
SYMMETRY RequestSymmetry
INVARIANTS
    TypeOK
    ChainIsLinear
    ExpectedStaysCurrent
    AuditAccountsForState
    CompletedOncePerReady
    ReadyIsEarned
