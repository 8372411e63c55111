SPECIFICATION Spec
CONSTANTS
    Fields <- MCFields
    DefaultFields <- MCDefault
    InitiallyFalse <- MCInitiallyFalse
    MandatoryFields <- MCMandatory
    Dependencies <- MCDependencies
    UnmetGoals <- MCUnmetGoals
    DeadEnds <- MCDeadEnds
    Actions <- MCActions
    EvidenceActions <- MCEvidenceActions
    Satisfies <- MCSatisfies
    Preconditions <- MCPreconditions
    AcceptedDocs <- MCAcceptedDocs
    Ambiguities = {"INCOME_MISMATCH"}
    AmbiguityField <- MCAmbiguityField
    NoAmbiguity = NoAmbiguity
    JourneyIds = {j1, j2}
    Clients = {c1, c2}
    Keys = {k1, k2}
    Uploads = {u1}
    DocTypes = {"SLIP", "OTHER"}
    Verdicts <- MCVerdicts
    Inputs <- MCKeyInputs
    Answers <- MCAnswers
    EvidenceOptional = FALSE
    MaxVersion = 3
    Reviewers = {}
    NoReviewer = NoReviewer
    NoUpload = NoUpload
    NoKey = NoKey
    NoOne = NoOne
    None = None
SYMMETRY KeySymmetry
INVARIANTS
    KeyAppliedOnce
    AcknowledgedIsDurable
PROPERTIES
    RefusedWasNotExecuted
