SPECIFICATION ReviewSpec
CONSTANTS
    Fields <- MCFields
    DefaultFields = {}
    InitiallyFalse = {}
    MandatoryFields <- MCFields
    Dependencies = {}
    UnmetGoals = {}
    DeadEnds = {}
    Actions = {"LINK"}
    EvidenceActions = {}
    Satisfies <- MCSatisfies
    Preconditions <- MCNoFields
    AcceptedDocs <- MCNoFields
    Ambiguities = {"INCOME_MISMATCH"}
    AmbiguityField <- MCAmbiguityField
    NoAmbiguity = NoAmbiguity
    JourneyIds = {j1}
    Clients = {c1}
    Keys = {k1, k2}
    Uploads = {}
    DocTypes = {}
    Verdicts <- MCVerdicts
    Inputs <- MCInputs
    Answers <- MCAnswers
    EvidenceOptional = FALSE
    MaxVersion = 3
    Reviewers = {r1}
    NoReviewer = NoReviewer
    NoUpload = NoUpload
    NoKey = NoKey
    NoOne = NoOne
    None = None
    Desks = {d1, d2}
    ReviewerOf <- MCSameReviewer
    MaxCaseVersion = 3
SYMMETRY DeskSymmetry
INVARIANTS
    ResolvedOnce
