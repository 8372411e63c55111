SPECIFICATION ReviewSpec
CONSTANTS
    Fields <- MCFields
    DefaultFields = {}
    InitiallyFalse = {}
    MandatoryFields <- MCFields
    Dependencies = {}
    UnmetGoals = {}
    DeadEnds = {}
    Actions = {"LINK"}
    EvidenceActions = {}
    Satisfies <- MCSatisfies
    Preconditions <- MCNoFields
    AcceptedDocs <- MCNoFields
    Ambiguities = {"INCOME_MISMATCH"}
    AmbiguityField <- MCAmbiguityField
    NoAmbiguity = NoAmbiguity
    JourneyIds = {j1}
    Clients = {c1}
    Keys = {k1, k2}
    Uploads = {}
    DocTypes = {}
    Verdicts <- MCVerdicts
    Inputs <- MCInputs
    Answers <- MCAllAnswers
    EvidenceOptional = FALSE
    MaxVersion = 3
    Reviewers = {d1, d2}
    NoReviewer = NoReviewer
    NoUpload = NoUpload
    NoKey = NoKey
    NoOne = NoOne
    None = None
    Desks = {d1, d2}
    ReviewerOf <- MCOwnDesk
    MaxCaseVersion = 3
SYMMETRY DeskSymmetry
INVARIANTS
    ReviewTypeOK
    ResolutionIsCarriedOut
    OneOpenCasePerQuestion
PROPERTIES
    QuestionsReachReviewers
