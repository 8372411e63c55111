SPECIFICATION FairReviewSpec
CONSTANTS
    Fields <- MCFields
    DefaultFields = {}
    InitiallyFalse = {}
    MandatoryFields <- MCFields
    Dependencies = {}
    UnmetGoals = {}
    DeadEnds = {}
    Actions = {"LINK"}
    EvidenceActions = {}
    Satisfies <- MCSatisfies
    Preconditions <- MCNoFields
    AcceptedDocs <- MCNoFields
    Ambiguities = {"INCOME_MISMATCH"}
    AmbiguityField <- MCAmbiguityField
    NoAmbiguity = NoAmbiguity
    JourneyIds = {j1}
    Clients = {c1}
    Keys = {k1, k2}
    Uploads = {u1}
    DocTypes = {"SLIP"}
    Verdicts <- MCVerdicts
    Inputs <- MCInputs
    Answers <- MCAnswers
    EvidenceOptional = FALSE
    MaxVersion = 3
    Reviewers = {r1}
    NoReviewer = NoReviewer
    NoUpload = NoUpload
    NoKey = NoKey
    NoOne = NoOne
    None = None
    Desks = {d1}
    ReviewerOf <- MCSameReviewer
    MaxCaseVersion = 3
PROPERTIES
    CaseFollowsTransitions
    ReviewsEnd
    RequestsEnd
