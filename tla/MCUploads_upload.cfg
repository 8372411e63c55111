SPECIFICATION FairSpec
CONSTANTS
    DocTypes <- MCDocTypes
    NoDoc = NoDoc
    None = None
    Fields = {"monthly_income", "bank_account_verified"}
    BooleanFields = {"bank_account_verified"}
    Income = "monthly_income"
    SalarySlip = "SALARY_SLIP"
    Mapping <- MCMapping
    Ruled = {"monthly_income", "bank_account_verified"}
    Sought <- MCSought
    IdentifierDocs = {"CANCELLED_CHEQUE"}
    AlikeNames = {}
    MockValue <- MCMockValue
    MockClash = 62
    Template <- MCTemplate
    Blank <- MCBlank
    rahul = rahul
    priya = priya
    amit = amit
    ifsc = ifsc
    MaxUploads = 3
    Cases <- MCCases
    Answers <- MCAnswers
    Settings <- MCSettings
    Accepts <- MCAccepts
    Satisfies <- MCSatisfies
    Starts <- MCStarts
    MaxPolls = 2
    MaxVersion = 3
CHECK_DEADLOCK FALSE
INVARIANTS
    UploadsTypeOK
    VerifiedIsEarned
    NameAgreesWithLatest
    PreviewLeadsSomewhere
PROPERTIES
    OverwritesOnlyUnseen
    UploadIsAnswered
