SPECIFICATION FairSpec
CONSTANTS
    c1 = c1
    c2 = c2
    c3 = c3
    s1 = s1
    s2 = s2
    Clients = {c1, c2, c3}
    Sessions = {s1, s2}
    Codes = {old, new}
    NoCode = NoCode
    Nobody = Nobody
    Settings <- MCSettings
    Scope <- MCScope
    SessionLimit <- MCSessionLimit
    GlobalLimit <- MCGlobalLimit
    Window = 2
    MaxKeys = 2
INVARIANTS
    FrontTypeOK
    WindowRespected
    AccessIsGranted
PROPERTIES
    WaitingHelps
    RequestEnds
