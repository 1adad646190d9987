SPECIFICATION IpcSpec
CONSTANTS
    Clients = {c1, c2, c3}
    Sessions = {s1, s2, s3}
    NoSession = NoSession
    Requests = {r1, r2}
    Close = Close
    NoString = NoString
    Answer <- Echo
INVARIANTS
    IpcTypeOK
    OwnAnswer
    Paired
PROPERTIES
    CallReturns
    CloseEndsSession
