SPECIFICATION CenterSpec
CONSTANTS
    Sessions = {s1, s2}
    NoSession = NoSession
    Names = {ann, bob}
    MaxPlayers = 3
    MaxMessages = 2
    MqCap = 1
SYMMETRY Interchangeable
INVARIANTS
    CenterTypeOK
    Exclusion
    NothingStale
    ExactDelivery
    MailboxesRead
PROPERTIES
    IsSerial
