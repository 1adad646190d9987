SPECIFICATION CgssSpec
CONSTANTS
    Clients = {c1, c2}
    Sessions = {s1, s2}
    NoSession = NoSession
    Close = Close
    NoString = NoString
    Names = {ann}
    MaxPlayers = 1
    MaxMessages = 2
    MqCap = 1
INVARIANTS
    CgssTypeOK
    HandlerServesItsClient
PROPERTIES
    IsLobby
    CommandsEnd
    BroadcastsArePrinted
