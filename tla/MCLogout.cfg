SPECIFICATION CenterSpec
CONSTANTS
    Sessions = {s1}
    NoSession = NoSession
    Names = {ann, bob}
    MaxPlayers = 2
    MaxMessages = 1
    MqCap = 1
PROPERTIES
    LogoutRemovesThePlayer
