SPECIFICATION ChatSpec
CONSTANTS
    Conns = {c1, c2}
    MaxLines = 1
INVARIANTS
    ChatTypeOK
    NoPanic
    ClientsHaveWriters
    OnlyTheLastIsLost
PROPERTIES
    IsChatRoom
    NobodyKeptWaiting
