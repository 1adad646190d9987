SPECIFICATION WindowSpec
CONSTANTS
    Undefined = Undefined
    EveryAdapter = EveryAdapter
    Null = Null
    Sut = Sut
    Adapters = {a1, a2}
    Sockets = {s1, s2}
    Suts = {"sgsn-mme"}
    MaxRegions = 2
    MaxChanges = 2
    MaxChanging = 1
    MaxPending = 3
    MaxLiberties = 1
SYMMETRY Symmetry
CHECK_DEADLOCK FALSE
INVARIANTS
    WindowTypeOK
    BoxesCatchUp
    ListenersAreLive
    SavesFit
