SPECIFICATION ServerSpec
CONSTANTS
    Clients = {c1, c2}
    Orders = {o1, o2}
    Nobody = Nobody
    MaxCalls = 2
CHECK_DEADLOCK FALSE
INVARIANT CartTypeOK
PROPERTIES
    IsCart
    CallsReturn
