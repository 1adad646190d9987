SPECIFICATION OtpSpec
CONSTANTS
    MAX_INSTANCE_NUMBER = 2
    MAX_TRIES = 2
    MAX_CHECKS = 1
    Procs = {1, 2, 3}
    MaxPipe = 3
INVARIANTS
    OtpTypeOK
    NoSharedPipes
PROPERTIES
    ItsPipes
    StatusIsRight
    CommandsEnd
