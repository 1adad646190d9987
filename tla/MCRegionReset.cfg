SPECIFICATION RegionSpec
CONSTANTS
    a = a
    b = b
    c = c
    ann = ann
    bob = bob
    mme = mme
    few = few
    many = many
    attach = attach
    TestCases = {a, b, c}
    NoCase = NoCase
    Names = {ann, bob}
    Empty = Empty
    NoName = NoName
    Procedures = {attach}
    Mmes = {mme}
    Groups = {few, many}
    NoChoice = NoChoice
    Sizes = {1, 3}
    UEs <- SizesAtFirst
    Licence = 2
    NoBody = NoBody
    Stored <- AtFirst
    MaxClicks = 4
    MaxEvents = 0
    MaxActs = 4
    MaxStarts = 1
    MaxPending = 2
CHECK_DEADLOCK FALSE
INVARIANTS
    ResetLasts
