SPECIFICATION Spec
CONSTANTS
    JunkReturns = {"NOT_A_STATE"}
    Retrans = 1
    IdMod = 4
    ServerIds = {0}
    Ports = {1}
    ServerPort = 1
INVARIANTS
    AtMostRetransResends
