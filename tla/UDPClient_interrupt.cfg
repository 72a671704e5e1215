SPECIFICATION FairSpec
CONSTANTS
    JunkReturns = {"NOT_A_STATE"}
    Retrans = 1
    IdMod = 3
    ServerIds = {0}
    Ports = {1}
    ServerPort = 1
PROPERTIES
    InterruptSendsBye
