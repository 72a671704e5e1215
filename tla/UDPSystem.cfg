SPECIFICATION SystemSpec
CONSTANTS
    JunkReturns = {"READY_FOR_INPUT"}
    Retrans = 1
    IdMod = 6
    ServerIds = {0, 1, 2}
    Ports = {1, 2}
    ServerPort = 1
    SessionPort = 2
    MaxSent = 4
    MaxServed = 3
INVARIANTS
    SystemTypeOK
    ConfirmedIsShown
    
    EndsTogether
PROPERTIES
    ConfirmedIsHeard
    ShownOnce
    ToldTheTruth
