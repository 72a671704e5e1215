SPECIFICATION SystemSpec
CONSTANTS
    JunkReturns = {"READY_FOR_INPUT"}
    Retrans = 1
    IdMod = 5
    ServerIds = {0, 1, 2}
    Ports = {1, 2}
    ServerPort = 1
    SessionPort = 2
    MaxSent = 3
    MaxServed = 3
PROPERTIES
    DuplicatesOnlyConfirmed
