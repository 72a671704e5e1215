SPECIFICATION Spec
CONSTANTS
    JunkReturns = {"NOT_A_STATE"}
    Retrans = 1
    MaxBuffered = 2
INVARIANTS
    AllCompleteMessagesProcessed
