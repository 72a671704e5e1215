SPECIFICATION FairSpec
CONSTANTS
    JunkReturns = {"NOT_A_STATE", "WAITING_FOR_CONFIRMATION", "WAITING_FOR_REPLY", "READY_FOR_INPUT", "OVER"}
    Retrans = 2
    IdMod = 4
    ServerIds = {0}
    Ports = {1}
    ServerPort = 1
INVARIANTS
    TypeOK
    RetransmitsWhatItAwaits
    InputBlockedWhileUnconfirmed
    FsmAlwaysAnswers
    FullRetryBudget
    OpenOnlyIfGranted
    ErrorIsAwaited
PROPERTIES
    DeliversByStopAndWait
    KeepsSession
    SilenceEndsTheWait
