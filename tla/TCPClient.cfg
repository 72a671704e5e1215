SPECIFICATION FairSpec
CONSTANTS
    JunkReturns = {"NOT_A_STATE", "WAITING_FOR_CONFIRMATION", "WAITING_FOR_REPLY", "READY_FOR_INPUT", "OVER"}
    Retrans = 1
    MaxBuffered = 2
INVARIANTS
    TypeOK
    FsmAlwaysAnswers
    OpenOnlyIfGranted
    BlockedOnlyForReply
    LeftOnlyWhileWaiting
    FarewellBeforeClose
PROPERTIES
    InterruptedPollEnds
    KeepsSession
