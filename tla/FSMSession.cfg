SPECIFICATION Spec
CONSTANTS
    Offered = {"EMPTY_USER", "AUTHORIZE_USER", "JOIN_USER", "MESSAGE_USER", "BYE_USER", "ERROR_USER",
               "EMPTY_SERVER", "MESSAGE_SERVER", "BYE_SERVER", "ERROR_SERVER", "REPLY_SERVER", "NREPLY_SERVER"}
INVARIANTS
    TypeOK
    RestoredStateIsEarned
    ErrorRefusesServer
