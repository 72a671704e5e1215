---------------------------- MODULE FSMValidate ----------------------------
(***************************************************************************)
(* The Mealy machine of the chat session: class FSMValidate.  A protocol   *)
(* handler offers every user command and every server message to           *)
(* validate_action before it acts on it.  Here the value the call returns  *)
(* is the state function Reaction(a) and what it does to the object is the *)
(* action ValidateAction(a), so a handler's action conjoins both.  A call  *)
(* may also return nothing; what is read then is any member of Returns(a). *)
(* The handlers never make such a call (FsmAlwaysAnswers of each client),  *)
(* so their actions need only Reaction.                                    *)
(***************************************************************************)

VARIABLES
    currentState,     \* State
    previousState,    \* State, "UNINIT" until the first assignment
    expectedAction    \* std::vector<Action>, only ever read as a set

fsmVars == <<currentState, previousState, expectedAction>>

States == {"START", "AUTH", "OPEN", "ERROR", "END"}

\* The actions get_source calls a user's, and the server's.
UserActions   == {"EMPTY_USER", "AUTHORIZE_USER", "JOIN_USER", "MESSAGE_USER",
                  "BYE_USER", "ERROR_USER"}
ServerActions == {"EMPTY_SERVER", "MESSAGE_SERVER", "BYE_SERVER", "ERROR_SERVER",
                  "REPLY_SERVER", "NREPLY_SERVER"}
Actions == UserActions \cup ServerActions

\* What a caller of validate_action may read; NOT_AN_ACTION is any value none
\* of them compares the result with.
Results == {"ANY", "WARN_CLIENT", "ERROR_USER", "OVER", "NOT_AN_ACTION"}

FSMTypeOK ==
    /\ currentState \in States
    /\ previousState \in States \cup {"UNINIT"}
    /\ expectedAction \subseteq Actions \cup {"ANY"}

\* Mutant: a constructor that expects an authorisation first.
FSMInitGated ==
    /\ currentState = "START"
    /\ previousState = "UNINIT"
    /\ expectedAction = {"AUTHORIZE_USER"}

\* The constructor sets currentState only: expectedAction is empty and
\* previousState is an uninitialised member.
FSMInit ==
    /\ currentState = "START"
    /\ previousState = "UNINIT"
    /\ expectedAction = {}

-----------------------------------------------------------------------------
(* The transitions of START, AUTH and OPEN.                                *)

Live == {"START", "AUTH", "OPEN"}

Accepted(s) ==
    CASE s = "START" -> {"AUTHORIZE_USER"}
      [] s = "AUTH"  -> {"AUTHORIZE_USER", "BYE_USER", "ERROR_SERVER",
                         "REPLY_SERVER", "NREPLY_SERVER"}
      [] s = "OPEN"  -> {"MESSAGE_SERVER", "REPLY_SERVER", "NREPLY_SERVER",
                         "JOIN_USER", "MESSAGE_USER", "ERROR_SERVER",
                         "BYE_SERVER", "BYE_USER", "ERROR_USER"}
      [] OTHER       -> {}

\* Mutant: any answer to the authorisation opens the session.
TargetOnAnyReply(s, a) ==
    CASE a \in {"ERROR_SERVER", "BYE_SERVER", "BYE_USER", "ERROR_USER"} -> "END"
      [] s = "START"                                           -> "AUTH"
      [] s = "AUTH" /\ a \in {"REPLY_SERVER", "NREPLY_SERVER"} -> "OPEN"
      [] OTHER                                                 -> s

Target(s, a) ==
    CASE a \in {"ERROR_SERVER", "BYE_SERVER", "BYE_USER", "ERROR_USER"} -> "END"
      [] s = "START"                      -> "AUTH"
      [] s = "AUTH" /\ a = "REPLY_SERVER" -> "OPEN"
      [] OTHER                            -> s

\* The expectedAction a transition leaves behind; {"ANY"} means no restriction.
Expects(s, a) ==
    CASE a = "ERROR_SERVER"                      -> {"BYE_USER"}
      [] s = "AUTH" /\ a = "AUTHORIZE_USER"      -> {"REPLY_SERVER", "NREPLY_SERVER",
                                                     "ERROR_SERVER"}
      [] s = "AUTH" /\ a = "NREPLY_SERVER"       -> {"AUTHORIZE_USER"}
      [] s = "AUTH" /\ a = "BYE_USER"            -> {"EMPTY_SERVER", "ERROR_SERVER"}
      [] s = "OPEN" /\ a = "BYE_USER"            -> {"ERROR_SERVER"}
      [] s = "OPEN" /\ a = "ERROR_USER"          -> {"BYE_SERVER"}
      [] OTHER                                   -> {"ANY"}

-----------------------------------------------------------------------------
(* validate_action, first part: while expectedAction restricts what may    *)
(* come next, the switch over currentState is not reached.                 *)

Gated == expectedAction # {} /\ "ANY" \notin expectedAction

PassGate(a) ==
    /\ Gated /\ a \in expectedAction
    /\ expectedAction' = {"ANY"}
    /\ UNCHANGED <<currentState, previousState>>

WarnAtGate(a) ==
    /\ Gated /\ a \in UserActions \ expectedAction
    /\ expectedAction' = {"ANY"}
    /\ currentState' = previousState
    /\ UNCHANGED previousState

\* Mutants: the gate is opened, or kept.
FailOpensGate(a) ==
    /\ Gated /\ a \in ServerActions \ expectedAction
    /\ expectedAction' = {"ANY"} /\ currentState' = "ERROR"
    /\ UNCHANGED previousState

FailKeepsGate(a) ==
    /\ Gated /\ a \in ServerActions \ expectedAction
    /\ currentState' = "ERROR"
    /\ UNCHANGED <<previousState, expectedAction>>

FailAtGate(a) ==
    /\ Gated /\ a \in ServerActions \ expectedAction
    /\ expectedAction' = {"BYE_USER"}
    /\ currentState' = "ERROR"
    /\ UNCHANGED previousState

(* Second part: the switch.                                                *)

Transition(a) ==
    /\ ~Gated /\ currentState \in Live /\ a \in Accepted(currentState)
    /\ previousState' = currentState
    /\ currentState' = Target(currentState, a)
    /\ expectedAction' = Expects(currentState, a)

WarnInSwitch(a) ==
    /\ ~Gated /\ currentState \in Live /\ a \in UserActions \ Accepted(currentState)
    /\ previousState' = currentState
    /\ expectedAction' = {"ANY"}
    /\ UNCHANGED currentState

\* Mutant: previousState is not recorded.
FailUnrecorded(a) ==
    /\ ~Gated /\ currentState \in Live /\ a \in ServerActions \ Accepted(currentState)
    /\ currentState' = "ERROR"
    /\ expectedAction' = {"BYE_USER"}
    /\ UNCHANGED previousState

FailInSwitch(a) ==
    /\ ~Gated /\ currentState \in Live /\ a \in ServerActions \ Accepted(currentState)
    /\ previousState' = currentState
    /\ currentState' = "ERROR"
    /\ expectedAction' = {"BYE_USER"}

\* ERROR and END: only BYE_USER in ERROR moves, everything else stays.
Terminal(a) ==
    /\ ~Gated /\ currentState \notin Live
    /\ previousState' = currentState
    /\ currentState' = IF currentState = "ERROR" /\ a = "BYE_USER" THEN "END"
                                                                  ELSE currentState
    /\ UNCHANGED expectedAction

ValidateAction(a) ==
    \/ PassGate(a) \/ WarnAtGate(a) \/ FailAtGate(a)
    \/ Transition(a) \/ WarnInSwitch(a) \/ FailInSwitch(a)
    \/ Terminal(a)

Allowed(a) == IF Gated THEN a \in expectedAction ELSE a \in Accepted(currentState)

\* The value the call returns; NO_RETURN marks the calls that fall off the end
\* of the function in State::ERROR and return none.
Reaction(a) ==
    CASE ~Gated /\ currentState = "END"   -> "OVER"
      [] ~Gated /\ currentState = "ERROR" -> IF a = "BYE_USER" THEN "ANY" ELSE "NO_RETURN"
      [] ~Gated /\ currentState = "AUTH" /\ a = "BYE_USER" -> "OVER"
      [] OTHER -> IF Allowed(a) THEN "ANY"
                  ELSE IF a \in UserActions THEN "WARN_CLIENT" ELSE "ERROR_USER"

\* Then the caller reads whatever the register holds, ANY for one.
Returns(a) == IF Reaction(a) = "NO_RETURN" THEN Results ELSE {Reaction(a)}

=============================================================================
