---------------------------- MODULE FSMSession -----------------------------
(***************************************************************************)
(* The FSM on its own: a caller offers it any sequence of the actions in   *)
(* Offered, as a protocol handler does through validate_action.            *)
(***************************************************************************)
EXTENDS FSMValidate

CONSTANT Offered    \* the actions the caller ever passes to validate_action

ASSUME OfferedAssumption == Offered \subseteq Actions

VARIABLES
    action,      \* the argument of the last call, "none" before the first
    reaction,    \* and what the caller read as its result
    stage,       \* history: "new", "asked" (an AUTHORIZE_USER was accepted) or
                 \* "granted" (and a REPLY_SERVER came after it)
    farewell     \* history: BYE_USER was offered since ERROR was entered

vars == <<fsmVars, action, reaction, stage, farewell>>

Stages == {"new", "asked", "granted"}

TypeOK ==
    /\ FSMTypeOK
    /\ action \in Offered \cup {"none"}
    /\ reaction \in Results
    /\ stage \in Stages
    /\ farewell \in BOOLEAN

Init ==
    /\ FSMInit
    /\ action = "none" /\ reaction = "ANY"
    /\ stage = "new" /\ farewell = FALSE

NextStage(a, answer) ==
    CASE stage = "new" /\ a = "AUTHORIZE_USER" /\ answer = "ANY" -> "asked"
      [] stage = "asked" /\ a = "REPLY_SERVER"                   -> "granted"
      [] OTHER                                                   -> stage

Validate(a) ==
    /\ ValidateAction(a)
    /\ action' = a
    /\ reaction' \in Returns(a)
    /\ stage' = NextStage(a, reaction')
    /\ farewell' = (currentState' = "ERROR" /\ (farewell \/ a = "BYE_USER"))

Next == \E a \in Offered : Validate(a)

Spec == Init /\ [][Next]_vars

-----------------------------------------------------------------------------
(* A gate copies previousState only after validate_action has assigned it:  *)
(* the member has no initialiser.                                          *)
NoUninitialisedRead == Gated => previousState # "UNINIT"

(* A refused user action takes the machine back to previousState; it never  *)
(* takes a session back before its authorisation, nor into OPEN before a    *)
(* REPLY_SERVER that followed it.                                          *)
RestoredStateIsEarned ==
    /\ stage # "new" => currentState # "START"
    /\ currentState = "OPEN" => stage = "granted"

(* In ERROR every message of the server is refused with ERROR_USER, whatever *)
(* has replaced expectedAction in between, until the user says BYE_USER:    *)
(* that passes the gate and opens it, and from then on a call for a message *)
(* of the server may return anything (FSMValidate.cpp:180-188).             *)
ErrorRefusesServer ==
    currentState = "ERROR" /\ ~farewell =>
        \A a \in ServerActions : Returns(a) = {"ERROR_USER"}

(* And only an action of the user leads out of ERROR: a warned one back to  *)
(* where the session was, BYE_USER to END.                                 *)
OnlyUserLeavesError ==
    [][currentState = "ERROR" /\ currentState' # "ERROR" => action' \in UserActions]_vars

=============================================================================
