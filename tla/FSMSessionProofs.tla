-------------------------- MODULE FSMSessionProofs -------------------------
(***************************************************************************)
(* The FSM's invariants for every set of actions a caller may offer.       *)
(***************************************************************************)
EXTENDS FSMSession, FSMLemmas

\* Where a session stands says how it got there: the state it is in, and,
\* under a gate, the state a warned user action would take it back to.
Earned(s) ==
    /\ stage = "new"    => s \in {"START", "ERROR", "END"}
    /\ stage # "new"    => s # "START"
    /\ stage # "granted" => s # "OPEN"

StageInv ==
    /\ Earned(currentState)
    /\ Gated => previousState \in Live /\ Earned(previousState)
    /\ Gated /\ "AUTHORIZE_USER" \in expectedAction => currentState = "AUTH"

\* The gate entered with ERROR is there until BYE_USER has passed it.
FarewellInv == currentState = "ERROR" /\ ~farewell => expectedAction = {"BYE_USER"}

IInv == TypeOK /\ FSMInv /\ FarewellInv /\ StageInv

USE DEF FSMTypeOK, States, Actions, UserActions, ServerActions, Live, Gated

LEMMA InitIInv == Init => IInv
BY DEF Init, FSMInit, IInv, TypeOK, FSMInv, FarewellInv, StageInv, Earned, Stages, Results

LEMMA NextStageType ==
    ASSUME stage \in Stages, NEW a \in Actions, NEW answer
    PROVE  NextStage(a, answer) \in Stages
BY DEF NextStage, Stages

LEMMA ReactionType ==
    ASSUME NEW a \in Actions
    PROVE  Returns(a) \subseteq Results
BY DEF Reaction, Returns, Results

(* A call moves the session on only as the stage says.                      *)
LEMMA ValidateStage ==
    ASSUME TypeOK, FSMInv, StageInv, NEW a \in Actions, Validate(a)
    PROVE  StageInv'
<1> USE DEF StageInv, Earned, TypeOK, FSMInv
<1>0. ValidateAction(a) /\ stage' = NextStage(a, reaction')
  BY DEF Validate
<1>n. /\ stage # "new" => NextStage(a, reaction') # "new"
      /\ stage = "granted" => NextStage(a, reaction') = "granted"
      /\ stage # "new" /\ a = "REPLY_SERVER" => NextStage(a, reaction') = "granted"
      /\ stage = "new" /\ ~(a = "AUTHORIZE_USER" /\ reaction' = "ANY") => NextStage(a, reaction') = "new"
      /\ stage = "new" => NextStage(a, reaction') # "granted"
      /\ a = "AUTHORIZE_USER" /\ reaction' = "ANY" => NextStage(a, reaction') # "new"
  BY DEF NextStage, Stages
<1>1. CASE PassGate(a)
  <2>1. a = "AUTHORIZE_USER" => stage # "new"
    BY <1>1 DEF PassGate
  <2> QED  BY <1>0, <1>1, <1>n, <2>1 DEF PassGate
<1>2. CASE WarnAtGate(a)
  <2>1. reaction' = "WARN_CLIENT"
    BY <1>2 DEF Validate, Returns, WarnAtGate, Reaction, Allowed
  <2> QED  BY <1>0, <1>2, <1>n, <2>1 DEF WarnAtGate
<1>3. CASE FailAtGate(a)
  BY <1>0, <1>3, <1>n DEF FailAtGate
<1>4. CASE Transition(a)
  <2>1. CASE currentState = "START"
    <3>1. a = "AUTHORIZE_USER"
      BY <1>4, <2>1 DEF Transition, Accepted
    <3>2. reaction' = "ANY"
      BY <1>4, <2>1, <3>1 DEF Validate, Returns, Transition, Reaction, Allowed
    <3>3. currentState' = "AUTH" /\ expectedAction' = {"ANY"}
      BY <1>4, <2>1, <3>1 DEF Transition, Target, Expects
    <3> QED  BY <1>0, <1>n, <2>1, <3>1, <3>2, <3>3
  <2>2. CASE currentState = "AUTH"
    <3>1. /\ currentState' \in {"AUTH", "OPEN", "END"}
          /\ currentState' = "OPEN" => a = "REPLY_SERVER"
          /\ "AUTHORIZE_USER" \in expectedAction' => currentState' = "AUTH"
          /\ previousState' = "AUTH"
      BY <1>4, <2>2 DEF Transition, Target, Expects
    <3> QED  BY <1>0, <1>n, <2>2, <3>1
  <2>3. CASE currentState = "OPEN"
    <3>1. /\ currentState' \in {"OPEN", "END"}
          /\ "AUTHORIZE_USER" \notin expectedAction'
          /\ previousState' = "OPEN"
      BY <1>4, <2>3 DEF Transition, Target, Expects
    <3> QED  BY <1>0, <1>n, <2>3, <3>1
  <2> QED  BY <1>4, <2>1, <2>2, <2>3 DEF Transition
<1>5. CASE WarnInSwitch(a)
  BY <1>0, <1>5, <1>n DEF WarnInSwitch, Accepted
<1>6. CASE FailInSwitch(a)
  BY <1>0, <1>6, <1>n DEF FailInSwitch
<1>7. CASE Terminal(a)
  BY <1>0, <1>7, <1>n DEF Terminal
<1> QED  BY <1>0, <1>1, <1>2, <1>3, <1>4, <1>5, <1>6, <1>7 DEF ValidateAction

(* The gate of ERROR outlives everything but BYE_USER.                      *)
LEMMA ValidateFarewell ==
    ASSUME TypeOK, FarewellInv, StageInv, NEW a \in Actions, Validate(a)
    PROVE  FarewellInv'
<1> USE DEF FarewellInv, TypeOK
<1>0. /\ ValidateAction(a)
      /\ farewell' = (currentState' = "ERROR" /\ (farewell \/ a = "BYE_USER"))
  BY DEF Validate
<1>1. CASE PassGate(a)
  BY <1>0, <1>1 DEF PassGate
<1>2. CASE WarnAtGate(a)
  BY <1>0, <1>2 DEF WarnAtGate, StageInv
<1>3. CASE FailAtGate(a)
  BY <1>3 DEF FailAtGate
<1>4. CASE Transition(a)
  BY <1>4 DEF Transition, Target
<1>5. CASE WarnInSwitch(a)
  BY <1>5 DEF WarnInSwitch
<1>6. CASE FailInSwitch(a)
  BY <1>6 DEF FailInSwitch
<1>7. CASE Terminal(a)
  BY <1>0, <1>7 DEF Terminal
<1> QED  BY <1>0, <1>1, <1>2, <1>3, <1>4, <1>5, <1>6, <1>7 DEF ValidateAction

(* IInv is inductive.                                                       *)
LEMMA NextIInv == IInv /\ [Next]_vars => IInv'
<1> SUFFICES ASSUME IInv, [Next]_vars PROVE IInv'
  OBVIOUS
<1> USE DEF IInv
<1>1. ASSUME NEW a \in Offered, Validate(a) PROVE IInv'
  <2>1. a \in Actions
    BY OfferedAssumption
  <2>2. ValidateAction(a)
    BY <1>1 DEF Validate
  <2>3. TypeOK'
    BY <1>1, <2>1, <2>2, ValidateType, ReactionType, NextStageType DEF TypeOK, Validate
  <2>4. FSMInv' /\ FarewellInv'
    BY <1>1, <2>1, <2>2, ValidateInv, ValidateFarewell DEF TypeOK
  <2>5. StageInv'
    BY <1>1, <2>1, ValidateStage
  <2> QED  BY <2>3, <2>4, <2>5
<1>2. CASE UNCHANGED vars
  BY <1>2 DEF vars, fsmVars, TypeOK, FSMInv, FarewellInv, StageInv, Earned
<1> QED  BY <1>1, <1>2 DEF Next

(* The FSM is always in a state reached by IInv's account of it.            *)
THEOREM Invariance == Spec => []IInv
BY InitIInv, NextIInv, PTL DEF Spec

(* The members stay within their enumerations.                              *)
THEOREM TypeCorrect == Spec => []TypeOK
BY Invariance, PTL DEF IInv

(* previousState is never read before validate_action has assigned it.      *)
THEOREM PreviousStateAssigned == Spec => []NoUninitialisedRead
<1>1. IInv => NoUninitialisedRead
  BY DEF IInv, FSMInv, NoUninitialisedRead
<1> QED  BY <1>1, Invariance, PTL

(* Whatever is offered, in any order: no way back to START once authorised, *)
(* and no OPEN before the positive reply.                                   *)
THEOREM SessionIsEarned == Spec => []RestoredStateIsEarned
<1>1. IInv => RestoredStateIsEarned
  BY DEF IInv, StageInv, Earned, RestoredStateIsEarned, TypeOK, Stages
<1> QED  BY <1>1, Invariance, PTL

(* Until the user says BYE_USER, a session in ERROR refuses whatever the    *)
(* server sends, with ERROR_USER and never with an undefined value.         *)
THEOREM ErrorRefuses == Spec => []ErrorRefusesServer
<1>1. IInv => ErrorRefusesServer
  BY DEF IInv, FarewellInv, ErrorRefusesServer, Returns, Reaction, Allowed
<1> QED  BY <1>1, Invariance, PTL

(* Only the user's next action leads out of ERROR.                          *)
THEOREM UserLeavesError == Spec => OnlyUserLeavesError
<1>1. IInv /\ [Next]_vars =>
        [currentState = "ERROR" /\ currentState' # "ERROR" => action' \in UserActions]_vars
  <2> SUFFICES ASSUME IInv, NEW a \in Offered, Validate(a), currentState = "ERROR",
                      currentState' # "ERROR"
               PROVE  action' \in UserActions
    BY DEF Next
  <2>1. a \in UserActions
    BY OfferedAssumption DEF Validate, ValidateAction, PassGate, WarnAtGate, FailAtGate,
       Transition, WarnInSwitch, FailInSwitch, Terminal
  <2> QED  BY <2>1 DEF Validate
<1> QED  BY <1>1, Invariance, PTL DEF Spec, OnlyUserLeavesError

=============================================================================
