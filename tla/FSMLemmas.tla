----------------------------- MODULE FSMLemmas -----------------------------
(***************************************************************************)
(* What one call of validate_action preserves, whoever makes it.           *)
(***************************************************************************)
EXTENDS FSMValidate, TLAPS

\* Before the first call previousState is unassigned, but then nothing is
\* expected and the switch, which assigns it, is reached; in START, too,
\* nothing is ever expected.
FSMInv ==
    /\ previousState = "UNINIT" => currentState = "START" /\ ~Gated
    /\ currentState = "START" => ~Gated

USE DEF FSMTypeOK, States, Actions, UserActions, ServerActions, Live, Gated

(* The tables of the switch stay within the enumerations.                   *)
LEMMA TargetType ==
    ASSUME NEW s \in States, NEW a \in Actions
    PROVE  Target(s, a) \in States
BY DEF Target

LEMMA ExpectsType ==
    ASSUME NEW s \in States, NEW a \in Actions
    PROVE  /\ Expects(s, a) \subseteq Actions \cup {"ANY"}
           /\ Expects(s, a) # {}
BY DEF Expects

(* validate_action keeps the three members within their types.              *)
LEMMA ValidateType ==
    ASSUME FSMTypeOK, FSMInv, NEW a \in Actions, ValidateAction(a)
    PROVE  FSMTypeOK'
<1>1. CASE PassGate(a)
  BY <1>1 DEF PassGate
<1>2. CASE WarnAtGate(a)
  BY <1>2 DEF WarnAtGate, FSMInv
<1>3. CASE FailAtGate(a)
  BY <1>3 DEF FailAtGate
<1>4. CASE Transition(a)
  BY <1>4, TargetType, ExpectsType DEF Transition
<1>5. CASE WarnInSwitch(a)
  BY <1>5 DEF WarnInSwitch
<1>6. CASE FailInSwitch(a)
  BY <1>6 DEF FailInSwitch
<1>7. CASE Terminal(a)
  BY <1>7 DEF Terminal
<1> QED  BY <1>1, <1>2, <1>3, <1>4, <1>5, <1>6, <1>7 DEF ValidateAction

(* A call leaves previousState assigned, and START ungated.                 *)
LEMMA ValidateInv ==
    ASSUME FSMTypeOK, FSMInv, NEW a \in Actions, ValidateAction(a)
    PROVE  FSMInv'
<1> USE DEF FSMInv
<1>1. CASE PassGate(a)
  BY <1>1 DEF PassGate
<1>2. CASE WarnAtGate(a)
  BY <1>2 DEF WarnAtGate
<1>3. CASE FailAtGate(a)
  BY <1>3 DEF FailAtGate
<1>4. CASE Transition(a)
  <2>1. previousState' # "UNINIT"
    BY <1>4 DEF Transition
  <2>2. currentState' # "START"
    BY <1>4 DEF Transition, Accepted, Target
  <2> QED  BY <2>1, <2>2
<1>5. CASE WarnInSwitch(a)
  BY <1>5 DEF WarnInSwitch
<1>6. CASE FailInSwitch(a)
  BY <1>6 DEF FailInSwitch
<1>7. CASE Terminal(a)
  BY <1>7 DEF Terminal
<1> QED  BY <1>1, <1>2, <1>3, <1>4, <1>5, <1>6, <1>7 DEF ValidateAction

(* What takes a session to AUTH and to OPEN, and what a gate then restores. *)
LEMMA ValidateMoves ==
    ASSUME FSMTypeOK, NEW a \in Actions, ValidateAction(a)
    PROVE  /\ currentState' = "AUTH" =>
                \/ currentState = "AUTH" \/ (Gated /\ previousState = "AUTH")
                \/ a = "AUTHORIZE_USER"
           /\ currentState' = "OPEN" =>
                \/ currentState = "OPEN" \/ (Gated /\ previousState = "OPEN")
                \/ currentState = "AUTH" /\ a = "REPLY_SERVER"
           /\ Gated' => \/ previousState' = currentState
                        \/ Gated /\ previousState' = previousState
<1>1. CASE PassGate(a)
  BY <1>1 DEF PassGate
<1>2. CASE WarnAtGate(a)
  BY <1>2 DEF WarnAtGate
<1>3. CASE FailAtGate(a)
  BY <1>3 DEF FailAtGate
<1>4. CASE Transition(a)
  BY <1>4 DEF Transition, Accepted, Target
<1>5. CASE WarnInSwitch(a)
  BY <1>5 DEF WarnInSwitch
<1>6. CASE FailInSwitch(a)
  BY <1>6 DEF FailInSwitch
<1>7. CASE Terminal(a)
  BY <1>7 DEF Terminal
<1> QED  BY <1>1, <1>2, <1>3, <1>4, <1>5, <1>6, <1>7 DEF ValidateAction

=============================================================================
