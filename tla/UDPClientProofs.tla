-------------------------- MODULE UDPClientProofs --------------------------
(***************************************************************************)
(* The UDP client's invariants, for every number of retransmissions (-r),  *)
(* every width of the MessageIDs and every set of ids and ports the server *)
(* uses.  First what one call of the handler preserves and what it does to *)
(* the wait for a confirmation, then the client.                           *)
(***************************************************************************)
EXTENDS UDPClientProperties, FSMLemmas

USE DEF ClientStates, NotAState, Returned, Ids, NoId, Requests, SentTypes, Sendable

-----------------------------------------------------------------------------
(* A datagram carries MessageIDs of the wire's width.                       *)
LEMMA DatagramIds ==
    ASSUME NEW m \in Datagrams
    PROVE  m.id \in Ids
BY PortAssumption, IdAssumption DEF Datagrams

LEMMA NextIdType ==
    ASSUME NEW i \in Ids
    PROVE  NextId(i) \in Ids /\ NextId(i) # i
BY IdAssumption DEF NextId

LEMMA ConfirmType ==
    ASSUME NEW i \in Ids
    PROVE  Confirm(i) \in Sendable
BY DEF Confirm

(* Sending keeps the handler's members within their types.                  *)
LEMMA TransmitType ==
    ASSUME NEW type \in SentTypes, NEW acks \in Seq(Sendable), renamer3000 \in Ids,
           Transmit(type, acks)
    PROVE  /\ last_message' \in Sendable /\ sent' \in Seq(Sendable)
           /\ awaited_conirm_id' \in Ids /\ renamer3000' \in Ids
<1>1. [type |-> type, id |-> renamer3000] \in Sendable
  OBVIOUS
<1> QED  BY <1>1, NextIdType DEF Transmit

LEMMA SendErrorType ==
    ASSUME NEW acks \in Seq(Sendable), UDPTypeOK, SendError(acks)
    PROVE  /\ last_message' \in Sendable /\ sent' \in Seq(Sendable)
           /\ awaited_conirm_id' \in Ids /\ renamer3000' \in Ids
           /\ error_sent' \in BOOLEAN /\ error_while_waiting' \in BOOLEAN
           /\ waiting_for_confirmation' \in BOOLEAN
<1>1. CASE waiting_for_confirmation
  BY <1>1 DEF SendError, Only, UDPTypeOK
<1>2. CASE ~waiting_for_confirmation
  BY <1>2, TransmitType DEF SendError, UDPTypeOK
<1> QED  BY <1>1, <1>2

LEMMA RejectType ==
    ASSUME NEW acks \in Seq(Sendable), UDPTypeOK, server_address' \in Ports, Reject(acks)
    PROVE  UDPTypeOK' /\ state' \in Returned
BY SendErrorType DEF Reject, Return, UDPTypeOK, Shown

(* The handler's four entry points.                                         *)
LEMMA ReceiveConfirmType ==
    ASSUME NEW m \in Datagrams, UDPTypeOK, server_address' \in Ports, ReceiveConfirm(m)
    PROVE  UDPTypeOK' /\ state' \in Returned
<1> USE DEF ReceiveConfirm, UDPTypeOK, Return, Shown
<1>0. <<>> \in Seq(Sendable) /\ NoId \in Ids
  BY IdAssumption
<1>1. CASE ConfirmOther(m)
  BY <1>0, <1>1 DEF ConfirmOther, Only
<1>2. CASE ConfirmBye(m)
  BY <1>0, <1>2 DEF ConfirmBye
<1>3. CASE ConfirmError(m)
  BY <1>0, <1>3, TransmitType DEF ConfirmError, SendBye
<1>4. CASE ConfirmRequest(m)
  BY <1>0, <1>4 DEF ConfirmRequest
<1> QED  BY <1>1, <1>2, <1>3, <1>4

LEMMA ReceiveReplyType ==
    ASSUME NEW m \in Datagrams, UDPTypeOK, server_address' \in Ports, ReceiveReply(m)
    PROVE  UDPTypeOK' /\ state' \in Returned
<1>0. /\ <<>> \in Seq(Sendable) /\ NoId \in Ids /\ m.id \in Ids
      /\ <<Confirm(m.id)>> \in Seq(Sendable)
  BY IdAssumption, DatagramIds, ConfirmType
<1>1. CASE Reject(<<>>) \/ Reject(<<Confirm(m.id)>>)
  BY <1>0, <1>1, RejectType
<1>2. CASE /\ TakeReply(m)
           /\ UNCHANGED <<error_sent, awaiting_over, error_while_waiting>>
  BY <1>0, <1>2 DEF ReceiveReply, TakeReply, Only, UDPTypeOK, Return, Shown
<1>3. CASE /\ IgnoreReply(m)
           /\ UNCHANGED <<error_sent, awaiting_over, error_while_waiting>>
  BY <1>0, <1>3 DEF ReceiveReply, IgnoreReply, Only, UDPTypeOK, Return, Shown
<1> QED  BY <1>1, <1>2, <1>3 DEF ReceiveReply

LEMMA ReceiveMsgType ==
    ASSUME NEW m \in Datagrams, UDPTypeOK, server_address' \in Ports, ReceiveMsg(m)
    PROVE  UDPTypeOK' /\ state' \in Returned
<1>0. <<>> \in Seq(Sendable) /\ m.id \in Ids /\ <<Confirm(m.id)>> \in Seq(Sendable)
  BY DatagramIds, ConfirmType
<1>1. CASE Reject(<<>>)
  BY <1>0, <1>1, RejectType
<1>2. CASE ~Reject(<<>>)
  BY <1>0, <1>2 DEF ReceiveMsg, Only, UDPTypeOK, Return, Shown
<1> QED  BY <1>1, <1>2

LEMMA ReceiveErrType ==
    ASSUME NEW m \in Datagrams, UDPTypeOK, server_address' \in Ports, ReceiveErr(m)
    PROVE  UDPTypeOK' /\ state' \in Returned
<1>0. <<>> \in Seq(Sendable) /\ m.id \in Ids /\ <<Confirm(m.id)>> \in Seq(Sendable)
  BY DatagramIds, ConfirmType
<1>1. CASE Reject(<<>>) \/ Reject(<<Confirm(m.id)>>)
  BY <1>0, <1>1, RejectType
<1>2. CASE ~(Reject(<<>>) \/ Reject(<<Confirm(m.id)>>))
  <2>1. Transmit("BYE", <<Confirm(m.id)>>)
    BY <1>2 DEF ReceiveErr, SendBye
  <2>2. /\ last_message' \in Sendable /\ sent' \in Seq(Sendable)
        /\ awaited_conirm_id' \in Ids /\ renamer3000' \in Ids
    BY <1>0, <2>1, TransmitType DEF UDPTypeOK
  <2> QED  BY <1>0, <1>2, <2>2 DEF ReceiveErr, SendBye, UDPTypeOK, Return, Shown
<1> QED  BY <1>1, <1>2

LEMMA ServerMessageType ==
    ASSUME NEW m \in Datagrams, NEW port \in Ports, UDPTypeOK, ProcessServerMessage(m, port)
    PROVE  UDPTypeOK' /\ state' \in Returned
<1>0. <<>> \in Seq(Sendable) /\ m.id \in Ids /\ <<Confirm(m.id)>> \in Seq(Sendable)
  BY DatagramIds, ConfirmType
<1>1. server_address' \in Ports
  BY DEF ProcessServerMessage
<1>2. CASE ReceiveBye(m)
  <2>1. CASE Reject(<<>>)
    BY <1>0, <1>1, <2>1, RejectType
  <2>2. CASE ~Reject(<<>>)
    BY <1>0, <1>1, <1>2, <2>2 DEF ReceiveBye, Only, UDPTypeOK, Return, Shown
  <2> QED  BY <2>1, <2>2
<1>3. CASE ReceiveUnknown(m)
  BY <1>0, <1>1, <1>3, RejectType DEF ReceiveUnknown
<1> QED
  BY <1>1, <1>2, <1>3, ReceiveConfirmType, ReceiveReplyType, ReceiveMsgType, ReceiveErrType
  DEF ProcessServerMessage

LEMMA UserExitType ==
    ASSUME UDPTypeOK, UserExit
    PROVE  UDPTypeOK' /\ state' \in Returned
<1>1. <<>> \in Seq(Sendable) /\ Transmit("BYE", <<>>)
  BY DEF UserExit, SendBye
<1> QED  BY <1>1, TransmitType DEF UserExit, SendBye, UDPTypeOK, Shown

LEMMA UserLineType ==
    ASSUME UDPTypeOK, FlushError \/ \E l \in Lines : UserCommand(l)
    PROVE  UDPTypeOK' /\ state' \in Returned
<1>0. <<>> \in Seq(Sendable) /\ NoId \in Ids
  BY IdAssumption
<1>1. CASE FlushError
  BY <1>0, <1>1, SendErrorType DEF FlushError, UDPTypeOK, Shown
<1>2. ASSUME NEW l \in Lines, UserCommand(l) PROVE UDPTypeOK' /\ state' \in Returned
  <2>1. ASSUME NEW type \in {"AUTH", "JOIN", "MSG"}, SendRequest(type)
        PROVE  UDPTypeOK' /\ state' \in Returned
    BY <1>0, <2>1, TransmitType DEF SendRequest, UDPTypeOK, Shown
  <2>2. ASSUME NEW what \in {"internal", "help"}, Answer(what)
        PROVE  UDPTypeOK' /\ state' \in Returned
    BY <1>0, <2>2 DEF Answer, udpVars, idVars, UDPTypeOK, Shown
  <2>3. CASE Rename(l)
    BY <1>0, <2>2, <2>3, JunkAssumption DEF Rename, udpVars, idVars, UDPTypeOK, Shown
  <2> QED  BY <1>2, <2>1, <2>2, <2>3 DEF UserCommand, Dispatch, Request
<1> QED  BY <1>1, <1>2

-----------------------------------------------------------------------------
(* A call either leaves the FSM alone or makes one call of validate_action. *)
FsmStep == UNCHANGED fsmVars \/ \E a \in UDPOffered : ValidateAction(a)

LEMMA ServerMessageFsm ==
    ASSUME NEW m \in Datagrams, NEW port \in Ports, ProcessServerMessage(m, port)
    PROVE  FsmStep
BY DEF ProcessServerMessage, ReceiveConfirm, ReceiveReply, ReceiveMsg, ReceiveErr,
       ReceiveBye, ReceiveUnknown, FsmStep, UDPOffered, ReplyAction

LEMMA UserCommandFsm ==
    ASSUME NEW l \in Lines, UserCommand(l)
    PROVE  FsmStep
BY DEF UserCommand, Dispatch, Request, Rename, FsmStep, UDPOffered

-----------------------------------------------------------------------------
(* Every call is one of five kinds, told apart by what becomes of the wait. *)

KeepsWait ==
    /\ UNCHANGED <<renamer3000, last_message, awaited_conirm_id, error_sent,
                   awaiting_over, waiting_for_confirmation>>
    /\ error_while_waiting => error_while_waiting'

EndsWait ==
    /\ UNCHANGED <<renamer3000, last_message, error_sent, awaiting_over,
                   error_while_waiting>>
    /\ ~waiting_for_confirmation'
    /\ IF awaiting_over THEN state' = "OVER" ELSE ~error_sent

Numbers(type) ==
    /\ last_message' = [type |-> type, id |-> renamer3000]
    /\ awaited_conirm_id' = renamer3000
    /\ renamer3000' = NextId(renamer3000)

StartsBye ==
    /\ Numbers("BYE") /\ awaiting_over'
    /\ waiting_for_confirmation => waiting_for_confirmation'
    /\ error_sent' => error_sent
    /\ UNCHANGED error_while_waiting

StartsError ==
    /\ Numbers("ERR") /\ ~waiting_for_confirmation /\ waiting_for_confirmation'
    /\ error_sent'
    /\ UNCHANGED <<awaiting_over, error_while_waiting>>

StartsRequest ==
    /\ \E type \in Requests : Numbers(type)
    /\ ~error_while_waiting /\ waiting_for_confirmation'
    /\ UNCHANGED <<error_sent, awaiting_over, error_while_waiting>>

WaitStep == KeepsWait \/ EndsWait \/ StartsBye \/ StartsError

Blocks == waiting_for_confirmation' => state' = "WAITING_FOR_CONFIRMATION"

LEMMA SendErrorWait ==
    ASSUME UDPTypeOK, NEW acks, SendError(acks), UNCHANGED awaiting_over
    PROVE  KeepsWait \/ StartsError
<1>1. CASE waiting_for_confirmation
  BY <1>1 DEF SendError, Only, KeepsWait, UDPTypeOK
<1>2. CASE ~waiting_for_confirmation
  BY <1>2 DEF SendError, Transmit, StartsError, Numbers, UDPTypeOK
<1> QED  BY <1>1, <1>2

LEMMA RejectWait ==
    ASSUME UDPTypeOK, NEW acks, Reject(acks)
    PROVE  WaitStep /\ Blocks
BY SendErrorWait DEF Reject, Return, WaitStep, Blocks

(* process_server_message, and the state it returns while a wait goes on.   *)
LEMMA ServerMessageWait ==
    ASSUME UDPTypeOK, NEW m \in Datagrams, NEW port \in Ports, ProcessServerMessage(m, port)
    PROVE  WaitStep /\ Blocks
<1>1. CASE ReceiveConfirm(m)
  <2> USE DEF Return, WaitStep, Blocks
  <2>1. CASE ConfirmOther(m)
    BY <1>1, <2>1 DEF ReceiveConfirm, ConfirmOther, Only, KeepsWait
  <2>2. CASE ConfirmBye(m)
    BY <1>1, <2>2 DEF ReceiveConfirm, ConfirmBye, EndsWait
  <2>3. CASE ConfirmError(m)
    BY <1>1, <2>3 DEF ReceiveConfirm, ConfirmError, SendBye, Transmit, StartsBye, Numbers
  <2>4. CASE ConfirmRequest(m)
    BY <1>1, <2>4 DEF ReceiveConfirm, ConfirmRequest, EndsWait
  <2> QED  BY <1>1, <2>1, <2>2, <2>3, <2>4 DEF ReceiveConfirm
<1>2. CASE ReceiveReply(m)
  <2>1. CASE Reject(<<>>) \/ Reject(<<Confirm(m.id)>>)
    BY <2>1, RejectWait
  <2>2. CASE ~(Reject(<<>>) \/ Reject(<<Confirm(m.id)>>))
    BY <1>2, <2>2 DEF ReceiveReply, TakeReply, IgnoreReply, Only, KeepsWait, WaitStep,
                      Blocks, Return
  <2> QED  BY <2>1, <2>2
<1>3. CASE ReceiveMsg(m)
  <2>1. CASE ~Reject(<<>>)
    BY <1>3, <2>1 DEF ReceiveMsg, Only, KeepsWait, WaitStep, Blocks, Return
  <2> QED  BY <2>1, RejectWait
<1>4. CASE ReceiveErr(m)
  <2>1. CASE Reject(<<>>) \/ Reject(<<Confirm(m.id)>>)
    BY <2>1, RejectWait
  <2>2. CASE ~(Reject(<<>>) \/ Reject(<<Confirm(m.id)>>))
    <3>1. Numbers("BYE") /\ awaiting_over'
      BY <1>4, <2>2 DEF ReceiveErr, SendBye, Transmit, Numbers
    <3>2. /\ waiting_for_confirmation => waiting_for_confirmation'
          /\ UNCHANGED <<error_sent, error_while_waiting>>
      BY <1>4, <2>2 DEF ReceiveErr, UDPTypeOK
    <3>3. Blocks
      BY <1>4, <2>2 DEF ReceiveErr, Blocks, Return
    <3> QED  BY <3>1, <3>2, <3>3 DEF StartsBye, WaitStep
  <2> QED  BY <2>1, <2>2
<1>5. CASE ReceiveBye(m)
  <2>1. CASE ~Reject(<<>>)
    BY <1>5, <2>1 DEF ReceiveBye, Only, KeepsWait, WaitStep, Blocks, Return
  <2> QED  BY <2>1, RejectWait
<1>6. CASE ReceiveUnknown(m)
  BY <1>6, RejectWait DEF ReceiveUnknown
<1> QED
  BY <1>1, <1>2, <1>3, <1>4, <1>5, <1>6 DEF ProcessServerMessage

(* process_user_input: /exit, a put-off error, any other line.              *)
LEMMA UserExitWait ==
    ASSUME UserExit
    PROVE  StartsBye /\ waiting_for_confirmation' /\ Blocks
BY DEF UserExit, SendBye, Transmit, StartsBye, Numbers, Blocks

LEMMA FlushErrorWait ==
    ASSUME UDPTypeOK, FlushError
    PROVE  (KeepsWait \/ StartsError) /\ Blocks
BY SendErrorWait DEF FlushError, Blocks

LEMMA UserCommandWait ==
    ASSUME NEW l \in Lines, UserCommand(l)
    PROVE  KeepsWait \/ (StartsRequest /\ Blocks)
<1>1. ASSUME NEW type \in Requests, SendRequest(type) PROVE StartsRequest /\ Blocks
  BY <1>1 DEF SendRequest, Transmit, StartsRequest, Numbers, Blocks, UserCommand, Dispatch
<1>2. ASSUME NEW what, Answer(what) PROVE KeepsWait
  BY <1>2 DEF Answer, udpVars, idVars, KeepsWait
<1>3. CASE Rename(l)
  BY <1>2, <1>3 DEF Rename, udpVars, idVars, KeepsWait
<1> QED  BY <1>1, <1>2, <1>3 DEF UserCommand, Dispatch, Request

-----------------------------------------------------------------------------
(* The client.                                                              *)

USE DEF Ended, Awaiting
HIDE DEF Ids, NoId, Sendable

\* The loop asks at the top whether the client is over.
LoopInv == pc = "poll" => state # "OVER"

\* ERROR and END are left only through the gate for BYE_USER, which the UDP
\* handler never offers; a warned user action goes back to a live state.
GateInv ==
    /\ currentState \notin Live => expectedAction = {"BYE_USER"}
    /\ Gated => /\ previousState \in Live
                /\ expectedAction \cap {"JOIN_USER", "MESSAGE_USER"} = {}

\* An ERR that was sent has its confirmation awaited, until the BYE's is.
SentErrorInv == error_sent /\ state # "OVER" => Awaiting

\* AUTH, like OPEN, is reached, and restored, only with the user's consent.
AskedInv ==
    currentState = "AUTH" \/ (Gated /\ previousState = "AUTH") => grant # "none"

IInv ==
    /\ TypeOK /\ LoopInv
    /\ FSMInv /\ GateInv
    /\ RetransmitsWhatItAwaits /\ InputBlockedWhileUnconfirmed
    /\ ErrorIsAwaited /\ SentErrorInv
    /\ FullRetryBudget
    /\ AskedInv /\ OpenOnlyIfGranted

LEMMA InitIInv == Init => IInv
<1> SUFFICES ASSUME Init PROVE IInv
  OBVIOUS
<1> USE DEF Init, LoopInit, UDPInit, FSMInit
<1>1. 0 \in Ids /\ NoMessage \in Sendable /\ <<>> \in Seq(Sendable)
  BY IdAssumption DEF NoMessage, Ids, Sendable
<1>2. UDPTypeOK
  BY <1>1, PortAssumption DEF UDPTypeOK, Shown
<1>3. FSMTypeOK /\ FSMInv /\ GateInv /\ AskedInv /\ OpenOnlyIfGranted
  BY DEF FSMTypeOK, FSMInv, GateInv, AskedInv, OpenOnlyIfGranted, States, Live, Gated
<1>4. LoopTypeOK /\ LoopInv
  <2>1. retry_count \in 0 .. Retrans
    BY RetransAssumption
  <2> QED  BY <2>1 DEF LoopTypeOK, LoopInv
<1>6. FullRetryBudget
  BY DEF FullRetryBudget
<1>5. /\ RetransmitsWhatItAwaits /\ InputBlockedWhileUnconfirmed
      /\ ErrorIsAwaited /\ SentErrorInv
  BY DEF RetransmitsWhatItAwaits, InputBlockedWhileUnconfirmed, ErrorIsAwaited, SentErrorInv
<1> QED  BY <1>2, <1>3, <1>4, <1>5, <1>6, RetransAssumption DEF IInv, TypeOK

-----------------------------------------------------------------------------
(* The steps of the loop, by the part of the handler they call.             *)

\* No call: the FSM, the handler and the history stay.
Uncalled == Idle /\ (LoopRound \/ LoopEnd \/ SecondInt \/ Exhausted \/ BlankLine \/ Interrupt)

LEMMA NextSplit ==
    Next => \/ Uncalled
            \/ Retransmit
            \/ RecvError
            \/ \E m \in Datagrams, port \in Ports : Receive(m, port)
            \/ ExitOnSignal \/ ExitLine
            \/ ErrorLine
            \/ \E l \in Lines : Command(l)
            \/ UNCHANGED vars
BY DEF Next, Loop, Server, User, Finished, Uncalled, LoopRound, LoopEnd, SecondInt,
       Exhausted, BlankLine, Interrupt

(* At a line of the user no confirmation is awaited.                        *)
LEMMA LineUnblocked ==
    ASSUME IInv, TakeLine
    PROVE  /\ ~waiting_for_confirmation
           /\ state \notin {"WAITING_FOR_CONFIRMATION", "OVER"}
           /\ retry_count = Retrans
BY DEF IInv, TakeLine, AtEvent, StdinPolled, LoopInv, InputBlockedWhileUnconfirmed,
       FullRetryBudget

-----------------------------------------------------------------------------
(* Types.                                                                   *)

LEMMA TrackType ==
    ASSUME resends \in 0 .. Retrans + 1, Track
    PROVE  resends' \in 0 .. Retrans + 1
BY RetransAssumption DEF Track

LEMMA NextFsm ==
    ASSUME IInv, [Next]_vars
    PROVE  FsmStep
<1>1. CASE \E m \in Datagrams, port \in Ports : Receive(m, port)
  BY <1>1, ServerMessageFsm DEF Receive
<1>2. CASE \E l \in Lines : Command(l)
  BY <1>2, UserCommandFsm DEF Command
<1> QED
  BY <1>1, <1>2, NextSplit DEF FsmStep, Uncalled, Idle, Retransmit, Resend, RecvError,
     ReceiveFails, ExitOnSignal, ExitLine, UserExit, ErrorLine, FlushError, Plain, vars

LEMMA NextFsmType ==
    ASSUME IInv, [Next]_vars
    PROVE  FSMTypeOK' /\ FSMInv'
<1>1. FSMTypeOK /\ FSMInv
  BY DEF IInv, TypeOK
<1>2. CASE UNCHANGED fsmVars
  BY <1>1, <1>2 DEF fsmVars, FSMTypeOK, FSMInv, Gated
<1>3. ASSUME NEW a \in UDPOffered, ValidateAction(a) PROVE FSMTypeOK' /\ FSMInv'
  <2>1. a \in Actions
    BY DEF UDPOffered, Actions, UserActions, ServerActions
  <2> QED  BY <1>1, <1>3, <2>1, ValidateType, ValidateInv
<1> QED  BY <1>2, <1>3, NextFsm DEF FsmStep

LEMMA NextAcked ==
    ASSUME TypeOK, [Next]_vars
    PROVE  acked' \subseteq Ids
<1>1. CASE \E m \in Datagrams, port \in Ports : Receive(m, port)
  BY <1>1, DatagramIds DEF Receive
<1>2. CASE NoAck \/ UNCHANGED acked
  BY <1>2 DEF NoAck, TypeOK
<1> QED
  BY <1>1, <1>2, NextSplit DEF Uncalled, Idle, Plain, Retransmit, RecvError, ExitOnSignal,
     ExitLine, ErrorLine, Command, vars

LEMMA NextType ==
    ASSUME IInv, [Next]_vars
    PROVE  TypeOK'
<1>0. TypeOK /\ FSMTypeOK' /\ acked' \subseteq Ids
  BY NextFsmType, NextAcked DEF IInv
<1> USE DEF TypeOK
<1>1. CASE Uncalled
  <2>0. /\ sent' = <<>> \/ sent' = sent
        /\ shown' = "nothing" \/ shown' = shown
        /\ UNCHANGED udpVars
    BY <1>1 DEF Uncalled, Idle, LoopRound, LoopEnd, SecondInt, Exhausted, BlankLine,
       Interrupt, outVars
  <2>1. UDPTypeOK'
    <3>1. sent' \in Seq(Sendable)
      <4>1. <<>> \in Seq(Sendable) /\ sent \in Seq(Sendable)
        BY <1>0 DEF UDPTypeOK
      <4> QED  BY <2>0, <4>1
    <3>2. shown' \in Shown
      BY <1>0, <2>0 DEF UDPTypeOK, Shown
    <3> QED  BY <1>0, <2>0, <3>1, <3>2 DEF UDPTypeOK, udpVars, idVars
  <2>2. LoopTypeOK' /\ state' \in Returned
    BY <1>0, <1>1 DEF Uncalled, LoopRound, EnterPoll, LoopEnd, Close, SecondInt, PollFails,
       Exhausted, GiveUp, AtEvent, BlankLine, EmptyLine, TakeLine, Interrupt, Signal,
       signalVars, LoopTypeOK
  <2> QED  BY <1>0, <1>1, <2>1, <2>2 DEF Uncalled, Idle, history
<1>2. CASE Retransmit
  <2>1. UDPTypeOK'
    BY <1>0, <1>2 DEF Retransmit, Resend, UDPTypeOK, udpVars, idVars, Shown
  <2>2. LoopTypeOK' /\ state' \in Returned
    BY <1>0, <1>2, RetransAssumption DEF Retransmit, Retry, AtEvent, LoopTypeOK, signalVars
  <2>3. resends' \in 0 .. Retrans + 1 /\ UNCHANGED grant
    BY <1>0, <1>2, RetransAssumption DEF Retransmit
  <2> QED  BY <1>0, <2>1, <2>2, <2>3
<1>3. CASE RecvError
  <2>1. UDPTypeOK' /\ state' \in Returned
    BY <1>0, <1>3 DEF RecvError, ReceiveFails, UDPTypeOK, udpVars, idVars, Shown
  <2>2. LoopTypeOK'
    BY <1>0, <1>3, RetransAssumption
    DEF RecvError, TakeSocket, RestoreRetries, AtEvent, LoopTypeOK, signalVars
  <2> QED  BY <1>0, <1>3, <2>1, <2>2, TrackType DEF RecvError, Plain
<1>4. ASSUME NEW m \in Datagrams, NEW port \in Ports, Receive(m, port) PROVE TypeOK'
  <2>1. UDPTypeOK' /\ state' \in Returned
    BY <1>0, <1>4, ServerMessageType DEF Receive
  <2>2. LoopTypeOK'
    BY <1>0, <1>4, RetransAssumption
    DEF Receive, TakeSocket, RestoreRetries, AtEvent, LoopTypeOK, signalVars
  <2> QED  BY <1>0, <1>4, <2>1, <2>2, TrackType DEF Receive
<1>5. CASE ExitOnSignal \/ ExitLine
  <2>1. UDPTypeOK' /\ state' \in Returned
    BY <1>0, <1>5, UserExitType DEF ExitOnSignal, ExitLine
  <2>2. LoopTypeOK'
    BY <1>0, <1>5 DEF ExitOnSignal, ExitLine, TakeInterrupt, TakeLine, AtEvent, LoopTypeOK,
       signalVars
  <2> QED  BY <1>0, <1>5, <2>1, <2>2, TrackType DEF ExitOnSignal, ExitLine, Plain
<1>6. CASE ErrorLine \/ \E l \in Lines : Command(l)
  <2>1. UDPTypeOK' /\ state' \in Returned
    BY <1>0, <1>6, UserLineType DEF ErrorLine, Command
  <2>2. LoopTypeOK'
    BY <1>0, <1>6 DEF ErrorLine, Command, TakeLine, AtEvent, LoopTypeOK, signalVars
  <2> QED  BY <1>0, <1>6, <2>1, <2>2, TrackType DEF ErrorLine, Command, Plain
<1>7. CASE UNCHANGED vars
  BY <1>0, <1>7 DEF vars, loopVars, udpVars, idVars, outVars, history, LoopTypeOK, UDPTypeOK
<1> QED  BY <1>1, <1>2, <1>3, <1>4, <1>5, <1>6, <1>7, NextSplit

-----------------------------------------------------------------------------
(* The FSM as the UDP handler drives it.                                    *)

LEMMA ValidateGate ==
    ASSUME FSMTypeOK, FSMInv, GateInv, NEW a \in UDPOffered, ValidateAction(a)
    PROVE  GateInv'
<1> USE DEF GateInv, UDPOffered, Actions, UserActions, ServerActions, Live, Gated
<1>1. CASE PassGate(a)
  BY <1>1 DEF PassGate
<1>2. CASE WarnAtGate(a)
  BY <1>2 DEF WarnAtGate
<1>3. CASE FailAtGate(a)
  BY <1>3 DEF FailAtGate
<1>4. CASE Transition(a)
  <2>1. /\ previousState' \in Live
        /\ currentState' \in Live \/ currentState' = "END"
        /\ currentState' = "END" => expectedAction' = {"BYE_USER"}
        /\ expectedAction' \cap {"JOIN_USER", "MESSAGE_USER"} = {}
    BY <1>4 DEF Transition, Target, Expects
  <2> QED  BY <2>1
<1>5. CASE WarnInSwitch(a)
  BY <1>5 DEF WarnInSwitch
<1>6. CASE FailInSwitch(a)
  BY <1>6 DEF FailInSwitch
<1>7. CASE Terminal(a)
  BY <1>7 DEF Terminal
<1> QED  BY <1>1, <1>2, <1>3, <1>4, <1>5, <1>6, <1>7 DEF ValidateAction

LEMMA NextGate ==
    ASSUME IInv, [Next]_vars
    PROVE  GateInv'
<1>1. CASE UNCHANGED fsmVars
  BY <1>1 DEF IInv, GateInv, fsmVars, Gated
<1>2. ASSUME NEW a \in UDPOffered, ValidateAction(a) PROVE GateInv'
  BY <1>2, ValidateGate DEF IInv, TypeOK
<1> QED  BY <1>1, <1>2, NextFsm DEF FsmStep

-----------------------------------------------------------------------------
(* The wait for a confirmation.                                             *)

\* What a step does to the wait, and where it leaves the loop.
LoopWaitStep ==
    \/ /\ UNCHANGED <<udpVars, resends>>
       /\ \/ UNCHANGED <<state, retry_count>>
          \/ state' = "OVER"
    \/ Retransmit
    \/ /\ WaitStep /\ Blocks /\ Track /\ pc = "poll" /\ state # "OVER"
       /\ RestoreRetries
    \/ /\ StartsBye /\ waiting_for_confirmation' /\ Blocks /\ Track
       /\ UNCHANGED retry_count
    \/ KeepsWait /\ Track /\ TakeLine
    \/ StartsError /\ Blocks /\ Track /\ TakeLine
    \/ StartsRequest /\ Blocks /\ Track /\ \E l \in Lines : Command(l)

LEMMA NextWait ==
    ASSUME IInv, [Next]_vars
    PROVE  LoopWaitStep
<1>0. UDPTypeOK /\ LoopInv
  BY DEF IInv, TypeOK
<1>1. CASE Uncalled
  BY <1>1 DEF Uncalled, Idle, LoopRound, EnterPoll, LoopEnd, Close, SecondInt, PollFails,
     Exhausted, GiveUp, BlankLine, EmptyLine, TakeLine, Interrupt, Signal, LoopWaitStep, history
<1>2. CASE RecvError
  BY <1>2 DEF RecvError, Plain, ReceiveFails, Track, SendsNew, LoopWaitStep, udpVars, idVars
<1>3. ASSUME NEW m \in Datagrams, NEW port \in Ports, Receive(m, port) PROVE LoopWaitStep
  BY <1>0, <1>3, ServerMessageWait DEF Receive, TakeSocket, AtEvent, LoopInv, LoopWaitStep
<1>4. CASE ExitOnSignal \/ ExitLine
  BY <1>4, UserExitWait DEF ExitOnSignal, ExitLine, Plain, TakeInterrupt, TakeLine,
     LoopWaitStep
<1>5. CASE ErrorLine
  BY <1>0, <1>5, FlushErrorWait DEF ErrorLine, Plain, LoopWaitStep
<1>6. ASSUME NEW l \in Lines, Command(l) PROVE LoopWaitStep
  BY <1>6, UserCommandWait DEF Command, LoopWaitStep
<1>7. CASE UNCHANGED vars
  BY <1>7 DEF vars, loopVars, history, LoopWaitStep
<1> QED
  BY <1>1, <1>2, <1>3, <1>4, <1>5, <1>6, <1>7, NextSplit DEF LoopWaitStep

LEMMA NumbersNew ==
    ASSUME renamer3000 \in Ids, Track, NEW type, Numbers(type)
    PROVE  resends' = 0 /\ last_message'.type = type /\ last_message'.id = awaited_conirm_id'
BY NextIdType DEF Numbers, Track, SendsNew

LEMMA WaitInvariants ==
    ASSUME IInv, LoopWaitStep
    PROVE  /\ RetransmitsWhatItAwaits' /\ InputBlockedWhileUnconfirmed'
           /\ ErrorIsAwaited' /\ SentErrorInv'
<1> USE DEF IInv, RetransmitsWhatItAwaits, InputBlockedWhileUnconfirmed, ErrorIsAwaited,
            SentErrorInv, Blocks
<1>0. renamer3000 \in Ids
  BY DEF TypeOK, UDPTypeOK
<1>1. CASE /\ UNCHANGED udpVars
           /\ UNCHANGED state \/ state' = "OVER"
  BY <1>1 DEF udpVars, idVars
<1>2. CASE KeepsWait /\ Blocks /\ state # "OVER"
  BY <1>2 DEF KeepsWait
<1>3. CASE EndsWait
  BY <1>3 DEF EndsWait
<1>4. CASE StartsBye /\ Blocks /\ (state # "OVER" \/ waiting_for_confirmation') /\ Track
  BY <1>0, <1>4, NumbersNew DEF StartsBye
<1>5. CASE StartsError /\ Blocks /\ Track
  BY <1>0, <1>5, NumbersNew DEF StartsError
<1>6. CASE KeepsWait /\ TakeLine
  BY <1>6, LineUnblocked DEF KeepsWait
<1>7. CASE StartsRequest /\ Blocks /\ TakeLine /\ Track
  <2>1. ~error_sent
    BY <1>7, LineUnblocked
  <2>2. PICK type \in Requests : Numbers(type)
    BY <1>7 DEF StartsRequest
  <2> QED  BY <1>0, <1>7, <2>1, <2>2, NumbersNew DEF StartsRequest
<1>8. CASE Retransmit
  BY <1>1, <1>8 DEF Retransmit, Retry, Resend
<1> QED
  BY <1>1, <1>2, <1>3, <1>4, <1>5, <1>6, <1>7, <1>8 DEF LoopWaitStep, WaitStep, Command

LEMMA BudgetInvariant ==
    ASSUME IInv, LoopWaitStep
    PROVE  FullRetryBudget'
<1> USE DEF IInv, FullRetryBudget, Blocks
<1>0. /\ renamer3000 \in Ids
      /\ Retrans \in Nat /\ retry_count \in 0 .. Retrans /\ resends \in 0 .. Retrans + 1
  BY RetransAssumption DEF TypeOK, UDPTypeOK, LoopTypeOK
<1>1. CASE /\ UNCHANGED <<udpVars, resends>>
           /\ UNCHANGED <<state, retry_count>> \/ state' = "OVER"
  BY <1>1 DEF udpVars, idVars
<1>2. CASE Retransmit
  <2>1. /\ UNCHANGED <<udpVars, state>> /\ state = "WAITING_FOR_CONFIRMATION"
        /\ retry_count > 0 /\ retry_count' = retry_count - 1
        /\ resends' = IF resends > Retrans THEN resends ELSE resends + 1
    BY <1>2 DEF Retransmit, Retry, Resend
  <2> QED  BY <1>0, <2>1 DEF udpVars, idVars
<1>3. ASSUME WaitStep, Blocks, Track, state # "OVER", RestoreRetries PROVE FullRetryBudget'
  <2>1. /\ waiting_for_confirmation' => retry_count' = retry_count
        /\ state' # "WAITING_FOR_CONFIRMATION" => retry_count' = Retrans
    BY <1>3 DEF RestoreRetries
  <2>2. CASE KeepsWait
    BY <1>0, <1>3, <2>1, <2>2 DEF KeepsWait, Track, SendsNew
  <2>3. CASE EndsWait
    BY <2>1, <2>3 DEF EndsWait
  <2>4. CASE StartsBye
    BY <1>0, <1>3, <2>1, <2>4, NumbersNew DEF StartsBye
  <2>5. CASE StartsError
    BY <1>0, <1>3, <2>1, <2>5, NumbersNew DEF StartsError
  <2> QED  BY <1>3, <2>2, <2>3, <2>4, <2>5 DEF WaitStep
<1>4. CASE /\ StartsBye /\ waiting_for_confirmation' /\ Blocks /\ Track
           /\ UNCHANGED retry_count
  BY <1>0, <1>4, NumbersNew DEF StartsBye
<1>5. CASE KeepsWait /\ TakeLine
  BY <1>5, LineUnblocked DEF KeepsWait, TakeLine
<1>6. ASSUME StartsError \/ StartsRequest, Blocks, Track, TakeLine PROVE FullRetryBudget'
  <2>1. resends' = 0 /\ retry_count' = Retrans
    BY <1>0, <1>6, LineUnblocked, NumbersNew DEF StartsError, StartsRequest, TakeLine
  <2> QED  BY <1>0, <2>1
<1> QED  BY <1>1, <1>2, <1>3, <1>4, <1>5, <1>6 DEF LoopWaitStep, Command

-----------------------------------------------------------------------------
(* The loop's own invariant.                                                *)
LEMMA NextLoop ==
    ASSUME IInv, [Next]_vars
    PROVE  LoopInv'
BY NextSplit DEF IInv, LoopInv, Uncalled, LoopRound, EnterPoll, LoopEnd, Close, SecondInt,
   PollFails, Exhausted, GiveUp, BlankLine, EmptyLine, TakeLine, Interrupt, Signal, Retransmit,
   Retry, RecvError, TakeSocket, Receive, ExitOnSignal, TakeInterrupt, ExitLine, ErrorLine,
   Command, AtEvent, vars, loopVars

-----------------------------------------------------------------------------
(* The user's consent and the server's grant.                               *)

Consented(s) == (s = "AUTH" => grant # "none") /\ (s = "OPEN" => grant = "given")

ConsentInv == Consented(currentState) /\ (Gated => Consented(previousState))

\* What offering `a' must add to the history.
Records(a) ==
    /\ grant # "none" => grant' # "none"
    /\ grant = "given" => grant' = "given"
    /\ a = "AUTHORIZE_USER" => grant' # "none"
    /\ a = "REPLY_SERVER" /\ grant # "none" => grant' = "given"

LEMMA ConsentIsAskedAndOpen ==
    ConsentInv <=> /\ AskedInv
                   /\ currentState = "OPEN" \/ (Gated /\ previousState = "OPEN") => grant = "given"
BY DEF ConsentInv, Consented, AskedInv

LEMMA ValidateConsent ==
    ASSUME FSMTypeOK, ConsentInv, NEW a \in UDPOffered, ValidateAction(a), Records(a)
    PROVE  ConsentInv'
<1> USE DEF ConsentInv, Consented, Records, Gated
<1>1. CASE PassGate(a)
  BY <1>1 DEF PassGate
<1>2. CASE WarnAtGate(a)
  BY <1>2 DEF WarnAtGate
<1>3. CASE FailAtGate(a)
  BY <1>3 DEF FailAtGate
<1>4. CASE Transition(a)
  <2>1. /\ previousState' = currentState
        /\ currentState' = "AUTH" => currentState = "AUTH" \/ a = "AUTHORIZE_USER"
        /\ currentState' = "OPEN" =>
             currentState = "OPEN" \/ (currentState = "AUTH" /\ a = "REPLY_SERVER")
    BY <1>4 DEF Transition, Accepted, Target, Live
  <2> QED  BY <2>1
<1>5. CASE WarnInSwitch(a)
  BY <1>5 DEF WarnInSwitch
<1>6. CASE FailInSwitch(a)
  BY <1>6 DEF FailInSwitch
<1>7. CASE Terminal(a)
  BY <1>7 DEF Terminal
<1> QED  BY <1>1, <1>2, <1>3, <1>4, <1>5, <1>6, <1>7 DEF ValidateAction

LEMMA NextConsent ==
    ASSUME IInv, [Next]_vars
    PROVE  ConsentInv'
<1>0. TypeOK /\ FSMTypeOK /\ ConsentInv
  BY ConsentIsAskedAndOpen DEF IInv, TypeOK, OpenOnlyIfGranted
<1>1. ASSUME UNCHANGED fsmVars, grant # "none" => grant' # "none",
             grant = "given" => grant' = "given"
      PROVE  ConsentInv'
  BY <1>0, <1>1 DEF ConsentInv, Consented, fsmVars, Gated
<1>2. ASSUME NEW m \in Datagrams, NEW port \in Ports, Receive(m, port) PROVE ConsentInv'
  <2>1. CASE UNCHANGED fsmVars
    BY <1>1, <1>2, <2>1 DEF Receive
  <2>2. CASE ~ UNCHANGED fsmVars
    <3>1. PICK a \in UDPOffered :
             ValidateAction(a) /\ a # "AUTHORIZE_USER" /\ (a = "REPLY_SERVER" => Grants(m))
      BY <1>2, <2>2 DEF Receive, ProcessServerMessage, ReceiveConfirm, ReceiveReply, ReceiveMsg,
         ReceiveErr, ReceiveBye, ReceiveUnknown, ReplyAction, UDPOffered, Grants
    <3>2. Records(a)
      BY <1>0, <1>2, <3>1 DEF Receive, Records, TypeOK
    <3> QED  BY <1>0, <3>1, <3>2, ValidateConsent
  <2> QED  BY <2>1, <2>2
<1>3. ASSUME NEW l \in Lines, Command(l) PROVE ConsentInv'
  <2>1. CASE UNCHANGED fsmVars
    BY <1>1, <1>3, <2>1 DEF Command
  <2>2. CASE ~ UNCHANGED fsmVars
    <3>1. PICK a \in UDPOffered :
             ValidateAction(a) /\ a # "REPLY_SERVER" /\ (a = "AUTHORIZE_USER" => l.cmd = "/AUTH")
      BY <1>3, <2>2 DEF Command, UserCommand, Dispatch, Request, Rename, UDPOffered
    <3>2. Records(a)
      BY <1>0, <1>3, <3>1 DEF Command, Records, TypeOK
    <3> QED  BY <1>0, <3>1, <3>2, ValidateConsent
  <2> QED  BY <2>1, <2>2
<1>4. CASE Uncalled
  BY <1>1, <1>4 DEF Uncalled, Idle, history
<1>5. CASE Retransmit \/ RecvError
  BY <1>1, <1>5 DEF Retransmit, Resend, RecvError, ReceiveFails, Plain
<1>6. CASE ExitOnSignal \/ ExitLine \/ ErrorLine
  BY <1>1, <1>6 DEF ExitOnSignal, ExitLine, ErrorLine, UserExit, FlushError, Plain
<1>7. CASE UNCHANGED vars
  BY <1>1, <1>7 DEF vars, history
<1> QED  BY <1>2, <1>3, <1>4, <1>5, <1>6, <1>7, NextSplit

(* A JOIN or a MSG is sent in OPEN only: no gate of the UDP handler names   *)
(* either of them.                                                         *)
LEMMA RequestInOpen ==
    ASSUME GateInv, NEW a \in {"JOIN_USER", "MESSAGE_USER"}, Reaction(a) = "ANY"
    PROVE  currentState = "OPEN"
<1>1. CASE Gated
  <2>1. a \notin expectedAction
    BY <1>1 DEF GateInv
  <2> QED  BY <1>1, <2>1 DEF Reaction, Allowed
<1>2. CASE ~Gated
  <2>1. currentState \in Live
    BY <1>2 DEF GateInv, Gated
  <2> QED  BY <1>2, <2>1 DEF Reaction, Allowed, Accepted, Live
<1> QED  BY <1>1, <1>2

LEMMA NextOpen ==
    ASSUME IInv, [Next]_vars
    PROVE  AskedInv' /\ OpenOnlyIfGranted'
<1>0. ConsentInv' /\ ConsentInv /\ LoopWaitStep /\ TypeOK
  BY NextConsent, NextWait, ConsentIsAskedAndOpen DEF IInv, OpenOnlyIfGranted
<1>1. grant = "given" => grant' = "given"
  BY <1>0, NextSplit DEF Uncalled, Idle, Plain, history, Retransmit, RecvError, Receive, ExitOnSignal,
     ExitLine, ErrorLine, Command, vars, TypeOK
<1>2. ASSUME NEW l \in Lines, Command(l), waiting_for_confirmation',
             last_message'.type \in {"JOIN", "MSG"}
      PROVE  grant' = "given"
  <2>1. ~waiting_for_confirmation
    BY <1>2, LineUnblocked DEF Command
  <2>2. PICK type \in Requests : SendRequest(type) /\
            \/ type = "AUTH"
            \/ type = "JOIN" /\ Reaction("JOIN_USER") = "ANY"
            \/ type = "MSG" /\ Reaction("MESSAGE_USER") = "ANY"
    BY <1>2, <2>1 DEF Command, UserCommand, Dispatch, Request, Answer, Rename, udpVars
  <2>3. type # "AUTH"
    BY <1>2, <2>2 DEF SendRequest, Transmit
  <2>4. currentState = "OPEN"
    BY <2>2, <2>3, RequestInOpen DEF IInv
  <2> QED  BY <1>0, <1>1, <2>4 DEF ConsentInv, Consented
<1>3. ASSUME ~ \E l \in Lines : Command(l)
      PROVE  waiting_for_confirmation' /\ last_message'.type \in {"JOIN", "MSG"}
               => grant' = "given"
  <2>1. /\ waiting_for_confirmation' /\ last_message'.type \in {"JOIN", "MSG"}
          => waiting_for_confirmation /\ last_message' = last_message
    <3>1. CASE UNCHANGED udpVars \/ KeepsWait \/ EndsWait
      BY <3>1 DEF udpVars, KeepsWait, EndsWait
    <3>2. CASE StartsBye \/ StartsError
      BY <3>2 DEF StartsBye, StartsError, Numbers
    <3>3. CASE Retransmit
      BY <3>3 DEF Retransmit, Resend, udpVars
    <3> QED  BY <1>0, <1>3, <3>1, <3>2, <3>3 DEF LoopWaitStep, WaitStep
  <2>2. Awaiting /\ last_message.type \in {"JOIN", "MSG"} => grant = "given"
    BY DEF IInv, OpenOnlyIfGranted
  <2> QED  BY <1>1, <2>1, <2>2
<1>4. /\ AskedInv'
      /\ currentState' = "OPEN" \/ (Gated' /\ previousState' = "OPEN") => grant' = "given"
  BY <1>0 DEF ConsentInv, Consented, AskedInv
<1>5. waiting_for_confirmation' /\ last_message'.type \in {"JOIN", "MSG"} => grant' = "given"
  BY <1>2, <1>3
<1> QED  BY <1>4, <1>5 DEF OpenOnlyIfGranted

-----------------------------------------------------------------------------
LEMMA NextIInv == IInv /\ [Next]_vars => IInv'
<1> SUFFICES ASSUME IInv, [Next]_vars PROVE IInv'
  OBVIOUS
<1> QED
  BY NextType, NextLoop, NextFsmType, NextGate, NextWait, WaitInvariants, BudgetInvariant, NextOpen
  DEF IInv

(* IInv holds throughout every behaviour of the client.                     *)
THEOREM Invariance == Spec => []IInv
BY InitIInv, NextIInv, PTL DEF Spec

(* Every variable of the client keeps its type; MessageIDs stay within      *)
(* their width and retry_count never goes below zero.                      *)
THEOREM TypeCorrect == Spec => []TypeOK
BY Invariance, PTL DEF IInv

(* last_message is always the datagram whose CONFIRM is awaited.            *)
THEOREM ResendsTheRightMessage == Spec => []RetransmitsWhatItAwaits
BY Invariance, PTL DEF IInv

(* The loop's state and the handler's flag never disagree on a wait.        *)
THEOREM StdinBlocked == Spec => []InputBlockedWhileUnconfirmed
BY Invariance, PTL DEF IInv

(* The whole retry budget is accounted for, for every -r.                   *)
THEOREM RetryBudget == Spec => []FullRetryBudget
BY Invariance, PTL DEF IInv

(* No order of events opens a session the server has not granted.           *)
THEOREM OpenIsGranted == Spec => []OpenOnlyIfGranted
BY Invariance, PTL DEF IInv

(* An ERR the client has sent is retransmitted until it is confirmed.       *)
THEOREM ErrorAwaited == Spec => []ErrorIsAwaited
BY Invariance, PTL DEF IInv

(* The UDP handler never gets an answer from the FSM it has no branch for.  *)
THEOREM FsmAnswers == Spec => []FsmAlwaysAnswers
<1>1. IInv => FsmAlwaysAnswers
  <2> SUFFICES ASSUME IInv, NEW a \in UDPOffered
               PROVE  Reaction(a) \in
                        {"ANY", IF a \in UserActions THEN "WARN_CLIENT" ELSE "ERROR_USER"}
    BY DEF FsmAlwaysAnswers, IInv, FSMInv
  <2>1. a # "BYE_USER"
    BY DEF UDPOffered
  <2>2. Gated \/ currentState \in Live
    BY DEF IInv, GateInv, Gated
  <2> QED  BY <2>1, <2>2 DEF Reaction, Live
<1> QED  BY <1>1, Invariance, PTL

=============================================================================
