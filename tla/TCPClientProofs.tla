-------------------------- MODULE TCPClientProofs --------------------------
(***************************************************************************)
(* The TCP client's invariants, for every way to cut the server's stream   *)
(* into segments and every number of messages the static buffer may hold.  *)
(***************************************************************************)
EXTENDS TCPClientProperties, FSMLemmas, SequenceTheorems

USE DEF Ended, ClientStates, NotAState, Returned, SentTypes

\* Where the loop is while a call runs and when the client is over.
LoopInv ==
    /\ pc = "poll" => call = "none" /\ state # "OVER"
    /\ call # "none" => state # "OVER"
    /\ pc \in Ended => state = "OVER" /\ ~exited

\* The FSM is in ERROR or END only if the client is over, and what a gate
\* would restore is a live state.
GateInv ==
    Alive => /\ currentState \in Live
             /\ Gated => /\ previousState \in Live
                         /\ expectedAction \cap {"JOIN_USER", "MESSAGE_USER"} = {}

\* AUTH and OPEN are reached, and restored, only with consent and grant.
Consented(s) == (s = "AUTH" => grant # "none") /\ (s = "OPEN" => grant = "given")

ConsentInv == Consented(currentState) /\ (Gated => Consented(previousState))

RequestsGranted == \A i \in DOMAIN sent : sent[i] \in {"JOIN", "MSG"} => grant = "given"

\* No call that returns a value makes the loop wait for a confirmation.
NoConfirmation == ~undefined => state # "WAITING_FOR_CONFIRMATION"

OverWithFarewell == state = "OVER" /\ ~exited /\ ~undefined => farewell

IInv ==
    /\ TypeOK /\ LoopInv
    /\ FSMInv /\ GateInv
    /\ ConsentInv /\ RequestsGranted
    /\ BlockedOnlyForReply /\ LeftOnlyWhileWaiting
    /\ NoConfirmation /\ OverWithFarewell

LEMMA InitIInv == Init => IInv
<1> SUFFICES ASSUME Init PROVE IInv
  OBVIOUS
<1> USE DEF Init, LoopInit, TCPInit, FSMInit
<1>1. TCPTypeOK
  <2>1. buffer \in Seq(Messages) /\ sent \in Seq(SentTypes)
    BY EmptySeq
  <2> QED  BY <2>1 DEF TCPTypeOK, Shown
<1>2. FSMTypeOK /\ FSMInv /\ GateInv /\ ConsentInv
  BY DEF FSMTypeOK, FSMInv, GateInv, ConsentInv, Consented, States, Live, Gated, Alive
<1>3. LoopTypeOK /\ LoopInv
  <2>1. retry_count \in 0 .. Retrans
    BY RetransAssumption
  <2> QED  BY <2>1 DEF LoopTypeOK, LoopInv
<1>4. /\ RequestsGranted /\ BlockedOnlyForReply /\ LeftOnlyWhileWaiting
      /\ NoConfirmation /\ OverWithFarewell
  BY DEF RequestsGranted, BlockedOnlyForReply, LeftOnlyWhileWaiting, NoConfirmation,
     OverWithFarewell
<1> QED  BY <1>1, <1>2, <1>3, <1>4 DEF IInv, TypeOK

-----------------------------------------------------------------------------
(* What a call sent is a prefix of what it had to, all of it if it lives.   *)
LEMMA SendPrefix ==
    ASSUME exited \in BOOLEAN, NEW msgs \in Seq(SentTypes), Send(msgs)
    PROVE  /\ exited' \in BOOLEAN /\ sent' \in Seq(SentTypes)
           /\ \A i \in DOMAIN sent' : i \in DOMAIN msgs /\ sent'[i] = msgs[i]
           /\ exited' \/ (exited' = exited /\ sent' = msgs)
<1>1. CASE sent' = msgs /\ UNCHANGED exited
  BY <1>1
<1>2. ASSUME NEW k \in 0 .. Len(msgs) - 1, sent' = SubSeq(msgs, 1, k), exited' = TRUE
      PROVE  /\ sent' \in Seq(SentTypes)
             /\ \A i \in DOMAIN sent' : i \in DOMAIN msgs /\ sent'[i] = msgs[i]
  <2>1. \A i \in 1 .. k : i \in DOMAIN msgs /\ msgs[i] \in SentTypes
    BY <1>2
  <2>2. k \in Int /\ 1 \in Int
    BY <1>2
  <2>3. /\ SubSeq(msgs, 1, k) \in Seq(SentTypes)
        /\ Len(SubSeq(msgs, 1, k)) = k
        /\ \A i \in 1 .. k : SubSeq(msgs, 1, k)[i] = msgs[i]
    BY <2>1, <2>2, SubSeqProperties
  <2>4. DOMAIN sent' = 1 .. k
    BY <1>2, <2>3
  <2> QED  BY <1>2, <2>1, <2>3, <2>4
<1>3. CASE \E k \in 0 .. Len(msgs) - 1 : sent' = SubSeq(msgs, 1, k) /\ exited' = TRUE
  BY <1>2, <1>3
<1> QED  BY <1>1, <1>3 DEF Send

SaidBye == \E i \in DOMAIN sent' : sent'[i] = "BYE"

(* The two ways the handler takes its leave.                                *)
LEMMA SendBye ==
    ASSUME exited \in BOOLEAN, Send(<<"BYE">>) \/ Send(<<"ERR", "BYE">>)
    PROVE  /\ exited' \in BOOLEAN /\ sent' \in Seq(SentTypes)
           /\ \A i \in DOMAIN sent' : sent'[i] \in {"ERR", "BYE"}
           /\ exited' \/ SaidBye
<1>1. CASE Send(<<"BYE">>)
  <2>1. <<"BYE">> \in Seq(SentTypes) /\ DOMAIN <<"BYE">> = {1}
    OBVIOUS
  <2>2. sent' = <<"BYE">> => sent'[1] = "BYE" /\ 1 \in DOMAIN sent'
    OBVIOUS
  <2> QED  BY <1>1, <2>1, <2>2, SendPrefix DEF SaidBye
<1>2. CASE Send(<<"ERR", "BYE">>)
  <2>1. <<"ERR", "BYE">> \in Seq(SentTypes) /\ DOMAIN <<"ERR", "BYE">> = {1, 2}
    OBVIOUS
  <2>3. /\ exited' \in BOOLEAN /\ sent' \in Seq(SentTypes)
        /\ \A i \in DOMAIN sent' : i \in {1, 2} /\ sent'[i] = <<"ERR", "BYE">>[i]
        /\ exited' \/ sent' = <<"ERR", "BYE">>
    BY <1>2, <2>1, SendPrefix
  <2>4. \A i \in {1, 2} : <<"ERR", "BYE">>[i] \in {"ERR", "BYE"}
    OBVIOUS
  <2>2. sent' = <<"ERR", "BYE">> => sent'[2] = "BYE" /\ 2 \in DOMAIN sent'
    OBVIOUS
  <2> QED  BY <2>2, <2>3, <2>4 DEF SaidBye
<1> QED  BY <1>1, <1>2

-----------------------------------------------------------------------------
(* What processing one message comes to.                                    *)

NoRequest == \A i \in DOMAIN sent' : sent'[i] \in {"ERR", "BYE"}

GoesOn   == UNCHANGED <<state, call>>
Waits    == state' = "WAITING_FOR_REPLY" /\ call' = "none" /\ waiting_for_reply'
Ends(m)  == state' = "OVER" /\ call' = "none" /\ (exited' \/ SaidBye \/ m.type = "BYE")
FallsOff == \E junk \in JunkReturns : Return(junk)

Outcome(m) ==
    /\ waiting_for_reply' \in BOOLEAN /\ shown' \in Shown
    /\ exited' \in BOOLEAN /\ sent' \in Seq(SentTypes)
    /\ NoRequest
    /\ \/ GoesOn \/ Waits \/ Ends(m)
       \/ m.type = "REPLY" /\ m.status = "OTHER" /\ FallsOff

LEMMA NothingSent ==
    ASSUME TCPTypeOK, SendNothing
    PROVE  exited' \in BOOLEAN /\ sent' \in Seq(SentTypes) /\ NoRequest
<1>1. <<>> \in Seq(SentTypes) /\ DOMAIN <<>> = {}
  BY EmptySeq
<1> QED  BY <1>1 DEF SendNothing, NoRequest, TCPTypeOK

LEMMA ComplainOutcome ==
    ASSUME TCPTypeOK, NEW m, NEW what \in {"nothing", "internal"}, Complain(what)
    PROVE  Outcome(m) /\ Ends(m)
<1>1. state' = "OVER" /\ call' = "none"
  BY DEF Complain, Return
<1>2. /\ exited' \in BOOLEAN /\ sent' \in Seq(SentTypes)
      /\ NoRequest /\ (exited' \/ SaidBye)
  BY SendBye DEF Complain, TCPTypeOK, NoRequest
<1> QED  BY <1>1, <1>2 DEF Complain, Outcome, Ends, TCPTypeOK, Shown

LEMMA ReceivedOutcome ==
    ASSUME TCPTypeOK, NEW m \in Messages, ProcessReceived(m)
    PROVE  Outcome(m)
<1>0. waiting_for_reply \in BOOLEAN /\ exited \in BOOLEAN
  BY DEF TCPTypeOK
<1>c. ASSUME Complain("nothing") \/ Complain("internal") PROVE Outcome(m)
  BY <1>c, ComplainOutcome
<1>1. ASSUME ProcessMsg(m) PROVE Outcome(m)
  <2>1. CASE /\ SendNothing /\ shown' = "message" /\ UNCHANGED waiting_for_reply
             /\ Return(IF waiting_for_reply THEN "WAITING_FOR_REPLY" ELSE "READY_FOR_INPUT")
    <3>1. GoesOn \/ Waits
      BY <2>1, <1>0 DEF Return, GoesOn, Waits
    <3> QED  BY <1>0, <2>1, <3>1, NothingSent DEF Outcome, Shown
  <2> QED  BY <1>1, <1>c, <2>1 DEF ProcessMsg
<1>2. ASSUME ProcessReply(m) PROVE Outcome(m)
  <2>1. CASE TakeReply(m)
    <3>1. GoesOn /\ shown' \in Shown /\ waiting_for_reply' = FALSE
      BY <2>1 DEF TakeReply, Return, GoesOn, Shown
    <3> QED  BY <2>1, <3>1, NothingSent DEF Outcome, TakeReply
  <2>2. CASE Abort
    <3>1. <<>> \in Seq(SentTypes) /\ DOMAIN <<>> = {}
      BY EmptySeq
    <3> QED  BY <1>0, <2>2, <3>1 DEF Abort, Outcome, GoesOn, Shown, NoRequest
  <2> QED  BY <1>2, <1>c, <2>1, <2>2 DEF ProcessReply
<1>3. ASSUME ProcessOtherReply(m) PROVE Outcome(m)
  BY <1>0, <1>3, NothingSent DEF ProcessOtherReply, Outcome, FallsOff, Shown
<1>4. ASSUME ProcessErr(m) PROVE Outcome(m)
  <2>1. CASE Send(<<"BYE">>) /\ shown' = "error" /\ UNCHANGED waiting_for_reply /\ Return("OVER")
    <3>1. /\ exited' \in BOOLEAN /\ sent' \in Seq(SentTypes)
          /\ NoRequest /\ (exited' \/ SaidBye)
      BY <1>0, <2>1, SendBye DEF NoRequest
    <3> QED  BY <1>0, <2>1, <3>1 DEF Outcome, Ends, Return, Shown
  <2> QED  BY <1>4, <1>c, <2>1 DEF ProcessErr
<1>5. ASSUME ProcessBye(m) PROVE Outcome(m)
  <2>1. CASE SendNothing /\ shown' = "nothing" /\ UNCHANGED waiting_for_reply /\ Return("OVER")
    BY <1>0, <1>5, <2>1, NothingSent DEF ProcessBye, Outcome, Ends, Return, Shown
  <2> QED  BY <1>5, <1>c, <2>1 DEF ProcessBye
<1>6. ASSUME ProcessOther(m) PROVE Outcome(m)
  BY <1>6, <1>c DEF ProcessOther
<1> QED  BY <1>1, <1>2, <1>3, <1>4, <1>5, <1>6 DEF ProcessReceived

-----------------------------------------------------------------------------
(* The FSM as the TCP handler drives it.                                    *)

\* A call after which the client may go on.
Survivable(a) == a \in UserActions \/ (Reaction(a) = "ANY" /\ a \notin {"ERROR_SERVER", "BYE_SERVER"})

FsmStep ==
    \/ UNCHANGED fsmVars
    \/ \E a \in TCPOffered : ValidateAction(a) /\ (Survivable(a) \/ ~Alive')

LEMMA ReceivedFsm ==
    ASSUME TCPTypeOK, NEW m \in Messages, ProcessReceived(m)
    PROVE  FsmStep
<1>1. Complain("nothing") => ~Alive'
  BY DEF Complain, Return, Alive
<1>2. ASSUME ProcessMsg(m) PROVE FsmStep
  <2>1. ValidateAction("MESSAGE_SERVER") /\ (Survivable("MESSAGE_SERVER") \/ ~Alive')
    BY <1>1, <1>2 DEF ProcessMsg, Survivable
  <2> QED  BY <2>1 DEF FsmStep, TCPOffered
<1>3. ASSUME ProcessReply(m) PROVE FsmStep
  <2>1. /\ ReplyAction(m) \in TCPOffered /\ ValidateAction(ReplyAction(m))
        /\ Survivable(ReplyAction(m)) \/ ~Alive'
    BY <1>1, <1>3 DEF ProcessReply, ReplyAction, Survivable, TCPOffered
  <2> QED  BY <2>1 DEF FsmStep
<1>4. ASSUME ProcessErr(m) PROVE FsmStep
  <2>1. ValidateAction("ERROR_SERVER") /\ ~Alive'
    BY <1>1, <1>4 DEF ProcessErr, Return, Alive
  <2> QED  BY <2>1 DEF FsmStep, TCPOffered
<1>5. ASSUME ProcessBye(m) PROVE FsmStep
  <2>1. ValidateAction("BYE_SERVER") /\ ~Alive'
    BY <1>1, <1>5 DEF ProcessBye, Return, Alive
  <2> QED  BY <2>1 DEF FsmStep, TCPOffered
<1>6. ASSUME ProcessOtherReply(m) \/ ProcessOther(m) PROVE FsmStep
  BY <1>6 DEF ProcessOtherReply, ProcessOther, FsmStep
<1> QED  BY <1>2, <1>3, <1>4, <1>5, <1>6 DEF ProcessReceived

LEMMA CommandFsm ==
    ASSUME NEW l \in Lines, UserCommand(l)
    PROVE  FsmStep
<1>1. ASSUME NEW a \in {"AUTHORIZE_USER", "JOIN_USER", "MESSAGE_USER"}, ValidateAction(a)
      PROVE  FsmStep
  BY <1>1 DEF FsmStep, TCPOffered, Survivable, UserActions
<1> QED  BY <1>1 DEF UserCommand, Request, Rename, FsmStep

\* No call of the handler: only the loop and SIGINT.
Uncalled == Idle /\ (LoopRound \/ LoopEnd \/ Exhausted \/ BlankLine \/ Interrupt)

LEMMA NextSplit ==
    ASSUME [Next]_vars
    PROVE  \/ Uncalled \/ Retransmit
           \/ Receive \/ RecvError \/ RecvClosed
           \/ Handle \/ HandleDone
           \/ ExitOnSignal \/ ExitLine
           \/ \E l \in Lines : Command(l)
           \/ UNCHANGED vars
BY DEF Next, Loop, Server, User, Finished, Uncalled, LoopRound, LoopEnd, Exhausted,
       BlankLine, Interrupt

LEMMA NextFsm ==
    ASSUME IInv, [Next]_vars
    PROVE  FsmStep
<1>1. CASE Handle
  <2>1. Head(buffer) \in Messages
    BY <1>1, HeadTailProperties DEF IInv, TypeOK, TCPTypeOK, Handle, ProcessNext
  <2> QED  BY <1>1, <2>1, ReceivedFsm DEF IInv, TypeOK, Handle, ProcessNext
<1>2. CASE \E l \in Lines : Command(l)
  BY <1>2, CommandFsm DEF Command
<1>3. CASE Receive \/ RecvError \/ RecvClosed \/ HandleDone
  BY <1>3 DEF Receive, ReceiveData, RecvError, ReceiveFails, RecvClosed, ReceiveClosed,
     HandleDone, Drained, FsmStep
<1>4. CASE Uncalled \/ Retransmit \/ ExitOnSignal \/ ExitLine
  BY <1>4 DEF Uncalled, Idle, Retransmit, Resend, ExitOnSignal, ExitLine, UserExit, FsmStep
<1>5. CASE UNCHANGED vars
  BY <1>5 DEF vars, FsmStep
<1> QED  BY <1>1, <1>2, <1>3, <1>4, <1>5, NextSplit

LEMMA NextFsmType ==
    ASSUME IInv, [Next]_vars
    PROVE  FSMTypeOK' /\ FSMInv'
<1>1. FSMTypeOK /\ FSMInv
  BY DEF IInv, TypeOK
<1>2. CASE UNCHANGED fsmVars
  BY <1>1, <1>2 DEF fsmVars, FSMTypeOK, FSMInv, Gated
<1>3. ASSUME NEW a \in TCPOffered, ValidateAction(a) PROVE FSMTypeOK' /\ FSMInv'
  <2>1. a \in Actions
    BY DEF TCPOffered, Actions, UserActions, ServerActions
  <2> QED  BY <1>1, <1>3, <2>1, ValidateType, ValidateInv
<1> QED  BY <1>2, <1>3, NextFsm DEF FsmStep

(* A call after which the client goes on leaves the FSM alive.              *)
LEMMA ValidateGate ==
    ASSUME FSMTypeOK, FSMInv, NEW a \in TCPOffered, ValidateAction(a), Survivable(a),
           currentState \in Live,
           Gated => /\ previousState \in Live
                    /\ expectedAction \cap {"JOIN_USER", "MESSAGE_USER"} = {}
    PROVE  /\ currentState' \in Live
           /\ Gated' => /\ previousState' \in Live
                        /\ expectedAction' \cap {"JOIN_USER", "MESSAGE_USER"} = {}
<1> USE DEF TCPOffered, Actions, UserActions, ServerActions, Live, Gated
<1>1. CASE PassGate(a)
  BY <1>1 DEF PassGate
<1>2. CASE WarnAtGate(a)
  BY <1>2 DEF WarnAtGate
<1>3. CASE FailAtGate(a)
  BY <1>3 DEF FailAtGate, Survivable, Reaction, Allowed
<1>4. CASE Transition(a)
  <2>1. a \notin {"ERROR_SERVER", "BYE_SERVER", "BYE_USER", "ERROR_USER"}
    BY DEF Survivable
  <2>2. /\ currentState' \in Live /\ previousState' \in Live
        /\ expectedAction' \cap {"JOIN_USER", "MESSAGE_USER"} = {}
    BY <1>4, <2>1 DEF Transition, Target, Expects
  <2> QED  BY <2>2
<1>5. CASE WarnInSwitch(a)
  BY <1>5 DEF WarnInSwitch
<1>6. CASE FailInSwitch(a)
  BY <1>6 DEF FailInSwitch, Survivable, Reaction, Allowed
<1>7. CASE Terminal(a)
  BY <1>7 DEF Terminal
<1> QED  BY <1>1, <1>2, <1>3, <1>4, <1>5, <1>6, <1>7 DEF ValidateAction

(* Once the client is over nothing but the loop's last step is taken.       *)
LEMMA OverStays ==
    ASSUME IInv, [Next]_vars, ~Alive
    PROVE  ~Alive' /\ UNCHANGED fsmVars
<1>1. state \in Returned /\ (exited \/ state = "OVER")
  BY DEF IInv, TypeOK, Alive
<1>2. /\ pc = "poll" => state # "OVER"
      /\ call # "none" => state # "OVER"
  BY DEF IInv, LoopInv
<1>3. CASE Uncalled \/ UNCHANGED vars
  BY <1>1, <1>2, <1>3 DEF Uncalled, Idle, tcpVars, vars, LoopRound, EnterPoll, LoopEnd, Close,
     Exhausted, GiveUp, AtEvent, BlankLine, EmptyLine, TakeLine, Interrupt, Signal, Alive
<1>4. CASE Handle \/ HandleDone
  BY <1>1, <1>2, <1>4 DEF Handle, ProcessNext, HandleDone, Drained
<1>5. CASE Receive \/ RecvError \/ RecvClosed
  BY <1>1, <1>2, <1>5 DEF Receive, RecvError, RecvClosed, AtRecv, Running, TakeSocket, AtEvent
<1>6. CASE Retransmit \/ ExitOnSignal \/ ExitLine \/ \E l \in Lines : Command(l)
  BY <1>1, <1>2, <1>6 DEF Retransmit, Retry, ExitOnSignal, TakeInterrupt, ExitLine, TakeLine,
     AtEvent, Command, Running
<1> QED  BY <1>3, <1>4, <1>5, <1>6, NextSplit

LEMMA NextGate ==
    ASSUME IInv, [Next]_vars
    PROVE  GateInv'
<1>1. CASE ~Alive
  BY <1>1, OverStays DEF GateInv
<1>2. CASE Alive /\ UNCHANGED fsmVars
  BY <1>2 DEF IInv, GateInv, fsmVars, Gated
<1>3. ASSUME Alive, NEW a \in TCPOffered, ValidateAction(a), Survivable(a) PROVE GateInv'
  BY <1>3, ValidateGate DEF IInv, TypeOK, GateInv
<1> QED  BY <1>1, <1>2, <1>3, NextFsm DEF FsmStep, GateInv

-----------------------------------------------------------------------------
(* Consent and grant.                                                       *)

(* grant only grows, and an accepted AUTH or REPLY is in it.                *)
LEMMA NextConsent ==
    ASSUME IInv, [Next]_vars
    PROVE  ConsentInv'
<1>0. /\ FSMTypeOK /\ ConsentInv
      /\ grant \in {"none", "asked", "given"}
  BY DEF IInv, TypeOK
<1> USE DEF ConsentInv, Consented
<1>1. ASSUME UNCHANGED fsmVars, grant' = grant \/ (grant = "none" /\ grant' = "asked")
                                \/ (grant = "asked" /\ grant' = "given")
      PROVE  ConsentInv'
  BY <1>0, <1>1 DEF fsmVars, Gated
<1>2. ASSUME NEW a \in TCPOffered, ValidateAction(a),
             grant' = grant \/ (grant = "none" /\ grant' = "asked")
             \/ (grant = "asked" /\ grant' = "given"),
             a = "AUTHORIZE_USER" => grant' # "none",
             a = "REPLY_SERVER" /\ grant # "none" => grant' = "given"
      PROVE  ConsentInv'
  <2>1. a \in Actions
    BY DEF TCPOffered, Actions, UserActions, ServerActions
  <2>2. /\ currentState' = "AUTH" =>
             \/ currentState = "AUTH" \/ (Gated /\ previousState = "AUTH")
             \/ a = "AUTHORIZE_USER"
        /\ currentState' = "OPEN" =>
             \/ currentState = "OPEN" \/ (Gated /\ previousState = "OPEN")
             \/ currentState = "AUTH" /\ a = "REPLY_SERVER"
        /\ Gated' => \/ previousState' = currentState
                     \/ Gated /\ previousState' = previousState
    BY <1>0, <1>2, <2>1, ValidateMoves
  <2>3. Consented(currentState)'
    BY <1>0, <1>2, <2>2
  <2>4. Gated' => Consented(previousState)'
    BY <1>0, <1>2, <2>2
  <2> QED  BY <2>3, <2>4
<1>3. CASE Handle
  <2> DEFINE m == Head(buffer)
  <2>1. m \in Messages /\ ProcessReceived(m)
    BY <1>3, HeadTailProperties DEF IInv, TypeOK, TCPTypeOK, Handle, ProcessNext
  <2>2. grant' = IF m.type = "REPLY" /\ m.status = "OK" /\ grant = "asked" THEN "given" ELSE grant
    BY <1>3 DEF Handle
  <2>3. CASE ProcessReply(m)
    <3>1. ValidateAction(ReplyAction(m)) /\ m.type = "REPLY"
      BY <2>3 DEF ProcessReply
    <3>2. /\ ReplyAction(m) \in TCPOffered /\ ReplyAction(m) # "AUTHORIZE_USER"
          /\ ReplyAction(m) = "REPLY_SERVER" => m.status = "OK"
      BY DEF ReplyAction, TCPOffered
    <3>3. ReplyAction(m) = "REPLY_SERVER" /\ grant # "none" => grant' = "given"
      BY <1>0, <2>2, <3>1, <3>2
    <3>4. grant' = grant \/ (grant = "asked" /\ grant' = "given")
      BY <2>2
    <3> QED  BY <1>2, <3>1, <3>2, <3>3, <3>4
  <2>4. CASE ProcessMsg(m) \/ ProcessErr(m) \/ ProcessBye(m)
    <3>1. grant' = grant
      BY <2>2, <2>4 DEF ProcessMsg, ProcessErr, ProcessBye
    <3>2. \E a \in {"MESSAGE_SERVER", "ERROR_SERVER", "BYE_SERVER"} : ValidateAction(a)
      BY <2>4 DEF ProcessMsg, ProcessErr, ProcessBye
    <3> QED  BY <1>2, <3>1, <3>2 DEF TCPOffered
  <2>5. CASE ProcessOtherReply(m) \/ ProcessOther(m)
    <3>1. UNCHANGED fsmVars
      BY <2>5 DEF ProcessOtherReply, ProcessOther
    <3> QED  BY <1>1, <2>2, <3>1
  <2> QED  BY <2>1, <2>3, <2>4, <2>5 DEF ProcessReceived
<1>4. ASSUME NEW l \in Lines, Command(l) PROVE ConsentInv'
  <2>1. /\ UserCommand(l)
        /\ grant' = IF l.cmd = "/AUTH" /\ grant = "none" THEN "asked" ELSE grant
    BY <1>4 DEF Command
  <2>2. CASE l.cmd = "/AUTH" /\ ValidateAction("AUTHORIZE_USER")
    BY <1>0, <1>2, <2>1, <2>2 DEF TCPOffered
  <2>3. CASE l.cmd # "/AUTH" /\ (ValidateAction("JOIN_USER") \/ ValidateAction("MESSAGE_USER"))
    BY <1>2, <2>1, <2>3 DEF TCPOffered
  <2>4. CASE UNCHANGED fsmVars
    BY <1>1, <2>1, <2>4
  <2> QED  BY <2>1, <2>2, <2>3, <2>4 DEF UserCommand, Request, Rename
<1>5. CASE Receive \/ RecvError \/ RecvClosed \/ HandleDone
  BY <1>1, <1>5 DEF Receive, ReceiveData, RecvError, ReceiveFails, RecvClosed, ReceiveClosed,
     HandleDone, Drained, history
<1>6. CASE Uncalled \/ Retransmit \/ ExitOnSignal \/ ExitLine
  BY <1>1, <1>6 DEF Uncalled, Idle, Retransmit, Resend, ExitOnSignal, ExitLine, UserExit, history
<1>7. CASE UNCHANGED vars
  BY <1>1, <1>7 DEF vars, history
<1> QED  BY <1>3, <1>4, <1>5, <1>6, <1>7, NextSplit

-----------------------------------------------------------------------------
(* What the other calls come to.                                            *)

(* A line of the user, read when the buffer has been emptied.               *)
LEMMA CommandOutcome ==
    ASSUME IInv, NEW l \in Lines, Command(l)
    PROVE  /\ state' \in Returned /\ waiting_for_reply' \in BOOLEAN
           /\ exited' \in BOOLEAN /\ sent' \in Seq(SentTypes) /\ shown' \in Shown
           /\ \A i \in DOMAIN sent' : sent'[i] \in {"JOIN", "MSG"} => grant = "given"
           /\ \/ state' = "READY_FOR_INPUT"
              \/ state' = "WAITING_FOR_REPLY" /\ waiting_for_reply'
              \/ undefined'
<1>0. TCPTypeOK /\ Alive
  BY DEF IInv, TypeOK, Command, Running, TakeLine, AtEvent, LoopInv, Alive
<1>1. UserCommand(l)
  BY DEF Command
<1> DEFINE Post ==
      /\ state' \in Returned /\ waiting_for_reply' \in BOOLEAN
      /\ exited' \in BOOLEAN /\ sent' \in Seq(SentTypes) /\ shown' \in Shown
      /\ \A i \in DOMAIN sent' : sent'[i] \in {"JOIN", "MSG"} => grant = "given"
      /\ \/ state' = "READY_FOR_INPUT"
         \/ state' = "WAITING_FOR_REPLY" /\ waiting_for_reply'
         \/ undefined'
<1>2. ASSUME NEW what \in {"internal", "help"}, Answer(what) PROVE Post
  BY <1>0, <1>2, NothingSent DEF Answer, NoRequest, TCPTypeOK, Shown
<1>3. ASSUME NEW type \in {"AUTH", "JOIN", "MSG"}, SendRequest(type),
             type # "AUTH" => grant = "given"
      PROVE  Post
  <2>1. <<type>> \in Seq(SentTypes) /\ DOMAIN <<type>> = {1} /\ <<type>>[1] = type
    OBVIOUS
  <2>2. /\ exited' \in BOOLEAN /\ sent' \in Seq(SentTypes)
        /\ \A i \in DOMAIN sent' : sent'[i] = type
    BY <1>0, <1>3, <2>1, SendPrefix DEF SendRequest, TCPTypeOK
  <2> QED  BY <1>0, <1>3, <2>2 DEF SendRequest, TCPTypeOK, Shown
<1>4. ASSUME NEW a \in {"JOIN_USER", "MESSAGE_USER"}, Reaction(a) = "ANY"
      PROVE  grant = "given"
  BY <1>0, <1>4 DEF IInv, GateInv, ConsentInv, Consented, Reaction, Allowed, Accepted,
     UserActions, Live, Gated
<1>5. CASE l.cmd = "/AUTH" /\ Request(l, "AUTHORIZE_USER", "AUTH")
  BY <1>2, <1>3, <1>5 DEF Request
<1>6. CASE Request(l, "JOIN_USER", "JOIN")
  BY <1>2, <1>3, <1>4, <1>6 DEF Request
<1>7. CASE Request(l, "MESSAGE_USER", "MSG")
  BY <1>2, <1>3, <1>4, <1>7 DEF Request
<1>8. CASE l.cmd = "/RENAME" /\ Rename(l)
  <2>1. CASE Answer("internal")
    BY <1>2, <2>1
  <2>2. CASE l.valid /\ SendNothing /\ shown' = "nothing" /\ state' \in JunkReturns /\ UNCHANGED waiting_for_reply
    <3>1. undefined'
      BY <1>8, <2>2 DEF Command
    <3>2. state' \in Returned
      BY <2>2, JunkAssumption
    <3> QED  BY <1>0, <2>2, <3>1, <3>2, NothingSent DEF NoRequest, TCPTypeOK, Shown
  <2> QED  BY <1>8, <2>1, <2>2 DEF Rename
<1>9. CASE Answer("help") \/ Answer("internal")
  BY <1>2, <1>9
<1> QED  BY <1>1, <1>5, <1>6, <1>7, <1>8, <1>9 DEF UserCommand

(* /exit, typed or made of the signal.                                      *)
LEMMA ExitOutcome ==
    ASSUME TCPTypeOK, farewell \in BOOLEAN, UserExit, SaysBye
    PROVE  /\ exited' \in BOOLEAN /\ sent' \in Seq(SentTypes) /\ NoRequest
           /\ state' = "OVER" /\ farewell' \in BOOLEAN /\ (exited' \/ farewell')
<1>1. /\ exited' \in BOOLEAN /\ sent' \in Seq(SentTypes)
      /\ NoRequest /\ (exited' \/ SaidBye)
  BY SendBye DEF UserExit, TCPTypeOK, NoRequest
<1> QED  BY <1>1 DEF UserExit, SaysBye, SaidBye

(* One message of the buffer.                                               *)
LEMMA HandleOutcome ==
    ASSUME IInv, Handle
    PROVE  /\ Head(buffer) \in Messages
           /\ buffer' \in Seq(Messages)
           /\ Outcome(Head(buffer))
           /\ state' \in Returned /\ call' \in {call, "none"}
<1>1. TCPTypeOK /\ state \in Returned
  BY DEF IInv, TypeOK
<1>2. /\ Head(buffer) \in Messages /\ Tail(buffer) \in Seq(Messages)
      /\ buffer' = Tail(buffer) /\ ProcessReceived(Head(buffer))
  BY <1>1, HeadTailProperties DEF TCPTypeOK, Handle, ProcessNext
<1>3. Outcome(Head(buffer))
  BY <1>1, <1>2, ReceivedOutcome
<1>4. state' \in Returned /\ call' \in {call, "none"}
  BY <1>1, <1>3, JunkAssumption DEF Outcome, GoesOn, Waits, Ends, FallsOff, Return
<1> QED  BY <1>2, <1>3, <1>4

-----------------------------------------------------------------------------
(* Types.                                                                   *)

LEMMA NextLoopType ==
    ASSUME IInv, [Next]_vars
    PROVE  LoopTypeOK'
<1>0. LoopTypeOK
  BY DEF IInv, TypeOK
<1> USE RetransAssumption DEF LoopTypeOK
<1>1. CASE Uncalled \/ Retransmit \/ UNCHANGED vars
  <2>1. CASE LoopRound \/ LoopEnd \/ Exhausted \/ BlankLine
    BY <1>0, <2>1 DEF LoopRound, EnterPoll, LoopEnd, Close, Exhausted, GiveUp, AtEvent, BlankLine,
       EmptyLine, TakeLine, signalVars
  <2>2. CASE Interrupt
    <3>1. eintr' \in BOOLEAN
      BY <1>0, <2>2 DEF Interrupt, Signal
    <3> QED  BY <1>0, <2>2, <3>1 DEF Interrupt, Signal
  <2>3. CASE Retransmit
    BY <1>0, <2>3 DEF Retransmit, Retry, AtEvent, signalVars
  <2>4. CASE UNCHANGED vars
    BY <1>0, <2>4 DEF vars, loopVars
  <2> QED  BY <1>1, <2>1, <2>2, <2>3, <2>4 DEF Uncalled
<1>2. CASE Receive \/ RecvError
  BY <1>0, <1>2 DEF Receive, RecvError, AtRecv, TakeSocket, AtEvent, signalVars, loopVars
<1>3. CASE RecvClosed \/ Handle \/ HandleDone
  BY <1>0, <1>3 DEF RecvClosed, TakeSocket, AtEvent, Handle, HandleDone, AfterCall, RestoreRetries,
     signalVars
<1>4. CASE ExitOnSignal \/ ExitLine \/ \E l \in Lines : Command(l)
  BY <1>0, <1>4 DEF ExitOnSignal, TakeInterrupt, ExitLine, TakeLine, AtEvent, Command, signalVars
<1> QED  BY <1>1, <1>2, <1>3, <1>4, NextSplit

LEMMA NextType ==
    ASSUME IInv, [Next]_vars
    PROVE  TypeOK'
<1>0. /\ TypeOK /\ TCPTypeOK /\ state \in Returned
      /\ grant \in {"none", "asked", "given"} /\ farewell \in BOOLEAN /\ undefined \in BOOLEAN
  BY DEF IInv, TypeOK
<1>n. <<>> \in Seq(SentTypes)
  BY EmptySeq
<1>1. CASE Uncalled
  <2>1. /\ sent' = <<>> \/ sent' = sent
        /\ shown' \in {shown, "nothing"} /\ UNCHANGED <<tcpVars, history>>
        /\ state' \in {state, "OVER"}
    BY <1>1 DEF Uncalled, Idle, LoopRound, EnterPoll, LoopEnd, Close, Exhausted, GiveUp, BlankLine,
       EmptyLine, Interrupt, Signal, outVars
  <2>2. sent' \in Seq(SentTypes) /\ shown' \in Shown
    BY <1>0, <1>n, <2>1 DEF TCPTypeOK, Shown
  <2>3. TCPTypeOK'
    BY <1>0, <2>1, <2>2 DEF TCPTypeOK, tcpVars
  <2> QED  BY <1>0, <2>1, <2>3, NextFsmType, NextLoopType DEF TypeOK, history
<1>2. CASE Retransmit
  <2>1. TCPTypeOK'
    BY <1>0, <1>2, <1>n DEF Retransmit, Resend, tcpVars, TCPTypeOK, Shown
  <2> QED  BY <1>0, <1>2, <2>1, NextFsmType, NextLoopType DEF TypeOK, Retransmit, Retry, history
<1>3. CASE Receive
  <2>0. PICK n \in 0 .. MaxBuffered - Len(buffer) : \E msgs \in [1 .. n -> Messages] : ReceiveData(msgs)
    BY <1>3 DEF Receive
  <2>1. PICK msgs \in [1 .. n -> Messages] : ReceiveData(msgs)
    BY <2>0
  <2>2. msgs \in Seq(Messages)
    OBVIOUS
  <2>3. buffer' \in Seq(Messages)
    BY <1>0, <2>1, <2>2, ConcatProperties DEF ReceiveData, TCPTypeOK
  <2>4. TCPTypeOK' /\ state' \in Returned
    BY <1>0, <1>n, <2>1, <2>3 DEF ReceiveData, SendNothing, TCPTypeOK, Shown
  <2> QED  BY <1>0, <1>3, <2>4, NextFsmType, NextLoopType DEF TypeOK, Receive, history
<1>4. CASE RecvError \/ RecvClosed \/ HandleDone
  <2>1. TCPTypeOK' /\ state' \in Returned
    BY <1>0, <1>4, <1>n DEF RecvError, ReceiveFails, RecvClosed, ReceiveClosed, HandleDone, Drained,
       SendNothing, TCPTypeOK, Shown
  <2> QED  BY <1>0, <1>4, <2>1, NextFsmType, NextLoopType
           DEF TypeOK, RecvError, RecvClosed, HandleDone, history
<1>5. CASE Handle
  <2>1. TCPTypeOK' /\ state' \in Returned
    BY <1>0, <1>5, HandleOutcome DEF Outcome, TCPTypeOK
  <2>2. /\ grant' \in {"none", "asked", "given"}
        /\ farewell' \in BOOLEAN /\ undefined' \in BOOLEAN
    BY <1>0, <1>5 DEF Handle
  <2> QED  BY <2>1, <2>2, NextFsmType, NextLoopType DEF TypeOK
<1>6. CASE ExitOnSignal \/ ExitLine
  <2>1. UserExit /\ SaysBye /\ UNCHANGED <<grant, undefined>>
    BY <1>6 DEF ExitOnSignal, ExitLine
  <2>2. TCPTypeOK' /\ state' \in Returned /\ farewell' \in BOOLEAN
    BY <1>0, <2>1, ExitOutcome DEF UserExit, TCPTypeOK, Shown
  <2> QED  BY <1>0, <2>1, <2>2, NextFsmType, NextLoopType DEF TypeOK
<1>7. ASSUME NEW l \in Lines, Command(l) PROVE TypeOK'
  <2>1. TCPTypeOK' /\ state' \in Returned
    BY <1>0, <1>7, CommandOutcome DEF Command, UserCommand, TCPTypeOK
  <2>2. /\ grant' \in {"none", "asked", "given"}
        /\ farewell' \in BOOLEAN /\ undefined' \in BOOLEAN
    BY <1>0, <1>7 DEF Command
  <2> QED  BY <2>1, <2>2, NextFsmType, NextLoopType DEF TypeOK
<1>8. CASE UNCHANGED vars
  BY <1>0, <1>8, NextFsmType, NextLoopType DEF vars, tcpVars, outVars, history, TypeOK, TCPTypeOK
<1> QED  BY <1>1, <1>2, <1>3, <1>4, <1>5, <1>6, <1>7, <1>8, NextSplit

-----------------------------------------------------------------------------
(* The loop, the flag and the static buffer.                                *)

StreamInv ==
    /\ LoopInv
    /\ BlockedOnlyForReply /\ LeftOnlyWhileWaiting
    /\ NoConfirmation /\ OverWithFarewell

LEMMA NextStream ==
    ASSUME IInv, [Next]_vars
    PROVE  StreamInv'
<1>0. /\ StreamInv /\ state \in Returned /\ call \in {"none", "recv", "process"}
      /\ exited \in BOOLEAN /\ undefined \in BOOLEAN /\ farewell \in BOOLEAN
  BY DEF IInv, StreamInv, TypeOK, TCPTypeOK
<1> USE DEF StreamInv, LoopInv, BlockedOnlyForReply, LeftOnlyWhileWaiting, NoConfirmation,
            OverWithFarewell, Alive
<1>1. CASE Uncalled
  <2>1. UNCHANGED <<waiting_for_reply, buffer, call, exited, farewell, undefined>>
    BY <1>1 DEF Uncalled, Idle, tcpVars, history
  <2>2. CASE LoopRound \/ LoopEnd
    BY <1>0, <2>1, <2>2 DEF LoopRound, EnterPoll, LoopEnd, Close, Running
  <2>3. CASE Interrupt \/ BlankLine
    BY <1>0, <2>1, <2>3 DEF Interrupt, Signal, BlankLine, EmptyLine, TakeLine, AtEvent
  <2>4. CASE Exhausted
    BY <1>0, <2>1, <2>4 DEF Exhausted, GiveUp, AtEvent, Running
  <2> QED  BY <1>1, <2>2, <2>3, <2>4 DEF Uncalled
<1>2. CASE Retransmit
  BY <1>0, <1>2 DEF Retransmit, Retry, Resend, AtEvent, tcpVars, history
<1>3. CASE Receive \/ RecvError
  <2>1. /\ call' # "none"
        /\ UNCHANGED <<state, exited, farewell, undefined>>
    BY <1>3 DEF Receive, ReceiveData, RecvError, ReceiveFails, SendNothing, history
  <2>2. /\ state # "OVER"
        /\ pc' \notin Ended /\ pc' # "poll"
    BY <1>0, <1>3 DEF Receive, RecvError, AtRecv, TakeSocket, AtEvent, loopVars
  <2> QED  BY <1>0, <2>1, <2>2
<1>4. CASE RecvClosed
  <2>1. /\ state' = "OVER" /\ call' = "none" /\ farewell' = TRUE
        /\ UNCHANGED <<exited, undefined>>
    BY <1>4 DEF RecvClosed, ReceiveClosed, SendNothing
  <2>2. ~exited /\ pc' # "poll"
    BY <1>0, <1>4 DEF RecvClosed, TakeSocket, AtEvent, Running
  <2> QED  BY <1>0, <2>1, <2>2
<1>5. CASE Handle
  <2> DEFINE m == Head(buffer)
  <2>1. /\ ~exited /\ call = "process" /\ pc' = pc
        /\ farewell' = (farewell \/ m.type = "BYE" \/ SaidBye)
        /\ undefined' = (undefined \/ (m.type = "REPLY" /\ m.status = "OTHER"))
    BY <1>5 DEF Handle, ProcessNext, AfterCall, SaidBye
  <2>2. pc \notin Ended /\ pc # "poll" /\ state # "OVER"
    BY <1>0, <2>1
  <2>3. Outcome(m)
    BY <1>5, HandleOutcome
  <2>4. CASE GoesOn
    BY <1>0, <2>1, <2>2, <2>4 DEF GoesOn
  <2>5. CASE Waits
    BY <1>0, <2>1, <2>2, <2>5 DEF Waits
  <2>6. CASE Ends(m)
    BY <1>0, <2>1, <2>2, <2>6 DEF Ends
  <2>7. CASE m.type = "REPLY" /\ m.status = "OTHER" /\ FallsOff
    <3>1. undefined' /\ (call' = "none" \/ UNCHANGED <<state, call>>)
      BY <2>1, <2>7 DEF FallsOff, Return
    <3> QED  BY <1>0, <2>1, <2>2, <3>1
  <2> QED  BY <2>3, <2>4, <2>5, <2>6, <2>7 DEF Outcome
<1>6. CASE HandleDone
  <2>1. /\ state' = "READY_FOR_INPUT" /\ call' = "none" /\ buffer' = <<>>
        /\ call = "process" /\ pc' = pc /\ UNCHANGED <<exited, farewell, undefined>>
    BY <1>6 DEF HandleDone, Drained, AfterCall, SendNothing, history
  <2> QED  BY <1>0, <2>1
<1>7. CASE ExitOnSignal \/ ExitLine
  <2>1. /\ UserExit /\ SaysBye /\ pc' = "top" /\ call = "none"
        /\ UNCHANGED <<call, undefined>>
    BY <1>7 DEF ExitOnSignal, TakeInterrupt, ExitLine, TakeLine, AtEvent, Running, UserExit
  <2>2. state' = "OVER" /\ (exited' \/ farewell')
    BY <1>0, <2>1, ExitOutcome DEF IInv, TypeOK
  <2> QED  BY <1>0, <2>1, <2>2
<1>8. ASSUME NEW l \in Lines, Command(l) PROVE StreamInv'
  <2>1. /\ state \notin {"WAITING_FOR_CONFIRMATION", "WAITING_FOR_REPLY", "OVER"}
        /\ ~exited /\ call = "none" /\ pc' = "top"
        /\ UNCHANGED <<buffer, call>>
        /\ undefined => undefined'
    BY <1>0, <1>8 DEF Command, Running, TakeLine, AtEvent, StdinPolled, UserCommand
  <2>2. buffer = <<>> \/ undefined
    BY <1>0, <2>1
  <2>3. \/ state' = "READY_FOR_INPUT"
        \/ state' = "WAITING_FOR_REPLY" /\ waiting_for_reply'
        \/ undefined'
    BY <1>8, CommandOutcome
  <2> QED  BY <1>0, <2>1, <2>2, <2>3
<1>9. CASE UNCHANGED vars
  BY <1>0, <1>9 DEF vars, loopVars, tcpVars, history
<1> QED  BY <1>1, <1>2, <1>3, <1>4, <1>5, <1>6, <1>7, <1>8, <1>9, NextSplit

LEMMA NextRequests ==
    ASSUME IInv, [Next]_vars
    PROVE  RequestsGranted'
<1>0. TCPTypeOK /\ farewell \in BOOLEAN
  BY DEF IInv, TypeOK
<1>1. ASSUME NoRequest PROVE RequestsGranted'
  BY <1>1 DEF NoRequest, RequestsGranted
<1>2. ASSUME sent' = <<>> PROVE RequestsGranted'
  BY <1>2 DEF RequestsGranted
<1>3. ASSUME UNCHANGED <<sent, grant>> PROVE RequestsGranted'
  BY <1>3 DEF IInv, RequestsGranted
<1>4. CASE Uncalled \/ UNCHANGED vars
  BY <1>2, <1>3, <1>4 DEF Uncalled, Idle, LoopRound, LoopEnd, Exhausted, BlankLine, Interrupt,
     outVars, history, vars
<1>5. CASE Retransmit \/ Receive \/ RecvError \/ RecvClosed \/ HandleDone
  BY <1>2, <1>5 DEF Retransmit, Resend, Receive, ReceiveData, RecvError, ReceiveFails, RecvClosed,
     ReceiveClosed, HandleDone, Drained, SendNothing
<1>6. CASE Handle
  BY <1>1, <1>6, HandleOutcome DEF Outcome
<1>7. CASE ExitOnSignal \/ ExitLine
  BY <1>0, <1>1, <1>7, ExitOutcome DEF ExitOnSignal, ExitLine
<1>8. ASSUME NEW l \in Lines, Command(l) PROVE RequestsGranted'
  <2>1. grant = "given" => grant' = "given"
    BY <1>8 DEF Command
  <2> QED  BY <1>8, <2>1, CommandOutcome DEF RequestsGranted
<1> QED  BY <1>4, <1>5, <1>6, <1>7, <1>8, NextSplit

-----------------------------------------------------------------------------
(* The inductive invariant, and what follows from it.                       *)

LEMMA NextIInv ==
    ASSUME IInv, [Next]_vars
    PROVE  IInv'
BY NextType, NextFsmType, NextGate, NextConsent, NextRequests, NextStream DEF IInv, StreamInv

THEOREM Invariance == Spec => []IInv
<1>1. Init => IInv
  BY InitIInv
<1>2. IInv /\ [Next]_vars => IInv'
  BY NextIInv
<1> QED  BY <1>1, <1>2, PTL DEF Spec

(* Every variable of the TCP client keeps its type.                         *)
THEOREM TypeCorrect == Spec => []TypeOK
<1>1. IInv => TypeOK
  BY DEF IInv
<1> QED  BY <1>1, Invariance, PTL

(* As long as the client goes on, every call the handler makes of           *)
(* validate_action returns a reaction the handler has a branch for.         *)
THEOREM FsmAnswers == Spec => []FsmAlwaysAnswers
<1>1. IInv => FsmAlwaysAnswers
  <2> SUFFICES ASSUME IInv PROVE FsmAlwaysAnswers
    OBVIOUS
  <2>1. Gated => previousState # "UNINIT"
    BY DEF IInv, FSMInv
  <2>2. ASSUME Alive, NEW a \in TCPOffered
        PROVE  Reaction(a) \in {"ANY", IF a \in UserActions THEN "WARN_CLIENT" ELSE "ERROR_USER"}
    <3>1. currentState \in Live /\ a # "BYE_USER"
      BY <2>2 DEF IInv, GateInv, TCPOffered
    <3> QED  BY <3>1 DEF Reaction, Live
  <2> QED  BY <2>1, <2>2 DEF FsmAlwaysAnswers
<1> QED  BY <1>1, Invariance, PTL

(* The session opens, and a JOIN or MSG leaves, only after a positive REPLY *)
(* that followed the user's /auth.                                          *)
THEOREM OpenIsGranted == Spec => []OpenOnlyIfGranted
<1>1. IInv => OpenOnlyIfGranted
  BY DEF IInv, ConsentInv, Consented, RequestsGranted, OpenOnlyIfGranted
<1> QED  BY <1>1, Invariance, PTL

(* The loop refuses stdin for a reply only while the handler takes one.     *)
THEOREM BlockedForReply == Spec => []BlockedOnlyForReply
<1>1. IInv => BlockedOnlyForReply
  BY DEF IInv
<1> QED  BY <1>1, Invariance, PTL

(* Complete messages are left in the buffer only behind a MSG that came     *)
(* while a reply was awaited.                                               *)
THEOREM LeftWhileWaiting == Spec => []LeftOnlyWhileWaiting
<1>1. IInv => LeftOnlyWhileWaiting
  BY DEF IInv
<1> QED  BY <1>1, Invariance, PTL

(* The connection is closed after a BYE, or by the server.                  *)
THEOREM ClosedAfterFarewell == Spec => []FarewellBeforeClose
<1>1. IInv => FarewellBeforeClose
  BY DEF IInv, LoopInv, OverWithFarewell, FarewellBeforeClose
<1> QED  BY <1>1, Invariance, PTL

-----------------------------------------------------------------------------
(* The client takes part in a chat session.                                 *)

\* What was sent has been forgotten when the loop polls.
PollQuiet == pc = "poll" => sent = <<>>

LEMMA NextQuiet ==
    ASSUME IInv, PollQuiet, [Next]_vars
    PROVE  PollQuiet'
<1>0. pc = "poll" => call = "none"
  BY DEF IInv, LoopInv
<1> USE DEF PollQuiet
<1>1. CASE Uncalled \/ UNCHANGED vars
  BY <1>1 DEF Uncalled, LoopRound, LoopEnd, Close, Exhausted, GiveUp, AtEvent, BlankLine, EmptyLine,
     TakeLine, Interrupt, Signal, vars, loopVars, outVars
<1>2. CASE Retransmit \/ Receive \/ RecvError \/ RecvClosed
  BY <1>2 DEF Retransmit, Resend, Receive, ReceiveData, RecvError, ReceiveFails, RecvClosed,
     ReceiveClosed, SendNothing
<1>3. CASE Handle \/ HandleDone
  BY <1>0, <1>3 DEF Handle, ProcessNext, HandleDone, Drained, AfterCall
<1>4. CASE ExitOnSignal \/ ExitLine \/ \E l \in Lines : Command(l)
  BY <1>4 DEF ExitOnSignal, TakeInterrupt, ExitLine, TakeLine, AtEvent, Command
<1> QED  BY <1>1, <1>2, <1>3, <1>4, NextSplit

\* A step that says nothing but farewells.
LEMMA AttendStep ==
    ASSUME NoRequest, ~Alive => ~Alive',
           \/ grant' = grant
           \/ grant = "asked" /\ grant' = "given"
           \/ grant = "none" /\ grant' = "asked" /\ sent' = <<>>
    PROVE  Session!Next
<1>1. {sent[i] : i \in DOMAIN sent}' \subseteq {"ERR", "BYE"}
  BY DEF NoRequest
<1>2. sent' = <<>> => {sent[i] : i \in DOMAIN sent}' = {}
  OBVIOUS
<1>l. (IF Alive THEN "no" ELSE "yes")' \in Session!Onward
  BY DEF Session!Onward
<1>3. CASE grant = "none" /\ grant' = "asked" /\ sent' = <<>>
  <2>1. Session!Ask
    BY <1>2, <1>3, <1>l DEF Session!Ask
  <2> QED  BY <2>1 DEF Session!Next
<1>4. CASE grant' = grant \/ (grant = "asked" /\ grant' = "given")
  <2>1. Session!Attend
    BY <1>1, <1>4, <1>l DEF Session!Attend, Session!Farewells
  <2> QED  BY <2>1 DEF Session!Next
<1> QED  BY <1>3, <1>4

LEMMA RequestStep ==
    ASSUME NEW type \in {"AUTH", "JOIN", "MSG"}, sent' = <<type>>, Alive, Alive',
           \/ grant' = grant /\ grant \in (IF type = "AUTH" THEN {"asked", "given"} ELSE {"given"})
           \/ grant = "none" /\ grant' = "asked" /\ type = "AUTH"
    PROVE  Session!Next
<1>1. {sent[i] : i \in DOMAIN sent}' = {type}
  OBVIOUS
<1>l. Session!Say(type)
  BY <1>1 DEF Session!Say
<1>2. CASE grant = "none" /\ grant' = "asked" /\ type = "AUTH"
  <2>1. Session!Ask
    BY <1>2, <1>l DEF Session!Ask
  <2> QED  BY <2>1 DEF Session!Next
<1>3. CASE grant' = grant /\ grant \in (IF type = "AUTH" THEN {"asked", "given"} ELSE {"given"})
  <2>1. Session!Request(type)
    BY <1>3, <1>l DEF Session!Request
  <2> QED  BY <2>1 DEF Session!Next
<1> QED  BY <1>2, <1>3

LEMMA CommandSession ==
    ASSUME IInv, NEW l \in Lines, Command(l)
    PROVE  Session!Next
<1>0. /\ TCPTypeOK /\ Alive /\ ~exited
      /\ grant \in {"none", "asked", "given"}
  BY DEF IInv, TypeOK, Command, Running, TakeLine, AtEvent, LoopInv, Alive
<1>1. /\ UserCommand(l)
      /\ grant' = IF l.cmd = "/AUTH" /\ grant = "none" THEN "asked" ELSE grant
  BY DEF Command
<1>2. ASSUME SendNothing PROVE Session!Next
  <2>1. NoRequest
    BY <1>0, <1>2, NothingSent
  <2> QED  BY <1>0, <1>1, <1>2, <2>1, AttendStep DEF SendNothing
<1>3. ASSUME NEW type \in {"AUTH", "JOIN", "MSG"}, SendRequest(type),
             type = "AUTH" => l.cmd = "/AUTH", type # "AUTH" => grant = "given"
      PROVE  Session!Next
  <2>1. Send(<<type>>) /\ state' # "OVER"
    BY <1>3 DEF SendRequest
  <2>2. CASE sent' = <<type>> /\ UNCHANGED exited
    <3>1. Alive'
      BY <1>0, <2>1, <2>2 DEF Alive
    <3> QED  BY <1>0, <1>1, <1>3, <2>2, <3>1, RequestStep
  <2>3. ASSUME NEW k \in 0 .. Len(<<type>>) - 1, sent' = SubSeq(<<type>>, 1, k), exited' = TRUE
        PROVE  Session!Next
    <3>1. k = 0 /\ sent' = <<>>
      BY <2>3
    <3>2. NoRequest /\ ~Alive'
      BY <2>3, <3>1 DEF NoRequest, Alive
    <3> QED  BY <1>1, <3>1, <3>2, AttendStep
  <2> QED  BY <2>1, <2>2, <2>3 DEF Send
<1>4. ASSUME NEW a \in {"JOIN_USER", "MESSAGE_USER"}, Reaction(a) = "ANY"
      PROVE  grant = "given"
  BY <1>0, <1>4 DEF IInv, GateInv, ConsentInv, Consented, Reaction, Allowed, Accepted,
     UserActions, Live, Gated
<1> QED  BY <1>1, <1>2, <1>3, <1>4 DEF UserCommand, Request, Rename, Answer

LEMMA NextSession ==
    ASSUME IInv, PollQuiet, [Next]_vars
    PROVE  [Session!Next]_(Session!vars)
<1>0. /\ TCPTypeOK /\ farewell \in BOOLEAN
      /\ ~Alive => ~Alive'
  BY OverStays DEF IInv, TypeOK
<1>n. sent' = <<>> => NoRequest
  BY DEF NoRequest
<1>1. CASE Uncalled
  <2>1. UNCHANGED <<grant, exited>>
    BY <1>1 DEF Uncalled, Idle, tcpVars, history
  <2>2. CASE LoopRound
    BY <1>0, <1>n, <2>1, <2>2, AttendStep DEF LoopRound
  <2>3. CASE Exhausted
    <3>1. sent' = <<>>
      BY <2>3 DEF PollQuiet, Exhausted, GiveUp, AtEvent, outVars
    <3> QED  BY <1>0, <1>n, <2>1, <3>1, AttendStep
  <2>4. CASE LoopEnd \/ BlankLine \/ Interrupt
    <3>1. UNCHANGED <<grant, exited, state, sent>>
      BY <2>1, <2>4 DEF LoopEnd, Close, BlankLine, EmptyLine, Interrupt, Signal, outVars
    <3> QED  BY <3>1 DEF Session!vars, Alive
  <2> QED  BY <1>1, <2>2, <2>3, <2>4 DEF Uncalled
<1>2. CASE Retransmit \/ Receive \/ RecvError \/ RecvClosed \/ HandleDone
  <2>1. sent' = <<>> /\ grant' = grant
    BY <1>2 DEF Retransmit, Resend, Receive, ReceiveData, RecvError, ReceiveFails, RecvClosed,
       ReceiveClosed, HandleDone, Drained, SendNothing, history
  <2> QED  BY <1>0, <1>n, <2>1, AttendStep
<1>3. CASE Handle
  <2>1. NoRequest
    BY <1>3, HandleOutcome DEF Outcome
  <2>2. grant' = grant \/ (grant = "asked" /\ grant' = "given")
    BY <1>3 DEF Handle
  <2> QED  BY <1>0, <2>1, <2>2, AttendStep
<1>4. CASE ExitOnSignal \/ ExitLine
  <2>1. NoRequest /\ grant' = grant
    BY <1>0, <1>4, ExitOutcome DEF ExitOnSignal, ExitLine
  <2> QED  BY <1>0, <2>1, AttendStep
<1>5. CASE \E l \in Lines : Command(l)
  BY <1>5, CommandSession
<1>6. CASE UNCHANGED vars
  BY <1>6 DEF vars, tcpVars, outVars, history, Session!vars, Alive
<1> QED  BY <1>1, <1>2, <1>3, <1>4, <1>5, <1>6, NextSplit

(* Every behaviour of the TCP client is one of the chat session.            *)
THEOREM SessionKept == Spec => KeepsSession
<1>1. Init => Session!Init /\ PollQuiet
  BY DEF Init, LoopInit, TCPInit, Session!Init, Alive, PollQuiet
<1>2. IInv /\ PollQuiet /\ [Next]_vars => PollQuiet'
  BY NextQuiet
<1>3. IInv /\ PollQuiet /\ [Next]_vars => [Session!Next]_(Session!vars)
  BY NextSession
<1> QED  BY <1>1, <1>2, <1>3, Invariance, PTL DEF Spec, KeepsSession, Session!Spec

=============================================================================
