-------------------------- MODULE UDPSystemProofs ---------------------------
(***************************************************************************)
(* What the UDP client and the server achieve together, for every number   *)
(* of messages, every width of the MessageIDs and every -r.                *)
(***************************************************************************)
EXTENDS UDPSystemProperties, UDPClientProofs

USE DEF Requests, SentTypes, Ids, NoId, Sent, Awaiting

\* What has a MessageID of the client's own, and of the server's own.
ClientTypes == Requests \cup {"ERR", "BYE"}
ServerTypes == {"REPLY", "MSG", "ERR", "BYE"}

\* MessageIDs do not come round, and last_message has the newest: whatever
\* else of that id is on its way is a copy of it.
NumberInv ==
    /\ renamer3000 <= MaxSent
    /\ last_message.type \in ClientTypes \cup {"EMPTY"}
    /\ IF last_message.type = "EMPTY" THEN renamer3000 = 0
                                      ELSE renamer3000 = last_message.id + 1
    /\ \A d \in toServer : d.dgram.type \in ClientTypes =>
         /\ d.dgram.id < renamer3000
         /\ d.dgram.id = last_message.id => d.dgram = last_message
    /\ \A id \in Sent : answer[id] # "unheard" => id < renamer3000

\* What the last call sent is on its way, so posting it again adds nothing.
PostedInv ==
    \A i \in DOMAIN sent :
        [dgram |-> sent[i],
         reached |-> sent[i].type \in TakenAnywhere \/ server_address = SessionPort] \in toServer

\* The server says only what it means: it confirms what it heard, answers a
\* request with its decision, numbers its messages and ends with ERR or BYE.
Honest(m) ==
    \/ m.type = "CONFIRM" /\ Heard(m.id)
    \/ /\ m.type \in ServerTypes /\ m.form = "valid" /\ m.id < served
       /\ m.type \in {"ERR", "BYE"} => closed
       /\ m.type = "REPLY" =>
            /\ m.ref \in Sent /\ m.status \in {"OK", "NOK"} /\ answer[m.ref] = m.status
            /\ \E d \in toServer : d.dgram.id = m.ref /\ d.dgram.type \in {"AUTH", "JOIN"}

ServerInv ==
    /\ \A m \in toClient : Honest(m)
    /\ \A m, n \in toClient : m.type # "CONFIRM" /\ n.type # "CONFIRM" /\ m.id = n.id => m = n

\* What the client has noted or confirmed was said, and a MSG noted was shown.
ReceivedInv ==
    /\ \A id \in received_ids : id < served
    /\ \A d \in toServer : d.dgram.type = "CONFIRM" => d.dgram.id < served
    /\ displayed \subseteq received_ids
    /\ \A m \in toClient : m.type = "MSG" /\ m.id \in received_ids => m.id \in displayed

\* The request whose reply is awaited has not been decided for the user; any
\* other has been, or the user has replaced it.
ReplyInv ==
    /\ awaited_reply_id \notin told
    /\ \A id \in told : id < renamer3000
    /\ last_message.type \in {"AUTH", "JOIN"} =>
         last_message.id = awaited_reply_id \/ last_message.id \in told
    /\ \A d \in toServer : d.dgram.type \in {"AUTH", "JOIN"} =>
         d.dgram.id = awaited_reply_id \/ d.dgram.id \in told \/ Replaced(d.dgram.id)

\* A BYE is awaited, and the server that has heard it has closed the session.
ByeInv ==
    /\ awaiting_over => closed \/ (Awaiting /\ last_message.type = "BYE")
    /\ last_message.type = "BYE" /\ Heard(last_message.id) => closed

\* A call that falls off its end (/rename) may be read as OVER.
HonestReturns == "OVER" \notin JunkReturns
OverInv ==
    /\ pc = "done" => state = "OVER"
    /\ HonestReturns /\ state = "OVER" => closed \/ retry_count = 0

SysInv ==
    /\ IInv /\ SystemTypeOK
    /\ NumberInv /\ PostedInv /\ ServerInv
    /\ ReceivedInv /\ ConfirmedIsShown
    /\ ReplyInv /\ NoReplyLostInSilence
    /\ ByeInv /\ OverInv

-----------------------------------------------------------------------------
(* Neither side's MessageIDs come round.                                    *)
LEMMA SystemConstants ==
    /\ IdMod \in Nat /\ MaxSent \in Nat /\ MaxSent > 0 /\ MaxSent < IdMod - 1
    /\ SessionPort \in Ports /\ Sent \subseteq Ids /\ NoId \notin Sent
    /\ ServerIds = 0 .. MaxServed - 1 /\ MaxServed \in Nat
BY SystemAssumption, IdAssumption

LEMMA NoWrap ==
    ASSUME NEW i \in Ids, i <= MaxSent
    PROVE  NextId(i) = i + 1
BY SystemConstants DEF NextId

LEMMA InitSysInv == SystemInit => SysInv
<1> SUFFICES ASSUME SystemInit PROVE SysInv
  OBVIOUS
<1> USE SystemConstants DEF SystemInit
<1>1. IInv /\ TypeOK
  BY InitIInv DEF IInv
<1>2. /\ renamer3000 = 0 /\ last_message.type = "EMPTY" /\ sent = <<>> /\ received_ids = {}
      /\ grant = "none" /\ state # "OVER" /\ pc # "done" /\ ~awaiting_over
  BY DEF Init, LoopInit, UDPInit, NoMessage
<1>3. SystemTypeOK
  <2>1. answer \in [Sent -> Answers]
    BY DEF Answers
  <2>2. served \in 0 .. MaxServed
    OBVIOUS
  <2>3. toServer = {} /\ toClient = {} /\ displayed = {} /\ told = {} /\ ~authorised /\ ~closed
    OBVIOUS
  <2> QED  BY <1>1, <2>1, <2>2, <2>3 DEF SystemTypeOK
<1>4. NumberInv /\ PostedInv /\ ServerInv /\ ReceivedInv /\ ReplyInv
  BY <1>2 DEF NumberInv, PostedInv, ServerInv, ReceivedInv, ReplyInv
<1>5. ByeInv /\ OverInv
  BY <1>2 DEF ByeInv, OverInv
<1>6. ConfirmedIsShown /\ NoReplyLostInSilence
  BY DEF ConfirmedIsShown, NoReplyLostInSilence
<1> QED  BY <1>1, <1>3, <1>4, <1>5, <1>6 DEF SysInv

-----------------------------------------------------------------------------
(* The steps.  To the client the system is one of its environments.         *)

ClientMoves == ClientStep \/ \E m \in toClient : Deliver(m)

LEMMA SystemSplit ==
    [SystemNext]_sysVars => ClientMoves \/ ServerStep \/ UNCHANGED sysVars
BY DEF SystemNext, ClientMoves

LEMMA SourcesArePorts ==
    ASSUME NEW m
    PROVE  Sources(m) \subseteq Ports
BY SystemConstants, PortAssumption DEF Sources

LEMMA ClientMovesNext ==
    ASSUME SysInv, ClientMoves
    PROVE  [Next]_vars
<1>1. CASE ClientStep
  BY <1>1 DEF ClientStep, Next, Loop, User
<1>2. ASSUME NEW m \in toClient, Deliver(m) PROVE [Next]_vars
  <2>1. m \in Datagrams /\ Sources(m) \subseteq Ports
    BY SourcesArePorts DEF SysInv, SystemTypeOK
  <2> QED  BY <1>2, <2>1 DEF Deliver, Next, Server
<1> QED  BY <1>1, <1>2 DEF ClientMoves

LEMMA ServerStepFrame ==
    ASSUME ServerStep
    PROVE  UNCHANGED <<vars, toServer, seenVars>>
BY DEF ServerStep, Decide, Hear, Dismiss, Take, Arrives, Speak

LEMMA SystemStepNext ==
    ASSUME SysInv, [SystemNext]_sysVars
    PROVE  [Next]_vars
BY SystemSplit, ClientMovesNext, ServerStepFrame DEF sysVars

-----------------------------------------------------------------------------
(* What the client sends.                                                   *)

Sends(S) == \A i \in DOMAIN sent' : sent'[i] \in S

LEMMA AppendElements ==
    ASSUME NEW a, NEW b
    PROVE  /\ \A i \in DOMAIN Append(<<>>, b) : Append(<<>>, b)[i] = b
           /\ \A i \in DOMAIN Append(<<a>>, b) : Append(<<a>>, b)[i] \in {a, b}
           /\ \E i \in DOMAIN Append(<<>>, b) : Append(<<>>, b)[i] = b
           /\ \E i \in DOMAIN Append(<<a>>, b) : Append(<<a>>, b)[i] = b
OBVIOUS

LEMMA TransmitSends ==
    ASSUME NEW type, NEW acks, Transmit(type, acks)
    PROVE  /\ acks = <<>> => Sends({last_message'})
           /\ \A a : acks = <<a>> => Sends({a, last_message'})
BY AppendElements DEF Transmit, Sends

LEMMA SendErrorPosts ==
    ASSUME NEW acks, SendError(acks)
    PROVE  /\ acks = <<>> => Sends({last_message'})
           /\ \A a : acks = <<a>> => Sends({a, last_message'})
<1>1. CASE Only(acks)
  BY <1>1 DEF Only, Sends
<1>2. CASE Transmit("ERR", acks)
  BY <1>2, TransmitSends
<1> QED  BY <1>1, <1>2 DEF SendError

(* Without a delivery nothing but last_message leaves.                      *)
LEMMA ClientStepSends ==
    ASSUME SysInv, ClientStep
    PROVE  (UNCHANGED <<sent, server_address>>) \/ Sends({last_message'})
<1>1. CASE LoopRound
  BY <1>1 DEF LoopRound, Sends
<1>2. CASE LoopEnd \/ Exhausted \/ BlankLine
  BY <1>2 DEF LoopEnd, Exhausted, BlankLine, Idle, NoAck, outVars, udpVars
<1>3. CASE Retransmit
  BY <1>3 DEF Retransmit, Resend, udpVars, Sends
<1>4. CASE ExitLine
  BY <1>4, TransmitSends DEF ExitLine, UserExit, SendBye
<1>5. CASE ErrorLine
  BY <1>5, SendErrorPosts DEF ErrorLine, FlushError
<1>6. ASSUME NEW l \in Lines, Command(l) PROVE Sends({last_message'})
  <2>1. ASSUME NEW type, SendRequest(type) PROVE Sends({last_message'})
    BY <2>1, TransmitSends DEF SendRequest
  <2>2. CASE sent' = <<>>
    BY <2>2 DEF Sends
  <2> QED  BY <1>6, <2>1, <2>2 DEF Command, UserCommand, Dispatch, Request, Answer, Rename
<1> QED  BY <1>1, <1>2, <1>3, <1>4, <1>5, <1>6 DEF ClientStep

\* What a call may send on a message of the server.
Acks(m) == {last_message'} \cup (IF m.type = "CONFIRM" THEN {} ELSE {Confirm(m.id)})

(* What a call does with a message of this server.                          *)

\* Its MessageID is noted, and a MSG is shown when it is noted.
Noted(m) ==
    /\ \/ UNCHANGED received_ids
       \/ m.type # "CONFIRM" /\ received_ids' = received_ids \cup {m.id}
    /\ shown' = "message" <=> m.type = "MSG" /\ m.id \in received_ids' /\ m.id \notin received_ids
    /\ m.type = "MSG" /\ m.id \notin received_ids' => Sends({last_message'})

\* The awaited reply is shown, unless an error is reported, now or later.
Told(m) ==
    IF shown' \in {"success", "failure"}
    THEN /\ m.type = "REPLY" /\ m.ref = awaited_reply_id /\ awaited_reply_id' = NoId
         /\ shown' = IF m.status = "OK" THEN "success" ELSE "failure"
    ELSE /\ UNCHANGED awaited_reply_id
         /\ m.type = "REPLY" /\ m.ref = awaited_reply_id =>
              error_while_waiting' \/ \E i \in DOMAIN sent' : sent'[i].type = "ERR"

\* Only a farewell is sent for the first time.
Farewell == UNCHANGED last_message \/ last_message'.type \in {"ERR", "BYE"}

LEMMA SendErrorFarewell ==
    ASSUME NEW acks, SendError(acks)
    PROVE  Farewell
BY DEF SendError, Only, Transmit, Farewell

Delivered(m) == Sends(Acks(m)) /\ Noted(m) /\ Told(m) /\ Farewell

LEMMA RejectDelivered ==
    ASSUME NEW m, Reject(<<>>) \/ (Reject(<<Confirm(m.id)>>) /\ m.type \notin {"MSG", "CONFIRM"})
    PROVE  Delivered(m)
<1>1. PICK acks \in {<<>>, <<Confirm(m.id)>>} :
         /\ SendError(acks) /\ shown' = "nothing"
         /\ UNCHANGED <<received_ids, awaited_reply_id>>
         /\ m.type \in {"MSG", "CONFIRM"} => acks = <<>>
  BY DEF Reject
<1>2. /\ Sends(Acks(m))
      /\ m.type \in {"MSG", "CONFIRM"} => Sends({last_message'})
  BY <1>1, SendErrorPosts DEF Sends, Acks
<1>3. Farewell
  BY <1>1, SendErrorFarewell
<1>4. error_while_waiting' \/ \E i \in DOMAIN sent' : sent'[i].type = "ERR"
  <2>1. CASE Transmit("ERR", acks)
    <3>1. last_message'.type = "ERR" /\ sent' = Append(acks, last_message')
      BY <2>1 DEF Transmit
    <3> QED  BY <1>1, <3>1, AppendElements
  <2> QED  BY <1>1, <2>1 DEF SendError
<1> QED  BY <1>1, <1>2, <1>3, <1>4 DEF Delivered, Noted, Told

LEMMA ConfirmDelivered ==
    ASSUME NEW m, ReceiveConfirm(m)
    PROVE  Delivered(m)
<1>1. /\ m.type = "CONFIRM" /\ shown' = "nothing"
      /\ UNCHANGED <<received_ids, awaited_reply_id>>
  BY DEF ReceiveConfirm
<1>2. CASE sent' = <<>> /\ UNCHANGED last_message
  BY <1>1, <1>2 DEF Sends, Delivered, Noted, Told, Farewell
<1>3. CASE Transmit("BYE", <<>>)
  <2>1. Sends({last_message'}) /\ Farewell
    BY <1>3, TransmitSends DEF Transmit, Farewell
  <2> QED  BY <1>1, <2>1 DEF Sends, Acks, Delivered, Noted, Told
<1> QED
  BY <1>2, <1>3 DEF ReceiveConfirm, ConfirmOther, Only, ConfirmBye, ConfirmError, SendBye,
     ConfirmRequest

LEMMA ReplyDelivered ==
    ASSUME NEW m, m.form = "valid", m.status \in {"OK", "NOK"}, ReceiveReply(m)
    PROVE  Delivered(m)
<1>1. m.type = "REPLY"
  BY DEF ReceiveReply
<1>2. CASE Reject(<<Confirm(m.id)>>)
  BY <1>1, <1>2, RejectDelivered
<1>3. CASE TakeReply(m) \/ IgnoreReply(m)
  <2>1. Sends(Acks(m)) /\ Farewell
    BY <1>1, <1>3 DEF TakeReply, IgnoreReply, Only, Sends, Acks, Farewell
  <2> QED  BY <1>1, <1>3, <2>1 DEF TakeReply, IgnoreReply, Delivered, Noted, Told
<1> QED  BY <1>1, <1>2, <1>3 DEF ReceiveReply

LEMMA MsgDelivered ==
    ASSUME NEW m, m.form = "valid", ReceiveMsg(m)
    PROVE  Delivered(m)
<1>1. CASE Reject(<<>>)
  BY <1>1, RejectDelivered
<1>2. CASE ~Reject(<<>>)
  <2>1. /\ m.type = "MSG" /\ sent' = <<Confirm(m.id)>>
        /\ received_ids' = received_ids \cup {m.id}
        /\ shown' = IF m.id \in received_ids THEN "nothing" ELSE "message"
        /\ UNCHANGED <<last_message, awaited_reply_id>>
    BY <1>2 DEF ReceiveMsg, Only
  <2> QED  BY <2>1 DEF Delivered, Sends, Acks, Noted, Told, Farewell
<1> QED  BY <1>1, <1>2

LEMMA ErrDelivered ==
    ASSUME NEW m, m.form = "valid", ReceiveErr(m)
    PROVE  Delivered(m)
<1>1. CASE Reject(<<Confirm(m.id)>>)
  BY <1>1, RejectDelivered DEF ReceiveErr
<1>2. CASE ~Reject(<<Confirm(m.id)>>)
  <2>1. /\ m.type = "ERR" /\ Transmit("BYE", <<Confirm(m.id)>>)
        /\ received_ids' = received_ids \cup {m.id}
        /\ shown' \in {"nothing", "error"}
        /\ UNCHANGED awaited_reply_id
    BY <1>2 DEF ReceiveErr, SendBye
  <2>2. Sends(Acks(m)) /\ Farewell
    BY <2>1, TransmitSends DEF Transmit, Sends, Acks, Farewell
  <2> QED  BY <2>1, <2>2 DEF Delivered, Noted, Told
<1> QED  BY <1>1, <1>2

LEMMA ByeDelivered ==
    ASSUME NEW m, m.form = "valid", ReceiveBye(m)
    PROVE  Delivered(m)
BY DEF ReceiveBye, Only, Delivered, Sends, Acks, Noted, Told, Farewell

LEMMA DeliverIs ==
    ASSUME SysInv, NEW m \in toClient, Deliver(m)
    PROVE  Delivered(m)
<1>1. Honest(m) /\ \E port \in Sources(m) : ProcessServerMessage(m, port)
  BY DEF SysInv, ServerInv, Deliver, Receive, ProcessServerMessage
<1>2. CASE ReceiveConfirm(m)
  BY <1>1, <1>2, ConfirmDelivered
<1>3. CASE ReceiveReply(m)
  <2>1. m.form = "valid" /\ m.status \in {"OK", "NOK"}
    BY <1>1, <1>3 DEF ReceiveReply, Honest
  <2> QED  BY <1>1, <1>3, <2>1, ReplyDelivered
<1>4. CASE ReceiveMsg(m) \/ ReceiveErr(m) \/ ReceiveBye(m)
  <2>1. m.form = "valid"
    BY <1>1, <1>4 DEF ReceiveMsg, ReceiveErr, ReceiveBye, Honest
  <2> QED  BY <1>1, <1>4, <2>1, MsgDelivered, ErrDelivered, ByeDelivered
<1>5. ~ReceiveUnknown(m)
  BY <1>1 DEF ReceiveUnknown, Honest, ServerTypes
<1> QED  BY <1>1, <1>2, <1>3, <1>4, <1>5 DEF ProcessServerMessage

(* What is on its way after a step of the client.                           *)
LEMMA PostElements ==
    ASSUME Post, NEW d \in toServer', d \notin toServer
    PROVE  \E i \in DOMAIN sent' : d.dgram = sent'[i]
BY DEF Post, Posted

LEMMA ClientMovesPosts ==
    ASSUME SysInv, ClientMoves
    PROVE  PostedInv' /\ toServer \subseteq toServer'
BY DEF ClientMoves, ClientStep, Deliver, Post, Posted, PostedInv

LEMMA ClientStepPosts ==
    ASSUME SysInv, ClientStep, NEW d \in toServer', d \notin toServer
    PROVE  d.dgram = last_message'
<1>1. \E i \in DOMAIN sent' : d.dgram = sent'[i]
  BY PostElements DEF ClientStep
<1>2. ~ UNCHANGED <<sent, server_address>>
  BY DEF ClientStep, Post, Posted, SysInv, PostedInv
<1> QED  BY <1>1, <1>2, ClientStepSends DEF Sends

LEMMA DeliverPosts ==
    ASSUME SysInv, NEW m \in toClient, Deliver(m), NEW d \in toServer', d \notin toServer
    PROVE  d.dgram \in Acks(m)
<1>1. \E i \in DOMAIN sent' : d.dgram = sent'[i]
  BY PostElements DEF Deliver
<1>2. Sends(Acks(m))
  BY DeliverIs DEF Delivered
<1> QED  BY <1>1, <1>2 DEF Sends

LEMMA ClientMovesPost ==
    ASSUME SysInv, ClientMoves, NEW d \in toServer', d \notin toServer
    PROVE  d.dgram = last_message' \/ d.dgram.type = "CONFIRM"
<1>1. ASSUME NEW m \in toClient, Deliver(m)
      PROVE  d.dgram = last_message' \/ d.dgram.type = "CONFIRM"
  BY <1>1, DeliverPosts, DeliverIs DEF Acks, Confirm
<1> QED  BY <1>1, ClientStepPosts DEF ClientMoves

(* A step of the client sends at most one message for the first time.       *)
LEMMA ClientMovesNumber ==
    ASSUME SysInv, ClientMoves
    PROVE  /\ renamer3000' <= MaxSent
           /\ \/ UNCHANGED <<renamer3000, last_message>>
              \/ /\ renamer3000' = renamer3000 + 1
                 /\ \E type \in ClientTypes : last_message' = [type |-> type, id |-> renamer3000]
<1>0. renamer3000 \in Ids /\ renamer3000 <= MaxSent /\ renamer3000' <= MaxSent /\ IInv
  BY DEF SysInv, IInv, TypeOK, UDPTypeOK, NumberInv, ClientMoves, ClientStep, Deliver
<1>1. LoopWaitStep
  BY ClientMovesNext, NextWait, <1>0
<1>2. NextId(renamer3000) = renamer3000 + 1
  BY <1>0, NoWrap
<1>3. \/ UNCHANGED <<renamer3000, last_message>>
      \/ \E type \in ClientTypes : Numbers(type)
  BY <1>1 DEF LoopWaitStep, WaitStep, KeepsWait, EndsWait, StartsBye, StartsError, StartsRequest,
     Retransmit, Resend, udpVars, idVars, ClientTypes
<1> QED  BY <1>0, <1>2, <1>3 DEF Numbers

LEMMA ClientMovesFrame ==
    ASSUME ClientMoves
    PROVE  UNCHANGED <<toClient, serverVars>>
BY DEF ClientMoves, ClientStep, Deliver

-----------------------------------------------------------------------------
(* The invariant across a step of the client, part by part.                 *)

LEMMA ClientNumberInv ==
    ASSUME SysInv, ClientMoves
    PROVE  NumberInv'
<1>0. /\ NumberInv /\ renamer3000 \in Nat /\ last_message.id \in Nat
      /\ UNCHANGED answer
  BY ClientMovesFrame, IdAssumption
  DEF SysInv, IInv, TypeOK, UDPTypeOK, Sendable, serverVars
<1>1. CASE UNCHANGED <<renamer3000, last_message>>
  <2>1. ASSUME NEW d \in toServer', d.dgram.type \in ClientTypes
        PROVE  d \in toServer \/ d.dgram = last_message
    BY <1>1, <2>1, ClientMovesPost DEF ClientTypes
  <2>2. ASSUME NEW d \in toServer', d.dgram.type \in ClientTypes
        PROVE  /\ d.dgram.id < renamer3000
               /\ d.dgram.id = last_message.id => d.dgram = last_message
    <3>1. CASE d \in toServer
      BY <1>0, <2>2, <3>1 DEF NumberInv
    <3>2. CASE d.dgram = last_message
      <4>1. last_message.type # "EMPTY"
        BY <2>2, <3>2 DEF ClientTypes
      <4> QED  BY <1>0, <3>2, <4>1 DEF NumberInv
    <3> QED  BY <2>1, <2>2, <3>1, <3>2
  <2> QED  BY <1>0, <1>1, <2>2 DEF NumberInv
<1>2. CASE /\ renamer3000' = renamer3000 + 1 /\ renamer3000' <= MaxSent
           /\ \E type \in ClientTypes : last_message' = [type |-> type, id |-> renamer3000]
  <2>0. /\ last_message'.type \in ClientTypes /\ last_message'.type # "EMPTY"
        /\ last_message'.id = renamer3000
    BY <1>2 DEF ClientTypes
  <2>1. ASSUME NEW d \in toServer', d.dgram.type \in ClientTypes
        PROVE  /\ d.dgram.id < renamer3000'
               /\ d.dgram.id = last_message'.id => d.dgram = last_message'
    <3>1. CASE d \in toServer
      <4>1. d.dgram.id < renamer3000 /\ d.dgram.id \in Nat
        BY <1>0, <2>1, <3>1 DEF NumberInv, SysInv, SystemTypeOK, Sendable
      <4> QED  BY <1>0, <1>2, <2>0, <4>1
    <3>2. CASE d.dgram = last_message'
      BY <1>0, <1>2, <2>0, <3>2
    <3> QED  BY <2>1, <3>1, <3>2, ClientMovesPost DEF ClientTypes
  <2>2. \A id \in Sent : answer[id] # "unheard" => id < renamer3000'
    BY <1>0, <1>2 DEF NumberInv
  <2> QED  BY <1>0, <1>2, <2>0, <2>1, <2>2 DEF NumberInv
<1> QED  BY <1>1, <1>2, ClientMovesNumber

LEMMA ClientServerInv ==
    ASSUME SysInv, ClientMoves
    PROVE  ServerInv'
<1>1. UNCHANGED <<toClient, answer, served, closed>> /\ toServer \subseteq toServer'
  BY ClientMovesFrame, ClientMovesPosts DEF serverVars
<1>2. ASSUME NEW m \in toClient PROVE Honest(m)'
  <2>1. Honest(m)
    BY DEF SysInv, ServerInv
  <2> QED  BY <1>1, <2>1 DEF Honest, Heard
<1> QED  BY <1>1, <1>2 DEF SysInv, ServerInv

(* Steps other than a delivery note nothing, and a new request is the only  *)
(* one whose reply is awaited.                                              *)
NewRequest ==
    /\ last_message'.type \in Requests /\ last_message'.id = renamer3000
    /\ \E i \in DOMAIN sent' : sent'[i] = last_message'

Asks ==
    \/ UNCHANGED awaited_reply_id /\ Farewell
    \/ awaited_reply_id' = NoId /\ last_message'.type = "MSG" /\ NewRequest
    \/ awaited_reply_id' = renamer3000 /\ NewRequest

LEMMA SendRequestAsks ==
    ASSUME NEW type \in Requests, SendRequest(type)
    PROVE  Asks
<1>1. /\ last_message' = [type |-> type, id |-> renamer3000]
      /\ sent' = Append(<<>>, last_message')
      /\ awaited_reply_id' = IF type = "MSG" THEN NoId ELSE renamer3000
  BY DEF SendRequest, Transmit
<1>2. NewRequest
  BY <1>1, AppendElements DEF NewRequest
<1> QED  BY <1>1, <1>2 DEF Asks

LEMMA ClientStepIs ==
    ASSUME SysInv, ClientStep
    PROVE  /\ UNCHANGED <<server_address, received_ids, displayed, told>>
           /\ shown' \in {"message", "success", "failure"} => shown' = shown
           /\ Asks
<1>0. UNCHANGED <<displayed, told>>
  BY DEF ClientStep, seenVars
<1>1. CASE LoopRound \/ LoopEnd \/ Exhausted \/ BlankLine
  BY <1>0, <1>1 DEF LoopRound, LoopEnd, Exhausted, BlankLine, Idle, NoAck, outVars, udpVars, idVars, Asks,
     Farewell
<1>2. CASE Retransmit
  BY <1>0, <1>2 DEF Retransmit, Resend, udpVars, idVars, Asks, Farewell
<1>3. CASE ExitLine
  BY <1>0, <1>3 DEF ExitLine, UserExit, SendBye, Transmit, Asks, Farewell
<1>4. CASE ErrorLine
  <2>1. Farewell
    BY <1>4, SendErrorFarewell DEF ErrorLine, FlushError
  <2> QED  BY <1>0, <1>4, <2>1 DEF ErrorLine, FlushError, Asks
<1>5. ASSUME NEW l \in Lines, Command(l)
      PROVE  /\ UNCHANGED <<server_address, received_ids>> /\ Asks
             /\ shown' \notin {"message", "success", "failure"}
  <2>1. ASSUME NEW type \in Requests, SendRequest(type)
        PROVE  /\ UNCHANGED <<server_address, received_ids>> /\ Asks
               /\ shown' \notin {"message", "success", "failure"}
    BY <2>1, SendRequestAsks DEF SendRequest
  <2>2. ASSUME UNCHANGED udpVars PROVE UNCHANGED <<server_address, received_ids>> /\ Asks
    BY <2>2 DEF udpVars, idVars, Asks, Farewell
  <2> QED  BY <1>5, <2>1, <2>2 DEF Command, UserCommand, Dispatch, Request, Answer, Rename
<1> QED  BY <1>0, <1>1, <1>2, <1>3, <1>4, <1>5 DEF ClientStep

LEMMA DeliverFrame ==
    ASSUME SysInv, NEW m \in toClient, Deliver(m)
    PROVE  /\ Honest(m) /\ Noted(m) /\ Told(m) /\ Farewell
           /\ displayed' = IF shown' = "message" THEN displayed \cup {m.id} ELSE displayed
           /\ told' = IF shown' \in {"success", "failure"} THEN told \cup {m.ref} ELSE told
BY DeliverIs DEF SysInv, ServerInv, Deliver, Delivered

LEMMA ClientReceivedInv ==
    ASSUME SysInv, ClientMoves
    PROVE  ReceivedInv'
<1>0. ReceivedInv /\ UNCHANGED <<toClient, served>>
  BY ClientMovesFrame DEF SysInv, serverVars
<1>1. CASE ClientStep
  <2>1. ASSUME NEW d \in toServer', d.dgram.type = "CONFIRM" PROVE d \in toServer
    <3>1. last_message'.type # "CONFIRM"
      BY ClientNumberInv DEF NumberInv, ClientTypes
    <3> QED  BY <1>1, <2>1, <3>1, ClientStepPosts
  <2>2. UNCHANGED <<received_ids, displayed>>
    BY <1>1, ClientStepIs
  <2> QED  BY <1>0, <2>1, <2>2 DEF ReceivedInv
<1>2. ASSUME NEW m \in toClient, Deliver(m) PROVE ReceivedInv'
  <2>0. /\ Honest(m) /\ Noted(m)
        /\ displayed' = IF shown' = "message" THEN displayed \cup {m.id} ELSE displayed
    BY <1>2, DeliverFrame
  <2>1. m.type # "CONFIRM" => m.id < served
    BY <2>0 DEF Honest
  <2>2. ASSUME NEW d \in toServer', d.dgram.type = "CONFIRM" PROVE d.dgram.id < served
    <3>1. CASE d \in toServer
      BY <1>0, <2>2, <3>1 DEF ReceivedInv
    <3>2. CASE d \notin toServer
      <4>1. last_message'.type # "CONFIRM"
        BY ClientNumberInv DEF NumberInv, ClientTypes
      <4>2. m.type # "CONFIRM" /\ d.dgram = Confirm(m.id)
        BY <1>2, <2>2, <3>2, <4>1, DeliverPosts DEF Acks
      <4> QED  BY <2>1, <4>2 DEF Confirm
    <3> QED  BY <3>1, <3>2
  <2>3. \A id \in received_ids' : id < served
    BY <1>0, <2>0, <2>1 DEF Noted, ReceivedInv
  <2>4. displayed' \subseteq received_ids'
    BY <1>0, <2>0 DEF Noted, ReceivedInv
  <2>5. ASSUME NEW n \in toClient, n.type = "MSG", n.id \in received_ids' PROVE n.id \in displayed'
    <3>1. CASE n.id \in received_ids
      BY <1>0, <2>0, <2>5, <3>1 DEF ReceivedInv
    <3>2. CASE n.id \notin received_ids
      <4>1. m.type # "CONFIRM" /\ n.id = m.id
        BY <2>0, <2>5, <3>2 DEF Noted
      <4>2. n = m
        BY <2>5, <4>1 DEF SysInv, ServerInv
      <4> QED  BY <2>0, <2>5, <3>2, <4>2 DEF Noted
    <3> QED  BY <3>1, <3>2
  <2> QED  BY <1>0, <2>2, <2>3, <2>4, <2>5 DEF ReceivedInv
<1> QED  BY <1>1, <1>2 DEF ClientMoves

(* Only a MSG that is noted is confirmed.                                   *)
LEMMA ClientConfirmedIsShown ==
    ASSUME SysInv, ClientMoves
    PROVE  ConfirmedIsShown'
<1>0. /\ ReceivedInv' /\ UNCHANGED toClient /\ displayed \subseteq displayed'
      /\ last_message'.type # "CONFIRM" /\ toServer \subseteq toServer'
  BY ClientReceivedInv, ClientNumberInv, ClientMovesFrame, ClientMovesPosts
  DEF NumberInv, ClientTypes, ClientMoves, ClientStep, seenVars, Deliver
<1>1. ASSUME NEW n \in toClient, n.type = "MSG",
             NEW d \in toServer', d.dgram = Confirm(n.id), d \notin toServer
      PROVE  n.id \in displayed'
  <2>1. d.dgram.type = "CONFIRM" /\ d.dgram.id = n.id
    BY <1>1 DEF Confirm
  <2>2. PICK m \in toClient : Deliver(m)
    BY <1>0, <1>1, <2>1, ClientStepPosts DEF ClientMoves
  <2>3. m.type # "CONFIRM" /\ m.id = n.id
    BY <1>0, <1>1, <2>1, <2>2, DeliverPosts DEF Acks, Confirm
  <2>4. n = m
    BY <1>1, <2>3 DEF SysInv, ServerInv
  <2>5. n.id \in received_ids'
    BY <1>0, <1>1, <2>1, <2>2, <2>4, DeliverIs, PostElements DEF Delivered, Noted, Deliver, Sends
  <2> QED  BY <1>0, <1>1, <2>5 DEF ReceivedInv
<1>2. ASSUME NEW n \in toClient, n.type = "MSG",
             NEW d \in toServer, d.dgram = Confirm(n.id)
      PROVE  n.id \in displayed'
  BY <1>0, <1>2 DEF SysInv, ConfirmedIsShown, Confirmed
<1> QED  BY <1>0, <1>1, <1>2 DEF ConfirmedIsShown, Confirmed

(* error_while_waiting is never taken back.                                 *)
LEMMA ErrorStays ==
    ASSUME SysInv, [SystemNext]_sysVars, error_while_waiting
    PROVE  error_while_waiting'
<1>1. LoopWaitStep
  BY SystemStepNext, NextWait DEF SysInv
<1> QED
  BY <1>1 DEF LoopWaitStep, WaitStep, KeepsWait, EndsWait, StartsBye, StartsError, StartsRequest,
     Retransmit, Resend, udpVars, SysInv, IInv, TypeOK, UDPTypeOK

(* What has been replaced or reported stays so.                             *)
LEMMA RepliesStay ==
    ASSUME SysInv, ClientMoves
    PROVE  /\ \A ref : Replaced(ref) => Replaced(ref)'
           /\ ReportsError => ReportsError'
<1>1. toServer \subseteq toServer'
  BY ClientMovesPosts
<1>2. error_while_waiting => error_while_waiting'
  BY ErrorStays DEF ClientMoves, SystemNext
<1> QED  BY <1>1, <1>2 DEF Replaced, ReportsError

(* The reply that is awaited.                                               *)
LEMMA ClientReplyInv ==
    ASSUME SysInv, ClientMoves
    PROVE  ReplyInv'
<1>0. /\ ReplyInv /\ NumberInv /\ told \subseteq Sent
      /\ renamer3000 \in Nat /\ NoId \notin Sent /\ (\A id \in Sent : id \in Nat)
  BY SystemConstants DEF SysInv, SystemTypeOK, IInv, TypeOK, UDPTypeOK
<1>1. /\ renamer3000' >= renamer3000 /\ renamer3000' \in Nat
      /\ \/ last_message' = last_message
         \/ last_message'.id = renamer3000
  BY <1>0, ClientMovesNumber
<1> DEFINE Requested(d) == d.dgram.type \in {"AUTH", "JOIN"}
           Settled(id) == id = awaited_reply_id' \/ id \in told'
<1>2. ASSUME last_message'.type \in {"AUTH", "JOIN"} => Settled(last_message'.id),
             \A d \in toServer : Requested(d) => Settled(d.dgram.id) \/ Replaced(d.dgram.id)'
      PROVE  \A d \in toServer' : Requested(d) => Settled(d.dgram.id) \/ Replaced(d.dgram.id)'
  <2> SUFFICES ASSUME NEW d \in toServer', Requested(d)
               PROVE  Settled(d.dgram.id) \/ Replaced(d.dgram.id)'
    OBVIOUS
  <2>1. CASE d \in toServer
    BY <1>2, <2>1
  <2>2. CASE d \notin toServer
    <3>1. d.dgram = last_message'
      BY <2>2, ClientMovesPost
    <3> QED  BY <1>2, <3>1
  <2> QED  BY <2>1, <2>2
<1>3. CASE ClientStep
  <2>1. UNCHANGED told /\ Asks
    BY <1>3, ClientStepIs
  <2>2. awaited_reply_id' \notin told
    <3>1. NoId \notin told
      BY <1>0
    <3>2. ~(renamer3000 < renamer3000)
      BY <1>0
    <3>3. renamer3000 \notin told
      BY <1>0, <3>2 DEF ReplyInv
    <3> QED  BY <1>0, <2>1, <3>1, <3>3 DEF Asks, ReplyInv
  <2>3. \A id \in told : id < renamer3000'
    BY <1>0, <1>1 DEF ReplyInv
  <2>4. last_message'.type \in {"AUTH", "JOIN"} => Settled(last_message'.id)
    BY <1>0, <2>1 DEF Asks, NewRequest, Farewell, ReplyInv
  <2>5. ASSUME NEW d \in toServer, Requested(d)
        PROVE  Settled(d.dgram.id) \/ Replaced(d.dgram.id)'
    <3>1. CASE UNCHANGED awaited_reply_id
      BY <1>0, <2>1, <2>5, <3>1, RepliesStay DEF ReplyInv
    <3>2. CASE NewRequest
      <4>1. PICK i \in DOMAIN sent' : sent'[i] = last_message'
        BY <3>2 DEF NewRequest
      <4>2. Posted(last_message') \in toServer' /\ Posted(last_message').dgram = last_message'
        BY <1>3, <4>1 DEF ClientStep, Post, Posted
      <4>3. d.dgram.id < renamer3000
        BY <1>0, <2>5 DEF NumberInv, ClientTypes
      <4>4. d.dgram.id < last_message'.id /\ last_message'.type \in Requests
        BY <3>2, <4>3 DEF NewRequest
      <4> QED  BY <4>2, <4>4 DEF Replaced
    <3> QED  BY <2>1, <3>1, <3>2 DEF Asks
  <2> QED  BY <1>2, <2>1, <2>2, <2>3, <2>4, <2>5 DEF ReplyInv
<1>4. ASSUME NEW m \in toClient, Deliver(m) PROVE ReplyInv'
  <2>0. /\ Honest(m) /\ Told(m) /\ Farewell
        /\ told' = IF shown' \in {"success", "failure"} THEN told \cup {m.ref} ELSE told
    BY <1>4, DeliverFrame
  <2>1. CASE shown' \in {"success", "failure"}
    <3>1. /\ m.type = "REPLY" /\ m.ref = awaited_reply_id /\ awaited_reply_id' = NoId
          /\ told' = told \cup {m.ref}
      BY <2>0, <2>1 DEF Told
    <3>2. m.ref \in Sent /\ answer[m.ref] # "unheard"
      BY <2>0, <3>1 DEF Honest
    <3>3. m.ref < renamer3000
      BY <1>0, <3>2 DEF NumberInv
    <3>4. \A id \in told' : id < renamer3000' /\ id # NoId
      <4>1. \A id \in Sent : id < renamer3000 => id < renamer3000' /\ id # NoId
        BY <1>0, <1>1
      <4>2. \A id \in told' : id \in Sent /\ id < renamer3000
        BY <1>0, <3>1, <3>2, <3>3 DEF ReplyInv
      <4> QED  BY <4>1, <4>2
    <3>5. last_message'.type \in {"AUTH", "JOIN"} => Settled(last_message'.id)
      BY <1>0, <2>0, <3>1 DEF Farewell, ReplyInv
    <3>6. ASSUME NEW d \in toServer, Requested(d)
          PROVE  Settled(d.dgram.id) \/ Replaced(d.dgram.id)'
      BY <1>0, <3>1, <3>6, RepliesStay DEF ReplyInv
    <3> QED  BY <1>2, <3>1, <3>4, <3>5, <3>6 DEF ReplyInv
  <2>2. CASE shown' \notin {"success", "failure"}
    <3>1. UNCHANGED <<told, awaited_reply_id>>
      BY <2>0, <2>2 DEF Told
    <3>2. \A id \in told : id < renamer3000'
      BY <1>0, <1>1 DEF ReplyInv
    <3>3. last_message'.type \in {"AUTH", "JOIN"} => Settled(last_message'.id)
      BY <1>0, <2>0, <3>1 DEF Farewell, ReplyInv
    <3>4. ASSUME NEW d \in toServer, Requested(d)
          PROVE  Settled(d.dgram.id) \/ Replaced(d.dgram.id)'
      BY <1>0, <3>1, <3>4, RepliesStay DEF ReplyInv
    <3> QED  BY <1>0, <1>2, <3>1, <3>2, <3>3, <3>4 DEF ReplyInv
  <2> QED  BY <2>1, <2>2
<1> QED  BY <1>3, <1>4 DEF ClientMoves

(* A REPLY that is confirmed answers what is awaited, or what was replaced. *)
LEMMA ClientReplyLost ==
    ASSUME SysInv, ClientMoves
    PROVE  NoReplyLostInSilence'
<1>0. /\ UNCHANGED <<toClient, answer>> /\ told \subseteq told'
      /\ last_message'.type # "CONFIRM"
  BY ClientNumberInv, ClientMovesFrame
  DEF NumberInv, ClientTypes, ClientMoves, ClientStep, seenVars, Deliver, serverVars
<1>1. SUFFICES ASSUME NEW n \in toClient, n.type = "REPLY", Confirmed(n.id)', n.ref \notin told'
               PROVE  Replaced(n.ref)' \/ ReportsError'
  BY <1>0 DEF NoReplyLostInSilence
<1>2. PICK q \in toServer : q.dgram.id = n.ref /\ q.dgram.type \in {"AUTH", "JOIN"}
  BY <1>1 DEF SysInv, ServerInv, Honest
<1>3. CASE Confirmed(n.id)
  <2>1. Replaced(n.ref) \/ ReportsError
    BY <1>0, <1>1, <1>3 DEF SysInv, NoReplyLostInSilence
  <2> QED  BY <2>1, RepliesStay
<1>4. CASE ~Confirmed(n.id)
  <2>1. PICK d \in toServer' : d.dgram = Confirm(n.id) /\ d \notin toServer
    BY <1>1, <1>4 DEF Confirmed
  <2>2. d.dgram.type = "CONFIRM" /\ d.dgram.id = n.id
    BY <2>1 DEF Confirm
  <2>3. PICK m \in toClient : Deliver(m)
    BY <1>0, <2>1, <2>2, ClientStepPosts DEF ClientMoves
  <2>4. m.type # "CONFIRM" /\ m.id = n.id
    BY <1>0, <2>1, <2>2, <2>3, DeliverPosts DEF Acks, Confirm
  <2>5. n = m
    BY <1>1, <2>4 DEF SysInv, ServerInv
  <2>6. /\ Told(n) /\ Post
        /\ told' = IF shown' \in {"success", "failure"} THEN told \cup {n.ref} ELSE told
    BY <2>3, <2>5, DeliverFrame DEF Deliver
  <2>7. CASE n.ref = awaited_reply_id
    <3>1. error_while_waiting' \/ \E i \in DOMAIN sent' : sent'[i].type = "ERR"
      BY <1>1, <2>6, <2>7 DEF Told
    <3>2. ASSUME NEW i \in DOMAIN sent', sent'[i].type = "ERR" PROVE ReportsError'
      <4>1. Posted(sent'[i]) \in toServer' /\ Posted(sent'[i]).dgram = sent'[i]
        BY <2>6 DEF Post, Posted
      <4> QED  BY <3>2, <4>1 DEF ReportsError
    <3> QED  BY <3>1, <3>2 DEF ReportsError
  <2>8. CASE n.ref # awaited_reply_id
    <3>1. Replaced(n.ref)
      BY <1>0, <1>1, <1>2, <2>8 DEF SysInv, ReplyInv
    <3> QED  BY <3>1, RepliesStay
  <2> QED  BY <2>7, <2>8
<1> QED  BY <1>3, <1>4

(* A wait ends with the CONFIRM of what is awaited.                         *)
LEMMA ConfirmEndsWait ==
    ASSUME SysInv, ClientMoves, Awaiting, ~Awaiting'
    PROVE  \E m \in toClient : Deliver(m) /\ m = Confirm(last_message.id)
<1>1. ~ClientStep
  <2>1. CASE UNCHANGED udpVars
    BY <2>1 DEF udpVars
  <2>2. CASE ExitLine
    BY <2>2 DEF ExitLine, UserExit
  <2>3. CASE ErrorLine
    BY <2>3 DEF ErrorLine, FlushError, SendError
  <2>4. ASSUME NEW l \in Lines PROVE ~Command(l)
    BY LineUnblocked DEF Command, SysInv
  <2> QED
    BY <2>1, <2>2, <2>3, <2>4 DEF ClientStep, LoopRound, LoopEnd, Retransmit, Resend, Exhausted,
       BlankLine, Idle
<1>2. PICK m \in toClient : Deliver(m)
  BY <1>1 DEF ClientMoves
<1>3. m.type = "CONFIRM" /\ m.id = awaited_conirm_id
  <2>1. CASE ReceiveConfirm(m)
    BY <2>1 DEF ReceiveConfirm, ConfirmOther, ConfirmBye, ConfirmError, ConfirmRequest
  <2>2. ASSUME NEW acks PROVE ~Reject(acks)
    BY DEF Reject, SendError
  <2> QED
    BY <1>2, <2>1, <2>2 DEF Deliver, Receive, ProcessServerMessage, ReceiveReply, TakeReply,
       IgnoreReply, ReceiveMsg, ReceiveErr, ReceiveBye, ReceiveUnknown
<1>4. m \in Datagrams /\ awaited_conirm_id = last_message.id
  BY DEF SysInv, SystemTypeOK, IInv, RetransmitsWhatItAwaits
<1>5. m = Confirm(last_message.id)
  BY <1>3, <1>4 DEF Datagrams, Confirm
<1> QED  BY <1>2, <1>5

(* A wait ends when the server has heard what was retransmitted.            *)
LEMMA EndedIsHeard ==
    ASSUME SysInv, ClientMoves, Awaiting, ~Awaiting'
    PROVE  Heard(last_message.id)
BY ConfirmEndsWait DEF SysInv, ServerInv, Honest, Confirm, ServerTypes

LEMMA DeliverBye ==
    ASSUME SysInv, NEW m \in toClient, Deliver(m), awaiting_over'
    PROVE  closed \/ (Awaiting' /\ last_message'.type = "BYE")
<1>0. /\ awaiting_over => closed \/ (Awaiting /\ last_message.type = "BYE")
      /\ Honest(m) /\ \E port \in Ports : ProcessServerMessage(m, port)
      /\ UDPTypeOK /\ m \in Datagrams
  BY SourcesArePorts
  DEF SysInv, ByeInv, ServerInv, IInv, TypeOK, SystemTypeOK, Deliver, Receive
<1>1. WaitStep
  BY <1>0, ServerMessageWait
<1>2. CASE KeepsWait
  BY <1>0, <1>2 DEF KeepsWait
<1>3. CASE EndsWait
  <2>1. CASE Awaiting /\ last_message.type = "BYE"
    BY <1>3, <2>1, EndedIsHeard DEF EndsWait, ClientMoves, SysInv, ByeInv
  <2> QED  BY <1>0, <1>3, <2>1 DEF EndsWait
<1>4. CASE StartsBye
  <2>1. last_message'.type = "BYE"
    BY <1>4 DEF StartsBye, Numbers
  <2>2. CASE ~Awaiting /\ ~Awaiting'
    <3>1. m.type = "ERR"
      <4>1. ASSUME NEW acks PROVE ~Reject(acks)
        BY <2>2 DEF Reject, SendError
      <4>2. ~ConfirmError(m)
        BY <2>2 DEF ConfirmError, SysInv, IInv, ErrorIsAwaited
      <4>3. last_message' # last_message
        BY <1>4, <2>1 DEF StartsBye, Numbers, SysInv, NumberInv, IInv, TypeOK, UDPTypeOK, Sendable
      <4> QED
        BY <1>0, <4>1, <4>2, <4>3 DEF ProcessServerMessage, ReceiveConfirm, ConfirmOther, Only,
           ConfirmBye, ConfirmRequest, ReceiveReply, TakeReply, IgnoreReply, ReceiveMsg,
           ReceiveErr, ReceiveBye, ReceiveUnknown
    <3> QED  BY <1>0, <3>1 DEF Honest
  <2> QED  BY <1>4, <2>1, <2>2 DEF StartsBye
<1>5. CASE StartsError
  BY <1>0, <1>5 DEF StartsError
<1> QED  BY <1>1, <1>2, <1>3, <1>4, <1>5 DEF WaitStep

LEMMA ClientBye ==
    ASSUME SysInv, ClientMoves
    PROVE  ByeInv'
<1>0. /\ UNCHANGED <<answer, closed>> /\ IInv /\ NumberInv /\ UDPTypeOK
      /\ awaiting_over => closed \/ (Awaiting /\ last_message.type = "BYE")
  BY ClientMovesFrame DEF serverVars, SysInv, ByeInv, IInv, TypeOK
<1>1. ASSUME ClientStep, awaiting_over'
      PROVE  closed \/ (Awaiting' /\ last_message'.type = "BYE")
  <2>1. CASE UNCHANGED udpVars
    BY <1>0, <1>1, <2>1 DEF udpVars
  <2>2. CASE ExitLine
    BY <2>2, UserExitWait DEF ExitLine, StartsBye, Numbers
  <2>3. CASE ErrorLine
    BY <1>0, <1>1, <2>3, FlushErrorWait DEF ErrorLine, KeepsWait, StartsError
  <2>4. ASSUME NEW l \in Lines, Command(l)
        PROVE  closed \/ (Awaiting' /\ last_message'.type = "BYE")
    BY <1>0, <1>1, <2>4, UserCommandWait, LineUnblocked DEF Command, KeepsWait, StartsRequest
  <2> QED
    BY <1>1, <2>1, <2>2, <2>3, <2>4 DEF ClientStep, LoopRound, LoopEnd, Retransmit, Resend,
       Exhausted, BlankLine, Idle
<1>2. awaiting_over' => closed \/ (Awaiting' /\ last_message'.type = "BYE")
  BY <1>1, DeliverBye DEF ClientMoves
<1>3. last_message'.type = "BYE" /\ Heard(last_message'.id) => closed
  <2>1. CASE UNCHANGED last_message
    BY <2>1 DEF SysInv, ByeInv
  <2>2. CASE last_message'.id = renamer3000
    BY <1>0, <2>2 DEF Heard, NumberInv, UDPTypeOK
  <2> QED  BY <2>1, <2>2, ClientMovesNumber
<1> QED  BY <1>0, <1>2, <1>3 DEF ByeInv, Heard

LEMMA ClientOver ==
    ASSUME SysInv, ClientMoves
    PROVE  OverInv'
<1>0. OverInv /\ ByeInv /\ UNCHANGED closed
  BY ClientMovesFrame DEF SysInv, serverVars
<1>1. CASE ClientStep
  <2>1. CASE LoopRound \/ LoopEnd
    BY <1>0, <2>1 DEF LoopRound, EnterPoll, LoopEnd, Close, OverInv
  <2>2. CASE Retransmit
    BY <2>2 DEF Retransmit, Retry, AtEvent, OverInv
  <2>3. CASE Exhausted
    BY <2>3 DEF Exhausted, GiveUp, AtEvent, OverInv
  <2>4. CASE ExitLine \/ ErrorLine
    BY <2>4 DEF ExitLine, UserExit, ErrorLine, FlushError, TakeLine, AtEvent, OverInv
  <2>5. CASE BlankLine
    BY <1>0, <2>5 DEF BlankLine, EmptyLine, TakeLine, AtEvent, OverInv
  <2>6. ASSUME NEW l \in Lines, Command(l) PROVE OverInv'
    <3>1. pc' = "top"
      BY <2>6 DEF Command, TakeLine, AtEvent
    <3>2. HonestReturns => state' # "OVER"
      BY <2>6 DEF Command, UserCommand, Dispatch, Request, SendRequest, Answer, Rename,
         HonestReturns
    <3> QED  BY <3>1, <3>2 DEF OverInv
  <2> QED  BY <1>1, <2>1, <2>2, <2>3, <2>4, <2>5, <2>6 DEF ClientStep
<1>2. ASSUME NEW m \in toClient, Deliver(m) PROVE OverInv'
  <2>1. pc' = "top" /\ Honest(m) /\ \E port \in Sources(m) : ProcessServerMessage(m, port)
    BY <1>2 DEF Deliver, Receive, TakeSocket, AtEvent, SysInv, ServerInv
  <2>2. state' = "OVER" => m.type = "BYE" \/ (awaiting_over' /\ ~Awaiting')
    <3>1. ASSUME NEW acks, Reject(acks) PROVE state' # "OVER"
      BY <3>1 DEF Reject, Return
    <3>2. CASE ReceiveConfirm(m)
      BY <3>2 DEF ReceiveConfirm, ConfirmOther, ConfirmBye, ConfirmError, ConfirmRequest, Return
    <3>3. CASE ReceiveReply(m)
      BY <3>1, <3>3 DEF ReceiveReply, TakeReply, IgnoreReply, Return
    <3>4. CASE ReceiveMsg(m) \/ ReceiveErr(m) \/ ReceiveBye(m) \/ ReceiveUnknown(m)
      BY <3>1, <3>4 DEF ReceiveMsg, ReceiveErr, ReceiveBye, ReceiveUnknown, Return
    <3> QED  BY <2>1, <3>2, <3>3, <3>4 DEF ProcessServerMessage
  <2>3. state' = "OVER" => closed
    BY <1>2, <2>1, <2>2, DeliverBye DEF Honest
  <2> QED  BY <1>0, <2>1, <2>3 DEF OverInv
<1> QED  BY <1>1, <1>2 DEF ClientMoves

LEMMA ClientType ==
    ASSUME SysInv, ClientMoves
    PROVE  SystemTypeOK'
<1>0. /\ TypeOK' /\ SystemTypeOK
      /\ UNCHANGED <<toClient, answer, authorised, closed, served>>
  BY ClientMovesNext, NextType, ClientMovesFrame DEF SysInv, serverVars
<1>1. ASSUME NEW d \in toServer' PROVE d \in [dgram : Sendable, reached : BOOLEAN]
  <2>1. CASE d \in toServer
    BY <1>0, <2>1 DEF SystemTypeOK
  <2>2. CASE d \notin toServer
    <3>1. PICK i \in DOMAIN sent' : d = Posted(sent'[i])
      BY <1>1, <2>2 DEF ClientMoves, ClientStep, Deliver, Post
    <3>2. sent'[i] \in Sendable
      BY <1>0, <3>1 DEF TypeOK, UDPTypeOK
    <3> QED  BY <3>1, <3>2 DEF Posted
  <2> QED  BY <2>1, <2>2
<1>2. displayed' \subseteq ServerIds /\ told' \subseteq Sent
  <2>1. CASE ClientStep
    BY <1>0, <2>1, ClientStepIs DEF SystemTypeOK
  <2>2. ASSUME NEW m \in toClient, Deliver(m)
        PROVE  displayed' \subseteq ServerIds /\ told' \subseteq Sent
    <3>1. /\ Honest(m) /\ Noted(m) /\ Told(m) /\ m \in Datagrams
          /\ displayed' = IF shown' = "message" THEN displayed \cup {m.id} ELSE displayed
          /\ told' = IF shown' \in {"success", "failure"} THEN told \cup {m.ref} ELSE told
      BY <1>0, <2>2, DeliverFrame DEF SystemTypeOK
    <3>2. shown' = "message" => m.id \in ServerIds
      BY <3>1 DEF Noted, Datagrams
    <3>3. shown' \in {"success", "failure"} => m.ref \in Sent
      BY <3>1 DEF Told, Honest
    <3> QED  BY <1>0, <3>1, <3>2, <3>3 DEF SystemTypeOK
  <2> QED  BY <2>1, <2>2 DEF ClientMoves
<1> QED  BY <1>0, <1>1, <1>2 DEF SystemTypeOK

LEMMA ClientSysInv ==
    ASSUME SysInv, ClientMoves
    PROVE  SysInv'
<1>1. IInv'
  BY ClientMovesNext, NextIInv DEF SysInv
<1> QED
  BY <1>1, ClientType, ClientMovesPosts, ClientNumberInv, ClientServerInv, ClientReceivedInv,
     ClientConfirmedIsShown, ClientReplyInv, ClientReplyLost, ClientBye, ClientOver
  DEF SysInv

-----------------------------------------------------------------------------
(* What a step of the server does to the session and to the network.        *)

\* It hears a message of the client it has not heard: a BYE ends the session.
Hears(d) ==
    /\ d \in toServer /\ d.dgram.type \in ClientTypes /\ d.dgram.id \in Sent
    /\ answer[d.dgram.id] = "unheard" /\ answer'[d.dgram.id] # "unheard"
    /\ \A id \in Sent : id # d.dgram.id => answer'[id] = answer[id]
    /\ d.dgram.type = "BYE" => closed'

\* It says something of its own, under its next MessageID.
Says(m) ==
    /\ m.type \in ServerTypes /\ m.form = "valid" /\ m.id = served
    /\ served' = served + 1
    /\ m.type \in {"ERR", "BYE"} => closed'
    /\ m.type = "REPLY" =>
         /\ m.ref \in Sent /\ m.status \in {"OK", "NOK"} /\ answer'[m.ref] = m.status
         /\ \E d \in toServer : d.dgram.id = m.ref /\ d.dgram.type \in {"AUTH", "JOIN"}

Served ==
    \/ /\ \E d \in toServer : Hears(d) /\ toClient' = toClient \cup {Confirm(d.dgram.id)}
       /\ UNCHANGED served
    \/ \E d \in toServer, m \in Datagrams :
         Hears(d) /\ Says(m) /\ toClient' = toClient \cup {Confirm(d.dgram.id), m}
    \/ \E m \in Datagrams :
         Says(m) /\ toClient' = toClient \cup {m} /\ UNCHANGED answer

LEMMA TakeHears ==
    ASSUME SysInv, NEW d \in toServer, NEW outcome \in {"heard", "OK", "NOK"}, NEW says,
           Take(d, outcome, says), d.dgram.type \in ClientTypes, d.dgram.type = "BYE" => closed'
    PROVE  /\ Hears(d) /\ answer' \in [Sent -> Answers] /\ answer'[d.dgram.id] = outcome
BY DEF Take, Arrives, Hears, SysInv, SystemTypeOK, Answers

LEMMA ServerStepServed ==
    ASSUME SysInv, ServerStep
    PROVE  Served /\ ~closed /\ SystemTypeOK'
<1>0. SystemTypeOK /\ UNCHANGED <<vars, toServer, displayed, told>>
  BY ServerStepFrame DEF SysInv, seenVars
<1>1. ~closed
  BY DEF ServerStep, Decide, Hear, Dismiss, Take, Arrives, Speak
<1> USE SystemConstants
<1>2. TypeOK'
  BY <1>0, SystemStepNext, NextType DEF SysInv, SystemNext
<1>3. ASSUME NEW d \in toServer, Decide(d) PROVE Served /\ SystemTypeOK'
  <2>1. PICK verdict \in {"OK", "NOK"} :
          /\ d.dgram.type \in {"AUTH", "JOIN"}
          /\ Take(d, verdict, {Reply(verdict, d.dgram.id)})
          /\ authorised' = (authorised \/ verdict = "OK") /\ UNCHANGED closed
    BY <1>3 DEF Decide
  <2> DEFINE m == Reply(verdict, d.dgram.id)
  <2>2. Hears(d) /\ answer' \in [Sent -> Answers] /\ answer'[d.dgram.id] = verdict
    BY <2>1, TakeHears DEF ClientTypes
  <2>3. /\ toClient' = toClient \cup {Confirm(d.dgram.id), m}
        /\ served' = served + 1 /\ served' <= MaxServed /\ d.dgram.id \in Sent
    BY <2>1, <2>2 DEF Take, Hears
  <2>4. m \in Datagrams /\ Confirm(d.dgram.id) \in Datagrams
    BY <1>0, <2>3 DEF Reply, Confirm, Datagrams, Forms, Statuses, SystemTypeOK
  <2>5. Says(m)
    BY <2>1, <2>2, <2>3 DEF Reply, Says, ServerTypes
  <2>6. Served
    BY <2>2, <2>3, <2>4, <2>5 DEF Served
  <2>7. SystemTypeOK'
    <3>1. served' \in 0 .. MaxServed
      BY <1>0, <2>3 DEF SystemTypeOK
    <3>2. toClient' \subseteq Datagrams
      BY <1>0, <2>3, <2>4 DEF SystemTypeOK
    <3>3. authorised' \in BOOLEAN /\ closed' \in BOOLEAN
      BY <1>0, <2>1 DEF SystemTypeOK
    <3> QED  BY <1>0, <1>2, <2>2, <3>1, <3>2, <3>3 DEF SystemTypeOK
  <2> QED  BY <2>6, <2>7
<1>4. ASSUME NEW d \in toServer, Hear(d) \/ Dismiss(d) PROVE Served /\ SystemTypeOK'
  <2>1. /\ Take(d, "heard", {}) /\ d.dgram.type \in ClientTypes
        /\ d.dgram.type = "BYE" => closed'
        /\ closed' \in BOOLEAN /\ authorised' \in BOOLEAN
    BY <1>0, <1>4 DEF Hear, Dismiss, ClientTypes, SystemTypeOK
  <2>2. Hears(d) /\ answer' \in [Sent -> Answers]
    BY <2>1, TakeHears
  <2>3. /\ toClient' = toClient \cup {Confirm(d.dgram.id)} /\ d.dgram.id \in Sent
        /\ served' = served
    BY <1>0, <2>1, <2>2 DEF Take, Hears, SystemTypeOK
  <2>4. Confirm(d.dgram.id) \in Datagrams
    BY <2>3 DEF Confirm, Datagrams
  <2>5. SystemTypeOK'
    <3>1. toClient' \subseteq Datagrams
      BY <1>0, <2>3, <2>4 DEF SystemTypeOK
    <3>2. served' \in 0 .. MaxServed
      BY <1>0, <2>3 DEF SystemTypeOK
    <3> QED  BY <1>0, <1>2, <2>1, <2>2, <3>1, <3>2 DEF SystemTypeOK
  <2> QED  BY <2>2, <2>3, <2>5 DEF Served
<1>5. ASSUME NEW type \in {"MSG", "ERR", "BYE"}, Speak(type) PROVE Served /\ SystemTypeOK'
  <2> DEFINE m == Own(type)
  <2>1. /\ toClient' = toClient \cup {m} /\ served' = served + 1 /\ served < MaxServed
        /\ closed' = (type # "MSG") /\ UNCHANGED <<answer, authorised>>
    BY <1>5 DEF Speak
  <2>2. m \in Datagrams
    BY <1>0, <2>1 DEF Own, Datagrams, Forms, SystemTypeOK
  <2>3. Says(m)
    BY <2>1 DEF Own, Says, ServerTypes
  <2>4. SystemTypeOK'
    BY <1>0, <1>2, <2>1, <2>2 DEF SystemTypeOK
  <2> QED  BY <2>1, <2>2, <2>3, <2>4 DEF Served
<1> QED  BY <1>1, <1>3, <1>4, <1>5 DEF ServerStep

(* What each of the three kinds of step leaves behind.                      *)
LEMMA HearsChanges ==
    ASSUME NEW d \in toServer, Hears(d)
    PROVE  /\ \A id \in Sent : answer[id] # "unheard" => answer'[id] = answer[id]
           /\ \A id \in Sent : answer'[id] # "unheard" => answer[id] # "unheard" \/ id = d.dgram.id
           /\ Heard(d.dgram.id)'
BY DEF Hears, Heard

LEMMA ServerAnswers ==
    ASSUME SysInv, ServerStep
    PROVE  /\ \A id \in Sent : answer[id] # "unheard" => answer'[id] = answer[id]
           /\ \A id \in Sent : answer'[id] # "unheard" =>
                answer[id] # "unheard" \/ \E d \in toServer : Hears(d) /\ d.dgram.id = id
<1>1. (\E d \in toServer : Hears(d)) \/ UNCHANGED answer
  BY ServerStepServed DEF Served
<1> QED  BY <1>1, HearsChanges

LEMMA ServerCounts ==
    ASSUME SysInv, ServerStep
    PROVE  served \in Nat /\ served' \in Nat /\ served <= served'
<1>1. served \in Nat
  BY SystemConstants DEF SysInv, SystemTypeOK
<1>2. served' = served \/ served' = served + 1
  BY ServerStepServed DEF Served, Says
<1> QED  BY <1>1, <1>2

LEMMA ServerSays ==
    ASSUME SysInv, ServerStep, NEW m \in toClient', m \notin toClient
    PROVE  \/ m.type = "CONFIRM" /\ Heard(m.id)'
           \/ Says(m) /\ \A n \in toClient' : Says(n) => n = m
<1>0. Served
  BY ServerStepServed
<1>1. ASSUME NEW n, Says(n) PROVE n.type # "CONFIRM" /\ n \notin toClient
  <2>1. n.type # "CONFIRM" /\ n.id = served /\ ~(served < served)
    BY <1>1, ServerCounts DEF Says, ServerTypes
  <2> QED  BY <2>1 DEF SysInv, ServerInv, Honest
<1>2. ASSUME NEW i PROVE Confirm(i).type = "CONFIRM" /\ Confirm(i).id = i
  BY DEF Confirm
<1>3. CASE \E d \in toServer : Hears(d) /\ m = Confirm(d.dgram.id)
  BY <1>2, <1>3, HearsChanges
<1>4. CASE Says(m)
  <2>1. ASSUME NEW n \in toClient', Says(n) PROVE n = m
    <3>1. n \notin toClient /\ n.type # "CONFIRM" /\ m.type # "CONFIRM"
      BY <1>1, <1>4, <2>1
    <3> QED  BY <1>0, <1>2, <2>1, <3>1 DEF Served
  <2> QED  BY <1>4, <2>1
<1> QED  BY <1>0, <1>3, <1>4 DEF Served

LEMMA ServerIdNat ==
    ASSUME SysInv, NEW m \in toClient
    PROVE  m.id \in Nat
BY DatagramIds DEF SysInv, SystemTypeOK

LEMMA ServerServerInv ==
    ASSUME SysInv, ServerStep
    PROVE  ServerInv'
<1>0. ServerInv /\ ~closed /\ UNCHANGED toServer
  BY ServerStepServed, ServerStepFrame DEF SysInv
<1>1. ASSUME NEW m \in toClient PROVE Honest(m)'
  <2>1. Honest(m)
    BY <1>0 DEF ServerInv
  <2>2. CASE m.type = "CONFIRM"
    BY <2>1, <2>2, ServerAnswers DEF Honest, Heard, ServerTypes
  <2>3. CASE m.type # "CONFIRM"
    <3>1. m.id < served'
      BY <2>1, <2>3, ServerCounts, ServerIdNat DEF Honest
    <3>2. m.type = "REPLY" => answer'[m.ref] = m.status
      BY <2>1, <2>3, ServerAnswers DEF Honest
    <3> QED  BY <1>0, <2>1, <2>3, <3>1, <3>2 DEF Honest
  <2> QED  BY <2>2, <2>3
<1>2. ASSUME NEW m, Says(m) PROVE Honest(m)'
  <2>1. m.id < served'
    BY <1>2, ServerCounts DEF Says
  <2> QED  BY <1>0, <1>2, <2>1 DEF Says, Honest
<1>3. ASSUME NEW m, m.type = "CONFIRM", Heard(m.id)' PROVE Honest(m)'
  BY <1>3 DEF Honest
<1>4. \A m \in toClient' : Honest(m)'
  BY <1>1, <1>2, <1>3, ServerSays
<1>5. ASSUME NEW m \in toClient', NEW n \in toClient',
             m.type # "CONFIRM", n.type # "CONFIRM", m.id = n.id
      PROVE  m = n
  <2>1. ASSUME NEW k \in toClient, k.type # "CONFIRM" PROVE k.id # served
    <3>1. k.id < served /\ k.id \in Nat /\ served \in Nat
      BY <1>0, <2>1, ServerCounts, ServerIdNat DEF ServerInv, Honest
    <3> QED  BY <3>1
  <2>2. (m \in toClient \/ Says(m)) /\ (n \in toClient \/ Says(n))
    BY <1>5, ServerSays
  <2>3. CASE m \in toClient /\ n \in toClient
    BY <1>0, <1>5, <2>3 DEF ServerInv
  <2>4. CASE m \notin toClient \/ n \notin toClient
    <3>1. Says(m) /\ Says(n)
      BY <1>5, <2>1, <2>2, <2>4 DEF Says
    <3> QED  BY <1>5, <2>4, <3>1, ServerSays
  <2> QED  BY <2>3, <2>4
<1> QED  BY <1>4, <1>5 DEF ServerInv

LEMMA ServerNumberInv ==
    ASSUME SysInv, ServerStep
    PROVE  NumberInv'
<1>0. NumberInv /\ UNCHANGED <<vars, toServer>>
  BY ServerStepFrame DEF SysInv
<1>1. ASSUME NEW id \in Sent, answer'[id] # "unheard" PROVE id < renamer3000
  BY <1>0, <1>1, ServerAnswers DEF NumberInv, Hears
<1> QED  BY <1>0, <1>1 DEF NumberInv, vars, udpVars, idVars

LEMMA ServerReceivedInv ==
    ASSUME SysInv, ServerStep
    PROVE  ReceivedInv' /\ ConfirmedIsShown' /\ NoReplyLostInSilence'
<1>0. /\ ReceivedInv /\ ConfirmedIsShown /\ NoReplyLostInSilence
      /\ UNCHANGED <<received_ids, renamer3000, error_while_waiting, toServer, displayed, told>>
      /\ received_ids \subseteq Nat /\ \A d \in toServer : d.dgram.id \in Nat
  BY ServerStepFrame, IdAssumption
  DEF SysInv, vars, udpVars, idVars, seenVars, IInv, TypeOK, UDPTypeOK, SystemTypeOK, Sendable
<1>1. \A id \in Nat : id < served => id < served' /\ id # served
  BY ServerCounts
<1>2. /\ \A id \in received_ids : id < served' /\ id # served
      /\ \A d \in toServer : d.dgram.type = "CONFIRM" =>
           d.dgram.id < served' /\ d.dgram.id # served
  BY <1>0, <1>1 DEF ReceivedInv
<1>3. ~Confirmed(served) /\ served \notin received_ids
  BY <1>2 DEF Confirmed, Confirm
<1>4. ASSUME NEW m \in toClient', m.type # "CONFIRM"
      PROVE  m \in toClient \/ m.id = served
  BY <1>4, ServerSays DEF Says
<1>5. \A m \in toClient' : m.type = "MSG" /\ m.id \in received_ids => m.id \in displayed
  BY <1>0, <1>3, <1>4 DEF ReceivedInv
<1>6. ReceivedInv'
  BY <1>0, <1>2, <1>5 DEF ReceivedInv
<1>7. ConfirmedIsShown' /\ NoReplyLostInSilence'
  BY <1>0, <1>3, <1>4 DEF ConfirmedIsShown, NoReplyLostInSilence, Confirmed, Replaced, ReportsError
<1> QED  BY <1>6, <1>7

LEMMA ServerBye ==
    ASSUME SysInv, ServerStep
    PROVE  ByeInv' /\ OverInv'
<1>0. /\ ByeInv /\ OverInv /\ NumberInv /\ ~closed
      /\ UNCHANGED <<awaiting_over, waiting_for_confirmation, last_message, state, pc,
                     retry_count>>
  BY ServerStepServed, ServerStepFrame DEF SysInv, vars, loopVars, udpVars
<1>1. ASSUME last_message.type = "BYE", Heard(last_message.id)' PROVE closed'
  <2>1. PICK d \in toServer : Hears(d) /\ d.dgram.id = last_message.id
    BY <1>0, <1>1, ServerAnswers DEF ByeInv, Heard
  <2>2. d.dgram = last_message
    BY <1>0, <2>1 DEF Hears, NumberInv
  <2> QED  BY <1>1, <2>1, <2>2 DEF Hears
<1>2. ByeInv'
  BY <1>0, <1>1 DEF ByeInv, Heard
<1>3. OverInv'
  BY <1>0 DEF OverInv
<1> QED  BY <1>2, <1>3

LEMMA ServerSysInv ==
    ASSUME SysInv, ServerStep
    PROVE  SysInv'
<1>0. SysInv /\ UNCHANGED <<vars, toServer, displayed, told>>
  BY ServerStepFrame DEF seenVars
<1>1. IInv'
  BY SystemStepNext, NextIInv DEF SysInv, SystemNext
<1>2. PostedInv' /\ ReplyInv'
  BY <1>0 DEF SysInv, PostedInv, ReplyInv, Replaced, vars, udpVars, idVars, outVars
<1> QED
  BY <1>1, <1>2, ServerStepServed, ServerServerInv, ServerNumberInv, ServerReceivedInv, ServerBye
  DEF SysInv

LEMMA NextSysInv == SysInv /\ [SystemNext]_sysVars => SysInv'
<1> SUFFICES ASSUME SysInv, [SystemNext]_sysVars PROVE SysInv'
  OBVIOUS
<1>1. CASE UNCHANGED sysVars
  <2>0. /\ UNCHANGED <<vars, toServer, toClient, answer, authorised, closed, served, displayed, told>>
        /\ SysInv
    BY <1>1 DEF sysVars, netVars, serverVars, seenVars
  <2>1. IInv'
    BY <2>0, NextIInv DEF SysInv
  <2>2. TypeOK'
    BY <2>1 DEF IInv
  <2>3. SystemTypeOK' /\ NumberInv' /\ PostedInv' /\ ServerInv' /\ ReceivedInv'
    BY <2>0, <2>2 DEF SysInv, SystemTypeOK, NumberInv, PostedInv, ServerInv, Honest, Heard,
       ReceivedInv, vars, udpVars, idVars, outVars
  <2>4. /\ ConfirmedIsShown' /\ ReplyInv' /\ NoReplyLostInSilence' /\ ByeInv' /\ OverInv'
    BY <2>0 DEF SysInv, ConfirmedIsShown, Confirmed, ReplyInv, NoReplyLostInSilence, Replaced,
       ReportsError, ByeInv, Heard, OverInv, vars, loopVars, udpVars, idVars
  <2> QED  BY <2>1, <2>3, <2>4 DEF SysInv
<1> QED  BY <1>1, SystemSplit, ClientSysInv, ServerSysInv

-----------------------------------------------------------------------------
(* SysInv holds throughout every behaviour of the system.                   *)
THEOREM SystemInvariance == SystemSpec => []SysInv
BY InitSysInv, NextSysInv, PTL DEF SystemSpec

(* The client of the system is the client of UDPClient: what is proved of   *)
(* it in an open environment holds of it here.                              *)
THEOREM ClientOfSystem == SystemSpec => Spec
<1>1. SystemInit => Init
  BY DEF SystemInit
<1> QED  BY <1>1, SystemStepNext, SystemInvariance, PTL DEF SystemSpec, Spec

(* Every variable of the client, the network and the server keeps its type; *)
(* neither side's MessageIDs leave their range.                             *)
THEOREM SystemTypeCorrect == SystemSpec => []SystemTypeOK
BY SystemInvariance, PTL DEF SysInv

(* No MSG is confirmed that the user has not been shown.                    *)
THEOREM NothingConfirmedUnread == SystemSpec => []ConfirmedIsShown
BY SystemInvariance, PTL DEF SysInv

(* A REPLY that is confirmed and never shown answers a request the user has *)
(* replaced, or the client reports an error over it.                        *)
THEOREM RepliesLost == SystemSpec => []NoReplyLostInSilence
BY SystemInvariance, PTL DEF SysInv

(* A client that ends without giving up has ended the session, provided the *)
(* call of process_user_input that returns nothing is not read as OVER.     *)
THEOREM BothEnd == SystemSpec => [](HonestReturns => EndsTogether)
<1>1. SysInv => (HonestReturns => EndsTogether)
  BY DEF SysInv, OverInv, EndsTogether, GaveUp
<1> QED  BY <1>1, SystemInvariance, PTL

(* No wait ends by a CONFIRM of anything but what was retransmitted.        *)
THEOREM WaitEndsHeard == SystemSpec => ConfirmedIsHeard
<1>1. ASSUME SysInv, [SystemNext]_sysVars
      PROVE  [waiting_for_confirmation /\ ~waiting_for_confirmation'
                => Heard(last_message.id)]_sysVars
  <2>1. CASE ClientMoves
    BY <1>1, <2>1, EndedIsHeard
  <2>2. CASE ServerStep
    BY <2>2, ServerStepFrame DEF vars, udpVars
  <2> QED  BY <1>1, <2>1, <2>2, SystemSplit
<1> QED  BY <1>1, SystemInvariance, PTL DEF SystemSpec, ConfirmedIsHeard

(* However often the network repeats it, a MSG and an outcome are shown     *)
(* once.                                                                    *)
THEOREM NothingShownTwice == SystemSpec => ShownOnce
<1>1. ASSUME SysInv, [SystemNext]_sysVars
      PROVE  [/\ shown # "message" /\ shown' = "message" => displayed' # displayed
              /\ shown \notin {"success", "failure"} /\ shown' \in {"success", "failure"} =>
                   told' # told]_sysVars
  <2>1. CASE ClientStep
    BY <1>1, <2>1, ClientStepIs
  <2>2. ASSUME NEW m \in toClient, Deliver(m)
        PROVE  /\ shown' = "message" => displayed' # displayed
               /\ shown' \in {"success", "failure"} => told' # told
    <3>1. /\ Noted(m) /\ Told(m)
          /\ displayed' = IF shown' = "message" THEN displayed \cup {m.id} ELSE displayed
          /\ told' = IF shown' \in {"success", "failure"} THEN told \cup {m.ref} ELSE told
      BY <1>1, <2>2, DeliverFrame
    <3>2. displayed \subseteq received_ids /\ awaited_reply_id \notin told
      BY <1>1 DEF SysInv, ReceivedInv, ReplyInv
    <3>3. shown' = "message" => displayed' # displayed
      BY <3>1, <3>2 DEF Noted
    <3>4. shown' \in {"success", "failure"} => told' # told
      BY <3>1, <3>2 DEF Told
    <3> QED  BY <3>3, <3>4
  <2>3. CASE ServerStep
    BY <2>3, ServerStepFrame DEF vars, outVars
  <2> QED  BY <1>1, <2>1, <2>2, <2>3, SystemSplit DEF ClientMoves
<1> QED  BY <1>1, SystemInvariance, PTL DEF SystemSpec, ShownOnce

(* Success and failure are the server's decision on the request the user    *)
(* waits for.                                                               *)
THEOREM OutcomeIsTheDecision == SystemSpec => ToldTheTruth
<1>1. ASSUME SysInv, [SystemNext]_sysVars
      PROVE  [shown' # shown /\ shown' \in {"success", "failure"} =>
               /\ awaited_reply_id \in Sent
               /\ answer[awaited_reply_id] = (IF shown' = "success" THEN "OK" ELSE "NOK")]_sysVars
  <2>1. CASE ClientStep
    BY <1>1, <2>1, ClientStepIs
  <2>2. ASSUME NEW m \in toClient, Deliver(m), shown' \in {"success", "failure"}
        PROVE  /\ awaited_reply_id \in Sent
               /\ answer[awaited_reply_id] = (IF shown' = "success" THEN "OK" ELSE "NOK")
    <3>1. Honest(m) /\ Told(m)
      BY <1>1, <2>2, DeliverFrame
    <3> QED  BY <2>2, <3>1 DEF Honest, Told
  <2>3. CASE ServerStep
    BY <2>3, ServerStepFrame DEF vars, outVars
  <2> QED  BY <1>1, <2>1, <2>2, <2>3, SystemSplit DEF ClientMoves
<1> QED  BY <1>1, SystemInvariance, PTL DEF SystemSpec, ToldTheTruth

=============================================================================
