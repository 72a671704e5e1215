------------------------ MODULE UDPRefinementProofs ------------------------
(***************************************************************************)
(* The UDP client implements StopAndWait and ChatSession, for every value  *)
(* of the constants.                                                       *)
(***************************************************************************)
EXTENDS UDPClientProofs

USE DEF Ended, Awaiting, ClientStates, NotAState, Returned, Requests, SentTypes, Ids, NoId,
        Sendable

-----------------------------------------------------------------------------
(* Stop-and-wait.  One lemma per way in which a step shows in it.           *)

LEMMA CourierKept ==
    ASSUME Awaiting <=> Awaiting',
           Awaiting => UNCHANGED <<last_message, retry_count>>,
           (state = "OVER") <=> (state' = "OVER")
    PROVE  UNCHANGED Courier!vars
BY DEF Courier!vars

LEMMA CourierStop ==
    ASSUME ~Awaiting, ~Awaiting', state # "OVER"
    PROVE  [Courier!Next]_(Courier!vars)
<1>1. CASE state' = "OVER"
  <2>1. Courier!Stop
    BY <1>1 DEF Courier!Stop
  <2> QED  BY <2>1 DEF Courier!Next
<1>2. CASE state' # "OVER"
  BY <1>2, CourierKept
<1> QED  BY <1>1, <1>2

\* An ERR or a BYE is taken, or takes the place of what was pending.
LEMMA CourierUrgent ==
    ASSUME IInv, NEW type \in {"ERR", "BYE"}, Numbers(type), Awaiting', state # "OVER",
           state' # "OVER", retry_count' = retry_count \/ (~Awaiting /\ retry_count' = Retrans)
    PROVE  Courier!Next
<1> DEFINE m == last_message'
<1>0. renamer3000 \in Ids /\ retry_count \in 0 .. Retrans /\ Retrans \in 0 .. Retrans
  BY RetransAssumption DEF IInv, TypeOK, UDPTypeOK, LoopTypeOK
<1>1. /\ m \in [type : Requests \cup {"ERR", "BYE"}, id : Ids]
      /\ m \in [type : {"ERR", "BYE"}, id : Ids]
  BY <1>0 DEF Numbers
<1>2. CASE Awaiting
  <2>1. last_message # NoMessage
    BY <1>2 DEF IInv, RetransmitsWhatItAwaits, NoMessage
  <2>2. Courier!Supersede(m)
    BY <1>1, <1>2, <2>1 DEF Courier!Supersede
  <2> QED  BY <1>1, <2>2 DEF Courier!Next
<1>3. CASE ~Awaiting
  <2>1. Courier!Take(m)
    BY <1>0, <1>1, <1>3 DEF Courier!Take
  <2> QED  BY <1>1, <2>1 DEF Courier!Next
<1> QED  BY <1>2, <1>3

\* Only its CONFIRM ends a wait inside process_server_message.
LEMMA EndedByConfirm ==
    ASSUME NEW m \in Datagrams, NEW port \in Ports, ProcessServerMessage(m, port),
           Awaiting, ~Awaiting'
    PROVE  m.type = "CONFIRM" /\ m.id = awaited_conirm_id
<1>1. CASE ReceiveConfirm(m)
  BY <1>1 DEF ReceiveConfirm, ConfirmOther, ConfirmBye, ConfirmError, ConfirmRequest
<1>2. CASE ~ReceiveConfirm(m)
  BY <1>2 DEF ProcessServerMessage, ReceiveReply, TakeReply, IgnoreReply, ReceiveMsg, ReceiveErr,
     ReceiveBye, ReceiveUnknown, Reject, SendError
<1> QED  BY <1>1, <1>2

LEMMA NextCourier ==
    ASSUME IInv, [Next]_vars
    PROVE  [Courier!Next]_(Courier!vars)
<1>0. /\ renamer3000 \in Ids /\ retry_count \in 0 .. Retrans /\ Retrans \in Nat
      /\ Awaiting => last_message # NoMessage
  BY RetransAssumption
  DEF IInv, TypeOK, UDPTypeOK, LoopTypeOK, RetransmitsWhatItAwaits, NoMessage
<1>1. CASE Uncalled
  <2>0. UNCHANGED <<waiting_for_confirmation, last_message>>
    BY <1>1 DEF Uncalled, Idle, udpVars
  <2>1. CASE Exhausted
    <3>0. state # "OVER" /\ state' = "OVER" /\ retry_count = 0 /\ retry_count' = retry_count
      BY <2>1 DEF Exhausted, GiveUp
    <3>1. CASE Awaiting
      <4>1. Courier!GiveUp
        BY <1>0, <2>0, <3>0, <3>1 DEF Courier!GiveUp
      <4> QED  BY <4>1 DEF Courier!Next
    <3> QED  BY <2>0, <3>0, <3>1, CourierStop
  <2>2. CASE LoopRound \/ LoopEnd \/ SecondInt \/ BlankLine \/ Interrupt
    <3>1. UNCHANGED <<state, retry_count>>
      BY <2>2 DEF LoopRound, EnterPoll, LoopEnd, Close, SecondInt, PollFails, BlankLine, EmptyLine,
         TakeLine, Interrupt, Signal
    <3> QED  BY <2>0, <3>1, CourierKept
  <2> QED  BY <1>1, <2>1, <2>2 DEF Uncalled
<1>2. CASE RecvError
  <2>1. /\ state # "OVER" /\ state' = "OVER" /\ retry_count' = Retrans
        /\ UNCHANGED <<waiting_for_confirmation, last_message>>
    BY <1>2 DEF RecvError, TakeSocket, AtEvent, ReceiveFails, RestoreRetries, udpVars, IInv, LoopInv
  <2>2. CASE Awaiting
    <3>1. Courier!Break
      BY <1>0, <2>1, <2>2 DEF Courier!Break
    <3> QED  BY <3>1 DEF Courier!Next
  <2> QED  BY <2>1, <2>2, CourierStop
<1>3. CASE Retransmit
  <2>1. /\ state = "WAITING_FOR_CONFIRMATION" /\ state' = state
        /\ retry_count > 0 /\ retry_count' = retry_count - 1
        /\ UNCHANGED <<waiting_for_confirmation, last_message>>
    BY <1>3 DEF Retransmit, Retry, Resend, udpVars
  <2>2. CASE Awaiting
    <3>1. Courier!Repeat
      BY <1>0, <2>1, <2>2 DEF Courier!Repeat
    <3> QED  BY <3>1 DEF Courier!Next
  <2> QED  BY <2>1, <2>2, CourierKept
<1>4. ASSUME WaitStep, Blocks, state # "OVER", RestoreRetries,
             Awaiting /\ ~Awaiting' => awaited_conirm_id \in acked'
      PROVE  [Courier!Next]_(Courier!vars)
  <2>0. Awaiting' => state' = "WAITING_FOR_CONFIRMATION" /\ retry_count' = retry_count
    BY <1>4 DEF Blocks, RestoreRetries
  <2>1. CASE KeepsWait /\ Awaiting
    BY <1>4, <2>0, <2>1, CourierKept DEF KeepsWait
  <2>2. CASE EndsWait /\ Awaiting
    <3>1. last_message \in Sendable /\ last_message.id \in acked'
      BY <1>4, <2>2 DEF EndsWait, IInv, TypeOK, UDPTypeOK, RetransmitsWhatItAwaits
    <3>2. Courier!Confirmed
      BY <1>0, <1>4, <2>2, <3>1 DEF EndsWait, Courier!Confirmed
    <3> QED  BY <3>2 DEF Courier!Next
  <2>3. CASE ~Awaiting /\ ~Awaiting'
    BY <1>4, <2>3, CourierStop
  <2>4. CASE (StartsBye \/ StartsError) /\ Awaiting'
    BY <1>4, <2>0, <2>4, CourierUrgent DEF StartsBye, StartsError
  <2> QED
    BY <1>4, <2>1, <2>2, <2>3, <2>4 DEF WaitStep, KeepsWait, EndsWait, StartsBye, StartsError
<1>5. CASE ExitOnSignal \/ ExitLine
  <2>1. StartsBye /\ Awaiting' /\ state' = "WAITING_FOR_CONFIRMATION"
    BY <1>5, UserExitWait DEF ExitOnSignal, ExitLine, Blocks
  <2>2. retry_count' = retry_count /\ state # "OVER"
    BY <1>5 DEF ExitOnSignal, TakeInterrupt, ExitLine, TakeLine, AtEvent, IInv, LoopInv
  <2> QED  BY <2>1, <2>2, CourierUrgent DEF StartsBye
<1>6. CASE TakeLine /\ (KeepsWait \/ (StartsError /\ Blocks))
  <2>1. ~Awaiting /\ state # "OVER" /\ retry_count' = retry_count
    BY <1>6, LineUnblocked DEF TakeLine
  <2>2. CASE KeepsWait
    BY <2>1, <2>2, CourierStop DEF KeepsWait
  <2>3. CASE StartsError /\ Blocks
    BY <2>1, <2>3, CourierUrgent DEF StartsError, Blocks
  <2> QED  BY <1>6, <2>2, <2>3
<1>7. CASE TakeLine /\ StartsRequest /\ Blocks
  <2> DEFINE m == last_message'
  <2>1. /\ ~Awaiting /\ Awaiting' /\ state # "OVER" /\ state' # "OVER"
        /\ retry_count' = Retrans
    BY <1>7, LineUnblocked DEF TakeLine, StartsRequest, Blocks
  <2>2. m \in [type : Requests \cup {"ERR", "BYE"}, id : Ids]
    BY <1>0, <1>7 DEF StartsRequest, Numbers
  <2>3. Courier!Take(m)
    BY <1>0, <2>1 DEF Courier!Take
  <2> QED  BY <2>2, <2>3 DEF Courier!Next
<1>8. CASE UNCHANGED vars
  BY <1>8, CourierKept DEF vars, loopVars, udpVars
<1>9. ASSUME NEW m \in Datagrams, NEW port \in Ports, Receive(m, port)
      PROVE  [Courier!Next]_(Courier!vars)
  <2>1. WaitStep /\ Blocks
    BY <1>9, ServerMessageWait DEF Receive, IInv, TypeOK
  <2>2. Awaiting /\ ~Awaiting' => awaited_conirm_id \in acked'
    BY <1>9, EndedByConfirm DEF Receive
  <2> QED  BY <1>4, <1>9, <2>1, <2>2 DEF Receive, TakeSocket, AtEvent, IInv, LoopInv
<1>10. CASE ErrorLine
  BY <1>6, <1>10, FlushErrorWait DEF ErrorLine, IInv, TypeOK
<1>11. ASSUME NEW l \in Lines, Command(l) PROVE [Courier!Next]_(Courier!vars)
  BY <1>6, <1>7, <1>11, UserCommandWait DEF Command
<1> QED
  BY <1>1, <1>2, <1>3, <1>5, <1>8, <1>9, <1>10, <1>11, NextSplit

(* Every behaviour of the client is one of StopAndWait: one message is      *)
(* pending at a time, a request has the whole -r repeats, and what is       *)
(* pending is dropped only in the step that receives the CONFIRM with its   *)
(* own MessageID, for a farewell, by giving up or by a socket error.        *)
THEOREM Delivery == Spec => DeliversByStopAndWait
<1>1. Init => Courier!Init
  BY DEF Init, LoopInit, UDPInit, Courier!Init
<1>2. IInv /\ [Next]_vars => [Courier!Next]_(Courier!vars)
  BY NextCourier
<1> QED  BY <1>1, <1>2, Invariance, PTL DEF Spec, DeliversByStopAndWait, Courier!Spec

-----------------------------------------------------------------------------
(* The chat session.                                                        *)

\* What was sent has been forgotten when the loop polls; last_message is never
\* a confirmation.
QuietInv ==
    /\ pc = "poll" => sent = <<>>
    /\ last_message.type # "CONFIRM"

\* A call sends one new message behind its confirmations, or only those.
Numbered == \E type \in {"ERR", "BYE"} : Numbers(type)
OnlyAcks == sent' = <<>> \/ \E id \in Ids : sent' = <<Confirm(id)>>

LEMMA SendErrorSends ==
    ASSUME NEW acks, SendError(acks)
    PROVE  Numbered \/ (sent' = acks /\ UNCHANGED last_message)
BY DEF SendError, Only, Transmit, Numbered, Numbers

LEMMA ServerMessageSends ==
    ASSUME NEW m \in Datagrams, NEW port \in Ports, ProcessServerMessage(m, port)
    PROVE  Numbered \/ (OnlyAcks /\ UNCHANGED last_message)
<1>0. m.id \in Ids
  BY DatagramIds
<1> USE DEF Only, OnlyAcks
<1>1. ASSUME Reject(<<>>) \/ Reject(<<Confirm(m.id)>>)
      PROVE  Numbered \/ (OnlyAcks /\ UNCHANGED last_message)
  BY <1>0, <1>1, SendErrorSends DEF Reject
<1>2. CASE ReceiveConfirm(m)
  BY <1>2 DEF ReceiveConfirm, ConfirmOther, ConfirmBye, ConfirmError, ConfirmRequest, SendBye,
     Transmit, Numbered, Numbers
<1>3. CASE ReceiveReply(m)
  BY <1>0, <1>1, <1>3 DEF ReceiveReply, TakeReply, IgnoreReply
<1>4. CASE ReceiveMsg(m)
  BY <1>0, <1>1, <1>4 DEF ReceiveMsg
<1>5. CASE ReceiveErr(m)
  BY <1>1, <1>5 DEF ReceiveErr, SendBye, Transmit, Numbered, Numbers
<1>6. CASE ReceiveBye(m)
  BY <1>0, <1>1, <1>6 DEF ReceiveBye
<1>7. CASE ReceiveUnknown(m)
  BY <1>1, <1>7 DEF ReceiveUnknown
<1> QED  BY <1>2, <1>3, <1>4, <1>5, <1>6, <1>7 DEF ProcessServerMessage

LEMMA NextQuiet ==
    ASSUME IInv, QuietInv, [Next]_vars
    PROVE  QuietInv'
<1>1. pc' = "poll" => sent' = <<>>
  <2>1. CASE Uncalled \/ UNCHANGED vars
    BY <2>1 DEF QuietInv, Uncalled, LoopRound, LoopEnd, Close, SecondInt, PollFails, Exhausted,
       GiveUp, AtEvent, BlankLine, EmptyLine, TakeLine, Interrupt, Signal, vars, loopVars, outVars
  <2>2. CASE Retransmit \/ RecvError \/ \E m \in Datagrams, port \in Ports : Receive(m, port)
    BY <2>2 DEF Retransmit, Retry, RecvError, Receive, TakeSocket, AtEvent
  <2>3. CASE ExitOnSignal \/ ExitLine \/ ErrorLine \/ \E l \in Lines : Command(l)
    BY <2>3 DEF ExitOnSignal, TakeInterrupt, ExitLine, ErrorLine, Command, TakeLine, AtEvent
  <2> QED  BY <2>1, <2>2, <2>3, NextSplit
<1>2. last_message'.type # "CONFIRM"
  <2> USE DEF QuietInv
  <2>1. CASE UNCHANGED udpVars \/ KeepsWait \/ EndsWait
    BY <2>1 DEF udpVars, KeepsWait, EndsWait
  <2>2. CASE StartsBye \/ StartsError \/ StartsRequest
    BY <2>2 DEF StartsBye, StartsError, StartsRequest, Numbers
  <2>3. CASE Retransmit
    BY <2>1, <2>3 DEF Retransmit, Resend
  <2> QED  BY <2>1, <2>2, <2>3, NextWait DEF LoopWaitStep, WaitStep
<1> QED  BY <1>1, <1>2 DEF QuietInv

\* There is no way back for a client that is leaving or has parted.
LEMMA LeavingStays ==
    ASSUME IInv, [Next]_vars
    PROVE  Leaving' \in Session!Onward
<1>1. LoopWaitStep /\ (error_sent /\ state # "OVER" => waiting_for_confirmation)
  BY NextWait DEF IInv, SentErrorInv
<1>2. (OnTheWayOut => OnTheWayOut') /\ (awaiting_over => awaiting_over')
  <2> USE DEF OnTheWayOut
  <2>1. CASE UNCHANGED udpVars /\ (UNCHANGED state \/ state' = "OVER")
    BY <2>1 DEF udpVars
  <2>2. CASE Retransmit
    BY <2>1, <2>2 DEF Retransmit, Retry, Resend
  <2>3. CASE KeepsWait /\ (state # "OVER" \/ TakeLine)
    BY <2>3, LineUnblocked DEF KeepsWait
  <2>4. CASE EndsWait /\ state # "OVER"
    BY <2>4 DEF EndsWait
  <2>5. CASE StartsBye /\ (state # "OVER" \/ waiting_for_confirmation')
    BY <1>1, <2>5 DEF StartsBye
  <2>6. CASE StartsError
    BY <2>6 DEF StartsError
  <2>7. CASE StartsRequest /\ TakeLine
    BY <1>1, <2>7, LineUnblocked DEF StartsRequest
  <2> QED
    BY <1>1, <2>1, <2>2, <2>3, <2>4, <2>5, <2>6, <2>7 DEF LoopWaitStep, WaitStep, Command
<1> QED  BY <1>2 DEF Leaving, Session!Onward

\* A step that says nothing but a farewell.
LEMMA AttendStep ==
    ASSUME FirstSaid' \subseteq {"ERR", "BYE"}, Leaving' \in Session!Onward,
           \/ grant' = grant
           \/ grant = "asked" /\ grant' = "given"
           \/ grant = "none" /\ grant' = "asked" /\ FirstSaid' = {}
    PROVE  Session!Next
<1>1. CASE grant = "none" /\ grant' = "asked" /\ FirstSaid' = {}
  <2>1. Session!Ask
    BY <1>1 DEF Session!Ask
  <2> QED  BY <2>1 DEF Session!Next
<1>2. CASE grant' = grant \/ (grant = "asked" /\ grant' = "given")
  <2>1. Session!Attend
    BY <1>2 DEF Session!Attend, Session!Farewells
  <2> QED  BY <2>1 DEF Session!Next
<1> QED  BY <1>1, <1>2

LEMMA QuietSays ==
    ASSUME QuietInv', OnlyAcks
    PROVE  FirstSaid' = {}
BY DEF QuietInv, OnlyAcks, FirstSaid, Confirm

LEMMA NumberedSays ==
    ASSUME Numbered
    PROVE  FirstSaid' \subseteq {"ERR", "BYE"}
BY DEF Numbered, Numbers, FirstSaid

\* A line that the user typed, other than /exit.
LEMMA CommandSession ==
    ASSUME IInv, QuietInv, NEW l \in Lines, Command(l)
    PROVE  Session!Next
<1>0. /\ ~waiting_for_confirmation /\ state # "OVER"
      /\ renamer3000 \in Ids /\ grant \in {"none", "asked", "given"}
      /\ Leaving' \in Session!Onward
  BY LineUnblocked, LeavingStays DEF IInv, TypeOK, UDPTypeOK, Command, Next, User
<1>1. /\ UserCommand(l)
      /\ grant' = IF l.cmd = "/AUTH" /\ grant = "none" THEN "asked" ELSE grant
  BY DEF Command
<1>2. ASSUME sent' = <<>> PROVE Session!Next
  <2>1. FirstSaid' = {}
    BY <1>2 DEF FirstSaid
  <2> QED  BY <1>0, <1>1, <2>1, AttendStep
<1>3. ASSUME NEW type \in Requests, SendRequest(type),
             type = "AUTH" => l.cmd = "/AUTH", type # "AUTH" => grant = "given"
      PROVE  Session!Next
  <2>1. /\ last_message' = [type |-> type, id |-> renamer3000] /\ sent' = <<last_message'>>
        /\ resends' = 0
    BY <1>0, <1>3, NextIdType DEF SendRequest, Transmit, Command, Track, SendsNew
  <2>2. FirstSaid' = {type}
    BY <2>1 DEF FirstSaid
  <2>3. /\ Leaving # "yes"
        /\ Leaving' = IF Leaving = "parted" THEN "yes" ELSE Leaving
    <3>1. /\ ~error_while_waiting /\ ~error_sent /\ waiting_for_confirmation'
          /\ UNCHANGED <<error_sent, awaiting_over, error_while_waiting>>
          /\ state' # "OVER"
      BY <1>0, <1>1, <1>3 DEF UserCommand, SendRequest, IInv, SentErrorInv
    <3> QED  BY <1>0, <3>1 DEF Leaving, OnTheWayOut
  <2>s. Session!Say(type)
    BY <2>2, <2>3 DEF Session!Say
  <2>4. CASE grant = "none"
    <3>1. Session!Ask
      BY <1>1, <1>3, <2>s, <2>4 DEF Session!Ask
    <3> QED  BY <3>1 DEF Session!Next
  <2>5. CASE grant # "none"
    <3>1. Session!Request(type)
      BY <1>0, <1>1, <1>3, <2>s, <2>5 DEF Session!Request
    <3> QED  BY <3>1 DEF Session!Next
  <2> QED  BY <2>4, <2>5
<1>4. ASSUME NEW a \in {"JOIN_USER", "MESSAGE_USER"}, Reaction(a) = "ANY"
      PROVE  grant = "given"
  BY <1>4, RequestInOpen DEF IInv, OpenOnlyIfGranted
<1> QED
  BY <1>1, <1>2, <1>3, <1>4 DEF UserCommand, Dispatch, Request, Rename, Answer

LEMMA NextSession ==
    ASSUME IInv, QuietInv, [Next]_vars
    PROVE  [Session!Next]_(Session!vars)
<1>0. /\ QuietInv' /\ Leaving' \in Session!Onward
      /\ Retrans \in Nat /\ resends \in 0 .. Retrans + 1
  BY NextQuiet, LeavingStays, RetransAssumption DEF IInv, TypeOK
<1>1. ASSUME sent' = <<>>, grant' = grant PROVE Session!Next
  BY <1>0, <1>1, QuietSays, AttendStep DEF OnlyAcks
<1>2. ASSUME UNCHANGED <<udpVars, sent, history, state>> PROVE UNCHANGED Session!vars
  BY <1>2 DEF Session!vars, FirstSaid, Leaving, OnTheWayOut, udpVars, history
<1>3. CASE Uncalled
  <2>1. CASE LoopRound
    BY <1>1, <1>3, <2>1 DEF LoopRound, Uncalled, Idle, history
  <2>2. CASE Exhausted
    BY <1>1, <1>3, <2>2 DEF Exhausted, GiveUp, AtEvent, QuietInv, outVars, Uncalled, Idle, history
  <2>3. CASE LoopEnd \/ SecondInt \/ BlankLine \/ Interrupt
    BY <1>2, <1>3, <2>3 DEF LoopEnd, Close, SecondInt, PollFails, BlankLine, EmptyLine, TakeLine,
       Interrupt, Signal, outVars, Uncalled, Idle
  <2> QED  BY <1>3, <2>1, <2>2, <2>3 DEF Uncalled
<1>4. CASE Retransmit
  <2>1. resends' # 0 /\ grant' = grant
    BY <1>0, <1>4 DEF Retransmit
  <2>2. FirstSaid' = {}
    BY <2>1 DEF FirstSaid
  <2> QED  BY <1>0, <2>1, <2>2, AttendStep
<1>5. CASE RecvError
  BY <1>1, <1>5 DEF RecvError, ReceiveFails, Plain
<1>6. ASSUME NEW m \in Datagrams, NEW port \in Ports, Receive(m, port) PROVE Session!Next
  <2>1. FirstSaid' \subseteq {"ERR", "BYE"}
    BY <1>0, <1>6, ServerMessageSends, QuietSays, NumberedSays DEF Receive
  <2>2. grant' = grant \/ (grant = "asked" /\ grant' = "given")
    BY <1>6 DEF Receive
  <2> QED  BY <1>0, <2>1, <2>2, AttendStep
<1>7. CASE ExitOnSignal \/ ExitLine
  <2>1. Numbered /\ grant' = grant
    BY <1>7 DEF ExitOnSignal, ExitLine, UserExit, SendBye, Transmit, Numbered, Numbers,
       Plain
  <2> QED  BY <1>0, <2>1, NumberedSays, AttendStep
<1>8. CASE ErrorLine
  <2>1. grant' = grant /\ (Numbered \/ sent' = <<>>)
    BY <1>8, SendErrorSends DEF ErrorLine, FlushError, Plain
  <2> QED  BY <1>0, <1>1, <2>1, NumberedSays, AttendStep
<1>9. CASE \E l \in Lines : Command(l)
  BY <1>9, CommandSession
<1>10. CASE UNCHANGED vars
  BY <1>2, <1>10 DEF vars, outVars
<1> QED  BY <1>3, <1>4, <1>5, <1>6, <1>7, <1>8, <1>9, <1>10, NextSplit

(* Every behaviour of the UDP client is one of the chat session.            *)
THEOREM SessionKept == Spec => KeepsSession
<1>1. Init => Session!Init /\ QuietInv
  BY DEF Init, LoopInit, UDPInit, Session!Init, FirstSaid, Leaving, OnTheWayOut, QuietInv,
     NoMessage
<1>2. IInv /\ QuietInv /\ [Next]_vars => QuietInv'
  BY NextQuiet
<1>3. IInv /\ QuietInv /\ [Next]_vars => [Session!Next]_(Session!vars)
  BY NextSession
<1> QED  BY <1>1, <1>2, <1>3, Invariance, PTL DEF Spec, KeepsSession, Session!Spec

=============================================================================
