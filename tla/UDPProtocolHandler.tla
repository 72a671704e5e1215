------------------------ MODULE UDPProtocolHandler -------------------------
(***************************************************************************)
(* The UDP handler: process_server_message, process_user_input and         *)
(* resend_last_message of UDPProtocolHandler.cpp, with the FSM they        *)
(* consult.  Every action is one whole call; the value it returns is       *)
(* assigned to state', the datagrams it gives to sendto are sent' in       *)
(* order, and what ClientOutput prints is shown'.                          *)
(***************************************************************************)
EXTENDS FSMValidate, ProtocolHandler, Naturals, Sequences

CONSTANTS
    IdMod,        \* 2^16 in the code: MessageIDs are uint16_t
    ServerIds,    \* the MessageIDs of the datagrams the server sends
    Ports,        \* source ports datagrams may come from
    ServerPort    \* the port given by -p

ASSUME IdAssumption   == IdMod \in Nat /\ IdMod >= 2
ASSUME PortAssumption == ServerIds \subseteq 0 .. IdMod - 1 /\ ServerPort \in Ports

VARIABLES
    server_address, received_ids,
    awaited_conirm_id, awaited_reply_id, renamer3000,
    waiting_for_reply, last_message,
    error_sent, awaiting_over, waiting_for_confirmation, error_while_waiting,
    sent, shown

idVars   == <<awaited_conirm_id, awaited_reply_id, renamer3000>>
udpVars  == <<server_address, received_ids, idVars, waiting_for_reply, last_message,
              error_sent, awaiting_over, waiting_for_confirmation,
              error_while_waiting>>
outVars  == <<sent, shown>>

Ids       == 0 .. IdMod - 1
NoId      == IdMod - 1                                  \* -1 stored in a uint16_t
NextIdUnbounded(i) == i + 1                             \* mutant: a wider type
NextId(i) == IF i = IdMod - 1 THEN 0 ELSE i + 1         \* renamer3000++

Requests  == {"AUTH", "JOIN", "MSG"}
SentTypes == Requests \cup {"ERR", "BYE", "CONFIRM", "EMPTY"}
Sendable  == [type : SentTypes, id : Ids]

\* last_message before anything was sent: a datagram of no bytes.
NoMessage   == [type |-> "EMPTY", id |-> 0]
Confirm(id) == [type |-> "CONFIRM", id |-> id]

\* The actions this handler passes to validate_action: /exit and the server's
\* BYE are handled without asking the FSM.
UDPOffered == {"AUTHORIZE_USER", "JOIN_USER", "MESSAGE_USER", "MESSAGE_SERVER",
               "ERROR_SERVER", "REPLY_SERVER", "NREPLY_SERVER"}

Shown == {"nothing", "message", "error", "success", "failure", "internal", "help"}

(***************************************************************************)
(* What the server may send, as far as process_received tells it apart: a  *)
(* datagram too short for its type, one whose fields parse_and_validate    *)
(* refuses, or a valid one; a REPLY's result byte is 1, 0 or another.      *)
(***************************************************************************)
Forms    == {"short", "invalid", "valid"}
Statuses == {"OK", "NOK", "BAD"}

Datagrams ==
    [type : {"CONFIRM"}, id : Ids]
    \cup [type : {"REPLY"}, id : ServerIds, form : Forms, status : Statuses, ref : Ids]
    \cup [type : {"MSG", "ERR"}, id : ServerIds, form : Forms]
    \cup [type : {"BYE", "UNKNOWN"}, id : ServerIds, form : {"short", "valid"}]

(* What the user may type: the command in upper case, and whether the      *)
(* validators accept its argument where it has one.                        *)
Commands == {"/AUTH", "/JOIN", "TEXT", "/RENAME", "/HELP", "/OTHER"}
Lines    == [cmd : Commands \ {"/HELP", "/OTHER"}, valid : BOOLEAN]
            \cup [cmd : {"/HELP", "/OTHER"}]

UDPTypeOK ==
    /\ server_address \in Ports
    /\ received_ids \subseteq Ids
    /\ awaited_conirm_id \in Ids /\ awaited_reply_id \in Ids /\ renamer3000 \in Ids
    /\ waiting_for_reply \in BOOLEAN
    /\ last_message \in Sendable
    /\ error_sent \in BOOLEAN /\ awaiting_over \in BOOLEAN
    /\ waiting_for_confirmation \in BOOLEAN /\ error_while_waiting \in BOOLEAN
    /\ sent \in Seq(Sendable)
    /\ shown \in Shown

UDPInit ==
    /\ FSMInit
    /\ server_address = ServerPort
    /\ received_ids = {}
    /\ awaited_conirm_id = 0 /\ awaited_reply_id = 0 /\ renamer3000 = 0
    /\ waiting_for_reply = FALSE
    /\ last_message = NoMessage
    /\ error_sent = FALSE /\ awaiting_over = FALSE
    /\ waiting_for_confirmation = FALSE /\ error_while_waiting = FALSE
    /\ sent = <<>> /\ shown = "nothing"

-----------------------------------------------------------------------------
(* Sending.                                                                *)

\* A new datagram, after the confirmations in `acks': it takes the next
\* MessageID, becomes the one to retransmit, and its CONFIRM is awaited.
Transmit(type, acks) ==
    /\ last_message' = [type |-> type, id |-> renamer3000]
    /\ sent' = Append(acks, last_message')
    /\ awaited_conirm_id' = renamer3000
    /\ renamer3000' = NextId(renamer3000)

Only(acks) ==
    /\ sent' = acks
    /\ UNCHANGED <<last_message, awaited_conirm_id, renamer3000>>

\* Mutant: the wait is left to the caller.
SendErrorUnawaited(acks) ==
    /\ IF waiting_for_confirmation
       THEN Only(acks) /\ error_while_waiting' = TRUE /\ UNCHANGED error_sent
       ELSE Transmit("ERR", acks) /\ error_sent' = TRUE /\ UNCHANGED error_while_waiting
    /\ UNCHANGED waiting_for_confirmation

\* send_error_message: now, or put off while a confirmation is awaited.
SendError(acks) ==
    /\ IF waiting_for_confirmation
       THEN Only(acks) /\ error_while_waiting' = TRUE /\ UNCHANGED error_sent
       ELSE Transmit("ERR", acks) /\ error_sent' = TRUE /\ UNCHANGED error_while_waiting
    /\ waiting_for_confirmation' = TRUE

\* Mutant: the BYE is not kept for retransmission.
SendByeUnstored(acks) ==
    /\ sent' = Append(acks, [type |-> "BYE", id |-> renamer3000])
    /\ awaited_conirm_id' = renamer3000
    /\ renamer3000' = NextId(renamer3000)
    /\ awaiting_over' = TRUE
    /\ UNCHANGED last_message

SendBye(acks) == Transmit("BYE", acks) /\ awaiting_over' = TRUE

\* resend_last_message
Resend ==
    /\ sent' = <<last_message>> /\ shown' = "nothing"
    /\ UNCHANGED <<udpVars, fsmVars>>

-----------------------------------------------------------------------------
(* process_server_message: the address follows the sender, and the value   *)
(* process_received computed is overridden while a CONFIRM is awaited.     *)

\* Mutant: what process_received computed is returned as it is.
ReturnAsComputed(result) == state' = result

Return(result) ==
    state' = IF waiting_for_confirmation' THEN "WAITING_FOR_CONFIRMATION" ELSE result

\* An error for the server; the call returns WAITING_FOR_CONFIRMATION.
Reject(acks) ==
    /\ SendError(acks)
    /\ shown' = "nothing"
    /\ UNCHANGED <<received_ids, awaited_reply_id, waiting_for_reply, awaiting_over>>
    /\ Return("WAITING_FOR_CONFIRMATION")

ConfirmOther(m) ==
    /\ m.id # awaited_conirm_id
    /\ Only(<<>>)
    /\ UNCHANGED <<waiting_for_reply, error_sent, awaiting_over,
                   waiting_for_confirmation>>
    /\ Return("WAITING_FOR_CONFIRMATION")

ConfirmBye(m) ==
    /\ m.id = awaited_conirm_id /\ awaiting_over
    /\ awaited_conirm_id' = NoId
    /\ waiting_for_confirmation' = FALSE
    /\ sent' = <<>>
    /\ UNCHANGED <<last_message, renamer3000, waiting_for_reply, error_sent, awaiting_over>>
    /\ Return("OVER")

\* Mutant: the session ends with the ERR's confirmation.
ConfirmErrorEnds(m) ==
    /\ m.id = awaited_conirm_id /\ ~awaiting_over /\ error_sent
    /\ error_sent' = FALSE /\ waiting_for_confirmation' = FALSE
    /\ Only(<<>>)
    /\ UNCHANGED <<waiting_for_reply, awaiting_over>>
    /\ Return("OVER")

\* The ERR has arrived: go on with a BYE.
ConfirmError(m) ==
    /\ m.id = awaited_conirm_id /\ ~awaiting_over /\ error_sent
    /\ error_sent' = FALSE
    /\ SendBye(<<>>)
    /\ UNCHANGED <<waiting_for_reply, waiting_for_confirmation>>
    /\ Return("WAITING_FOR_CONFIRMATION")

\* Mutant: any CONFIRM confirms the request.
ConfirmRequestOfAny(m) ==
    /\ ~awaiting_over /\ ~error_sent
    /\ awaited_conirm_id' = NoId
    /\ waiting_for_reply' = FALSE /\ waiting_for_confirmation' = FALSE
    /\ sent' = <<>>
    /\ UNCHANGED <<last_message, renamer3000, error_sent, awaiting_over>>
    /\ Return(IF waiting_for_reply THEN "WAITING_FOR_REPLY" ELSE "READY_FOR_INPUT")

ConfirmRequest(m) ==
    /\ m.id = awaited_conirm_id /\ ~awaiting_over /\ ~error_sent
    /\ awaited_conirm_id' = NoId
    /\ waiting_for_reply' = FALSE
    /\ waiting_for_confirmation' = FALSE
    /\ sent' = <<>>
    /\ UNCHANGED <<last_message, renamer3000, error_sent, awaiting_over>>
    /\ Return(IF waiting_for_reply THEN "WAITING_FOR_REPLY" ELSE "READY_FOR_INPUT")

ReceiveConfirm(m) ==
    /\ m.type = "CONFIRM"
    /\ ConfirmOther(m) \/ ConfirmBye(m) \/ ConfirmError(m) \/ ConfirmRequest(m)
    /\ shown' = "nothing"
    /\ UNCHANGED <<fsmVars, received_ids, awaited_reply_id, error_while_waiting>>

ReplyAction(m) == IF m.status = "OK" THEN "REPLY_SERVER" ELSE "NREPLY_SERVER"

\* Mutants: the refID is not compared; the request stays awaited.
TakeAnyReply(m) ==
    /\ Only(<<Confirm(m.id)>>)
    /\ shown' = IF m.status = "OK" THEN "success" ELSE "failure"
    /\ received_ids' = received_ids \cup {m.id}
    /\ waiting_for_reply' = FALSE
    /\ awaited_reply_id' = NoId
    /\ UNCHANGED waiting_for_confirmation
    /\ Return("READY_FOR_INPUT")

TakeReplyAgain(m) ==
    /\ m.ref = awaited_reply_id
    /\ Only(<<Confirm(m.id)>>)
    /\ shown' = IF m.status = "OK" THEN "success" ELSE "failure"
    /\ received_ids' = received_ids \cup {m.id}
    /\ waiting_for_reply' = FALSE
    /\ UNCHANGED <<awaited_reply_id, waiting_for_confirmation>>
    /\ Return("READY_FOR_INPUT")

\* A REPLY to the request whose reply is awaited.
TakeReply(m) ==
    /\ m.ref = awaited_reply_id
    /\ Only(<<Confirm(m.id)>>)
    /\ shown' = IF m.status = "OK" THEN "success" ELSE "failure"
    /\ received_ids' = received_ids \cup {m.id}
    /\ waiting_for_reply' = FALSE
    /\ awaited_reply_id' = NoId
    /\ UNCHANGED waiting_for_confirmation
    /\ Return("READY_FOR_INPUT")

IgnoreReply(m) ==
    /\ m.ref # awaited_reply_id
    /\ Only(<<Confirm(m.id)>>)
    /\ shown' = "nothing"
    /\ UNCHANGED <<received_ids, waiting_for_reply, awaited_reply_id,
                   waiting_for_confirmation>>
    /\ Return(IF m.status = "OK" THEN "READY_FOR_INPUT" ELSE "WAITING_FOR_REPLY")

ReceiveReply(m) ==
    /\ m.type = "REPLY"
    /\ \/ m.form # "valid" /\ Reject(<<>>) /\ UNCHANGED fsmVars
       \/ m.form = "valid" /\ m.status = "BAD" /\ Reject(<<Confirm(m.id)>>) /\ UNCHANGED fsmVars
       \/ /\ m.form = "valid" /\ m.status # "BAD"
          /\ ValidateAction(ReplyAction(m))
          /\ \/ /\ Reaction(ReplyAction(m)) = "ANY"
                /\ TakeReply(m) \/ IgnoreReply(m)
                /\ UNCHANGED <<error_sent, awaiting_over, error_while_waiting>>
             \/ Reaction(ReplyAction(m)) = "ERROR_USER" /\ Reject(<<Confirm(m.id)>>)

\* Mutant: a MSG is confirmed before it is looked at.
ReceiveMsgConfirming(m) ==
    /\ m.type = "MSG"
    /\ ValidateAction("MESSAGE_SERVER")
    /\ \/ /\ Reaction("MESSAGE_SERVER") = "ANY"
          /\ Only(<<Confirm(m.id)>>)
          /\ shown' = IF m.id \in received_ids THEN "nothing" ELSE "message"
          /\ received_ids' = received_ids \cup {m.id}
          /\ UNCHANGED <<awaited_reply_id, waiting_for_reply, error_sent, awaiting_over,
                         waiting_for_confirmation, error_while_waiting>>
          /\ Return("READY_FOR_INPUT")
       \/ Reaction("MESSAGE_SERVER") # "ANY" /\ Reject(<<Confirm(m.id)>>)

\* A MSG is printed unless its MessageID has been seen; one that is refused
\* is not confirmed.
ReceiveMsg(m) ==
    /\ m.type = "MSG"
    /\ \/ m.form # "valid" /\ Reject(<<>>) /\ UNCHANGED fsmVars
       \/ /\ m.form = "valid"
          /\ ValidateAction("MESSAGE_SERVER")
          /\ \/ /\ Reaction("MESSAGE_SERVER") = "ANY"
                /\ Only(<<Confirm(m.id)>>)
                /\ shown' = IF m.id \in received_ids THEN "nothing" ELSE "message"
                /\ received_ids' = received_ids \cup {m.id}
                /\ UNCHANGED <<awaited_reply_id, waiting_for_reply, error_sent,
                               awaiting_over, waiting_for_confirmation,
                               error_while_waiting>>
                /\ Return("READY_FOR_INPUT")
             \/ Reaction("MESSAGE_SERVER") # "ANY" /\ Reject(<<>>)

\* An ERR is answered by a BYE.  Only for a repeated one does the handler
\* start to wait for the BYE's confirmation.
ReceiveErr(m) ==
    /\ m.type = "ERR"
    /\ \/ m.form = "short" /\ Reject(<<>>) /\ UNCHANGED fsmVars
       \/ m.form = "invalid" /\ Reject(<<Confirm(m.id)>>) /\ UNCHANGED fsmVars
       \/ /\ m.form = "valid"
          /\ ValidateAction("ERROR_SERVER")
          /\ \/ /\ Reaction("ERROR_SERVER") = "ANY"
                /\ SendBye(<<Confirm(m.id)>>)
                /\ shown' = IF m.id \in received_ids THEN "nothing" ELSE "error"
                /\ received_ids' = received_ids \cup {m.id}
                /\ waiting_for_confirmation' = (waiting_for_confirmation \/ m.id \in received_ids)
                /\ UNCHANGED <<awaited_reply_id, waiting_for_reply, error_sent,
                               error_while_waiting>>
                /\ Return("READY_FOR_INPUT")
             \/ Reaction("ERROR_SERVER") # "ANY" /\ Reject(<<Confirm(m.id)>>)

ReceiveBye(m) ==
    /\ m.type = "BYE"
    /\ \/ m.form = "short" /\ Reject(<<>>)
       \/ /\ m.form = "valid"
          /\ Only(<<Confirm(m.id)>>)
          /\ shown' = "nothing"
          /\ received_ids' = received_ids \cup {m.id}
          /\ UNCHANGED <<awaited_reply_id, waiting_for_reply, error_sent, awaiting_over,
                         waiting_for_confirmation, error_while_waiting>>
          /\ Return("OVER")
    /\ UNCHANGED fsmVars

ReceiveUnknown(m) ==
    /\ m.type = "UNKNOWN"
    /\ Reject(IF m.form = "short" THEN <<>> ELSE <<Confirm(m.id)>>)
    /\ UNCHANGED fsmVars

ProcessServerMessage(m, port) ==
    /\ server_address' = port
    /\ \/ ReceiveConfirm(m) \/ ReceiveReply(m) \/ ReceiveMsg(m)
       \/ ReceiveErr(m) \/ ReceiveBye(m) \/ ReceiveUnknown(m)

\* recvfrom returns -1.
ReceiveFails ==
    /\ state' = "OVER" /\ sent' = <<>> /\ shown' = "nothing"
    /\ UNCHANGED <<udpVars, fsmVars>>

-----------------------------------------------------------------------------
(* process_user_input                                                      *)

UserExit ==
    /\ SendBye(<<>>)
    /\ waiting_for_confirmation' = TRUE
    /\ state' = "WAITING_FOR_CONFIRMATION" /\ shown' = "nothing"
    /\ UNCHANGED <<fsmVars, server_address, received_ids, awaited_reply_id,
                   waiting_for_reply, error_sent, error_while_waiting>>

\* A put-off error takes the place of whatever was typed, and stays put off.
FlushError ==
    /\ error_while_waiting
    /\ SendError(<<>>)
    /\ state' = "WAITING_FOR_CONFIRMATION" /\ shown' = "nothing"
    /\ UNCHANGED <<fsmVars, server_address, received_ids, awaited_reply_id,
                   waiting_for_reply, awaiting_over>>

\* Nothing is sent; the line is answered on the terminal.
Answer(what) ==
    /\ shown' = what /\ sent' = <<>>
    /\ state' = "READY_FOR_INPUT"
    /\ UNCHANGED udpVars

\* Mutant: the awaited id is taken after it was incremented.
SendRequestLate(type) ==
    /\ Transmit(type, <<>>)
    /\ waiting_for_reply' = (type # "MSG")
    /\ awaited_reply_id' = IF type = "MSG" THEN NoId ELSE renamer3000'
    /\ waiting_for_confirmation' = TRUE
    /\ state' = "WAITING_FOR_CONFIRMATION" /\ shown' = "nothing"
    /\ UNCHANGED <<server_address, received_ids, error_sent, awaiting_over,
                   error_while_waiting>>

SendRequest(type) ==
    /\ Transmit(type, <<>>)
    /\ waiting_for_reply' = (type # "MSG")
    /\ awaited_reply_id' = IF type = "MSG" THEN NoId ELSE renamer3000
    /\ waiting_for_confirmation' = TRUE
    /\ state' = "WAITING_FOR_CONFIRMATION" /\ shown' = "nothing"
    /\ UNCHANGED <<server_address, received_ids, error_sent, awaiting_over,
                   error_while_waiting>>

\* The FSM is asked, and moves, before the arguments are looked at.
Request(line, action, type) ==
    /\ ValidateAction(action)
    /\ \/ Reaction(action) = "ANY" /\ line.valid /\ SendRequest(type)
       \/ Reaction(action) = "ANY" /\ ~line.valid /\ Answer("internal")
       \/ Reaction(action) = "WARN_CLIENT" /\ Answer("internal")

\* Falls off the end of the function when the new name is accepted.
Rename(line) ==
    /\ \/ ~line.valid /\ Answer("internal")
       \/ /\ line.valid
          /\ shown' = "nothing" /\ sent' = <<>>
          /\ state' \in JunkReturns
          /\ UNCHANGED udpVars
    /\ UNCHANGED fsmVars

Dispatch(line) ==
    \/ line.cmd = "/AUTH" /\ Request(line, "AUTHORIZE_USER", "AUTH")
    \/ line.cmd = "/JOIN" /\ Request(line, "JOIN_USER", "JOIN")
    \/ line.cmd = "TEXT"  /\ Request(line, "MESSAGE_USER", "MSG")
    \/ line.cmd = "/RENAME" /\ Rename(line)
    \/ line.cmd = "/HELP"   /\ Answer("help") /\ UNCHANGED fsmVars
    \/ line.cmd = "/OTHER"  /\ Answer("internal") /\ UNCHANGED fsmVars

\* Mutant: a put-off error does not take precedence over the line.
UserCommandUnchecked(line) == Dispatch(line)

UserCommand(line) == ~error_while_waiting /\ Dispatch(line)

=============================================================================
