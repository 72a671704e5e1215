------------------------ MODULE TCPProtocolHandler -------------------------
(***************************************************************************)
(* The TCP handler: process_server_message and process_user_input of       *)
(* TCPProtocolHandler.cpp, with the FSM they consult.  The stream is cut   *)
(* into segments at any byte: one recv completes any number of messages,   *)
(* none included.  process_server_message is modelled one iteration of its *)
(* loops at a time, because each message makes an FSM call of its own;     *)
(* `call' is where it is.  Everything else is one call, one action.        *)
(***************************************************************************)
EXTENDS FSMValidate, ProtocolHandler, Naturals, Sequences

VARIABLES
    waiting_for_reply,
    buffer,     \* the complete messages in the static buffer
    call,       \* process_server_message: "none", "recv" or "process"
    exited,     \* a send failed (exit) or the process was aborted
    sent, shown

tcpVars == <<waiting_for_reply, buffer, call, exited>>
outVars == <<sent, shown>>

\* The actions this handler passes to validate_action.
TCPOffered == {"AUTHORIZE_USER", "JOIN_USER", "MESSAGE_USER", "MESSAGE_SERVER",
               "ERROR_SERVER", "REPLY_SERVER", "NREPLY_SERVER", "BYE_SERVER"}

SentTypes == {"AUTH", "JOIN", "MSG", "ERR", "BYE"}

Shown == {"nothing", "message", "error", "success", "failure", "internal", "help",
          "closed"}

(***************************************************************************)
(* A line of the server, as far as process_received and the validator tell *)
(* it apart.  "truncated" is a REPLY OK IS or REPLY NOK IS with no content *)
(* at all: validate_reply calls pop_back on an empty string.               *)
(***************************************************************************)
Messages ==
    [type : {"MSG", "ERR"}, form : {"valid", "invalid"}]
    \cup [type : {"REPLY"}, status : {"OK", "NOK"}, form : {"valid", "invalid", "truncated"}]
    \cup [type : {"REPLY"}, status : {"OTHER"}]
    \cup [type : {"BYE", "OTHER"}]

Commands == {"/AUTH", "/JOIN", "TEXT", "/RENAME", "/HELP", "/OTHER"}
Lines    == [cmd : Commands \ {"/HELP", "/OTHER"}, valid : BOOLEAN]
            \cup [cmd : {"/HELP", "/OTHER"}]

TCPTypeOK ==
    /\ waiting_for_reply \in BOOLEAN
    /\ buffer \in Seq(Messages)
    /\ call \in {"none", "recv", "process"}
    /\ exited \in BOOLEAN
    /\ sent \in Seq(SentTypes)
    /\ shown \in Shown

TCPInit ==
    /\ FSMInit
    /\ waiting_for_reply = FALSE
    /\ buffer = <<>> /\ call = "none"
    /\ exited = FALSE
    /\ sent = <<>> /\ shown = "nothing"

-----------------------------------------------------------------------------
\* send_message for each of msgs in turn; the first that fails ends the process.
Send(msgs) ==
    \/ sent' = msgs /\ UNCHANGED exited
    \/ \E k \in 0 .. Len(msgs) - 1 : sent' = SubSeq(msgs, 1, k) /\ exited' = TRUE

SendNothing == sent' = <<>> /\ UNCHANGED exited

(* process_server_message: recv.                                           *)

\* recv returned bytes that complete the messages msgs.
ReceiveData(msgs) ==
    /\ buffer' = buffer \o msgs
    /\ call' = "process"
    /\ SendNothing /\ shown' = "nothing"
    /\ UNCHANGED <<fsmVars, state, waiting_for_reply>>

ReceiveClosed ==
    /\ state' = "OVER" /\ call' = "none"
    /\ SendNothing /\ shown' = "closed"
    /\ UNCHANGED <<fsmVars, waiting_for_reply, buffer>>

\* recv returned -1: reported, and called again.
ReceiveFails ==
    /\ call' = "recv"
    /\ SendNothing /\ shown' = "nothing"
    /\ UNCHANGED <<fsmVars, state, waiting_for_reply, buffer>>

-----------------------------------------------------------------------------
(* process_received, and what its caller does with the value it returns:   *)
(* anything but READY_FOR_INPUT is returned at once.                       *)

\* Mutant: the caller returns after the first message in any case.
ReturnAtOnce(result) == state' = result /\ call' = "none"

Return(result) ==
    IF result = "READY_FOR_INPUT"
    THEN UNCHANGED <<state, call>>
    ELSE state' = result /\ call' = "none"

\* Mutant: the session ends without a BYE.
ComplainOnly(what) ==
    /\ Send(<<"ERR">>)
    /\ shown' = what
    /\ UNCHANGED waiting_for_reply
    /\ Return("OVER")

Complain(what) ==
    /\ Send(<<"ERR", "BYE">>)
    /\ shown' = what
    /\ UNCHANGED waiting_for_reply
    /\ Return("OVER")

ProcessMsg(m) ==
    /\ m.type = "MSG"
    /\ ValidateAction("MESSAGE_SERVER")
    /\ \/ /\ Reaction("MESSAGE_SERVER") = "ANY" /\ m.form = "valid"
          /\ SendNothing /\ shown' = "message"
          /\ UNCHANGED waiting_for_reply
          /\ Return(IF waiting_for_reply THEN "WAITING_FOR_REPLY" ELSE "READY_FOR_INPUT")
       \/ Reaction("MESSAGE_SERVER") = "ANY" /\ m.form = "invalid" /\ Complain("nothing")
       \/ Reaction("MESSAGE_SERVER") = "ERROR_USER" /\ Complain("nothing")

ReplyAction(m) == IF m.status = "OK" THEN "REPLY_SERVER" ELSE "NREPLY_SERVER"

TakeReply(m) ==
    /\ shown' = IF ~waiting_for_reply THEN "nothing"
                ELSE IF m.status = "OK" THEN "success" ELSE "failure"
    /\ waiting_for_reply' = FALSE
    /\ SendNothing
    /\ Return("READY_FOR_INPUT")

\* pop_back leaves the empty string with an enormous length; copying it aborts.
Abort ==
    /\ exited' = TRUE
    /\ sent' = <<>> /\ shown' = "nothing"
    /\ UNCHANGED <<state, call, waiting_for_reply>>

ProcessReply(m) ==
    /\ m.type = "REPLY" /\ m.status # "OTHER"
    /\ ValidateAction(ReplyAction(m))
    /\ \/ Reaction(ReplyAction(m)) = "ANY" /\ m.form = "valid" /\ TakeReply(m)
       \/ Reaction(ReplyAction(m)) = "ANY" /\ m.form = "invalid" /\ Complain("nothing")
       \/ Reaction(ReplyAction(m)) = "ANY" /\ m.form = "truncated" /\ Abort
       \/ Reaction(ReplyAction(m)) = "ERROR_USER" /\ Complain("nothing")

\* Neither OK nor NOK: process_received ends without a return statement.
ProcessOtherReply(m) ==
    /\ m.type = "REPLY" /\ m.status = "OTHER"
    /\ \E junk \in JunkReturns : Return(junk)
    /\ SendNothing /\ shown' = "nothing"
    /\ UNCHANGED <<fsmVars, waiting_for_reply>>

ProcessErr(m) ==
    /\ m.type = "ERR"
    /\ ValidateAction("ERROR_SERVER")
    /\ \/ /\ Reaction("ERROR_SERVER") = "ANY" /\ m.form = "valid"
          /\ Send(<<"BYE">>) /\ shown' = "error"
          /\ UNCHANGED waiting_for_reply
          /\ Return("OVER")
       \/ Reaction("ERROR_SERVER") = "ANY" /\ m.form = "invalid" /\ Complain("nothing")
       \/ Reaction("ERROR_SERVER") = "ERROR_USER" /\ Complain("nothing")

\* Mutant: the rest of the segment is processed after the BYE.
ProcessByeGoesOn(m) ==
    /\ m.type = "BYE"
    /\ ValidateAction("BYE_SERVER")
    /\ \/ /\ Reaction("BYE_SERVER") = "ANY"
          /\ SendNothing /\ shown' = "nothing"
          /\ UNCHANGED waiting_for_reply
          /\ Return("READY_FOR_INPUT")
       \/ Reaction("BYE_SERVER") = "ERROR_USER" /\ Complain("nothing")

ProcessBye(m) ==
    /\ m.type = "BYE"
    /\ ValidateAction("BYE_SERVER")
    /\ \/ /\ Reaction("BYE_SERVER") = "ANY"
          /\ SendNothing /\ shown' = "nothing"
          /\ UNCHANGED waiting_for_reply
          /\ Return("OVER")
       \/ Reaction("BYE_SERVER") = "ERROR_USER" /\ Complain("nothing")

ProcessOther(m) ==
    /\ m.type = "OTHER"
    /\ Complain("internal")
    /\ UNCHANGED fsmVars

ProcessReceived(m) ==
    \/ ProcessMsg(m) \/ ProcessReply(m) \/ ProcessOtherReply(m)
    \/ ProcessErr(m) \/ ProcessBye(m) \/ ProcessOther(m)

\* The next complete message of the buffer.
ProcessNext ==
    /\ call = "process" /\ buffer # <<>>
    /\ buffer' = Tail(buffer)
    /\ ProcessReceived(Head(buffer))

\* Nothing complete is left: READY_FOR_INPUT, whether or not a reply is awaited.
Drained ==
    /\ call = "process" /\ buffer = <<>>
    /\ call' = "none" /\ state' = "READY_FOR_INPUT"
    /\ SendNothing /\ shown' = "nothing"
    /\ UNCHANGED <<fsmVars, waiting_for_reply, buffer>>

-----------------------------------------------------------------------------
(* process_user_input                                                      *)

\* Mutant: the client does not end with its BYE.
UserExitReady ==
    /\ Send(<<"BYE">>)
    /\ state' = "READY_FOR_INPUT" /\ shown' = "nothing"
    /\ UNCHANGED <<fsmVars, waiting_for_reply, buffer, call>>

UserExit ==
    /\ Send(<<"BYE">>)
    /\ state' = "OVER" /\ shown' = "nothing"
    /\ UNCHANGED <<fsmVars, waiting_for_reply, buffer, call>>

\* Nothing is sent; the line is answered on the terminal.
Answer(what) ==
    /\ SendNothing /\ shown' = what
    /\ state' = "READY_FOR_INPUT"
    /\ UNCHANGED waiting_for_reply

\* Mutant: the flag is raised for an AUTH only.
SendRequestUnflagged(type) ==
    /\ Send(<<type>>) /\ shown' = "nothing"
    /\ IF type = "MSG"
       THEN state' = "READY_FOR_INPUT" /\ UNCHANGED waiting_for_reply
       ELSE state' = "WAITING_FOR_REPLY" /\ waiting_for_reply' = (type = "AUTH" \/ waiting_for_reply)

SendRequest(type) ==
    /\ Send(<<type>>) /\ shown' = "nothing"
    /\ IF type = "MSG"
       THEN state' = "READY_FOR_INPUT" /\ UNCHANGED waiting_for_reply
       ELSE state' = "WAITING_FOR_REPLY" /\ waiting_for_reply' = TRUE

\* Mutant: the FSM is told of the command but not obeyed.
RequestUnrefused(line, action, type) ==
    /\ ValidateAction(action)
    /\ IF line.valid THEN SendRequest(type) ELSE Answer("internal")

\* The FSM is asked, and moves, before the arguments are looked at.
Request(line, action, type) ==
    /\ ValidateAction(action)
    /\ \/ Reaction(action) = "ANY" /\ line.valid /\ SendRequest(type)
       \/ Reaction(action) = "ANY" /\ ~line.valid /\ Answer("internal")
       \/ Reaction(action) = "WARN_CLIENT" /\ Answer("internal")

\* Falls off the end of the function when the new name is accepted.
Rename(line) ==
    /\ \/ ~line.valid /\ Answer("internal")
       \/ /\ line.valid
          /\ SendNothing /\ shown' = "nothing"
          /\ state' \in JunkReturns
          /\ UNCHANGED waiting_for_reply
    /\ UNCHANGED fsmVars

UserCommand(line) ==
    /\ \/ line.cmd = "/AUTH" /\ Request(line, "AUTHORIZE_USER", "AUTH")
       \/ line.cmd = "/JOIN" /\ Request(line, "JOIN_USER", "JOIN")
       \/ line.cmd = "TEXT"  /\ Request(line, "MESSAGE_USER", "MSG")
       \/ line.cmd = "/RENAME" /\ Rename(line)
       \/ line.cmd = "/HELP"   /\ Answer("help") /\ UNCHANGED fsmVars
       \/ line.cmd = "/OTHER"  /\ Answer("internal") /\ UNCHANGED fsmVars
    /\ UNCHANGED <<buffer, call>>

\* Not used in the TCP protocol: does nothing.
Resend == sent' = <<>> /\ shown' = "nothing" /\ UNCHANGED <<fsmVars, tcpVars>>

=============================================================================
