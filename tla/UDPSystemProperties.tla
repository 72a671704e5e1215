------------------------ MODULE UDPSystemProperties ------------------------
(***************************************************************************)
(* What the UDP client and a server that keeps to the protocol achieve     *)
(* together over a network that loses, duplicates and reorders; and what   *)
(* the documentation says of it that the code does not keep.               *)
(***************************************************************************)
EXTENDS UDPSystem

Heard(id)     == id \in Sent /\ answer[id] # "unheard"
Confirmed(id) == \E d \in toServer : d.dgram = Confirm(id)
GaveUp        == state = "OVER" /\ retry_count = 0

(* A wait that ends without giving up ends because the server has heard the *)
(* very message that was being retransmitted: no duplicated, late or        *)
(* reordered CONFIRM is taken for another one's.                            *)
ConfirmedIsHeard ==
    [][waiting_for_confirmation /\ ~waiting_for_confirmation' => Heard(last_message.id)]_sysVars

(* A MSG the client has confirmed has been shown to the user: the server    *)
(* does not stop repeating what nobody has read.                            *)
ConfirmedIsShown ==
    \A m \in toClient : m.type = "MSG" /\ Confirmed(m.id) => m.id \in displayed

(* No MSG is shown twice, and no request's outcome is, however often the    *)
(* network repeats it and whatever was received in between.                 *)
ShownOnce ==
    [][/\ shown # "message" /\ shown' = "message" => displayed' # displayed
       /\ shown \notin {"success", "failure"} /\ shown' \in {"success", "failure"} =>
            told' # told]_sysVars

(* What the user is told is the server's decision on the request the user   *)
(* is waiting for, not on an earlier one.                                   *)
ToldTheTruth ==
    [][shown' # shown /\ shown' \in {"success", "failure"} =>
         /\ awaited_reply_id \in Sent
         /\ answer[awaited_reply_id] = (IF shown' = "success" THEN "OK" ELSE "NOK")]_sysVars

(* Nobody waits in silence for an outcome the server takes for delivered:  *)
(* a REPLY that is confirmed and never shown answers a request the user has *)
(* replaced by a later one, or the client reports an error over it, now or  *)
(* as soon as it may (a repeated negative REPLY can gate the FSM again, and *)
(* the REPLY that is awaited is then refused).                              *)
Replaced(ref) ==
    \E d \in toServer : d.dgram.type \in Requests /\ d.dgram.id > ref
ReportsError ==
    error_while_waiting \/ \E d \in toServer : d.dgram.type = "ERR"

NoReplyLostInSilence ==
    \A m \in toClient : m.type = "REPLY" /\ Confirmed(m.id) /\ m.ref \notin told =>
        Replaced(m.ref) \/ ReportsError

(* A client that has ended without giving up leaves no session behind: the  *)
(* server has heard its BYE, or has ended the session itself.               *)
EndsTogether == pc = "done" /\ ~GaveUp => closed

-----------------------------------------------------------------------------
(* README.md, UDP: "if the message has been received, it will not be        *)
(* processed again, only confirmed".                                        *)
Known(m) == m.type \in {"REPLY", "MSG", "ERR", "BYE"} /\ Confirmed(m.id)

DuplicatesOnlyConfirmed ==
    [][\A m \in toClient :
         Known(m) /\ Deliver(m) => sent' = <<Confirm(m.id)>> /\ shown' = "nothing"]_sysVars

=============================================================================
