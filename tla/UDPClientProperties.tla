------------------------ MODULE UDPClientProperties ------------------------
(***************************************************************************)
(* What the UDP client promises, whatever the server, the network, the     *)
(* user and the signals do; and what its documentation says of it that the *)
(* code does not keep.                                                     *)
(***************************************************************************)
EXTENDS UDPClient

Awaiting == waiting_for_confirmation

(* The datagram the loop would retransmit is the one whose CONFIRM the     *)
(* handler waits for: last_message, awaited_conirm_id and the flag are set *)
(* by nine separate pieces of code (five of them for BYE and ERR), and a   *)
(* wait for the wrong id could only end by giving up.                      *)
RetransmitsWhatItAwaits ==
    Awaiting => /\ last_message.type # "EMPTY"
                /\ last_message.id = awaited_conirm_id

(* While a CONFIRM is awaited the loop is in the state with the timeout and *)
(* with stdin left out of the poll: the handler's flag and the loop's local *)
(* variable, written by different classes, agree.                          *)
InputBlockedWhileUnconfirmed ==
    Awaiting => state \in {"WAITING_FOR_CONFIRMATION", "OVER"}

(* No call the UDP handler makes to validate_action falls off its end or    *)
(* returns a reaction the handler has no branch for, and previousState is   *)
(* never copied before it was assigned.                                    *)
FsmAlwaysAnswers ==
    /\ \A a \in UDPOffered :
         Reaction(a) \in {"ANY", IF a \in UserActions THEN "WARN_CLIENT" ELSE "ERROR_USER"}
    /\ Gated => previousState # "UNINIT"

(* Every AUTH, JOIN and MSG is retransmitted -r times, no more and no less, *)
(* before the session is given up: the retries left and the retries made    *)
(* account for the whole budget whatever arrives in between, and outside a  *)
(* wait the budget is full.                                                *)
FullRetryBudget ==
    /\ Awaiting /\ state # "OVER" =>
         /\ resends + retry_count <= Retrans
         /\ last_message.type \in Requests => resends + retry_count = Retrans
    /\ state \notin {"WAITING_FOR_CONFIRMATION", "OVER"} => retry_count = Retrans

(* The session is open, and a JOIN or MSG may leave, only if the user asked *)
(* for it and the server then sent a positive REPLY: no interleaving of     *)
(* refused commands, gated actions and restored states opens it.            *)
OpenOnlyIfGranted ==
    /\ currentState = "OPEN" \/ (Gated /\ previousState = "OPEN") => grant = "given"
    /\ Awaiting /\ last_message.type \in {"JOIN", "MSG"} => grant = "given"

(* A reported error is awaited like a request: as long as error_sent is up  *)
(* and no BYE has followed, the ERR is what is being retransmitted.         *)
ErrorIsAwaited ==
    error_sent /\ ~awaiting_over => Awaiting /\ last_message.type = "ERR"

(* Waiting for a confirmation ends: if from some time on nothing arrives    *)
(* from the server, the client resends until its retries are used up and    *)
(* then stops, unless it was not waiting for a confirmation any more.       *)
SilenceEndsTheWait ==
    <>[][~Server]_vars =>
        (state = "WAITING_FOR_CONFIRMATION"
           ~> (pc \in Ended \/ state \in ClientStates \ {"WAITING_FOR_CONFIRMATION", "OVER"}))

-----------------------------------------------------------------------------
(* What the client implements.                                              *)

\* What the last call said for the first time; a retransmission is not.
FirstSaid ==
    IF sent # <<>> /\ sent[Len(sent)] = last_message /\ resends = 0
    THEN {last_message.type} ELSE {}

Courier == INSTANCE StopAndWait WITH
    Messages <- [type : Requests \cup {"ERR", "BYE"}, id : Ids],
    Urgent   <- [type : {"ERR", "BYE"}, id : Ids],
    None     <- NoMessage,
    pending  <- IF Awaiting THEN last_message ELSE NoMessage,
    left     <- IF Awaiting THEN retry_count ELSE Retrans,
    over     <- state = "OVER",
    heard    <- {m \in Sendable : m.id \in acked}

\* An error is to be reported or has been, or the next CONFIRM ends the session.
OnTheWayOut ==
    \/ error_while_waiting \/ error_sent \/ state = "OVER"
    \/ awaiting_over /\ Awaiting

\* The BYE that answers the first copy of an ERR is not awaited.
Leaving == IF OnTheWayOut THEN "yes" ELSE IF awaiting_over THEN "parted" ELSE "no"

Session == INSTANCE ChatSession WITH
    access  <- grant,
    leaving <- Leaving,
    said    <- FirstSaid

(* The handler's flags, the id it awaits and the loop's retry counter, kept *)
(* by two classes, together deliver one message at a time by stop-and-wait: *)
(* no late, repeated or foreign CONFIRM, and no other datagram, line or     *)
(* signal, makes the client drop what it has sent.                          *)
DeliversByStopAndWait == Courier!Spec

(* The client takes part in a chat session as both clients promise to: once *)
(* it has an error to report, or a BYE whose CONFIRM it awaits, no request  *)
(* leaves any more; after the BYE for a server's ERR, which it does not     *)
(* await, at most one does, however the FSM was restored in between.        *)
KeepsSession == Session!Spec

-----------------------------------------------------------------------------
(* What the repository says and the code does not do; each has a run that   *)
(* TLC ends with a counterexample.                                         *)

(* README.md, -r: "Maximum number of UDP retransmissions".                  *)
AtMostRetransResends == resends <= Retrans

(* UDPProtocolHandler.cpp, send_error_message: an error that occurs while   *)
(* waiting is sent "after the confirmation".                               *)
ErrorFollowsConfirmation ==
    [][Awaiting /\ error_while_waiting /\ ~Awaiting' => state' = "OVER"]_vars

(* StreamHandler.cpp: "Check if the signal was interrupted, if so, send     *)
(* bye".                                                                   *)
InterruptSendsBye == interrupted ~> (awaiting_over \/ pc \in Ended)

=============================================================================
