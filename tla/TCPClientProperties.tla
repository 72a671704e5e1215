------------------------ MODULE TCPClientProperties ------------------------
(***************************************************************************)
(* What the TCP client promises, however the server's stream is cut and    *)
(* whatever it says; and what the source says that the code does not keep. *)
(***************************************************************************)
EXTENDS TCPClient

Alive == ~exited /\ state # "OVER"

(* As long as the client goes on, no call the TCP handler makes to          *)
(* validate_action falls off its end or returns a reaction the handler has  *)
(* no branch for: what takes the FSM to ERROR or END also ends the client,  *)
(* with messages left to process or not.                                    *)
FsmAlwaysAnswers ==
    /\ Alive => \A a \in TCPOffered :
         Reaction(a) \in {"ANY", IF a \in UserActions THEN "WARN_CLIENT" ELSE "ERROR_USER"}
    /\ Gated => previousState # "UNINIT"

(* The session is open, and a JOIN or MSG leaves, only if the user typed    *)
(* /auth and the server then sent a positive REPLY: no order of refused     *)
(* commands, gated actions and restored states opens it.                    *)
OpenOnlyIfGranted ==
    /\ currentState = "OPEN" \/ (Gated /\ previousState = "OPEN") => grant = "given"
    /\ \A i \in DOMAIN sent : sent[i] \in {"JOIN", "MSG"} => grant = "given"

(* Until a call falls off its end, the loop refuses stdin for a reply only  *)
(* while the handler will take one: the loop's state, set by the AUTH or    *)
(* JOIN and set again by every MSG in between, does not outlive the flag.   *)
BlockedOnlyForReply ==
    state = "WAITING_FOR_REPLY" /\ call = "none" /\ ~undefined => waiting_for_reply

(* A complete message stays in the static buffer after the call only behind *)
(* a MSG that came while a reply was awaited.                              *)
LeftOnlyWhileWaiting ==
    Alive /\ call = "none" /\ buffer # <<>> /\ ~undefined =>
        /\ state = "WAITING_FOR_REPLY"
        /\ waiting_for_reply

(* Unless a call has fallen off its end, the client does not close the      *)
(* connection without a BYE from one side, or the server having closed it.  *)
FarewellBeforeClose ==
    pc = "done" /\ ~undefined => farewell

(* A SIGINT that arrives inside poll ends the client.                       *)
InterruptedPollEnds == eintr ~> (exited \/ pc \in Ended)

-----------------------------------------------------------------------------
(* What the client implements.                                              *)

Session == INSTANCE ChatSession WITH
    access  <- grant,
    leaving <- IF Alive THEN "no" ELSE "yes",
    said    <- {sent[i] : i \in DOMAIN sent}

(* The client takes part in a chat session as both clients promise to.      *)
KeepsSession == Session!Spec

-----------------------------------------------------------------------------
(* What the repository says and the code does not do.                       *)

(* TCPProtocolHandler.cpp, process_server_message: "Process all complete    *)
(* messages in the buffer".                                                *)
AllCompleteMessagesProcessed ==
    Alive /\ call = "none" /\ ~undefined => buffer = <<>>

=============================================================================
