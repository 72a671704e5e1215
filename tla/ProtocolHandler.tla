-------------------------- MODULE ProtocolHandler --------------------------
(***************************************************************************)
(* The interface between the event loop and a protocol handler: a handler  *)
(* call returns a ClientState, and the loop keeps it in its local variable *)
(* `state' until the next call.                                            *)
(***************************************************************************)

CONSTANT JunkReturns    \* what a call that falls off its end may return

VARIABLE state

ClientStates == {"WAITING_FOR_CONFIRMATION", "WAITING_FOR_REPLY",
                 "READY_FOR_INPUT", "OVER"}

\* process_user_input ends without a return statement after a successful
\* /rename: the caller reads whatever the register holds, one of the
\* enumerators or a value that is none of them.
NotAState == "NOT_A_STATE"
Returned  == ClientStates \cup {NotAState}

ASSUME JunkAssumption == JunkReturns \subseteq Returned

=============================================================================
