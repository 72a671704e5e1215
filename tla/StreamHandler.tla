--------------------------- MODULE StreamHandler ---------------------------
(***************************************************************************)
(* The event loop: StreamHandler::run_event_loop, with the SIGINT handler  *)
(* of interruptSignal.cpp that may run between any two of its steps.  One  *)
(* iteration is a step at "top" (is the client over? which descriptors are *)
(* polled, with what timeout?) and a step at "poll" (poll returns and one  *)
(* event is handled).  The steps at "poll" are conjoined with the call of  *)
(* the protocol handler they make, which assigns state'.                   *)
(***************************************************************************)
EXTENDS ProtocolHandler, Naturals

CONSTANT Retrans    \* max_udp_retransmissions, a uint8_t (-r)

ASSUME RetransAssumption == Retrans \in 0 .. 255

VARIABLES
    pc,                        \* "top", "poll", "done" (returned) or "failed" (exit)
    retry_count,
    interrupted,               \* the atomic flag signal_handler sets
    first_time_interrupted,
    eintr                      \* the signal arrived inside poll: it returns -1

loopVars   == <<pc, retry_count, interrupted, first_time_interrupted, eintr>>
signalVars == <<interrupted, first_time_interrupted, eintr>>

Ended == {"done", "failed"}

LoopTypeOK ==
    /\ pc \in {"top", "poll"} \cup Ended
    /\ retry_count \in 0 .. Retrans
    /\ interrupted \in BOOLEAN /\ first_time_interrupted \in BOOLEAN
    /\ eintr \in BOOLEAN

LoopInit ==
    /\ pc = "top"
    /\ state = "READY_FOR_INPUT"
    /\ retry_count = Retrans
    /\ interrupted = FALSE /\ first_time_interrupted = TRUE
    /\ eintr = FALSE

\* The socket is polled always, stdin (nfds = 2) only in these states.
StdinPolled == state \notin {"WAITING_FOR_CONFIRMATION", "WAITING_FOR_REPLY"}

-----------------------------------------------------------------------------
Close ==
    /\ pc = "top" /\ state = "OVER"
    /\ pc' = "done"
    /\ UNCHANGED <<state, retry_count, signalVars>>

EnterPoll ==
    /\ pc = "top" /\ state # "OVER"
    /\ pc' = "poll"
    /\ UNCHANGED <<state, retry_count, signalVars>>

\* SIGINT.  Inside poll it makes the call return -1, unless an event is
\* ready at that moment and poll returns the event; at "top" it only sets
\* the flag, which nobody reads before poll has returned.
Signal ==
    /\ pc \notin Ended
    /\ interrupted' = TRUE
    /\ IF pc = "poll" THEN eintr' \in {eintr, TRUE} ELSE UNCHANGED eintr
    /\ UNCHANGED <<pc, state, retry_count, first_time_interrupted>>

\* poll has returned and the interrupt is yet to be turned into /exit.
ExitPending == interrupted /\ first_time_interrupted

\* Conjoined with process_user_input("/exit").
TakeInterrupt ==
    /\ pc = "poll" /\ ExitPending
    /\ first_time_interrupted' = FALSE /\ eintr' = FALSE
    /\ pc' = "top"
    /\ UNCHANGED <<retry_count, interrupted>>

\* A later SIGINT inside poll: n_events = -1 and the process exits.
PollFails ==
    /\ pc = "poll" /\ eintr /\ ~first_time_interrupted
    /\ pc' = "failed"
    /\ UNCHANGED <<state, retry_count, signalVars>>

AtEvent ==
    /\ pc = "poll" /\ ~eintr /\ ~ExitPending
    /\ pc' = "top"
    /\ UNCHANGED signalVars

\* Mutants: the retries left are not looked at; the retry is not counted.
RetryUnlimited ==
    /\ AtEvent
    /\ state = "WAITING_FOR_CONFIRMATION"
    /\ retry_count' = retry_count - 1
    /\ UNCHANGED state

RetryForever ==
    /\ AtEvent
    /\ state = "WAITING_FOR_CONFIRMATION" /\ retry_count > 0
    /\ UNCHANGED <<state, retry_count>>

\* n_events = 0 with retries left; conjoined with resend_last_message().
Retry ==
    /\ AtEvent
    /\ state = "WAITING_FOR_CONFIRMATION" /\ retry_count > 0
    /\ retry_count' = retry_count - 1
    /\ UNCHANGED state

GiveUp ==
    /\ AtEvent
    /\ state = "WAITING_FOR_CONFIRMATION" /\ retry_count = 0
    /\ state' = "OVER"
    /\ UNCHANGED retry_count

\* The socket is readable; conjoined with process_server_message(), after
\* which the retries are restored unless a confirmation is still awaited.
TakeSocket == AtEvent

\* Mutant: any message of the server restores the retries.
RestoreOnAnyMessage == retry_count' = Retrans

RestoreRetries ==
    retry_count' = IF state' = "WAITING_FOR_CONFIRMATION" THEN retry_count ELSE Retrans

\* stdin is readable; conjoined with process_user_input(line), where end of
\* file is the line /exit.  An empty line is read and dropped.
TakeLine ==
    /\ AtEvent /\ StdinPolled
    /\ UNCHANGED retry_count

EmptyLine == TakeLine /\ UNCHANGED state

=============================================================================
