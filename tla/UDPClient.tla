----------------------------- MODULE UDPClient -----------------------------
(***************************************************************************)
(* The UDP client: the event loop driving the UDP handler, in an open      *)
(* environment.  Any datagram may arrive at any time (so loss, duplication *)
(* and reordering by the network, and any server, are included), any line  *)
(* may be typed while stdin is polled, and SIGINT may come at any step.    *)
(***************************************************************************)
EXTENDS StreamHandler, UDPProtocolHandler

(* History of the session, fed only by what comes in, is sent and printed.  *)
VARIABLES
    resends,       \* retransmissions of last_message, saturating above Retrans
    grant,         \* "none", "asked" (the user typed /auth) or "given" (and a
                   \* valid positive REPLY came after that)
    acked          \* the MessageID in the CONFIRM the last step received, if any

history == <<resends, grant>>
vars    == <<state, loopVars, fsmVars, udpVars, outVars, history, acked>>

Init ==
    /\ LoopInit /\ UDPInit
    /\ resends = 0 /\ grant = "none" /\ acked = {}

TypeOK ==
    /\ state \in Returned
    /\ LoopTypeOK /\ FSMTypeOK /\ UDPTypeOK
    /\ resends \in 0 .. Retrans + 1
    /\ grant \in {"none", "asked", "given"}
    /\ acked \subseteq Ids

-----------------------------------------------------------------------------
\* A datagram other than a CONFIRM is sent for the first time in this step.
SendsNew == renamer3000' # renamer3000

\* Kept by every step that calls the handler (but for a retransmission).
Track == resends' = IF SendsNew THEN 0 ELSE resends

Grants(m) == m.type = "REPLY" /\ m.form = "valid" /\ m.status = "OK"

\* No CONFIRM is received in this step.
NoAck == acked' = {}

Idle == NoAck /\ UNCHANGED <<fsmVars, udpVars, history>>

\* The outputs of the last call are forgotten when the loop goes round.
LoopRound   == EnterPoll /\ sent' = <<>> /\ shown' = "nothing" /\ Idle
LoopEnd     == Close /\ UNCHANGED outVars /\ Idle
Interrupt   == Signal /\ UNCHANGED outVars /\ Idle
SecondInt   == PollFails /\ UNCHANGED outVars /\ Idle

Retransmit ==
    /\ Retry /\ Resend /\ NoAck
    /\ resends' = IF resends > Retrans THEN resends ELSE resends + 1
    /\ UNCHANGED grant

Exhausted == GiveUp /\ UNCHANGED outVars /\ Idle

Receive(m, port) ==
    /\ TakeSocket /\ ProcessServerMessage(m, port) /\ RestoreRetries
    /\ Track
    /\ grant' = IF Grants(m) /\ grant = "asked" THEN "given" ELSE grant
    /\ acked' = IF m.type = "CONFIRM" THEN {m.id} ELSE {}

\* A call of the handler that neither asks for access nor is told of it.
Plain == Track /\ NoAck /\ UNCHANGED grant

RecvError == TakeSocket /\ ReceiveFails /\ RestoreRetries /\ Plain

ExitOnSignal == TakeInterrupt /\ UserExit /\ Plain
ExitLine     == TakeLine /\ UserExit /\ Plain
ErrorLine    == TakeLine /\ FlushError /\ Plain
BlankLine    == EmptyLine /\ UNCHANGED outVars /\ Idle

Command(l) ==
    /\ TakeLine /\ UserCommand(l) /\ Track /\ NoAck
    /\ grant' = IF l.cmd = "/AUTH" /\ grant = "none" THEN "asked" ELSE grant

Loop   == LoopRound \/ LoopEnd \/ SecondInt \/ Retransmit \/ Exhausted \/ ExitOnSignal
Server == RecvError \/ \E m \in Datagrams, port \in Ports : Receive(m, port)
User   == ExitLine \/ ErrorLine \/ BlankLine \/ Interrupt \/ \E l \in Lines : Command(l)

Finished == pc \in Ended /\ UNCHANGED vars

Next == Loop \/ Server \/ User \/ Finished

Spec == Init /\ [][Next]_vars

(* Only what the code brings about by itself is fair: its own steps, poll  *)
(* returning when it was given a timeout, and poll returning because the   *)
(* signal interrupted it.  A datagram, a line and SIGINT need never come.  *)
Woken == (eintr \/ state = "WAITING_FOR_CONFIRMATION") /\ ExitOnSignal

Fairness ==
    /\ WF_vars(LoopRound) /\ WF_vars(LoopEnd)
    /\ WF_vars(Retransmit) /\ WF_vars(Exhausted)
    /\ WF_vars(SecondInt) /\ WF_vars(Woken)

FairSpec == Spec /\ Fairness

=============================================================================
