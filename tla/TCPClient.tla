----------------------------- MODULE TCPClient -----------------------------
(***************************************************************************)
(* The TCP client: the event loop driving the TCP handler, in an open      *)
(* environment: any lines of the server in any segments, any line of the   *)
(* user while stdin is polled, and SIGINT at any step.                     *)
(***************************************************************************)
EXTENDS StreamHandler, TCPProtocolHandler

CONSTANT MaxBuffered    \* bound: complete messages the static buffer may hold

ASSUME BufferAssumption == MaxBuffered \in Nat \ {0}

(* History of the session.                                                 *)
VARIABLES
    grant,        \* "none", "asked" (the user typed /auth) or "given" (and a
                  \* positive REPLY came after that)
    farewell,     \* a BYE was sent or received, or the server closed
    undefined     \* a call of the handler fell off its end

history == <<grant, farewell, undefined>>
vars    == <<state, loopVars, fsmVars, tcpVars, outVars, history>>

Init ==
    /\ LoopInit /\ TCPInit
    /\ grant = "none" /\ farewell = FALSE /\ undefined = FALSE

TypeOK ==
    /\ state \in Returned
    /\ LoopTypeOK /\ FSMTypeOK /\ TCPTypeOK
    /\ grant \in {"none", "asked", "given"}
    /\ farewell \in BOOLEAN /\ undefined \in BOOLEAN

-----------------------------------------------------------------------------
SaysBye == farewell' = (farewell \/ \E i \in DOMAIN sent' : sent'[i] = "BYE")

Idle == UNCHANGED <<fsmVars, tcpVars, history>>

\* The loop goes on only where no call of the handler is running.
Running == ~exited /\ call = "none"

LoopRound == Running /\ EnterPoll /\ sent' = <<>> /\ shown' = "nothing" /\ Idle
LoopEnd   == Running /\ Close /\ UNCHANGED outVars /\ Idle
Interrupt == ~exited /\ Signal /\ UNCHANGED outVars /\ Idle

\* Only a state made up by a call without a return value gets here.
Retransmit == Running /\ Retry /\ Resend /\ UNCHANGED history
Exhausted  == Running /\ GiveUp /\ UNCHANGED outVars /\ Idle

\* The call made when poll finds the socket readable: its recv is the loop's
\* step, and a recv after one that failed happens with the loop at "top".
AtRecv ==
    \/ Running /\ TakeSocket /\ UNCHANGED retry_count
    \/ ~exited /\ call = "recv" /\ UNCHANGED loopVars

Receive ==
    \E n \in 0 .. MaxBuffered - Len(buffer) : \E msgs \in [1 .. n -> Messages] :
        AtRecv /\ ReceiveData(msgs) /\ UNCHANGED history

RecvError == AtRecv /\ ReceiveFails /\ UNCHANGED history

\* The call returns at its recv or at one of its messages; then the loop
\* restores the retries.
AfterCall ==
    /\ IF call' = "none" THEN RestoreRetries ELSE UNCHANGED retry_count
    /\ UNCHANGED <<pc, signalVars>>

RecvClosed ==
    /\ \/ Running /\ TakeSocket
       \/ ~exited /\ call = "recv" /\ UNCHANGED <<pc, signalVars>>
    /\ ReceiveClosed /\ RestoreRetries
    /\ farewell' = TRUE
    /\ UNCHANGED <<grant, undefined>>

Handle ==
    LET m == Head(buffer) IN
    /\ ~exited /\ ProcessNext /\ AfterCall
    /\ farewell' = (farewell \/ m.type = "BYE" \/ \E i \in DOMAIN sent' : sent'[i] = "BYE")
    /\ grant' = IF m.type = "REPLY" /\ m.status = "OK" /\ grant = "asked" THEN "given" ELSE grant
    /\ undefined' = (undefined \/ (m.type = "REPLY" /\ m.status = "OTHER"))

HandleDone == ~exited /\ Drained /\ AfterCall /\ UNCHANGED history

ExitOnSignal == Running /\ TakeInterrupt /\ UserExit /\ SaysBye /\ UNCHANGED <<grant, undefined>>
ExitLine     == Running /\ TakeLine /\ UserExit /\ SaysBye /\ UNCHANGED <<grant, undefined>>
BlankLine    == Running /\ EmptyLine /\ UNCHANGED outVars /\ Idle

Command(l) ==
    /\ Running /\ TakeLine /\ UserCommand(l)
    /\ grant' = IF l.cmd = "/AUTH" /\ grant = "none" THEN "asked" ELSE grant
    /\ undefined' = (undefined \/ (l.cmd = "/RENAME" /\ l.valid))
    /\ UNCHANGED farewell

\* PollFails cannot happen: the first interrupt is answered by OVER.
Loop   == LoopRound \/ LoopEnd \/ Retransmit \/ Exhausted \/ ExitOnSignal
          \/ Handle \/ HandleDone
Server == Receive \/ RecvError \/ RecvClosed
User   == ExitLine \/ BlankLine \/ Interrupt \/ \E l \in Lines : Command(l)

Finished == (exited \/ pc \in Ended) /\ UNCHANGED vars

Next == Loop \/ Server \/ User \/ Finished

Spec == Init /\ [][Next]_vars

(* What the code brings about by itself: its own steps, and poll returning  *)
(* because it was given a timeout or because the signal interrupted it.    *)
Woken == (eintr \/ state = "WAITING_FOR_CONFIRMATION") /\ ExitOnSignal

Fairness ==
    /\ WF_vars(LoopRound) /\ WF_vars(LoopEnd) /\ WF_vars(Handle) /\ WF_vars(HandleDone)
    /\ WF_vars(Retransmit) /\ WF_vars(Exhausted) /\ WF_vars(Woken)

FairSpec == Spec /\ Fairness

=============================================================================
