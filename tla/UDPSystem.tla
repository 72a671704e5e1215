----------------------------- MODULE UDPSystem -----------------------------
(***************************************************************************)
(* The UDP client together with the network and a server that keeps to the *)
(* protocol.  The network is the set of all datagrams ever sent in either  *)
(* direction: a datagram may arrive in any order, any number of times, or  *)
(* never, and a retransmission by either side adds nothing to it.  The     *)
(* server hears every message of the client once, confirms it, answers an  *)
(* AUTH or JOIN with one REPLY, and may send a MSG, an ERR or a BYE of its *)
(* own.  At the port given by -p it takes an AUTH or a CONFIRM, at the     *)
(* session's port everything.  What it sends comes from the session's      *)
(* port, but a CONFIRM of an AUTH, early or late, may come from the other; *)
(* every datagram takes the client's address with it, so a late CONFIRM    *)
(* can move the address back and what the client sends then is not heard.  *)
(*                                                                         *)
(* SIGINT and errors of recvfrom are left to UDPClient, where they meet    *)
(* every datagram; here /exit stands for the user leaving.                 *)
(***************************************************************************)
EXTENDS UDPClient

CONSTANTS
    SessionPort,    \* the port the session has at the server
    MaxSent,        \* bound: messages of the client, CONFIRMs not counted
    MaxServed       \* bound: messages of the server, CONFIRMs not counted

ASSUME SystemAssumption ==
    /\ SessionPort \in Ports \ {ServerPort}
    /\ MaxSent \in 1 .. IdMod - 2       \* the sentinel is not reached
    /\ MaxServed \in 1 .. IdMod
    /\ ServerIds = 0 .. MaxServed - 1

VARIABLES
    toServer, toClient,     \* the network, and what of it reaches the server
    answer,                 \* what became of each message of the client
    authorised, closed,     \* the server's session
    served                  \* the server's next MessageID

(* History: the MSGs shown to the user, and the requests whose outcome was. *)
VARIABLES displayed, told

serverVars == <<answer, authorised, closed, served>>
netVars    == <<toServer, toClient>>
seenVars   == <<displayed, told>>
sysVars    == <<vars, netVars, serverVars, seenVars>>

Sent    == 0 .. MaxSent - 1
Answers == {"unheard", "heard", "OK", "NOK"}

SystemInit ==
    /\ Init
    /\ toServer = {} /\ toClient = {}
    /\ answer = [id \in Sent |-> "unheard"]
    /\ authorised = FALSE /\ closed = FALSE /\ served = 0
    /\ displayed = {} /\ told = {}

SystemTypeOK ==
    /\ TypeOK
    /\ toServer \subseteq [dgram : Sendable, reached : BOOLEAN]
    /\ toClient \subseteq Datagrams
    /\ answer \in [Sent -> Answers]
    /\ authorised \in BOOLEAN /\ closed \in BOOLEAN
    /\ served \in 0 .. MaxServed
    /\ displayed \subseteq ServerIds /\ told \subseteq Sent

-----------------------------------------------------------------------------
(* The client's side.                                                      *)

\* What the port given by -p takes as well.
TakenAnywhere == {"AUTH", "CONFIRM"}

\* Every datagram leaves for the address the client has at that moment.
Posted(d) ==
    [dgram |-> d, reached |-> d.type \in TakenAnywhere \/ server_address' = SessionPort]

Post == toServer' = toServer \cup {Posted(sent'[i]) : i \in DOMAIN sent'}

ClientStep ==
    /\ \/ LoopRound \/ LoopEnd \/ Retransmit \/ Exhausted
       \/ ExitLine \/ ErrorLine \/ BlankLine
       \/ \E l \in Lines : Command(l)
    /\ renamer3000' <= MaxSent
    /\ Post
    /\ UNCHANGED <<toClient, serverVars, seenVars>>

\* The CONFIRM of an AUTH may come, and come late, from the port -p names.
Sources(m) ==
    {SessionPort} \cup
    {port \in {ServerPort} : m.type = "CONFIRM"
                             /\ \E d \in toServer : d.dgram = [type |-> "AUTH", id |-> m.id]}

Deliver(m) ==
    /\ m \in toClient
    /\ \E port \in Sources(m) : Receive(m, port)
    /\ renamer3000' <= MaxSent
    /\ Post
    /\ displayed' = IF shown' = "message" THEN displayed \cup {m.id} ELSE displayed
    /\ told' = IF shown' \in {"success", "failure"} THEN told \cup {m.ref} ELSE told
    /\ UNCHANGED <<toClient, serverVars>>

-----------------------------------------------------------------------------
(* The server's side.                                                      *)

Own(type) == [type |-> type, id |-> served, form |-> "valid"]

Reply(status, ref) ==
    [type |-> "REPLY", id |-> served, form |-> "valid", status |-> status, ref |-> ref]

\* A message of the client reaches the server for the first time.
Arrives(d) ==
    /\ d \in toServer /\ d.reached /\ ~closed
    /\ d.dgram.id \in Sent /\ answer[d.dgram.id] = "unheard"
    /\ UNCHANGED <<vars, toServer, seenVars>>

Take(d, outcome, says) ==
    /\ Arrives(d)
    /\ answer' = [answer EXCEPT ![d.dgram.id] = outcome]
    /\ toClient' = toClient \cup {Confirm(d.dgram.id)} \cup says
    /\ served' = served + (IF says = {} THEN 0 ELSE 1)
    /\ served' <= MaxServed

Decide(d) ==
    \E verdict \in {"OK", "NOK"} :
        /\ d.dgram.type \in {"AUTH", "JOIN"}
        /\ verdict = "OK" => (d.dgram.type = "AUTH") = ~authorised
        /\ Take(d, verdict, {Reply(verdict, d.dgram.id)})
        /\ authorised' = (authorised \/ verdict = "OK")
        /\ UNCHANGED closed

Hear(d) ==
    /\ d.dgram.type = "MSG" /\ Take(d, "heard", {})
    /\ UNCHANGED <<authorised, closed>>

\* The client leaves: with its BYE, which an ERR only announces.
Dismiss(d) ==
    /\ d.dgram.type \in {"BYE", "ERR"}
    /\ Take(d, "heard", {})
    /\ closed' = (d.dgram.type = "BYE")
    /\ UNCHANGED authorised

Speak(type) ==
    /\ ~closed /\ served < MaxServed
    /\ type = "MSG" => authorised
    /\ type # "MSG" => \E id \in Sent : answer[id] # "unheard"
    /\ toClient' = toClient \cup {Own(type)}
    /\ served' = served + 1
    /\ closed' = (type # "MSG")
    /\ UNCHANGED <<vars, toServer, answer, authorised, seenVars>>

ServerStep ==
    \/ \E d \in toServer : Decide(d) \/ Hear(d) \/ Dismiss(d)
    \/ \E type \in {"MSG", "ERR", "BYE"} : Speak(type)

SystemNext ==
    \/ ClientStep \/ ServerStep
    \/ \E m \in toClient : Deliver(m)
    \/ Finished /\ UNCHANGED sysVars

SystemSpec == SystemInit /\ [][SystemNext]_sysVars

=============================================================================
