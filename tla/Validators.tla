----------------------------- MODULE Validators -----------------------------
(***************************************************************************)
(* The two message validators side by side.  A client has one of them; the *)
(* same commands typed to both, and what each makes of the other side's    *)
(* messages, show whether they keep the same grammar.                      *)
(***************************************************************************)
EXTENDS Text

CONSTANTS
    Typed,      \* lines of the user that the FSM lets through to a validator
    Complaints, \* texts of the errors the handlers report
    Lines,      \* lines of a TCP server
    Payloads    \* what follows the head of a UDP datagram: NUL-terminated strings,
                \* and the bytes behind the last NUL

ASSUME InputAssumption ==
    /\ Typed \cup Complaints \cup Lines \subseteq Texts
    /\ Payloads \subseteq [fields : Seq(Texts), tail : Texts]

\* Each error the handlers report is a literal, short and printable.
ASSUME ComplaintAssumption ==
    \A error \in Complaints : SizeOf(error) \in 1 .. 1400 /\ Printable(error)

VARIABLES
    input,                  \* what is being handled, or nothing
    udpName, udpFormed,     \* displayName and result of each validator
    tcpName, tcpFormed,
    read,                   \* what is made of a message of the server
    protest                 \* the ERR the TCP handler makes of it without the validator

vars == <<input, udpName, udpFormed, tcpName, tcpFormed, read, protest>>
names == <<udpName, udpFormed, tcpName, tcpFormed>>

UDP == INSTANCE UDPMessageValidator WITH displayName <- udpName, formed <- udpFormed
TCP == INSTANCE TCPMessageValidator WITH displayName <- tcpName, formed <- tcpFormed

Kinds   == {"MSG", "ERR", "REPLY"}
Refusable == Kinds \cup {"BYE"}
Nothing == [from |-> "nobody"]
Idle    == input = Nothing

Inputs ==
    {Nothing} \cup [from : {"user"}, line : Typed] \cup [from : {"handler"}, line : Complaints]
    \cup [from : {"TCP"}, kind : Refusable, line : Lines]
    \cup [from : {"UDP"}, kind : Kinds, payload : Payloads]

Unread  == [user |-> Empty, content |-> Empty, form |-> "none"]
Refused == [Unread EXCEPT !.form = "refused"]     \* by the FSM, before it is parsed

Init ==
    /\ input = Nothing /\ read = Unread /\ protest = <<>>
    /\ UDP!ValidatorInit /\ TCP!ValidatorInit

\* The first word is the command; without a space it is the argument as well.
Command(line)  == Upper[line[1]]
Argument(line) == IF Len(line) = 1 THEN line ELSE Tail(line)

Auth(line) ==
    /\ Command(line) = "/AUTH"
    /\ UDP!Authorize(Argument(line)) /\ TCP!authorize_validate(Argument(line))

Join(line) ==
    /\ Command(line) = "/JOIN"
    /\ UDP!Join(Argument(line)) /\ TCP!join_validate(Argument(line))

Rename(line) ==
    /\ Command(line) = "/RENAME"
    /\ UDP!rename(Argument(line)) /\ TCP!rename(Argument(line))

Say(line) ==
    /\ Command(line) \notin {"/AUTH", "/JOIN", "/RENAME"}
    /\ UDP!message_validate(line) /\ TCP!message_validate(line)

Type(line) ==
    /\ Idle /\ input' = [from |-> "user", line |-> line]
    /\ Auth(line) \/ Join(line) \/ Rename(line) \/ Say(line)
    /\ UNCHANGED <<read, protest>>

\* A handler reports an error through its validator: every error over UDP,
\* and an unknown command over TCP.
Complain(error) ==
    /\ Idle /\ input' = [from |-> "handler", line |-> error]
    /\ UDP!form_error_message(error) /\ TCP!form_error_message(error)
    /\ UNCHANGED <<read, protest>>

\* The handler picks the parser by the first word, and REPLY's by the second.
Picks(line, kind) ==
    /\ Upper[line[1]] = kind
    /\ kind = "REPLY" => Len(line) > 1 /\ Upper[line[2]] \in {"OK", "NOK"}

\* What it does not accept it reports on its own: a MSG in the name of the user
\* that was read from it, anything else in the client's.
ErrorLine(user, error) == <<"ERR", "FROM">> \o user \o <<"IS">> \o error

Bearer == IF input.kind = "MSG" THEN read.user ELSE tcpName

\* Mutant: an ERR without the word before the name.
ProtestUnmarked ==
    \E error \in Complaints : protest' = <<"ERR">> \o Bearer' \o <<"IS">> \o error

Protest == \E error \in Complaints : protest' = ErrorLine(Bearer', error)

HearLine(line) ==
    /\ Idle
    /\ \E kind \in Kinds :
         /\ Picks(line, kind)
         /\ input' = [from |-> "TCP", kind |-> kind, line |-> line]
         /\ read' = IF kind = "MSG" THEN TCP!validate_message_server(line)
                    ELSE IF kind = "ERR" THEN TCP!validate_error_server(line)
                    ELSE TCP!validate_reply(line)
    /\ UNCHANGED names
    /\ IF read'.form = "invalid" THEN Protest ELSE UNCHANGED protest

\* The FSM refuses it: no user has been read from a MSG yet.
RefuseLine(line) ==
    /\ Idle
    /\ \E kind \in Refusable :
         Picks(line, kind) /\ input' = [from |-> "TCP", kind |-> kind, line |-> line]
    /\ read' = Refused
    /\ UNCHANGED names
    /\ Protest

\* The handler picks the type by the datagram's first byte.
HearDatagram(kind, payload) ==
    /\ Idle /\ input' = [from |-> "UDP", kind |-> kind, payload |-> payload]
    /\ read' = UDP!Read(payload, kind)
    /\ UNCHANGED <<names, protest>>

\* The handler has sent or shown the result.
Done ==
    /\ ~Idle /\ input' = Nothing /\ read' = Unread /\ protest' = <<>>
    /\ udpFormed' = [type |-> "none", fields |-> <<>>]
    /\ tcpFormed' = [type |-> "none", line |-> <<>>]
    /\ UNCHANGED <<udpName, tcpName>>

Next ==
    \/ \E line \in Typed : Type(line)
    \/ \E error \in Complaints : Complain(error)
    \/ \E line \in Lines : HearLine(line) \/ RefuseLine(line)
    \/ \E kind \in Kinds, payload \in Payloads : HearDatagram(kind, payload)
    \/ Done

Spec == Init /\ [][Next]_vars

-----------------------------------------------------------------------------

Names == {Empty} \cup {name \in Texts : SizeOf(name) <= 20 /\ Printable(name)}

TypeOK ==
    /\ input \in Inputs
    /\ udpName \in Texts /\ tcpName \in Texts /\ {udpName, tcpName} \subseteq Names
    /\ udpFormed.type \in {"none", "refused", "renamed", "AUTH", "JOIN", "MSG", "ERR"}
    /\ udpFormed.fields \in Seq(Texts) /\ tcpFormed.line \in Seq(Words)
    /\ read \in [user : Texts, content : Texts,
                form : {"none", "refused", "valid", "invalid", "truncated"}]
    /\ protest \in Seq(Words)

(* The two validators, written twice, accept the same commands, keep the    *)
(* same name and put the same strings into a message, each at its place.    *)
SameMessage ==
    LET fields == udpFormed.fields
        line   == tcpFormed.line
    IN  /\ udpName = tcpName
        /\ udpFormed.type = tcpFormed.type
        /\ udpFormed.type = "AUTH" =>
             line = <<"AUTH", fields[1][1], "AS", fields[2][1], "USING", fields[3][1]>>
        /\ udpFormed.type = "JOIN" => line = <<"JOIN", fields[1][1], "AS">> \o fields[2]
        /\ udpFormed.type \in {"MSG", "ERR"} =>
             line = <<udpFormed.type, "FROM">> \o fields[1] \o <<"IS">> \o fields[2]

(* What a client with a name sends, the same validator at the other end     *)
(* reads back as that name and that content, whatever words they are made   *)
(* of; over TCP if the name is one word, as the grammar has it.  An ERR the *)
(* TCP handler makes of a message it does not accept is read back in the    *)
(* name it bears, which for a MSG may be the sender's own; in the name of   *)
(* nobody, as it is for a MSG the FSM refuses, it cannot be read.           *)
ReadBack ==
    /\ \A kind \in {"MSG", "ERR"} :
        LET sent == [user |-> udpName, content |-> input.line, form |-> "valid"] IN
        /\ udpFormed.type = kind /\ udpName # Empty =>
             sent = UDP!ReadFields(udpFormed.fields, kind)
        /\ tcpFormed.type = kind /\ tcpName # Empty /\ Len(tcpName) = 1 =>
             sent = IF kind = "MSG" THEN TCP!validate_message_server(tcpFormed.line)
                    ELSE TCP!validate_error_server(tcpFormed.line)
    /\ protest # <<>> =>
        LET heard == TCP!validate_error_server(protest) IN
        IF Bearer = Empty THEN heard.form = "invalid"
        ELSE Len(Bearer) = 1 =>
               \E error \in Complaints : heard = [user |-> Bearer, content |-> error, form |-> "valid"]

\* Two lines that differ in the case of the words at those places only.
SameButCase(a, b, places) ==
    /\ Len(a) = Len(b)
    /\ \A i \in DOMAIN a : a[i] = b[i] \/ (i \in places /\ Upper[a[i]] = Upper[b[i]])

(* What is shown of a message of the server is what came: the user and the  *)
(* content make up the whole line over TCP, and over UDP all the strings    *)
(* that end in NUL, no more and no less.  What a datagram has behind the    *)
(* last NUL is neither shown nor objected to.                               *)
ShownIsWhatCame ==
    read.form = "valid" =>
        \/ /\ input.from = "UDP"
           /\ input.payload.fields =
                IF input.kind = "REPLY" THEN <<read.content>> ELSE <<read.user, read.content>>
        \/ /\ input.from = "TCP" /\ input.kind = "REPLY"
           /\ \E verdict \in {"OK", "NOK"} :
                SameButCase(input.line, <<"REPLY", verdict, "IS">> \o read.content, 1 .. 3)
        \/ /\ input.from = "TCP" /\ input.kind # "REPLY"
           /\ SameButCase(input.line,
                          <<input.kind, "FROM">> \o read.user \o <<"IS">> \o read.content,
                          {1, 2, 4})

\* process_server_message's buffer, of which recvfrom fills all but one byte.
BufferSize == 1499

(* A datagram of this client, passed on by the server, is read whole by any *)
(* other: the limits of the strings and the buffer's size fit together.     *)
FitsBuffer == udpFormed.type # "refused" => UDP!DatagramSize(udpFormed) <= BufferSize

(* The name changes with a command that is accepted, and to the name that   *)
(* the command's message carries; one that is refused leaves no trace.      *)
NameFollowsCommand ==
    [][/\ udpName' # udpName => udpFormed'.type \in {"AUTH", "renamed"}
       /\ udpFormed'.type = "AUTH" => udpFormed'.fields[2] = udpName'
       /\ tcpName' # tcpName => tcpFormed'.type \in {"AUTH", "renamed"}]_vars

=============================================================================
