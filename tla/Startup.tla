------------------------------ MODULE Startup ------------------------------
(***************************************************************************)
(* main before the event loop: Parser::parse one getopt option at a time,  *)
(* Config::Validate, connectToServer one address at a time, and the        *)
(* constructor of StreamHandler.  Resolver and socket calls may answer     *)
(* anything; atoi yields any of Numbers, of which the narrowing casts keep *)
(* the low bits.                                                           *)
(***************************************************************************)
EXTENDS Integers, Sequences

CONSTANTS
    Numbers,        \* what atoi may make of an option's argument
    MaxOptions,     \* bound: options on the command line
    MaxAddresses    \* bound: addresses a name resolves to

ASSUME StartupAssumption ==
    Numbers \subseteq Int /\ MaxOptions \in Nat /\ MaxAddresses \in Nat \ {0}

VARIABLES
    pc,          \* "parse", "validate", "resolve", "socket", "connect",
                 \* "construct", "run" or "exit"
    args,        \* the options given
    optind,      \* the next one
    config,
    servinfo,    \* the addresses still to try
    held,        \* the list of getaddrinfo is not freed yet
    sockfd,      \* the last socket: its type, and whether it is connected
    descriptors, \* how many sockets are open
    address,     \* server_address, what getServerAddress makes of the host
    handler      \* protocolHandler

vars == <<pc, args, optind, config, servinfo, held, sockfd, descriptors, address, handler>>

Protocols == {"tcp", "udp", "other", ""}
Hosts     == {"literal", "name", "unresolvable", ""}

Options ==
    [opt : {"t"}, arg : Protocols] \cup [opt : {"s"}, arg : Hosts]
    \cup [opt : {"p", "d", "r"}, arg : Numbers] \cup [opt : {"h", "?"}]

NoSocket == [type |-> "none", connected |-> FALSE]

\* The values of a uint16_t and of a uint8_t, and a cast to such a type.
U16 == 65536
U8  == 256
Narrow(n, limit) == n % limit

Configs ==
    [protocol : Protocols, server_ip : Hosts, server_port : 0 .. U16 - 1,
     udp_confirmation_timeout : 0 .. U16 - 1, max_udp_retransmissions : 0 .. U8 - 1]

TypeOK ==
    /\ pc \in {"parse", "validate", "resolve", "socket", "connect", "construct", "run", "exit"}
    /\ args \in Seq(Options) /\ optind \in 1 .. Len(args) + 1
    /\ config \in Configs
    /\ servinfo \in Seq({"literal", "name"}) /\ held \in BOOLEAN
    /\ sockfd \in [type : {"none", "SOCK_STREAM", "SOCK_DGRAM"}, connected : BOOLEAN]
    /\ descriptors \in Nat
    /\ address \in {"unset", "0.0.0.0", "literal"}
    /\ handler \in {"unset", "null", "tcp", "udp"}

\* The constructor of Config.
Defaults ==
    [protocol |-> "", server_ip |-> "", server_port |-> 4567,
     udp_confirmation_timeout |-> 250, max_udp_retransmissions |-> 3]

Init ==
    /\ pc = "parse"
    /\ args \in UNION {[1 .. n -> Options] : n \in 0 .. MaxOptions} /\ optind = 1
    /\ config = Defaults
    /\ servinfo = <<>> /\ held = FALSE /\ sockfd = NoSocket /\ descriptors = 0
    /\ address = "unset" /\ handler = "unset"

-----------------------------------------------------------------------------
(* Parser::parse                                                           *)

netVars == <<servinfo, held, sockfd, descriptors, address, handler>>

\* Mutants: a cast to the wrong width; the first value counts.
StoreNarrow(o) ==
    CASE o.opt = "t" -> [config EXCEPT !.protocol = o.arg]
      [] o.opt = "s" -> [config EXCEPT !.server_ip = o.arg]
      [] o.opt = "p" -> [config EXCEPT !.server_port = Narrow(o.arg, U8)]
      [] o.opt = "d" -> [config EXCEPT !.udp_confirmation_timeout = Narrow(o.arg, U16)]
      [] o.opt = "r" -> [config EXCEPT !.max_udp_retransmissions = Narrow(o.arg, U8)]

StoreWide(o) ==
    CASE o.opt = "t" -> [config EXCEPT !.protocol = o.arg]
      [] o.opt = "s" -> [config EXCEPT !.server_ip = o.arg]
      [] o.opt = "p" -> [config EXCEPT !.server_port = o.arg]
      [] o.opt = "d" -> [config EXCEPT !.udp_confirmation_timeout = o.arg]
      [] o.opt = "r" -> [config EXCEPT !.max_udp_retransmissions = o.arg]

Store(o) ==
    CASE o.opt = "t" -> [config EXCEPT !.protocol = o.arg]
      [] o.opt = "s" -> [config EXCEPT !.server_ip = o.arg]
      [] o.opt = "p" -> [config EXCEPT !.server_port = Narrow(o.arg, U16)]
      [] o.opt = "d" -> [config EXCEPT !.udp_confirmation_timeout = Narrow(o.arg, U16)]
      [] o.opt = "r" -> [config EXCEPT !.max_udp_retransmissions = Narrow(o.arg, U8)]

ParseOption ==
    /\ pc = "parse" /\ optind <= Len(args)
    /\ optind' = optind + 1
    /\ IF args[optind].opt \in {"h", "?"}       \* print_help, and default:
       THEN pc' = "exit" /\ UNCHANGED config
       ELSE pc' = "parse" /\ config' = Store(args[optind])
    /\ UNCHANGED <<args, netVars>>

ParseEnds ==
    /\ pc = "parse" /\ optind > Len(args)
    /\ pc' = "validate"
    /\ UNCHANGED <<args, optind, config, netVars>>

\* Mutant: any protocol passes.
ValidateHostOnly ==
    /\ pc = "validate"
    /\ pc' = IF config.server_ip = "" THEN "exit" ELSE "resolve"
    /\ UNCHANGED <<args, optind, config, netVars>>

\* Config::Validate: a missing protocol is reported and passes.
Validate ==
    /\ pc = "validate"
    /\ pc' = IF config.protocol = "other" \/ config.server_ip = "" THEN "exit" ELSE "resolve"
    /\ UNCHANGED <<args, optind, config, netVars>>

-----------------------------------------------------------------------------
(* connectToServer                                                         *)

Socktype == IF config.protocol = "tcp" THEN "SOCK_STREAM" ELSE "SOCK_DGRAM"

ResolveFails ==
    /\ pc = "resolve" /\ config.server_ip \in {"name", "unresolvable"}
    /\ pc' = "exit"
    /\ UNCHANGED <<args, optind, config, netVars>>

Resolve ==
    /\ pc = "resolve" /\ config.server_ip # "unresolvable"
    /\ \E n \in 1 .. (IF config.server_ip = "literal" THEN 1 ELSE MaxAddresses) :
         servinfo' = [i \in 1 .. n |-> config.server_ip]
    /\ held' = TRUE
    /\ pc' = "socket"
    /\ UNCHANGED <<args, optind, config, sockfd, descriptors, address, handler>>

\* freeaddrinfo; connectToServer returns sockfd, or -1 and main exits.
Leave(connected) ==
    /\ held' = FALSE
    /\ pc' = IF connected THEN "construct" ELSE "exit"

OpenSocket ==
    /\ pc = "socket" /\ servinfo # <<>>
    /\ sockfd' = [type |-> Socktype, connected |-> FALSE]
    /\ descriptors' = descriptors + 1
    /\ IF config.protocol = "udp" THEN Leave(TRUE) ELSE pc' = "connect" /\ UNCHANGED held
    /\ UNCHANGED <<args, optind, config, servinfo, address, handler>>

SocketFails ==
    /\ pc = "socket" /\ servinfo # <<>>
    /\ sockfd' = NoSocket
    /\ IF config.protocol = "udp" THEN Leave(FALSE) /\ UNCHANGED servinfo
       ELSE servinfo' = Tail(servinfo) /\ UNCHANGED <<pc, held>>
    /\ UNCHANGED <<args, optind, config, descriptors, address, handler>>

Connect ==
    /\ pc = "connect"
    /\ sockfd' = [sockfd EXCEPT !.connected = TRUE]
    /\ Leave(TRUE)
    /\ UNCHANGED <<args, optind, config, servinfo, descriptors, address, handler>>

\* Mutant: the socket that could not be connected is left open.
ConnectFailsOpen ==
    /\ pc = "connect"
    /\ servinfo' = Tail(servinfo) /\ pc' = "socket"
    /\ UNCHANGED <<args, optind, config, held, sockfd, descriptors, address, handler>>

ConnectFails ==
    /\ pc = "connect"
    /\ descriptors' = descriptors - 1
    /\ servinfo' = Tail(servinfo) /\ pc' = "socket"
    /\ UNCHANGED <<args, optind, config, held, sockfd, address, handler>>

NoAddressLeft ==
    /\ pc = "socket" /\ servinfo = <<>>
    /\ Leave(FALSE)
    /\ UNCHANGED <<args, optind, config, servinfo, sockfd, descriptors, address, handler>>

-----------------------------------------------------------------------------
(* getServerAddress and the constructor of StreamHandler.  inet_pton only  *)
(* understands a literal address; what it returns is not looked at.        *)

Construct ==
    /\ pc = "construct"
    /\ address' = IF config.server_ip = "literal" THEN "literal" ELSE "0.0.0.0"
    /\ handler' = IF config.protocol \in {"tcp", "udp"} THEN config.protocol ELSE "null"
    /\ pc' = "run"
    /\ UNCHANGED <<args, optind, config, servinfo, held, sockfd, descriptors>>

Finished == pc \in {"run", "exit"} /\ UNCHANGED vars

Next ==
    \/ ParseOption \/ ParseEnds \/ Validate
    \/ Resolve \/ ResolveFails \/ OpenSocket \/ SocketFails \/ Connect \/ ConnectFails
    \/ NoAddressLeft \/ Construct \/ Finished

Spec == Init /\ [][Next]_vars

-----------------------------------------------------------------------------
(* When -t is given the event loop has the handler that was asked for, and  *)
(* a handler has the socket it needs, though three classes decide on them   *)
(* by comparing -t with different names: a connected stream for TCP, an     *)
(* unconnected datagram socket for UDP.  What happens when -t is missing is *)
(* the business of ProtocolIsMandatory.                                     *)
HandlerFitsSocket ==
    pc = "run" =>
        /\ handler = "tcp" => sockfd = [type |-> "SOCK_STREAM", connected |-> TRUE]
        /\ handler = "udp" => sockfd = [type |-> "SOCK_DGRAM", connected |-> FALSE]
        /\ config.protocol # "" => handler = config.protocol

(* Whatever fails, the address list is given back and every socket closed   *)
(* but the one the event loop runs on.                                      *)
NothingLeaks ==
    pc \in {"construct", "run", "exit"} =>
        /\ ~held
        /\ descriptors = (IF pc = "exit" THEN 0 ELSE 1)

(* A number that fits its type is the one in effect if it was given last,   *)
(* and the default is if none was given.                                    *)
InEffect(opt, value, limit, default) ==
    LET given == {i \in DOMAIN args : args[i].opt = opt} IN
    IF given = {} THEN value = default
    ELSE LET last == args[CHOOSE i \in given : \A j \in given : j <= i].arg IN
         last \in 0 .. limit - 1 => value = last

OptionsTakeEffect ==
    pc \notin {"parse", "exit"} =>
        /\ InEffect("p", config.server_port, U16, Defaults.server_port)
        /\ InEffect("d", config.udp_confirmation_timeout, U16, Defaults.udp_confirmation_timeout)
        /\ InEffect("r", config.max_udp_retransmissions, U8, Defaults.max_udp_retransmissions)

(* README.md: "The arguments -t and -s are mandatory"; Config.cpp: "Protocol *)
(* is required".  Without a handler the event loop has nothing to call.     *)
ProtocolIsMandatory == pc = "run" => handler # "null"

=============================================================================
