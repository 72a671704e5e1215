--------------------------- MODULE StartupProofs ---------------------------
(***************************************************************************)
(* The start-up's invariants, for every command line, every number atoi    *)
(* may return and every list of addresses.                                 *)
(***************************************************************************)
EXTENDS Startup, SequenceTheorems, TLAPS

\* What is open, and what it is, at each stage.
StageInv ==
    /\ pc \in {"parse", "validate", "resolve"} => ~held /\ descriptors = 0 /\ sockfd = NoSocket
    /\ pc = "socket" => held /\ descriptors = 0
    /\ pc = "connect" =>
         /\ held /\ descriptors = 1 /\ servinfo # <<>>
         /\ config.protocol # "udp" /\ sockfd = [type |-> Socktype, connected |-> FALSE]
    /\ pc \in {"construct", "run"} =>
         /\ ~held /\ descriptors = 1
         /\ sockfd = [type |-> Socktype, connected |-> config.protocol # "udp"]
    /\ pc = "exit" => ~held /\ descriptors = 0

\* The protocol and the host have been looked at; the protocol decides on the
\* handler.
ProtocolInv ==
    /\ pc = "resolve" => config.server_ip # ""
    /\ pc \in {"resolve", "socket", "connect", "construct", "run"} => config.protocol # "other"
    /\ pc = "run" =>
         handler = IF config.protocol \in {"tcp", "udp"} THEN config.protocol ELSE "null"

\* Of the options parsed so far the last one given is stored.
Given(opt) == {i \in 1 .. optind - 1 : args[i].opt = opt}

Stored(opt, value, limit, default) ==
    \/ Given(opt) = {} /\ value = default
    \/ \E i \in Given(opt) :
         (\A j \in Given(opt) : j <= i) /\ value = Narrow(args[i].arg, limit)

ParseInv ==
    /\ pc \notin {"parse", "exit"} => optind = Len(args) + 1
    /\ Stored("p", config.server_port, U16, Defaults.server_port)
    /\ Stored("d", config.udp_confirmation_timeout, U16, Defaults.udp_confirmation_timeout)
    /\ Stored("r", config.max_udp_retransmissions, U8, Defaults.max_udp_retransmissions)

IInv == TypeOK /\ StageInv /\ ProtocolInv /\ ParseInv

LEMMA InitIInv == Init => IInv
<1> SUFFICES ASSUME Init PROVE IInv
  OBVIOUS
<1>1. args \in Seq(Options) /\ Len(args) \in Nat
  <2>1. PICK n \in 0 .. MaxOptions : args \in [1 .. n -> Options]
    BY DEF Init
  <2>2. n \in Nat
    BY <2>1, StartupAssumption
  <2>3. args \in Seq(Options)
    BY <2>1, <2>2, SeqDef
  <2> QED  BY <2>3, LenProperties
<1>2. config \in Configs
  <2>1. Defaults \in Configs
    BY DEF Defaults, Configs, Protocols, Hosts, U16, U8
  <2> QED  BY <2>1 DEF Init
<1>3. TypeOK
  <2>1. <<>> \in Seq({"literal", "name"})
    OBVIOUS
  <2>2. NoSocket \in [type : {"none", "SOCK_STREAM", "SOCK_DGRAM"}, connected : BOOLEAN]
    BY DEF NoSocket
  <2>3. optind \in 1 .. Len(args) + 1
    BY <1>1 DEF Init
  <2> QED  BY <1>1, <1>2, <2>1, <2>2, <2>3 DEF Init, TypeOK
<1>4. StageInv /\ ProtocolInv
  BY DEF Init, StageInv, ProtocolInv
<1>5. ParseInv
  <2>1. Given("p") = {} /\ Given("d") = {} /\ Given("r") = {}
    BY DEF Init, Given
  <2> QED  BY <2>1 DEF ParseInv, Stored, Init
<1> QED  BY <1>3, <1>4, <1>5 DEF IInv

-----------------------------------------------------------------------------
(* Parsing one option.                                                      *)

LEMMA NarrowRange ==
    ASSUME NEW n \in Int, NEW limit \in {U16, U8}
    PROVE  /\ Narrow(n, limit) \in 0 .. limit - 1
           /\ n \in 0 .. limit - 1 => Narrow(n, limit) = n
<1>1. limit \in Nat \ {0}
  BY DEF U16, U8
<1> QED  BY <1>1 DEF Narrow

LEMMA StoreResult ==
    ASSUME config \in Configs, NEW o \in Options, o.opt \notin {"h", "?"}
    PROVE  /\ Store(o) \in Configs
           /\ Store(o).server_port =
                IF o.opt = "p" THEN Narrow(o.arg, U16) ELSE config.server_port
           /\ Store(o).udp_confirmation_timeout =
                IF o.opt = "d" THEN Narrow(o.arg, U16) ELSE config.udp_confirmation_timeout
           /\ Store(o).max_udp_retransmissions =
                IF o.opt = "r" THEN Narrow(o.arg, U8) ELSE config.max_udp_retransmissions
<1>1. CASE o.opt = "t"
  <2>1. o.arg \in Protocols
    BY <1>1 DEF Options
  <2> QED  BY <1>1, <2>1 DEF Store, Configs
<1>2. CASE o.opt = "s"
  <2>1. o.arg \in Hosts
    BY <1>2 DEF Options
  <2> QED  BY <1>2, <2>1 DEF Store, Configs
<1>3. CASE o.opt \in {"p", "d", "r"}
  <2>1. o.arg \in Int
    BY <1>3, StartupAssumption DEF Options
  <2>2. /\ Narrow(o.arg, U16) \in 0 .. U16 - 1
        /\ Narrow(o.arg, U8) \in 0 .. U8 - 1
    BY <2>1, NarrowRange
  <2> QED  BY <1>3, <2>2 DEF Store, Configs
<1>4. o.opt \in {"t", "s", "p", "d", "r"}
  BY DEF Options
<1> QED  BY <1>1, <1>2, <1>3, <1>4

\* The option just parsed is the last one given of its kind.
LEMMA StoredNext ==
    ASSUME TypeOK, optind <= Len(args), optind' = optind + 1, UNCHANGED args,
           NEW opt, NEW value, NEW value1, NEW limit, NEW default,
           Stored(opt, value, limit, default),
           value1 = IF args[optind].opt = opt THEN Narrow(args[optind].arg, limit) ELSE value
    PROVE  Stored(opt, value1, limit, default)'
<1>0. optind \in Nat /\ optind >= 1
  BY DEF TypeOK
<1>1. CASE args[optind].opt = opt
  <2>1. optind \in Given(opt)' /\ \A j \in Given(opt)' : j <= optind
    BY <1>0, <1>1 DEF Given
  <2> QED  BY <1>1, <2>1 DEF Stored
<1>2. CASE args[optind].opt # opt
  <2>1. Given(opt)' = Given(opt)
    BY <1>0, <1>2 DEF Given
  <2> QED  BY <1>2, <2>1 DEF Stored
<1> QED  BY <1>1, <1>2

LEMMA ParseStep ==
    ASSUME IInv, ParseOption
    PROVE  IInv'
<1> DEFINE o == args[optind]
<1>0. /\ optind \in 1 .. Len(args) /\ o \in Options /\ Len(args) \in Nat
      /\ TypeOK /\ ParseInv
  BY DEF IInv, TypeOK, ParseOption
<1>1. CASE o.opt \in {"h", "?"}
  <2>1. pc' = "exit" /\ UNCHANGED <<args, config, netVars>> /\ optind' = optind + 1
    BY <1>1 DEF ParseOption
  <2>2. TypeOK'
    BY <1>0, <2>1 DEF TypeOK, netVars
  <2>3. StageInv' /\ ProtocolInv'
    BY <2>1 DEF IInv, StageInv, ProtocolInv, netVars, ParseOption
  <2>4. ASSUME NEW opt \in {"p", "d", "r"}, NEW value, NEW limit, NEW default,
               Stored(opt, value, limit, default)
        PROVE  Stored(opt, value, limit, default)'
    BY <1>0, <1>1, <2>1, <2>4, StoredNext
  <2>5. ParseInv'
    BY <1>0, <2>1, <2>4 DEF ParseInv
  <2> QED  BY <2>2, <2>3, <2>5 DEF IInv
<1>2. CASE o.opt \notin {"h", "?"}
  <2>1. pc' = "parse" /\ config' = Store(o) /\ UNCHANGED <<args, netVars>> /\ optind' = optind + 1
    BY <1>2 DEF ParseOption
  <2>2. config' \in Configs
    BY <1>0, <1>2, <2>1, StoreResult DEF TypeOK
  <2>3. TypeOK'
    BY <1>0, <2>1, <2>2 DEF TypeOK, netVars
  <2>4. StageInv' /\ ProtocolInv'
    BY <2>1 DEF IInv, StageInv, ProtocolInv, netVars, ParseOption
  <2>5. /\ config'.server_port = IF o.opt = "p" THEN Narrow(o.arg, U16) ELSE config.server_port
        /\ config'.udp_confirmation_timeout =
             IF o.opt = "d" THEN Narrow(o.arg, U16) ELSE config.udp_confirmation_timeout
        /\ config'.max_udp_retransmissions =
             IF o.opt = "r" THEN Narrow(o.arg, U8) ELSE config.max_udp_retransmissions
    BY <1>0, <1>2, <2>1, StoreResult DEF TypeOK
  <2>6. Stored("p", config.server_port, U16, Defaults.server_port)'
    BY <1>0, <2>1, <2>5, StoredNext DEF ParseInv
  <2>7. Stored("d", config.udp_confirmation_timeout, U16, Defaults.udp_confirmation_timeout)'
    BY <1>0, <2>1, <2>5, StoredNext DEF ParseInv
  <2>8. Stored("r", config.max_udp_retransmissions, U8, Defaults.max_udp_retransmissions)'
    BY <1>0, <2>1, <2>5, StoredNext DEF ParseInv
  <2>9. ParseInv'
    BY <2>1, <2>6, <2>7, <2>8 DEF ParseInv
  <2> QED  BY <2>3, <2>4, <2>9 DEF IInv
<1> QED  BY <1>1, <1>2

-----------------------------------------------------------------------------
(* Validation, the sockets and the construction of the handler.             *)

\* What every step but ParseOption leaves alone, and the stages it links.
LEMMA OtherFrame ==
    ASSUME IInv, UNCHANGED <<args, optind, config>>,
           pc' \notin {"parse", "exit"} => pc \notin {"parse", "exit"} \/ optind = Len(args) + 1
    PROVE  ParseInv'
BY DEF IInv, ParseInv, Stored, Given

LEMMA BeforeSockets ==
    ASSUME IInv, ParseEnds \/ Validate \/ ResolveFails
    PROVE  IInv'
<1>0. TypeOK /\ StageInv /\ ProtocolInv /\ UNCHANGED <<args, optind, config, netVars>>
  BY DEF IInv, ParseEnds, Validate, ResolveFails
<1>1. /\ pc \in {"parse", "validate", "resolve"} /\ pc' \in {"validate", "resolve", "exit"}
      /\ pc' = "validate" => optind > Len(args)
      /\ pc' = "resolve" => config.protocol # "other" /\ config.server_ip # ""
      /\ pc' \notin {"parse", "exit"} => pc \notin {"parse", "exit"} \/ optind > Len(args)
  BY DEF ParseEnds, Validate, ResolveFails
<1>2. optind > Len(args) => optind = Len(args) + 1
  <2>1. optind \in Nat /\ Len(args) \in Nat /\ optind <= Len(args) + 1
    BY <1>0 DEF TypeOK
  <2> QED  BY <2>1
<1>3. TypeOK'
  BY <1>0, <1>1 DEF TypeOK, netVars
<1>4. StageInv' /\ ProtocolInv'
  BY <1>0, <1>1 DEF StageInv, ProtocolInv, netVars
<1> QED  BY <1>0, <1>1, <1>2, <1>3, <1>4, OtherFrame DEF IInv

LEMMA ResolveStep ==
    ASSUME IInv, Resolve
    PROVE  IInv'
<1>0. /\ TypeOK /\ StageInv /\ ProtocolInv /\ pc = "resolve" /\ pc' = "socket" /\ held' = TRUE
      /\ config.server_ip # "unresolvable"
      /\ UNCHANGED <<args, optind, config, sockfd, descriptors, address, handler>>
  BY DEF IInv, Resolve
<1>1. servinfo' \in Seq({"literal", "name"})
  <2>1. config.server_ip \in {"literal", "name"}
    <3>1. config.server_ip \in Hosts
      BY <1>0 DEF TypeOK, Configs
    <3> QED  BY <1>0, <3>1 DEF ProtocolInv, Hosts
  <2>2. PICK n \in Nat : servinfo' = [i \in 1 .. n |-> config.server_ip]
    BY StartupAssumption DEF Resolve
  <2>3. servinfo' \in [1 .. n -> {"literal", "name"}]
    BY <2>1, <2>2
  <2> QED  BY <2>3, SeqDef
<1>2. TypeOK'
  BY <1>0, <1>1 DEF TypeOK
<1>3. StageInv' /\ ProtocolInv'
  BY <1>0 DEF StageInv, ProtocolInv
<1> QED  BY <1>0, <1>2, <1>3, OtherFrame DEF IInv

LEMMA SocketStep ==
    ASSUME IInv, OpenSocket \/ SocketFails \/ NoAddressLeft
    PROVE  IInv'
<1>0. /\ TypeOK /\ StageInv /\ ProtocolInv /\ pc = "socket" /\ held /\ descriptors = 0
      /\ UNCHANGED <<args, optind, config, address, handler>>
  BY DEF IInv, StageInv, OpenSocket, SocketFails, NoAddressLeft
<1>1. CASE OpenSocket
  <2>0. descriptors' = 1
    BY <1>0, <1>1 DEF OpenSocket
  <2>1. /\ sockfd' = [type |-> Socktype, connected |-> FALSE]
        /\ servinfo # <<>> /\ servinfo' = servinfo
        /\ \/ config.protocol = "udp" /\ ~held' /\ held' \in BOOLEAN /\ pc' = "construct"
           \/ config.protocol # "udp" /\ held' = held /\ pc' = "connect"
    BY <1>1, Zenon DEF OpenSocket, Leave
  <2>2. TypeOK'
    BY <1>0, <2>0, <2>1 DEF TypeOK, Socktype
  <2>3. StageInv' /\ ProtocolInv'
    BY <1>0, <2>0, <2>1 DEF StageInv, ProtocolInv, Socktype
  <2> QED  BY <1>0, <2>2, <2>3, OtherFrame DEF IInv
<1>2. CASE SocketFails \/ NoAddressLeft
  <2>1. /\ descriptors' = descriptors /\ sockfd' \in {sockfd, NoSocket}
        /\ \/ pc' = "exit" /\ held' = FALSE /\ servinfo' = servinfo
           \/ pc' = "socket" /\ held' = held /\ servinfo # <<>> /\ servinfo' = Tail(servinfo)
    BY <1>0, <1>2 DEF SocketFails, NoAddressLeft, Leave
  <2>2. servinfo' \in Seq({"literal", "name"})
    <3>1. servinfo # <<>> => Tail(servinfo) \in Seq({"literal", "name"})
      BY <1>0 DEF TypeOK
    <3> QED  BY <1>0, <2>1, <3>1 DEF TypeOK
  <2>3. TypeOK'
    <3>1. sockfd' \in [type : {"none", "SOCK_STREAM", "SOCK_DGRAM"}, connected : BOOLEAN]
      <4>1. NoSocket \in [type : {"none", "SOCK_STREAM", "SOCK_DGRAM"}, connected : BOOLEAN]
        BY DEF NoSocket
      <4> QED  BY <1>0, <2>1, <4>1 DEF TypeOK
    <3> QED  BY <1>0, <2>1, <2>2, <3>1 DEF TypeOK
  <2>4. StageInv' /\ ProtocolInv'
    BY <1>0, <2>1 DEF StageInv, ProtocolInv
  <2> QED  BY <1>0, <2>3, <2>4, OtherFrame DEF IInv
<1> QED  BY <1>1, <1>2

LEMMA ConnectStep ==
    ASSUME IInv, Connect \/ ConnectFails
    PROVE  IInv'
<1>0. /\ TypeOK /\ ProtocolInv /\ pc = "connect" /\ held /\ descriptors = 1 /\ servinfo # <<>>
      /\ config.protocol # "udp" /\ sockfd = [type |-> Socktype, connected |-> FALSE]
      /\ UNCHANGED <<args, optind, config, address, handler>>
  BY DEF IInv, StageInv, Connect, ConnectFails
<1>1. CASE Connect
  <2>1. /\ sockfd' = [type |-> Socktype, connected |-> TRUE] /\ held' = FALSE
        /\ pc' = "construct" /\ UNCHANGED <<servinfo, descriptors>>
    BY <1>0, <1>1 DEF Connect, Leave
  <2>2. TypeOK'
    BY <1>0, <2>1 DEF TypeOK, Socktype
  <2>3. StageInv' /\ ProtocolInv'
    BY <1>0, <2>1 DEF StageInv, ProtocolInv, Socktype
  <2> QED  BY <1>0, <2>2, <2>3, OtherFrame DEF IInv
<1>2. CASE ConnectFails
  <2>1. /\ descriptors' = 0 /\ servinfo' = Tail(servinfo) /\ pc' = "socket"
        /\ UNCHANGED <<held, sockfd>>
    BY <1>0, <1>2 DEF ConnectFails
  <2>2. servinfo' \in Seq({"literal", "name"})
    BY <1>0, <2>1 DEF TypeOK
  <2>3. TypeOK'
    BY <1>0, <2>1, <2>2 DEF TypeOK
  <2>4. StageInv' /\ ProtocolInv'
    BY <1>0, <2>1 DEF StageInv, ProtocolInv
  <2> QED  BY <1>0, <2>3, <2>4, OtherFrame DEF IInv
<1> QED  BY <1>1, <1>2

LEMMA ConstructStep ==
    ASSUME IInv, Construct
    PROVE  IInv'
<1>0. /\ TypeOK /\ StageInv /\ ProtocolInv /\ pc = "construct" /\ pc' = "run"
      /\ address' \in {"literal", "0.0.0.0"}
      /\ handler' = IF config.protocol \in {"tcp", "udp"} THEN config.protocol ELSE "null"
      /\ UNCHANGED <<args, optind, config, servinfo, held, sockfd, descriptors>>
  BY DEF IInv, Construct
<1>1. TypeOK'
  BY <1>0 DEF TypeOK
<1>2. StageInv' /\ ProtocolInv'
  BY <1>0 DEF StageInv, ProtocolInv, Socktype
<1> QED  BY <1>0, <1>1, <1>2, OtherFrame DEF IInv

LEMMA NextIInv == IInv /\ [Next]_vars => IInv'
<1> SUFFICES ASSUME IInv, [Next]_vars PROVE IInv'
  OBVIOUS
<1>1. CASE UNCHANGED vars
  <2>1. TypeOK'
    BY <1>1 DEF vars, IInv, TypeOK
  <2>2. StageInv' /\ ProtocolInv'
    BY <1>1 DEF vars, IInv, StageInv, ProtocolInv, Socktype
  <2>3. ParseInv'
    BY <1>1, OtherFrame DEF vars, IInv, ParseInv
  <2> QED  BY <2>1, <2>2, <2>3 DEF IInv
<1>2. CASE Finished
  BY <1>1, <1>2 DEF Finished
<1> QED
  BY <1>1, <1>2, ParseStep, BeforeSockets, ResolveStep, SocketStep, ConnectStep, ConstructStep
  DEF Next

(* IInv holds throughout the start-up.                                      *)
THEOREM Invariance == Spec => []IInv
BY InitIInv, NextIInv, PTL DEF Spec

(* Every variable keeps its type; in particular the numbers of the command  *)
(* line are narrowed to the width of the members they are stored in.        *)
THEOREM TypeCorrect == Spec => []TypeOK
BY Invariance, PTL DEF IInv

(* The loop never runs a handler on a socket of the other kind.             *)
THEOREM HandlerFits == Spec => []HandlerFitsSocket
<1>1. IInv => HandlerFitsSocket
  BY DEF IInv, TypeOK, Configs, Protocols, StageInv, ProtocolInv, Socktype, HandlerFitsSocket
<1> QED  BY <1>1, Invariance, PTL

(* No list and no descriptor is lost, whatever the resolver and the sockets *)
(* answer.                                                                  *)
THEOREM NoLeak == Spec => []NothingLeaks
<1>1. IInv => NothingLeaks
  BY DEF IInv, StageInv, NothingLeaks
<1> QED  BY <1>1, Invariance, PTL

(* The last value given for an option is in effect if it fits its type.     *)
THEOREM LastOptionCounts == Spec => []OptionsTakeEffect
<1>1. ASSUME TypeOK, optind = Len(args) + 1, NEW opt \in {"p", "d", "r"}, NEW value,
             NEW limit \in {U16, U8}, NEW default, Stored(opt, value, limit, default)
      PROVE  InEffect(opt, value, limit, default)
  <2> DEFINE given == {i \in DOMAIN args : args[i].opt = opt}
             last  == CHOOSE i \in given : \A j \in given : j <= i
  <2>1. given = Given(opt) /\ given \subseteq Nat
    BY <1>1 DEF Given, TypeOK
  <2>2. CASE given = {}
    BY <1>1, <2>1, <2>2 DEF Stored, InEffect
  <2>3. CASE given # {}
    <3>1. PICK i \in given : (\A j \in given : j <= i) /\ value = Narrow(args[i].arg, limit)
      BY <1>1, <2>1, <2>3 DEF Stored
    <3>2. last \in given /\ \A j \in given : j <= last
      BY <3>1
    <3>3. last = i
      BY <2>1, <3>1, <3>2
    <3>4. args[i] \in Options /\ args[i].opt \in {"p", "d", "r"}
      BY <1>1, <3>1 DEF TypeOK
    <3>5. args[i].arg \in Int
      BY <3>4, StartupAssumption DEF Options
    <3>6. args[i].arg \in 0 .. limit - 1 => value = args[i].arg
      BY <3>1, <3>5, NarrowRange
    <3> QED  BY <2>3, <3>3, <3>6 DEF InEffect
  <2> QED  BY <2>2, <2>3
<1>2. IInv => OptionsTakeEffect
  <2> SUFFICES ASSUME IInv, pc \notin {"parse", "exit"}
               PROVE  /\ InEffect("p", config.server_port, U16, Defaults.server_port)
                      /\ InEffect("d", config.udp_confirmation_timeout, U16,
                                  Defaults.udp_confirmation_timeout)
                      /\ InEffect("r", config.max_udp_retransmissions, U8,
                                  Defaults.max_udp_retransmissions)
    BY DEF OptionsTakeEffect
  <2>1. /\ TypeOK /\ optind = Len(args) + 1
        /\ Stored("p", config.server_port, U16, Defaults.server_port)
        /\ Stored("d", config.udp_confirmation_timeout, U16, Defaults.udp_confirmation_timeout)
        /\ Stored("r", config.max_udp_retransmissions, U8, Defaults.max_udp_retransmissions)
    BY DEF IInv, ParseInv
  <2>2. InEffect("p", config.server_port, U16, Defaults.server_port)
    BY <1>1, <2>1
  <2>3. InEffect("d", config.udp_confirmation_timeout, U16, Defaults.udp_confirmation_timeout)
    BY <1>1, <2>1
  <2>4. InEffect("r", config.max_udp_retransmissions, U8, Defaults.max_udp_retransmissions)
    BY <1>1, <2>1
  <2> QED  BY <2>2, <2>3, <2>4
<1> QED  BY <1>2, Invariance, PTL

=============================================================================
