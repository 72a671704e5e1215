# The IPK24-CHAT client in TLA+

The repository is a chat client in C++: one process, one thread, one event
loop, and two protocol variants (UDP, TCP). This directory holds TLA+ modules
translated from its source, the TLC configurations that model-check them, and
TLAPS proofs about them. `PROJECT.json` says which lines each definition
stands for.

## 1. Inventory

| Component | State | Operations | Talks to |
|---|---|---|---|
| `StreamHandler` | `state` (local), `retry_count`, `retrans`, `first_time_interrupted` | `run_event_loop` | `poll`, the handler, `interrupted` |
| `interruptSignal` | `interrupted` (atomic) | `signal_handler` | runs between any two instructions of the loop |
| `FSMValidate` | `currentState`, `previousState`, `expectedAction` | `validate_action` | called by a handler |
| `UDPProtocolHandler` | ids, flags, `last_message`, `received_ids`, `server_address`, `error_message` | `process_server_message`, `process_user_input`, `resend_last_message` | the FSM, the validator, the output, the socket |
| `UDPMessageValidator` | `displayName` | parse, validate, form messages | called by the UDP handler |
| `TCPProtocolHandler` | `waiting_for_reply`, static `buffer` | as UDP | as UDP |
| `TCPMessageValidator` | `displayName` | parse, validate, form messages | called by the TCP handler |
| `ClientOutput` | none | one print function per kind of line | called by the handlers |
| `Parser`, `Config` | the configuration | `parse`, `Validate` | `main` |
| `connectToServer` | none | resolve, open, connect | `main` |
| `main` | none | wires the parts together, installs the SIGINT handler | all |

How they interact: the loop polls the socket, and stdin unless it waits, and
makes exactly one handler call per event. The handler asks the FSM about the
event, sends datagrams or bytes, prints, and returns a `ClientState`; the loop
keeps it in `state` and decides from it alone what to poll and whether a
timeout means a retransmission.

What is hard here:

- *Two owners of one fact.* Whether a confirmation is awaited is known to the
  handler (`waiting_for_confirmation`) and to the loop (`state`), written by
  different classes at different moments. The retry budget belongs to the loop,
  the message to retransmit to the handler.
- *Environment.* Datagrams are lost, duplicated, reordered, malformed, and come
  at any moment; the user types in between; SIGINT arrives between any two
  steps, also between the test of the flag and `poll`. TCP cuts the server's
  lines into segments anywhere: a call may see part of a message or several.
- *The FSM has memory in two places*: `expectedAction` gates the next call, and
  `previousState` is copied back when a user's action is refused.
- *Deferred work*: an error found during a wait is put off with a flag.
- *Numbers*: 16-bit MessageIDs that wrap, a sentinel -1 that is also an id.

What makes each component correct:

- FSM: no session is open that the server did not grant, none is taken back
  behind its authorisation, an error ends it, and no call reads the
  uninitialised member or falls off the end of the function.
- UDP handler with the loop: what is retransmitted is what is awaited; stdin is
  closed during a wait; every request gets the whole retry budget; a wait ends,
  and only by the CONFIRM of what is waited for; once an error is to be reported
  or a BYE is awaited nothing new is requested.
- TCP handler: a complete message is left unprocessed only where the code means
  it; stdin is closed only while a reply is awaited; however the stream is cut,
  the session ends with a BYE and none is open that was not granted.
- The two validators, written twice: they accept the same commands and form the
  same message; what one client sends, the same client's reader gives back.
- Start-up: what the loop is given is what the command line says, the handler
  fits the socket, and nothing that was opened on the way stays open.
- The UDP client with its server: what is confirmed was heard and shown, nothing
  is shown twice, both sides agree on the outcome of a request and on the end, and
  no outcome is lost in silence.

## 2. Modules

| Module | Models |
|---|---|
| `FSMValidate` | `validate_action`: `Reaction(a)` is what it returns, `ValidateAction(a)` what it does to the object. The seven disjuncts are its branches. Where it falls off its end, `Returns(a)` is everything a caller may read. |
| `FSMSession` | The FSM alone, offered any sequence of the actions in `Offered`, and its properties. |
| `ProtocolHandler` | `ClientState`, the loop's variable `state`, and what a call without a return statement may leave there. |
| `StreamHandler` | The loop and the signal handler. One iteration is two steps, "top" (`OVER`? timeout, descriptors) and "poll" (`poll` returns, one event is handled), so that SIGINT can come between them. |
| `UDPProtocolHandler` | Every call of the handler as one action. `sent` is the sequence of datagrams the call gives to `sendto`, `shown` what it prints. |
| `UDPClient` | Loop, handler and FSM together in an open environment, with three history variables: `resends`, `grant`, `acked`. |
| `StopAndWait` | Abstract: one message pending at a time, repeated at most `Retrans` times; it stops being pending only in the step that hears its own confirmation (`heard`, an input), for an ERR or BYE, by giving up, or by a failing socket. |
| `ChatSession` | Abstract: who may say what when, whatever the transport; a client that has said BYE without waiting for its confirmation has `parted`, which is not yet leaving. |
| `UDPClientProperties` | What the client promises, how it implements the two abstract specifications, and what the repository says of it that the code does not keep. |
| `UDPSystem` | `UDPClient` with a network and a server that keeps to the protocol. |
| `UDPSystemProperties` | What the two achieve together. |
| `TCPProtocolHandler` | `process_user_input` one call per action; `process_server_message` one `recv` or one message per action (`call` says where it is). |
| `TCPClient` | Loop, TCP handler and FSM in an open environment, with three history variables: `grant`, `farewell`, `undefined`. |
| `TCPClientProperties` | As for UDP; it implements the same `ChatSession`. |
| `Startup` | `main` up to the event loop: `Parser::parse` one option at a time, `Config::Validate`, `connectToServer` one address at a time, `StreamHandler`'s constructor. |
| `Text` | Strings as the validators see them, over a lexicon of words. |
| `UDPMessageValidator`, `TCPMessageValidator` | `displayName`, every `*_validate`, `rename`, `form_error_message`, and what is read of a server's message. |
| `Validators` | Both side by side, given the same commands, and each its server's messages. |
| `MCValidators` | The lexicon and the inputs for TLC. |
| `FSMLemmas`, `FSMSessionProofs` | Facts about `ValidateAction`, and the theorems of `FSMSession`. |
| `UDPClientProofs` | Facts about the handler's calls, and the theorems of `UDPClient`. |
| `UDPRefinementProofs` | The UDP client implements `StopAndWait` and `ChatSession`. |
| `UDPSystemProofs` | The theorems of `UDPSystem`, which rest on those of `UDPClient`. |
| `TCPClientProofs` | The theorems of `TCPClient`, `ChatSession` included. |
| `StartupProofs`, `ValidatorProofs` | The theorems of `Startup` and `Validators`. |

Names follow the source (`awaited_conirm_id` and `renamer3000` included).

Abstractions. A datagram is its type, its MessageID and what `process_received`
tells apart: too short for its type, refused by the validator, or valid; a
REPLY also has its status and refID. A line of the user is its command and
whether its argument passes the validator; names, contents and what makes an
argument pass are the validators' modules. Wording is left out. A CONFIRM shorter than three bytes is read beyond its end by the code, so
it is a CONFIRM with any id. `error_message` is payload and left out. Handler
calls never overlap (one thread), so each is one step. The FSM is asked inside
the call that uses its answer. `sendto` is taken to accept the datagram (its
failure is only printed, and the datagram counts as lost).

For TCP, a segment is the number of messages it completes (none included) and
which ones; the bytes of a message still unfinished are not represented. A
message is its type, a REPLY's status, and the validator's verdict. A REPLY
with nothing after `IS` makes `validate_reply` call `pop_back` on an empty
string, which is undefined; it is modelled as the abort the build makes of it
(`Abort`). A `send` that fails exits in the middle of a call: `Send` delivers a
prefix and sets `exited` (SIGPIPE ends the process in the same place). A call
that falls off its end (`/rename`, a REPLY neither OK nor NOK) leaves any value
of `JunkReturns`, and sets `undefined`: properties about what the loop's state
means are claimed until then. `process_server_message` closes the socket and
the loop closes it again; the second close does nothing. The loop's `PollFails`
is not part of `TCPClient`, since the first SIGINT is answered by `OVER`.

The environment of `UDPClient` is open: any datagram of `Datagrams` may arrive
whenever `poll` may return. This includes every behaviour of every server and
network (loss, duplication, reordering, delay, several senders), so what is
checked there holds against all of them. `TCPClient`'s is open in the same way:
any lines in any segments, a `recv` that fails, a server that closes.

`UDPSystem` closes it. The network is the set of all datagrams ever sent in
either direction: each may arrive at any time, any number of times, or never;
a retransmission adds nothing to it. The server hears each message of the client
once, confirms it, answers an AUTH or JOIN with one REPLY, and may send a MSG,
an ERR or a BYE of its own. It takes an AUTH and a CONFIRM at the port of `-p`
and everything at `SessionPort`. What it sends comes from `SessionPort`, but the
CONFIRM of an AUTH may come from the other port as well, and come late
(`Sources`): it then moves the client's address back, as every datagram moves it,
and what the client sends there does not reach the server (`reached` of a datagram
in `toServer`, fixed by `server_address` when it is sent). Its actions are marked
external: they are the server that the handler's code is written for. SIGINT and a
`recvfrom` that fails stay in `UDPClient`, where they meet every datagram.

A refinement is stated by what a reader of the code can see. For `StopAndWait`
the pending message is `last_message` while a CONFIRM is awaited, and the retries
left are the loop's `retry_count`: two classes' fields make up one abstract
state. The retransmissions that `UDPClient_resends` finds happen outside a wait
and are stutters of it. `acked`, the id of the CONFIRM the last step received, is the
abstract `heard`: a wait that ended without the CONFIRM of the pending message
would be no step of `StopAndWait`.

For `ChatSession`, `said` is what was sent for the first time. A client is leaving
while an error is to be reported or has been, while a BYE is awaited, and when it
is over. The BYE that answers the first copy of a server's ERR
(UDPProtocolHandler.cpp:300-306) is not awaited, and a line refused by the FSM can
take the session back to OPEN after it: the client has `parted`, and one more
request may be heard of it. The CONFIRM of that request then ends the session.

In the validators a string is the sequence of its words, with one space between
each two (the empty word included), so `split_message` is a change of
representation and gluing words together is concatenation. The lexicon gives each
word its size, its kind of characters and its `toupper`. A TCP line stands
without its CRLF. A datagram's payload is its NUL-terminated strings and its
`tail`, the bytes behind the last NUL, which `parse_and_validate` drops. The ERRs
that the TCP handler builds itself, past the validator, are `protest`: for a line
that cannot be read, or that the FSM refuses, in the client's name or, for a MSG,
in the name read from it. `validate_bye_server` is never called.

In `Startup` the resolver and the sockets answer anything; `atoi` yields any
number, of which the casts keep the low 16 or 8 bits.

## 3. Runs

The values given to the constants are in the cfg files.

| Run | What it shows |
|---|---|
| `FSMSession` | All twelve actions in any order: a restored state is earned, and in ERROR every message of the server is refused until BYE_USER is offered, after which a call may return anything. |
| `UDPClient` | The loop, the handler's flags, the stored message, the retry budget and the FSM agree at all times; together they implement `StopAndWait` and `ChatSession`; a wait ends when the server falls silent. |
| `TCPClient` | The loop's state, the reply flag, the static buffer and the FSM agree however the stream is cut; the client never closes without a BYE, implements `ChatSession`, and a SIGINT inside `poll` ends it. |
| `UDPSystem` | With a server over a faulty network: a wait ends only by a CONFIRM of that very message; a confirmed MSG was shown, and once; the outcome shown is the server's decision on the request the user waits for; a REPLY that is confirmed and never shown answers a request that was replaced, or is reported as an error; who ends without giving up leaves no session behind. |
| `Startup` | With `-t` given, handler and socket are the ones asked for, nothing leaks on any failing path, the last option given is the one in effect. |
| `Validators` | Both accept and form the same; what is sent is read back, as are the ERRs the TCP handler builds itself; what is shown of a server's message is its whole line, or all its NUL-terminated strings; the limits of the strings fit the receive buffer; a refused command leaves no name behind. |
| `UDPClient_<finding>`, `TCPClient_left_over`, `UDPSystem_duplicates`, `Startup_protocol` | Six statements of the repository that the code does not keep; TLC ends each with a counterexample. |

### Bounds

- `UDPClient`: `ServerIds = {0}` suffices because the only use of a server's
  MessageID is to be looked up in `received_ids` and echoed; with one id both
  outcomes of the lookup occur. `IdMod` (2^16 in the code) is 4: the ids wrap
  within a session, and every pairing of a stale, current and sentinel id occurs.
  `Retrans` is 2, so that a budget can be partly used. One port, as no property
  of this run looks at it. `JunkReturns` (what a successful `/rename` returns)
  is every `ClientState` and a value that is none.
- `TCPClient`: `MaxBuffered` bounds the complete messages in the static buffer:
  2, a message handled and one behind it that is left or handled next.
- `UDPSystem`: four messages of the client (`MaxSent`): an AUTH, a JOIN or MSG, an
  ERR or BYE and one more to overtake them; three of the server (`MaxServed`): the
  decisions on two requests, and a message of its own or a third decision, which
  is what the repeated negative REPLY that gates the FSM needs. `IdMod = 6`, so the
  ids stop before they wrap or reach the sentinel, where the claims end. `Retrans
  = 1`, because the network repeats anything anyway. Two ports, the one of `-p`
  and the session's.
- `Startup`: three options, so that one is given twice and another between;
  two addresses, so that one fails and the next is tried; `Numbers` has a value
  that fits both types, one that fits only the wider, one that fits neither.
- `Validators`: words at and just beyond each limit (20, 128, 1400), with a
  character each check refuses, keywords in both cases, and the empty word;
  lines with a word replaced or missing at every place.

`/rename` returning `WAITING_FOR_REPLY`, an `OVER` in the middle, a second
SIGINT and a `recvfrom` that fails are all in the reachable states of `UDPClient`.
The clients stop by reaching `pc \in {"done", "failed"}`, and `Startup` by `"run"`
or `"exit"`, where `Finished` stutters, so a deadlock anywhere else would be
reported.

### Fairness

`FairSpec` is used by `UDPClient`, `UDPClient_interrupt` and `TCPClient` (where
going on with a call is fair as well). Only the code's own progress is fair: going
round the loop, closing, retransmitting and giving up (`poll` returns when its
timeout has passed), handling the interrupt when `poll` has returned because of
it or will time out, and failing on a second EINTR. Nothing obliges a datagram, a
line or a signal to come. `SilenceEndsTheWait` assumes silence explicitly
(`<>[][~Server]_vars`), since the source's own changelog admits that traffic
restarts the timer. `UDPSystem`, `Startup` and `Validators` state no fairness:
what they claim is safety.

### What the findings show

| Run | The code says | What happens |
|---|---|---|
| `UDPClient_resends` | `-r` is the "Maximum number of UDP retransmissions" (README.md:48) | A CONFIRM that confirms nothing starts a round of retransmissions of a message that is already confirmed. |
| `UDPClient_deferred_error` | an error is printed "after the confirmation" (UDPProtocolHandler.cpp:62) | It leaves only when the user types the next line. |
| `UDPClient_interrupt` | "if so, send bye" (StreamHandler.cpp:58) | SIGINT between the test and `poll` waits for the next event. |
| `TCPClient_left_over` | "Process all complete messages in the buffer" (TCPProtocolHandler.cpp:162) | A MSG before the REPLY in one segment leaves the REPLY unread, with stdin blocked, until the server sends again. |
| `UDPSystem_duplicates` | a message received before is "only confirmed" (README.md:79) | A REPLY is not looked up: a negative one repeated because its CONFIRM was lost ends the session with an error. |
| `Startup_protocol` | "The arguments -t and -s are mandatory" (README.md:51), "Protocol is required" (Config.cpp:24) | Without `-t` the message is printed and the program goes on, into the event loop with a null handler. |

Also in the models, but claimed by no run:

- `-s` may be a "hostname" (README.md:45), but with `-t udp` `inet_pton` fails on it
  unnoticed and the client sends to 0.0.0.0 (connectToServer.cpp:67);
- "confirmation for the bye sent, the connection is over" (UDPProtocolHandler.cpp:92):
  after the BYE for a server's ERR a refused line can reopen the session, a MSG takes
  over the awaited id, and its CONFIRM ends the session;
- a REPLY to another message moves the FSM before its refID is compared, and
  opens the session though the code calls it ignored (UDPProtocolHandler.cpp:176,
  :190);
- a refID of 65535 equals the sentinel for "no reply awaited" (:181);
- a repeated ERR, after a refused line has restored the FSM, is answered by another
  BYE; an immediate repeat by an ERR (:275, :316);
- the address follows a late CONFIRM back to the port of `-p` (:52), as README.md:137
  says it does;
- what is behind the last NUL of a payload is neither shown nor objected to
  (UDPMessageValidator.cpp:230-237);
- an ERR for a MSG the FSM refuses names nobody (TCPProtocolHandler.cpp:231), and no
  reader of either client accepts it;
- a repeated negative REPLY blocks stdin although nothing is outstanding (:163);
- a MSG before the REPLY (UDP), or half a message (TCP), makes the loop read
  stdin although a reply is outstanding;
- a MSG that is refused is not confirmed and comes again;
- after a mistyped `/auth` the Success of the next one leaves the FSM in AUTH;
- `/rename` takes a name of several words, which no TCP reader understands.
  `ReadBack` claims TCP's case for names of one word only, as the grammar quoted
  at TCPMessageValidator.cpp:82 ("1*20 (VCHAR)") has it.

## 4. Proofs

The theorems hold for every value of the constants: any `-r` in 0..255, any
width of the ids, any ids and ports of the server, any junk return value, any
command line and resolver, any lexicon, any number of messages short of the ids
coming round. The only assumptions are the named ones (`RetransAssumption`,
`IdAssumption`, `PortAssumption`, `JunkAssumption`, `SystemAssumption`,
`BufferAssumption`, `OfferedAssumption`, `StartupAssumption`,
`LexiconAssumption`, `InputAssumption`, `ComplaintAssumption`), which TLC
evaluates. `ComplaintAssumption` says of the texts given to `form_error_message`
what can be read off the source: each is a literal, short and printable. Every
safety property that a passing run checks is a theorem.

`FSMSessionProofs`: the inductive invariant adds to the properties where
`previousState` points. A gate is only ever set by a transition or a failure of
the switch, which has recorded `previousState`; so what a gate restores has the
same standing (`stage`) as the state that set it. `FSMLemmas` states this for
one call of `validate_action`, for reuse inside the client. Two more facts about
the machine are proved and checked by no run of their own: `previousState` is
assigned before it is copied (both clients' runs check it as part of
`FsmAlwaysAnswers`), and only a user action leads out of ERROR. `ErrorRefuses`
rests on the gate that ERROR is entered with: it stays until BYE_USER passes it
(`farewell`), and what a call returns behind it is any member of `Results`.

`UDPClientProofs`: the invariants the run checks are not inductive one by one.
`IInv` adds:

- `LoopInv`: the loop polls only while the client is not over;
- `FSMInv` and `GateInv`: which gates the UDP handler's offers can set, and
  where `previousState` is then; from this, ERROR and END are always gated, so
  the branches that fall off the end are unreachable (`FsmAlwaysAnswers`);
- `SentErrorInv`, `AskedInv`: what `error_sent` and the history `grant` say of
  the stored message and of the FSM.

The argument does not go through the forty branches of the handler for every
conjunct. The lemmas at the head of the module classify a call once, by what it does to the
wait: it keeps it, ends it, or starts it with a BYE, an ERR or a request
(`WaitStep`). Each conjunct about the wait and the budget is then proved for these five kinds. `FullRetryBudget` needs that a budget is
only refilled where the wait has ended, which in turn needs
`InputBlockedWhileUnconfirmed`; `OpenOnlyIfGranted` needs that the FSM leaves
START only by a user's action and reaches OPEN only by a REPLY_SERVER.

`TCPClientProofs`: `IInv` adds `LoopInv` (a call runs only outside `poll` and
never when the client is over), `GateInv` (as long as the client goes on the
FSM is in a live state, and so is what a gate would restore), `ConsentInv`
(AUTH and OPEN are reached and restored only with consent and grant),
`NoConfirmation` and `OverWithFarewell`. Again a call is classified once
(`Outcome`): processing one message goes on, waits for the reply, ends the
client having said BYE, or falls off its end. `NextStream` proves the loop's
conjuncts from the four outcomes; `FsmStep` says which calls of
`validate_action` the client survives, and `ValidateGate` that those keep the
FSM alive. `LeftOnlyWhileWaiting` is inductive because the loop reads a line
only in a state in which, by the same invariant, the buffer is empty.

`UDPRefinementProofs`: with `IInv` in hand, `Delivery` maps each of the five
kinds of `WaitStep` to an action of `StopAndWait`: what starts a wait is `Take`
or, if a wait was on, `Supersede`; what ends it is `Confirmed`, because only the
CONFIRM of `awaited_conirm_id` does and that is the id of `last_message`; a
retransmission is `Repeat`; giving up, ending and a failing socket are their namesakes.
`SessionKept` needs one more invariant, `QuietInv` (what was sent is forgotten
when the loop polls, and `last_message` is never a CONFIRM), and that a client
on its way out stays so (`LeavingStays`). `TCPClientProofs` has the
`SessionKept` of the TCP client, so both implement one specification.

`StartupProofs`: `IInv` says what is open at each stage (`StageInv`), that the
protocol was looked at (`ProtocolInv`), and that of the options parsed so far the
last one given is stored (`ParseInv`).

`UDPSystemProofs`: to the client the system is one of the environments of
`UDPClient` (`ClientOfSystem`), so all of `UDPClientProofs` holds of it, and
`SysInv` starts from `IInv`. It adds what the network and the server know:

- `NumberInv`: the client's ids do not come round, each was given to one message,
  and whatever is on its way with the newest id is `last_message` itself. This is
  what makes a CONFIRM of the awaited id a CONFIRM of the awaited message.
- `PostedInv`: what the last call sent is already on its way, so that a
  retransmission adds nothing.
- `ServerInv`: all that is on its way to the client is honest. A CONFIRM is of
  something heard, a REPLY carries the recorded decision on a request that was
  made, an ERR or BYE means that the session is closed, and no id has two messages.
- `ReceivedInv`: what the client noted or confirmed was really sent, and a MSG
  noted is a MSG shown. Noting comes before showing in the code, in one call.
- `ReplyInv`: the request whose reply is awaited is still undecided for the user,
  only requests that were made are decided, and of the requests posted every
  other one was decided for the user or replaced by a newer one.
- `ByeInv`, `OverInv`: a BYE that is awaited and heard has closed the session, and
  the loop ends only after such a BYE, the server's own end, or giving up.

`ConfirmedIsHeard` then follows from `NumberInv` and `ServerInv`, `ShownOnce` from
`ReceivedInv` and `ReplyInv`, and `ToldTheTruth` from `ReplyInv` and `ServerInv`.
`NoReplyLostInSilence` is a conjunct of `SysInv` and needs `ReplyInv`: the posted
requests and ERRs only grow (`RepliesStay`), and the step that confirms a REPLY
shows it, finds a newer request, or refuses it, which sends or puts off an ERR
(`ClientReplyLost`). The proof has one lemma per conjunct and per side that moves:
the server's steps leave the client's variables alone (`ServerStepFrame`), and the
client's calls touch the server's only through what they post.

`EndsTogether` needs a hypothesis that the attempt to prove it brought out. The
call for `/rename` falls off its end without a value. If the build's leftover
happens to be `OVER`, the loop ends with no BYE said, and the session stays open
at the server. `BothEnd` is therefore proved for `HonestReturns`, that is for
every `JunkReturns` without `OVER`; the run uses such a set. The other theorems
need no such hypothesis.

`ValidatorProofs`: `IInv` is that the names agree and `SameMessage` holds, with
the types. Each command is split into accepted and refused; `SameLimits` shows
that both validators draw that line at the same place. `OriginInv` adds where the
strings of a formed message come from and which limit each has passed. From it:

- `NameIsTheCommands`: of all steps only an accepted AUTH or rename changes a name;
- `SentIsReadBack`: over UDP the fields are read as they were put. Over TCP the
  line is a head of four words and a content; `GlueBehind` shows that gluing the
  words behind a head gives back what was put there, whatever its words are, also
  if one of them is IS. For the handler's own ERRs `ProtestInv` says whom they name:
  nobody (`NobodyUnread`), or a name that was validated when it was read;
- `ShownAsItCame`: `Reheaded` shows that a line differs from the one put together
  of what was read in the keywords' case at most; over UDP the strings are compared
  one by one;
- `DatagramFits`: a datagram is at most 3 + 21 + 1401 bytes. `DatagramSize` sums
  over the strings of a message, of which there are three at most, so the sum is
  unrolled (`DatagramBytes`) and no induction is needed.

Model-checked only: `SilenceEndsTheWait` and `InterruptedPollEnds`, as liveness
under fairness is beyond the prover; that the total size of a string of any
number of words is what `SizeOf` says, since this is induction over data (the
proofs use `SizeOf` only through the limits that the code tests); and the
counterexamples.

## 5. Not modelled, and why

- A datagram of no bytes: `message[0]` of an empty vector has no defined outcome.
- `POLLERR` and `POLLHUP` on the socket without `POLLIN`: an unconnected UDP
  socket is not woken by them.
- Lines that `getline` has taken into the stdio buffer, which `poll` does not see.
- The bytes of a TCP message that is not complete yet, and the byte order of a
  datagram's head: a message is taken apart where the code takes it apart.
- The wording of `ClientOutput`; only which of its functions is called.
- MessageIDs that come round after 65536 messages of the server: `received_ids`
  only grows, `UDPSystem` ends before.

## 6. Plan

In this order; what matters most first.

1. *Done*: the FSM, the loop, the UDP handler, their composition and proofs.
2. *Done*: the TCP handler, its composition with the same loop, and proofs.
3. *Done*: `StopAndWait` and `ChatSession`, checked and proved.
4. *Done*: `UDPSystem`, checked.
5. *Done*: the start-up and the validators, checked and proved.
6. *Done*: the theorems of `UDPSystem`: every safety property the run checks.
7. What `StopAndWait` and `ChatSession` promise by themselves, as theorems about
   the two abstract specifications, carried over to the clients by the refinements.
8. The safety steps of the two liveness arguments: during a silent wait every
   iteration of the loop retransmits or ends.
9. Standard input: lines in the stdio buffer that `poll` does not see.
