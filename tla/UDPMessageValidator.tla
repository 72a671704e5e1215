------------------------ MODULE UDPMessageValidator ------------------------
(***************************************************************************)
(* UDPMessageValidator: the display name, the messages made of the user's  *)
(* commands, and the fields read from a datagram.  A message is its type   *)
(* and its NUL-terminated strings; MessageIDs are UDPProtocolHandler's.    *)
(***************************************************************************)
EXTENDS Text

VARIABLES
    displayName,
    formed          \* what the last call returned: a message or a refusal

ValidatorInit == displayName = Empty /\ formed = [type |-> "none", fields |-> <<>>]

Refused == [type |-> "refused", fields |-> <<>>]

validate_id(id)      == SizeOf(id) \in 1 .. 20 /\ Alphanumeric(id)
validate_secret(s)   == SizeOf(s) \in 1 .. 128 /\ Alphanumeric(s)
validate_dname(name) == SizeOf(name) \in 1 .. 20 /\ Printable(name)

\* Mutant: the limit has one digit more.
ContentUpTo14000(content) == SizeOf(content) \in 1 .. 14000 /\ Printable(content)

validate_content(content) == SizeOf(content) \in 1 .. 1400 /\ Printable(content)

Form(type, fields) ==
    formed' = [type |-> type, fields |-> fields] /\ UNCHANGED displayName

Refuse == formed' = Refused /\ UNCHANGED displayName

\* Mutant: the name is taken over before the secret is looked at.
NameBeforeSecret(username, deename, secret) ==
    IF validate_id(username) /\ validate_dname(deename)
    THEN /\ displayName' = deename
         /\ formed' = IF validate_secret(secret)
                      THEN [type |-> "AUTH", fields |-> <<username, deename, secret>>]
                      ELSE Refused
    ELSE Refuse

authorize_validate(username, deename, secret) ==
    IF validate_id(username) /\ validate_dname(deename) /\ validate_secret(secret)
    THEN /\ displayName' = deename
         /\ formed' = [type |-> "AUTH", fields |-> <<username, deename, secret>>]
    ELSE Refuse

join_validate(channel) ==
    IF validate_id(channel) THEN Form("JOIN", <<channel, displayName>>) ELSE Refuse

message_validate(content) ==
    IF validate_content(content) THEN Form("MSG", <<displayName, content>>) ELSE Refuse

form_error_message(error) == Form("ERR", <<displayName, error>>)

rename(name) ==
    IF validate_dname(name)
    THEN displayName' = name /\ formed' = [type |-> "renamed", fields |-> <<name>>]
    ELSE Refuse

\* The handler splits the arguments and puts them in the message's order.
Authorize(argument) ==
    IF Len(argument) = 3
    THEN authorize_validate(<<argument[1]>>, <<argument[3]>>, <<argument[2]>>)
    ELSE Refuse

Join(argument) == IF Len(argument) = 1 THEN join_validate(argument) ELSE Refuse

\* Mutant: what the loop has gathered behind the last NUL counts as a string.
StringsAndTail(payload) ==
    IF payload.tail = Empty THEN payload.fields ELSE Append(payload.fields, payload.tail)

\* The strings of a payload that end in NUL; what follows the last is dropped.
StringsOf(payload) == payload.fields

parse_and_validate(fields, type) ==
    IF type = "REPLY" THEN Len(fields) = 1 /\ validate_content(fields[1])
    ELSE Len(fields) = 2 /\ validate_dname(fields[1]) /\ validate_content(fields[2])

\* What the handler shows of them: the user if there is one, the content.
ReadFields(fields, type) ==
    IF ~parse_and_validate(fields, type)
    THEN [user |-> Empty, content |-> Empty, form |-> "invalid"]
    ELSE [user |-> IF type = "REPLY" THEN Empty ELSE fields[1],
          content |-> fields[Len(fields)], form |-> "valid"]

Read(payload, type) == ReadFields(StringsOf(payload), type)

\* Bytes on the wire: the type, the MessageID and each string with its NUL.
DatagramSize(message) ==
    LET bytes[i \in 0 .. Len(message.fields)] ==
            IF i = 0 THEN 3 ELSE bytes[i - 1] + SizeOf(message.fields[i]) + 1
    IN  bytes[Len(message.fields)]

=============================================================================
