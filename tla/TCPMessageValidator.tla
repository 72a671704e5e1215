------------------------ MODULE TCPMessageValidator ------------------------
(***************************************************************************)
(* TCPMessageValidator: the display name, the lines made of the user's     *)
(* commands, and what is read from the server's lines.  A line stands      *)
(* without its CRLF.                                                       *)
(***************************************************************************)
EXTENDS Text

VARIABLES
    displayName,
    formed          \* what the last call returned: a line, or why there is none

ValidatorInit == displayName = Empty /\ formed = [type |-> "none", line |-> <<>>]

Refused == [type |-> "refused", line |-> <<>>]

validate_id(id)      == SizeOf(id) \in 1 .. 20 /\ Alphanumeric(id)
validate_secret(s)   == SizeOf(s) \in 1 .. 128 /\ Alphanumeric(s)
validate_dname(name) == SizeOf(name) \in 1 .. 20 /\ Printable(name)

validate_content(content) == SizeOf(content) \in 1 .. 1400 /\ Printable(content)

Form(type, line) == formed' = [type |-> type, line |-> line] /\ UNCHANGED displayName

Refuse == formed' = Refused /\ UNCHANGED displayName

\* Mutant: id, name and secret in the order they were typed.
AuthorizeAsTyped(parts) ==
    IF Len(parts) = 3 /\ validate_id(<<parts[1]>>)
       /\ validate_secret(<<parts[2]>>) /\ validate_dname(<<parts[3]>>)
    THEN /\ displayName' = <<parts[3]>>
         /\ formed' = [type |-> "AUTH",
                       line |-> <<"AUTH", parts[1], "AS", parts[2], "USING", parts[3]>>]
    ELSE Refuse

authorize_validate(parts) ==
    IF Len(parts) = 3 /\ validate_id(<<parts[1]>>)
       /\ validate_secret(<<parts[2]>>) /\ validate_dname(<<parts[3]>>)
    THEN /\ displayName' = <<parts[3]>>
         /\ formed' = [type |-> "AUTH",
                       line |-> <<"AUTH", parts[1], "AS", parts[3], "USING", parts[2]>>]
    ELSE Refuse

join_validate(parts) ==
    IF Len(parts) = 1 /\ validate_id(parts)
    THEN Form("JOIN", <<"JOIN", parts[1], "AS">> \o displayName) ELSE Refuse

message_validate(content) ==
    IF validate_content(content)
    THEN Form("MSG", <<"MSG", "FROM">> \o displayName \o <<"IS">> \o content) ELSE Refuse

form_error_message(error) ==
    Form("ERR", <<"ERR", "FROM">> \o displayName \o <<"IS">> \o error)

\* Mutant: a refused name is kept all the same.
RenameAnyway(name) ==
    /\ displayName' = name
    /\ formed' = IF validate_dname(name) THEN [type |-> "renamed", line |-> name] ELSE Refused

rename(name) ==
    IF validate_dname(name)
    THEN displayName' = name /\ formed' = [type |-> "renamed", line |-> name]
    ELSE Refuse

-----------------------------------------------------------------------------
(* What is read from the server.                                           *)

\* The words from the n-th on, glued together again.
Glue(line, n) == SubSeq(line, n, Len(line))

Unreadable(user) == [user |-> user, content |-> Empty, form |-> "invalid"]

Reading(user, content) ==
    [user |-> user, content |-> content,
     form |-> IF validate_content(content) THEN "valid" ELSE "invalid"]

\* toupper changes nothing that validate_dname looks at.
ReadFrom(line, keyword, otherwise) ==
    IF /\ Len(line) >= 5
       /\ Upper[line[1]] = keyword /\ Upper[line[2]] = "FROM" /\ Upper[line[4]] = "IS"
       /\ validate_dname(<<line[3]>>)
    THEN Reading(<<line[3]>>, Glue(line, 5)) ELSE Unreadable(otherwise)

validate_message_server(line) == ReadFrom(line, "MSG", displayName)
validate_error_server(line)   == ReadFrom(line, "ERR", Empty)

\* Without a word behind IS, pop_back is called on an empty string.
validate_reply(line) ==
    IF Len(line) < 3 THEN Unreadable(Empty)
    ELSE IF \/ Upper[line[1]] # "REPLY" \/ Upper[line[2]] \notin {"OK", "NOK"}
            \/ Upper[line[3]] # "IS" THEN Unreadable(Empty)
    ELSE IF Len(line) = 3 THEN [Unreadable(Empty) EXCEPT !.form = "truncated"]
    ELSE Reading(Empty, Glue(line, 4))

=============================================================================
