-------------------------- MODULE ValidatorProofs ---------------------------
(***************************************************************************)
(* The two validators agree on every command, for every lexicon and every  *)
(* set of inputs; what they form is read back as it was, shown as it came  *)
(* and fits the buffer it is received into.                                *)
(***************************************************************************)
EXTENDS Validators, SequenceTheorems, TLAPS

Types == {"none", "refused", "renamed", "AUTH", "JOIN", "MSG", "ERR"}

NamesInv == udpName = tcpName /\ udpName \in Texts /\ udpName \in Names

MessagesInv ==
    /\ udpFormed.type \in Types /\ udpFormed.fields \in Seq(Texts) /\ tcpFormed.line \in Seq(Words)
    /\ SameMessage

Readings ==
    [user : Texts, content : Texts, form : {"none", "refused", "valid", "invalid", "truncated"}]

ReadInv == read \in Readings /\ protest \in Seq(Words)

IInv == input \in Inputs /\ NamesInv /\ MessagesInv /\ ReadInv

-----------------------------------------------------------------------------
(* Texts.                                                                   *)
LEMMA IsText == \A text : text \in Texts <=> text \in Seq(Words) /\ Len(text) >= 1
<1>1. ASSUME NEW text \in Seq(Words) PROVE text # <<>> <=> Len(text) >= 1
  BY EmptySeq, LenProperties
<1> QED  BY <1>1 DEF Texts

LEMMA WordsInLexicon == Keywords \subseteq Words /\ "" \in Words
BY LexiconAssumption

LEMMA WordIsText ==
    ASSUME NEW word \in Words
    PROVE  <<word>> \in Texts
<1>1. <<word>> \in Seq(Words)
  OBVIOUS
<1>2. <<word>> # <<>>
  OBVIOUS
<1> QED  BY <1>1, <1>2 DEF Texts

LEMMA EmptyIsText ==
    /\ Empty = <<"">> /\ UDP!Empty = <<"">> /\ TCP!Empty = <<"">> /\ <<"">> \in Texts
    /\ Empty \in Names
    /\ <<>> \in Seq(Texts) /\ <<>> \in Seq(Words)
<1>2. <<"">> \in Texts
  BY WordsInLexicon, WordIsText
<1>3. <<>> \in Seq(Texts) /\ <<>> \in Seq(Words)
  OBVIOUS
<1> QED  BY <1>2, <1>3 DEF Empty, UDP!Empty, TCP!Empty, Names

LEMMA OneWord ==
    ASSUME NEW text \in Texts, NEW i \in 1 .. Len(text)
    PROVE  text[i] \in Words /\ <<text[i]>> \in Texts
<1>1. text \in Seq(Words)
  BY IsText
<1>2. text[i] \in Words
  BY <1>1
<1> QED  BY <1>2, WordIsText

LEMMA ArgumentType ==
    ASSUME NEW line \in Texts
    PROVE  Argument(line) \in Texts
<1>0. line \in Seq(Words) /\ Len(line) \in Nat /\ Len(line) >= 1
  BY IsText, LenProperties
<1>1. CASE Len(line) = 1
  BY <1>1 DEF Argument
<1>2. CASE Len(line) # 1
  <2>1. line # <<>>
    BY <1>0, EmptySeq
  <2>2. Tail(line) \in Seq(Words) /\ Len(Tail(line)) = Len(line) - 1
    BY <1>0, <2>1, HeadTailProperties
  <2>3. Len(Tail(line)) >= 1
    BY <1>0, <1>2, <2>2
  <2>4. Tail(line) \in Texts
    BY <2>2, <2>3, IsText
  <2> QED  BY <1>2, <2>4 DEF Argument
<1> QED  BY <1>1, <1>2

-----------------------------------------------------------------------------
(* The validators look at a string in the same way.                         *)
LEMMA SameLimits ==
    ASSUME NEW text
    PROVE  /\ UDP!validate_id(text) <=> TCP!validate_id(text)
           /\ UDP!validate_secret(text) <=> TCP!validate_secret(text)
           /\ UDP!validate_dname(text) <=> TCP!validate_dname(text)
           /\ UDP!validate_content(text) <=> TCP!validate_content(text)
<1>1. UDP!SizeOf(text) = TCP!SizeOf(text)
  BY DEF UDP!SizeOf, TCP!SizeOf
<1>2. /\ UDP!Alphanumeric(text) <=> TCP!Alphanumeric(text)
      /\ UDP!Printable(text) <=> TCP!Printable(text)
  BY DEF UDP!Alphanumeric, TCP!Alphanumeric, UDP!Printable, TCP!Printable
<1> QED
  BY <1>1, <1>2 DEF UDP!validate_id, TCP!validate_id, UDP!validate_secret, TCP!validate_secret,
     UDP!validate_dname, TCP!validate_dname, UDP!validate_content, TCP!validate_content

\* A name that is accepted has the size and the characters of one.
LEMMA AcceptedName ==
    ASSUME NEW name \in Texts, UDP!validate_dname(name)
    PROVE  name \in Names
<1>1. UDP!SizeOf(name) = SizeOf(name)
  BY DEF UDP!SizeOf, SizeOf
<1>2. UDP!Printable(name) <=> Printable(name)
  BY DEF UDP!Printable, Printable
<1>3. SizeOf(name) <= 20 /\ Printable(name)
  BY <1>1, <1>2 DEF UDP!validate_dname
<1> QED  BY <1>3 DEF Names

-----------------------------------------------------------------------------
(* One command.                                                             *)

Unformed == udpFormed' = UDP!Refused /\ tcpFormed' = TCP!Refused /\ UNCHANGED <<udpName, tcpName>>

LEMMA RefusedInv ==
    ASSUME IInv, Unformed
    PROVE  NamesInv' /\ MessagesInv'
<1>1. <<>> \in Seq(Texts) /\ <<>> \in Seq(Words)
  OBVIOUS
<1> QED
  BY <1>1 DEF IInv, NamesInv, MessagesInv, Types, Unformed, UDP!Refused, TCP!Refused, SameMessage

LEMMA AuthInv ==
    ASSUME IInv, NEW line \in Texts, Auth(line)
    PROVE  NamesInv' /\ MessagesInv'
<1> DEFINE a == Argument(line)
           accepted == /\ Len(a) = 3 /\ UDP!validate_id(<<a[1]>>)
                       /\ UDP!validate_dname(<<a[3]>>) /\ UDP!validate_secret(<<a[2]>>)
<1>0. a \in Texts /\ UDP!Authorize(a) /\ TCP!authorize_validate(a)
  BY ArgumentType DEF Auth
<1> HIDE DEF a
<1>1. CASE accepted
  <2>1. a[1] \in Words /\ a[2] \in Words /\ a[3] \in Words
        /\ <<a[1]>> \in Texts /\ <<a[2]>> \in Texts /\ <<a[3]>> \in Texts
    <3>1. 1 \in 1 .. Len(a) /\ 2 \in 1 .. Len(a) /\ 3 \in 1 .. Len(a)
      BY <1>1
    <3> QED  BY <1>0, <3>1, OneWord
  <2>2. /\ udpName' = <<a[3]>>
        /\ udpFormed' = [type |-> "AUTH", fields |-> <<<<a[1]>>, <<a[3]>>, <<a[2]>>>>]
    BY <1>0, <1>1 DEF UDP!Authorize, UDP!authorize_validate
  <2>3. /\ tcpName' = <<a[3]>>
        /\ tcpFormed' = [type |-> "AUTH", line |-> <<"AUTH", a[1], "AS", a[3], "USING", a[2]>>]
    BY <1>0, <1>1, SameLimits DEF TCP!authorize_validate
  <2>4. NamesInv'
    <3>1. <<a[3]>> \in Names
      BY <1>1, <2>1, AcceptedName
    <3> QED  BY <2>1, <2>2, <2>3, <3>1 DEF NamesInv
  <2>5. SameMessage'
    BY <2>2, <2>3 DEF SameMessage
  <2>6. "AUTH" \in Words /\ "AS" \in Words /\ "USING" \in Words
    BY WordsInLexicon DEF Keywords
  <2> QED  BY <2>1, <2>2, <2>3, <2>4, <2>5, <2>6 DEF MessagesInv, Types
<1>2. CASE ~accepted
  BY <1>0, <1>2, SameLimits, RefusedInv DEF UDP!Authorize, UDP!authorize_validate, UDP!Refuse,
     TCP!authorize_validate, TCP!Refuse, Unformed
<1> QED  BY <1>1, <1>2

LEMMA JoinInv ==
    ASSUME IInv, NEW line \in Texts, Join(line)
    PROVE  NamesInv' /\ MessagesInv'
<1> DEFINE a == Argument(line)
           accepted == Len(a) = 1 /\ UDP!validate_id(a)
<1>0. a \in Texts /\ UDP!Join(a) /\ TCP!join_validate(a)
  BY ArgumentType DEF Join
<1> HIDE DEF a
<1>1. CASE accepted
  <2>1. UNCHANGED <<udpName, tcpName>> /\ udpName \in Texts /\ tcpName = udpName
    BY <1>0, <1>1, SameLimits DEF UDP!Join, UDP!join_validate, UDP!Form, TCP!join_validate, TCP!Form,
       IInv, NamesInv
  <2>2. /\ udpFormed' = [type |-> "JOIN", fields |-> <<a, udpName>>]
        /\ tcpFormed' = [type |-> "JOIN", line |-> <<"JOIN", a[1], "AS">> \o tcpName]
    BY <1>0, <1>1, SameLimits DEF UDP!Join, UDP!join_validate, UDP!Form, TCP!join_validate, TCP!Form
  <2>3. NamesInv'
    BY <2>1 DEF IInv, NamesInv
  <2>4. SameMessage'
    BY <2>1, <2>2 DEF SameMessage
  <2>5. "JOIN" \in Words /\ "AS" \in Words /\ a[1] \in Words
    <3>1. 1 \in 1 .. Len(a)
      BY <1>1
    <3>2. a[1] \in Words
      BY <1>0, <3>1, OneWord
    <3> QED  BY <3>2, WordsInLexicon DEF Keywords
  <2>6. <<"JOIN", a[1], "AS">> \o tcpName \in Seq(Words)
    BY <2>1, <2>5, IsText
  <2> QED  BY <1>0, <2>1, <2>2, <2>3, <2>4, <2>6 DEF MessagesInv, Types
<1>2. CASE ~accepted
  BY <1>0, <1>2, SameLimits, RefusedInv DEF UDP!Join, UDP!join_validate, UDP!Refuse,
     TCP!join_validate, TCP!Refuse, Unformed
<1> QED  BY <1>1, <1>2

\* A MSG or an ERR: what follows IS is the line itself.
LEMMA FormedInv ==
    ASSUME IInv, NEW content \in Texts, NEW type \in {"MSG", "ERR"},
           UNCHANGED <<udpName, tcpName>>,
           udpFormed' = [type |-> type, fields |-> <<udpName, content>>],
           tcpFormed' = [type |-> type,
                         line |-> <<type, "FROM">> \o tcpName \o <<"IS">> \o content]
    PROVE  NamesInv' /\ MessagesInv'
<1>1. udpName \in Texts /\ tcpName = udpName /\ NamesInv'
  BY DEF IInv, NamesInv
<1>2. type \in Words /\ "FROM" \in Words /\ "IS" \in Words
  BY WordsInLexicon DEF Keywords
<1>3. <<type, "FROM">> \o tcpName \o <<"IS">> \o content \in Seq(Words)
  BY <1>1, <1>2, IsText
<1>4. SameMessage'
  BY <1>1 DEF SameMessage
<1> QED  BY <1>1, <1>3, <1>4 DEF MessagesInv, Types

LEMMA SayInv ==
    ASSUME IInv, NEW line \in Texts, Say(line)
    PROVE  NamesInv' /\ MessagesInv'
<1>1. CASE UDP!validate_content(line)
  BY <1>1, SameLimits, FormedInv DEF Say, UDP!message_validate, UDP!Form, TCP!message_validate,
     TCP!Form
<1>2. CASE ~UDP!validate_content(line)
  BY <1>2, SameLimits, RefusedInv DEF Say, UDP!message_validate, UDP!Refuse, TCP!message_validate,
     TCP!Refuse, Unformed
<1> QED  BY <1>1, <1>2

LEMMA RenameInv ==
    ASSUME IInv, NEW line \in Texts, Rename(line)
    PROVE  NamesInv' /\ MessagesInv'
<1> DEFINE a == Argument(line)
<1>0. a \in Texts /\ UDP!rename(a) /\ TCP!rename(a)
  BY ArgumentType DEF Rename
<1> HIDE DEF a
<1>1. CASE UDP!validate_dname(a)
  <2>1. /\ udpName' = a /\ udpFormed' = [type |-> "renamed", fields |-> <<a>>]
        /\ tcpName' = a /\ tcpFormed' = [type |-> "renamed", line |-> a]
    BY <1>0, <1>1, SameLimits DEF UDP!rename, TCP!rename
  <2>2. NamesInv'
    BY <1>0, <1>1, <2>1, AcceptedName DEF NamesInv
  <2>3. SameMessage'
    BY <2>1 DEF SameMessage
  <2>4. <<a>> \in Seq(Texts) /\ a \in Seq(Words)
    BY <1>0, IsText
  <2> QED  BY <2>1, <2>2, <2>3, <2>4 DEF MessagesInv, Types
<1>2. CASE ~UDP!validate_dname(a)
  BY <1>0, <1>2, SameLimits, RefusedInv DEF UDP!rename, UDP!Refuse, TCP!rename, TCP!Refuse, Unformed
<1> QED  BY <1>1, <1>2

-----------------------------------------------------------------------------
(* One message of the server.                                               *)

\* An ERR the TCP handler makes is a line, whoever it names.
LEMMA ProtestIsLine ==
    ASSUME NEW user \in Texts, NEW error \in Complaints
    PROVE  ErrorLine(user, error) \in Seq(Words)
<1>1. error \in Texts
  BY InputAssumption
<1>2. "ERR" \in Words /\ "FROM" \in Words /\ "IS" \in Words
  BY WordsInLexicon DEF Keywords
<1>3. user \in Seq(Words) /\ error \in Seq(Words)
  BY <1>1, IsText
<1> QED  BY <1>2, <1>3 DEF ErrorLine

LEMMA ProtestType ==
    ASSUME Protest, read' \in Readings, tcpName' \in Texts
    PROVE  protest' \in Seq(Words)
<1>1. PICK error \in Complaints : protest' = ErrorLine(Bearer', error)
  BY DEF Protest
<1>2. Bearer' \in Texts
  BY DEF Bearer, Readings
<1> QED  BY <1>1, <1>2, ProtestIsLine

LEMMA HearLineInv ==
    ASSUME IInv, NEW line \in Lines, HearLine(line)
    PROVE  input' \in Inputs /\ ReadInv'
<1> USE DEF Readings
<1>0. line \in Texts /\ tcpName \in Texts /\ Empty \in Texts
  BY InputAssumption, EmptyIsText DEF IInv, NamesInv
<1>1. PICK kind \in Kinds :
         /\ input' = [from |-> "TCP", kind |-> kind, line |-> line]
         /\ read' = IF kind = "MSG" THEN TCP!validate_message_server(line)
                    ELSE IF kind = "ERR" THEN TCP!validate_error_server(line)
                    ELSE TCP!validate_reply(line)
  BY DEF HearLine
<1>2. ASSUME NEW n \in {4, 5}, Len(line) >= n PROVE TCP!Glue(line, n) \in Texts
  <2>1. /\ SubSeq(line, n, Len(line)) \in Seq(Words)
        /\ Len(SubSeq(line, n, Len(line))) = Len(line) - n + 1
    <3>1. line \in Seq(Words) /\ Len(line) \in Nat
      BY <1>0, IsText, LenProperties
    <3>2. n \in 1 .. Len(line) + 1 /\ Len(line) \in n - 1 .. Len(line)
      BY <1>2, <3>1
    <3> QED  BY <3>1, <3>2, SubSeqProperties
  <2>2. Len(SubSeq(line, n, Len(line))) >= 1
    BY <1>0, <1>2, <2>1, IsText, LenProperties
  <2> QED  BY <2>1, <2>2, IsText DEF TCP!Glue
<1>3. ASSUME NEW user \in Texts, NEW content \in Texts
      PROVE  TCP!Reading(user, content) \in Readings
  BY DEF TCP!Reading
<1>4. ASSUME NEW user \in Texts
      PROVE  /\ TCP!Unreadable(user) \in Readings
             /\ [TCP!Unreadable(user) EXCEPT !.form = "truncated"] \in Readings
  BY EmptyIsText DEF TCP!Unreadable
<1>5. ASSUME NEW keyword, NEW user \in Texts
      PROVE  TCP!ReadFrom(line, keyword, user) \in Readings
  <2>1. Len(line) >= 5 => <<line[3]>> \in Texts
    <3>1. Len(line) >= 5 => 3 \in 1 .. Len(line)
      BY <1>0, IsText, LenProperties
    <3> QED  BY <1>0, <3>1, OneWord
  <2> QED  BY <1>2, <1>3, <1>4, <2>1 DEF TCP!ReadFrom
<1>6. read' \in Readings
  <2>1. TCP!Empty \in Texts
    BY EmptyIsText
  <2>2. CASE kind = "MSG"
    BY <1>0, <1>1, <1>5, <2>2 DEF TCP!validate_message_server
  <2>3. CASE kind = "ERR"
    BY <1>1, <1>5, <2>1, <2>3 DEF TCP!validate_error_server
  <2>4. CASE kind = "REPLY"
    <3>1. Len(line) \in Nat
      BY <1>0, IsText, LenProperties
    <3>2. read' = TCP!validate_reply(line)
      BY <1>1, <2>4
    <3>3. CASE Len(line) < 4
      <4>1. /\ TCP!Unreadable(TCP!Empty) \in Readings
            /\ [TCP!Unreadable(TCP!Empty) EXCEPT !.form = "truncated"] \in Readings
        BY <1>4, <2>1
      <4>2. \/ read' = TCP!Unreadable(TCP!Empty)
            \/ read' = [TCP!Unreadable(TCP!Empty) EXCEPT !.form = "truncated"]
        <5>1. CASE Len(line) < 3
          BY <3>2, <5>1 DEF TCP!validate_reply
        <5>2. CASE Len(line) = 3
          <6>1. ~(Len(line) < 3)
            BY <5>2
          <6>2. \/ TCP!validate_reply(line) = TCP!Unreadable(TCP!Empty)
                \/ TCP!validate_reply(line) = [TCP!Unreadable(TCP!Empty) EXCEPT !.form = "truncated"]
            <7>1. CASE \/ Upper[line[1]] # "REPLY" \/ Upper[line[2]] \notin {"OK", "NOK"}
                       \/ Upper[line[3]] # "IS"
              BY <6>1, <7>1 DEF TCP!validate_reply
            <7>2. CASE ~(\/ Upper[line[1]] # "REPLY" \/ Upper[line[2]] \notin {"OK", "NOK"}
                         \/ Upper[line[3]] # "IS")
              BY <5>2, <6>1, <7>2 DEF TCP!validate_reply
            <7> QED  BY <7>1, <7>2
          <6> QED  BY <3>2, <6>2
        <5>3. Len(line) < 3 \/ Len(line) = 3
          <6>1. \A n \in Nat : n < 4 => n < 3 \/ n = 3
            OBVIOUS
          <6> QED  BY <3>1, <3>3, <6>1, Zenon
        <5> QED  BY <5>1, <5>2, <5>3, Zenon
      <4> QED  BY <4>1, <4>2
    <3>4. CASE Len(line) >= 4
      <4>1. TCP!Glue(line, 4) \in Texts
        BY <1>2, <3>4
      <4> QED  BY <1>3, <1>4, <2>1, <3>1, <3>2, <3>4, <4>1 DEF TCP!validate_reply
    <3> QED  BY <3>1, <3>3, <3>4
  <2> QED  BY <2>2, <2>3, <2>4 DEF Kinds
<1>7. input' \in Inputs
  BY <1>1 DEF Inputs, Refusable
<1>8. protest' \in Seq(Words)
  <2>1. Protest \/ UNCHANGED protest
    BY DEF HearLine
  <2>2. tcpName' \in Texts
    BY <1>0 DEF HearLine, names
  <2> QED  BY <1>6, <2>1, <2>2, ProtestType DEF IInv, ReadInv
<1> QED  BY <1>6, <1>7, <1>8 DEF ReadInv

LEMMA RefuseLineInv ==
    ASSUME IInv, NEW line \in Lines, RefuseLine(line)
    PROVE  input' \in Inputs /\ ReadInv'
<1>1. input' \in Inputs
  BY DEF RefuseLine, Inputs
<1>2. read' \in Readings
  BY EmptyIsText DEF RefuseLine, Refused, Unread, Readings
<1>3. protest' \in Seq(Words)
  <2>1. tcpName' \in Texts /\ Protest
    BY DEF RefuseLine, names, IInv, NamesInv
  <2> QED  BY <1>2, <2>1, ProtestType
<1> QED  BY <1>1, <1>2, <1>3 DEF ReadInv

LEMMA HearDatagramInv ==
    ASSUME IInv, NEW kind \in Kinds, NEW payload \in Payloads, HearDatagram(kind, payload)
    PROVE  input' \in Inputs /\ ReadInv'
<1> DEFINE fields == payload.fields
<1> USE DEF UDP!StringsOf
<1>0. fields \in Seq(Texts) /\ UDP!Empty \in Texts /\ read' = UDP!ReadFields(fields, kind)
  BY InputAssumption, EmptyIsText DEF HearDatagram, UDP!Read
<1>9. protest' \in Seq(Words)
  BY DEF HearDatagram, IInv, ReadInv
<1> HIDE DEF fields
<1>1. input' \in Inputs
  BY DEF HearDatagram, Inputs
<1>2. CASE UDP!parse_and_validate(fields, kind)
  <2>1. Len(fields) \in {1, 2} /\ (kind # "REPLY" => fields[1] \in Texts)
        /\ fields[Len(fields)] \in Texts
    BY <1>0, <1>2 DEF UDP!parse_and_validate
  <2>2. read' = [user |-> IF kind = "REPLY" THEN UDP!Empty ELSE fields[1],
                 content |-> fields[Len(fields)], form |-> "valid"]
    BY <1>0, <1>2 DEF UDP!ReadFields
  <2> QED  BY <1>0, <1>1, <1>9, <2>1, <2>2 DEF ReadInv, Readings
<1>3. CASE ~UDP!parse_and_validate(fields, kind)
  BY <1>0, <1>1, <1>3, <1>9 DEF UDP!ReadFields, ReadInv, Readings
<1> QED  BY <1>2, <1>3

-----------------------------------------------------------------------------
LEMMA InitIInv == Init => IInv
<1> SUFFICES ASSUME Init PROVE IInv
  OBVIOUS
<1> QED
  BY EmptyIsText DEF Init, UDP!ValidatorInit, TCP!ValidatorInit, IInv, Inputs, NamesInv, MessagesInv,
     Types, SameMessage, ReadInv, Readings, Unread

LEMMA NextIInv == IInv /\ [Next]_vars => IInv'
<1> SUFFICES ASSUME IInv, [Next]_vars PROVE IInv'
  OBVIOUS
<1>1. ASSUME NEW line \in Typed, Type(line) PROVE IInv'
  <2>1. line \in Texts
    BY InputAssumption
  <2>2. input' \in Inputs /\ ReadInv'
    BY <1>1 DEF Type, Inputs, IInv, ReadInv
  <2> QED  BY <1>1, <2>1, <2>2, AuthInv, JoinInv, RenameInv, SayInv DEF Type, IInv
<1>2. ASSUME NEW error \in Complaints, Complain(error) PROVE IInv'
  <2>1. error \in Texts
    BY InputAssumption
  <2>2. input' \in Inputs /\ ReadInv'
    BY <1>2 DEF Complain, Inputs, IInv, ReadInv
  <2>3. NamesInv' /\ MessagesInv'
    BY <1>2, <2>1, FormedInv DEF Complain, UDP!form_error_message, UDP!Form,
       TCP!form_error_message, TCP!Form
  <2> QED  BY <2>2, <2>3 DEF IInv
<1>3. ASSUME UNCHANGED names PROVE NamesInv' /\ MessagesInv'
  BY <1>3 DEF names, IInv, NamesInv, MessagesInv, SameMessage
<1>4. CASE \E line \in Lines : HearLine(line)
  BY <1>3, <1>4, HearLineInv DEF HearLine, IInv
<1>8. CASE \E line \in Lines : RefuseLine(line)
  BY <1>3, <1>8, RefuseLineInv DEF RefuseLine, IInv
<1>5. CASE \E kind \in Kinds, payload \in Payloads : HearDatagram(kind, payload)
  BY <1>3, <1>5, HearDatagramInv DEF HearDatagram, IInv
<1>6. CASE Done
  <2> QED
    BY <1>6, EmptyIsText DEF Done, IInv, Inputs, NamesInv, MessagesInv,
     Types, SameMessage, ReadInv, Readings, Unread
<1>7. CASE UNCHANGED vars
  BY <1>3, <1>7 DEF vars, names, IInv, ReadInv
<1> QED  BY <1>1, <1>2, <1>4, <1>5, <1>6, <1>7, <1>8 DEF Next

(* IInv holds in every state of the two validators.                         *)
THEOREM Invariance == Spec => []IInv
BY InitIInv, NextIInv, PTL DEF Spec

(* Names, messages and what is read keep their types; a name never exceeds  *)
(* its limit.                                                               *)
THEOREM TypeCorrect == Spec => []TypeOK
<1>1. IInv => TypeOK
  BY DEF IInv, NamesInv, MessagesInv, Types, ReadInv, Readings, TypeOK
<1> QED  BY <1>1, Invariance, PTL

(* Whatever is typed, both validators accept or refuse it alike and form    *)
(* the same message with the same name.                                     *)
THEOREM MessagesAgree == Spec => []SameMessage
<1>1. IInv => SameMessage
  BY DEF IInv, MessagesInv
<1> QED  BY <1>1, Invariance, PTL

-----------------------------------------------------------------------------
(* Where the strings of a message come from, and their limits.              *)

FieldsInv ==
    LET fields == udpFormed.fields IN
    /\ udpFormed.type \in {"none", "refused"} => fields = <<>>
    /\ udpFormed.type = "renamed" => fields = <<udpName>>
    /\ udpFormed.type = "AUTH" => /\ Len(fields) = 3 /\ fields[2] = udpName
                                  /\ UDP!validate_id(fields[1]) /\ UDP!validate_secret(fields[3])
    /\ udpFormed.type = "JOIN" => /\ Len(fields) = 2 /\ fields[2] = udpName
                                  /\ UDP!validate_id(fields[1])
    /\ udpFormed.type \in {"MSG", "ERR"} => /\ fields = <<udpName, input.line>>
                                            /\ input.line \in Texts
                                            /\ UDP!validate_content(input.line)

LimitInv == udpName = Empty \/ UDP!validate_dname(udpName)

\* A message stands formed while its command is handled, a reading likewise.
HandledInv ==
    /\ input.from \notin {"user", "handler"} => udpFormed.type = "none"
    /\ input.from \notin {"TCP", "UDP"} => read = Unread
    /\ input.from # "TCP" => protest = <<>>

\* An ERR of the TCP handler's own names nobody or somebody with a valid name.
ProtestInv ==
    protest # <<>> => /\ \E error \in Complaints : protest = ErrorLine(Bearer, error)
                      /\ Bearer = Empty \/ UDP!validate_dname(Bearer)

OriginInv == FieldsInv /\ LimitInv /\ HandledInv /\ ProtestInv /\ ShownIsWhatCame

\* What a step does to the name.
NameStep == udpName' # udpName => udpFormed'.type \in {"AUTH", "renamed"}

LEMMA SameSize ==
    ASSUME NEW text
    PROVE  UDP!SizeOf(text) = SizeOf(text) /\ TCP!SizeOf(text) = SizeOf(text)
BY DEF UDP!SizeOf, TCP!SizeOf, SizeOf

LEMMA RefusedOrigin ==
    ASSUME LimitInv, udpFormed' = UDP!Refused, UNCHANGED udpName
    PROVE  FieldsInv' /\ LimitInv' /\ NameStep
BY DEF UDP!Refused, FieldsInv, LimitInv, NameStep

LEMMA AuthOrigin ==
    ASSUME LimitInv, NEW line, Auth(line)
    PROVE  FieldsInv' /\ LimitInv' /\ NameStep
<1> DEFINE a == Argument(line)
           accepted == /\ Len(a) = 3 /\ UDP!validate_id(<<a[1]>>)
                       /\ UDP!validate_dname(<<a[3]>>) /\ UDP!validate_secret(<<a[2]>>)
<1>0. UDP!Authorize(a)
  BY DEF Auth
<1> HIDE DEF a
<1>1. CASE accepted
  <2>1. /\ udpName' = <<a[3]>>
        /\ udpFormed' = [type |-> "AUTH", fields |-> <<<<a[1]>>, <<a[3]>>, <<a[2]>>>>]
    BY <1>0, <1>1 DEF UDP!Authorize, UDP!authorize_validate
  <2> QED  BY <1>1, <2>1 DEF FieldsInv, LimitInv, NameStep
<1>2. CASE ~accepted
  BY <1>0, <1>2, RefusedOrigin DEF UDP!Authorize, UDP!authorize_validate, UDP!Refuse
<1> QED  BY <1>1, <1>2

LEMMA JoinOrigin ==
    ASSUME LimitInv, NEW line, Join(line)
    PROVE  FieldsInv' /\ LimitInv' /\ NameStep
<1> DEFINE a == Argument(line)
           accepted == Len(a) = 1 /\ UDP!validate_id(a)
<1>0. UDP!Join(a)
  BY DEF Join
<1> HIDE DEF a
<1>1. CASE accepted
  <2>1. UNCHANGED udpName /\ udpFormed' = [type |-> "JOIN", fields |-> <<a, udpName>>]
    BY <1>0, <1>1 DEF UDP!Join, UDP!join_validate, UDP!Form
  <2> QED  BY <1>1, <2>1 DEF FieldsInv, LimitInv, NameStep
<1>2. CASE ~accepted
  BY <1>0, <1>2, RefusedOrigin DEF UDP!Join, UDP!join_validate, UDP!Refuse
<1> QED  BY <1>1, <1>2

LEMMA RenameOrigin ==
    ASSUME LimitInv, NEW line, Rename(line)
    PROVE  FieldsInv' /\ LimitInv' /\ NameStep
<1> DEFINE a == Argument(line)
<1>0. UDP!rename(a)
  BY DEF Rename
<1> HIDE DEF a
<1>1. CASE UDP!validate_dname(a)
  <2>1. udpName' = a /\ udpFormed' = [type |-> "renamed", fields |-> <<a>>]
    BY <1>0, <1>1 DEF UDP!rename
  <2> QED  BY <1>1, <2>1 DEF FieldsInv, LimitInv, NameStep
<1>2. CASE ~UDP!validate_dname(a)
  BY <1>0, <1>2, RefusedOrigin DEF UDP!rename, UDP!Refuse
<1> QED  BY <1>1, <1>2

\* A MSG or an ERR carries what was handled.
LEMMA FormedOrigin ==
    ASSUME LimitInv, NEW type \in {"MSG", "ERR"}, NEW content \in Texts,
           UDP!validate_content(content), input'.line = content,
           UDP!Form(type, <<udpName, content>>)
    PROVE  FieldsInv' /\ LimitInv' /\ NameStep
BY DEF UDP!Form, FieldsInv, LimitInv, NameStep

LEMMA SayOrigin ==
    ASSUME LimitInv, NEW line \in Texts, Say(line), input'.line = line
    PROVE  FieldsInv' /\ LimitInv' /\ NameStep
<1>1. CASE UDP!validate_content(line)
  BY <1>1, FormedOrigin DEF Say, UDP!message_validate
<1>2. CASE ~UDP!validate_content(line)
  BY <1>2, RefusedOrigin DEF Say, UDP!message_validate, UDP!Refuse
<1> QED  BY <1>1, <1>2

\* The errors the handlers report are valid contents.
LEMMA ComplaintIsContent ==
    ASSUME NEW error \in Complaints
    PROVE  error \in Texts /\ UDP!validate_content(error)
<1>1. error \in Texts
  BY InputAssumption
<1>2. UDP!validate_content(error)
  BY ComplaintAssumption, SameSize DEF UDP!validate_content, UDP!Printable, Printable
<1> QED  BY <1>1, <1>2

LEMMA ComplainOrigin ==
    ASSUME LimitInv, NEW error \in Complaints, Complain(error)
    PROVE  FieldsInv' /\ LimitInv' /\ NameStep
<1>1. error \in Texts /\ UDP!validate_content(error)
  BY ComplaintIsContent
<1>3. UDP!Form("ERR", <<udpName, error>>) /\ input'.line = error
  BY DEF Complain, UDP!form_error_message
<1> QED  BY <1>1, <1>3, FormedOrigin
-----------------------------------------------------------------------------
(* A line is put together and taken apart again.                            *)

LEMMA Joined ==
    ASSUME NEW head \in Seq(Words), NEW rest \in Seq(Words)
    PROVE  /\ head \o rest \in Seq(Words) /\ Len(head) \in Nat /\ Len(rest) \in Nat
           /\ Len(head \o rest) = Len(head) + Len(rest)
           /\ \A i \in 1 .. Len(head) : (head \o rest)[i] = head[i]
           /\ \A i \in 1 .. Len(rest) : (head \o rest)[Len(head) + i] = rest[i]
<1>1. head \o rest \in Seq(Words) /\ Len(head) \in Nat /\ Len(rest) \in Nat
  BY LenProperties
<1> QED  BY <1>1, ConcatProperties

LEMMA OneMore ==
    ASSUME NEW head \in Seq(Words), NEW word \in Words, NEW line \in Seq(Words),
           Len(line) = Len(head) + 1, line[Len(head) + 1] = word,
           \A i \in 1 .. Len(head) : line[i] = head[i]
    PROVE  head \o <<word>> = line
<1> DEFINE rest == <<word>>
           whole == head \o rest
<1>1. rest \in Seq(Words) /\ Len(rest) = 1 /\ rest[1] = word
  OBVIOUS
<1> HIDE DEF rest
<1>2. /\ whole \in Seq(Words) /\ Len(head) \in Nat /\ Len(whole) = Len(head) + Len(rest)
      /\ \A i \in 1 .. Len(head) : whole[i] = head[i]
      /\ \A i \in 1 .. Len(rest) : whole[Len(head) + i] = rest[i]
  BY <1>1, Joined
<1> HIDE DEF whole
<1>3. Len(whole) = Len(head) + 1 /\ whole[Len(head) + 1] = word
  BY <1>1, <1>2
<1>4. \A i \in 1 .. Len(whole) : whole[i] = line[i]
  BY <1>2, <1>3
<1>5. whole = line
  BY <1>2, <1>3, <1>4, SeqEqual
<1> QED  BY <1>5 DEF whole, rest

LEMMA FourWords ==
    ASSUME NEW a \in Words, NEW b \in Words, NEW c \in Words, NEW d \in Words
    PROVE  <<a, b>> \o <<c>> \o <<d>> = <<a, b, c, d>>
<1> DEFINE ab == <<a, b>>  abc == <<a, b, c>>  abcd == <<a, b, c, d>>
<1>1. /\ ab \in Seq(Words) /\ abc \in Seq(Words) /\ abcd \in Seq(Words)
      /\ Len(ab) = 2 /\ Len(abc) = 3 /\ Len(abcd) = 4
      /\ ab[1] = a /\ ab[2] = b /\ abc[1] = a /\ abc[2] = b /\ abc[3] = c
      /\ abcd[1] = a /\ abcd[2] = b /\ abcd[3] = c /\ abcd[4] = d
  OBVIOUS
<1> HIDE DEF ab, abc, abcd
<1>2. ab \o <<c>> = abc
  <2>1. Len(abc) = Len(ab) + 1 /\ abc[Len(ab) + 1] = c /\ \A i \in 1 .. Len(ab) : abc[i] = ab[i]
    BY <1>1
  <2> QED  BY <1>1, <2>1, OneMore
<1>3. abc \o <<d>> = abcd
  <2>1. /\ Len(abcd) = Len(abc) + 1 /\ abcd[Len(abc) + 1] = d
        /\ \A i \in 1 .. Len(abc) : abcd[i] = abc[i]
    BY <1>1
  <2> QED  BY <1>1, <2>1, OneMore
<1> QED  BY <1>2, <1>3 DEF ab, abcd

LEMMA GlueOf ==
    ASSUME NEW line \in Seq(Words), NEW n \in Nat, n \in 1 .. Len(line)
    PROVE  /\ TCP!Glue(line, n) \in Seq(Words)
           /\ Len(TCP!Glue(line, n)) = Len(line) - n + 1
           /\ \A i \in 1 .. Len(line) - n + 1 : TCP!Glue(line, n)[i] = line[n + i - 1]
<1>1. Len(line) \in Nat
  BY LenProperties
<1>2. n \in 1 .. Len(line) + 1 /\ Len(line) \in n - 1 .. Len(line)
  BY <1>1
<1> QED  BY <1>1, <1>2, SubSeqProperties DEF TCP!Glue

\* What was put behind a head is what is glued together from there on.
LEMMA GlueBehind ==
    ASSUME NEW head \in Seq(Words), NEW rest \in Seq(Words), Len(rest) >= 1
    PROVE  TCP!Glue(head \o rest, Len(head) + 1) = rest
<1> DEFINE line == head \o rest
           n == Len(head) + 1
           g == TCP!Glue(line, n)
<1>1. line \in Seq(Words) /\ Len(head) \in Nat /\ Len(rest) \in Nat
      /\ Len(line) = Len(head) + Len(rest)
      /\ \A i \in 1 .. Len(rest) : line[Len(head) + i] = rest[i]
  BY Joined
<1> HIDE DEF line
<1>2. n \in Nat /\ n \in 1 .. Len(line)
  BY <1>1
<1>3. g \in Seq(Words) /\ Len(g) = Len(line) - n + 1
      /\ \A i \in 1 .. Len(line) - n + 1 : g[i] = line[n + i - 1]
  BY <1>1, <1>2, GlueOf
<1>4. Len(line) - n + 1 = Len(rest) /\ \A i \in 1 .. Len(rest) : n + i - 1 = Len(head) + i
  BY <1>1
<1> HIDE DEF g, n
<1>5. \A i \in 1 .. Len(g) : g[i] = rest[i]
  BY <1>1, <1>3, <1>4
<1>6. g = rest
  BY <1>3, <1>4, <1>5, SeqEqual
<1> QED  BY <1>6 DEF g, n, line

\* A line with its first words replaced.
LEMMA Reheaded ==
    ASSUME NEW line \in Seq(Words), NEW head \in Seq(Words), NEW n \in Nat, n \in 1 .. Len(line),
           Len(head) = n - 1,
           NEW places \in SUBSET Nat,
           \A i \in 1 .. n - 1 : line[i] = head[i] \/ (i \in places /\ Upper[line[i]] = Upper[head[i]])
    PROVE  SameButCase(line, head \o TCP!Glue(line, n), places)
<1> DEFINE g == TCP!Glue(line, n)
           whole == head \o g
<1>1. g \in Seq(Words) /\ Len(g) = Len(line) - n + 1 /\ Len(line) \in Nat
      /\ \A i \in 1 .. Len(line) - n + 1 : g[i] = line[n + i - 1]
  BY GlueOf, LenProperties
<1> HIDE DEF g
<1>2. /\ Len(whole) = Len(head) + Len(g)
      /\ \A i \in 1 .. Len(head) : whole[i] = head[i]
      /\ \A i \in 1 .. Len(g) : whole[Len(head) + i] = g[i]
  BY <1>1, Joined
<1> HIDE DEF whole
<1>3. Len(whole) = Len(line) /\ DOMAIN line = 1 .. Len(line)
  BY <1>1, <1>2
<1>4. ASSUME NEW i \in 1 .. Len(line)
      PROVE  line[i] = whole[i] \/ (i \in places /\ Upper[line[i]] = Upper[whole[i]])
  <2>1. CASE i <= n - 1
    <3>1. i \in 1 .. n - 1
      BY <1>1, <2>1
    <3> QED  BY <1>2, <3>1
  <2>2. CASE i > n - 1
    <3>1. /\ i - n + 1 \in 1 .. Len(g) /\ Len(head) + (i - n + 1) = i /\ n + (i - n + 1) - 1 = i
          /\ i - n + 1 \in 1 .. Len(line) - n + 1
      BY <1>1, <2>2
    <3>2. whole[Len(head) + (i - n + 1)] = g[i - n + 1]
      BY <1>2, <3>1
    <3>3. g[i - n + 1] = line[n + (i - n + 1) - 1]
      BY <1>1, <3>1
    <3> QED  BY <3>1, <3>2, <3>3
  <2> QED  BY <1>1, <2>1, <2>2
<1>5. SameButCase(line, whole, places)
  BY <1>3, <1>4 DEF SameButCase
<1> QED  BY <1>5 DEF whole, g
-----------------------------------------------------------------------------
(* What is shown of a message of the server is what came.                   *)

LEMMA ReadFromShows ==
    ASSUME NEW line \in Seq(Words), NEW keyword \in {"MSG", "ERR"}, NEW otherwise,
           TCP!ReadFrom(line, keyword, otherwise).form = "valid"
    PROVE  LET reading == TCP!ReadFrom(line, keyword, otherwise) IN
           SameButCase(line, <<keyword, "FROM">> \o reading.user \o <<"IS">> \o reading.content,
                       {1, 2, 4})
<1> DEFINE ok == /\ Len(line) >= 5
                 /\ Upper[line[1]] = keyword /\ Upper[line[2]] = "FROM" /\ Upper[line[4]] = "IS"
                 /\ TCP!validate_dname(<<line[3]>>)
           reading == TCP!ReadFrom(line, keyword, otherwise)
           head == <<keyword, "FROM", line[3], "IS">>
<1>1. ok
  <2>1. ~ok => reading = TCP!Unreadable(otherwise)
    BY DEF TCP!ReadFrom
  <2> QED  BY <2>1 DEF TCP!Unreadable
<1>2. reading.user = <<line[3]>> /\ reading.content = TCP!Glue(line, 5)
  <2>1. reading = TCP!Reading(<<line[3]>>, TCP!Glue(line, 5))
    BY <1>1 DEF TCP!ReadFrom
  <2> QED  BY <2>1 DEF TCP!Reading
<1>3. /\ 5 \in 1 .. Len(line) /\ line[3] \in Words
      /\ keyword \in Keywords /\ "FROM" \in Keywords /\ "IS" \in Keywords
      /\ keyword \in Words /\ "FROM" \in Words /\ "IS" \in Words
  <2>1. Len(line) \in Nat
    BY LenProperties
  <2>2. 5 \in 1 .. Len(line) /\ 3 \in 1 .. Len(line)
    BY <1>1, <2>1
  <2>3. keyword \in Keywords /\ "FROM" \in Keywords /\ "IS" \in Keywords
    BY DEF Keywords
  <2>4. line[3] \in Words
    BY <2>2
  <2> QED  BY <2>2, <2>3, <2>4, WordsInLexicon
<1>4. head \in Seq(Words) /\ Len(head) = 4
  BY <1>3
<1>5. <<keyword, "FROM">> \o <<line[3]>> \o <<"IS">> = head
  BY <1>3, FourWords
<1>6. \A i \in 1 .. 4 :
        line[i] = head[i] \/ (i \in {1, 2, 4} /\ Upper[line[i]] = Upper[head[i]])
  <2>1. Upper[keyword] = keyword /\ Upper["FROM"] = "FROM" /\ Upper["IS"] = "IS"
    BY <1>3, LexiconAssumption
  <2>2. head[1] = keyword /\ head[2] = "FROM" /\ head[3] = line[3] /\ head[4] = "IS"
    OBVIOUS
  <2> QED  BY <1>1, <2>1, <2>2
<1> HIDE DEF head
<1>7. SameButCase(line, head \o TCP!Glue(line, 5), {1, 2, 4})
  <2>1. Len(head) = 5 - 1 /\ 5 - 1 = 4 /\ 5 \in Nat /\ {1, 2, 4} \in SUBSET Nat
    BY <1>4
  <2> QED  BY <1>3, <1>4, <1>6, <2>1, Reheaded
<1> QED  BY <1>2, <1>5, <1>7

LEMMA ReplyShows ==
    ASSUME NEW line \in Seq(Words), TCP!validate_reply(line).form = "valid"
    PROVE  \E verdict \in {"OK", "NOK"} :
             SameButCase(line, <<"REPLY", verdict, "IS">> \o TCP!validate_reply(line).content, 1 .. 3)
<1> DEFINE reading == TCP!validate_reply(line)
           verdict == Upper[line[2]]
           head == <<"REPLY", verdict, "IS">>
           unfit == \/ Upper[line[1]] # "REPLY" \/ Upper[line[2]] \notin {"OK", "NOK"}
                    \/ Upper[line[3]] # "IS"
<1>0. Len(line) \in Nat
  BY LenProperties
<1>1. TCP!Unreadable(TCP!Empty).form = "invalid"
      /\ [TCP!Unreadable(TCP!Empty) EXCEPT !.form = "truncated"].form = "truncated"
  BY DEF TCP!Unreadable
<1>2. ~(Len(line) < 3)
  BY <1>1 DEF TCP!validate_reply
<1>3. ~unfit
  BY <1>1, <1>2 DEF TCP!validate_reply
<1>4. Len(line) # 3
  BY <1>1, <1>2, <1>3 DEF TCP!validate_reply
<1>5. reading = TCP!Reading(TCP!Empty, TCP!Glue(line, 4))
  BY <1>2, <1>3, <1>4 DEF TCP!validate_reply
<1>6. reading.content = TCP!Glue(line, 4)
  BY <1>5 DEF TCP!Reading
<1>7. 4 \in 1 .. Len(line)
  <2>1. \A n \in Nat : ~(n < 3) /\ n # 3 => 4 \in 1 .. n
    OBVIOUS
  <2> QED  BY <1>0, <1>2, <1>4, <2>1, Zenon
<1>8. verdict \in {"OK", "NOK"} /\ {"REPLY", "IS", verdict} \subseteq Keywords
  BY <1>3 DEF Keywords
<1>9. head \in Seq(Words) /\ Len(head) = 3
  <2>1. "REPLY" \in Words /\ "IS" \in Words /\ verdict \in Words
    BY <1>8, WordsInLexicon
  <2> QED  BY <2>1
<1>10. \A i \in 1 .. 3 :
         line[i] = head[i] \/ (i \in 1 .. 3 /\ Upper[line[i]] = Upper[head[i]])
  <2>1. Upper["REPLY"] = "REPLY" /\ Upper[verdict] = verdict /\ Upper["IS"] = "IS"
    BY <1>8, LexiconAssumption
  <2>2. head[1] = "REPLY" /\ head[2] = verdict /\ head[3] = "IS"
    OBVIOUS
  <2> QED  BY <1>3, <2>1, <2>2
<1> HIDE DEF head
<1>11. SameButCase(line, head \o TCP!Glue(line, 4), 1 .. 3)
  <2>1. Len(head) = 4 - 1 /\ 4 \in Nat /\ 1 .. 3 \in SUBSET Nat
    BY <1>9
  <2> QED  BY <1>7, <1>9, <1>10, <2>1, Reheaded
<1> QED  BY <1>6, <1>8, <1>11 DEF head

LEMMA HearLineOrigin ==
    ASSUME IInv, NEW line \in Lines, HearLine(line)
    PROVE  ShownIsWhatCame'
<1>0. line \in Seq(Words)
  BY InputAssumption, IsText
<1>1. PICK kind \in Kinds :
         /\ input' = [from |-> "TCP", kind |-> kind, line |-> line]
         /\ read' = IF kind = "MSG" THEN TCP!validate_message_server(line)
                    ELSE IF kind = "ERR" THEN TCP!validate_error_server(line)
                    ELSE TCP!validate_reply(line)
  BY DEF HearLine
<1> SUFFICES ASSUME read'.form = "valid" PROVE ShownIsWhatCame'
  BY DEF ShownIsWhatCame
<1>2. CASE kind \in {"MSG", "ERR"}
  <2>1. PICK otherwise : read' = TCP!ReadFrom(line, kind, otherwise)
    BY <1>1, <1>2 DEF TCP!validate_message_server, TCP!validate_error_server
  <2>2. SameButCase(line, <<kind, "FROM">> \o read'.user \o <<"IS">> \o read'.content, {1, 2, 4})
    BY <1>0, <1>2, <2>1, ReadFromShows
  <2> QED  BY <1>1, <1>2, <2>2 DEF ShownIsWhatCame
<1>3. CASE kind = "REPLY"
  <2>1. read' = TCP!validate_reply(line)
    BY <1>1, <1>3
  <2>2. \E verdict \in {"OK", "NOK"} :
          SameButCase(line, <<"REPLY", verdict, "IS">> \o read'.content, 1 .. 3)
    BY <1>0, <2>1, ReplyShows
  <2> QED  BY <1>1, <1>3, <2>2 DEF ShownIsWhatCame
<1> QED  BY <1>2, <1>3 DEF Kinds

LEMMA HearDatagramOrigin ==
    ASSUME NEW kind \in Kinds, NEW payload \in Payloads, HearDatagram(kind, payload)
    PROVE  ShownIsWhatCame'
<1> DEFINE fields == payload.fields
<1>0. fields \in Seq(Texts)
  BY InputAssumption
<1>1. /\ input' = [from |-> "UDP", kind |-> kind, payload |-> payload]
      /\ read' = UDP!ReadFields(fields, kind)
  BY DEF HearDatagram, UDP!Read, UDP!StringsOf
<1>5. input'.from = "UDP" /\ input'.payload.fields = fields /\ input'.kind = kind
  BY <1>1
<1> HIDE DEF fields
<1> SUFFICES ASSUME read'.form = "valid" PROVE ShownIsWhatCame'
  BY DEF ShownIsWhatCame
<1>2. UDP!parse_and_validate(fields, kind)
  BY <1>1 DEF UDP!ReadFields
<1>3. /\ read'.user = IF kind = "REPLY" THEN UDP!Empty ELSE fields[1]
      /\ read'.content = fields[Len(fields)]
  BY <1>1, <1>2 DEF UDP!ReadFields
<1>4. fields = IF kind = "REPLY" THEN <<read'.content>> ELSE <<read'.user, read'.content>>
  BY <1>0, <1>2, <1>3 DEF UDP!parse_and_validate
<1> QED  BY <1>4, <1>5 DEF ShownIsWhatCame
-----------------------------------------------------------------------------
(* Whom an ERR the TCP handler makes on its own names.                      *)

LEMMA EmptyHasNoCharacters == UDP!SizeOf(Empty) = 0
<1> DEFINE P(f) == f = [i \in 0 .. Len(Empty) |->
                          IF i = 0 THEN 0 ELSE f[i - 1] + Size[Empty[i]]]
           g == [i \in 0 .. 1 |-> 0]
           characters == CHOOSE f : P(f)
<1>1. Len(Empty) = 1 /\ Size[Empty[1]] = 0
  <2>1. Size[""] = 0
    BY LexiconAssumption
  <2>2. Len(Empty) = 1 /\ Empty[1] = ""
    BY DEF Empty
  <2> QED  BY <2>1, <2>2, Zenon
<1>2. P(characters)
  <2>1. 0 .. Len(Empty) = 0 .. 1
    BY <1>1
  <2>2. \A i \in 0 .. 1 : 0 = IF i = 0 THEN 0 ELSE g[i - 1] + Size[Empty[i]]
    BY <1>1
  <2>3. P(g)
    BY <2>1, <2>2
  <2> HIDE DEF P
  <2> QED  BY <2>3, Zenon
<1>3. UDP!SizeOf(Empty) = characters[Len(Empty)] + Len(Empty) - 1
  BY DEF UDP!SizeOf
<1>4. characters[0] = 0 /\ characters[1] = characters[0] + Size[Empty[1]]
  <2> HIDE DEF characters
  <2>1. 0 \in 0 .. Len(Empty) /\ 1 \in 0 .. Len(Empty)
    BY <1>1
  <2> QED  BY <1>2, <2>1
<1> HIDE DEF characters
<1>5. characters[Len(Empty)] = 0
  BY <1>1, <1>4
<1> QED  BY <1>1, <1>3, <1>5

\* The user that is read is the one of the line or the one it is given.
LEMMA UserRead ==
    ASSUME NEW line, NEW keyword, NEW otherwise
    PROVE  LET user == TCP!ReadFrom(line, keyword, otherwise).user IN
           user = otherwise \/ UDP!validate_dname(user)
<1> DEFINE ok == /\ Len(line) >= 5
                 /\ Upper[line[1]] = keyword /\ Upper[line[2]] = "FROM" /\ Upper[line[4]] = "IS"
                 /\ TCP!validate_dname(<<line[3]>>)
           reading == TCP!ReadFrom(line, keyword, otherwise)
<1>1. CASE ok
  <2>1. reading = TCP!Reading(<<line[3]>>, TCP!Glue(line, 5))
    BY <1>1 DEF TCP!ReadFrom
  <2>2. reading.user = <<line[3]>>
    BY <2>1 DEF TCP!Reading
  <2> QED  BY <1>1, <2>2, SameLimits
<1>2. CASE ~ok
  <2>1. reading = TCP!Unreadable(otherwise)
    BY <1>2 DEF TCP!ReadFrom
  <2> QED  BY <2>1 DEF TCP!Unreadable
<1> QED  BY <1>1, <1>2

LEMMA HearLineProtest ==
    ASSUME IInv, OriginInv, NEW line \in Lines, HearLine(line)
    PROVE  ProtestInv'
<1>1. tcpName' = udpName /\ (udpName = Empty \/ UDP!validate_dname(udpName))
  BY DEF HearLine, names, IInv, NamesInv, OriginInv, LimitInv
<1>2. PICK kind \in Kinds :
         /\ input' = [from |-> "TCP", kind |-> kind, line |-> line]
         /\ read' = IF kind = "MSG" THEN TCP!validate_message_server(line)
                    ELSE IF kind = "ERR" THEN TCP!validate_error_server(line)
                    ELSE TCP!validate_reply(line)
  BY DEF HearLine
<1>3. Bearer' = Empty \/ UDP!validate_dname(Bearer')
  <2>1. CASE kind = "MSG"
    <3>1. Bearer' = read'.user /\ read' = TCP!ReadFrom(line, "MSG", tcpName)
      BY <1>2, <2>1 DEF Bearer, TCP!validate_message_server
    <3>2. tcpName = udpName
      BY DEF IInv, NamesInv
    <3> QED  BY <1>1, <3>1, <3>2, UserRead
  <2>2. CASE kind # "MSG"
    BY <1>1, <1>2, <2>2 DEF Bearer
  <2> QED  BY <2>1, <2>2
<1>4. CASE Protest
  BY <1>3, <1>4 DEF Protest, ProtestInv
<1>5. CASE UNCHANGED protest
  <2>1. protest = <<>>
    BY DEF HearLine, Idle, Nothing, OriginInv, HandledInv
  <2> QED  BY <1>5, <2>1 DEF ProtestInv
<1> QED  BY <1>4, <1>5 DEF HearLine

LEMMA RefuseLineProtest ==
    ASSUME IInv, OriginInv, NEW line \in Lines, RefuseLine(line)
    PROVE  ProtestInv' /\ ShownIsWhatCame'
<1>1. read' = Refused /\ read'.user = Empty /\ read'.form = "refused"
  BY DEF RefuseLine, Refused, Unread
<1>2. tcpName' = Empty \/ UDP!validate_dname(tcpName')
  BY DEF RefuseLine, names, IInv, NamesInv, OriginInv, LimitInv
<1>3. Bearer' = Empty \/ UDP!validate_dname(Bearer')
  BY <1>1, <1>2 DEF Bearer
<1>4. ProtestInv'
  BY <1>3 DEF RefuseLine, Protest, ProtestInv
<1>5. ShownIsWhatCame'
  BY <1>1 DEF ShownIsWhatCame
<1> QED  BY <1>4, <1>5
-----------------------------------------------------------------------------
LEMMA InitOrigin == Init => OriginInv
<1> SUFFICES ASSUME Init PROVE OriginInv
  OBVIOUS
<1>1. /\ input = [from |-> "nobody"] /\ read = Unread /\ udpName = Empty
      /\ udpFormed = [type |-> "none", fields |-> <<>>] /\ protest = <<>>
  BY EmptyIsText DEF Init, Nothing, UDP!ValidatorInit
<1>2. FieldsInv /\ LimitInv /\ HandledInv /\ ProtestInv
  BY <1>1 DEF FieldsInv, LimitInv, HandledInv, ProtestInv
<1>3. ShownIsWhatCame
  BY <1>1 DEF Unread, ShownIsWhatCame
<1> QED  BY <1>2, <1>3 DEF OriginInv

\* Every step keeps OriginInv, and the name follows the command.
LEMMA NextOrigin ==
    ASSUME IInv, OriginInv, [Next]_vars
    PROVE  OriginInv' /\ NameStep
<1> USE DEF OriginInv
<1>0. Idle => udpFormed.type = "none" /\ read = Unread /\ protest = <<>>
  BY DEF Idle, Nothing, HandledInv
<1>1. ASSUME NEW line \in Typed, Type(line) PROVE OriginInv' /\ NameStep
  <2>1. line \in Texts /\ input' = [from |-> "user", line |-> line]
        /\ read' = Unread /\ protest' = <<>>
    BY <1>0, <1>1, InputAssumption DEF Type
  <2>2. FieldsInv' /\ LimitInv' /\ NameStep
    BY <1>1, <2>1, AuthOrigin, JoinOrigin, RenameOrigin, SayOrigin DEF Type
  <2> QED  BY <2>1, <2>2 DEF HandledInv, ProtestInv, ShownIsWhatCame, Unread
<1>2. ASSUME NEW error \in Complaints, Complain(error) PROVE OriginInv' /\ NameStep
  <2>1. input' = [from |-> "handler", line |-> error] /\ read' = Unread /\ protest' = <<>>
    BY <1>0, <1>2 DEF Complain
  <2>2. FieldsInv' /\ LimitInv' /\ NameStep
    BY <1>2, ComplainOrigin
  <2> QED  BY <2>1, <2>2 DEF HandledInv, ProtestInv, ShownIsWhatCame, Unread
<1>3. ASSUME Idle, UNCHANGED <<udpName, udpFormed>> PROVE FieldsInv' /\ LimitInv' /\ NameStep
  BY <1>0, <1>3 DEF FieldsInv, LimitInv, NameStep
<1>4. ASSUME NEW line \in Lines, HearLine(line) PROVE OriginInv' /\ NameStep
  <2>1. Idle /\ UNCHANGED <<udpName, udpFormed>> /\ input'.from = "TCP"
    BY <1>4 DEF HearLine, names
  <2> QED  BY <1>0, <1>3, <1>4, <2>1, HearLineOrigin, HearLineProtest DEF HandledInv
<1>8. ASSUME NEW line \in Lines, RefuseLine(line) PROVE OriginInv' /\ NameStep
  <2>1. Idle /\ UNCHANGED <<udpName, udpFormed>> /\ input'.from = "TCP"
    BY <1>8 DEF RefuseLine, names
  <2> QED  BY <1>0, <1>3, <1>8, <2>1, RefuseLineProtest DEF HandledInv
<1>5. ASSUME NEW kind \in Kinds, NEW payload \in Payloads, HearDatagram(kind, payload)
      PROVE  OriginInv' /\ NameStep
  <2>1. /\ Idle /\ UNCHANGED <<udpName, udpFormed>> /\ input'.from = "UDP"
        /\ protest' = <<>>
    BY <1>0, <1>5 DEF HearDatagram, names
  <2> QED  BY <1>0, <1>3, <1>5, <2>1, HearDatagramOrigin DEF HandledInv, ProtestInv
<1>6. CASE Done
  BY <1>6 DEF Done, Nothing, Unread, FieldsInv, LimitInv, HandledInv, ProtestInv, ShownIsWhatCame,
     NameStep
<1>7. CASE UNCHANGED vars
  BY <1>7 DEF vars, FieldsInv, LimitInv, HandledInv, ProtestInv, Bearer, ShownIsWhatCame, NameStep
<1> QED  BY <1>1, <1>2, <1>4, <1>5, <1>6, <1>7, <1>8 DEF Next

(* In every state the strings of a message formed are within their limits  *)
(* and come from the command that is being handled.                        *)
THEOREM Origins == Spec => []OriginInv
<1>1. IInv /\ OriginInv /\ [Next]_vars => OriginInv'
  BY NextOrigin
<1> QED  BY InitOrigin, <1>1, Invariance, PTL DEF Spec

(* What is shown of a message of the server is the user and the content     *)
(* that make up the whole line over TCP, and over UDP all the strings that  *)
(* end in NUL; the bytes behind the last NUL are not among what is shown.   *)
THEOREM ShownAsItCame == Spec => []ShownIsWhatCame
<1>1. OriginInv => ShownIsWhatCame
  BY DEF OriginInv
<1> QED  BY <1>1, Origins, PTL

(* A command changes the name in both clients only when it is accepted, and *)
(* an AUTH carries the name it changes it to.                               *)
THEOREM NameIsTheCommands == Spec => NameFollowsCommand
<1> DEFINE A == /\ udpName' # udpName => udpFormed'.type \in {"AUTH", "renamed"}
                /\ udpFormed'.type = "AUTH" => udpFormed'.fields[2] = udpName'
                /\ tcpName' # tcpName => tcpFormed'.type \in {"AUTH", "renamed"}
<1>1. IInv /\ IInv' /\ OriginInv /\ [Next]_vars => [A]_vars
  <2> SUFFICES ASSUME IInv, IInv', OriginInv, [Next]_vars PROVE A
    OBVIOUS
  <2>1. OriginInv' /\ NameStep
    BY NextOrigin
  <2>2. udpName = tcpName /\ udpName' = tcpName' /\ udpFormed'.type = tcpFormed'.type
    BY DEF IInv, NamesInv, MessagesInv, SameMessage
  <2> QED  BY <2>1, <2>2 DEF OriginInv, FieldsInv, NameStep
<1>2. Spec => [][A]_vars
  BY <1>1, Invariance, Origins, PTL DEF Spec
<1> QED  BY <1>2 DEF NameFollowsCommand

-----------------------------------------------------------------------------
(* What is read back.                                                       *)

LEMMA DatagramReadBack ==
    ASSUME IInv, OriginInv, NEW kind \in {"MSG", "ERR"},
           udpFormed.type = kind, udpName # Empty
    PROVE  UDP!ReadFields(udpFormed.fields, kind)
             = [user |-> udpName, content |-> input.line, form |-> "valid"]
<1>1. /\ udpFormed.fields = <<udpName, input.line>>
      /\ UDP!validate_content(input.line) /\ UDP!validate_dname(udpName)
  BY DEF OriginInv, FieldsInv, LimitInv
<1>2. UDP!parse_and_validate(udpFormed.fields, kind)
  BY <1>1 DEF UDP!parse_and_validate
<1> QED  BY <1>1, <1>2 DEF UDP!ReadFields

\* Where the words of a line are that names a user of one word.
LEMMA LineOf ==
    ASSUME NEW kind \in {"MSG", "ERR"}, NEW word \in Words, NEW content \in Texts
    PROVE  LET line == <<kind, "FROM">> \o <<word>> \o <<"IS">> \o content IN
           /\ Len(line) >= 5 /\ line[3] = word /\ TCP!Glue(line, 5) = content
           /\ Upper[line[1]] = kind /\ Upper[line[2]] = "FROM" /\ Upper[line[4]] = "IS"
<1> DEFINE head == <<kind, "FROM", word, "IS">>
           line == head \o content
<1>1. content \in Seq(Words) /\ Len(content) \in Nat /\ Len(content) >= 1
  BY IsText, LenProperties
<1>2. kind \in Keywords /\ "FROM" \in Keywords /\ "IS" \in Keywords
      /\ kind \in Words /\ "FROM" \in Words /\ "IS" \in Words
  <2>1. kind \in Keywords /\ "FROM" \in Keywords /\ "IS" \in Keywords
    BY DEF Keywords
  <2> QED  BY <2>1, WordsInLexicon
<1>3. <<kind, "FROM">> \o <<word>> \o <<"IS">> = head
  BY <1>2, FourWords
<1>4. /\ head \in Seq(Words) /\ Len(head) = 4
      /\ head[1] = kind /\ head[2] = "FROM" /\ head[3] = word /\ head[4] = "IS"
  BY <1>2
<1> HIDE DEF head
<1>5. Len(line) >= 5 /\ \A i \in 1 .. 4 : line[i] = head[i]
  <2>1. Len(line) = Len(head) + Len(content)
        /\ \A i \in 1 .. Len(head) : line[i] = head[i]
    BY <1>1, <1>4, Joined
  <2> HIDE DEF line
  <2> QED  BY <1>1, <1>4, <2>1
<1>6. TCP!Glue(line, 5) = content
  <2>1. TCP!Glue(line, Len(head) + 1) = content
    BY <1>1, <1>4, GlueBehind
  <2>2. Len(head) + 1 = 5
    BY <1>4
  <2> QED  BY <2>1, <2>2
<1> HIDE DEF line
<1>7. line[1] = kind /\ line[2] = "FROM" /\ line[3] = word /\ line[4] = "IS"
  BY <1>4, <1>5
<1>8. Upper[line[1]] = kind /\ Upper[line[2]] = "FROM" /\ Upper[line[4]] = "IS"
  BY <1>2, <1>7, LexiconAssumption
<1>9. line = <<kind, "FROM">> \o <<word>> \o <<"IS">> \o content
  BY <1>3 DEF line
<1> QED  BY <1>5, <1>6, <1>7, <1>8, <1>9

LEMMA LineReadBack ==
    ASSUME NEW kind \in {"MSG", "ERR"}, NEW name \in Texts, NEW content \in Texts, NEW otherwise,
           Len(name) = 1, UDP!validate_dname(name), UDP!validate_content(content)
    PROVE  TCP!ReadFrom(<<kind, "FROM">> \o name \o <<"IS">> \o content, kind, otherwise)
             = [user |-> name, content |-> content, form |-> "valid"]
<1> DEFINE line == <<kind, "FROM">> \o name \o <<"IS">> \o content
<1>1. PICK word \in Words : name = <<word>>
  <2>1. name[1] \in Words /\ name \in Seq(Words)
    <3>1. 1 \in 1 .. Len(name)
      OBVIOUS
    <3> QED  BY <3>1, OneWord, IsText
  <2>2. <<name[1]>> \in Seq(Words) /\ Len(<<name[1]>>) = 1 /\ <<name[1]>>[1] = name[1]
    BY <2>1
  <2>3. Len(name) = Len(<<name[1]>>) /\ \A i \in 1 .. Len(name) : name[i] = <<name[1]>>[i]
    BY <2>2
  <2>4. name = <<name[1]>>
    BY <2>1, <2>2, <2>3, SeqEqual
  <2> QED  BY <2>1, <2>4
<1>2. /\ Len(line) >= 5 /\ line[3] = word /\ TCP!Glue(line, 5) = content
      /\ Upper[line[1]] = kind /\ Upper[line[2]] = "FROM" /\ Upper[line[4]] = "IS"
  BY <1>1, LineOf
<1> HIDE DEF line
<1>3. TCP!validate_dname(<<line[3]>>) /\ TCP!validate_content(content)
  BY <1>1, <1>2, SameLimits
<1>4. TCP!ReadFrom(line, kind, otherwise) = TCP!Reading(<<line[3]>>, TCP!Glue(line, 5))
  BY <1>2, <1>3 DEF TCP!ReadFrom
<1>5. TCP!ReadFrom(line, kind, otherwise) = [user |-> name, content |-> content, form |-> "valid"]
  BY <1>1, <1>2, <1>3, <1>4 DEF TCP!Reading
<1> QED  BY <1>5 DEF line

\* An ERR in the name of nobody cannot be read.
LEMMA NobodyUnread ==
    ASSUME NEW kind \in {"MSG", "ERR"}, NEW nobody \in Words, <<nobody>> = Empty,
           NEW content \in Texts, NEW otherwise
    PROVE  TCP!ReadFrom(<<kind, "FROM">> \o <<nobody>> \o <<"IS">> \o content, kind, otherwise).form
             = "invalid"
<1> DEFINE line == <<kind, "FROM">> \o <<nobody>> \o <<"IS">> \o content
<1>1. line[3] = nobody
  BY LineOf
<1> HIDE DEF line
<1>2. ~TCP!validate_dname(<<line[3]>>)
  <2>1. TCP!SizeOf(Empty) = 0
    BY EmptyHasNoCharacters, SameSize
  <2> QED  BY <1>1, <2>1 DEF TCP!validate_dname
<1>3. TCP!ReadFrom(line, kind, otherwise) = TCP!Unreadable(otherwise)
  BY <1>2 DEF TCP!ReadFrom
<1> QED  BY <1>3 DEF TCP!Unreadable, line

\* What the user's own commands and the validator's ERRs make.
LEMMA FormedReadBack ==
    ASSUME IInv, OriginInv, NEW kind \in {"MSG", "ERR"}, NEW otherwise,
           tcpFormed.type = kind, tcpName # Empty, Len(tcpName) = 1
    PROVE  TCP!ReadFrom(tcpFormed.line, kind, otherwise)
             = [user |-> udpName, content |-> input.line, form |-> "valid"]
<1>1. /\ udpName = tcpName /\ tcpName \in Texts /\ udpFormed.type = kind
      /\ UDP!validate_dname(tcpName) /\ UDP!validate_content(input.line) /\ input.line \in Texts
      /\ udpFormed.fields = <<tcpName, input.line>>
  BY DEF IInv, NamesInv, MessagesInv, SameMessage, OriginInv, FieldsInv, LimitInv
<1>2. tcpFormed.line = <<kind, "FROM">> \o tcpName \o <<"IS">> \o input.line
  <2>1. udpFormed.fields[1] = tcpName /\ udpFormed.fields[2] = input.line
    BY <1>1
  <2>2. tcpFormed.line = <<udpFormed.type, "FROM">> \o udpFormed.fields[1] \o <<"IS">>
                         \o udpFormed.fields[2]
    BY <1>1 DEF IInv, MessagesInv, SameMessage
  <2> QED  BY <1>1, <2>1, <2>2, Zenon
<1> QED  BY <1>1, <1>2, LineReadBack

\* What the TCP handler makes on its own.
LEMMA ProtestReadBack ==
    ASSUME IInv, OriginInv, protest # <<>>
    PROVE  LET heard == TCP!validate_error_server(protest) IN
           IF Bearer = Empty THEN heard.form = "invalid"
           ELSE Len(Bearer) = 1 =>
                  \E error \in Complaints :
                    heard = [user |-> Bearer, content |-> error, form |-> "valid"]
<1>1. PICK error \in Complaints : protest = ErrorLine(Bearer, error)
  BY DEF OriginInv, ProtestInv
<1>2. error \in Texts /\ UDP!validate_content(error)
  BY <1>1, ComplaintIsContent
<1>3. protest = <<"ERR", "FROM">> \o Bearer \o <<"IS">> \o error
  BY <1>1 DEF ErrorLine
<1>4. Bearer \in Texts
  BY DEF Bearer, IInv, NamesInv, ReadInv, Readings
<1>5. CASE Bearer = Empty
  <2>1. PICK nobody \in Words : Bearer = <<nobody>>
    BY <1>5, WordsInLexicon DEF Empty
  <2>2. ASSUME NEW kind \in {"MSG", "ERR"}
        PROVE  TCP!ReadFrom(<<kind, "FROM">> \o Bearer \o <<"IS">> \o error, kind, TCP!Empty).form
                 = "invalid"
    BY <1>2, <1>5, <2>1, NobodyUnread
  <2>3. TCP!ReadFrom(protest, "ERR", TCP!Empty).form = "invalid"
    BY <1>3, <2>2
  <2> QED  BY <1>5, <2>3 DEF TCP!validate_error_server
<1>6. CASE Bearer # Empty
  <2> SUFFICES ASSUME Len(Bearer) = 1
               PROVE  TCP!validate_error_server(protest)
                        = [user |-> Bearer, content |-> error, form |-> "valid"]
    BY <1>6
  <2>1. UDP!validate_dname(Bearer)
    BY <1>6 DEF OriginInv, ProtestInv
  <2>2. ASSUME NEW kind \in {"MSG", "ERR"}
        PROVE  TCP!ReadFrom(<<kind, "FROM">> \o Bearer \o <<"IS">> \o error, kind, TCP!Empty)
                 = [user |-> Bearer, content |-> error, form |-> "valid"]
    BY <1>2, <1>4, <2>1, LineReadBack
  <2>3. TCP!ReadFrom(protest, "ERR", TCP!Empty) = [user |-> Bearer, content |-> error, form |-> "valid"]
    BY <1>3, <2>2
  <2> QED  BY <2>3 DEF TCP!validate_error_server
<1> QED  BY <1>5, <1>6

(* What a user with a name sends is read back, by the same validator at the *)
(* other end, as that name and that content: over UDP whatever the name,    *)
(* over TCP if the name is one word.  An ERR the TCP handler makes itself   *)
(* is read back in the name it bears, and not at all if it bears none.      *)
THEOREM SentIsReadBack == Spec => []ReadBack
<1>1. IInv /\ OriginInv => ReadBack
  <2> SUFFICES ASSUME IInv, OriginInv PROVE ReadBack
    OBVIOUS
  <2>1. ASSUME NEW kind \in {"MSG", "ERR"}
        PROVE LET sent == [user |-> udpName, content |-> input.line, form |-> "valid"] IN
        /\ udpFormed.type = kind /\ udpName # Empty =>
             sent = UDP!ReadFields(udpFormed.fields, kind)
        /\ tcpFormed.type = kind /\ tcpName # Empty /\ Len(tcpName) = 1 =>
             sent = IF kind = "MSG" THEN TCP!validate_message_server(tcpFormed.line)
                    ELSE TCP!validate_error_server(tcpFormed.line)
    BY DatagramReadBack, FormedReadBack DEF TCP!validate_message_server, TCP!validate_error_server
  <2> QED  BY <2>1, ProtestReadBack DEF ReadBack
<1> QED  BY <1>1, Invariance, Origins, PTL

-----------------------------------------------------------------------------
(* How many bytes a datagram has.                                           *)

\* A message has three strings at most: the sum is unrolled.
LEMMA DatagramBytes ==
    ASSUME NEW message, NEW n \in 0 .. 3, Len(message.fields) = n,
           \A i \in 1 .. n : UDP!SizeOf(message.fields[i]) \in Int
    PROVE  UDP!DatagramSize(message) =
             3 + (IF n >= 1 THEN UDP!SizeOf(message.fields[1]) + 1 ELSE 0)
               + (IF n >= 2 THEN UDP!SizeOf(message.fields[2]) + 1 ELSE 0)
               + (IF n >= 3 THEN UDP!SizeOf(message.fields[3]) + 1 ELSE 0)
<1> DEFINE size(i) == UDP!SizeOf(message.fields[i])
           P(f) == f = [i \in 0 .. Len(message.fields) |->
                          IF i = 0 THEN 3 ELSE f[i - 1] + size(i) + 1]
           sum(i) == 3 + (IF i >= 1 THEN size(1) + 1 ELSE 0) + (IF i >= 2 THEN size(2) + 1 ELSE 0)
                       + (IF i >= 3 THEN size(3) + 1 ELSE 0)
           g == [i \in 0 .. n |-> sum(i)]
           bytes == CHOOSE f : P(f)
<1>1. \A i \in 1 .. n : size(i) \in Int
  OBVIOUS
<1>2. UDP!DatagramSize(message) = bytes[n]
  BY DEF UDP!DatagramSize
<1> HIDE DEF size
<1>3. sum(0) = 3 /\ \A i \in 1 .. n : sum(i) = sum(i - 1) + size(i) + 1
  <2>1. sum(0) = 3
    OBVIOUS
  <2>2. n >= 1 => sum(1) = sum(0) + size(1) + 1
    BY <1>1
  <2>3. n >= 2 => sum(2) = sum(1) + size(2) + 1
    BY <1>1
  <2>4. n >= 3 => sum(3) = sum(2) + size(3) + 1
    BY <1>1
  <2> HIDE DEF sum
  <2>5. \A i \in 1 .. n : i = 1 \/ (n >= 2 /\ i = 2) \/ (n >= 3 /\ i = 3)
    OBVIOUS
  <2>6. 1 - 1 = 0 /\ 2 - 1 = 1 /\ 3 - 1 = 2
    OBVIOUS
  <2>7. \A i \in 1 .. n : n >= 1
    OBVIOUS
  <2> QED  BY <2>1, <2>2, <2>3, <2>4, <2>5, <2>6, <2>7
<1> HIDE DEF sum
<1>4. P(bytes)
  <2>1. \A i \in 0 .. n : sum(i) = IF i = 0 THEN 3 ELSE g[i - 1] + size(i) + 1
    <3>1. \A i \in 0 .. n : i # 0 => i \in 1 .. n /\ i - 1 \in 0 .. n
      OBVIOUS
    <3> QED  BY <1>3, <3>1
  <2>2. P(g)
    BY <2>1
  <2> HIDE DEF P
  <2> QED  BY <2>2, Zenon
<1>5. bytes[0] = 3 /\ \A i \in 1 .. n : bytes[i] = bytes[i - 1] + size(i) + 1
  <2> HIDE DEF bytes
  <2>1. 0 \in 0 .. n /\ \A i \in 1 .. n : i \in 0 .. n /\ i # 0
    OBVIOUS
  <2> QED  BY <1>4, <2>1
<1> HIDE DEF bytes
<1>6. bytes[n] = sum(n)
  <2>1. \A i \in 1 .. n : bytes[i - 1] = sum(i - 1) => bytes[i] = sum(i)
    BY <1>3, <1>5, Zenon
  <2>2. bytes[0] = sum(0)
    BY <1>3, <1>5
  <2>3. n >= 1 => bytes[1] = sum(1)
    <3>1. n >= 1 => 1 \in 1 .. n /\ 1 - 1 = 0
      OBVIOUS
    <3> QED  BY <2>1, <2>2, <3>1
  <2>4. n >= 2 => bytes[2] = sum(2)
    <3>1. n >= 2 => 2 \in 1 .. n /\ 2 - 1 = 1 /\ n >= 1
      OBVIOUS
    <3> QED  BY <2>1, <2>3, <3>1
  <2>5. n >= 3 => bytes[3] = sum(3)
    <3>1. n >= 3 => 3 \in 1 .. n /\ 3 - 1 = 2 /\ n >= 2
      OBVIOUS
    <3> QED  BY <2>1, <2>4, <3>1
  <2>6. n = 0 \/ (n >= 1 /\ n = 1) \/ (n >= 2 /\ n = 2) \/ (n >= 3 /\ n = 3)
    OBVIOUS
  <2> QED  BY <2>2, <2>3, <2>4, <2>5, <2>6
<1> QED  BY <1>2, <1>6 DEF size, sum

(* No message this client forms is longer than the buffer that the same     *)
(* client, at the other end, receives it into.                              *)
THEOREM DatagramFits == Spec => []FitsBuffer
<1>1. IInv /\ OriginInv => FitsBuffer
  <2> SUFFICES ASSUME IInv, OriginInv, udpFormed.type # "refused"
      PROVE UDP!DatagramSize(udpFormed) <= BufferSize
    BY DEF FitsBuffer
  <2> DEFINE fields == udpFormed.fields
  <2>1. FieldsInv /\ udpFormed.type \in Types
    BY DEF OriginInv, IInv, MessagesInv
  <2>2. UDP!SizeOf(udpName) \in 0 .. 20
    BY EmptyHasNoCharacters DEF OriginInv, LimitInv, UDP!validate_dname
  <2>3. CASE udpFormed.type = "none"
    <3>1. Len(fields) = 0
      BY <2>1, <2>3 DEF FieldsInv
    <3> QED  BY <3>1, DatagramBytes DEF BufferSize
  <2>4. CASE udpFormed.type = "renamed"
    <3>1. Len(fields) = 1 /\ fields[1] = udpName
      BY <2>1, <2>4 DEF FieldsInv
    <3>2. 1 \in 0 .. 3 /\ \A i \in 1 .. 1 : UDP!SizeOf(fields[i]) \in Int
      BY <2>2, <3>1
    <3>3. UDP!DatagramSize(udpFormed) = 3 + UDP!SizeOf(udpName) + 1
      BY <2>2, <3>1, <3>2, DatagramBytes
    <3> QED  BY <2>2, <3>3 DEF BufferSize
  <2>5. CASE udpFormed.type = "AUTH"
    <3>1. /\ Len(fields) = 3 /\ fields[2] = udpName
          /\ UDP!SizeOf(fields[1]) \in 1 .. 20 /\ UDP!SizeOf(fields[3]) \in 1 .. 128
      BY <2>1, <2>5 DEF FieldsInv, UDP!validate_id, UDP!validate_secret
    <3>2. 3 \in 0 .. 3 /\ \A i \in 1 .. 3 : UDP!SizeOf(fields[i]) \in Int
      BY <2>2, <3>1
    <3>3. UDP!DatagramSize(udpFormed)
            = 3 + (UDP!SizeOf(fields[1]) + 1) + (UDP!SizeOf(udpName) + 1) + (UDP!SizeOf(fields[3]) + 1)
      BY <2>2, <3>1, <3>2, DatagramBytes
    <3> QED  BY <2>2, <3>1, <3>3 DEF BufferSize
  <2>6. CASE udpFormed.type = "JOIN"
    <3>1. Len(fields) = 2 /\ fields[2] = udpName /\ UDP!SizeOf(fields[1]) \in 1 .. 20
      BY <2>1, <2>6 DEF FieldsInv, UDP!validate_id
    <3>2. 2 \in 0 .. 3 /\ \A i \in 1 .. 2 : UDP!SizeOf(fields[i]) \in Int
      BY <2>2, <3>1
    <3>3. UDP!DatagramSize(udpFormed) = 3 + (UDP!SizeOf(fields[1]) + 1) + (UDP!SizeOf(udpName) + 1)
      BY <2>2, <3>1, <3>2, DatagramBytes
    <3> QED  BY <2>2, <3>1, <3>3 DEF BufferSize
  <2>7. CASE udpFormed.type \in {"MSG", "ERR"}
    <3> HIDE DEF fields
    <3>1. fields = <<udpName, input.line>> /\ UDP!validate_content(input.line)
      BY <2>1, <2>7 DEF FieldsInv, fields
    <3>2. Len(fields) = 2 /\ fields[1] = udpName /\ fields[2] = input.line
      BY <3>1
    <3>3. UDP!SizeOf(input.line) \in Int /\ UDP!SizeOf(input.line) <= 1400
      BY <3>1 DEF UDP!validate_content
    <3>4. 2 \in 0 .. 3 /\ \A i \in 1 .. 2 : UDP!SizeOf(fields[i]) \in Int
      <4>1. UDP!SizeOf(fields[1]) \in Int /\ UDP!SizeOf(fields[2]) \in Int
        <5>1. UDP!SizeOf(udpName) \in Int /\ UDP!SizeOf(input.line) \in Int
          BY <2>2, <3>3
        <5> QED  BY <3>2, <5>1, Zenon
      <4>2. \A i \in 1 .. 2 : i = 1 \/ i = 2
        OBVIOUS
      <4>3. 2 \in 0 .. 3
        OBVIOUS
      <4> QED  BY <4>1, <4>2, <4>3, Zenon
    <3>5. UDP!DatagramSize(udpFormed) = 3 + (UDP!SizeOf(fields[1]) + 1) + (UDP!SizeOf(fields[2]) + 1)
      BY <3>2, <3>4, DatagramBytes DEF fields
    <3>6. UDP!DatagramSize(udpFormed) = 3 + (UDP!SizeOf(udpName) + 1) + (UDP!SizeOf(input.line) + 1)
      BY <3>2, <3>5, Zenon
    <3> QED  BY <2>2, <3>3, <3>6 DEF BufferSize
  <2> QED  BY <2>1, <2>3, <2>4, <2>5, <2>6, <2>7 DEF Types
<1> QED  BY <1>1, Invariance, Origins, PTL

=============================================================================
