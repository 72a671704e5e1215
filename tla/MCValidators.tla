---------------------------- MODULE MCValidators ----------------------------
(***************************************************************************)
(* A lexicon with keywords in both cases, words of every kind of character *)
(* and words at and just beyond each limit; and inputs made of them.       *)
(***************************************************************************)
EXTENDS Validators, TLC

Lower    == "/auth" :> "/AUTH" @@ "/join" :> "/JOIN" @@ "/rename" :> "/RENAME" @@ "is" :> "IS"
            @@ "from" :> "FROM" @@ "msg" :> "MSG" @@ "reply" :> "REPLY" @@ "nok" :> "NOK"
Commands == {"/auth", "/join", "/rename", "/AUTH", "/JOIN", "/RENAME"}

Sizes ==
    "" :> 0 @@ "bob" :> 3 @@ "x!" :> 2 @@ "bell" :> 4 @@ "n20" :> 20 @@ "n21" :> 21
    @@ "s128" :> 128 @@ "s129" :> 129 @@ "c1396" :> 1396 @@ "c1400" :> 1400 @@ "c1401" :> 1401
    @@ "/auth" :> 5 @@ "/AUTH" :> 5 @@ "/join" :> 5 @@ "/JOIN" :> 5 @@ "/rename" :> 7
    @@ "/RENAME" :> 7 @@ "is" :> 2 @@ "IS" :> 2 @@ "OK" :> 2 @@ "AS" :> 2 @@ "msg" :> 3
    @@ "MSG" :> 3 @@ "ERR" :> 3 @@ "BYE" :> 3 @@ "nok" :> 3 @@ "NOK" :> 3 @@ "from" :> 4 @@ "FROM" :> 4
    @@ "AUTH" :> 4 @@ "JOIN" :> 4 @@ "reply" :> 5 @@ "REPLY" :> 5 @@ "USING" :> 5

MCWords   == DOMAIN Sizes
MCVisible == MCWords \ {"bell"}     \* holds a control character
MCAlnum   == MCVisible \ ({"x!"} \cup Commands)
MCUpper   == [w \in MCWords |-> IF w \in DOMAIN Lower THEN Lower[w] ELSE w]

Short(words, n) == UNION {[1 .. k -> words] : k \in 1 .. n}

MCTyped ==
    {<<"/auth">> \o argument : argument \in
        {<<id, secret, name>> : id \in {"", "bob", "x!", "n20", "n21"},
                                secret \in {"", "x!", "bob", "s128", "s129"},
                                name \in {"", "bob", "IS", "x!", "bell", "n20", "n21"}}
        \cup Short({"bob"}, 4)}
    \cup {<<"/JOIN">> \o argument : argument \in Short({"bob", "n20", "n21", "x!"}, 2)}
    \cup {<<"/rename">> \o argument : argument \in Short({"", "bob", "IS", "n20"}, 2)}
    \cup {<<command>> : command \in Commands}
    \cup Short({"", "is", "bob", "bell"}, 3)
    \cup {<<"c1400">>, <<"c1401">>, <<"c1400", "c1400">>, <<"c1396", "bob">>, <<"c1396", "", "bob">>}

MCComplaints == {<<"bob", "IS", "x!">>}

\* Every line of these keywords, and each with one word replaced or left out.
Models == {<<k, "FROM", u, "IS">> \o c : k \in {"msg", "ERR"}, u \in {"bob", "IS"}, c \in Short({"IS", "bob"}, 2)}
          \cup {<<"reply", v, "is">> \o c : v \in {"OK", "nok"}, c \in Short({"IS", "bob"}, 2)}

Replaced(line, w) == {[line EXCEPT ![i] = w] : i \in DOMAIN line}
Without(line)     == {SubSeq(line, 1, i - 1) \o SubSeq(line, i + 1, Len(line)) : i \in DOMAIN line}

MCLines ==
    (UNION {{line} \cup Without(line) \cup UNION {Replaced(line, w) : w \in {"", "from", "is", "bell"}}
              : line \in Models} \cup {<<"BYE">>}) \ {<<>>}

Strings ==
    {<<>>} \cup {<<f>> : f \in Short({"", "bob", "bell"}, 2) \cup {<<"c1400">>, <<"c1401">>}}
    \cup {<<f, g>> : f \in Short({"", "bob", "n20", "n21"}, 2), g \in {Empty, <<"IS", "bob">>, <<"bell">>}}
    \cup {<<<<"bob">>, <<"bob">>, f>> : f \in Short({"", "bob"}, 1)}

MCPayloads == [fields : Strings, tail : {Empty, <<"bob">>}]

=============================================================================
