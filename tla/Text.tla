-------------------------------- MODULE Text --------------------------------
(***************************************************************************)
(* Strings as both message validators look at them: words with one space   *)
(* between each two.  A string and the sequence of its words determine     *)
(* each other, so split_message is a change of representation, and gluing  *)
(* words together again is concatenation.  A word is what the lexicon says *)
(* of it: its size, its characters, and what toupper makes of it.          *)
(***************************************************************************)
EXTENDS Integers, Sequences

CONSTANTS
    Words,      \* pieces without a space, the empty one included
    Size,       \* [Words -> Nat]: how many characters a word has
    Alnum,      \* the words made of letters, digits and "-"
    Visible,    \* the words made of characters isprint accepts
    Upper       \* [Words -> Words]: toupper

Keywords == {"MSG", "FROM", "IS", "ERR", "REPLY", "BYE", "OK", "NOK",
             "AUTH", "AS", "USING", "JOIN", "/AUTH", "/JOIN", "/RENAME"}

ASSUME LexiconAssumption ==
    /\ Keywords \cup {""} \subseteq Words
    /\ Alnum \subseteq Visible /\ Visible \subseteq Words
    /\ Size \in [Words -> Nat] /\ Size[""] = 0
    /\ Upper \in [Words -> Words]
    /\ \A w \in Words : Upper[w] \in Visible <=> w \in Visible
    /\ \A w \in Words : Size[Upper[w]] = Size[w]
    /\ \A k \in Keywords : Upper[k] = k

Texts == Seq(Words) \ {<<>>}
Empty == <<"">>

\* std::string::size: the words' characters and the spaces between them.
SizeOf(text) ==
    LET characters[i \in 0 .. Len(text)] ==
            IF i = 0 THEN 0 ELSE characters[i - 1] + Size[text[i]]
    IN  characters[Len(text)] + Len(text) - 1

Alphanumeric(text) == Len(text) = 1 /\ text[1] \in Alnum
Printable(text)    == \A i \in DOMAIN text : text[i] \in Visible

=============================================================================
