---------------------------- MODULE ChatSession ----------------------------
(***************************************************************************)
(* What both clients promise about a session, whatever the transport: who  *)
(* may be heard when.  A request leaves only after the user has asked to   *)
(* be let in, a JOIN or MSG only once the server has let the user in.  A   *)
(* client that is leaving says nothing but an ERR or a BYE.  One that has  *)
(* parted, having said BYE without waiting for its confirmation, is not    *)
(* leaving yet: one more request may be heard of it, and with that it is.  *)
(***************************************************************************)

VARIABLES
    access,     \* "none", "asked" (by /auth) or "given" (by a positive REPLY)
    leaving,    \* "no", "parted" or "yes": see above
    said        \* the types said for the first time by the last call

vars == <<access, leaving, said>>

Farewells == {"ERR", "BYE"}

Init == access = "none" /\ leaving = "no" /\ said = {}

\* There is no way back.
Onward ==
    CASE leaving = "no"     -> {"no", "parted", "yes"}
      [] leaving = "parted" -> {"parted", "yes"}
      [] OTHER              -> {"yes"}

Say(type) ==
    /\ leaving # "yes"
    /\ said' = {type}
    /\ leaving' = IF leaving = "parted" THEN "yes" ELSE leaving

\* The user asks to be let in; the first time, access is what changes.
Ask ==
    /\ access = "none" /\ access' = "asked"
    /\ \/ Say("AUTH")
       \/ said' = {} /\ leaving' \in Onward

Request(type) ==
    /\ access \in (IF type = "AUTH" THEN {"asked", "given"} ELSE {"given"})
    /\ Say(type)
    /\ UNCHANGED access

\* Nothing is said, or a farewell; a positive REPLY lets the user in.
Attend ==
    /\ access' \in {access} \cup (IF access = "asked" THEN {"given"} ELSE {})
    /\ leaving' \in Onward
    /\ said' \subseteq Farewells

Next == Ask \/ Attend \/ \E type \in {"AUTH", "JOIN", "MSG"} : Request(type)

Spec == Init /\ [][Next]_vars

=============================================================================
