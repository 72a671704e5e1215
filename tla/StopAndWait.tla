---------------------------- MODULE StopAndWait ----------------------------
(***************************************************************************)
(* What the UDP client promises about delivering its own messages, said    *)
(* without datagrams, MessageIDs or a loop: at most one message is pending *)
(* at a time, it is repeated at most Retrans times, a request always has   *)
(* the whole budget, and a message stops being pending only in the step    *)
(* that hears its own confirmation, for an urgent one (an ERR or a BYE),   *)
(* by giving up with the budget spent or because the socket failed.        *)
(***************************************************************************)
EXTENDS Naturals

CONSTANTS
    Messages, Urgent,   \* what may be pending; the messages that end a session
    None,               \* nothing is pending
    Retrans             \* how often a message may be repeated

VARIABLES pending, left, over

\* An input: the messages that what the last step heard is a confirmation of.
VARIABLE heard

vars == <<pending, left, over>>

Init == pending = None /\ left = Retrans /\ over = FALSE

Take(m) ==
    /\ ~over /\ pending = None
    /\ pending' = m
    /\ left' \in IF m \in Urgent THEN 0 .. Retrans ELSE {Retrans}
    /\ UNCHANGED over

Repeat ==
    /\ ~over /\ pending # None /\ left > 0
    /\ left' = left - 1
    /\ UNCHANGED <<pending, over>>

Supersede(m) ==
    /\ ~over /\ pending # None /\ m \in Urgent
    /\ pending' = m
    /\ UNCHANGED <<left, over>>

Confirmed ==
    /\ ~over /\ pending # None /\ pending \in heard'
    /\ pending' = None /\ left' = Retrans
    /\ over' \in BOOLEAN

GiveUp ==
    /\ ~over /\ pending # None /\ left = 0
    /\ over' = TRUE
    /\ UNCHANGED <<pending, left>>

\* The session ends with nothing pending.
Stop ==
    /\ ~over /\ pending = None
    /\ over' = TRUE
    /\ UNCHANGED <<pending, left>>

\* The socket fails; what was pending is lost.
Break ==
    /\ ~over /\ pending # None
    /\ over' = TRUE /\ left' = Retrans
    /\ UNCHANGED pending

Next ==
    \/ \E m \in Messages : Take(m) \/ Supersede(m)
    \/ Repeat \/ Confirmed \/ GiveUp \/ Stop \/ Break

Spec == Init /\ [][Next]_vars

=============================================================================
