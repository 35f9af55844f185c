--------------------------- MODULE SenderContract ---------------------------
(***************************************************************************)
(* What every sender of unifex_IOCP_sockets.hpp promises to its receiver   *)
(* (Sender_LogSimple: value_types, error_types, sends_done): after start() *)
(* the receiver gets a value, an error or done, once, and done only if it  *)
(* has asked for a stop.                                                   *)
(***************************************************************************)
EXTENDS Sequences

CONSTANT Senders

VARIABLES
    begun,      \* operations whose start() was called
    asked,      \* operations whose receiver has asked for a stop
    received    \* the signals to each receiver

contractVars == <<begun, asked, received>>

Init ==
    /\ begun = {}
    /\ asked = {}
    /\ received = [o \in Senders |-> <<>>]

Start(o) ==
    /\ o \notin begun
    /\ begun' = begun \cup {o}
    /\ UNCHANGED <<asked, received>>

Ask(o) ==
    /\ o \notin asked
    /\ asked' = asked \cup {o}
    /\ UNCHANGED <<begun, received>>

Signal(o, s) ==
    /\ o \in begun
    /\ received[o] = <<>>
    /\ s = "done" => o \in asked
    /\ received' = [received EXCEPT ![o] = <<s>>]
    /\ UNCHANGED <<begun, asked>>

Next ==
    \E o \in Senders : Start(o) \/ Ask(o) \/ \E s \in {"value", "error", "done"} : Signal(o, s)

Spec == Init /\ [][Next]_contractVars
=============================================================================
