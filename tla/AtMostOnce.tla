----------------------------- MODULE AtMostOnce -----------------------------
(***************************************************************************)
(* What a protected stream promises its receiver: a packet is handed over  *)
(* only if the peer really sent it, and no packet is handed over twice.    *)
(* Nothing is promised about order or about packets that never arrive.     *)
(***************************************************************************)
EXTENDS Naturals

CONSTANT Message

VARIABLES
    offered,    \* the messages sent
    accepted,   \* the messages handed over
    count       \* how many hand-overs there were

vars == <<offered, accepted, count>>

Init == offered = {} /\ accepted = {} /\ count = 0

Offer(m) ==
    /\ offered' = offered \cup {m}
    /\ UNCHANGED <<accepted, count>>

Accept(m) ==
    /\ m \in offered \ accepted
    /\ accepted' = accepted \cup {m}
    /\ count' = count + 1
    /\ UNCHANGED offered

Next == \E m \in Message : Offer(m) \/ Accept(m)

Spec == Init /\ [][Next]_vars
=============================================================================
