----------------------------- MODULE SrtpStream -----------------------------
(***************************************************************************)
(* An SRTP sender and an SRTP receiver with the same key, joined by a      *)
(* network that loses, repeats, reorders and damages packets.              *)
(***************************************************************************)
EXTENDS SrtpSender, SrtpReceiver

vars == <<sendVars, recvVars>>

Init == SendInit /\ RecvInit

Send == SendPacket /\ UNCHANGED recvVars

\* The packet of `sent` named m as it leaves the sender.
OnWire(m) == [seq |-> m[2], tag |-> m[1], shape |-> "ok"]

\* A packet that was sent arrives, for the first time or again.
Arrive ==
    /\ \E m \in sent : Unprotect(OnWire(m))
    /\ UNCHANGED sendVars

\* A packet arrives damaged: cut short, or with a tag that matches nothing.
ArriveDamaged ==
    /\ \E seq \in SeqNum, shape \in Shape :
          Unprotect([seq |-> seq, tag |-> Forged, shape |-> shape])
    /\ UNCHANGED sendVars

Next == Send \/ Arrive \/ ArriveDamaged

Spec == Init /\ [][Next]_vars
-----------------------------------------------------------------------------
\* The stream as its abstract promise: what is delivered was sent, and once.
Promise == INSTANCE AtMostOnce WITH
    Message <- Roc \X SeqNum,
    offered <- sent,
    accepted <- delivered,
    count <- deliveries

\* The receiver implements the promise against this network.
KeepsPromise == Promise!Spec

\* Extended number the receiver stands at.
HighestExt == recv_roc * SeqMod + s_l

\* Once the first packet got through, a packet that was sent and not yet
\* consumed is accepted whenever it lies less than Half ahead of the highest
\* one seen or inside the replay window behind it: estimate_roc finds its ROC
\* across a wrap in either direction and replay_check does not refuse it.
\* The packets past the wrap of the 32-bit index are left out.
AcceptsInRange ==
    initialized =>
        \A m \in sent :
            /\ Ext(m) < IdxMod
            /\ Ext(m) - HighestExt < Half
            /\ HighestExt - Ext(m) < Window
            /\ m \notin consumed
            => Verifies(OnWire(m))
=============================================================================
