--------------------------- MODULE ReliableTransfer ---------------------------
(***************************************************************************)
(* What the transport of Hw3 promises to main(): N packets are handed over *)
(* in order, the receiver holds a growing prefix of them, the sender       *)
(* learns of a prefix of that prefix, and the transfer is reported to have *)
(* succeeded only when it has learnt of all N.  How the packets get there  *)
(* (windows, timers, losses, retransmissions) is left to the               *)
(* implementation, and so is when the sender gives up.                     *)
(***************************************************************************)
EXTENDS Naturals

CONSTANT N

VARIABLES
    accepted,   \* packets handed to the transport
    delivered,  \* packets the receiver holds without a gap
    acked,      \* packets the sender knows to be delivered
    outcome     \* "open", or what the program was told

vars == <<accepted, delivered, acked, outcome>>

Init == accepted = 0 /\ delivered = 0 /\ acked = 0 /\ outcome = "open"

Accept ==
    /\ outcome = "open" /\ accepted < N
    /\ accepted' = accepted + 1
    /\ UNCHANGED <<delivered, acked, outcome>>

\* The network may deliver whatever has been accepted, even after the end.
Deliver ==
    /\ delivered' \in (delivered + 1)..accepted
    /\ UNCHANGED <<accepted, acked, outcome>>

Acknowledge ==
    /\ outcome = "open"
    /\ acked' \in (acked + 1)..delivered
    /\ UNCHANGED <<accepted, delivered, outcome>>

Succeed ==
    /\ outcome = "open" /\ acked = N
    /\ outcome' = "ok"
    /\ UNCHANGED <<accepted, delivered, acked>>

Fail ==
    /\ outcome = "open"
    /\ outcome' = "failed"
    /\ UNCHANGED <<accepted, delivered, acked>>

Next == Accept \/ Deliver \/ Acknowledge \/ Succeed \/ Fail

Spec == Init /\ [][Next]_vars
==============================================================================
