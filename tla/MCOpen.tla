-------------------------------- MODULE MCOpen --------------------------------
(***************************************************************************)
(* Open for TLC, composed with SenderSocket: the state in which Open()     *)
(* returns is one from which the transfer is specified to start.           *)
(***************************************************************************)
EXTENDS Open

\* Two packets to send; the transfer's other constants do not matter here.
Transfer == INSTANCE SenderSocket WITH
    N <- 2, MAX_ATTEMPTS <- 1, NetCap <- 1,
    mpc <- "send", mEff <- 0,
    currAttempt <- 0, wpc <- "wait", base <- 0, nextSeq <- 0, nextToSend <- 0,
    effectiveWindow <- 0, retxForBase <- 0, dupACK <- 0, full <- 0,
    eventQuit <- FALSE, resent <- 0, lastSample <- -1, overtaken <- FALSE,
    rcvNext <- 0,
    got <- [s \in 0..1 |-> -2], sentTimes <- [s \in 0..1 |-> 0],
    net <- [d \in [fin : {FALSE}, seq : 0..1, data : -1..1]
                  \cup [fin : {TRUE}, seq : 0..2, data : {-1}] |-> 0],
    pendingPackets <- [i \in 0..(pendingPackets - 1) |->
                         [seq |-> -1, data |-> -1, flagged |-> FALSE]],
    sockq <- [m \in [fin : {FALSE}, ackSeq : 0..2, recvWnd : RecvWnds]
                    \cup [fin : {TRUE}, ackSeq : 0..2, recvWnd : {0}] |->
                IF m = [fin |-> FALSE, ackSeq |-> 0, recvWnd |-> rcvWnd]
                THEN sockq["SYN-ACK"] ELSE 0]

\* When Open() returns STATUS_OK and only the receiver has answered, the window,
\* the credits, the slots, the socket event and the late SYN-ACKs are as the
\* transfer's Init says.
Handover == status = "STATUS_OK" /\ foreign = 0 => Transfer!Init
==============================================================================
