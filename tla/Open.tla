--------------------------------- MODULE Open ---------------------------------
(***************************************************************************)
(* SenderSocket::Open() of Hw3P3: the SYN handshake, up to the state in    *)
(* which main() and workerThread() start the transfer.  The receiver       *)
(* answers each SYN it gets with a SYN-ACK that carries its first window.  *)
(* A SYN-ACK may arrive after its SYN has timed out, so it may answer a    *)
(* later SYN, or wait in the socket when Open() returns.                   *)
(***************************************************************************)
EXTENDS Integers, Datagrams

CONSTANTS
    W,           \* senderWindow
    RecvWnds,    \* the windows the receiver may advertise
    MaxForeign,  \* bound: datagrams at the socket that are not SYN-ACKs
    IOErrors     \* may getaddrinfo(), sendto(), select(), recvfrom() fail?

ASSUME OpenAssumption ==
    /\ W \in Nat \ {0}
    /\ RecvWnds \subseteq Nat \ {0} /\ RecvWnds # {}
    /\ MaxForeign \in Nat
    /\ IOErrors \in BOOLEAN

SYN_MAX_ATTEMPTS == 3

(* As in SenderSocket, Mut_... is a slip the code does not make.               *)

\* Room for every datagram there can be: UDP drops none for lack of it.
Room == 2 * SYN_MAX_ATTEMPTS + 2 * MaxForeign

VARIABLES
    pc,              \* where Open() is
    status,          \* what it returned
    isOpen,
    currAttempt,     \* SYNs that timed out and were followed by another
    receiverWindow, lastReleased,
    empty,           \* count of the semaphore, -1 while its handle is NULL
    pendingPackets,  \* number of slots, 0 while the pointer is null
    sockReady,       \* socketReceiveReady, tied to FD_READ by WSAEventSelect
    syns,            \* SYNs on their way to the receiver
    sockq,           \* the socket's receive queue
    rcvWnd,          \* the receiver's first window
    foreign          \* history: foreign datagrams that arrived

vars == <<pc, status, isOpen, currAttempt, receiverWindow, lastReleased, empty,
          pendingPackets, sockReady, syns, sockq, rcvWnd, foreign>>

connVars == <<isOpen, receiverWindow, lastReleased, empty, pendingPackets>>
netVars  == <<sockReady, syns, sockq, rcvWnd, foreign>>

Kinds == {"SYN-ACK", "foreign"}

min(a, b) == IF a <= b THEN a ELSE b

Init ==
    /\ pc = "resolve" /\ status = "none" /\ isOpen = FALSE
    /\ currAttempt = 0
    /\ receiverWindow = 0 /\ lastReleased = 0 /\ empty = -1 /\ pendingPackets = 0
    /\ sockReady = FALSE
    /\ syns = 0 /\ sockq = NoDatagrams(Kinds)
    /\ rcvWnd \in RecvWnds
    /\ foreign = 0

------------------------------------------------------------------------------
(* Open().  main() exits when it does not return STATUS_OK.                   *)

Return(s) ==
    /\ status' = s /\ pc' = "failed"
    /\ UNCHANGED <<currAttempt, connVars, netVars>>

\* getaddrinfo()
Resolve ==
    /\ pc = "resolve"
    /\ \/ /\ pc' = "syn"
          /\ UNCHANGED <<status, currAttempt, connVars, netVars>>
       \/ IOErrors /\ Return("INVALID_NAME")

\* The head of the while loop, and sendto().
SynSend ==
    /\ pc = "syn"
    /\ IF currAttempt < SYN_MAX_ATTEMPTS
       THEN pc' = "select" /\ syns' = syns + 1
       ELSE pc' = "tail" /\ UNCHANGED syns
    /\ UNCHANGED <<status, currAttempt, connVars, sockReady, sockq, rcvWnd, foreign>>

\* sendto() or recvfrom() fails, or select() does and the program exits.
SynFail ==
    /\ IOErrors
    /\ \/ pc = "syn" /\ Return("FAILED_SEND")
       \/ pc = "select" /\ Return("exit")
       \/ pc = "select" /\ AnyIn(sockq) /\ Return("FAILED_RECV")

LastAttempt == currAttempt = 2

Mut_SelectWithoutTimeout == FALSE

\* select() returns 0.
SynTimeout ==
    /\ pc = "select" /\ ~AnyIn(sockq)
    /\ IF LastAttempt
       THEN Return("TIMEOUT")
       ELSE /\ currAttempt' = currAttempt + 1
            /\ pc' = "syn"
            /\ UNCHANGED <<status, connVars, netVars>>

Mut_CreditsOfSender == W
initialCredits == min(W, rcvWnd)

\* recvfrom() of a SYN-ACK, whichever SYN it answers ...
RecvSynAck ==
    /\ pc = "select" /\ IsIn("SYN-ACK", sockq)
    /\ sockq' = Take(sockq, "SYN-ACK")
    /\ receiverWindow' = rcvWnd
    /\ lastReleased' = initialCredits
    /\ empty' = initialCredits
    /\ pc' = "tail"
    /\ UNCHANGED <<status, isOpen, currAttempt, pendingPackets, sockReady, syns,
                   rcvWnd, foreign>>

\* ... or of anything else, which is dropped: the next SYN is not counted as
\* an attempt.
RecvForeign ==
    /\ pc = "select" /\ IsIn("foreign", sockq)
    /\ sockq' = Take(sockq, "foreign")
    /\ pc' = "syn"
    /\ UNCHANGED <<status, currAttempt, connVars, sockReady, syns, rcvWnd, foreign>>

\* After the loop: WSAEventSelect() signals at once when datagrams are waiting.
SignaledByWaiting == AnyIn(sockq)

Connect ==
    /\ pc = "tail"
    /\ isOpen' = TRUE
    /\ pendingPackets' = W
    /\ sockReady' = SignaledByWaiting
    /\ status' = "STATUS_OK" /\ pc' = "connected"
    /\ UNCHANGED <<currAttempt, receiverWindow, lastReleased, empty, syns, sockq,
                   rcvWnd, foreign>>

OpenStep == \/ Resolve \/ SynSend \/ SynTimeout \/ RecvSynAck \/ RecvForeign
            \/ Connect

------------------------------------------------------------------------------
(* External: the receiver and the network, which go on after Open().          *)

openUnchanged == UNCHANGED <<pc, status, currAttempt, connVars, rcvWnd>>

Arrive(k) ==
    /\ sockq' = Put(sockq, k, Room)
    /\ sockReady' = (pc = "connected")

RcvSyn ==
    /\ syns > 0
    /\ syns' = syns - 1
    /\ \/ Arrive("SYN-ACK")
       \/ UNCHANGED <<sockq, sockReady>>
    /\ UNCHANGED foreign
    /\ openUnchanged

ForeignDatagram ==
    /\ pc = "select" /\ foreign < MaxForeign
    /\ foreign' = foreign + 1
    /\ Arrive("foreign")
    /\ UNCHANGED syns
    /\ openUnchanged

Done == pc \in {"connected", "failed"} /\ UNCHANGED vars

Next == OpenStep \/ SynFail \/ RcvSyn \/ ForeignDatagram \/ Done

Spec == Init /\ [][Next]_vars

(* The thread that calls Open() runs and select() times out; nothing is       *)
(* assumed of the network.                                                    *)
FairSpec == Spec /\ WF_vars(OpenStep)

------------------------------------------------------------------------------
(* Properties.                                                                *)

TypeOK ==
    /\ pc \in {"resolve", "syn", "select", "tail", "connected", "failed"}
    /\ status \in {"none", "STATUS_OK", "INVALID_NAME", "FAILED_SEND", "TIMEOUT",
                   "FAILED_RECV", "exit"}
    /\ isOpen \in BOOLEAN /\ sockReady \in BOOLEAN
    /\ currAttempt \in 0..(SYN_MAX_ATTEMPTS - 1)
    /\ receiverWindow \in RecvWnds \cup {0}
    /\ lastReleased \in 0..W /\ empty \in -1..W
    /\ pendingPackets \in {0, W}
    /\ syns \in Nat
    /\ sockq \in [Kinds -> Nat]
    /\ rcvWnd \in RecvWnds
    /\ foreign \in 0..MaxForeign

\* Open() returns, whatever the network does.
OpenReturns == <>(pc \in {"connected", "failed"})
==============================================================================
