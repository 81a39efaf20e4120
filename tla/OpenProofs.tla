------------------------------ MODULE OpenProofs ------------------------------
(***************************************************************************)
(* The state in which Open() returns is one the transfer starts from, for  *)
(* every window of the sender and of the receiver, and every order of late *)
(* SYN-ACKs.                                                               *)
(***************************************************************************)
EXTENDS MCOpen, FiniteSetTheorems, TLAPS

USE OpenAssumption

\* sendto() leaves a bag of datagrams, whether or not the cap drops m.
LEMMA PutType ==
    ASSUME NEW S, NEW q \in [S -> Nat], NEW m, NEW cap
    PROVE  Put(q, m, cap) \in [S -> Nat]
<1>1. ASSUME NEW x \in S
      PROVE  [q EXCEPT ![m] = @ + 1][x] \in Nat
    <2>1. CASE x = m
        BY <2>1
    <2>2. CASE x # m
        BY <2>2
    <2> QED
        BY <2>1, <2>2
<1>2. [q EXCEPT ![m] = @ + 1] \in [S -> Nat]
    BY <1>1
<1> QED
    BY <1>2 DEF Put

\* recvfrom(), or a loss, leaves a bag of datagrams.
LEMMA TakeType ==
    ASSUME NEW S, NEW q \in [S -> Nat], NEW m \in S, IsIn(m, q)
    PROVE  Take(q, m) \in [S -> Nat]
BY DEF Take, IsIn

\* An empty queue.
LEMMA LoadNone ==
    ASSUME NEW S, NEW cap
    PROVE  Load(NoDatagrams(S), cap) = 0
<1>1. {x \in (DOMAIN NoDatagrams(S)) \X (1..cap) : x[2] <= NoDatagrams(S)[x[1]]} = {}
    BY DEF NoDatagrams
<1> QED
    BY <1>1, FS_EmptySet DEF Load

\* SYNs whose answer is under way or in the socket.
Unread == syns + sockq["SYN-ACK"]

\* Unless a foreign datagram was mistaken for an answer, each of them has timed out,
\* except for the one Open() waits for.
TimeoutInv ==
    foreign = 0 =>
        /\ sockq["foreign"] = 0
        /\ pc # "failed" => Unread <= currAttempt + (IF pc = "select" THEN 1 ELSE 0)

\* What the SYN-ACK has set, and what Connect adds.
ConnectInv ==
    /\ pc \in {"tail", "connected"} =>
         receiverWindow = rcvWnd /\ lastReleased = min(W, rcvWnd) /\ empty = min(W, rcvWnd)
    /\ status = "STATUS_OK" => pc = "connected"
    /\ pc = "connected" =>
         /\ pendingPackets = W
         /\ foreign = 0 => (sockReady <=> sockq["SYN-ACK"] > 0)

Inv == TypeOK /\ TimeoutInv /\ ConnectInv

LEMMA MinType ==
    ASSUME NEW a \in Nat, NEW b \in Nat
    PROVE  min(a, b) \in 0..a
BY DEF min

LEMMA InitInv == Init => Inv
<1> SUFFICES ASSUME Init PROVE Inv
    OBVIOUS
<1>1. sockq = [k \in Kinds |-> 0] /\ "SYN-ACK" \in Kinds /\ "foreign" \in Kinds
    BY DEF Init, NoDatagrams, Kinds
<1>2. TypeOK
    <2>1. sockq \in [Kinds -> Nat]
        BY <1>1
    <2>2. /\ currAttempt \in 0..(SYN_MAX_ATTEMPTS - 1) /\ lastReleased \in 0..W
          /\ empty \in -1..W /\ syns \in Nat /\ foreign \in 0..MaxForeign
        BY DEF Init, SYN_MAX_ATTEMPTS
    <2>3. isOpen \in BOOLEAN /\ sockReady \in BOOLEAN
        BY DEF Init
    <2>4. /\ pc = "resolve" /\ status = "none" /\ receiverWindow = 0
          /\ pendingPackets = 0 /\ rcvWnd \in RecvWnds
        BY DEF Init
    <2> QED
        BY <2>1, <2>2, <2>3, <2>4 DEF TypeOK
<1>3. TimeoutInv
    BY <1>1 DEF Init, TimeoutInv, Unread
<1>4. ConnectInv
    BY DEF Init, ConnectInv
<1> QED
    BY <1>2, <1>3, <1>4 DEF Inv

\* The types of what a step depends on.
LEMMA Types ==
    ASSUME TypeOK
    PROVE  /\ sockq \in [Kinds -> Nat] /\ "SYN-ACK" \in Kinds /\ "foreign" \in Kinds
           /\ sockq["SYN-ACK"] \in Nat /\ sockq["foreign"] \in Nat
           /\ syns \in Nat /\ currAttempt \in 0..2 /\ foreign \in Nat /\ Unread \in Nat
           /\ Room \in Nat \ {0}
BY DEF TypeOK, Kinds, SYN_MAX_ATTEMPTS, Unread, Room

\* recvfrom() takes one datagram of kind k.
LEMMA TakeOne ==
    ASSUME TypeOK, NEW k \in Kinds, IsIn(k, sockq), sockq' = Take(sockq, k)
    PROVE  /\ sockq' \in [Kinds -> Nat]
           /\ sockq'[k] = sockq[k] - 1
           /\ \A j \in Kinds \ {k} : sockq'[j] = sockq[j]
<1>1. sockq \in [Kinds -> Nat]
    BY Types
<1>2. sockq' \in [Kinds -> Nat]
    BY <1>1, TakeType
<1> QED
    BY <1>1, <1>2 DEF Take

\* A datagram of kind k reaches the socket, if there is room.
LEMMA PutOne ==
    ASSUME TypeOK, NEW k \in Kinds, sockq' = Put(sockq, k, Room)
    PROVE  /\ sockq' \in [Kinds -> Nat]
           /\ sockq'[k] \in {sockq[k], sockq[k] + 1}
           /\ \A j \in Kinds \ {k} : sockq'[j] = sockq[j]
           /\ (\A j \in Kinds : sockq[j] = 0) => sockq'[k] = 1
<1>1. sockq \in [Kinds -> Nat] /\ Room \in Nat \ {0}
    BY Types
<1>2. sockq' \in [Kinds -> Nat]
    BY <1>1, PutType
<1>3. ASSUME \A j \in Kinds : sockq[j] = 0
      PROVE  Load(sockq, Room) = 0
    <2>1. sockq = NoDatagrams(Kinds)
        BY <1>1, <1>3 DEF NoDatagrams
    <2> QED
        BY <1>1, <2>1, LoadNone
<1>4. sockq' = sockq \/ sockq' = [sockq EXCEPT ![k] = @ + 1]
    BY DEF Put
<1>5. (\A j \in Kinds : sockq[j] = 0) => sockq' = [sockq EXCEPT ![k] = @ + 1]
    BY <1>1, <1>3 DEF Put
<1> QED
    BY <1>1, <1>2, <1>4, <1>5

------------------------------------------------------------------------------
(* Open().                                                                    *)

\* Open() gives up: nothing is claimed of what it leaves.
LEMMA ReturnInv ==
    ASSUME Inv, NEW s, Return(s),
           s \in {"INVALID_NAME", "FAILED_SEND", "TIMEOUT", "FAILED_RECV", "exit"}
    PROVE  Inv'
<1>1. /\ status' = s /\ pc' = "failed"
      /\ UNCHANGED <<currAttempt, isOpen, receiverWindow, lastReleased, empty,
                     pendingPackets, sockReady, syns, sockq, rcvWnd, foreign>>
    BY DEF Return, connVars, netVars
<1>2. TypeOK'
    BY <1>1 DEF Inv, TypeOK
<1>3. TimeoutInv'
    BY <1>1 DEF Inv, TimeoutInv
<1>4. ConnectInv'
    BY <1>1 DEF ConnectInv
<1> QED
    BY <1>2, <1>3, <1>4 DEF Inv

LEMMA SynInv ==
    ASSUME Inv, Resolve \/ SynSend \/ SynTimeout \/ SynFail
    PROVE  Inv'
<1>1. CASE SynFail
    BY <1>1, ReturnInv DEF SynFail
<1>2. CASE Resolve
    <2>1. CASE Return("INVALID_NAME")
        BY <2>1, ReturnInv
    <2>2. CASE pc' = "syn" /\ UNCHANGED <<status, currAttempt, connVars, netVars>>
        <3>1. /\ pc = "resolve" /\ pc' = "syn"
              /\ UNCHANGED <<status, currAttempt, isOpen, receiverWindow, lastReleased,
                             empty, pendingPackets, sockReady, syns, sockq, rcvWnd,
                             foreign>>
            BY <1>2, <2>2 DEF Resolve, connVars, netVars
        <3>2. TypeOK'
            BY <3>1 DEF Inv, TypeOK
        <3>3. TimeoutInv' /\ ConnectInv'
            BY <3>1 DEF Inv, TimeoutInv, Unread, ConnectInv
        <3> QED
            BY <3>2, <3>3 DEF Inv
    <2> QED
        BY <1>2, <2>1, <2>2 DEF Resolve
<1>3. CASE SynSend
    <2>1. TypeOK
        BY DEF Inv
    <2>2. currAttempt \in 0..2 /\ syns \in Nat /\ sockq["SYN-ACK"] \in Nat
        BY <2>1, Types
    <2>3. /\ pc = "syn" /\ pc' = "select" /\ syns' = syns + 1
          /\ UNCHANGED <<status, currAttempt, isOpen, receiverWindow, lastReleased,
                         empty, pendingPackets, sockReady, sockq, rcvWnd, foreign>>
        BY <1>3, <2>2 DEF SynSend, connVars, SYN_MAX_ATTEMPTS
    <2>4. TypeOK'
        BY <2>3, <2>1, <2>2 DEF TypeOK
    <2>5. TimeoutInv'
        BY <2>2, <2>3 DEF Inv, TimeoutInv, Unread
    <2>6. ConnectInv'
        BY <2>3 DEF Inv, ConnectInv
    <2> QED
        BY <2>4, <2>5, <2>6 DEF Inv
<1>4. CASE SynTimeout
    <2>1. CASE Return("TIMEOUT")
        BY <2>1, ReturnInv
    <2>2. CASE /\ ~LastAttempt /\ currAttempt' = currAttempt + 1 /\ pc' = "syn"
               /\ UNCHANGED <<status, connVars, netVars>>
        <3>1. TypeOK
            BY DEF Inv
        <3>2. currAttempt \in 0..2 /\ Unread \in Nat
            BY <3>1, Types
        <3>3. /\ pc = "select" /\ pc' = "syn"
              /\ currAttempt' = currAttempt + 1 /\ currAttempt' \in 0..2
              /\ UNCHANGED <<status, isOpen, receiverWindow, lastReleased,
                             empty, pendingPackets, sockReady, syns, sockq, rcvWnd,
                             foreign>>
            BY <1>4, <2>2, <3>2 DEF SynTimeout, LastAttempt, connVars, netVars
        <3>4. TypeOK'
            BY <3>1, <3>3 DEF TypeOK, SYN_MAX_ATTEMPTS
        <3>5. TimeoutInv'
            BY <3>2, <3>3 DEF Inv, TimeoutInv, Unread
        <3>6. ConnectInv'
            BY <3>3 DEF Inv, ConnectInv
        <3> QED
            BY <3>4, <3>5, <3>6 DEF Inv
    <2> QED
        BY <1>4, <2>1, <2>2 DEF SynTimeout
<1> QED
    BY <1>1, <1>2, <1>3, <1>4

LEMMA RecvInv == ASSUME Inv, RecvSynAck \/ RecvForeign PROVE Inv'
<1>1. TypeOK
    BY DEF Inv
<1>2. /\ sockq["SYN-ACK"] \in Nat /\ sockq["foreign"] \in Nat /\ syns \in Nat
      /\ currAttempt \in 0..2 /\ Unread \in Nat
      /\ "SYN-ACK" \in Kinds /\ "foreign" \in Kinds
    BY <1>1, Types
<1>3. CASE RecvSynAck
    <2>1. /\ pc = "select" /\ pc' = "tail" /\ IsIn("SYN-ACK", sockq)
          /\ sockq' = Take(sockq, "SYN-ACK")
          /\ receiverWindow' = rcvWnd
          /\ lastReleased' = min(W, rcvWnd) /\ empty' = min(W, rcvWnd)
          /\ UNCHANGED <<status, isOpen, currAttempt, pendingPackets, sockReady, syns,
                         rcvWnd, foreign>>
        BY <1>3 DEF RecvSynAck, initialCredits
    <2>2. /\ sockq' \in [Kinds -> Nat] /\ sockq'["SYN-ACK"] = sockq["SYN-ACK"] - 1
          /\ sockq'["foreign"] = sockq["foreign"]
        BY <1>1, <1>2, <2>1, TakeOne
    <2>3. min(W, rcvWnd) \in 0..W /\ min(W, rcvWnd) \in -1..W
        <3>1. rcvWnd \in Nat
            BY <1>1 DEF TypeOK
        <3> QED
            BY <3>1, MinType
    <2>4. TypeOK'
        BY <1>1, <2>1, <2>2, <2>3 DEF TypeOK
    <2>5. TimeoutInv'
        BY <1>2, <2>1, <2>2 DEF Inv, TimeoutInv, Unread
    <2>6. ConnectInv'
        BY <2>1 DEF Inv, ConnectInv
    <2> QED
        BY <2>4, <2>5, <2>6 DEF Inv
<1>4. CASE RecvForeign
    <2>1. /\ pc = "select" /\ pc' = "syn" /\ IsIn("foreign", sockq)
          /\ sockq' = Take(sockq, "foreign")
          /\ UNCHANGED <<status, isOpen, currAttempt, receiverWindow, lastReleased,
                         empty, pendingPackets, sockReady, syns, rcvWnd, foreign>>
        BY <1>4 DEF RecvForeign, connVars
    <2>2. sockq' \in [Kinds -> Nat]
        BY <1>1, <1>2, <2>1, TakeOne
    <2>3. foreign # 0
        BY <2>1 DEF Inv, TimeoutInv, IsIn
    <2>4. TypeOK'
        BY <1>1, <2>1, <2>2 DEF TypeOK
    <2>5. TimeoutInv'
        BY <2>1, <2>3 DEF TimeoutInv
    <2>6. ConnectInv'
        BY <2>1 DEF Inv, ConnectInv
    <2> QED
        BY <2>4, <2>5, <2>6 DEF Inv
<1> QED
    BY <1>3, <1>4

LEMMA ConnectedInv == ASSUME Inv, Connect PROVE Inv'
<1>1. TypeOK
    BY DEF Inv
<1>2. /\ sockq \in [Kinds -> Nat] /\ currAttempt \in 0..2 /\ Unread \in Nat
      /\ "SYN-ACK" \in Kinds /\ \A k \in Kinds : k \in {"SYN-ACK", "foreign"}
    BY <1>1, Types DEF Kinds
<1>3. /\ pc = "tail" /\ pc' = "connected" /\ isOpen' = TRUE /\ pendingPackets' = W
      /\ sockReady' = AnyIn(sockq) /\ status' = "STATUS_OK"
      /\ UNCHANGED <<currAttempt, receiverWindow, lastReleased, empty, syns, sockq,
                     rcvWnd, foreign>>
    BY DEF Connect, SignaledByWaiting
<1>4. sockReady' \in BOOLEAN
    BY <1>3 DEF AnyIn
<1>5. TypeOK'
    BY <1>1, <1>3, <1>4 DEF TypeOK
<1>6. TimeoutInv'
    BY <1>2, <1>3 DEF Inv, TimeoutInv, Unread
<1>7. foreign = 0 => (AnyIn(sockq) <=> sockq["SYN-ACK"] > 0)
    BY <1>2 DEF AnyIn, Inv, TimeoutInv
<1>8. ConnectInv'
    BY <1>3, <1>7 DEF Inv, ConnectInv
<1> QED
    BY <1>5, <1>6, <1>8 DEF Inv

------------------------------------------------------------------------------
(* The network.                                                               *)

LEMMA RcvSynInv == ASSUME Inv, RcvSyn PROVE Inv'
<1>1. TypeOK
    BY DEF Inv
<1>2. /\ sockq["SYN-ACK"] \in Nat /\ sockq["foreign"] \in Nat /\ syns \in Nat
      /\ currAttempt \in 0..2
      /\ "SYN-ACK" \in Kinds /\ "foreign" \in Kinds /\ sockq \in [Kinds -> Nat]
      /\ \A k \in Kinds : k \in {"SYN-ACK", "foreign"}
    BY <1>1, Types DEF Kinds
<1>3. /\ syns > 0 /\ syns' = syns - 1
      /\ UNCHANGED <<pc, status, isOpen, currAttempt, receiverWindow, lastReleased,
                     empty, pendingPackets, rcvWnd, foreign>>
    BY DEF RcvSyn, openUnchanged, connVars
<1>4. syns' \in Nat
    BY <1>2, <1>3
<1>5. CASE UNCHANGED <<sockq, sockReady>>
    <2>1. TypeOK'
        BY <1>1, <1>3, <1>4, <1>5 DEF TypeOK
    <2>2. TimeoutInv'
        BY <1>2, <1>3, <1>5 DEF Inv, TimeoutInv, Unread
    <2>3. ConnectInv'
        BY <1>3, <1>5 DEF Inv, ConnectInv
    <2> QED
        BY <2>1, <2>2, <2>3 DEF Inv
<1>6. CASE Arrive("SYN-ACK")
    <2>1. sockq' = Put(sockq, "SYN-ACK", Room) /\ sockReady' = (pc = "connected")
        BY <1>6 DEF Arrive
    <2>2. /\ sockq' \in [Kinds -> Nat]
          /\ sockq'["SYN-ACK"] \in {sockq["SYN-ACK"], sockq["SYN-ACK"] + 1}
          /\ sockq'["foreign"] = sockq["foreign"]
          /\ (\A j \in Kinds : sockq[j] = 0) => sockq'["SYN-ACK"] = 1
        BY <1>1, <1>2, <2>1, PutOne
    <2>3. TypeOK'
        BY <1>1, <1>3, <1>4, <2>1, <2>2 DEF TypeOK
    <2>4. TimeoutInv'
        BY <1>2, <1>3, <2>2 DEF Inv, TimeoutInv, Unread
    <2>5. foreign = 0 => sockq'["SYN-ACK"] > 0
        <3>1. CASE sockq["SYN-ACK"] = 0
            BY <1>2, <2>2, <3>1 DEF Inv, TimeoutInv
        <3>2. CASE sockq["SYN-ACK"] # 0
            BY <1>2, <2>2, <3>2
        <3> QED
            BY <3>1, <3>2
    <2>6. ConnectInv'
        BY <1>3, <2>1, <2>5 DEF Inv, ConnectInv
    <2> QED
        BY <2>3, <2>4, <2>6 DEF Inv
<1> QED
    BY <1>5, <1>6 DEF RcvSyn

LEMMA ForeignInv == ASSUME Inv, ForeignDatagram PROVE Inv'
<1>1. TypeOK
    BY DEF Inv
<1>2. "foreign" \in Kinds
    BY DEF Kinds
<1>3. /\ pc = "select" /\ foreign < MaxForeign /\ foreign' = foreign + 1
      /\ sockq' = Put(sockq, "foreign", Room) /\ sockReady' = (pc = "connected")
      /\ UNCHANGED <<syns, pc, status, isOpen, currAttempt, receiverWindow, lastReleased,
                     empty, pendingPackets, rcvWnd>>
    BY DEF ForeignDatagram, Arrive, openUnchanged, connVars
<1>4. sockq' \in [Kinds -> Nat]
    BY <1>1, <1>2, <1>3, PutOne
<1>5. foreign' \in 0..MaxForeign /\ foreign' # 0
    BY <1>1, <1>3 DEF TypeOK
<1>6. TypeOK'
    BY <1>1, <1>3, <1>4, <1>5 DEF TypeOK
<1>7. TimeoutInv' /\ ConnectInv'
    BY <1>3, <1>5 DEF Inv, TimeoutInv, ConnectInv
<1> QED
    BY <1>6, <1>7 DEF Inv

LEMMA NextInv == Inv /\ [Next]_vars => Inv'
<1> SUFFICES ASSUME Inv, [Next]_vars PROVE Inv'
    OBVIOUS
<1>1. CASE UNCHANGED vars
    BY <1>1 DEF vars, Inv, TypeOK, TimeoutInv, Unread, ConnectInv
<1>2. CASE Done
    BY <1>1, <1>2 DEF Done
<1> QED
    BY <1>1, <1>2, SynInv, RecvInv, ConnectedInv, RcvSynInv, ForeignInv DEF Next, OpenStep

LEMMA Invariant == Spec => []Inv
BY InitInv, NextInv, PTL DEF Spec

------------------------------------------------------------------------------

\* Every variable of Open() keeps its type; in particular currAttempt never reaches
\* SYN_MAX_ATTEMPTS, so that the loop ends by a SYN-ACK or a return and never by its
\* own test.
THEOREM TypeCorrect == Spec => []TypeOK
<1>1. Inv => TypeOK
    BY DEF Inv
<1> QED
    BY <1>1, Invariant, PTL

\* Open() hands over to Send() and the worker exactly what the transfer starts from:
\* slots, credits and windows that agree, and an event that is signaled if and only if
\* late SYN-ACKs wait in the socket, of which there are at most two.
THEOREM HandedOver == Spec => []Handover
<1>1. ASSUME Inv, status = "STATUS_OK", foreign = 0
      PROVE  Transfer!Init
    <2>1. /\ pc = "connected" /\ pendingPackets = W
          /\ receiverWindow = rcvWnd /\ lastReleased = min(W, rcvWnd)
          /\ empty = min(W, rcvWnd) /\ (sockReady <=> sockq["SYN-ACK"] > 0)
        BY <1>1 DEF Inv, ConnectInv
    <2>2. sockReady \in BOOLEAN /\ rcvWnd \in RecvWnds
        BY <1>1 DEF Inv, TypeOK
    <2>3. sockq["SYN-ACK"] \in 0..2
        BY <1>1, <2>1, Types DEF Inv, TimeoutInv, Unread
    <2>4. min(W, rcvWnd) = Transfer!min(W, rcvWnd)
        BY DEF min, Transfer!min
    <2>5. Transfer!Seqs = 0..1 /\ Transfer!Uninit = -1 /\ Transfer!Nothing = -2
          /\ Transfer!Payloads = -1..1
        BY DEF Transfer!Seqs, Transfer!Uninit, Transfer!Nothing, Transfer!Payloads
    <2>6. /\ Transfer!DataPkts = [fin : {FALSE}, seq : 0..1, data : -1..1]
          /\ Transfer!FinPkts = [fin : {TRUE}, seq : 0..2, data : {-1}]
        BY <2>5 DEF Transfer!DataPkts, Transfer!FinPkts
    <2> DEFINE A == [fin : {FALSE}, ackSeq : 0..2, recvWnd : RecvWnds]
                    \cup [fin : {TRUE}, ackSeq : 0..2, recvWnd : {0}]
               a == [fin |-> FALSE, ackSeq |-> 0, recvWnd |-> rcvWnd]
    <2>7. Transfer!NoDatagrams(Transfer!Acks) = [m \in A |-> 0]
        BY DEF Transfer!NoDatagrams, Transfer!Acks
    <2>8. [m \in A |-> IF m = a THEN sockq["SYN-ACK"] ELSE 0]
              = [[m \in A |-> 0] EXCEPT ![a] = sockq["SYN-ACK"]]
        OBVIOUS
    <2>9. \E late \in 0..(Transfer!SYN_MAX_ATTEMPTS - 1) :
            /\ [m \in A |-> IF m = a THEN sockq["SYN-ACK"] ELSE 0]
                 = [Transfer!NoDatagrams(Transfer!Acks) EXCEPT
                      ![[fin |-> FALSE, ackSeq |-> 0, recvWnd |-> receiverWindow]] = late]
            /\ sockReady = (late > 0)
        <3>1. sockReady = (sockq["SYN-ACK"] > 0)
            BY <2>1, <2>2, <2>3
        <3>2. sockq["SYN-ACK"] \in 0..(Transfer!SYN_MAX_ATTEMPTS - 1)
            BY <2>3 DEF Transfer!SYN_MAX_ATTEMPTS
        <3>3. receiverWindow = rcvWnd
            BY <2>1
        <3> HIDE DEF A
        <3> QED
            BY <2>7, <2>8, <3>1, <3>2, <3>3
    <2>10. [d \in [fin : {FALSE}, seq : 0..1, data : -1..1]
                  \cup [fin : {TRUE}, seq : 0..2, data : {-1}] |-> 0]
              = Transfer!NoDatagrams(Transfer!DataPkts \cup Transfer!FinPkts)
        BY <2>6 DEF Transfer!NoDatagrams
    <2>11. [i \in 0..(pendingPackets - 1) |-> [seq |-> -1, data |-> -1, flagged |-> FALSE]]
              = [i \in 0..(W - 1) |->
                   [seq |-> Transfer!Uninit, data |-> Transfer!Uninit, flagged |-> FALSE]]
        BY <2>1, <2>5
    <2> QED
        BY <1>1, <2>1, <2>2, <2>4, <2>5, <2>9, <2>10, <2>11 DEF Transfer!Init
<1> QED
    BY <1>1, Invariant, PTL DEF Handover
==============================================================================
