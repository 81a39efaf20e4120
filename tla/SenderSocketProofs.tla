-------------------------- MODULE SenderSocketProofs --------------------------
(***************************************************************************)
(* Theorems about SenderSocket, for every number of packets, every window  *)
(* size and every bound; the last one is that it implements                *)
(* ReliableTransfer.                                                       *)
(***************************************************************************)
EXTENDS SenderSocket, TLAPS

USE ConstAssumption

------------------------------------------------------------------------------
(* The bags of datagrams.                                                     *)

\* sendto() leaves a bag of datagrams, whether or not the cap drops m.
LEMMA PutType ==
    ASSUME NEW S, NEW q \in [S -> Nat], NEW m, NEW cap
    PROVE  Put(q, m, cap) \in [S -> Nat]
<1>1. ASSUME NEW x \in S
      PROVE  [q EXCEPT ![m] = @ + 1][x] \in Nat
    <2>1. CASE x = m
        BY <2>1
    <2>2. CASE x # m
        BY <2>2
    <2> QED
        BY <2>1, <2>2
<1>2. [q EXCEPT ![m] = @ + 1] \in [S -> Nat]
    BY <1>1
<1> QED
    BY <1>2 DEF Put

\* recvfrom(), or a loss, leaves a bag of datagrams.
LEMMA TakeType ==
    ASSUME NEW S, NEW q \in [S -> Nat], NEW m \in S, IsIn(m, q)
    PROVE  Take(q, m) \in [S -> Nat]
BY DEF Take, IsIn

\* Nothing but m can be new in the bag after sendto().
LEMMA PutMembers ==
    ASSUME NEW S, NEW q \in [S -> Nat], NEW m, NEW cap, NEW x \in S,
           IsIn(x, Put(q, m, cap))
    PROVE  x = m \/ IsIn(x, q)
BY DEF Put, IsIn

\* Nothing is new in the bag after recvfrom() or a loss.
LEMMA TakeMembers ==
    ASSUME NEW S, NEW q \in [S -> Nat], NEW m \in S, NEW x \in S,
           IsIn(x, Take(q, m))
    PROVE  IsIn(x, q)
BY DEF Take, IsIn

\* sendto() into a queue with room, when something is in it already: it then
\* holds two datagrams, so one is left whichever is taken.
LEMMA TwoAfterPut ==
    ASSUME NEW S, NEW q \in [S -> Nat], NEW m \in S, NEW cap,
           Load(q, cap) < cap
    PROVE  /\ AnyIn(Put(q, m, cap))
           /\ AnyIn(q) => \A x \in S : IsIn(x, Put(q, m, cap)) =>
                              AnyIn(Take(Put(q, m, cap), x))
<1>1. Put(q, m, cap) = [q EXCEPT ![m] = @ + 1]
    BY DEF Put
<1> DEFINE p == [q EXCEPT ![m] = @ + 1]
<1>2. p \in [S -> Nat] /\ DOMAIN p = S /\ p[m] > 0 /\ \A y \in S : p[y] >= q[y]
    OBVIOUS
<1>3. AnyIn(p)
    BY <1>2 DEF AnyIn
<1>4. ASSUME NEW y \in S, q[y] > 0, NEW x \in S, p[x] > 0
      PROVE  AnyIn([p EXCEPT ![x] = @ - 1])
    <2> DEFINE r == [p EXCEPT ![x] = @ - 1]
    <2>1. DOMAIN r = S
        BY <1>2
    <2>2. CASE x # m
        <3>1. r[m] > 0
            BY <1>2, <2>2
        <3> QED
            BY <2>1, <3>1 DEF AnyIn
    <2>3. CASE x = m /\ y = m
        <3>1. r[m] > 0
            BY <1>4, <2>3
        <3> QED
            BY <2>1, <3>1 DEF AnyIn
    <2>4. CASE x = m /\ y # m
        <3>1. r[y] > 0
            BY <1>4, <2>4
        <3> QED
            BY <2>1, <3>1 DEF AnyIn
    <2> QED
        BY <2>2, <2>3, <2>4
<1>5. AnyIn(q) => \A x \in S : IsIn(x, p) => AnyIn(Take(p, x))
    BY <1>4 DEF AnyIn, IsIn, Take
<1> QED
    BY <1>1, <1>3, <1>5

------------------------------------------------------------------------------
(* Slots.  Two packets less than the size of the ring apart never share one.  *)

LEMMA AddLess ==
    ASSUME NEW a \in Nat, NEW b \in Nat, NEW c \in Nat, b > a
    PROVE  a + c < b + c
OBVIOUS

LEMMA AddBoth ==
    ASSUME NEW a \in Nat, NEW b \in Nat, NEW c \in Nat, NEW d \in Nat, NEW x \in Nat,
           b > a, c <= d, x <= a + c
    PROVE  x < b + d /\ x <= b + d
OBVIOUS

LEMMA NoMultipleBelow ==
    ASSUME NEW w \in Nat \ {0}, NEW k \in Int, 0 < w * k
    PROVE  w <= w * k
<1>1. CASE k <= 0
    <2>1. w * k <= 0
        BY <1>1
    <2> QED
        BY <2>1
<1>2. CASE k >= 1
    <2>1. w * (k - 1) >= 0
        BY <1>2
    <2> QED
        BY <2>1
<1> QED
    BY <1>1, <1>2

LEMMA DivMod ==
    ASSUME NEW w \in Nat \ {0}, NEW a \in Nat
    PROVE  a = w * (a \div w) + (a % w) /\ (a \div w) \in Int /\ (a % w) \in Int
OBVIOUS

LEMMA SlotsDiffer ==
    ASSUME NEW w \in Nat \ {0}, NEW a \in Nat, NEW b \in Nat, a < b, b < a + w
    PROVE  (a % w) # (b % w)
<1> SUFFICES ASSUME (a % w) = (b % w) PROVE FALSE
    OBVIOUS
<1> DEFINE p == a \div w
<1> DEFINE q == b \div w
<1> DEFINE r == a % w
<1>1. a = w * p + r /\ p \in Int /\ r \in Int
    BY DivMod
<1>2. b = w * q + r /\ q \in Int
    BY DivMod
<1> HIDE DEF p, q, r
<1>3. b - a = w * (q - p)
    BY <1>1, <1>2
<1>4. 0 < w * (q - p) /\ w * (q - p) < w
    <2>1. 0 < b - a /\ b - a < w
        OBVIOUS
    <2> QED
        BY <1>3, <2>1
<1>5. q - p \in Int /\ w * (q - p) \in Int
    BY <1>1, <1>2
<1>6. w <= w * (q - p)
    BY <1>4, <1>5, NoMultipleBelow
<1> QED
    BY <1>4, <1>5, <1>6

------------------------------------------------------------------------------
(* Arithmetic of windows and counts.                                          *)

LEMMA MinNat ==
    ASSUME NEW a \in Nat, NEW b \in Nat
    PROVE  /\ min(a, b) \in Nat
           /\ min(a, b) <= a /\ min(a, b) <= b
           /\ min(a, b) = a \/ min(a, b) = b
BY DEF min

------------------------------------------------------------------------------
(* Type correctness.  Two facts about the program counter make it inductive:  *)
(* Send() runs only while packets remain, and a FIN is under way only while   *)
(* attempts remain.                                                           *)

PcInv ==
    /\ mpc \in {"window", "store", "header", "copy"} => nextSeq < N
    /\ mpc \in {"select", "recv"} => currAttempt < MAX_ATTEMPTS

TypeInv == TypeOK /\ PcInv

LEMMA SlotIndex == ASSUME NEW s \in Nat PROVE s % W \in 0..(W - 1)
OBVIOUS

LEMMA InitType == Init => TypeInv
<1> SUFFICES ASSUME Init PROVE TypeInv
    OBVIOUS
<1>1. sockq \in [Acks -> Nat]
    <2>1. PICK late \in 0..(SYN_MAX_ATTEMPTS - 1) :
            sockq = [NoDatagrams(Acks) EXCEPT
              ![[fin |-> FALSE, ackSeq |-> 0, recvWnd |-> receiverWindow]] = late]
        BY DEF Init
    <2>2. late \in Nat
        BY DEF SYN_MAX_ATTEMPTS
    <2>3. NoDatagrams(Acks) \in [Acks -> Nat]
        BY DEF NoDatagrams
    <2> QED
        BY <2>1, <2>2, <2>3
<1>2. net \in [DataPkts \cup FinPkts -> Nat]
    BY DEF Init, NoDatagrams
<1>3. pendingPackets \in [0..(W - 1) -> Packets]
    BY DEF Init, Packets, Payloads
<1>4. receiverWindow \in RecvWnds /\ rcvWnd \in RecvWnds /\ receiverWindow \in Nat
    BY DEF Init
<1>5. min(W, receiverWindow) \in 0..W
    <2>1. W \in Nat
        OBVIOUS
    <2>2. min(W, receiverWindow) \in Nat /\ min(W, receiverWindow) <= W
        BY <1>4, <2>1, MinNat
    <2> QED
        BY <2>1, <2>2
<1>6. empty \in 0..W /\ lastReleased \in Nat /\ sockReady \in BOOLEAN
    <2>1. empty = min(W, receiverWindow) /\ lastReleased = min(W, receiverWindow)
        BY DEF Init
    <2>2. sockReady \in BOOLEAN
        <3>1. PICK late \in 0..(SYN_MAX_ATTEMPTS - 1) : sockReady = (late > 0)
            BY DEF Init
        <3> QED
            BY <3>1
    <2>3. empty \in 0..W /\ lastReleased \in Nat
        BY <1>5, <2>1
    <2> QED
        BY <2>2, <2>3
<1>7. got \in [Seqs -> Payloads \cup {Nothing}] /\ sentTimes \in [Seqs -> 0..2]
    BY DEF Init
<1>8. /\ mpc = "send" /\ wpc = "wait" /\ status = "STATUS_OK"
      /\ mEff \in Nat /\ currAttempt \in 0..MAX_ATTEMPTS
      /\ base \in 0..N /\ nextSeq \in 0..N /\ nextToSend \in Nat
      /\ effectiveWindow \in Nat /\ retxForBase \in Nat /\ dupACK \in 0..4
      /\ full \in 0..W /\ rcvNext \in 0..N /\ resent \in Nat
      /\ lastSample \in Payloads
    BY DEF Init, Payloads
<1>9. eventQuit \in BOOLEAN /\ overtaken \in BOOLEAN
    BY Zenon DEF Init
<1>10. TypeOK
    BY <1>1, <1>2, <1>3, <1>4, <1>6, <1>7, <1>8, <1>9 DEF TypeOK
<1> QED
    BY <1>10 DEF Init, TypeInv, PcInv

LEMMA SendType == TypeInv /\ Send => TypeInv'
<1> SUFFICES ASSUME TypeInv, Send PROVE TypeInv'
    OBVIOUS
<1> USE DEF TypeInv, TypeOK, PcInv, workerUnchanged, ackVars, rcvVars, histVars
<1>1. CASE SendQuit
    BY <1>1 DEF SendQuit
<1>2. CASE SendAcquire
    BY <1>2 DEF SendAcquire
<1>3. CASE SendReadWindow
    BY <1>3, MinNat DEF SendReadWindow
<1>4. CASE SendStoreWindow
    BY <1>4 DEF SendStoreWindow
<1>5. CASE SendHeader
    <2>1. mpc = "header"
        BY <1>5 DEF SendHeader
    <2>2. nextSeq \in Nat /\ nextSeq \in Seqs
        BY <2>1 DEF Seqs
    <2>3. nextSeq % W \in 0..(W - 1)
        BY <2>2, SlotIndex
    <2>4. pendingPackets' \in [0..(W - 1) -> Packets]
        BY <1>5, <2>2, <2>3 DEF SendHeader, Packets, Payloads
    <2> QED
        BY <1>5, <2>4 DEF SendHeader
<1>6. CASE SendCopy
    <2>1. mpc = "copy"
        BY <1>6 DEF SendCopy
    <2>2. nextSeq \in Nat /\ nextSeq \in Seqs
        BY <2>1 DEF Seqs
    <2>3. nextSeq % W \in 0..(W - 1)
        BY <2>2, SlotIndex
    <2>4. pendingPackets' \in [0..(W - 1) -> Packets]
        <3>1. pendingPackets' =
                [pendingPackets EXCEPT ![nextSeq % W].data = nextSeq]
            BY <1>6 DEF SendCopy
        <3> QED
            BY <2>2, <2>3, <3>1 DEF Packets, Payloads
    <2>5. nextSeq' = nextSeq + 1
        BY <1>6 DEF SendCopy
    <2>6. nextSeq' \in 0..N
        BY <2>2, <2>5 DEF Seqs
    <2> QED
        BY <1>6, <2>4, <2>6 DEF SendCopy
<1>7. CASE SendQueue
    BY <1>7 DEF SendQueue
<1> QED
    BY <1>1, <1>2, <1>3, <1>4, <1>5, <1>6, <1>7 DEF Send

LEMMA CloseType == TypeInv /\ Close => TypeInv'
<1> SUFFICES ASSUME TypeInv, Close PROVE TypeInv'
    OBVIOUS
<1> USE DEF TypeInv, TypeOK, PcInv, closeUnchanged, ackVars, rcvVars, histVars,
            FinAttemptsLeft
<1>1. CASE CloseGiveUp
    BY <1>1 DEF CloseGiveUp
<1>2. CASE CloseAllAcked
    BY <1>2 DEF CloseAllAcked
<1>3. CASE FinSend
    <2>1. net' \in [DataPkts \cup FinPkts -> Nat]
        BY <1>3, PutType DEF FinSend
    <2> QED
        BY <1>3, <2>1 DEF FinSend
<1>4. CASE FinFail
    BY <1>4 DEF FinFail
<1>5. CASE FinTimeout
    BY <1>5 DEF FinTimeout
<1>6. CASE FinReadable
    BY <1>6 DEF FinReadable
<1>7. CASE FinWouldBlock
    BY <1>7 DEF FinWouldBlock
<1>8. ASSUME NEW m \in Acks, FinRecv(m) PROVE TypeInv'
    <2>1. sockq' \in [Acks -> Nat]
        BY <1>8, TakeType DEF FinRecv
    <2>2. sockReady' \in BOOLEAN
        BY <1>8 DEF FinRecv, StillReadable, AnyIn, Acks
    <2> QED
        BY <1>8, <2>1, <2>2 DEF FinRecv
<1>9. CASE FinExhausted
    BY <1>9 DEF FinExhausted
<1>10. CASE Destroy
    <2>1. eventQuit' \in BOOLEAN
        BY <1>10 DEF Destroy
    <2> QED
        BY <1>10, <2>1 DEF Destroy
<1>11. CASE Join
    BY <1>11 DEF Join
<1> QED
    BY <1>1, <1>2, <1>3, <1>4, <1>5, <1>6, <1>7, <1>8, <1>9, <1>10, <1>11
       DEF Close

\* A transmission keeps the bag of datagrams and the counts of transmissions.
LEMMA TransmitType ==
    ASSUME TypeOK, NEW p, Transmit(p)
    PROVE  /\ net' \in [DataPkts \cup FinPkts -> Nat]
           /\ sentTimes' \in [Seqs -> 0..2]
<1>1. net' \in [DataPkts \cup FinPkts -> Nat]
    BY PutType DEF TypeOK, Transmit
<1>2. sentTimes' \in [Seqs -> 0..2]
    <2>2. sentTimes \in [Seqs -> 0..2]
        BY DEF TypeOK
    <2>1. ASSUME p.seq \in Seqs PROVE min(2, sentTimes[p.seq] + 1) \in 0..2
        BY <2>1, <2>2 DEF min
    <2>3. CASE p.seq \in Seqs
        <3>1. sentTimes' = [sentTimes EXCEPT ![p.seq] = min(2, @ + 1)]
            BY <2>3 DEF Transmit
        <3> QED
            BY <2>1, <2>2, <2>3, <3>1
    <2>4. CASE p.seq \notin Seqs
        BY <2>2, <2>4 DEF Transmit
    <2> QED
        BY <2>3, <2>4
<1> QED
    BY <1>1, <1>2

LEMMA ReceiveType ==
    ASSUME TypeOK, NEW m \in Acks, Receive(m)
    PROVE  sockq' \in [Acks -> Nat] /\ sockReady' \in BOOLEAN
<1>1. sockq' \in [Acks -> Nat]
    BY TakeType DEF TypeOK, Receive
<1>2. sockReady' \in BOOLEAN
    BY DEF TypeOK, Receive, StillReadable, AnyIn
<1> QED
    BY <1>1, <1>2

LEMMA AckFields ==
    ASSUME NEW m \in Acks
    PROVE  /\ m.ackSeq \in 0..N
           /\ m.fin \in BOOLEAN
           /\ ~m.fin => m.recvWnd \in RecvWnds
BY DEF Acks

\* The worker's type correctness needs that no FIN-ACK can move base.
NoFinAckMovesBase ==
    \A m \in Acks : m.fin /\ IsIn(m, sockq) => base = N

LEMMA WorkerType == TypeInv /\ NoFinAckMovesBase /\ workerThread => TypeInv'
<1> SUFFICES ASSUME TypeInv, NoFinAckMovesBase, workerThread PROVE TypeInv'
    OBVIOUS
<1> USE DEF TypeInv, TypeOK, PcInv, ackVars, rcvVars, histVars, mainVars
<1>1. CASE WorkerQuit
    BY <1>1 DEF WorkerQuit
<1>2. CASE WorkerSend
    <2>1. nextToSend % W \in 0..(W - 1)
        BY SlotIndex
    <2>2. pendingPackets' \in [0..(W - 1) -> Packets]
        BY <1>2, <2>1 DEF WorkerSend, Packets
    <2>3. /\ net' \in [DataPkts \cup FinPkts -> Nat]
          /\ sentTimes' \in [Seqs -> 0..2]
        BY <1>2, TransmitType DEF WorkerSend
    <2>4. full' = full - 1 /\ full > 0
        BY <1>2 DEF WorkerSend
    <2>5. full' \in 0..W
        BY <2>4
    <2>6. effectiveWindow' \in Nat
        BY <1>2, MinNat DEF WorkerSend
    <2>7. eventQuit' \in BOOLEAN
        BY <1>2 DEF WorkerSend
    <2>8. nextToSend' = nextToSend + 1
        BY <1>2 DEF WorkerSend
    <2>9. UNCHANGED <<mainVars, wpc, ackVars, nextSeq, empty, sockReady, sockq,
                      rcvVars, resent, lastSample, overtaken>>
        BY <1>2 DEF WorkerSend
    <2> QED
        BY <2>2, <2>3, <2>5, <2>6, <2>7, <2>8, <2>9
<1>3. CASE WorkerWake
    BY <1>3 DEF WorkerWake
<1>4. CASE WorkerRecvFail
    BY <1>4 DEF WorkerRecvFail
<1>5. ASSUME NEW m \in Acks, WorkerNewAck(m) PROVE TypeInv'
    <2>1. sockq' \in [Acks -> Nat] /\ sockReady' \in BOOLEAN
        BY <1>5, ReceiveType DEF WorkerNewAck
    <2>2. m.ackSeq > base /\ IsIn(m, sockq)
        BY <1>5 DEF WorkerNewAck, Receive
    <2>3. ~m.fin
        BY <2>2, AckFields DEF NoFinAckMovesBase
    <2>4. m.recvWnd \in RecvWnds /\ m.recvWnd \in Nat
        BY <2>3, AckFields
    <2>5. m.ackSeq \in 1..N
        <3>1. m.ackSeq \in 0..N /\ base \in 0..N
            BY AckFields
        <3> QED
            BY <2>2, <3>1
    <2>6. effectiveWindow' \in Nat
        BY <1>5, <2>4, MinNat DEF WorkerNewAck
    <2>7. lastSample' \in Payloads
        <3>1. m.ackSeq - 1 \in Payloads
            BY <2>5 DEF Payloads, Seqs
        <3>2. lastSample' = m.ackSeq - 1 \/ lastSample' = lastSample
            BY <1>5 DEF WorkerNewAck
        <3> QED
            BY <3>1, <3>2
    <2>8. /\ base' = m.ackSeq /\ receiverWindow' = m.recvWnd
          /\ retxForBase' = 0 /\ resent' = 0 /\ wpc' = "release"
          /\ UNCHANGED <<mpc, mEff, status, currAttempt, nextSeq,
                         nextToSend, lastReleased, dupACK, pendingPackets, empty,
                         full, eventQuit, net, got, rcvNext, rcvWnd, sentTimes>>
        BY <1>5 DEF WorkerNewAck
    <2>9. base' \in 0..N /\ receiverWindow' \in RecvWnds
        BY <2>4, <2>5, <2>8
    <2>10. overtaken' \in BOOLEAN
        BY <1>5 DEF WorkerNewAck
    <2> QED
        BY <2>1, <2>6, <2>7, <2>8, <2>9, <2>10
<1>6. ASSUME NEW m \in Acks, WorkerDupAck(m) PROVE TypeInv'
    <2>1. sockq' \in [Acks -> Nat] /\ sockReady' \in BOOLEAN
        BY <1>6, ReceiveType DEF WorkerDupAck
    <2>2. /\ net' \in [DataPkts \cup FinPkts -> Nat]
          /\ sentTimes' \in [Seqs -> 0..2]
        BY <1>6, TransmitType DEF WorkerDupAck
    <2>3. dupACK' \in 0..4 /\ retxForBase' \in Nat /\ resent' \in Nat
        BY <1>6 DEF WorkerDupAck, min
    <2> QED
        BY <1>6, <2>1, <2>2, <2>3 DEF WorkerDupAck
<1>7. ASSUME NEW m \in Acks, WorkerOldAck(m) PROVE TypeInv'
    <2>1. sockq' \in [Acks -> Nat] /\ sockReady' \in BOOLEAN
        BY <1>7, ReceiveType DEF WorkerOldAck
    <2> QED
        BY <1>7, <2>1 DEF WorkerOldAck
<1>8. CASE WorkerRelease
    BY <1>8 DEF WorkerRelease, releasedNow, slotsToRelease, ReleaseOK
<1>9. CASE WorkerTimeout
    <2>1. /\ net' \in [DataPkts \cup FinPkts -> Nat]
          /\ sentTimes' \in [Seqs -> 0..2]
        BY <1>9, TransmitType DEF WorkerTimeout
    <2>2. eventQuit' \in BOOLEAN
        BY <1>9 DEF WorkerTimeout
    <2>3. retxForBase' \in Nat /\ resent' \in Nat
        BY <1>9 DEF WorkerTimeout
    <2>4. UNCHANGED <<mainVars, wpc, base, lastReleased, receiverWindow, dupACK,
                      nextSeq, nextToSend, effectiveWindow, pendingPackets, empty,
                      full, sockReady, sockq, rcvVars, lastSample, overtaken>>
        BY <1>9 DEF WorkerTimeout
    <2> QED
        BY <2>1, <2>2, <2>3, <2>4
<1>10. CASE WorkerGiveUp
    BY <1>10 DEF WorkerGiveUp
<1> QED
    BY <1>1, <1>2, <1>3, <1>4, <1>5, <1>6, <1>7, <1>8, <1>9, <1>10
       DEF workerThread

LEMMA ReplyType ==
    ASSUME TypeOK, NEW a, Reply(a)
    PROVE  sockq' \in [Acks -> Nat] /\ sockReady' \in BOOLEAN
<1> sockq \in [Acks -> Nat] /\ sockReady \in BOOLEAN
    BY DEF TypeOK
<1>1. sockq' \in [Acks -> Nat]
    BY PutType DEF Reply
<1>2. sockReady' \in BOOLEAN
    BY DEF Reply
<1> QED
    BY <1>1, <1>2

LEMMA EnvironmentType == TypeInv /\ Environment => TypeInv'
<1> SUFFICES ASSUME TypeInv, Environment PROVE TypeInv'
    OBVIOUS
<1> USE DEF TypeInv, TypeOK, PcInv, ackVars, rcvVars, histVars, mainVars
<1>1. ASSUME NEW d \in DataPkts, RcvData(d) PROVE TypeInv'
    <2>1. net' \in [DataPkts \cup FinPkts -> Nat]
        BY <1>1, TakeType DEF RcvData
    <2>2. d.seq \in Seqs /\ d.data \in Payloads
        BY DEF DataPkts
    <2>3. got' \in [Seqs -> Payloads \cup {Nothing}]
        BY <1>1, <2>2 DEF RcvData
    <2>4. rcvNext' \in 0..N /\ rcvWnd' \in RecvWnds
        BY <1>1 DEF RcvData
    <2>5. sockq' \in [Acks -> Nat] /\ sockReady' \in BOOLEAN
        BY <1>1, ReplyType DEF RcvData
    <2> QED
        BY <1>1, <2>1, <2>3, <2>4, <2>5 DEF RcvData
<1>2. ASSUME NEW d \in FinPkts, RcvFin(d) PROVE TypeInv'
    <2>1. net' \in [DataPkts \cup FinPkts -> Nat]
        BY <1>2, TakeType DEF RcvFin
    <2>2. sockq' \in [Acks -> Nat] /\ sockReady' \in BOOLEAN
        BY <1>2, ReplyType DEF RcvFin
    <2> QED
        BY <1>2, <2>1, <2>2 DEF RcvFin
<1>3. ASSUME NEW d \in DataPkts \cup FinPkts, Lose(d) PROVE TypeInv'
    <2>1. net' \in [DataPkts \cup FinPkts -> Nat]
        BY <1>3, TakeType DEF Lose
    <2> QED
        BY <1>3, <2>1 DEF Lose
<1> QED
    BY <1>1, <1>2, <1>3 DEF Environment

------------------------------------------------------------------------------
(* What a step can do to the network, the acknowledgments and base.           *)

LEMMA SendEffects ==
    Send => UNCHANGED <<wpc, base, lastReleased, receiverWindow, retxForBase,
                        dupACK, nextToSend, net, sockq, sockReady, eventQuit, got,
                        rcvNext, rcvWnd, sentTimes, resent, lastSample, overtaken>>
BY DEF Send, SendQuit, SendAcquire, SendReadWindow, SendStoreWindow, SendHeader,
       SendCopy, SendQueue, workerUnchanged, ackVars, rcvVars, histVars

LEMMA CloseEffects ==
    Close => UNCHANGED <<mEff, wpc, base, lastReleased, receiverWindow, retxForBase,
                         dupACK, nextSeq, nextToSend, effectiveWindow,
                         pendingPackets, empty, full, got, rcvNext, rcvWnd,
                         sentTimes, resent, lastSample, overtaken>>
BY DEF Close, CloseGiveUp, CloseAllAcked, FinSend, FinFail, FinTimeout, FinReadable,
       FinWouldBlock, FinRecv, FinExhausted, Destroy, Join, closeUnchanged, ackVars,
       rcvVars, histVars

LEMMA WorkerEffects ==
    workerThread => UNCHANGED <<mpc, mEff, status, currAttempt,
                                nextSeq, got, rcvNext, rcvWnd>>
BY DEF workerThread, WorkerQuit, WorkerSend, WorkerWake, WorkerRecvFail,
       WorkerNewAck, WorkerDupAck, WorkerOldAck, WorkerRelease, WorkerTimeout,
       WorkerGiveUp, mainVars, rcvVars

LEMMA EnvironmentEffects ==
    Environment => UNCHANGED <<mpc, mEff, status, currAttempt,
                               wpc, base, lastReleased, receiverWindow, retxForBase,
                               dupACK, nextSeq, nextToSend, effectiveWindow,
                               pendingPackets, empty, full, eventQuit, sentTimes,
                               resent, lastSample, overtaken>>
BY DEF Environment, RcvData, RcvFin, Lose, mainVars, ackVars, histVars

\* base moves only forward, to the sequence number of an acknowledgment that
\* was waiting in the socket, and the window moves with it.
LEMMA BaseStep ==
    ASSUME TypeInv, Next
    PROVE  \/ UNCHANGED <<base, receiverWindow>>
           \/ \E m \in Acks : /\ IsIn(m, sockq)
                              /\ base' = m.ackSeq /\ base' > base
                              /\ receiverWindow' = m.recvWnd
<1>1. CASE Send
    BY <1>1, SendEffects
<1>2. CASE Close
    BY <1>2, CloseEffects
<1>3. CASE workerThread
    <2>1. CASE \E m \in Acks : WorkerNewAck(m)
        BY <2>1 DEF WorkerNewAck, Receive
    <2>2. CASE ~\E m \in Acks : WorkerNewAck(m)
        BY <1>3, <2>2 DEF workerThread, WorkerQuit, WorkerSend, WorkerWake,
            WorkerRecvFail, WorkerDupAck, WorkerOldAck, WorkerRelease,
            WorkerTimeout, WorkerGiveUp, ackVars
    <2> QED
        BY <2>1, <2>2
<1>4. CASE Environment
    BY <1>4, EnvironmentEffects
<1>5. CASE Done
    BY <1>5 DEF Done, vars, ackVars
<1> QED
    BY <1>1, <1>2, <1>3, <1>4, <1>5 DEF Next

\* A datagram is new in the network only if Close() sent it as a FIN or the
\* worker sent it from a slot of pendingPackets.
NewFin(d) == d \in FinPkts /\ mpc = "fin"
FromSlot(d) ==
    /\ d \in DataPkts
    /\ \E i \in 0..(W - 1) : /\ d.seq = pendingPackets[i].seq
                             /\ d.data = pendingPackets[i].data

LEMMA TransmitMembers ==
    ASSUME TypeOK, NEW p, Transmit(p), NEW d \in DataPkts \cup FinPkts,
           IsIn(d, net')
    PROVE  \/ IsIn(d, net)
           \/ d = [fin |-> FALSE, seq |-> p.seq, data |-> p.data]
BY PutMembers DEF Transmit, TypeOK

LEMMA FinIsNotData == \A d \in FinPkts : d.fin /\ \A x \in DataPkts : ~x.fin
BY DEF FinPkts, DataPkts

LEMMA NetStep ==
    ASSUME TypeInv, Next, NEW d \in DataPkts \cup FinPkts, IsIn(d, net')
    PROVE  IsIn(d, net) \/ NewFin(d) \/ FromSlot(d)
<1> USE DEF TypeInv
<1>1. CASE Send
    BY <1>1, SendEffects
<1>2. CASE Close
    <2>1. CASE FinSend
        <3>1. d = [fin |-> TRUE, seq |-> base, data |-> Uninit] \/ IsIn(d, net)
            BY <2>1, PutMembers DEF FinSend, TypeOK
        <3>2. base \in 0..N /\ mpc = "fin"
            BY <2>1 DEF FinSend, TypeOK
        <3>3. d = [fin |-> TRUE, seq |-> base, data |-> Uninit] => d \notin DataPkts
            BY FinIsNotData DEF DataPkts
        <3> QED
            BY <3>1, <3>2, <3>3 DEF NewFin
    <2>2. CASE ~FinSend
        BY <1>2, <2>2 DEF Close, CloseGiveUp, CloseAllAcked, FinFail, FinTimeout,
            FinReadable, FinWouldBlock, FinRecv, FinExhausted, Destroy, Join
    <2> QED
        BY <2>1, <2>2
<1>3. CASE workerThread
    <2>1. ASSUME NEW i \in 0..(W - 1), NEW p, Transmit(p),
                 p.seq = pendingPackets[i].seq, p.data = pendingPackets[i].data
          PROVE  IsIn(d, net) \/ FromSlot(d)
        <3>1. IsIn(d, net) \/ d = [fin |-> FALSE, seq |-> p.seq, data |-> p.data]
            BY <2>1, TransmitMembers
        <3>2. CASE d = [fin |-> FALSE, seq |-> p.seq, data |-> p.data]
            <4>1. d \in DataPkts
                BY <3>2, FinIsNotData
            <4> QED
                BY <2>1, <3>2, <4>1 DEF FromSlot
        <3> QED
            BY <3>1, <3>2
    <2>2. base \in Nat /\ nextToSend \in Nat
        BY DEF TypeOK
    <2>3. base % W \in 0..(W - 1) /\ nextToSend % W \in 0..(W - 1)
        BY <2>2, SlotIndex
    <2>4. CASE WorkerSend
        <3>1. CASE Transmit(pendingPackets'[nextToSend % W])
            <4>1. /\ pendingPackets'[nextToSend % W].seq
                       = pendingPackets[nextToSend % W].seq
                  /\ pendingPackets'[nextToSend % W].data
                       = pendingPackets[nextToSend % W].data
                BY <2>3, <2>4 DEF WorkerSend, TypeOK, Packets
            <4> QED
                BY <2>1, <2>3, <3>1, <4>1
        <3>2. CASE UNCHANGED net
            BY <3>2
        <3> QED
            BY <2>4, <3>1, <3>2 DEF WorkerSend
    <2>5. CASE \E m \in Acks : WorkerDupAck(m)
        <3>1. CASE Transmit(pendingPackets[base % W])
            BY <2>1, <2>3, <3>1
        <3>2. CASE UNCHANGED net
            BY <3>2
        <3> QED
            BY <2>5, <3>1, <3>2 DEF WorkerDupAck
    <2>6. CASE WorkerTimeout
        <3>1. CASE Transmit(pendingPackets[base % W])
            BY <2>1, <2>3, <3>1
        <3>2. CASE UNCHANGED net
            BY <3>2
        <3> QED
            BY <2>6, <3>1, <3>2 DEF WorkerTimeout
    <2>7. CASE UNCHANGED net
        BY <2>7
    <2> QED
        BY <1>3, <2>4, <2>5, <2>6, <2>7 DEF workerThread, WorkerQuit, WorkerWake,
            WorkerRecvFail, WorkerNewAck, WorkerOldAck, WorkerRelease, WorkerGiveUp
<1>4. CASE Environment
    <2>1. PICK x \in DataPkts \cup FinPkts : net' = Take(net, x)
        BY <1>4 DEF Environment, RcvData, RcvFin, Lose
    <2>2. net \in [DataPkts \cup FinPkts -> Nat]
        BY DEF TypeOK
    <2>3. IsIn(d, Take(net, x))
        BY <2>1
    <2>4. IsIn(d, net)
        BY <2>2, <2>3, TakeMembers
    <2> QED
        BY <2>4
<1>5. CASE Done
    BY <1>5 DEF Done, vars
<1> QED
    BY <1>1, <1>2, <1>3, <1>4, <1>5 DEF Next

\* A datagram is new in the sender's socket only if the receiver has answered
\* a data packet, with its next expected sequence number and its window, or a FIN.
NewAnswer(m) ==
    /\ m.ackSeq = rcvNext'
    /\ IF m.fin THEN \E d \in FinPkts : IsIn(d, net) ELSE m.recvWnd = rcvWnd'

LEMMA ReplyMembers ==
    ASSUME TypeOK, NEW a, Reply(a), NEW m \in Acks, IsIn(m, sockq')
    PROVE  IsIn(m, sockq) \/ m = a
BY PutMembers DEF Reply, TypeOK

LEMMA ReceiveMembers ==
    ASSUME TypeOK, NEW a \in Acks, sockq' = Take(sockq, a),
           NEW m \in Acks, IsIn(m, sockq')
    PROVE  IsIn(m, sockq)
BY TakeMembers DEF TypeOK

LEMMA SockqStep ==
    ASSUME TypeInv, Next, NEW m \in Acks, IsIn(m, sockq')
    PROVE  IsIn(m, sockq) \/ NewAnswer(m)
<1> USE DEF TypeInv
<1>1. CASE Send
    BY <1>1, SendEffects
<1>2. CASE Close
    <2>1. CASE \E a \in Acks : FinRecv(a)
        BY <2>1, ReceiveMembers DEF FinRecv
    <2>2. CASE ~\E a \in Acks : FinRecv(a)
        BY <1>2, <2>2 DEF Close, CloseGiveUp, CloseAllAcked, FinSend, FinFail,
            FinTimeout, FinReadable, FinWouldBlock, FinExhausted, Destroy, Join
    <2> QED
        BY <2>1, <2>2
<1>3. CASE workerThread
    <2>1. CASE \E a \in Acks : Receive(a)
        BY <2>1, ReceiveMembers DEF Receive
    <2>2. CASE UNCHANGED sockq
        BY <2>2
    <2> QED
        BY <1>3, <2>1, <2>2 DEF workerThread, WorkerQuit, WorkerSend, WorkerWake,
            WorkerRecvFail, WorkerNewAck, WorkerDupAck, WorkerOldAck,
            WorkerRelease, WorkerTimeout, WorkerGiveUp
<1>4. CASE Environment
    <2>1. ASSUME NEW d \in DataPkts, RcvData(d)
          PROVE  IsIn(m, sockq) \/ NewAnswer(m)
        <3>1. PICK n \in rcvNext..N, w \in RecvWnds :
                /\ rcvNext' = n /\ rcvWnd' = w
                /\ Reply([fin |-> FALSE, ackSeq |-> n, recvWnd |-> w])
            BY <2>1 DEF RcvData
        <3>2. IsIn(m, sockq) \/ m = [fin |-> FALSE, ackSeq |-> n, recvWnd |-> w]
            BY <3>1, ReplyMembers
        <3> QED
            BY <3>1, <3>2 DEF NewAnswer
    <2>2. ASSUME NEW d \in FinPkts, RcvFin(d)
          PROVE  IsIn(m, sockq) \/ NewAnswer(m)
        <3>1. rcvNext' = rcvNext /\ IsIn(d, net)
            BY <2>2 DEF RcvFin, rcvVars
        <3>2. CASE Reply([fin |-> TRUE, ackSeq |-> rcvNext, recvWnd |-> 0])
            <4>1. IsIn(m, sockq) \/ m = [fin |-> TRUE, ackSeq |-> rcvNext, recvWnd |-> 0]
                BY <3>2, ReplyMembers
            <4> QED
                BY <3>1, <4>1 DEF NewAnswer
        <3>3. CASE UNCHANGED sockq
            BY <3>3
        <3> QED
            BY <2>2, <3>2, <3>3 DEF RcvFin
    <2>3. ASSUME NEW d \in DataPkts \cup FinPkts, Lose(d)
          PROVE  IsIn(m, sockq) \/ NewAnswer(m)
        BY <2>3 DEF Lose
    <2> QED
        BY <1>4, <2>1, <2>2, <2>3 DEF Environment
<1>5. CASE Done
    BY <1>5 DEF Done, vars
<1> QED
    BY <1>1, <1>2, <1>3, <1>4, <1>5 DEF Next

\* The receiver's next expected sequence number never goes back.
LEMMA RcvStep == ASSUME TypeInv, Next PROVE rcvNext' >= rcvNext /\ rcvNext' \in 0..N
<1> USE DEF TypeInv
<1>1. rcvNext \in 0..N
    BY DEF TypeOK
<1>2. ASSUME NEW d \in DataPkts, RcvData(d)
      PROVE  rcvNext' >= rcvNext /\ rcvNext' \in 0..N
    <2>1. PICK n \in rcvNext..N : rcvNext' = n
        BY <1>2 DEF RcvData
    <2> QED
        BY <1>1, <2>1
<1>3. CASE UNCHANGED rcvNext
    BY <1>1, <1>3
<1>4. CASE Environment
    BY <1>2, <1>3, <1>4 DEF Environment, RcvFin, Lose, rcvVars
<1> QED
    BY <1>3, <1>4, SendEffects, CloseEffects, WorkerEffects
       DEF Next, Done, vars, rcvVars

------------------------------------------------------------------------------
(* Nothing is acknowledged before it is received, and nothing is closed       *)
(* before everything is acknowledged.                                         *)

\* Close() is past its wait for the last acknowledgment.
PastAcks == mpc \in {"fin", "select", "recv"} \/ CloseReturnedOK

\* The FIN and its acknowledgment exist only once everything is acknowledged;
\* in particular the worker never takes the checksum of a FIN-ACK for a window.
FinInv ==
    /\ PastAcks => base = N
    /\ \A d \in FinPkts : IsIn(d, net) => base = N
    /\ NoFinAckMovesBase

AckInv ==
    /\ base <= rcvNext
    /\ \A m \in Acks : IsIn(m, sockq) => m.ackSeq <= rcvNext

LEMMA BaseAtEnd == ASSUME TypeInv, TypeInv', Next, base = N PROVE base' = N
<1>1. base' = base \/ base' > base
    BY BaseStep
<1>2. base' \in 0..N
    BY DEF TypeInv, TypeOK
<1> QED
    BY <1>1, <1>2

LEMMA FinInvStep == TypeInv /\ TypeInv' /\ FinInv /\ Next => FinInv'
<1> SUFFICES ASSUME TypeInv, TypeInv', FinInv, Next PROVE FinInv'
    OBVIOUS
<1>1. ASSUME PastAcks' PROVE base' = N
    <2>1. CASE PastAcks
        BY <2>1, BaseAtEnd DEF FinInv
    <2>2. CASE ~PastAcks
        <3>1. CASE Send
            BY <1>1, <2>2, <3>1 DEF Send, SendQuit, SendAcquire, SendReadWindow,
                SendStoreWindow, SendHeader, SendCopy, SendQueue, PastAcks,
                CloseReturnedOK, Exited
        <3>2. CASE Close
            <4>1. CASE CloseAllAcked
                BY <4>1, CloseEffects, <3>2 DEF CloseAllAcked, AllAcked, TypeInv, TypeOK
            <4>2. CASE ~CloseAllAcked
                BY <1>1, <2>2, <3>2, <4>2 DEF Close, CloseGiveUp, FinSend, FinFail,
                    FinTimeout, FinReadable, FinWouldBlock, FinRecv, FinExhausted,
                    Destroy, Join, PastAcks, CloseReturnedOK, Exited
            <4> QED
                BY <4>1, <4>2
        <3>3. CASE workerThread \/ Environment \/ Done
            <4>1. UNCHANGED <<mpc, status>>
                BY <3>3, WorkerEffects, EnvironmentEffects DEF Done, vars, mainVars
            <4> QED
                BY <1>1, <2>2, <4>1 DEF PastAcks, CloseReturnedOK, Exited
        <3> QED
            BY <3>1, <3>2, <3>3 DEF Next
    <2> QED
        BY <2>1, <2>2
<1>2. ASSUME NEW d \in FinPkts, IsIn(d, net') PROVE base' = N
    <2>1. d \notin DataPkts
        BY FinIsNotData
    <2>2. IsIn(d, net) \/ mpc = "fin"
        BY <1>2, <2>1, NetStep DEF NewFin, FromSlot
    <2>3. base = N
        BY <2>2 DEF FinInv, PastAcks
    <2> QED
        BY <2>3, BaseAtEnd
<1>3. ASSUME NEW m \in Acks, m.fin, IsIn(m, sockq') PROVE base' = N
    <2>1. IsIn(m, sockq) \/ \E d \in FinPkts : IsIn(d, net)
        BY <1>3, SockqStep DEF NewAnswer
    <2>2. base = N
        BY <1>3, <2>1 DEF FinInv, NoFinAckMovesBase
    <2> QED
        BY <2>2, BaseAtEnd
<1> QED
    BY <1>1, <1>2, <1>3 DEF FinInv, NoFinAckMovesBase

LEMMA AckInvStep == TypeInv /\ TypeInv' /\ AckInv /\ Next => AckInv'
<1> SUFFICES ASSUME TypeInv, TypeInv', AckInv, Next PROVE AckInv'
    OBVIOUS
<1>1. rcvNext' >= rcvNext /\ rcvNext \in 0..N /\ rcvNext' \in 0..N
    BY RcvStep DEF TypeInv, TypeOK
<1>2. base' <= rcvNext'
    <2>1. CASE base' = base
        BY <1>1, <2>1 DEF AckInv, TypeInv, TypeOK
    <2>2. ASSUME NEW m \in Acks, IsIn(m, sockq), base' = m.ackSeq
          PROVE  base' <= rcvNext'
        <3>1. m.ackSeq <= rcvNext /\ m.ackSeq \in 0..N
            BY <2>2, AckFields DEF AckInv
        <3> QED
            BY <1>1, <2>2, <3>1
    <2> QED
        BY <2>1, <2>2, BaseStep
<1>3. ASSUME NEW m \in Acks, IsIn(m, sockq') PROVE m.ackSeq <= rcvNext'
    BY <1>1, <1>3, SockqStep, AckFields DEF AckInv, NewAnswer
<1> QED
    BY <1>2, <1>3 DEF AckInv

\* The inductive invariant behind the theorems of this section.
CoreInv == TypeInv /\ FinInv /\ AckInv

LEMMA CoreInvInit == Init => CoreInv
<1> SUFFICES ASSUME Init PROVE CoreInv
    OBVIOUS
<1>1. TypeInv
    BY InitType
<1>2. \A d \in DataPkts \cup FinPkts : ~IsIn(d, net)
    BY DEF Init, NoDatagrams, IsIn
<1>3. ASSUME NEW m \in Acks, IsIn(m, sockq) PROVE ~m.fin /\ m.ackSeq = 0
    <2>1. PICK late \in 0..(SYN_MAX_ATTEMPTS - 1) :
            sockq = [NoDatagrams(Acks) EXCEPT
              ![[fin |-> FALSE, ackSeq |-> 0, recvWnd |-> receiverWindow]] = late]
        BY DEF Init
    <2>2. m = [fin |-> FALSE, ackSeq |-> 0, recvWnd |-> receiverWindow]
        BY <1>3, <2>1 DEF NoDatagrams, IsIn
    <2> QED
        BY <2>2
<1>4. FinInv
    BY <1>2, <1>3 DEF FinInv, NoFinAckMovesBase, PastAcks, CloseReturnedOK, Exited, Init
<1>5. base = 0 /\ rcvNext = 0
    BY DEF Init
<1>6. AckInv
    BY <1>3, <1>5 DEF AckInv
<1> QED
    BY <1>1, <1>4, <1>6 DEF CoreInv

LEMMA CoreInvStep == CoreInv /\ [Next]_vars => CoreInv'
<1> SUFFICES ASSUME CoreInv, [Next]_vars PROVE CoreInv'
    OBVIOUS
<1>1. CASE Next
    <2>1. TypeInv'
        <3>1. CASE Done
            BY <3>1 DEF CoreInv, Done, vars, mainVars, ackVars, rcvVars,
                histVars, TypeInv, TypeOK, PcInv
        <3> QED
            BY <1>1, <3>1, SendType, CloseType, WorkerType, EnvironmentType
               DEF Next, CoreInv, FinInv
    <2> QED
        BY <1>1, <2>1, FinInvStep, AckInvStep DEF CoreInv
<1>2. CASE UNCHANGED vars
    BY <1>2 DEF CoreInv, vars, mainVars, ackVars, rcvVars, histVars,
        TypeInv, TypeOK, PcInv, FinInv, NoFinAckMovesBase, AckInv, PastAcks,
        CloseReturnedOK, Exited, IsIn
<1> QED
    BY <1>1, <1>2

LEMMA CoreCorrect == Spec => []CoreInv
BY CoreInvInit, CoreInvStep, PTL DEF Spec

\* Every variable of the sender keeps its type: base never passes the last
\* packet, the semaphores stay within their limits, and receiverWindow holds a
\* window the receiver advertised, never the checksum of a FIN-ACK.
THEOREM TypeCorrect == Spec => []TypeOK
<1>1. CoreInv => TypeOK
    BY DEF CoreInv, TypeInv
<1> QED
    BY <1>1, CoreCorrect, PTL

\* Close() sends its FIN, and reports success, only when the receiver holds
\* every packet that Send() accepted.
THEOREM ClosedReceived == Spec => []ClosedMeansReceived
<1>1. CoreInv => ClosedMeansReceived
    BY DEF CoreInv, FinInv, AckInv, PastAcks, ClosedMeansReceived, TypeInv, TypeOK
<1> QED
    BY <1>1, CoreCorrect, PTL

------------------------------------------------------------------------------
(* The limit on retransmissions.  Timeouts stop at MAX_ATTEMPTS; the fast     *)
(* retransmit happens once for each value of base, because only a new         *)
(* acknowledgment sets dupACK back.                                           *)

RetxInv ==
    /\ resent <= retxForBase
    /\ resent <= MAX_ATTEMPTS + 1
    /\ dupACK < 3 => resent <= MAX_ATTEMPTS
    /\ dupACK < 3 /\ wpc # "done" => retxForBase <= MAX_ATTEMPTS
    /\ wpc = "release" => resent = 0 /\ retxForBase = 0

LEMMA RetxInvStep == TypeOK /\ RetxInv /\ [Next]_vars => RetxInv'
<1> SUFFICES ASSUME TypeOK, RetxInv, [Next]_vars PROVE RetxInv'
    OBVIOUS
<1> USE DEF RetxInv
<1>1. resent \in Nat /\ retxForBase \in Nat /\ dupACK \in 0..4
    BY DEF TypeOK
<1>2. CASE UNCHANGED <<resent, retxForBase, dupACK, wpc>>
    BY <1>2
<1>3. CASE WorkerQuit
    BY <1>3 DEF WorkerQuit, ackVars, histVars
<1>4. CASE WorkerSend
    BY <1>4, <1>2 DEF WorkerSend, ackVars
<1>5. CASE WorkerWake
    BY <1>5 DEF WorkerWake, Waiting, ackVars, histVars
<1>6. CASE WorkerRecvFail
    BY <1>6 DEF WorkerRecvFail, ackVars, histVars
<1>7. ASSUME NEW m \in Acks, WorkerNewAck(m) PROVE RetxInv'
    BY <1>1, <1>7 DEF WorkerNewAck
<1>8. ASSUME NEW m \in Acks, WorkerDupAck(m) PROVE RetxInv'
    <2>1. wpc = "recv" /\ wpc' = "wait" /\ dupACK' = min(dupACK + 1, 4)
        BY <1>8 DEF WorkerDupAck, Receive
    <2>2. CASE dupACK + 1 = 3
        <3>1. retxForBase' = retxForBase + 1 /\ (resent' = resent + 1 \/ resent' = resent)
            BY <1>8, <2>2 DEF WorkerDupAck
        <3> QED
            BY <1>1, <2>1, <2>2, <3>1 DEF min
    <2>3. CASE dupACK + 1 # 3
        <3>1. UNCHANGED <<retxForBase, resent>>
            BY <1>8, <2>3 DEF WorkerDupAck
        <3> QED
            BY <1>1, <2>1, <2>3, <3>1 DEF min
    <2> QED
        BY <2>2, <2>3
<1>9. ASSUME NEW m \in Acks, WorkerOldAck(m) PROVE RetxInv'
    BY <1>9 DEF WorkerOldAck, Receive, ackVars, histVars
<1>10. CASE WorkerRelease
    BY <1>1, <1>10 DEF WorkerRelease, histVars
<1>11. CASE WorkerTimeout
    <2>1. /\ retxForBase + 1 <= MAX_ATTEMPTS
          /\ retxForBase' = retxForBase + 1
          /\ resent' = resent + 1 \/ resent' = resent
          /\ UNCHANGED <<wpc, dupACK>> /\ wpc = "wait"
        BY <1>11 DEF WorkerTimeout, RetxLeft, TimedOut, Waiting
    <2> QED
        BY <1>1, <2>1
<1>12. CASE WorkerGiveUp
    <2>1. /\ retxForBase' = retxForBase + 1
          /\ wpc' = "done"
          /\ UNCHANGED <<resent, dupACK>>
        BY <1>12 DEF WorkerGiveUp, histVars
    <2> QED
        BY <1>1, <2>1
<1>13. CASE workerThread
    BY <1>3, <1>4, <1>5, <1>6, <1>7, <1>8, <1>9, <1>10, <1>11, <1>12, <1>13
       DEF workerThread
<1> QED
    BY <1>2, <1>13, SendEffects, CloseEffects, EnvironmentEffects
       DEF Next, Done, vars, ackVars, histVars

\* The packet at base is retransmitted at most MAX_ATTEMPTS + 1 times before
\* its acknowledgment arrives or the sender gives up.
THEOREM RetransmissionsBounded == Spec => []RetxBound
<1>1. Init => RetxInv
    BY DEF Init, RetxInv
<1>2. RetxInv => RetxBound
    BY DEF RetxInv, RetxBound
<1> QED
    BY <1>1, <1>2, RetxInvStep, TypeCorrect, PTL DEF Spec

------------------------------------------------------------------------------
(* TIMEOUT.  Without kernel errors the worker fails to receive only when      *)
(* Close() has emptied the socket, so while packets remain eventQuit means    *)
(* that the retransmissions are used up.                                      *)

Sending == mpc \in {"send", "window", "store", "header", "copy", "queue"}

\* While only the worker reads the socket, a signal comes with a datagram, and
\* a signal after the worker's wake-up with a second one.
ReadyInv ==
    ~IOErrors /\ Sending =>
        /\ sockReady \/ wpc = "recv" => AnyIn(sockq)
        /\ sockReady /\ wpc = "recv" =>
             \A m \in Acks : IsIn(m, sockq) => AnyIn(Take(sockq, m))

QuitInv ==
    ~IOErrors =>
        /\ Sending /\ eventQuit => wpc = "done" /\ retxForBase > MAX_ATTEMPTS
        /\ status = "TIMEOUT" => Exited /\ retxForBase > MAX_ATTEMPTS

\* Close() never goes back to sending.
LEMMA SendingStep ==
    ASSUME TypeInv, Next, Sending'
    PROVE  Sending /\ ~Close /\ ~Done
<1>1. ~Close
    <2>1. Close => mpc' \in {"exit", "fin", "select", "recv", "closed", "join"}
        BY DEF Close, CloseGiveUp, CloseAllAcked, FinSend, FinFail, FinTimeout,
            FinReadable, FinWouldBlock, FinRecv, FinExhausted, Destroy, Join
    <2> QED
        BY <2>1 DEF Sending
<1>2. ~Done
    BY DEF Done, Exited, vars, mainVars, Sending
<1>3. Send => Sending
    BY DEF Send, SendQuit, SendAcquire, SendReadWindow, SendStoreWindow,
        SendHeader, SendCopy, SendQueue, Sending
<1> QED
    BY <1>1, <1>2, <1>3, WorkerEffects, EnvironmentEffects DEF Next, Sending

LEMMA ReplyReady ==
    ASSUME TypeOK, NEW a \in Acks, Reply(a), wpc' = wpc, Sending, ReadyInv,
           ~IOErrors
    PROVE  /\ sockReady' \/ wpc' = "recv" => AnyIn(sockq')
           /\ sockReady' /\ wpc' = "recv" =>
                \A m \in Acks : IsIn(m, sockq') => AnyIn(Take(sockq', m))
<1>1. CASE UNCHANGED <<sockq, sockReady>>
    BY <1>1 DEF ReadyInv
<1>2. CASE Load(sockq, NetCap) < NetCap /\ sockq' = Put(sockq, a, NetCap)
    <2>1. sockq \in [Acks -> Nat]
        BY DEF TypeOK
    <2>2. /\ AnyIn(sockq')
          /\ AnyIn(sockq) =>
               \A m \in Acks : IsIn(m, sockq') => AnyIn(Take(sockq', m))
        BY <1>2, <2>1, TwoAfterPut
    <2>3. wpc' = "recv" => AnyIn(sockq)
        BY DEF ReadyInv
    <2> QED
        BY <2>2, <2>3
<1> QED
    BY <1>1, <1>2 DEF Reply

LEMMA ReadyInvStep == TypeInv /\ TypeInv' /\ ReadyInv /\ Next => ReadyInv'
<1> SUFFICES ASSUME TypeInv, TypeInv', ReadyInv, Next, ~IOErrors, Sending'
             PROVE  /\ sockReady' \/ wpc' = "recv" => AnyIn(sockq')
                    /\ sockReady' /\ wpc' = "recv" =>
                         \A m \in Acks : IsIn(m, sockq') => AnyIn(Take(sockq', m))
    BY DEF ReadyInv
<1>1. Sending /\ ~Close /\ ~Done
    BY SendingStep
<1>2. CASE UNCHANGED <<sockReady, sockq, wpc>>
    BY <1>1, <1>2 DEF ReadyInv
<1>3. CASE Send
    BY <1>2, <1>3, SendEffects
<1>4. CASE workerThread
    <2>1. ASSUME NEW m \in Acks, Receive(m), wpc' # "recv"
          PROVE  sockReady' => AnyIn(sockq')
        BY <1>1, <2>1 DEF Receive, StillReadable, ReadyInv
    <2>2. CASE \E m \in Acks : WorkerNewAck(m) \/ WorkerDupAck(m) \/ WorkerOldAck(m)
        BY <2>1, <2>2 DEF WorkerNewAck, WorkerDupAck, WorkerOldAck
    <2>3. CASE WorkerWake
        BY <1>1, <2>3 DEF WorkerWake, ReadyInv
    <2>4. CASE WorkerSend \/ WorkerTimeout
        BY <1>2, <2>4 DEF WorkerSend, WorkerTimeout
    <2>5. CASE WorkerQuit \/ WorkerRecvFail \/ WorkerRelease \/ WorkerGiveUp
        BY <1>1, <2>5 DEF WorkerQuit, WorkerRecvFail, WorkerRelease, WorkerGiveUp,
            ReadyInv
    <2> QED
        BY <1>4, <2>2, <2>3, <2>4, <2>5 DEF workerThread
<1>5. CASE Environment
    <2>1. wpc' = wpc
        BY <1>5, EnvironmentEffects
    <2>2. ASSUME NEW d \in DataPkts, RcvData(d)
          PROVE  \E a \in Acks : Reply(a)
        <3>1. PICK n \in rcvNext..N, w \in RecvWnds :
                Reply([fin |-> FALSE, ackSeq |-> n, recvWnd |-> w])
            BY <2>2 DEF RcvData
        <3>2. n \in 0..N
            BY DEF TypeInv, TypeOK
        <3>3. [fin |-> FALSE, ackSeq |-> n, recvWnd |-> w] \in Acks
            BY <3>2 DEF Acks
        <3> QED
            BY <3>1, <3>3
    <2>3. ASSUME NEW d \in FinPkts, RcvFin(d)
          PROVE  UNCHANGED <<sockq, sockReady>> \/ \E a \in Acks : Reply(a)
        <3>1. rcvNext \in 0..N
            BY DEF TypeInv, TypeOK
        <3>2. [fin |-> TRUE, ackSeq |-> rcvNext, recvWnd |-> 0] \in Acks
            BY <3>1 DEF Acks
        <3> QED
            BY <2>3, <3>2 DEF RcvFin
    <2>4. ASSUME NEW d \in DataPkts \cup FinPkts, Lose(d)
          PROVE  UNCHANGED <<sockq, sockReady>>
        BY <2>4 DEF Lose
    <2>5. UNCHANGED <<sockq, sockReady>> \/ \E a \in Acks : Reply(a)
        BY <1>5, <2>2, <2>3, <2>4 DEF Environment
    <2> QED
        BY <1>1, <1>2, <2>1, <2>5, ReplyReady DEF TypeInv
<1> QED
    BY <1>1, <1>3, <1>4, <1>5 DEF Next

LEMMA QuitInvStep == TypeInv /\ ReadyInv /\ QuitInv /\ Next => QuitInv'
<1> SUFFICES ASSUME TypeInv, ReadyInv, QuitInv, Next, ~IOErrors PROVE QuitInv'
    BY DEF QuitInv
<1>1. retxForBase \in Nat
    BY DEF TypeInv, TypeOK
<1>2. CASE Send
    <2>1. UNCHANGED <<wpc, retxForBase, eventQuit>>
        BY <1>2, SendEffects
    <2>2. Sending
        BY <1>2 DEF Send, SendQuit, SendAcquire, SendReadWindow, SendStoreWindow,
            SendHeader, SendCopy, SendQueue, Sending
    <2>3. CASE SendQuit
        BY <2>1, <2>2, <2>3 DEF SendQuit, QuitInv, Sending, Exited
    <2>4. CASE ~SendQuit
        <3>1. status' = status /\ ~Exited
            BY <1>2, <2>2, <2>4 DEF Send, SendAcquire, SendReadWindow,
                SendStoreWindow, SendHeader, SendCopy, SendQueue, Sending, Exited
        <3> QED
            BY <2>1, <2>2, <3>1 DEF QuitInv
    <2> QED
        BY <2>3, <2>4
<1>3. CASE Close
    <2>1. ~Sending'
        BY <1>3, SendingStep
    <2>2. UNCHANGED retxForBase
        BY <1>3, CloseEffects
    <2>3. CASE CloseGiveUp
        BY <2>1, <2>2, <2>3 DEF CloseGiveUp, QuitInv, Sending, Exited
    <2>4. CASE ~CloseGiveUp
        <3>1. ~Exited /\ status' \in {status, "FAILED_SEND", "FAILED_RECV"}
            BY <1>3, <2>4 DEF Close, CloseAllAcked, FinSend, FinFail, FinTimeout,
                FinReadable, FinWouldBlock, FinRecv, FinExhausted, Destroy, Join,
                Exited
        <3> QED
            BY <2>1, <3>1 DEF QuitInv
    <2> QED
        BY <2>3, <2>4
<1>4. CASE workerThread
    <2>1. UNCHANGED <<mpc, status>>
        BY <1>4, WorkerEffects
    <2>2. ~Exited
        BY <1>4 DEF workerThread, WorkerQuit, WorkerSend, WorkerWake, WorkerRecvFail,
            WorkerNewAck, WorkerDupAck, WorkerOldAck, WorkerRelease, WorkerTimeout,
            WorkerGiveUp, Receive, TimedOut, Waiting, SockClosed, Exited
    <2>3. status' # "TIMEOUT"
        BY <2>1, <2>2 DEF QuitInv
    <2>4. CASE Sending
        <3>1. ~SockClosed /\ wpc # "done"
            BY <1>4, <2>4 DEF Sending, SockClosed, workerThread, WorkerQuit,
                WorkerSend, WorkerWake, WorkerRecvFail, WorkerNewAck, WorkerDupAck,
                WorkerOldAck, WorkerRelease, WorkerTimeout, WorkerGiveUp, Receive,
                TimedOut, Waiting
        <3>2. ~eventQuit
            BY <2>4, <3>1 DEF QuitInv
        <3>3. CASE WorkerGiveUp
            BY <1>1, <2>3, <3>3 DEF WorkerGiveUp, RetxLeft, QuitInv
        <3>4. ~WorkerRecvFail
            BY <2>4, <3>1 DEF WorkerRecvFail, ReadyInv
        <3>5. CASE ~WorkerGiveUp
            <4>1. ~eventQuit'
                BY <1>4, <3>2, <3>4, <3>5 DEF workerThread, WorkerQuit, WorkerSend,
                    WorkerWake, WorkerNewAck, WorkerDupAck, WorkerOldAck,
                    WorkerRelease, WorkerTimeout
            <4> QED
                BY <2>3, <4>1 DEF QuitInv
        <3> QED
            BY <3>3, <3>5
    <2>5. CASE ~Sending
        BY <2>1, <2>3, <2>5 DEF QuitInv, Sending
    <2> QED
        BY <2>4, <2>5
<1>5. CASE Environment
    BY <1>5, EnvironmentEffects DEF QuitInv, Sending, Exited
<1>6. CASE Done
    BY <1>6 DEF Done, vars, mainVars, ackVars, QuitInv, Sending, Exited
<1> QED
    BY <1>2, <1>3, <1>4, <1>5, <1>6 DEF Next

\* Without kernel errors, TIMEOUT is reported only after the worker has used up
\* the retransmissions of the packet at base, whatever Close() and the worker
\* take from each other in the socket they share.
THEOREM TimeoutIsExhaustion == Spec => []TimeoutMeansExhausted
<1> DEFINE TimeoutInv == ReadyInv /\ QuitInv
<1>1. Init => TimeoutInv
    <2> SUFFICES ASSUME Init PROVE TimeoutInv
        OBVIOUS
    <2>1. PICK late \in 0..(SYN_MAX_ATTEMPTS - 1) :
            /\ sockq = [NoDatagrams(Acks) EXCEPT
                 ![[fin |-> FALSE, ackSeq |-> 0, recvWnd |-> receiverWindow]] = late]
            /\ sockReady = (late > 0)
        BY DEF Init
    <2>2. [fin |-> FALSE, ackSeq |-> 0, recvWnd |-> receiverWindow] \in Acks
        BY DEF Init, Acks
    <2>3. sockReady => AnyIn(sockq)
        BY <2>1, <2>2 DEF AnyIn, NoDatagrams
    <2>4. wpc = "wait" /\ status = "STATUS_OK"
        BY DEF Init
    <2>5. ~eventQuit
        BY Zenon DEF Init
    <2> QED
        BY <2>3, <2>4, <2>5 DEF ReadyInv, QuitInv
<1>2. TypeInv /\ TypeInv' /\ TimeoutInv /\ [Next]_vars => TimeoutInv'
    <2> SUFFICES ASSUME TypeInv, TypeInv', TimeoutInv, [Next]_vars
                 PROVE  TimeoutInv'
        OBVIOUS
    <2>1. CASE Next
        BY <2>1, ReadyInvStep, QuitInvStep
    <2>2. CASE UNCHANGED vars
        BY <2>2 DEF vars, mainVars, ackVars, ReadyInv, QuitInv, Sending, Exited
    <2> QED
        BY <2>1, <2>2
<1>3. CoreInv => TypeInv
    BY DEF CoreInv
<1>4. TimeoutInv => TimeoutMeansExhausted
    BY DEF QuitInv, TimeoutMeansExhausted
<1> QED
    BY <1>1, <1>2, <1>3, <1>4, CoreCorrect, PTL DEF Spec

------------------------------------------------------------------------------
(* Flow control, for a receiver whose window, as far as the sender can use    *)
(* it, does not change during the transfer.                                   *)

\* Every window the receiver may advertise leaves the same effective window:
\* it is constant, or never smaller than the sender's own.
SteadyWindow ==
    \A r1, r2 \in RecvWnds : min(W, r1) = min(W, r2)

\* That effective window.
EffWin == min(W, receiverWindow)

\* Only what Send() has written to a slot can be sent, received, acknowledged.
WrittenInv ==
    /\ \A i \in 0..(W - 1) : pendingPackets[i].seq < Written
    /\ \A d \in DataPkts : IsIn(d, net) => d.seq < Written
    /\ \A s \in Seqs : got[s] # Nothing => s < Written
    /\ \A s \in Seqs : s < rcvNext => got[s] # Nothing

\* lastReleased counts the credits ever given to Send(); empty holds those it
\* has not used.  In the middle of an acknowledgment the credits are behind.
CreditInv ==
    /\ mpc = "store" => mEff = EffWin
    /\ wpc = "release" => effectiveWindow = EffWin
    /\ wpc = "release" => lastReleased < base + EffWin
    /\ wpc # "release" => lastReleased = base + EffWin
    /\ empty = lastReleased - Claimed

LEMMA WrittenGrows ==
    ASSUME TypeInv, Next
    PROVE  Written \in Nat /\ Written' \in Nat /\ Written <= Written'
<1> USE DEF TypeInv, Written
<1>1. nextSeq \in Nat
    BY DEF TypeOK
<1>2. CASE UNCHANGED <<mpc, nextSeq>>
    BY <1>1, <1>2
<1>3. CASE Send
    <2>1. CASE SendHeader
        <3>1. mpc = "header" /\ mpc' = "copy" /\ nextSeq' = nextSeq
            BY <2>1 DEF SendHeader
        <3> QED
            BY <1>1, <3>1
    <2>2. CASE SendCopy
        <3>1. mpc = "copy" /\ mpc' = "queue" /\ nextSeq' = nextSeq + 1
            BY <2>2 DEF SendCopy
        <3> QED
            BY <1>1, <3>1
    <2>3. CASE ~SendHeader /\ ~SendCopy
        <3>1. mpc # "copy" /\ mpc' # "copy" /\ nextSeq' = nextSeq
            BY <1>3, <2>3 DEF Send, SendQuit, SendAcquire, SendReadWindow,
                SendStoreWindow, SendQueue
        <3> QED
            BY <1>1, <3>1
    <2> QED
        BY <2>1, <2>2, <2>3
<1>4. CASE Close
    <2>1. mpc # "copy" /\ mpc' # "copy" /\ nextSeq' = nextSeq
        BY <1>4 DEF Close, CloseGiveUp, CloseAllAcked, FinSend, FinFail, FinTimeout,
            FinReadable, FinWouldBlock, FinRecv, FinExhausted, Destroy, Join,
            closeUnchanged
    <2> QED
        BY <1>1, <2>1
<1> QED
    BY <1>2, <1>3, <1>4, WorkerEffects, EnvironmentEffects DEF Next, Done, vars, mainVars

\* Only SendHeader changes the sequence number in a slot.
LEMMA SlotSeqStep ==
    ASSUME TypeInv, Next, NEW i \in 0..(W - 1)
    PROVE  \/ pendingPackets'[i].seq = pendingPackets[i].seq
           \/ SendHeader /\ pendingPackets'[i].seq = nextSeq
<1> USE DEF TypeInv
<1>1. pendingPackets \in [0..(W - 1) -> Packets]
    BY DEF TypeOK
<1>2. CASE UNCHANGED pendingPackets
    BY <1>2
<1>3. CASE SendHeader
    BY <1>1, <1>3 DEF SendHeader, Packets
<1>4. CASE SendCopy
    BY <1>1, <1>4 DEF SendCopy, Packets
<1>5. CASE WorkerSend
    BY <1>1, <1>5 DEF WorkerSend, Packets
<1>6. CASE Send
    BY <1>2, <1>3, <1>4, <1>6 DEF Send, SendQuit, SendAcquire, SendReadWindow,
        SendStoreWindow, SendQueue
<1>7. CASE workerThread
    BY <1>2, <1>5, <1>7 DEF workerThread, WorkerQuit, WorkerWake, WorkerRecvFail,
        WorkerNewAck, WorkerDupAck, WorkerOldAck, WorkerRelease, WorkerTimeout,
        WorkerGiveUp
<1> QED
    BY <1>2, <1>6, <1>7, CloseEffects, EnvironmentEffects DEF Next, Done, vars

LEMMA InInterval ==
    ASSUME NEW s \in Nat, NEW a \in Nat, NEW b \in Nat, ~(s < a), s < b
    PROVE  s \in a..(b - 1)
OBVIOUS

LEMMA WrittenInvStep == TypeInv /\ TypeInv' /\ WrittenInv /\ Next => WrittenInv'
<1> SUFFICES ASSUME TypeInv, TypeInv', WrittenInv, Next PROVE WrittenInv'
    OBVIOUS
<1>1. Written \in Nat /\ Written' \in Nat /\ Written <= Written'
    BY WrittenGrows
<1>2. ASSUME NEW i \in 0..(W - 1) PROVE pendingPackets'[i].seq < Written'
    <2>1. CASE pendingPackets'[i].seq = pendingPackets[i].seq
        <3>1. pendingPackets[i].seq < Written
            BY DEF WrittenInv
        <3>2. pendingPackets[i].seq \in Payloads
            BY DEF TypeInv, TypeOK, Packets
        <3>3. pendingPackets[i].seq \in Int
            BY <3>2 DEF Payloads, Seqs, Uninit
        <3> QED
            BY <1>1, <2>1, <3>1, <3>3
    <2>2. CASE SendHeader /\ pendingPackets'[i].seq = nextSeq
        <3>1. Written' = nextSeq + 1 /\ nextSeq \in Nat
            BY <2>2 DEF SendHeader, Written, TypeInv, TypeOK
        <3> QED
            BY <2>2, <3>1
    <2> QED
        BY <2>1, <2>2, SlotSeqStep
<1>3. ASSUME NEW d \in DataPkts, IsIn(d, net') PROVE d.seq < Written'
    <2>1. d.seq \in Nat
        BY DEF DataPkts, Seqs
    <2>2. d \notin FinPkts
        BY FinIsNotData
    <2>4. IsIn(d, net) \/ FromSlot(d)
        BY <1>3, <2>2, NetStep DEF NewFin
    <2>3. d.seq < Written
        BY <2>4 DEF FromSlot, WrittenInv
    <2> QED
        BY <1>1, <2>1, <2>3
<1>4. CASE UNCHANGED <<got, rcvNext>>
    <2>1. ASSUME NEW s \in Seqs, got'[s] # Nothing PROVE s < Written'
        <3>1. s < Written /\ s \in Nat
            BY <1>4, <2>1 DEF WrittenInv, Seqs
        <3> QED
            BY <1>1, <3>1
    <2>2. \A s \in Seqs : s < rcvNext' => got'[s] # Nothing
        BY <1>4 DEF WrittenInv
    <2> QED
        BY <1>2, <1>3, <2>1, <2>2 DEF WrittenInv
<1>5. ASSUME NEW d \in DataPkts, RcvData(d) PROVE WrittenInv'
    <2>1. /\ d.seq \in Seqs /\ d.seq < Written
          /\ got' = IF got[d.seq] = Nothing THEN [got EXCEPT ![d.seq] = d.data] ELSE got
          /\ got \in [Seqs -> Payloads \cup {Nothing}]
        BY <1>5 DEF RcvData, DataPkts, WrittenInv, TypeInv, TypeOK
    <2>2. ASSUME NEW s \in Seqs, got'[s] # Nothing PROVE s < Written'
        <3>1. s < Written /\ s \in Nat
            BY <2>1, <2>2 DEF WrittenInv, Seqs
        <3> QED
            BY <1>1, <3>1
    <2>3. ASSUME NEW s \in Seqs, s < rcvNext' PROVE got'[s] # Nothing
        <3>1. d.data # Nothing
            BY DEF DataPkts, Payloads, Seqs, Uninit, Nothing
        <3>2. CASE s < rcvNext
            <4>1. got[s] # Nothing
                BY <3>2 DEF WrittenInv
            <4> QED
                BY <2>1, <3>1, <4>1
        <3>3. CASE ~(s < rcvNext)
            <4>1. \A t \in rcvNext..(rcvNext' - 1) : got'[t] # Nothing
                BY <1>5 DEF RcvData
            <4>2. s \in Nat /\ s < rcvNext'
                BY <2>3 DEF Seqs
            <4>3. rcvNext \in Nat /\ rcvNext' \in Nat
                BY DEF TypeInv, TypeOK
            <4>4. s \in rcvNext..(rcvNext' - 1)
                BY <3>3, <4>2, <4>3, InInterval
            <4> QED
                BY <4>1, <4>4
        <3> QED
            BY <3>2, <3>3
    <2> QED
        BY <1>2, <1>3, <2>2, <2>3 DEF WrittenInv
<1>6. CASE Environment
    BY <1>4, <1>5, <1>6 DEF Environment, RcvFin, Lose, rcvVars
<1> QED
    BY <1>4, <1>6, SendEffects, CloseEffects, WorkerEffects DEF Next, Done, vars, rcvVars

\* Nothing is acknowledged that Send() has not at least begun to write.
LEMMA BaseWritten ==
    ASSUME TypeInv, AckInv, WrittenInv
    PROVE  base <= Written
<1>1. rcvNext \in 0..N /\ base \in 0..N /\ Written \in Nat
    BY DEF TypeInv, TypeOK, Written
<1>2. CASE rcvNext = 0
    BY <1>1, <1>2 DEF AckInv
<1>3. CASE rcvNext # 0
    <2>1. rcvNext - 1 \in Seqs /\ rcvNext - 1 < rcvNext
        BY <1>1, <1>3 DEF Seqs
    <2>2. rcvNext - 1 < Written
        BY <2>1 DEF WrittenInv
    <2> QED
        BY <1>1, <2>2 DEF AckInv
<1> QED
    BY <1>2, <1>3

LEMMA EffWinSteady ==
    ASSUME SteadyWindow, TypeInv, TypeInv'
    PROVE  EffWin' = EffWin
<1>1. receiverWindow \in RecvWnds /\ receiverWindow' \in RecvWnds
    BY DEF TypeInv, TypeOK
<1> QED
    BY <1>1 DEF SteadyWindow, EffWin

LEMMA EffWinBounds == ASSUME TypeInv PROVE EffWin \in 1..W
<1>1. receiverWindow \in Nat \ {0}
    BY DEF TypeInv, TypeOK
<1> QED
    BY <1>1 DEF EffWin, min

\* The credits an acknowledgment gives back fit the empty semaphore.
LEMMA CreditsFit ==
    ASSUME TypeInv, AckInv, WrittenInv, CreditInv, wpc = "release"
    PROVE  ReleaseOK
<1>1. EffWin \in 1..W
    BY EffWinBounds
<1>2. base \in Nat /\ nextSeq \in Nat /\ lastReleased \in Nat
    BY DEF TypeInv, TypeOK
<1>3. base <= Claimed /\ Claimed \in Nat
    <2>1. base <= Written
        BY BaseWritten
    <2> QED
        BY <1>2, <2>1 DEF Written, Claimed
<1>4. effectiveWindow = EffWin /\ lastReleased < base + EffWin
      /\ empty = lastReleased - Claimed
    BY DEF CreditInv
<1>5. slotsToRelease = base + EffWin - lastReleased
    BY <1>4 DEF slotsToRelease
<1> QED
    BY <1>1, <1>2, <1>3, <1>4, <1>5 DEF ReleaseOK

\* Credits are exact while the effective window is steady.
LEMMA CreditInvStep ==
    ASSUME SteadyWindow, TypeInv, TypeInv', AckInv, WrittenInv, CreditInv, Next
    PROVE  CreditInv'
<1>1. EffWin' = EffWin /\ EffWin \in Nat
    BY EffWinSteady, EffWinBounds
<1>2. base \in Nat /\ base' \in Nat /\ nextSeq \in Nat /\ empty \in Nat
      /\ lastReleased \in Nat
    BY DEF TypeInv, TypeOK
<1>3. ASSUME UNCHANGED <<wpc, base, lastReleased, empty>>, Claimed' = Claimed,
             mpc' = "store" => mEff' = EffWin,
             wpc = "release" => effectiveWindow' = EffWin
      PROVE  CreditInv'
    BY <1>1, <1>3 DEF CreditInv
<1>4. CASE Send
    <2>1. UNCHANGED <<wpc, base, lastReleased, receiverWindow>>
        BY <1>4, SendEffects
    <2>2. CASE SendQuit
        <3>1. mpc = "send" /\ mpc' = "exit"
              /\ UNCHANGED <<nextSeq, empty, effectiveWindow>>
            BY <2>2 DEF SendQuit
        <3>2. Claimed' = Claimed
            BY <3>1 DEF Claimed
        <3> QED
            BY <1>3, <2>1, <3>1, <3>2 DEF CreditInv
    <2>3. CASE SendAcquire
        <3>1. mpc = "send" /\ mpc' = "window" /\ empty' = empty - 1
              /\ UNCHANGED <<nextSeq, effectiveWindow>>
            BY <2>3 DEF SendAcquire
        <3>2. Claimed = nextSeq /\ Claimed' = nextSeq + 1
            BY <1>2, <3>1 DEF Claimed
        <3>3. empty' = lastReleased' - Claimed'
            BY <1>2, <2>1, <3>1, <3>2 DEF CreditInv
        <3> QED
            BY <1>1, <2>1, <3>1, <3>3 DEF CreditInv
    <2>4. CASE SendReadWindow
        <3>1. mpc = "window" /\ mpc' = "store" /\ mEff' = EffWin
              /\ UNCHANGED <<nextSeq, effectiveWindow, empty>>
            BY <2>4 DEF SendReadWindow, EffWin
        <3>2. Claimed' = Claimed
            BY <3>1 DEF Claimed
        <3> QED
            BY <1>3, <2>1, <3>1, <3>2 DEF CreditInv
    <2>5. CASE SendStoreWindow
        <3>1. mpc = "store" /\ mpc' = "header" /\ effectiveWindow' = mEff
              /\ UNCHANGED <<nextSeq, empty>>
            BY <2>5 DEF SendStoreWindow
        <3>2. Claimed' = Claimed
            BY <3>1 DEF Claimed
        <3> QED
            BY <1>3, <2>1, <3>1, <3>2 DEF CreditInv
    <2>6. CASE SendHeader
        <3>1. mpc = "header" /\ mpc' = "copy"
              /\ UNCHANGED <<nextSeq, empty, effectiveWindow>>
            BY <2>6 DEF SendHeader
        <3>2. Claimed' = Claimed
            BY <3>1 DEF Claimed
        <3> QED
            BY <1>3, <2>1, <3>1, <3>2 DEF CreditInv
    <2>7. CASE SendCopy
        <3>1. mpc = "copy" /\ mpc' = "queue" /\ nextSeq' = nextSeq + 1
              /\ UNCHANGED <<empty, effectiveWindow>>
            BY <2>7 DEF SendCopy
        <3>2. Claimed' = Claimed
            BY <1>2, <3>1 DEF Claimed
        <3> QED
            BY <1>3, <2>1, <3>1, <3>2 DEF CreditInv
    <2>8. CASE SendQueue
        <3>1. mpc = "queue" /\ mpc' = "send"
              /\ UNCHANGED <<nextSeq, empty, effectiveWindow>>
            BY <2>8 DEF SendQueue
        <3>2. Claimed' = Claimed
            BY <3>1 DEF Claimed
        <3> QED
            BY <1>3, <2>1, <3>1, <3>2 DEF CreditInv
    <2> QED
        BY <1>4, <2>2, <2>3, <2>4, <2>5, <2>6, <2>7, <2>8 DEF Send
<1>5. CASE Close
    <2>1. UNCHANGED <<wpc, base, lastReleased, empty, nextSeq, effectiveWindow>>
        BY <1>5, CloseEffects
    <2>2. mpc \notin {"window", "store", "header", "copy"}
          /\ mpc' \notin {"window", "store", "header", "copy"}
        BY <1>5 DEF Close, CloseGiveUp, CloseAllAcked, FinSend, FinFail, FinTimeout,
            FinReadable, FinWouldBlock, FinRecv, FinExhausted, Destroy, Join
    <2>3. Claimed' = Claimed
        BY <2>1, <2>2 DEF Claimed
    <2> QED
        BY <1>3, <2>1, <2>2, <2>3 DEF CreditInv
<1>6. CASE workerThread
    <2>1. UNCHANGED <<mpc, mEff, nextSeq>>
        BY <1>6, WorkerEffects
    <2>2. Claimed' = Claimed /\ Claimed \in Nat
        BY <1>2, <2>1 DEF Claimed
    <2>3. CASE WorkerSend
        <3>1. UNCHANGED <<wpc, base, lastReleased, empty>>
              /\ effectiveWindow' = EffWin
            BY <2>3 DEF WorkerSend, ackVars, EffWin
        <3> QED
            BY <1>3, <2>1, <2>2, <3>1 DEF CreditInv
    <2>4. ASSUME NEW m \in Acks, WorkerNewAck(m) PROVE CreditInv'
        <3>1. /\ wpc = "recv" /\ wpc' = "release"
              /\ base' > base
              /\ UNCHANGED <<lastReleased, empty>>
              /\ effectiveWindow' = EffWin'
            BY <2>4 DEF WorkerNewAck, Receive, EffWin
        <3>2. lastReleased = base + EffWin
            BY <3>1 DEF CreditInv
        <3>3. lastReleased' < base' + EffWin'
            <4>1. lastReleased' = lastReleased /\ base' > base
                BY <3>1
            <4>2. base + EffWin < base' + EffWin
                BY <1>1, <1>2, <4>1, AddLess
            <4> QED
                BY <1>1, <3>2, <4>1, <4>2
        <3>4. empty' = lastReleased' - Claimed'
            BY <2>2, <3>1 DEF CreditInv
        <3> QED
            BY <1>1, <2>1, <3>1, <3>3, <3>4 DEF CreditInv
    <2>5. CASE WorkerRelease
        <3>1. /\ wpc = "release" /\ wpc' = "wait"
              /\ base' = base
              /\ lastReleased' = lastReleased + (base + EffWin - lastReleased)
            BY <2>5 DEF WorkerRelease, releasedNow, slotsToRelease, CreditInv
        <3>2. lastReleased' = base' + EffWin'
            BY <1>1, <1>2, <3>1
        <3>3. empty' = lastReleased' - Claimed'
            <4>1. effectiveWindow = EffWin /\ lastReleased < base + EffWin
                  /\ empty = lastReleased - Claimed
                BY <3>1 DEF CreditInv
            <4>2. empty' = empty + (base + EffWin - lastReleased)
                BY <2>5, <4>1, CreditsFit DEF WorkerRelease, slotsToRelease
            <4> QED
                BY <1>1, <1>2, <2>2, <3>1, <4>1, <4>2
        <3> QED
            BY <1>1, <2>1, <3>1, <3>2, <3>3 DEF CreditInv
    <2>6. CASE WorkerQuit \/ WorkerWake \/ WorkerRecvFail \/ WorkerTimeout
               \/ WorkerGiveUp \/ \E m \in Acks : WorkerDupAck(m) \/ WorkerOldAck(m)
        <3>1. /\ wpc # "release" /\ wpc' # "release"
              /\ UNCHANGED <<base, lastReleased, empty, effectiveWindow>>
            BY <2>6 DEF WorkerQuit, WorkerWake, WorkerRecvFail, WorkerTimeout,
                WorkerGiveUp, WorkerDupAck, WorkerOldAck, Receive, TimedOut, Waiting,
                ackVars
        <3> QED
            BY <1>1, <2>1, <2>2, <3>1 DEF CreditInv
    <2> QED
        BY <1>6, <2>3, <2>4, <2>5, <2>6 DEF workerThread
<1>7. CASE Environment
    <2>1. UNCHANGED <<mpc, mEff, wpc, base, lastReleased, empty, nextSeq,
                      effectiveWindow>>
        BY <1>7, EnvironmentEffects
    <2> QED
        BY <1>1, <2>1 DEF CreditInv, Claimed
<1>8. CASE Done
    BY <1>1, <1>8 DEF Done, vars, mainVars, ackVars, CreditInv, Claimed
<1> QED
    BY <1>4, <1>5, <1>6, <1>7, <1>8 DEF Next

LEMMA WindowInvInit == Init => WrittenInv /\ CreditInv
<1> SUFFICES ASSUME Init PROVE WrittenInv /\ CreditInv
    OBVIOUS
<1>1. WrittenInv
    BY DEF Init, WrittenInv, Written, NoDatagrams, IsIn, Uninit, Seqs
<1>2. EffWin \in Nat
    BY InitType, EffWinBounds
<1>3. /\ mpc = "send" /\ wpc = "wait" /\ nextSeq = 0 /\ base = 0
      /\ lastReleased = EffWin /\ empty = EffWin
    BY DEF Init, EffWin
<1>4. CreditInv
    BY <1>2, <1>3 DEF CreditInv, Claimed
<1> QED
    BY <1>1, <1>4

\* The inductive invariant of the transfer under a steady window.
WindowInv == CoreInv /\ WrittenInv /\ CreditInv

LEMMA WindowCorrect == ASSUME SteadyWindow PROVE Spec => []WindowInv
<1>1. Init => WindowInv
    BY CoreInvInit, WindowInvInit DEF WindowInv
<1>2. WindowInv /\ [Next]_vars => WindowInv'
    <2> SUFFICES ASSUME WindowInv, [Next]_vars PROVE WindowInv'
        OBVIOUS
    <2>1. CoreInv'
        BY CoreInvStep DEF WindowInv
    <2>2. CASE Next
        BY <2>1, <2>2, WrittenInvStep, CreditInvStep DEF WindowInv, CoreInv
    <2>3. CASE UNCHANGED vars
        <3>1. WrittenInv' /\ CreditInv'
            BY <2>3 DEF WindowInv, vars, mainVars, ackVars, rcvVars, WrittenInv,
                CreditInv, Written, Claimed, EffWin, IsIn
        <3> QED
            BY <2>1, <3>1 DEF WindowInv
    <2> QED
        BY <2>2, <2>3
<1> QED
    BY <1>1, <1>2, PTL DEF Spec

LEMMA WindowFlow == WindowInv => FlowControl
<1> SUFFICES ASSUME WindowInv PROVE FlowControl
    OBVIOUS
<1>1. /\ base \in Nat /\ nextSeq \in Nat /\ lastReleased \in Nat /\ empty \in Nat
      /\ receiverWindow \in Nat
    BY DEF WindowInv, CoreInv, TypeInv, TypeOK
<1>2. EffWin \in Nat /\ Claimed \in Nat
    BY <1>1, MinNat DEF EffWin, Claimed
<1>3. lastReleased <= base + EffWin /\ empty = lastReleased - Claimed
    BY <1>1, <1>2 DEF WindowInv, CreditInv
<1>4. Claimed <= base + EffWin
    BY <1>1, <1>2, <1>3
<1> QED
    BY <1>4 DEF FlowControl, EffWin

\* Flow control, for every number of packets and every window size: under a
\* steady window Send() never claims a slot beyond the window the receiver
\* advertised last.
THEOREM FlowControlled == ASSUME SteadyWindow PROVE Spec => []FlowControl
BY WindowFlow, WindowCorrect, PTL

\* No credit is lost: under a steady window every ReleaseSemaphore(empty, n) of
\* the worker succeeds.
THEOREM NoCreditLost == ASSUME SteadyWindow PROVE Spec => []CreditsReleased
<1>1. WindowInv => CreditsReleased
    BY CreditsFit DEF WindowInv, CoreInv, CreditsReleased
<1> QED
    BY <1>1, WindowCorrect, PTL

------------------------------------------------------------------------------
(* Flow control, for a receiver that opens its window during the transfer, as *)
(* the one of the assignment does.                                            *)

\* The acknowledgments under way, by ascending sequence number, never take the
\* window back, and none has a larger one than the receiver.
OrderInv ==
    /\ receiverWindow <= rcvWnd
    /\ \A m \in Acks : IsIn(m, sockq) /\ ~m.fin =>
          /\ m.recvWnd <= rcvWnd
          /\ m.ackSeq > base => receiverWindow <= m.recvWnd
          /\ \A n \in Acks : IsIn(n, sockq) /\ ~n.fin /\ m.ackSeq < n.ackSeq =>
                m.recvWnd <= n.recvWnd

LEMMA RcvWndStep == ASSUME TypeInv, Next PROVE rcvWnd' >= rcvWnd
<1>1. rcvWnd \in Nat
    BY DEF TypeInv, TypeOK
<1>2. ASSUME NEW d \in DataPkts, RcvData(d) PROVE rcvWnd' >= rcvWnd
    BY <1>2 DEF RcvData
<1>3. CASE UNCHANGED rcvWnd
    BY <1>1, <1>3
<1>4. CASE Environment
    BY <1>2, <1>3, <1>4 DEF Environment, RcvFin, Lose, rcvVars
<1> QED
    BY <1>3, <1>4, SendEffects, CloseEffects, WorkerEffects
       DEF Next, Done, vars, rcvVars

\* An acknowledgment that moves base comes from a data packet.
LEMMA MovedByData ==
    ASSUME TypeInv, FinInv, NEW m \in Acks, IsIn(m, sockq), m.ackSeq > base
    PROVE  ~m.fin /\ m.recvWnd \in Nat
<1>1. m.ackSeq \in 0..N /\ (~m.fin => m.recvWnd \in RecvWnds)
    BY AckFields
<1>2. ~m.fin
    <2> SUFFICES ASSUME m.fin PROVE FALSE
        BY AckFields
    <2>1. base = N
        BY DEF FinInv, NoFinAckMovesBase
    <2> QED
        BY <1>1, <2>1
<1> QED
    BY <1>1, <1>2

\* The window the sender goes by never shrinks, in whatever order the
\* acknowledgments arrive.
LEMMA WindowGrows ==
    ASSUME TypeInv, FinInv, OrderInv, Next
    PROVE  receiverWindow <= receiverWindow'
<1>1. receiverWindow \in Nat
    BY DEF TypeInv, TypeOK
<1>2. CASE UNCHANGED receiverWindow
    BY <1>1, <1>2
<1>3. ASSUME NEW m \in Acks, IsIn(m, sockq), m.ackSeq > base, receiverWindow' = m.recvWnd
      PROVE  receiverWindow <= receiverWindow'
    BY <1>3, MovedByData DEF OrderInv
<1> QED
    BY <1>2, <1>3, BaseStep

LEMMA OrderInvStep ==
    ASSUME TypeInv, TypeInv', FinInv, AckInv, OrderInv, Next
    PROVE  OrderInv'
<1>1. /\ rcvWnd \in Nat /\ rcvWnd' \in Nat /\ rcvNext \in Nat /\ rcvNext' \in Nat
      /\ base \in Nat /\ receiverWindow \in Nat
    <2>1. rcvWnd \in RecvWnds /\ rcvWnd' \in RecvWnds /\ receiverWindow \in RecvWnds
        BY DEF TypeInv, TypeOK
    <2>2. rcvNext \in 0..N /\ rcvNext' \in 0..N /\ base \in 0..N
        BY DEF TypeInv, TypeOK
    <2> QED
        BY <2>1, <2>2
<1>2. rcvWnd <= rcvWnd' /\ rcvNext <= rcvNext'
    BY <1>1, RcvWndStep, RcvStep
<1>3. ASSUME NEW m \in Acks, IsIn(m, sockq'), ~m.fin
      PROVE  /\ m.ackSeq \in Nat /\ m.recvWnd \in Nat
             /\ \/ IsIn(m, sockq) /\ m.ackSeq <= rcvNext /\ m.recvWnd <= rcvWnd
                \/ m.ackSeq = rcvNext' /\ m.recvWnd = rcvWnd'
    <2>1. m.ackSeq \in 0..N /\ m.recvWnd \in RecvWnds
        BY <1>3, AckFields
    <2>2. m.ackSeq \in Nat /\ m.recvWnd \in Nat
        <3>1. m.ackSeq \in Nat
            BY <2>1
        <3>2. m.recvWnd \in Nat
            BY <2>1
        <3> QED
            BY <3>1, <3>2
    <2> QED
        <3>1. CASE IsIn(m, sockq)
            BY <1>3, <2>2, <3>1 DEF AckInv, OrderInv
        <3>2. CASE NewAnswer(m)
            BY <1>3, <2>2, <3>2 DEF NewAnswer
        <3> QED
            BY <1>3, <3>1, <3>2, SockqStep
<1>4. ASSUME NEW m \in Acks, IsIn(m, sockq'), ~m.fin PROVE m.recvWnd <= rcvWnd'
    BY <1>1, <1>2, <1>3, <1>4
<1>5. ASSUME NEW m \in Acks, IsIn(m, sockq'), ~m.fin,
             NEW n \in Acks, IsIn(n, sockq'), ~n.fin, m.ackSeq < n.ackSeq
      PROVE  m.recvWnd <= n.recvWnd
    <2>1. m.ackSeq \in Nat /\ n.ackSeq \in Nat /\ m.recvWnd <= rcvWnd'
        BY <1>3, <1>4, <1>5
    <2>2. CASE n.recvWnd = rcvWnd'
        BY <2>1, <2>2
    <2>3. CASE IsIn(n, sockq) /\ n.ackSeq <= rcvNext
        <3>1. m.ackSeq # rcvNext'
            BY <1>1, <1>2, <1>5, <2>1, <2>3
        <3>2. IsIn(m, sockq)
            BY <1>3, <1>5, <3>1
        <3> QED
            BY <1>5, <2>3, <3>2 DEF OrderInv
    <2> QED
        BY <1>3, <1>5, <2>2, <2>3
<1>6. receiverWindow' <= rcvWnd'
    <2>1. CASE UNCHANGED receiverWindow
        BY <1>1, <1>2, <2>1 DEF OrderInv
    <2>2. ASSUME NEW a \in Acks, IsIn(a, sockq), a.ackSeq > base, receiverWindow' = a.recvWnd
          PROVE  receiverWindow' <= rcvWnd'
        BY <1>1, <1>2, <2>2, MovedByData DEF OrderInv
    <2> QED
        BY <2>1, <2>2, BaseStep
<1>7. ASSUME NEW m \in Acks, IsIn(m, sockq'), ~m.fin, m.ackSeq > base'
      PROVE  receiverWindow' <= m.recvWnd
    <2>1. CASE m.recvWnd = rcvWnd'
        BY <1>6, <2>1
    <2>2. CASE IsIn(m, sockq) /\ UNCHANGED <<base, receiverWindow>>
        BY <1>7, <2>2 DEF OrderInv
    <2>3. ASSUME IsIn(m, sockq), NEW a \in Acks, IsIn(a, sockq), base' = a.ackSeq,
                 base' > base, receiverWindow' = a.recvWnd
          PROVE  receiverWindow' <= m.recvWnd
        <3>1. ~a.fin
            BY <2>3, MovedByData
        <3>2. a.ackSeq < m.ackSeq
            BY <1>3, <1>7, <2>3, AckFields
        <3> QED
            BY <1>7, <2>3, <3>1, <3>2 DEF OrderInv
    <2> QED
        BY <1>3, <1>7, <2>1, <2>2, <2>3, BaseStep
<1> QED
    BY <1>4, <1>5, <1>6, <1>7 DEF OrderInv

\* What Send() has claimed and what it may still claim, beyond the credits that
\* lastReleased counts: nothing while the window is steady.  When Send() stores the
\* smaller window it has read before the worker opened it, the worker takes
\* lastReleased back by the difference, and later gives the same credits again.
Surplus == empty + Claimed - lastReleased

\* The surplus stays below every window that lastReleased can still be computed
\* with: the one the worker goes by, the one Send() is about to store, and the one
\* the worker reads back, which is smaller only if Send() has stored its own.
SurplusInv ==
    /\ lastReleased <= base + EffWin
    /\ Surplus < EffWin
    /\ mpc = "store" => mEff <= EffWin /\ Surplus < mEff
    /\ wpc = "release" =>
          /\ lastReleased < base + EffWin
          /\ effectiveWindow <= EffWin /\ Surplus < effectiveWindow
          /\ mpc = "store" => effectiveWindow = EffWin \/ mEff = EffWin

LEMMA EffWinGrows ==
    ASSUME TypeInv, TypeInv', FinInv, OrderInv, Next
    PROVE  EffWin <= EffWin'
<1>1. receiverWindow \in Nat /\ receiverWindow' \in Nat
    BY DEF TypeInv, TypeOK
<1> QED
    BY <1>1, WindowGrows DEF EffWin, min

LEMMA SurplusInvStep ==
    ASSUME TypeInv, TypeInv', FinInv, OrderInv, SurplusInv, Next
    PROVE  SurplusInv'
<1>1. EffWin \in Nat /\ EffWin' \in Nat /\ EffWin <= EffWin'
    BY EffWinBounds, EffWinGrows DEF EffWin, min, TypeInv, TypeOK
<1>2. /\ base \in Nat /\ base' \in Nat /\ nextSeq \in Nat /\ empty \in Nat
      /\ lastReleased \in Nat /\ effectiveWindow \in Nat /\ mEff \in Nat
    BY DEF TypeInv, TypeOK
<1>3. Claimed \in Nat /\ Surplus \in Int
    BY <1>2 DEF Claimed, Surplus
<1>4. CASE Send
    <2>1. UNCHANGED <<wpc, base, lastReleased, receiverWindow, EffWin>>
        BY <1>4, SendEffects DEF EffWin
    <2>2. Surplus' = Surplus
        <3>1. CASE SendAcquire
            <4>1. mpc = "send" /\ mpc' = "window" /\ empty' = empty - 1 /\ nextSeq' = nextSeq
                BY <3>1 DEF SendAcquire
            <4>2. Claimed' = Claimed + 1
                BY <1>2, <4>1 DEF Claimed
            <4> QED
                BY <1>2, <1>3, <2>1, <4>1, <4>2 DEF Surplus
        <3>2. CASE SendCopy
            <4>1. mpc = "copy" /\ mpc' = "queue" /\ empty' = empty /\ nextSeq' = nextSeq + 1
                BY <3>2 DEF SendCopy
            <4>2. Claimed' = Claimed
                BY <1>2, <4>1 DEF Claimed
            <4> QED
                BY <2>1, <4>1, <4>2 DEF Surplus
        <3>3. CASE SendQuit \/ SendReadWindow \/ SendStoreWindow \/ SendHeader \/ SendQueue
            <4>1. UNCHANGED <<empty, Claimed>>
                BY <3>3 DEF SendQuit, SendReadWindow, SendStoreWindow, SendHeader,
                    SendQueue, Claimed
            <4> QED
                BY <2>1, <4>1 DEF Surplus
        <3> QED
            BY <1>4, <3>1, <3>2, <3>3 DEF Send
    <2>3. CASE SendReadWindow
        <3>1. mpc' = "store" /\ mEff' = EffWin /\ effectiveWindow' = effectiveWindow
            BY <2>3 DEF SendReadWindow, EffWin
        <3> QED
            BY <1>1, <2>1, <2>2, <3>1 DEF SurplusInv
    <2>4. CASE SendStoreWindow
        <3>1. mpc = "store" /\ mpc' = "header" /\ effectiveWindow' = mEff
            BY <2>4 DEF SendStoreWindow
        <3> QED
            BY <2>1, <2>2, <3>1 DEF SurplusInv
    <2>5. CASE SendQuit \/ SendAcquire \/ SendHeader \/ SendCopy \/ SendQueue
        <3>1. mpc' # "store" /\ effectiveWindow' = effectiveWindow
            BY <2>5 DEF SendQuit, SendAcquire, SendHeader, SendCopy, SendQueue
        <3> QED
            BY <2>1, <2>2, <3>1 DEF SurplusInv
    <2> QED
        BY <1>4, <2>3, <2>4, <2>5 DEF Send
<1>5. CASE Close
    <2>1. UNCHANGED <<wpc, base, lastReleased, empty, nextSeq, effectiveWindow, EffWin>>
        BY <1>5, CloseEffects DEF EffWin
    <2>2. mpc \notin {"window", "store", "header", "copy"}
          /\ mpc' \notin {"window", "store", "header", "copy"}
        BY <1>5 DEF Close, CloseGiveUp, CloseAllAcked, FinSend, FinFail, FinTimeout,
            FinReadable, FinWouldBlock, FinRecv, FinExhausted, Destroy, Join
    <2>3. Surplus' = Surplus
        BY <2>1, <2>2 DEF Surplus, Claimed
    <2> QED
        BY <2>1, <2>2, <2>3 DEF SurplusInv
<1>6. CASE workerThread
    <2>1. UNCHANGED <<mpc, mEff, Claimed>>
        BY <1>6, WorkerEffects DEF Claimed
    <2>2. ASSUME NEW m \in Acks, WorkerNewAck(m) PROVE SurplusInv'
        <3>1. base' > base /\ UNCHANGED <<lastReleased, empty>> /\ effectiveWindow' = EffWin'
            BY <2>2 DEF WorkerNewAck, EffWin
        <3>2. Surplus' = Surplus
            BY <2>1, <3>1 DEF Surplus
        <3>3. lastReleased' < base' + EffWin' /\ lastReleased' <= base' + EffWin'
            <4>1. lastReleased' = lastReleased /\ lastReleased <= base + EffWin
                BY <3>1 DEF SurplusInv
            <4> QED
                BY <1>1, <1>2, <3>1, <4>1, AddBoth
        <3>4. Surplus < EffWin'
            BY <1>1, <1>3 DEF SurplusInv
        <3>5. mpc = "store" => mEff <= EffWin' /\ Surplus < mEff
            BY <1>1, <1>2 DEF SurplusInv
        <3> QED
            <4>1. effectiveWindow' <= EffWin' /\ Surplus' < effectiveWindow'
                BY <1>1, <3>1, <3>2, <3>4
            <4>2. mpc' = "store" => mEff' <= EffWin' /\ Surplus' < mEff'
                BY <2>1, <3>2, <3>5
            <4> QED
                BY <3>1, <3>2, <3>3, <3>4, <4>1, <4>2 DEF SurplusInv
    <2>3. CASE WorkerRelease
        <3>1. /\ wpc = "release" /\ wpc' = "wait" /\ UNCHANGED <<base, EffWin>>
              /\ lastReleased' = base + effectiveWindow
            BY <1>2, <2>3 DEF WorkerRelease, releasedNow, slotsToRelease, EffWin
        <3>2. CASE Surplus' <= Surplus
            <4>1. Surplus' \in Int
                BY <1>2, <1>3, <2>1, <2>3, <3>1
                   DEF Surplus, WorkerRelease, slotsToRelease
            <4> QED
                BY <1>1, <1>2, <1>3, <2>1, <3>1, <3>2, <4>1 DEF SurplusInv
        <3>3. CASE ReleaseOK
            <4>1. empty' = empty + (base + effectiveWindow - lastReleased)
                BY <2>3, <3>3 DEF WorkerRelease, slotsToRelease
            <4>2. Surplus' = Surplus
                BY <1>2, <1>3, <2>1, <3>1, <4>1 DEF Surplus
            <4> QED
                BY <1>3, <3>2, <4>2
        <3>4. CASE ~ReleaseOK
            <4>1. empty' = empty
                BY <2>3, <3>4 DEF WorkerRelease
            <4>2. Surplus' = Surplus + lastReleased - (base + effectiveWindow)
                BY <1>2, <1>3, <2>1, <3>1, <4>1 DEF Surplus
            <4>3. CASE lastReleased <= base + effectiveWindow
                BY <1>2, <1>3, <3>2, <4>2, <4>3
            <4>4. CASE lastReleased > base + effectiveWindow
                <5>1. effectiveWindow # EffWin
                    BY <1>1, <1>2, <3>1, <4>4 DEF SurplusInv
                <5>2. Surplus' < EffWin
                    BY <1>1, <1>2, <1>3, <3>1, <4>2 DEF SurplusInv
                <5>3. mpc = "store" => mEff = EffWin
                    BY <3>1, <5>1 DEF SurplusInv
                <5>4. lastReleased' <= base + EffWin
                    BY <1>1, <1>2, <3>1 DEF SurplusInv
                <5> QED
                    BY <1>1, <2>1, <3>1, <5>2, <5>3, <5>4 DEF SurplusInv
            <4> QED
                BY <1>2, <4>3, <4>4
        <3> QED
            BY <3>3, <3>4
    <2>4. CASE WorkerQuit \/ WorkerSend \/ WorkerWake \/ WorkerRecvFail \/ WorkerTimeout
               \/ WorkerGiveUp \/ \E m \in Acks : WorkerDupAck(m) \/ WorkerOldAck(m)
        <3>1. wpc' # "release" /\ UNCHANGED <<base, lastReleased, empty, receiverWindow>>
            BY <2>4 DEF WorkerQuit, WorkerSend, WorkerWake, WorkerRecvFail,
                WorkerTimeout, WorkerGiveUp, WorkerDupAck, WorkerOldAck, Receive,
                TimedOut, Waiting, ackVars
        <3>2. UNCHANGED <<EffWin, Surplus>>
            BY <2>1, <3>1 DEF EffWin, Surplus
        <3> QED
            BY <2>1, <3>1, <3>2 DEF SurplusInv
    <2> QED
        BY <1>6, <2>2, <2>3, <2>4 DEF workerThread
<1>7. CASE Environment \/ Done
    <2>1. UNCHANGED <<mpc, mEff, wpc, base, lastReleased, empty, nextSeq,
                      effectiveWindow, receiverWindow>>
        BY <1>7, EnvironmentEffects DEF Done, vars, mainVars, ackVars
    <2> QED
        BY <2>1 DEF SurplusInv, Surplus, Claimed, EffWin
<1> QED
    BY <1>4, <1>5, <1>6, <1>7 DEF Next

LEMMA OpeningInit == Init => OrderInv /\ SurplusInv
<1> SUFFICES ASSUME Init PROVE OrderInv /\ SurplusInv
    OBVIOUS
<1>1. EffWin \in 1..W /\ receiverWindow \in Nat
    BY InitType, EffWinBounds DEF TypeInv, TypeOK
<1>2. SurplusInv
    <2>1. /\ mpc = "send" /\ wpc = "wait" /\ nextSeq = 0 /\ base = 0
          /\ lastReleased = EffWin /\ empty = EffWin
        BY DEF Init, EffWin
    <2>2. Surplus = 0
        BY <1>1, <2>1 DEF Surplus, Claimed
    <2> QED
        BY <1>1, <2>1, <2>2 DEF SurplusInv
<1>3. OrderInv
    <2>1. PICK late \in 0..(SYN_MAX_ATTEMPTS - 1) :
            sockq = [NoDatagrams(Acks) EXCEPT
              ![[fin |-> FALSE, ackSeq |-> 0, recvWnd |-> receiverWindow]] = late]
        BY DEF Init
    <2>2. ASSUME NEW m \in Acks, IsIn(m, sockq)
          PROVE  m.recvWnd = receiverWindow
        <3>1. m = [fin |-> FALSE, ackSeq |-> 0, recvWnd |-> receiverWindow]
            BY <2>1, <2>2 DEF NoDatagrams, IsIn
        <3> QED
            BY <3>1
    <2>3. rcvWnd = receiverWindow
        BY DEF Init
    <2> QED
        BY <1>1, <2>2, <2>3 DEF OrderInv
<1> QED
    BY <1>2, <1>3

\* The inductive invariant of the transfer under any windows.
OpeningInv == CoreInv /\ OrderInv /\ SurplusInv

LEMMA OpeningCorrect == Spec => []OpeningInv
<1>1. Init => OpeningInv
    BY CoreInvInit, OpeningInit DEF OpeningInv
<1>2. OpeningInv /\ [Next]_vars => OpeningInv'
    <2> SUFFICES ASSUME OpeningInv, [Next]_vars PROVE OpeningInv'
        OBVIOUS
    <2>1. CoreInv'
        BY CoreInvStep DEF OpeningInv
    <2>2. CASE Next
        BY <2>1, <2>2, OrderInvStep, SurplusInvStep DEF OpeningInv, CoreInv
    <2>3. CASE UNCHANGED vars
        <3>1. OrderInv' /\ SurplusInv'
            BY <2>3 DEF OpeningInv, vars, mainVars, ackVars, rcvVars, OrderInv,
                SurplusInv, Surplus, Claimed, EffWin, IsIn
        <3> QED
            BY <2>1, <3>1 DEF OpeningInv
    <2> QED
        BY <2>2, <2>3
<1> QED
    BY <1>1, <1>2, PTL DEF Spec

\* The packets Send() has claimed a slot for and the receiver has not
\* acknowledged are fewer than twice the window it advertised last.
BelowTwice == Claimed < base + 2 * EffWin

\* Flow control for every receiver, also one that opens its window: the window
\* that Send() stores between two accesses of the worker can make it run ahead of
\* the receiver, but by less than one window more than it may, however often and
\* in whatever order that happens.
THEOREM RunsAheadByLessThanTwice == Spec => []BelowTwice
<1>1. OpeningInv => BelowTwice
    <2> SUFFICES ASSUME OpeningInv PROVE BelowTwice
        OBVIOUS
    <2>1. /\ base \in Nat /\ nextSeq \in Nat /\ lastReleased \in Nat /\ empty \in Nat
        BY DEF OpeningInv, CoreInv, TypeInv, TypeOK
    <2>2. EffWin \in Nat /\ Claimed \in Nat
        BY <2>1, EffWinBounds DEF Claimed, OpeningInv, CoreInv
    <2>3. lastReleased <= base + EffWin /\ empty + Claimed - lastReleased < EffWin
        BY DEF OpeningInv, SurplusInv, Surplus
    <2> QED
        BY <2>1, <2>2, <2>3 DEF BelowTwice
<1> QED
    BY <1>1, OpeningCorrect, PTL

\* The window the sender goes by never shrinks: an acknowledgment that was
\* overtaken does not take back what a later one has opened.
THEOREM WindowNeverShrinks == Spec => [][receiverWindow <= receiverWindow']_vars
<1>1. OpeningInv /\ [Next]_vars => [receiverWindow <= receiverWindow']_vars
    BY WindowGrows DEF OpeningInv, CoreInv
<1> QED
    BY <1>1, OpeningCorrect, PTL DEF Spec

------------------------------------------------------------------------------
(* Slots.  Two unacknowledged packets never share a slot, because they are    *)
(* less than W apart.                                                         *)

\* Only SendHeader and SendCopy change what a slot holds, and only the slot of
\* nextSeq.
SameSlot(i) ==
    /\ pendingPackets'[i].seq = pendingPackets[i].seq
    /\ pendingPackets'[i].data = pendingPackets[i].data

LEMMA SlotStep ==
    ASSUME TypeInv, Next, NEW i \in 0..(W - 1)
    PROVE  \/ SameSlot(i)
           \/ SendHeader /\ i = nextSeq % W
           \/ SendCopy /\ i = nextSeq % W
<1> USE DEF TypeInv, SameSlot
<1>1. pendingPackets \in [0..(W - 1) -> Packets]
    BY DEF TypeOK
<1>2. CASE UNCHANGED pendingPackets
    BY <1>2
<1>3. CASE SendHeader
    BY <1>1, <1>3 DEF SendHeader, Packets
<1>4. CASE SendCopy
    BY <1>1, <1>4 DEF SendCopy, Packets
<1>5. CASE WorkerSend
    BY <1>1, <1>5 DEF WorkerSend, Packets
<1>6. CASE Send
    BY <1>2, <1>3, <1>4, <1>6 DEF Send, SendQuit, SendAcquire, SendReadWindow,
        SendStoreWindow, SendQueue
<1>7. CASE workerThread
    BY <1>2, <1>5, <1>7 DEF workerThread, WorkerQuit, WorkerWake, WorkerRecvFail,
        WorkerNewAck, WorkerDupAck, WorkerOldAck, WorkerRelease, WorkerTimeout,
        WorkerGiveUp
<1> QED
    BY <1>2, <1>6, <1>7, CloseEffects, EnvironmentEffects DEF Next, Done, vars

SlotInv ==
    /\ SlotsIntact
    /\ mpc = "copy" => pendingPackets[nextSeq % W].seq = nextSeq

LEMMA SlotInvStep ==
    ASSUME TypeInv, TypeInv', FlowControl, SlotInv, Next
    PROVE  SlotInv'
<1>1. /\ base \in Nat /\ base' \in Nat /\ base' >= base
      /\ nextSeq \in Nat /\ nextSeq' \in Nat
    <2>1. /\ base \in Nat /\ base' \in Nat
          /\ nextSeq \in Nat /\ nextSeq' \in Nat
        BY DEF TypeInv, TypeOK
    <2>2. base' = base \/ base' > base
        BY BaseStep
    <2> QED
        BY <2>1, <2>2
<1>2. nextSeq % W \in 0..(W - 1) /\ nextSeq' % W \in 0..(W - 1)
    BY <1>1, SlotIndex
<1>3. pendingPackets \in [0..(W - 1) -> Packets]
    BY DEF TypeInv, TypeOK
\* A packet of the window, other than the one being written, keeps its slot.
<1>4. ASSUME NEW s \in Nat, base <= s, s < nextSeq,
             SendHeader \/ SendCopy
      PROVE  SameSlot(s % W)
    <2>1. Claimed = nextSeq + 1
        BY <1>4 DEF Claimed, SendHeader, SendCopy
    <2>2. min(W, receiverWindow) <= W /\ min(W, receiverWindow) \in Nat
        BY MinNat DEF TypeInv, TypeOK
    <2>3. nextSeq < base + W
        BY <1>1, <2>1, <2>2 DEF FlowControl
    <2>4. nextSeq < s + W
        BY <1>1, <1>4, <2>3
    <2>5. (s % W) # (nextSeq % W)
        BY <1>1, <1>4, <2>4, SlotsDiffer
    <2>6. s % W \in 0..(W - 1)
        BY SlotIndex
    <2> QED
        BY <2>5, <2>6, SlotStep
<1>5. CASE SendHeader
    <2>1. mpc' = "copy" /\ nextSeq' = nextSeq /\ base' = base
        BY <1>5 DEF SendHeader, workerUnchanged, ackVars
    <2>2. pendingPackets'[nextSeq % W].seq = nextSeq
        BY <1>2, <1>3, <1>5 DEF SendHeader, Packets
    <2>3. ASSUME NEW s \in base..(nextSeq - 1)
          PROVE  pendingPackets'[s % W].seq = s /\ pendingPackets'[s % W].data = s
        <3>1. s \in Nat /\ base <= s /\ s < nextSeq
            BY <1>1
        <3>2. SameSlot(s % W)
            BY <1>4, <1>5, <3>1
        <3> QED
            BY <3>2 DEF SameSlot, SlotInv, SlotsIntact
    <2>4. SlotsIntact'
        BY <2>1, <2>3 DEF SlotsIntact
    <2> QED
        BY <2>1, <2>2, <2>4 DEF SlotInv
<1>6. CASE SendCopy
    <2>1. mpc = "copy" /\ mpc' = "queue" /\ nextSeq' = nextSeq + 1 /\ base' = base
        BY <1>6 DEF SendCopy, workerUnchanged, ackVars
    <2>2. /\ pendingPackets'[nextSeq % W].seq = pendingPackets[nextSeq % W].seq
          /\ pendingPackets'[nextSeq % W].data = nextSeq
        BY <1>2, <1>3, <1>6 DEF SendCopy, Packets
    <2>3. pendingPackets[nextSeq % W].seq = nextSeq
        BY <2>1 DEF SlotInv
    <2>4. ASSUME NEW s \in base..nextSeq
          PROVE  pendingPackets'[s % W].seq = s /\ pendingPackets'[s % W].data = s
        <3>1. CASE s = nextSeq
            BY <2>2, <2>3, <3>1
        <3>2. CASE s # nextSeq
            <4>1. s \in Nat /\ base <= s /\ s < nextSeq /\ s \in base..(nextSeq - 1)
                BY <1>1, <3>2
            <4>2. SameSlot(s % W)
                BY <1>4, <1>6, <4>1
            <4> QED
                BY <4>1, <4>2 DEF SameSlot, SlotInv, SlotsIntact
        <3> QED
            BY <3>1, <3>2
    <2>5. nextSeq' - 1 = nextSeq
        BY <1>1, <2>1
    <2>6. SlotsIntact'
        BY <2>1, <2>4, <2>5 DEF SlotsIntact
    <2> QED
        BY <2>1, <2>6 DEF SlotInv
<1>7. CASE ~SendHeader /\ ~SendCopy
    <2>1. nextSeq' = nextSeq /\ (mpc' = "copy" => mpc = "copy")
        <3>1. CASE Send
            BY <1>7, <3>1 DEF Send, SendQuit, SendAcquire, SendReadWindow,
                SendStoreWindow, SendQueue
        <3>2. CASE Close
            BY <3>2, CloseEffects DEF Close, CloseGiveUp, CloseAllAcked, FinSend,
                FinFail, FinTimeout, FinReadable, FinWouldBlock, FinRecv,
                FinExhausted, Destroy, Join
        <3> QED
            BY <3>1, <3>2, WorkerEffects, EnvironmentEffects
               DEF Next, Done, vars, mainVars
    <2>2. \A i \in 0..(W - 1) : SameSlot(i)
        BY <1>7, SlotStep
    <2>3. ASSUME NEW s \in base'..(nextSeq - 1)
          PROVE  pendingPackets'[s % W].seq = s /\ pendingPackets'[s % W].data = s
        <3>1. s \in Nat /\ s \in base..(nextSeq - 1)
            BY <1>1
        <3>2. SameSlot(s % W)
            BY <2>2, <3>1, SlotIndex
        <3> QED
            BY <3>1, <3>2 DEF SameSlot, SlotInv, SlotsIntact
    <2>4. SlotsIntact'
        BY <2>1, <2>3 DEF SlotsIntact
    <2>5. mpc' = "copy" => pendingPackets'[nextSeq' % W].seq = nextSeq'
        BY <1>2, <2>1, <2>2 DEF SameSlot, SlotInv
    <2> QED
        BY <2>4, <2>5 DEF SlotInv
<1> QED
    BY <1>5, <1>6, <1>7

\* Under a steady window every queued and unacknowledged packet stays whole in
\* its slot, for every number of packets and every window size.
THEOREM SlotsStayIntact == ASSUME SteadyWindow PROVE Spec => []SlotsIntact
<1>1. Init => SlotInv
    BY DEF Init, SlotInv, SlotsIntact
<1>2. TypeInv /\ TypeInv' /\ FlowControl /\ SlotInv /\ [Next]_vars => SlotInv'
    <2> SUFFICES ASSUME TypeInv, TypeInv', FlowControl, SlotInv, [Next]_vars
                 PROVE  SlotInv'
        OBVIOUS
    <2>1. CASE UNCHANGED vars
        BY <2>1 DEF vars, mainVars, ackVars, SlotInv, SlotsIntact
    <2> QED
        BY <2>1, SlotInvStep
<1>3. WindowInv => TypeInv
    BY DEF WindowInv, CoreInv
<1>4. SlotInv => SlotsIntact
    BY DEF SlotInv
<1> QED
    BY <1>1, <1>2, <1>3, <1>4, WindowCorrect, FlowControlled, PTL DEF Spec

------------------------------------------------------------------------------
(* Karn's rule.  As long as base has not overtaken nextToSend, the worker     *)
(* finds in the slot of nextToSend the packet of that number, and sends it    *)
(* for the first time; only the packet at base is ever sent again, and then   *)
(* retxForBase is not 0.                                                      *)

\* What Send() has queued and the worker not counted is at most what it wrote.
Handed == IF mpc = "queue" THEN 1 ELSE 0
CountInv == nextToSend + full + Handed <= nextSeq

\* Only what was transmitted is under way or received.
SentInv ==
    /\ \A d \in DataPkts : IsIn(d, net) => sentTimes[d.seq] >= 1
    /\ \A s \in Seqs : got[s] # Nothing => sentTimes[s] >= 1

\* Packets that no retransmission can have been of.
Unresent(s) == s > base \/ (s = base /\ retxForBase = 0)

OnceInv ==
    ~overtaken =>
        /\ base <= nextToSend
        /\ \A s \in Seqs : Unresent(s) =>
             sentTimes[s] <= (IF s < nextToSend THEN 1 ELSE 0)

KarnInv == CountInv /\ SentInv /\ OnceInv

LEMMA OneMoved ==
    ASSUME NEW a \in Nat, NEW b \in Nat, NEW b1 \in Nat, NEW c \in Nat,
           (a + b) + 1 <= c, b1 = b + 1 \/ b1 = b
    PROVE  (a + b1) + 0 <= c
OBVIOUS

LEMMA CountInvStep == TypeInv /\ TypeInv' /\ CountInv /\ Next => CountInv'
<1> SUFFICES ASSUME TypeInv, TypeInv', CountInv, Next PROVE CountInv'
    OBVIOUS
<1>1. /\ nextToSend \in Nat /\ full \in Nat /\ nextSeq \in Nat
      /\ nextToSend' \in Nat /\ full' \in Nat /\ nextSeq' \in Nat
    BY DEF TypeInv, TypeOK
<1>2. CASE UNCHANGED <<nextToSend, full, nextSeq, mpc>>
    BY <1>2 DEF CountInv, Handed
<1>3. CASE Send
    <2>1. nextToSend' = nextToSend
        BY <1>3, SendEffects
    <2>2. CASE SendCopy
        <3>1. mpc = "copy" /\ mpc' = "queue" /\ nextSeq' = nextSeq + 1 /\ full' = full
            BY <2>2 DEF SendCopy
        <3> QED
            BY <1>1, <2>1, <3>1 DEF CountInv, Handed
    <2>3. CASE SendQueue
        <3>1. /\ mpc = "queue" /\ mpc' = "send" /\ nextSeq' = nextSeq
              /\ full' = full + 1 \/ full' = full
            BY <2>3 DEF SendQueue
        <3>2. Handed = 1 /\ Handed' = 0
            BY <3>1 DEF Handed
        <3>3. (nextToSend + full) + 1 <= nextSeq
            BY <3>2 DEF CountInv
        <3>4. (nextToSend + full') + 0 <= nextSeq
            BY <1>1, <3>1, <3>3, OneMoved
        <3> QED
            BY <2>1, <3>1, <3>2, <3>4 DEF CountInv
    <2>4. CASE ~SendCopy /\ ~SendQueue
        <3>1. mpc # "queue" /\ mpc' # "queue" /\ UNCHANGED <<nextSeq, full>>
            BY <1>3, <2>4 DEF Send, SendQuit, SendAcquire, SendReadWindow,
                SendStoreWindow, SendHeader
        <3> QED
            BY <2>1, <3>1 DEF CountInv, Handed
    <2> QED
        BY <2>2, <2>3, <2>4
<1>4. CASE Close
    <2>1. UNCHANGED <<nextToSend, full, nextSeq>>
        BY <1>4, CloseEffects
    <2>2. mpc # "queue" /\ mpc' # "queue"
        BY <1>4 DEF Close, CloseGiveUp, CloseAllAcked, FinSend, FinFail, FinTimeout,
            FinReadable, FinWouldBlock, FinRecv, FinExhausted, Destroy, Join
    <2> QED
        BY <2>1, <2>2 DEF CountInv, Handed
<1>5. CASE workerThread
    <2>1. UNCHANGED <<mpc, nextSeq>>
        BY <1>5, WorkerEffects
    <2>2. CASE WorkerSend
        <3>1. full' = full - 1 /\ nextToSend' = nextToSend + 1
            BY <2>2 DEF WorkerSend
        <3> QED
            BY <1>1, <2>1, <3>1 DEF CountInv, Handed
    <2>3. CASE ~WorkerSend
        <3>1. UNCHANGED <<nextToSend, full>>
            BY <1>5, <2>3 DEF workerThread, WorkerQuit, WorkerWake, WorkerRecvFail,
                WorkerNewAck, WorkerDupAck, WorkerOldAck, WorkerRelease,
                WorkerTimeout, WorkerGiveUp
        <3> QED
            BY <1>2, <2>1, <3>1
    <2> QED
        BY <2>2, <2>3
<1>6. CASE Environment \/ Done
    BY <1>2, <1>6, EnvironmentEffects DEF Done, vars, mainVars
<1> QED
    BY <1>3, <1>4, <1>5, <1>6 DEF Next

\* One transmission: the packet's count grows, all others stay.
LEMMA TransmitCounts ==
    ASSUME TypeOK, NEW p, Transmit(p)
    PROVE  \A s \in Seqs :
             /\ sentTimes'[s] >= sentTimes[s]
             /\ s # p.seq => sentTimes'[s] = sentTimes[s]
             /\ s = p.seq => sentTimes'[s] >= 1 /\ sentTimes'[s] <= sentTimes[s] + 1
<1> SUFFICES ASSUME NEW s \in Seqs
             PROVE  /\ sentTimes'[s] >= sentTimes[s]
                    /\ s # p.seq => sentTimes'[s] = sentTimes[s]
                    /\ s = p.seq => /\ sentTimes'[s] >= 1
                                    /\ sentTimes'[s] <= sentTimes[s] + 1
    OBVIOUS
<1>1. sentTimes \in [Seqs -> 0..2]
    BY DEF TypeOK
<1>2. sentTimes[s] \in 0..2
    BY <1>1
<1>3. CASE s = p.seq
    <2>1. sentTimes'[s] = min(2, sentTimes[s] + 1)
        BY <1>1, <1>3 DEF Transmit
    <2> QED
        BY <1>2, <1>3, <2>1 DEF min
<1>4. CASE s # p.seq
    <2>1. sentTimes'[s] = sentTimes[s]
        BY <1>1, <1>4 DEF Transmit
    <2> QED
        BY <1>2, <1>4, <2>1
<1> QED
    BY <1>3, <1>4


\* What the worker transmits comes from a slot.
LEMMA SentTimesStep ==
    ASSUME TypeInv, Next
    PROVE  \/ UNCHANGED sentTimes
           \/ \E i \in 0..(W - 1) : \E p : /\ Transmit(p)
                                           /\ p.seq = pendingPackets[i].seq
<1>1. base \in Nat /\ nextToSend \in Nat
    BY DEF TypeInv, TypeOK
<1>2. base % W \in 0..(W - 1) /\ nextToSend % W \in 0..(W - 1)
    BY <1>1, SlotIndex
<1>3. CASE Send \/ Close \/ Environment \/ Done
    BY <1>3, SendEffects, CloseEffects, EnvironmentEffects DEF Done, vars, histVars
<1>4. CASE WorkerSend
    <2>1. pendingPackets'[nextToSend % W].seq = pendingPackets[nextToSend % W].seq
        BY <1>2, <1>4 DEF WorkerSend, TypeInv, TypeOK, Packets
    <2>2. CASE Transmit(pendingPackets'[nextToSend % W])
        BY <1>2, <2>1, <2>2
    <2> QED
        BY <1>4, <2>2 DEF WorkerSend
<1>5. CASE WorkerTimeout
    BY <1>2, <1>5 DEF WorkerTimeout
<1>6. CASE \E m \in Acks : WorkerDupAck(m)
    BY <1>2, <1>6 DEF WorkerDupAck
<1>7. CASE UNCHANGED sentTimes
    BY <1>7
<1> QED
    BY <1>3, <1>4, <1>5, <1>6, <1>7 DEF Next, workerThread, WorkerQuit, WorkerWake,
        WorkerRecvFail, WorkerNewAck, WorkerOldAck, WorkerRelease, WorkerGiveUp,
        histVars

LEMMA SentInvStep == TypeInv /\ TypeInv' /\ SentInv /\ Next => SentInv'
<1> SUFFICES ASSUME TypeInv, TypeInv', SentInv, Next PROVE SentInv'
    OBVIOUS
<1>1. \A s \in Seqs : sentTimes[s] \in 0..2 /\ sentTimes'[s] \in 0..2
    BY DEF TypeInv, TypeOK
<1>2. \A s \in Seqs : sentTimes'[s] >= sentTimes[s]
    BY <1>1, SentTimesStep, TransmitCounts DEF TypeInv
<1>3. \A s \in Seqs : sentTimes[s] >= 1 => sentTimes'[s] >= 1
    BY <1>1, <1>2
<1>4. ASSUME NEW d \in DataPkts, IsIn(d, net') PROVE sentTimes'[d.seq] >= 1
    <2>1. d.seq \in Seqs /\ d \in DataPkts \cup FinPkts /\ ~d.fin
        BY DEF DataPkts
    <2>2. CASE IsIn(d, net)
        BY <1>3, <2>1, <2>2 DEF SentInv
    <2>3. CASE ~IsIn(d, net)
        <3>1. PICK p : Transmit(p) /\ d.seq = p.seq
            <4>1. CASE workerThread
                <5>1. CASE \E p : Transmit(p)
                    BY <1>4, <2>1, <2>3, <5>1, TransmitMembers DEF TypeInv
                <5>2. CASE UNCHANGED net
                    BY <1>4, <2>3, <5>2
                <5> QED
                    BY <4>1, <5>1, <5>2 DEF workerThread, WorkerQuit, WorkerSend,
                        WorkerWake, WorkerRecvFail, WorkerNewAck, WorkerDupAck,
                        WorkerOldAck, WorkerRelease, WorkerTimeout, WorkerGiveUp
            <4>2. CASE Close
                <5>1. CASE FinSend
                    <6>1. d = [fin |-> TRUE, seq |-> base, data |-> Uninit]
                        BY <1>4, <2>1, <2>3, <5>1, PutMembers
                           DEF FinSend, TypeInv, TypeOK
                    <6> QED
                        BY <2>1, <6>1
                <5>2. CASE ~FinSend
                    <6>1. UNCHANGED net
                        BY <4>2, <5>2 DEF Close, CloseGiveUp, CloseAllAcked, FinFail,
                            FinTimeout, FinReadable, FinWouldBlock, FinRecv,
                            FinExhausted, Destroy, Join
                    <6> QED
                        BY <1>4, <2>3, <6>1
                <5> QED
                    BY <5>1, <5>2
            <4>3. CASE Send \/ Done
                BY <1>4, <2>3, <4>3, SendEffects DEF Done, vars
            <4>4. CASE Environment
                <5>1. PICK x \in DataPkts \cup FinPkts : net' = Take(net, x)
                    BY <4>4 DEF Environment, RcvData, RcvFin, Lose
                <5> QED
                    BY <1>4, <2>1, <2>3, <5>1, TakeMembers DEF TypeInv, TypeOK
            <4> QED
                BY <4>1, <4>2, <4>3, <4>4 DEF Next
        <3> QED
            BY <2>1, <3>1, TransmitCounts DEF TypeInv
    <2> QED
        BY <2>2, <2>3
<1>5. ASSUME NEW s \in Seqs, got'[s] # Nothing PROVE sentTimes'[s] >= 1
    <2>1. CASE got[s] # Nothing
        BY <1>3, <2>1 DEF SentInv
    <2>2. CASE got[s] = Nothing
        <3>1. PICK d \in DataPkts : RcvData(d)
            BY <1>5, <2>2, SendEffects, CloseEffects, WorkerEffects
               DEF Next, Environment, RcvFin, Lose, Done, vars, rcvVars
        <3>2. s = d.seq
            BY <1>5, <2>2, <3>1 DEF RcvData, TypeInv, TypeOK
        <3> QED
            BY <1>3, <3>1, <3>2 DEF RcvData, SentInv
    <2> QED
        BY <2>1, <2>2
<1> QED
    BY <1>4, <1>5 DEF SentInv

LEMMA OnceInvStep ==
    ASSUME TypeInv, TypeInv', WrittenInv, CountInv, SlotInv, OnceInv, Next
    PROVE  OnceInv'
<1> SUFFICES ASSUME ~overtaken'
             PROVE  /\ base' <= nextToSend'
                    /\ \A s \in Seqs : Unresent(s)' =>
                         sentTimes'[s] <= (IF s < nextToSend' THEN 1 ELSE 0)
    BY DEF OnceInv
<1>1. /\ base \in Nat /\ nextToSend \in Nat /\ nextSeq \in Nat /\ full \in Nat
      /\ retxForBase \in Nat
    BY DEF TypeInv, TypeOK
<1>2. \A s \in Seqs : s \in Nat /\ sentTimes[s] \in 0..2 /\ sentTimes'[s] \in 0..2
    <2>1. sentTimes \in [Seqs -> 0..2]
        BY DEF TypeInv, TypeOK
    <2>2. sentTimes' \in [Seqs -> 0..2]
        BY DEF TypeInv, TypeOK
    <2> QED
        BY <2>1, <2>2 DEF Seqs
<1>3. ~overtaken
    BY SendEffects, CloseEffects, EnvironmentEffects DEF Next, Done, vars, histVars,
        workerThread, WorkerQuit, WorkerSend, WorkerWake, WorkerRecvFail,
        WorkerNewAck, WorkerDupAck, WorkerOldAck, WorkerRelease, WorkerTimeout,
        WorkerGiveUp
<1>4. base <= nextToSend
    BY <1>3 DEF OnceInv
<1>5. ASSUME NEW s \in Seqs, Unresent(s)
      PROVE  sentTimes[s] <= (IF s < nextToSend THEN 1 ELSE 0)
    BY <1>3, <1>5 DEF OnceInv
<1>6. CASE UNCHANGED <<base, nextToSend, retxForBase, sentTimes>>
    BY <1>4, <1>5, <1>6 DEF Unresent
\* A retransmission is of the packet at base, or of an acknowledged one.
<1>7. ASSUME Transmit(pendingPackets[base % W]), retxForBase' = retxForBase + 1,
             UNCHANGED <<base, nextToSend>>
      PROVE  \A s \in Seqs : Unresent(s)' =>
               sentTimes'[s] <= (IF s < nextToSend' THEN 1 ELSE 0)
    <2>1. pendingPackets[base % W].seq <= base
        <3>1. CASE base < nextSeq
            <4>1. base \in base..(nextSeq - 1)
                BY <1>1, <3>1
            <4>2. pendingPackets[base % W].seq = base
                BY <4>1 DEF SlotInv, SlotsIntact
            <4> QED
                BY <1>1, <4>2
        <3>2. CASE ~(base < nextSeq)
            <4>1. nextToSend <= nextSeq
                BY <1>1 DEF CountInv, Handed
            <4>2. base = nextSeq
                BY <1>1, <1>4, <3>2, <4>1
            <4>3. base % W \in 0..(W - 1)
                BY <1>1, SlotIndex
            <4>4. pendingPackets[base % W].seq < Written
                BY <4>3 DEF WrittenInv
            <4>5. pendingPackets[base % W].seq \in Int
                <5>1. pendingPackets[base % W] \in Packets
                    BY <4>3 DEF TypeInv, TypeOK
                <5> QED
                    BY <5>1 DEF Packets, Payloads, Seqs, Uninit
            <4>6. Written <= base + 1
                BY <1>1, <4>2 DEF Written
            <4>7. Written \in Int
                BY <1>1 DEF Written
            <4> QED
                BY <1>1, <4>4, <4>5, <4>6, <4>7
        <3> QED
            BY <3>1, <3>2
    <2>2. ASSUME NEW s \in Seqs, Unresent(s)'
          PROVE  sentTimes'[s] <= (IF s < nextToSend' THEN 1 ELSE 0)
        <3>1. s > base
            BY <1>1, <1>2, <1>7, <2>2 DEF Unresent
        <3>2. s # pendingPackets[base % W].seq
            <4>1. s \in Nat /\ base \in Nat
                BY <1>1, <1>2
            <4> QED
                BY <2>1, <3>1, <4>1
        <3>3. sentTimes'[s] = sentTimes[s]
            BY <1>7, <3>2, TransmitCounts DEF TypeInv
        <3> QED
            BY <1>5, <1>7, <3>1, <3>3 DEF Unresent
    <2> QED
        BY <2>2
<1>8. CASE WorkerSend
    <2>1. /\ UNCHANGED <<base, retxForBase>>
          /\ nextToSend' = nextToSend + 1 /\ full > 0
          /\ Transmit(pendingPackets'[nextToSend % W]) \/ UNCHANGED sentTimes
        BY <1>8 DEF WorkerSend, ackVars
    <2>2. base' <= nextToSend'
        BY <1>1, <1>4, <2>1
    <2>3. nextToSend \in base..(nextSeq - 1)
        <3>1. nextToSend < nextSeq
            BY <1>1, <2>1 DEF CountInv, Handed
        <3> QED
            BY <1>1, <1>4, <3>1
    <2>4. pendingPackets'[nextToSend % W].seq = nextToSend
        <3>1. nextToSend % W \in 0..(W - 1)
            BY <1>1, SlotIndex
        <3>2. pendingPackets[nextToSend % W].seq = nextToSend
            BY <2>3 DEF SlotInv, SlotsIntact
        <3> QED
            BY <1>8, <3>1, <3>2 DEF WorkerSend, TypeInv, TypeOK, Packets
    <2>5. ASSUME NEW s \in Seqs, Unresent(s)'
          PROVE  sentTimes'[s] <= (IF s < nextToSend' THEN 1 ELSE 0)
        <3>1. Unresent(s)
            BY <2>1, <2>5 DEF Unresent
        <3>2. sentTimes[s] <= (IF s < nextToSend THEN 1 ELSE 0)
            BY <1>5, <3>1
        <3>3. sentTimes[s] \in 0..2 /\ sentTimes'[s] \in 0..2 /\ s \in Nat
            BY <1>1, <1>2
        <3>4. CASE s = nextToSend
            <4>1. sentTimes[s] = 0
                BY <1>1, <3>2, <3>3, <3>4
            <4>2. sentTimes'[s] <= sentTimes[s] + 1
                BY <2>1, <2>4, <3>3, <3>4, TransmitCounts DEF TypeInv
            <4>3. s < nextToSend'
                BY <1>1, <2>1, <3>4
            <4> QED
                BY <3>3, <4>1, <4>2, <4>3
        <3>5. CASE s # nextToSend
            <4>1. sentTimes'[s] = sentTimes[s]
                BY <2>1, <2>4, <3>5, TransmitCounts DEF TypeInv
            <4>2. s < nextToSend' <=> s < nextToSend
                BY <1>1, <2>1, <3>3, <3>5
            <4> QED
                BY <3>2, <4>1, <4>2
        <3> QED
            BY <3>4, <3>5
    <2> QED
        BY <2>2, <2>5
<1>9. CASE WorkerTimeout
    <2>1. /\ UNCHANGED <<base, nextToSend>> /\ retxForBase' = retxForBase + 1
          /\ Transmit(pendingPackets[base % W]) \/ UNCHANGED sentTimes
        BY <1>9 DEF WorkerTimeout
    <2>2. CASE UNCHANGED sentTimes
        BY <1>1, <1>2, <1>4, <1>5, <2>1, <2>2 DEF Unresent
    <2> QED
        BY <1>4, <1>7, <2>1, <2>2
<1>10. ASSUME NEW m \in Acks, WorkerDupAck(m)
       PROVE  /\ base' <= nextToSend'
              /\ \A s \in Seqs : Unresent(s)' =>
                   sentTimes'[s] <= (IF s < nextToSend' THEN 1 ELSE 0)
    <2>1. UNCHANGED <<base, nextToSend>>
        BY <1>10 DEF WorkerDupAck
    <2>2. CASE UNCHANGED <<retxForBase, sentTimes>>
        BY <1>6, <2>1, <2>2
    <2>3. CASE retxForBase' = retxForBase + 1 /\ UNCHANGED sentTimes
        BY <1>1, <1>2, <1>4, <1>5, <2>1, <2>3 DEF Unresent
    <2>4. CASE retxForBase' = retxForBase + 1 /\ Transmit(pendingPackets[base % W])
        BY <1>4, <1>7, <2>1, <2>4
    <2> QED
        BY <1>10, <2>2, <2>3, <2>4 DEF WorkerDupAck
<1>11. ASSUME NEW m \in Acks, WorkerNewAck(m)
       PROVE  /\ base' <= nextToSend'
              /\ \A s \in Seqs : Unresent(s)' =>
                   sentTimes'[s] <= (IF s < nextToSend' THEN 1 ELSE 0)
    <2>1. /\ base' = m.ackSeq /\ base' > base /\ m.ackSeq \in Nat
          /\ UNCHANGED <<nextToSend, sentTimes>>
        BY <1>11, AckFields DEF WorkerNewAck
    <2>2. ~(m.ackSeq > nextToSend)
        BY <1>11, Zenon DEF WorkerNewAck
    <2>3. base' <= nextToSend'
        BY <1>1, <2>1, <2>2
    <2>4. ASSUME NEW s \in Seqs, Unresent(s)' PROVE Unresent(s)
        <3>1. s \in Nat /\ base' \in Nat /\ s >= base'
            BY <1>2, <2>1, <2>4 DEF Unresent
        <3>2. s > base
            BY <1>1, <2>1, <3>1
        <3> QED
            BY <3>2 DEF Unresent
    <2> QED
        BY <1>5, <2>1, <2>3, <2>4
<1>12. CASE WorkerGiveUp
    <2>1. UNCHANGED <<base, nextToSend, sentTimes>> /\ retxForBase' = retxForBase + 1
        BY <1>12 DEF WorkerGiveUp, histVars
    <2> QED
        BY <1>1, <1>2, <1>4, <1>5, <2>1 DEF Unresent
<1>13. CASE WorkerQuit \/ WorkerWake \/ WorkerRecvFail \/ WorkerRelease
            \/ \E m \in Acks : WorkerOldAck(m)
    <2>1. UNCHANGED <<base, nextToSend, retxForBase, sentTimes>>
        BY <1>13 DEF WorkerQuit, WorkerWake, WorkerRecvFail, WorkerOldAck,
            WorkerRelease, ackVars, histVars
    <2> QED
        BY <1>6, <2>1
<1>14. CASE workerThread
    BY <1>8, <1>9, <1>10, <1>11, <1>12, <1>13, <1>14 DEF workerThread
<1> QED
    BY <1>6, <1>14, SendEffects, CloseEffects, EnvironmentEffects
       DEF Next, Done, vars, ackVars, histVars

\* Karn's rule, for every number of packets and every window size: under a
\* steady window, and as long as base has not overtaken nextToSend, an RTT is
\* sampled only from a packet transmitted exactly once.
THEOREM KarnsRuleHolds == ASSUME SteadyWindow PROVE Spec => KarnsRule
<1> DEFINE Inv == WindowInv /\ SlotInv /\ KarnInv
<1>1. Init => SlotInv /\ KarnInv
    <2> SUFFICES ASSUME Init PROVE SlotInv /\ KarnInv
        OBVIOUS
    <2>1. SlotInv
        BY DEF Init, SlotInv, SlotsIntact
    <2>2. CountInv
        BY DEF Init, CountInv, Handed
    <2>3. SentInv
        BY DEF Init, SentInv, NoDatagrams, IsIn
    <2>4. OnceInv
        BY DEF Init, OnceInv
    <2> QED
        BY <2>1, <2>2, <2>3, <2>4 DEF KarnInv
<1>2. Inv /\ WindowInv' /\ [Next]_vars => Inv'
    <2> SUFFICES ASSUME Inv, WindowInv', [Next]_vars PROVE SlotInv' /\ KarnInv'
        OBVIOUS
    <2>1. TypeInv /\ TypeInv' /\ WrittenInv /\ FlowControl
        BY WindowFlow DEF WindowInv, CoreInv
    <2>2. CASE Next
        BY <2>1, <2>2, SlotInvStep, CountInvStep, SentInvStep, OnceInvStep DEF KarnInv
    <2>3. CASE UNCHANGED vars
        BY <2>3 DEF vars, mainVars, ackVars, rcvVars, histVars, SlotInv, SlotsIntact,
            KarnInv, CountInv, Handed, SentInv, OnceInv, Unresent, IsIn
    <2> QED
        BY <2>2, <2>3
<1>3. Inv /\ [Next]_vars =>
        [lastSample' # lastSample /\ ~overtaken => sentTimes[lastSample'] = 1]_vars
    <2> SUFFICES ASSUME Inv, Next, lastSample' # lastSample, ~overtaken
                 PROVE  sentTimes[lastSample'] = 1
        OBVIOUS
    <2>1. PICK m \in Acks : WorkerNewAck(m)
        BY SendEffects, CloseEffects, EnvironmentEffects DEF Next, Done, vars, histVars,
            workerThread, WorkerQuit, WorkerSend, WorkerWake, WorkerRecvFail,
            WorkerDupAck, WorkerOldAck, WorkerRelease, WorkerTimeout, WorkerGiveUp
    <2> DEFINE s == m.ackSeq - 1
    <2>2. lastSample' = s /\ retxForBase = 0 /\ m.ackSeq > base /\ IsIn(m, sockq)
        BY <2>1 DEF WorkerNewAck, SampleRTT, Receive
    <2>3. /\ base \in Nat /\ m.ackSeq \in 0..N /\ rcvNext \in 0..N
          /\ m.ackSeq <= rcvNext
        BY <2>2, AckFields DEF WindowInv, CoreInv, AckInv, TypeInv, TypeOK
    <2>4. s \in Seqs /\ s >= base /\ s < rcvNext
        BY <2>2, <2>3 DEF Seqs
    <2>5. Unresent(s)
        BY <2>2, <2>3, <2>4 DEF Unresent
    <2>6. sentTimes[s] >= 1
        BY <2>4 DEF WindowInv, WrittenInv, KarnInv, SentInv
    <2>7. sentTimes[s] <= (IF s < nextToSend THEN 1 ELSE 0)
        BY <2>4, <2>5 DEF KarnInv, OnceInv
    <2>8. sentTimes[s] \in 0..2
        BY <2>4 DEF WindowInv, CoreInv, TypeInv, TypeOK
    <2> QED
        BY <2>2, <2>6, <2>7, <2>8
<1> QED
    BY <1>1, <1>2, <1>3, WindowCorrect, PTL DEF Spec, KarnsRule

------------------------------------------------------------------------------
(* SenderSocket implements ReliableTransfer, for every number of packets,     *)
(* every window and every behaviour of the network.                           *)

\* Until main() exits, no call has failed.
StatusInv == mpc # "exit" => status = "STATUS_OK"

LEMMA StatusInvStep == StatusInv /\ [Next]_vars => StatusInv'
<1> SUFFICES ASSUME StatusInv, [Next]_vars PROVE StatusInv'
    OBVIOUS
<1>1. CASE Send
    BY <1>1 DEF StatusInv, Send, SendQuit, SendAcquire, SendReadWindow,
        SendStoreWindow, SendHeader, SendCopy, SendQueue
<1>2. CASE Close
    BY <1>2 DEF StatusInv, Close, CloseGiveUp, CloseAllAcked, FinSend, FinFail,
        FinTimeout, FinReadable, FinWouldBlock, FinRecv, FinExhausted, Destroy, Join
<1>3. CASE workerThread \/ Environment
    BY <1>3, WorkerEffects, EnvironmentEffects DEF StatusInv
<1>4. CASE UNCHANGED vars
    BY <1>4 DEF StatusInv, vars, mainVars
<1> QED
    BY <1>1, <1>2, <1>3, <1>4 DEF Next, Done

\* The inductive invariant of the refinement.
RefInv == CoreInv /\ WrittenInv /\ StatusInv

LEMMA RefInvCorrect == Spec => []RefInv
<1>1. Init => RefInv
    BY CoreInvInit, WindowInvInit DEF RefInv, StatusInv, Init
<1>2. RefInv /\ [Next]_vars => RefInv'
    <2> SUFFICES ASSUME RefInv, [Next]_vars PROVE RefInv'
        OBVIOUS
    <2>1. CoreInv' /\ StatusInv'
        BY CoreInvStep, StatusInvStep DEF RefInv
    <2>2. CASE Next
        BY <2>1, <2>2, WrittenInvStep DEF RefInv, CoreInv
    <2>3. CASE UNCHANGED vars
        <3>1. WrittenInv'
            BY <2>3 DEF RefInv, vars, mainVars, ackVars, rcvVars, WrittenInv,
                Written, IsIn
        <3> QED
            BY <2>1, <3>1 DEF RefInv
    <2> QED
        BY <2>2, <2>3
<1> QED
    BY <1>1, <1>2, PTL DEF Spec

------------------------------------------------------------------------------
(* Every step of the sender is a step of ReliableTransfer, or a stutter.      *)

LEMMA SendMaps ==
    ASSUME RefInv, Send
    PROVE  [Abstract!Next]_(Abstract!vars)
<1>1. UNCHANGED <<rcvNext, base>>
    BY SendEffects
<1>2. nextSeq \in Nat /\ (mpc = "header" => nextSeq < N)
    BY DEF RefInv, CoreInv, TypeInv, TypeOK, PcInv
<1>3. CASE SendQuit
    <2>1. /\ mpc = "send" /\ mpc' = "exit" /\ status' = "TIMEOUT"
          /\ nextSeq' = nextSeq
        BY <1>3 DEF SendQuit
    <2>2. Written' = Written /\ Outcome = "open" /\ Outcome' = "failed"
        BY <2>1 DEF Written, Outcome, CloseReturnedOK, Exited
    <2> QED
        BY <1>1, <2>2 DEF Abstract!Next, Abstract!Fail
<1>4. CASE SendHeader
    <2>1. mpc = "header" /\ mpc' = "copy" /\ nextSeq' = nextSeq
        BY <1>4 DEF SendHeader
    <2>2. Written' = Written + 1 /\ Written < N
        BY <1>2, <2>1 DEF Written
    <2>3. Outcome = "open" /\ Outcome' = "open"
        BY <2>1 DEF Outcome, CloseReturnedOK, Exited
    <2> QED
        BY <1>1, <2>2, <2>3 DEF Abstract!Next, Abstract!Accept
<1>5. CASE SendCopy
    <2>1. mpc = "copy" /\ mpc' = "queue" /\ nextSeq' = nextSeq + 1
        BY <1>5 DEF SendCopy
    <2>2. Written' = Written /\ Outcome' = Outcome
        BY <2>1 DEF Written, Outcome, CloseReturnedOK, Exited
    <2> QED
        BY <1>1, <2>2 DEF Abstract!vars
<1>6. CASE SendAcquire \/ SendReadWindow \/ SendStoreWindow \/ SendQueue
    <2>1. /\ mpc \in {"send", "window", "store", "queue"}
          /\ mpc' \in {"send", "window", "store", "header"}
          /\ nextSeq' = nextSeq
        BY <1>6 DEF SendAcquire, SendReadWindow, SendStoreWindow, SendQueue
    <2>2. Written' = Written /\ Outcome' = Outcome
        BY <2>1 DEF Written, Outcome, CloseReturnedOK, Exited
    <2> QED
        BY <1>1, <2>2 DEF Abstract!vars
<1> QED
    BY <1>3, <1>4, <1>5, <1>6 DEF Send

LEMMA CloseMaps ==
    ASSUME RefInv, Close
    PROVE  [Abstract!Next]_(Abstract!vars)
<1>1. UNCHANGED <<rcvNext, base, nextSeq>>
    BY CloseEffects
<1>2. mpc # "copy" /\ mpc' # "copy"
    BY DEF Close, CloseGiveUp, CloseAllAcked, FinSend, FinFail, FinTimeout,
        FinReadable, FinWouldBlock, FinRecv, FinExhausted, Destroy, Join
<1>3. Written' = Written
    BY <1>1, <1>2 DEF Written
<1>4. CASE CloseGiveUp \/ FinFail
    <2>1. /\ mpc \in {"send", "fin", "select", "recv"} /\ mpc' = "exit"
          /\ status' # "STATUS_OK"
        BY <1>4 DEF CloseGiveUp, FinFail
    <2>2. Outcome = "open" /\ Outcome' = "failed"
        BY <2>1 DEF Outcome, CloseReturnedOK, Exited
    <2> QED
        BY <1>1, <1>3, <2>2 DEF Abstract!Next, Abstract!Fail
<1>5. ASSUME mpc \in {"fin", "recv"}, mpc' = "closed"
      PROVE  [Abstract!Next]_(Abstract!vars)
    <2>1. base = N
        BY <1>5 DEF RefInv, CoreInv, FinInv, PastAcks
    <2>2. Outcome = "open" /\ Outcome' = "ok"
        BY <1>5 DEF Outcome, CloseReturnedOK, Exited
    <2> QED
        BY <1>1, <1>3, <2>1, <2>2 DEF Abstract!Next, Abstract!Succeed
<1>6. ASSUME mpc \in {"send", "fin", "select", "recv"},
             mpc' \in {"fin", "select", "recv"}
      PROVE  [Abstract!Next]_(Abstract!vars)
    <2>1. Outcome' = Outcome
        BY <1>6 DEF Outcome, CloseReturnedOK, Exited
    <2> QED
        BY <1>1, <1>3, <2>1 DEF Abstract!vars
<1>7. CASE Destroy \/ Join
    <2>1. /\ mpc \in {"closed", "join"} /\ mpc' \in {"join", "exit"}
          /\ status' = status
        BY <1>7 DEF Destroy, Join
    <2>2. status = "STATUS_OK"
        BY <2>1 DEF RefInv, StatusInv
    <2>3. Outcome = "ok" /\ Outcome' = "ok"
        BY <2>1, <2>2 DEF Outcome, CloseReturnedOK, Exited
    <2> QED
        BY <1>1, <1>3, <2>3 DEF Abstract!vars
<1>8. ASSUME NEW m \in Acks, FinRecv(m) PROVE [Abstract!Next]_(Abstract!vars)
    <2>1. mpc = "recv" /\ mpc' \in {"closed", "fin"}
        BY <1>8 DEF FinRecv
    <2> QED
        BY <1>5, <1>6, <2>1
<1>9. CASE FinExhausted
    BY <1>5, <1>9 DEF FinExhausted
<1>10. CASE CloseAllAcked \/ FinSend \/ FinTimeout \/ FinReadable \/ FinWouldBlock
    BY <1>6, <1>10 DEF CloseAllAcked, FinSend, FinTimeout, FinReadable, FinWouldBlock
<1> QED
    BY <1>4, <1>7, <1>8, <1>9, <1>10 DEF Close

LEMMA WorkerMaps ==
    ASSUME RefInv, workerThread
    PROVE  [Abstract!Next]_(Abstract!vars)
<1>1. UNCHANGED <<mpc, status, nextSeq, rcvNext>>
    BY WorkerEffects
<1>2. Written' = Written /\ Outcome' = Outcome
    BY <1>1 DEF Written, Outcome, CloseReturnedOK, Exited
<1>3. ASSUME NEW m \in Acks, WorkerNewAck(m)
      PROVE  [Abstract!Next]_(Abstract!vars)
    <2>1. base' = m.ackSeq /\ m.ackSeq > base /\ IsIn(m, sockq) /\ ~SockClosed
        BY <1>3 DEF WorkerNewAck, Receive
    <2>2. m.ackSeq \in 0..N /\ base \in 0..N /\ rcvNext \in 0..N
        BY AckFields DEF RefInv, CoreInv, TypeInv, TypeOK
    <2>3. m.ackSeq <= rcvNext
        BY <2>1 DEF RefInv, CoreInv, AckInv
    <2>4. m.ackSeq \in (base + 1)..rcvNext
        BY <2>1, <2>2, <2>3
    <2>5. base # N
        BY <2>1, <2>2
    <2>6. Outcome = "open"
        BY <2>1, <2>5 DEF RefInv, CoreInv, FinInv, PastAcks, Outcome, SockClosed, Exited
    <2> QED
        BY <1>1, <1>2, <2>1, <2>4, <2>6 DEF Abstract!Next, Abstract!Acknowledge
<1>4. CASE UNCHANGED base
    BY <1>1, <1>2, <1>4 DEF Abstract!vars
<1> QED
    BY <1>3, <1>4 DEF workerThread, WorkerQuit, WorkerSend, WorkerWake,
        WorkerRecvFail, WorkerDupAck, WorkerOldAck, WorkerRelease, WorkerTimeout,
        WorkerGiveUp, ackVars

\* The receiver holds nothing that Send() has not begun to write.
InOrder == rcvNext <= Written

LEMMA ReceivedWritten == RefInv => InOrder
<1> SUFFICES ASSUME RefInv PROVE InOrder
    OBVIOUS
<1> USE DEF RefInv, CoreInv, InOrder
<1>1. rcvNext \in 0..N /\ Written \in Nat
    BY DEF TypeInv, TypeOK, Written
<1>2. CASE rcvNext # 0
    <2>1. rcvNext - 1 \in Seqs /\ rcvNext - 1 < rcvNext
        BY <1>1, <1>2 DEF Seqs
    <2>2. rcvNext - 1 < Written
        BY <2>1 DEF WrittenInv
    <2> QED
        BY <1>1, <2>2
<1> QED
    BY <1>1, <1>2

LEMMA EnvironmentMaps ==
    ASSUME RefInv, RefInv', Environment
    PROVE  [Abstract!Next]_(Abstract!vars)
<1>1. UNCHANGED <<mpc, status, nextSeq, base>>
    BY EnvironmentEffects
<1>2. Written' = Written /\ Outcome' = Outcome
    BY <1>1 DEF Written, Outcome, CloseReturnedOK, Exited
<1>3. rcvNext' >= rcvNext /\ rcvNext \in Nat /\ rcvNext' \in Nat /\ Written \in Nat
    <2>1. rcvNext' >= rcvNext /\ rcvNext' \in 0..N
        BY RcvStep DEF RefInv, CoreInv, Next
    <2> QED
        BY <2>1 DEF RefInv, CoreInv, TypeInv, TypeOK, Written
<1>4. rcvNext' <= Written
    <2>1. InOrder'
        BY ReceivedWritten, PTL
    <2> QED
        BY <1>2, <2>1 DEF InOrder
<1>5. CASE rcvNext' = rcvNext
    BY <1>1, <1>2, <1>5 DEF Abstract!vars
<1>6. CASE rcvNext' # rcvNext
    <2>1. rcvNext' \in (rcvNext + 1)..Written
        BY <1>3, <1>4, <1>6
    <2> QED
        BY <1>1, <1>2, <2>1 DEF Abstract!Next, Abstract!Deliver
<1> QED
    BY <1>5, <1>6

\* The sliding-window sender implements the reliable transfer: packets are
\* delivered in order, acknowledged only once delivered, and Close() reports
\* success only when all of them are acknowledged.
THEOREM Implementation == Spec => ImplementsReliableTransfer
<1>1. Init => Abstract!Init
    BY DEF Init, Abstract!Init, Written, Outcome, CloseReturnedOK, Exited
<1>2. RefInv /\ RefInv' /\ [Next]_vars => [Abstract!Next]_(Abstract!vars)
    <2> SUFFICES ASSUME RefInv, RefInv', [Next]_vars
                 PROVE  [Abstract!Next]_(Abstract!vars)
        OBVIOUS
    <2>1. CASE UNCHANGED vars
        BY <2>1 DEF vars, mainVars, ackVars, rcvVars, Abstract!vars, Written,
            Outcome, CloseReturnedOK, Exited
    <2> QED
        BY <2>1, SendMaps, CloseMaps, WorkerMaps, EnvironmentMaps DEF Next, Done
<1> QED
    BY <1>1, <1>2, RefInvCorrect, PTL DEF Spec, ImplementsReliableTransfer, Abstract!Spec
==============================================================================
