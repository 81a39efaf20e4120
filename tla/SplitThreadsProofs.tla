-------------------------- MODULE SplitThreadsProofs --------------------------
(***************************************************************************)
(* The sender with three threads, for every number of packets, every       *)
(* window and every interleaving: who reads the socket, when a timer runs, *)
(* which slots are safe, and that it implements ReliableTransfer.          *)
(***************************************************************************)
EXTENDS SplitThreads, WellFoundedInduction, TLAPS

USE SplitAssumption

------------------------------------------------------------------------------
(* The bags of datagrams.                                                     *)

\* sendto() leaves a bag of datagrams, whether or not the cap drops m.
LEMMA PutType ==
    ASSUME NEW S, NEW q \in [S -> Nat], NEW m, NEW cap
    PROVE  Put(q, m, cap) \in [S -> Nat]
<1>1. ASSUME NEW x \in S
      PROVE  [q EXCEPT ![m] = @ + 1][x] \in Nat
  <2>1. CASE x = m
    BY <2>1
  <2>2. CASE x # m
    BY <2>2
  <2> QED
    BY <2>1, <2>2
<1>2. [q EXCEPT ![m] = @ + 1] \in [S -> Nat]
  BY <1>1
<1> QED
  BY <1>2 DEF Put

\* recvfrom(), or a loss, leaves a bag of datagrams.
LEMMA TakeType ==
    ASSUME NEW S, NEW q \in [S -> Nat], NEW m \in S, IsIn(m, q)
    PROVE  Take(q, m) \in [S -> Nat]
BY DEF Take, IsIn

\* Nothing but m can be new in the bag after sendto().
LEMMA PutMembers ==
    ASSUME NEW S, NEW q \in [S -> Nat], NEW m, NEW cap, NEW x \in S,
           IsIn(x, Put(q, m, cap))
    PROVE  x = m \/ IsIn(x, q)
BY DEF Put, IsIn

\* Nothing is new in the bag after recvfrom() or a loss.
LEMMA TakeMembers ==
    ASSUME NEW S, NEW q \in [S -> Nat], NEW m \in S, NEW x \in S,
           IsIn(x, Take(q, m))
    PROVE  IsIn(x, q)
BY DEF Take, IsIn

------------------------------------------------------------------------------
(* Slots.  Two packets less than the size of the ring apart never share one.  *)

LEMMA AddLess ==
    ASSUME NEW a \in Nat, NEW b \in Nat, NEW c \in Nat, b > a
    PROVE  a + c < b + c
OBVIOUS

LEMMA NoMultipleBelow ==
    ASSUME NEW w \in Nat \ {0}, NEW k \in Int, 0 < w * k
    PROVE  w <= w * k
<1>1. CASE k <= 0
  <2>1. w * k <= 0
    BY <1>1
  <2> QED
    BY <2>1
<1>2. CASE k >= 1
  <2>1. w * (k - 1) >= 0
    BY <1>2
  <2> QED
    BY <2>1
<1> QED
  BY <1>1, <1>2

LEMMA DivMod ==
    ASSUME NEW w \in Nat \ {0}, NEW a \in Nat
    PROVE  a = w * (a \div w) + (a % w) /\ (a \div w) \in Int /\ (a % w) \in Int
OBVIOUS

LEMMA SlotsDiffer ==
    ASSUME NEW w \in Nat \ {0}, NEW a \in Nat, NEW b \in Nat, a < b, b < a + w
    PROVE  (a % w) # (b % w)
<1> SUFFICES ASSUME (a % w) = (b % w) PROVE FALSE
  OBVIOUS
<1> DEFINE p == a \div w
<1> DEFINE q == b \div w
<1> DEFINE r == a % w
<1>1. a = w * p + r /\ p \in Int /\ r \in Int
  BY DivMod
<1>2. b = w * q + r /\ q \in Int
  BY DivMod
<1> HIDE DEF p, q, r
<1>3. b - a = w * (q - p)
  BY <1>1, <1>2
<1>4. 0 < w * (q - p) /\ w * (q - p) < w
  <2>1. 0 < b - a /\ b - a < w
    OBVIOUS
  <2> QED
    BY <1>3, <2>1
<1>5. q - p \in Int /\ w * (q - p) \in Int
  BY <1>1, <1>2
<1>6. w <= w * (q - p)
  BY <1>4, <1>5, NoMultipleBelow
<1> QED
  BY <1>4, <1>5, <1>6

------------------------------------------------------------------------------
(* Arithmetic of windows and counts.                                          *)

LEMMA SlotIndex == ASSUME NEW s \in Nat PROVE s % W \in 0..(W - 1)
OBVIOUS

\* Send() puts a packet on the semaphore full, SendThread() takes one off: neither
\* changes the sum.
LEMMA HandOver ==
    ASSUME NEW a \in Nat, NEW b \in Nat, NEW c \in Nat, NEW d \in Nat, NEW e \in Nat,
           a + b + c <= d, e <= b + 1
    PROVE  a + e + (c - 1) <= d
OBVIOUS

LEMMA TakeOver ==
    ASSUME NEW a \in Nat, NEW b \in Nat, NEW c \in Nat, NEW d \in Nat, NEW e \in Nat,
           a + b + c <= d, e <= c + 1
    PROVE  a + (b - 1) + e <= d
OBVIOUS

LEMMA WindowBounds == effectiveWindow \in 1..W
BY DEF effectiveWindow, min

------------------------------------------------------------------------------
(* The receiver's next expected number.                                       *)

LEMMA LeastNumber ==
    ASSUME NEW T \in SUBSET Nat, T # {}
    PROVE  \E n \in T : \A k \in T : n <= k
<1>1. PICK n \in T : \A k \in T : ~(<<k, n>> \in OpToRel(<, Nat))
  BY WFMin, NatLessThanWellFounded
<1>2. \A k \in T : ~(k < n)
  BY <1>1 DEF OpToRel
<1> QED
  BY <1>2

Stored == [Seqs -> Seqs \cup {Uninit, Nothing}]

\* The choice in Contiguous exists: it is the first gap, or N.
LEMMA ContiguousIs ==
    ASSUME NEW g \in Stored
    PROVE  /\ Contiguous(g) \in 0..N
           /\ \A s \in 0..(Contiguous(g) - 1) : g[s] # Nothing
           /\ Contiguous(g) < N => g[Contiguous(g)] = Nothing
<1> DEFINE Good(n) == /\ \A s \in 0..(n - 1) : g[s] # Nothing
                      /\ n < N => g[n] = Nothing
           T == {s \in Seqs : g[s] = Nothing}
<1>1. \E n \in 0..N : Good(n)
  <2>1. CASE T = {}
    <3>1. Good(N)
      BY <2>1 DEF Seqs
    <3> QED
      BY <3>1
  <2>2. CASE T # {}
    <3>1. T \in SUBSET Nat
      BY DEF Seqs
    <3>2. PICK n \in T : \A k \in T : n <= k
      BY <2>2, <3>1, LeastNumber
    <3>3. n \in 0..N /\ n \in Seqs /\ g[n] = Nothing
      BY DEF Seqs
    <3>4. ASSUME NEW s \in 0..(n - 1) PROVE g[s] # Nothing
      <4>1. s \in Seqs /\ ~(n <= s)
        BY <3>3 DEF Seqs
      <4> QED
        BY <3>2, <4>1
    <3> QED
      BY <3>3, <3>4
  <2> QED
    BY <2>1, <2>2
<1>2. Contiguous(g) = CHOOSE n \in 0..N : Good(n)
  BY DEF Contiguous
<1>3. Contiguous(g) \in 0..N /\ Good(Contiguous(g))
  BY <1>1, <1>2
<1> QED
  BY <1>3

\* It does not go back when more is stored.
LEMMA ContiguousGrows ==
    ASSUME NEW g \in Stored, NEW h \in Stored,
           \A s \in Seqs : g[s] # Nothing => h[s] # Nothing
    PROVE  Contiguous(h) >= Contiguous(g)
<1> DEFINE n == Contiguous(g)
           k == Contiguous(h)
<1>1. n \in 0..N /\ k \in 0..N
  BY ContiguousIs
<1>2. \A s \in 0..(n - 1) : g[s] # Nothing
  BY ContiguousIs
<1>3. k < N => h[k] = Nothing
  BY ContiguousIs
<1> HIDE DEF n, k
<1>4. ASSUME k < n PROVE FALSE
  <2>1. k \in 0..(n - 1) /\ k \in Seqs /\ k < N
    BY <1>1, <1>4 DEF Seqs
  <2> QED
    BY <1>2, <1>3, <2>1
<1>5. k >= n
  BY <1>1, <1>4
<1> QED
  BY <1>5 DEF n, k

------------------------------------------------------------------------------
(* Type correctness.  nextToSend stays below N because a packet is counted as *)
(* sent only after Send() has queued it.                                      *)

PcInv ==
    /\ mpc \in {"header", "copy"} => nextSeq < N
    /\ mpc = "wait" => currAttempt < MAX_ATTEMPTS

\* Packets in the hands of Send() and SendThread(), between the slots and the count.
Handed == (IF mpc = "queue" THEN 1 ELSE 0) + (IF spc = "sent" THEN 1 ELSE 0)

CountInv == nextToSend + full + Handed <= nextSeq

TypeInv == TypeOK /\ PcInv /\ CountInv

LEMMA InitType == Init => TypeInv
<1> SUFFICES ASSUME Init PROVE TypeInv
  OBVIOUS
<1>1. sockq \in [Acks -> Nat] /\ sockReady \in BOOLEAN
  <2>1. PICK late \in 0..(SYN_MAX_ATTEMPTS - 1) :
          /\ sockq = [NoDatagrams(Acks) EXCEPT ![[fin |-> FALSE, ackSeq |-> 0]] = late]
          /\ sockReady = (late > 0)
    BY DEF Init
  <2>2. late \in Nat
    BY DEF SYN_MAX_ATTEMPTS
  <2>3. NoDatagrams(Acks) \in [Acks -> Nat]
    BY DEF NoDatagrams
  <2>4. sockq \in [Acks -> Nat]
    BY <2>1, <2>2, <2>3
  <2>5. sockReady \in BOOLEAN
    BY <2>1
  <2> QED
    BY <2>4, <2>5
<1>2. net \in [DataPkts \cup FinPkts -> Nat]
  BY DEF Init, NoDatagrams
<1>3. pendingPackets \in [0..(W - 1) -> Packets]
  BY DEF Init, Packets
<1>4. got \in [Seqs -> Seqs \cup {Uninit, Nothing}]
  BY DEF Init
<1>5. /\ mpc = "send" /\ status = "STATUS_OK" /\ currAttempt = 0
      /\ spc = "top" /\ sIndex = 0 /\ sRetx = 0 /\ rpc = "wait" /\ rRetx = 0
      /\ base = 0 /\ nextSeq = 0 /\ nextToSend = 0 /\ retxForBase = 0 /\ dupACK = 0
      /\ full = 0 /\ lastReleased = effectiveWindow /\ empty = effectiveWindow
  BY DEF Init
<1>6. eventQuit \in BOOLEAN
  BY Zenon DEF Init
<1>7. lastReleased \in Nat /\ empty \in 0..W
  BY <1>5, WindowBounds
<1>8. TypeOK
  BY <1>1, <1>2, <1>3, <1>4, <1>5, <1>6, <1>7 DEF TypeOK
<1>9. PcInv /\ CountInv
  BY <1>5 DEF PcInv, CountInv, Handed
<1> QED
  BY <1>8, <1>9 DEF TypeInv

\* The parts of TypeOK, for the threads that leave them alone.
MainType ==
    /\ mpc \in {"send", "header", "copy", "queue", "stop", "fin", "wait",
                "closed", "join", "exit"}
    /\ status \in {"STATUS_OK", "TIMEOUT", "FAILED_SEND", "FAILED_RECV"}
    /\ currAttempt \in 0..MAX_ATTEMPTS
    /\ nextSeq \in 0..N /\ pendingPackets \in [0..(W - 1) -> Packets]
SendType ==
    /\ spc \in {"top", "idle", "timed", "sent", "index", "read", "write",
                "limit", "resend", "done"}
    /\ sIndex \in 0..(W - 1) /\ sRetx \in Nat /\ nextToSend \in 0..N
RecvType ==
    /\ rpc \in {"wait", "recv", "release", "dup", "done"} /\ rRetx \in Nat
    /\ base \in 0..N /\ lastReleased \in Nat /\ dupACK \in 0..4
SharedType ==
    /\ retxForBase \in Nat /\ empty \in 0..W /\ full \in 0..W
    /\ eventQuit \in BOOLEAN /\ sockReady \in BOOLEAN
    /\ net \in [DataPkts \cup FinPkts -> Nat]
    /\ sockq \in [Acks -> Nat]
    /\ got \in Stored

LEMMA TypeParts == TypeOK <=> MainType /\ SendType /\ RecvType /\ SharedType
BY DEF TypeOK, MainType, SendType, RecvType, SharedType, Stored

\* A transmission keeps the bag of datagrams.
LEMMA TransmitType ==
    ASSUME TypeOK, NEW p, Transmit(p)
    PROVE  net' \in [DataPkts \cup FinPkts -> Nat]
BY PutType DEF TypeOK, Transmit

LEMMA ReceiveType ==
    ASSUME TypeOK, NEW m \in Acks, Receive(m)
    PROVE  sockq' \in [Acks -> Nat] /\ sockReady' \in BOOLEAN
<1>1. sockq' \in [Acks -> Nat]
  BY TakeType DEF TypeOK, Receive
<1>2. sockReady' \in BOOLEAN
  BY DEF Receive, AnyIn
<1> QED
  BY <1>1, <1>2

LEMMA ReplyType ==
    ASSUME TypeOK, NEW a, Reply(a)
    PROVE  sockq' \in [Acks -> Nat] /\ sockReady' \in BOOLEAN
<1> sockq \in [Acks -> Nat] /\ sockReady \in BOOLEAN
  BY DEF TypeOK
<1>1. sockq' \in [Acks -> Nat]
  BY PutType DEF Reply, sockVars
<1>2. sockReady' \in BOOLEAN
  BY DEF Reply, sockVars
<1> QED
  BY <1>1, <1>2

------------------------------------------------------------------------------
(* What each thread leaves alone.                                             *)

LEMMA SendEffects ==
    Send => UNCHANGED <<currAttempt, spc, sIndex, sRetx, rpc, rRetx, base,
                        lastReleased, dupACK, nextToSend, retxForBase, eventQuit,
                        sockReady, sockq, net, got>>
BY DEF Send, SendQuit, SendAcquire, SendHeader, SendCopy, SendQueue, callUnchanged,
       sendVars, recvVars, ackVars, sockVars

LEMMA CloseEffects ==
    Close => UNCHANGED <<spc, sIndex, sRetx, rpc, rRetx, nextSeq, pendingPackets, base,
                         lastReleased, dupACK, nextToSend, retxForBase, empty, full,
                         got>>
BY DEF Close, CloseGiveUp, CloseStopRecv, CloseReset, FinSend, FinFail, FinQuit,
       FinTimeout, FinRecv, FinExhausted, Destroy, Join, closeUnchanged, sendVars,
       recvVars, slotVars, ackVars

LEMMA SendThreadEffects ==
    SendThread => UNCHANGED <<mpc, status, currAttempt, rpc, rRetx, nextSeq,
                              pendingPackets, base, lastReleased, dupACK, empty,
                              sockReady, sockq, got>>
BY DEF SendThread, STop, SQuit, SFull, SAdvance, STimeout, SIndex, SRead, SWrite,
       SLimit, SResend, sendUnchanged, localUnchanged, mainVars, recvVars, slotVars,
       ackVars, sockVars

LEMMA RecvThreadEffects ==
    RecvThread => UNCHANGED <<mpc, status, currAttempt, spc, sIndex, sRetx, nextSeq,
                              pendingPackets, nextToSend, full, got>>
BY DEF RecvThread, RQuit, RWake, RFail, RNewAck, RRelease, RDupAck, RFastRetx, ROldAck,
       recvUnchanged, countersUnchanged, mainVars, sendVars, slotVars

LEMMA EnvironmentEffects ==
    Environment => UNCHANGED <<mpc, status, currAttempt, spc, sIndex, sRetx, rpc, rRetx,
                               nextSeq, pendingPackets, base, lastReleased, dupACK,
                               nextToSend, retxForBase, empty, full, eventQuit>>
BY DEF Environment, RcvData, RcvFin, Lose, senderUnchanged, mainVars, sendVars,
       recvVars, slotVars, ackVars

------------------------------------------------------------------------------
(* Each thread keeps the types.                                               *)

LEMMA SendTypeStep == TypeInv /\ Send => TypeInv'
<1> SUFFICES ASSUME TypeInv, Send PROVE TypeInv'
  OBVIOUS
<1>1. MainType /\ SendType /\ RecvType /\ SharedType /\ PcInv /\ CountInv
  BY TypeParts DEF TypeInv
<1>2. UNCHANGED <<currAttempt, spc, sIndex, sRetx, rpc, rRetx, base,
                  lastReleased, dupACK, nextToSend, retxForBase, eventQuit,
                  sockReady, sockq, net, got>>
  BY SendEffects
<1>3. SendType' /\ RecvType'
  BY <1>1, <1>2 DEF SendType, RecvType
<1>4. /\ nextSeq \in 0..N /\ nextToSend \in 0..N /\ full \in 0..W /\ empty \in 0..W
      /\ pendingPackets \in [0..(W - 1) -> Packets]
  BY <1>1 DEF MainType, SendType, SharedType
<1>5. CASE SendQuit
  <2>1. mpc = "send" /\ mpc' = "exit" /\ status' = "TIMEOUT"
        /\ UNCHANGED <<nextSeq, pendingPackets, empty, full>>
    BY <1>5 DEF SendQuit, slotVars
  <2>2. TypeOK'
    BY <1>1, <1>2, <1>3, <2>1, TypeParts DEF MainType, SharedType, TypeOK, Stored,
                      SendType, RecvType
  <2> QED
    BY <1>1, <1>2, <2>1, <2>2 DEF TypeInv, PcInv, CountInv, Handed
<1>6. CASE SendAcquire
  <2>1. mpc = "send" /\ mpc' = "header" /\ nextSeq < N /\ empty' = empty - 1 /\ empty > 0
        /\ UNCHANGED <<status, nextSeq, pendingPackets, full>>
    BY <1>6 DEF SendAcquire, slotVars
  <2>2. empty' \in 0..W
    BY <1>4, <2>1
  <2>3. TypeOK'
    BY <1>1, <1>2, <1>3, <2>1, <2>2 DEF MainType, SharedType, TypeOK, Stored,
                      SendType, RecvType
  <2> QED
    BY <1>1, <1>2, <2>1, <2>3 DEF TypeInv, PcInv, CountInv, Handed
<1>7. CASE SendHeader
  <2>1. mpc = "header" /\ mpc' = "copy"
        /\ pendingPackets' = [pendingPackets EXCEPT ![nextSeq % W].seq = nextSeq]
        /\ UNCHANGED <<status, nextSeq, empty, full>>
    BY <1>7 DEF SendHeader
  <2>2. nextSeq \in Nat /\ nextSeq \in Seqs /\ nextSeq < N
    BY <1>1, <1>4, <2>1 DEF PcInv, Seqs
  <2>3. nextSeq % W \in 0..(W - 1)
    BY <2>2, SlotIndex
  <2>4. pendingPackets' \in [0..(W - 1) -> Packets]
    BY <1>4, <2>1, <2>2, <2>3 DEF Packets
  <2>5. TypeOK'
    BY <1>1, <1>2, <1>3, <2>1, <2>4 DEF MainType, SharedType, TypeOK, Stored,
                      SendType, RecvType
  <2> QED
    BY <1>1, <1>2, <2>1, <2>2, <2>5 DEF TypeInv, PcInv, CountInv, Handed
<1>8. CASE SendCopy
  <2>1. mpc = "copy" /\ mpc' = "queue"
        /\ pendingPackets' = [pendingPackets EXCEPT ![nextSeq % W].data = nextSeq]
        /\ nextSeq' = nextSeq + 1
        /\ UNCHANGED <<status, empty, full>>
    BY <1>8 DEF SendCopy
  <2>2. nextSeq \in Nat /\ nextSeq \in Seqs /\ nextSeq' \in 0..N
    BY <1>1, <1>4, <2>1 DEF PcInv, Seqs
  <2>3. nextSeq % W \in 0..(W - 1)
    BY <2>2, SlotIndex
  <2>4. pendingPackets' \in [0..(W - 1) -> Packets]
    BY <1>4, <2>1, <2>2, <2>3 DEF Packets
  <2>5. TypeOK'
    BY <1>1, <1>2, <1>3, <2>1, <2>2, <2>4 DEF MainType, SharedType, TypeOK, Stored,
                      SendType, RecvType
  <2>6. CountInv'
    <3>1. Handed' = Handed + 1 /\ Handed \in Nat
      BY <1>2, <2>1 DEF Handed
    <3> QED
      BY <1>1, <1>2, <1>4, <2>1, <3>1 DEF CountInv
  <2> QED
    BY <2>1, <2>5, <2>6 DEF TypeInv, PcInv
<1>9. CASE SendQueue
  <2>1. mpc = "queue" /\ mpc' = "send" /\ full' \in {full, full + 1}
        /\ (full' = full + 1 => full < W)
        /\ UNCHANGED <<status, nextSeq, pendingPackets, empty>>
    BY <1>9 DEF SendQueue, slotVars
  <2>2. full' \in 0..W
    BY <1>4, <2>1
  <2>3. TypeOK'
    BY <1>1, <1>2, <1>3, <2>1, <2>2 DEF MainType, SharedType, TypeOK, Stored,
                      SendType, RecvType
  <2>4. CountInv'
    <3>1. Handed' = Handed - 1 /\ Handed \in Nat
      BY <1>2, <2>1 DEF Handed
    <3>2. nextToSend + full + Handed <= nextSeq
      BY <1>1 DEF CountInv
    <3>3. full' <= full + 1 /\ full' \in Nat /\ full \in Nat /\ nextSeq \in Nat
          /\ nextToSend \in Nat
      BY <1>4, <2>1, <2>2
    <3>4. nextToSend + full' + (Handed - 1) <= nextSeq
      BY <3>1, <3>2, <3>3, HandOver
    <3> QED
      BY <1>2, <2>1, <3>1, <3>4 DEF CountInv
  <2> QED
    BY <2>1, <2>3, <2>4 DEF TypeInv, PcInv
<1> QED
  BY <1>5, <1>6, <1>7, <1>8, <1>9 DEF Send

LEMMA CloseTypeStep == TypeInv /\ Close => TypeInv'
<1> SUFFICES ASSUME TypeInv, Close PROVE TypeInv'
  OBVIOUS
<1>1. MainType /\ SendType /\ RecvType /\ SharedType /\ PcInv /\ CountInv /\ TypeOK
  BY TypeParts DEF TypeInv
<1>2. UNCHANGED <<spc, sIndex, sRetx, rpc, rRetx, nextSeq, pendingPackets, base,
                  lastReleased, dupACK, nextToSend, retxForBase, empty, full, got>>
  BY CloseEffects
<1>3. SendType' /\ RecvType'
  BY <1>1, <1>2 DEF SendType, RecvType
<1>4. CountInv'
  <2>1. mpc # "queue" /\ mpc' # "queue"
    BY DEF Close, CloseGiveUp, CloseStopRecv, CloseReset, FinSend, FinFail, FinQuit,
           FinTimeout, FinRecv, FinExhausted, Destroy, Join
  <2> QED
    BY <1>1, <1>2, <2>1 DEF CountInv, Handed
<1>5. currAttempt' \in 0..MAX_ATTEMPTS /\ PcInv'
  <2>1. currAttempt \in 0..MAX_ATTEMPTS
    BY <1>1 DEF MainType
  <2>2. CASE FinTimeout
    <3>1. mpc = "wait" /\ currAttempt' = currAttempt + 1 /\ mpc' = "fin"
      BY <2>2 DEF FinTimeout
    <3> QED
      BY <1>1, <2>1, <3>1 DEF PcInv
  <2>3. CASE FinSend
    <3>1. mpc' = "wait" /\ currAttempt' = currAttempt /\ currAttempt < MAX_ATTEMPTS
      BY <2>3 DEF FinSend, FinAttemptsLeft
    <3> QED
      BY <2>1, <3>1 DEF PcInv
  <2>4. CASE ~FinTimeout /\ ~FinSend
    <3>1. /\ mpc' \in {"exit", "stop", "fin", "closed", "join"}
          /\ currAttempt' = currAttempt
      BY <2>4 DEF Close, CloseGiveUp, CloseStopRecv, CloseReset, FinFail, FinQuit,
                  FinRecv, FinExhausted, Destroy, Join
    <3> QED
      BY <2>1, <3>1 DEF PcInv
  <2> QED
    BY <2>2, <2>3, <2>4
<1>6. /\ mpc' \in {"exit", "stop", "fin", "wait", "closed", "join"}
      /\ status' \in {status, "TIMEOUT", "FAILED_SEND", "FAILED_RECV"}
  BY DEF Close, CloseGiveUp, CloseStopRecv, CloseReset, FinSend, FinFail, FinQuit,
         FinTimeout, FinRecv, FinExhausted, Destroy, Join
<1>7. MainType'
  BY <1>1, <1>2, <1>5, <1>6 DEF MainType
<1>8. net' \in [DataPkts \cup FinPkts -> Nat]
  <2>1. net \in [DataPkts \cup FinPkts -> Nat]
    BY <1>1 DEF SharedType
  <2>2. CASE FinSend
    BY <2>1, <2>2, PutType DEF FinSend
  <2>3. CASE ~FinSend
    BY <2>1, <2>3 DEF Close, CloseGiveUp, CloseStopRecv, CloseReset, FinFail, FinQuit,
           FinTimeout, FinRecv, FinExhausted, Destroy, Join
  <2> QED
    BY <2>2, <2>3
<1>9. sockq' \in [Acks -> Nat] /\ sockReady' \in BOOLEAN
  <2>1. sockq \in [Acks -> Nat] /\ sockReady \in BOOLEAN
    BY <1>1 DEF SharedType
  <2>2. CASE FinRecv
    <3>1. CASE AnyIn(sockq)
      <4>1. PICK m \in Acks : Receive(m)
        BY <2>2, <3>1 DEF FinRecv
      <4> QED
        BY <1>1, <4>1, ReceiveType
    <3>2. CASE ~AnyIn(sockq)
      <4>1. sockReady' = FALSE /\ sockq' = sockq
        BY <2>2, <3>2 DEF FinRecv
      <4> QED
        BY <2>1, <4>1
    <3> QED
      BY <3>1, <3>2
  <2>3. CASE ~FinRecv
    BY <2>1, <2>3 DEF Close, CloseGiveUp, CloseStopRecv, CloseReset, FinSend, FinFail,
           FinQuit, FinTimeout, FinExhausted, Destroy, Join, sockVars
  <2> QED
    BY <2>2, <2>3
<1>10. eventQuit' \in BOOLEAN
  <2>1. eventQuit \in BOOLEAN
    BY <1>1 DEF SharedType
  <2>2. eventQuit' = TRUE \/ eventQuit' = FALSE \/ eventQuit' = eventQuit
    BY Zenon DEF Close, CloseGiveUp, CloseStopRecv, CloseReset, FinSend, FinFail,
           FinQuit, FinTimeout, FinRecv, FinExhausted, Destroy, Join
  <2> QED
    BY <2>1, <2>2
<1>11. SharedType'
  BY <1>1, <1>2, <1>8, <1>9, <1>10 DEF SharedType
<1>12. TypeOK'
  BY <1>3, <1>7, <1>11 DEF TypeOK, MainType, SendType, RecvType, SharedType, Stored
<1> QED
  BY <1>4, <1>5, <1>12 DEF TypeInv

LEMMA SendThreadTypeStep == TypeInv /\ SendThread => TypeInv'
<1> SUFFICES ASSUME TypeInv, SendThread PROVE TypeInv'
  OBVIOUS
<1>1. MainType /\ SendType /\ RecvType /\ SharedType /\ PcInv /\ CountInv /\ TypeOK
  BY TypeParts DEF TypeInv
<1>2. UNCHANGED <<mpc, status, currAttempt, rpc, rRetx, nextSeq, pendingPackets, base,
                  lastReleased, dupACK, empty, sockReady, sockq, got>>
  BY SendThreadEffects
<1>3. MainType' /\ RecvType' /\ PcInv'
  BY <1>1, <1>2 DEF MainType, RecvType, PcInv
<1>4. /\ nextSeq \in 0..N /\ nextToSend \in 0..N /\ full \in 0..W /\ base \in Nat
      /\ sIndex \in 0..(W - 1) /\ sRetx \in Nat /\ retxForBase \in Nat
  BY <1>1 DEF MainType, SendType, SharedType, RecvType
<1>5. net' \in [DataPkts \cup FinPkts -> Nat]
  <2>1. CASE \E p : Transmit(p)
    BY <1>1, <2>1, TransmitType
  <2>2. CASE UNCHANGED net
    BY <1>1, <2>2 DEF SharedType
  <2> QED
    BY <2>1, <2>2 DEF SendThread, STop, SQuit, SFull, SAdvance, STimeout, SIndex, SRead,
           SWrite, SLimit, SResend, localUnchanged
<1>6. eventQuit' \in BOOLEAN
  <2>1. eventQuit \in BOOLEAN
    BY <1>1 DEF SharedType
  <2>2. eventQuit' = TRUE \/ eventQuit' = (eventQuit \/ ~RetxLeft)
        \/ eventQuit' = eventQuit
    BY Zenon DEF SendThread, STop, SQuit, SFull, SAdvance, STimeout, SIndex, SRead,
           SWrite, SLimit, SResend, localUnchanged
  <2>3. (eventQuit \/ ~RetxLeft) \in BOOLEAN
    OBVIOUS
  <2> QED
    BY <2>1, <2>2, <2>3
<1>7. CountInv /\ (mpc = "queue" => mpc' = "queue") /\ (mpc' = "queue" => mpc = "queue")
  BY <1>1, <1>2
<1>8. CASE SFull
  <2>1. full > 0 /\ full' = full - 1 /\ spc # "sent" /\ spc' \in {"sent", "done"}
        /\ UNCHANGED <<sIndex, sRetx, nextToSend, retxForBase>>
    BY <1>8 DEF SFull, SWaiting
  <2>2. full' \in 0..W
    BY <1>4, <2>1
  <2>3. Handed' \in {Handed, Handed + 1} /\ Handed \in Nat
    BY <1>2, <2>1 DEF Handed
  <2>4. nextToSend + full + Handed <= nextSeq
    BY <1>1 DEF CountInv
  <2>5. nextToSend' + full' + Handed' <= nextSeq'
    <3>1. /\ full \in Nat /\ nextToSend \in Nat /\ nextSeq \in Nat
          /\ Handed' \in Nat /\ Handed' <= Handed + 1
      BY <1>4, <2>3
    <3>2. nextToSend + (full - 1) + Handed' <= nextSeq
      BY <2>3, <2>4, <3>1, TakeOver
    <3> QED
      BY <1>2, <2>1, <3>2
  <2>6. SendType' /\ SharedType'
    BY <1>1, <1>2, <1>5, <1>6, <2>1, <2>2 DEF SendType, SharedType
  <2> QED
    BY <1>3, <2>5, <2>6 DEF TypeInv, CountInv, TypeOK, MainType, SendType, RecvType,
           SharedType, Stored
<1>9. CASE SAdvance
  <2>1. /\ spc = "sent" /\ spc' = "top" /\ nextToSend' = nextToSend + 1
        /\ UNCHANGED <<sIndex, sRetx, retxForBase, full>>
    BY <1>9 DEF SAdvance
  <2>2. Handed' = Handed - 1 /\ Handed \in Nat /\ Handed >= 1
    BY <1>2, <2>1 DEF Handed
  <2>3. nextToSend + full + Handed <= nextSeq
    BY <1>1 DEF CountInv
  <2>4. nextToSend + 1 <= N /\ nextToSend + 1 + full + (Handed - 1) <= nextSeq
    BY <1>4, <2>2, <2>3
  <2>5. nextToSend' \in 0..N
    BY <1>4, <2>1, <2>4
  <2>6. nextToSend' + full' + Handed' <= nextSeq'
    BY <1>2, <2>1, <2>2, <2>4
  <2>7. SendType' /\ SharedType'
    BY <1>1, <1>2, <1>5, <1>6, <2>1, <2>5 DEF SendType, SharedType
  <2> QED
    BY <1>3, <2>6, <2>7 DEF TypeInv, CountInv, TypeOK, MainType, SendType, RecvType,
           SharedType, Stored
<1>10. CASE ~SFull /\ ~SAdvance
  <2>1. UNCHANGED <<nextToSend, full>>
    BY <1>10 DEF SendThread, STop, SQuit, STimeout, SIndex, SRead, SWrite, SLimit,
           SResend, localUnchanged
  <2>2. /\ spc # "sent"
        /\ spc' \in {"top", "idle", "timed", "index", "read", "write", "limit",
                     "resend", "done"}
    BY <1>10 DEF SendThread, STop, SQuit, STimeout, SIndex, SRead, SWrite, SLimit,
           SResend, SWaiting, WaitMode
  <2>3. base % W \in 0..(W - 1)
    BY <1>4, SlotIndex
  <2>4. sIndex' \in {sIndex, base % W, 0}
    BY <1>10 DEF SendThread, STop, SQuit, STimeout, SIndex, SRead, SWrite, SLimit,
           SResend, localUnchanged
  <2>5. sIndex' \in 0..(W - 1)
    BY <1>4, <2>3, <2>4
  <2>6. sRetx' \in {sRetx, retxForBase, 0} /\ retxForBase' \in {retxForBase, sRetx + 1}
    BY <1>10 DEF SendThread, STop, SQuit, STimeout, SIndex, SRead, SWrite, SLimit,
           SResend, localUnchanged
  <2>7. sRetx' \in Nat /\ retxForBase' \in Nat
    BY <1>4, <2>6
  <2>8. SendType' /\ SharedType'
    BY <1>1, <1>2, <1>5, <1>6, <2>1, <2>2, <2>5, <2>7 DEF SendType, SharedType
  <2>9. CountInv'
    BY <1>1, <1>2, <2>1, <2>2 DEF CountInv, Handed
  <2> QED
    BY <1>3, <2>8, <2>9 DEF TypeInv, TypeOK, MainType, SendType, RecvType, SharedType,
           Stored
<1> QED
  BY <1>8, <1>9, <1>10

LEMMA RecvThreadTypeStep == TypeInv /\ RecvThread => TypeInv'
<1> SUFFICES ASSUME TypeInv, RecvThread PROVE TypeInv'
  OBVIOUS
<1>1. MainType /\ SendType /\ RecvType /\ SharedType /\ PcInv /\ CountInv /\ TypeOK
  BY TypeParts DEF TypeInv
<1>2. UNCHANGED <<mpc, status, currAttempt, spc, sIndex, sRetx, nextSeq,
                  pendingPackets, nextToSend, full, got>>
  BY RecvThreadEffects
<1>3. MainType' /\ SendType' /\ PcInv'
  BY <1>1, <1>2 DEF MainType, SendType, PcInv
<1>4. CountInv'
  BY <1>1, <1>2 DEF CountInv, Handed
<1>5. /\ base \in 0..N /\ lastReleased \in Nat /\ dupACK \in 0..4 /\ rRetx \in Nat
      /\ retxForBase \in Nat /\ empty \in 0..W
      /\ net \in [DataPkts \cup FinPkts -> Nat]
      /\ sockq \in [Acks -> Nat] /\ sockReady \in BOOLEAN /\ eventQuit \in BOOLEAN
  BY <1>1 DEF RecvType, SharedType
<1>6. eventQuit' \in BOOLEAN
  <2>1. eventQuit' = TRUE \/ eventQuit' = eventQuit
    BY Zenon DEF RecvThread, RQuit, RWake, RFail, RNewAck, RRelease, RDupAck, RFastRetx,
           ROldAck
  <2> QED
    BY <1>5, <2>1
<1>7. sockq' \in [Acks -> Nat] /\ sockReady' \in BOOLEAN
  <2>1. CASE \E m \in Acks : Receive(m)
    BY <1>1, <2>1, ReceiveType
  <2>2. CASE sockq' = sockq /\ (sockReady' = sockReady \/ sockReady' = FALSE)
    BY <1>5, <2>2
  <2> QED
    BY <2>1, <2>2 DEF RecvThread, RQuit, RWake, RFail, RNewAck, RRelease, RDupAck,
           RFastRetx, ROldAck, sockVars
<1>8. net' \in [DataPkts \cup FinPkts -> Nat]
  <2>1. CASE \E p : Transmit(p)
    BY <1>1, <2>1, TransmitType
  <2>2. CASE UNCHANGED net
    BY <1>5, <2>2
  <2> QED
    BY <2>1, <2>2 DEF RecvThread, RQuit, RWake, RFail, RNewAck, RRelease, RDupAck,
           RFastRetx, ROldAck, countersUnchanged
<1>9. rpc' \in {"wait", "recv", "release", "dup", "done"}
  BY DEF RecvThread, RQuit, RWake, RFail, RNewAck, RRelease, RDupAck, RFastRetx, ROldAck
<1>10. rRetx' \in Nat /\ retxForBase' \in Nat
  <2>1. rRetx' \in {rRetx, retxForBase, 0} /\ retxForBase' \in {retxForBase, rRetx + 1, 0}
    BY DEF RecvThread, RQuit, RWake, RFail, RNewAck, RRelease, RDupAck, RFastRetx,
           ROldAck, countersUnchanged
  <2> QED
    BY <1>5, <2>1
<1>11. base' \in 0..N /\ dupACK' \in 0..4
  <2>1. \/ base' = base
        \/ \E m \in Acks : base' = m.ackSeq
    BY DEF RecvThread, RQuit, RWake, RFail, RNewAck, RRelease, RDupAck, RFastRetx,
           ROldAck, countersUnchanged, ackVars
  <2>2. dupACK' \in {dupACK, 0, min(dupACK + 1, 4)}
    BY DEF RecvThread, RQuit, RWake, RFail, RNewAck, RRelease, RDupAck, RFastRetx,
           ROldAck, countersUnchanged, ackVars
  <2>3. min(dupACK + 1, 4) \in 0..4
    BY <1>5 DEF min
  <2>4. \A m \in Acks : m.ackSeq \in 0..N
    BY DEF Acks
  <2> QED
    BY <1>5, <2>1, <2>2, <2>3, <2>4
<1>12. lastReleased' \in Nat /\ empty' \in 0..W
  <2>1. CASE RRelease
    <3>1. effectiveWindow \in Nat
      BY WindowBounds
    <3>2. lastReleased' = lastReleased + (base + effectiveWindow - lastReleased)
      BY <2>1 DEF RRelease, slotsToRelease
    <3>3. lastReleased' = base + effectiveWindow
      BY <1>5, <3>1, <3>2
    <3>4. slotsToRelease \in Int
      BY <1>5, <3>1 DEF slotsToRelease
    <3>5. \/ empty' = empty
          \/ /\ 0 < slotsToRelease /\ empty + slotsToRelease <= W
             /\ empty' = empty + slotsToRelease
      BY <2>1 DEF RRelease
    <3>6. empty' \in 0..W
      BY <1>5, <3>4, <3>5
    <3> QED
      BY <1>5, <3>1, <3>3, <3>6
  <2>2. CASE ~RRelease
    BY <1>5, <2>2 DEF RecvThread, RQuit, RWake, RFail, RNewAck, RDupAck, RFastRetx,
           ROldAck, countersUnchanged, ackVars
  <2> QED
    BY <2>1, <2>2
<1>13. RecvType' /\ SharedType'
  BY <1>1, <1>2, <1>6, <1>7, <1>8, <1>9, <1>10, <1>11, <1>12 DEF RecvType, SharedType
<1> QED
  BY <1>3, <1>4, <1>13 DEF TypeInv, TypeOK, MainType, SendType, RecvType, SharedType,
         Stored

\* The receiver's store after a data packet.
LEMMA StoreType ==
    ASSUME got \in Stored, NEW d \in DataPkts, RcvData(d)
    PROVE  /\ got' \in Stored
           /\ \A s \in Seqs : got[s] # Nothing => got'[s] # Nothing
           /\ \A s \in Seqs : got'[s] # Nothing => got[s] # Nothing \/ s = d.seq
<1>1. d.seq \in Seqs /\ d.data \in Seqs \cup {Uninit}
  BY DEF DataPkts
<1>2. got' = IF got[d.seq] = Nothing THEN [got EXCEPT ![d.seq] = d.data] ELSE got
  BY DEF RcvData
<1> QED
  BY <1>1, <1>2 DEF Stored

LEMMA EnvironmentTypeStep == TypeInv /\ Environment => TypeInv'
<1> SUFFICES ASSUME TypeInv, Environment PROVE TypeInv'
  OBVIOUS
<1>1. MainType /\ SendType /\ RecvType /\ SharedType /\ PcInv /\ CountInv /\ TypeOK
  BY TypeParts DEF TypeInv
<1>2. UNCHANGED <<mpc, status, currAttempt, spc, sIndex, sRetx, rpc, rRetx, nextSeq,
                  pendingPackets, base, lastReleased, dupACK, nextToSend, retxForBase,
                  empty, full, eventQuit>>
  BY EnvironmentEffects
<1>3. MainType' /\ SendType' /\ RecvType' /\ PcInv'
  BY <1>1, <1>2 DEF MainType, SendType, RecvType, PcInv
<1>4. CountInv'
  BY <1>1, <1>2 DEF CountInv, Handed
<1>5. net' \in [DataPkts \cup FinPkts -> Nat]
  <2>1. PICK d \in DataPkts \cup FinPkts : IsIn(d, net) /\ net' = Take(net, d)
    BY DEF Environment, RcvData, RcvFin, Lose
  <2> QED
    BY <1>1, <2>1, TakeType DEF SharedType
<1>6. got' \in Stored
  <2>1. got \in Stored
    BY <1>1 DEF SharedType
  <2>2. CASE \E d \in DataPkts : RcvData(d)
    BY <2>1, <2>2, StoreType
  <2>3. CASE UNCHANGED got
    BY <2>1, <2>3
  <2> QED
    BY <2>2, <2>3 DEF Environment, RcvFin, Lose
<1>7. sockq' \in [Acks -> Nat] /\ sockReady' \in BOOLEAN
  <2>1. CASE \E a : Reply(a)
    BY <1>1, <2>1, ReplyType
  <2>2. CASE UNCHANGED sockVars
    BY <1>1, <2>2 DEF SharedType, sockVars
  <2> QED
    BY <2>1, <2>2 DEF Environment, RcvData, RcvFin, Lose
<1>8. SharedType'
  BY <1>1, <1>2, <1>5, <1>6, <1>7 DEF SharedType
<1> QED
  BY <1>3, <1>4, <1>8 DEF TypeInv, TypeOK, MainType, SendType, RecvType, SharedType,
         Stored

LEMMA TypeStep == TypeInv /\ [Next]_vars => TypeInv'
<1> SUFFICES ASSUME TypeInv, [Next]_vars PROVE TypeInv'
  OBVIOUS
<1>1. CASE UNCHANGED vars
  BY <1>1 DEF vars, mainVars, sendVars, recvVars, slotVars, ackVars, sockVars, TypeInv,
         TypeOK, PcInv, CountInv, Handed
<1> QED
  BY <1>1, SendTypeStep, CloseTypeStep, SendThreadTypeStep, RecvThreadTypeStep,
     EnvironmentTypeStep DEF Next, Done

\* Every variable keeps its type; in particular nextToSend never passes the
\* packets that Send() has queued, and the semaphores never pass their maximum.
THEOREM TypeCorrect == Spec => []TypeOK
<1>1. TypeInv => TypeOK
  BY DEF TypeInv
<1> QED
  BY <1>1, InitType, TypeStep, PTL DEF Spec

------------------------------------------------------------------------------
(* What a step can do to base, the network and the acknowledgments.           *)

\* base moves only forward, to the number of an acknowledgment in the socket,
\* and only while main() is still running.
LEMMA BaseStep ==
    ASSUME Next
    PROVE  \/ base' = base
           \/ /\ RecvThread /\ ~Exited /\ rpc = "recv" /\ rpc' = "release"
              /\ \E m \in Acks : IsIn(m, sockq) /\ base' = m.ackSeq /\ base' > base
<1>1. CASE RecvThread
  <2>1. CASE \E m \in Acks : RNewAck(m)
    BY <1>1, <2>1 DEF RNewAck, Receive
  <2>2. CASE ~\E m \in Acks : RNewAck(m)
    BY <1>1, <2>2 DEF RecvThread, RQuit, RWake, RFail, RRelease, RDupAck, RFastRetx,
           ROldAck, countersUnchanged, ackVars
  <2> QED
    BY <2>1, <2>2
<1>2. CASE Done
  BY <1>2 DEF Done, vars, ackVars
<1> QED
  BY <1>1, <1>2, SendEffects, CloseEffects, SendThreadEffects, EnvironmentEffects DEF Next

LEMMA BaseGrows == ASSUME TypeInv, [Next]_vars PROVE base' >= base
<1>1. base \in Int
  BY DEF TypeInv, TypeOK
<1>2. CASE UNCHANGED vars
  BY <1>1, <1>2 DEF vars, ackVars
<1>3. CASE Next
  <2>1. base' = base \/ base' > base
    BY <1>3, BaseStep
  <2>2. base' \in Int
    BY TypeStep DEF TypeInv, TypeOK
  <2> QED
    BY <1>1, <2>1, <2>2
<1> QED
  BY <1>2, <1>3

\* A data packet is new in the network only if a thread sent it from a slot.
FromSlot(d) ==
    \E i \in 0..(W - 1) : d.seq = pendingPackets[i].seq /\ d.data = pendingPackets[i].data

LEMMA TransmitMembers ==
    ASSUME TypeOK, NEW i \in 0..(W - 1), Transmit(pendingPackets[i]), NEW d \in DataPkts,
           IsIn(d, net')
    PROVE  IsIn(d, net) \/ FromSlot(d)
<1> DEFINE p == pendingPackets[i]
<1>1. \/ IsIn(d, net)
      \/ d = [fin |-> FALSE, seq |-> p.seq, data |-> p.data]
  BY PutMembers DEF Transmit, TypeOK
<1> QED
  BY <1>1 DEF FromSlot

LEMMA NetStep ==
    ASSUME TypeInv, Next, NEW d \in DataPkts, IsIn(d, net')
    PROVE  IsIn(d, net) \/ FromSlot(d)
<1>1. TypeOK
  BY DEF TypeInv
<1>2. net \in [DataPkts \cup FinPkts -> Nat]
  BY <1>1 DEF TypeOK
<1>3. /\ base % W \in 0..(W - 1) /\ nextToSend % W \in 0..(W - 1)
      /\ sIndex \in 0..(W - 1)
  <2>1. base \in Nat /\ nextToSend \in Nat /\ sIndex \in 0..(W - 1)
    BY <1>1 DEF TypeOK
  <2> QED
    BY <2>1, SlotIndex
<1>4. CASE UNCHANGED net
  BY <1>4
<1>5. CASE Close
  <2>1. CASE FinSend
    <3>1. d = [fin |-> TRUE, seq |-> base, data |-> Uninit] \/ IsIn(d, net)
      BY <1>2, <2>1, PutMembers DEF FinSend
    <3>2. d.fin = FALSE
      BY DEF DataPkts
    <3> QED
      BY <3>1, <3>2
  <2>2. CASE ~FinSend
    BY <1>4, <1>5, <2>2 DEF Close, CloseGiveUp, CloseStopRecv, CloseReset, FinFail,
           FinQuit, FinTimeout, FinRecv, FinExhausted, Destroy, Join
  <2> QED
    BY <2>1, <2>2
<1>6. CASE SendThread
  <2>1. \/ UNCHANGED net
        \/ Transmit(pendingPackets[nextToSend % W])
        \/ Transmit(pendingPackets[sIndex])
    BY <1>6 DEF SendThread, STop, SQuit, SFull, SAdvance, STimeout, SIndex, SRead, SWrite,
           SLimit, SResend, localUnchanged
  <2> QED
    BY <1>1, <1>3, <1>4, <2>1, TransmitMembers
<1>7. CASE RecvThread
  <2>1. UNCHANGED net \/ Transmit(pendingPackets[base % W])
    BY <1>7 DEF RecvThread, RQuit, RWake, RFail, RNewAck, RRelease, RDupAck, RFastRetx,
           ROldAck, countersUnchanged
  <2> QED
    BY <1>1, <1>3, <1>4, <2>1, TransmitMembers
<1>8. CASE Environment
  <2>1. PICK x \in DataPkts \cup FinPkts : net' = Take(net, x)
    BY <1>8 DEF Environment, RcvData, RcvFin, Lose
  <2>2. IsIn(d, Take(net, x))
    BY <2>1
  <2> QED
    BY <1>2, <2>2, TakeMembers
<1> QED
  BY <1>4, <1>5, <1>6, <1>7, <1>8, SendEffects DEF Next, Done, vars

\* The receiver's next expected number never goes back.
LEMMA RcvStep ==
    ASSUME TypeInv, Next PROVE rcvNext \in 0..N /\ rcvNext' \in 0..N /\ rcvNext' >= rcvNext
<1>1. got \in Stored
  BY DEF TypeInv, TypeOK, Stored
<1>2. rcvNext \in 0..N
  BY <1>1, ContiguousIs DEF rcvNext
<1>3. CASE \E d \in DataPkts : RcvData(d)
  <2>1. got' \in Stored /\ \A s \in Seqs : got[s] # Nothing => got'[s] # Nothing
    BY <1>1, <1>3, StoreType
  <2> QED
    BY <1>1, <1>2, <2>1, ContiguousIs, ContiguousGrows DEF rcvNext
<1>4. CASE UNCHANGED got
  <2>1. rcvNext' = rcvNext
    BY <1>4 DEF rcvNext
  <2> QED
    BY <1>2, <2>1
<1> QED
  BY <1>3, <1>4, SendEffects, CloseEffects, SendThreadEffects, RecvThreadEffects
     DEF Next, Environment, RcvFin, Lose, Done, vars

\* A datagram is new in the sender's socket only as an answer of the receiver.
LEMMA ReplyMembers ==
    ASSUME TypeOK, NEW a, Reply(a), NEW m \in Acks, IsIn(m, sockq')
    PROVE  IsIn(m, sockq) \/ m = a
BY PutMembers DEF Reply, TypeOK, sockVars

LEMMA SockqStep ==
    ASSUME TypeInv, Next, NEW m \in Acks, IsIn(m, sockq')
    PROVE  IsIn(m, sockq) \/ m.ackSeq = rcvNext'
<1>1. TypeOK /\ sockq \in [Acks -> Nat]
  BY DEF TypeInv, TypeOK
<1>2. CASE UNCHANGED sockq
  BY <1>2
<1>3. CASE \E a \in Acks : Receive(a)
  <2>1. PICK a \in Acks : sockq' = Take(sockq, a)
    BY <1>3 DEF Receive
  <2>2. IsIn(m, Take(sockq, a))
    BY <2>1
  <2> QED
    BY <1>1, <2>2, TakeMembers
<1>4. CASE Environment
  <2>1. ASSUME NEW d \in DataPkts, RcvData(d) PROVE IsIn(m, sockq) \/ m.ackSeq = rcvNext'
    <3>1. Reply([fin |-> FALSE, ackSeq |-> Contiguous(got')])
      BY <2>1 DEF RcvData
    <3>2. IsIn(m, sockq) \/ m = [fin |-> FALSE, ackSeq |-> Contiguous(got')]
      BY <1>1, <3>1, ReplyMembers
    <3> QED
      BY <3>2 DEF rcvNext
  <2>2. ASSUME NEW d \in FinPkts, RcvFin(d) PROVE IsIn(m, sockq) \/ m.ackSeq = rcvNext'
    <3>1. rcvNext' = rcvNext
      BY <2>2 DEF RcvFin, rcvNext
    <3>2. CASE Reply([fin |-> TRUE, ackSeq |-> rcvNext])
      <4>1. IsIn(m, sockq) \/ m = [fin |-> TRUE, ackSeq |-> rcvNext]
        BY <1>1, <3>2, ReplyMembers
      <4> QED
        BY <3>1, <4>1
    <3> QED
      BY <1>2, <2>2, <3>2 DEF RcvFin, sockVars
  <2> QED
    BY <1>2, <1>4, <2>1, <2>2 DEF Environment, Lose, sockVars
<1>5. CASE Close
  BY <1>2, <1>3, <1>5 DEF Close, CloseGiveUp, CloseStopRecv, CloseReset, FinSend, FinFail,
         FinQuit, FinTimeout, FinRecv, FinExhausted, Destroy, Join, sockVars
<1>6. CASE RecvThread
  BY <1>2, <1>3, <1>6 DEF RecvThread, RQuit, RWake, RFail, RNewAck, RRelease, RDupAck,
         RFastRetx, ROldAck, sockVars
<1> QED
  BY <1>2, <1>4, <1>5, <1>6, SendEffects, SendThreadEffects DEF Next, Done, vars, sockVars

------------------------------------------------------------------------------
(* Who reads the socket, and when a timer runs.                               *)

\* Close() reads FIN-ACKs only after RecvThread() has ended, although it takes
\* the quit event back: that thread never takes the FIN-ACK from under it.
THEOREM OneReaderOnly == Spec => []OneReader
<1>1. Init => OneReader
  BY DEF Init, OneReader
<1>2. OneReader /\ [Next]_vars => OneReader'
  <2> SUFFICES ASSUME OneReader, [Next]_vars PROVE OneReader'
    OBVIOUS
  <2>1. CASE Send
    BY <2>1 DEF OneReader, Send, SendQuit, SendAcquire, SendHeader, SendCopy, SendQueue
  <2>2. CASE Close
    BY <2>2, CloseEffects DEF OneReader, Close, CloseGiveUp, CloseStopRecv, CloseReset,
           RecvJoined, FinSend, FinFail, FinQuit, FinTimeout, FinRecv, FinExhausted,
           Destroy, Join
  <2>3. CASE SendThread \/ Environment
    BY <2>3, SendThreadEffects, EnvironmentEffects DEF OneReader
  <2>4. CASE RecvThread
    <3>1. rpc # "done" /\ mpc' = mpc
      BY <2>4, RecvThreadEffects DEF RecvThread, RQuit, RWake, RFail, RNewAck, RRelease,
             RDupAck, RFastRetx, ROldAck
    <3> QED
      BY <3>1 DEF OneReader
  <2>5. CASE UNCHANGED vars
    BY <2>5 DEF OneReader, vars, mainVars, recvVars
  <2> QED
    BY <2>1, <2>2, <2>3, <2>4, <2>5 DEF Next, Done
<1> QED
  BY <1>1, <1>2, PTL DEF Spec

\* SendThread() waits without a timeout only while everything it has counted as
\* sent is acknowledged: base may move while it waits, but only forward.
THEOREM TimerStaysArmed == Spec => []TimerArmed
<1>1. Init => TimerArmed
  BY DEF Init, TimerArmed
<1>2. TypeInv /\ TimerArmed /\ [Next]_vars => TimerArmed'
  <2> SUFFICES ASSUME TypeInv, TimerArmed, [Next]_vars, spc' = "idle"
               PROVE  nextToSend' <= base'
    BY DEF TimerArmed
  <2>1. base' >= base /\ base \in Int /\ nextToSend \in Int /\ base' \in Int
    <3>1. TypeInv /\ TypeInv' /\ base' >= base
      BY BaseGrows, TypeStep
    <3>2. base \in Int /\ nextToSend \in Int
      BY <3>1 DEF TypeInv, TypeOK
    <3>3. base' \in Int
      BY <3>1 DEF TypeInv, TypeOK
    <3> QED
      BY <3>1, <3>2, <3>3
  <2>2. CASE SendThread
    <3>1. spc = "top" /\ ~(nextToSend > base) /\ nextToSend' = nextToSend
      BY <2>2 DEF SendThread, STop, SQuit, SFull, SAdvance, STimeout, SIndex, SRead,
             SWrite, SLimit, SResend, WaitMode, localUnchanged
    <3> QED
      BY <2>1, <3>1
  <2>3. CASE spc' = spc /\ nextToSend' = nextToSend
    <3>1. nextToSend <= base
      BY <2>3 DEF TimerArmed
    <3> QED
      BY <2>1, <2>3, <3>1
  <2> QED
    BY <2>2, <2>3, SendEffects, CloseEffects, RecvThreadEffects, EnvironmentEffects
       DEF Next, Done, vars, sendVars
<1> QED
  BY <1>1, <1>2, InitType, TypeStep, PTL DEF Spec

------------------------------------------------------------------------------
(* Nothing is acknowledged before it is received, nothing is received before  *)
(* Send() has begun to write it, and nothing is closed before everything is   *)
(* acknowledged.                                                              *)

AckInv ==
    /\ base <= rcvNext
    /\ \A m \in Acks : IsIn(m, sockq) => m.ackSeq <= rcvNext

\* Close() is past its wait for the last acknowledgment.
PastAcks ==
    \/ mpc \in {"stop", "fin", "wait", "closed", "join"}
    \/ Exited /\ status = "STATUS_OK"
PastInv == PastAcks => base = N

StatusInv == ~Exited => status = "STATUS_OK"

WrittenInv ==
    /\ \A i \in 0..(W - 1) :
         pendingPackets[i].seq \in Seqs => pendingPackets[i].seq < Written
    /\ \A d \in DataPkts : IsIn(d, net) => d.seq < Written
    /\ \A s \in Seqs : got[s] # Nothing => s < Written

LEMMA AckStep == ASSUME TypeInv, AckInv, Next PROVE AckInv'
<1>1. rcvNext \in 0..N /\ rcvNext' \in 0..N /\ rcvNext' >= rcvNext
  BY RcvStep
<1>2. base \in 0..N /\ base <= rcvNext
  BY DEF TypeInv, TypeOK, AckInv
<1>3. ASSUME NEW m \in Acks PROVE m.ackSeq \in 0..N
  BY DEF Acks
<1>4. base' <= rcvNext'
  <2>1. CASE base' = base
    BY <1>1, <1>2, <2>1
  <2>2. CASE \E m \in Acks : IsIn(m, sockq) /\ base' = m.ackSeq
    <3>1. PICK m \in Acks : IsIn(m, sockq) /\ base' = m.ackSeq
      BY <2>2
    <3>2. m.ackSeq <= rcvNext /\ m.ackSeq \in 0..N
      BY <1>3, <3>1 DEF AckInv
    <3> QED
      BY <1>1, <3>1, <3>2
  <2> QED
    BY <2>1, <2>2, BaseStep
<1>5. ASSUME NEW m \in Acks, IsIn(m, sockq') PROVE m.ackSeq <= rcvNext'
  <2>1. IsIn(m, sockq) \/ m.ackSeq = rcvNext'
    BY <1>5, SockqStep
  <2>2. CASE IsIn(m, sockq)
    <3>1. m.ackSeq <= rcvNext
      BY <2>2 DEF AckInv
    <3> QED
      BY <1>1, <1>3, <3>1
  <2> QED
    BY <1>1, <2>1, <2>2
<1> QED
  BY <1>4, <1>5 DEF AckInv

LEMMA PastStep == ASSUME TypeInv, PastInv, Next PROVE PastInv'
<1> SUFFICES ASSUME PastAcks' PROVE base' = N
  BY DEF PastInv
<1>1. base' >= base /\ base \in 0..N /\ base' \in 0..N /\ nextSeq \in 0..N
  BY BaseGrows, TypeStep DEF TypeInv, TypeOK
<1>2. CASE PastAcks
  <2>1. base = N
    BY <1>2 DEF PastInv
  <2> QED
    BY <1>1, <2>1
<1>3. CASE ~PastAcks
  <2>1. CASE Send
    BY <1>3, <2>1 DEF Send, SendQuit, SendAcquire, SendHeader, SendCopy, SendQueue,
           PastAcks, Exited
  <2>2. CASE Close
    <3>1. CASE CloseStopRecv
      <4>1. nextSeq = N /\ ~(base < nextSeq)
        BY <3>1 DEF CloseStopRecv, AllAcked
      <4> QED
        BY <1>1, <4>1
    <3>2. CASE ~CloseStopRecv
      BY <1>3, <2>2, <3>2 DEF Close, CloseGiveUp, CloseReset, FinSend, FinFail, FinQuit,
             FinTimeout, FinRecv, FinExhausted, Destroy, Join, PastAcks, Exited
    <3> QED
      BY <3>1, <3>2
  <2>3. CASE UNCHANGED <<mpc, status>>
    BY <1>3, <2>3 DEF PastAcks, Exited
  <2> QED
    BY <2>1, <2>2, <2>3, SendThreadEffects, RecvThreadEffects, EnvironmentEffects
       DEF Next, Done, vars, mainVars
<1> QED
  BY <1>2, <1>3

LEMMA StatusStep == ASSUME StatusInv, Next PROVE StatusInv'
<1>1. CASE Send
  BY <1>1 DEF StatusInv, Exited, Send, SendQuit, SendAcquire, SendHeader, SendCopy,
         SendQueue
<1>2. CASE Close
  BY <1>2 DEF StatusInv, Exited, Close, CloseGiveUp, CloseStopRecv, CloseReset, FinSend,
         FinFail, FinQuit, FinTimeout, FinRecv, FinExhausted, Destroy, Join
<1>3. CASE UNCHANGED <<mpc, status>>
  BY <1>3 DEF StatusInv, Exited
<1> QED
  BY <1>1, <1>2, <1>3, SendThreadEffects, RecvThreadEffects, EnvironmentEffects
     DEF Next, Done, vars, mainVars

\* What Send() has begun to write only grows.
LEMMA WrittenGrows ==
    ASSUME TypeInv, Next
    PROVE  Written \in Nat /\ Written' \in Nat /\ Written' >= Written
<1>1. nextSeq \in Nat
  BY DEF TypeInv, TypeOK
<1>2. CASE Send
  BY <1>1, <1>2 DEF Send, SendQuit, SendAcquire, SendHeader, SendCopy, SendQueue,
         slotVars, Written
<1>3. CASE Close
  <2>1. mpc # "copy" /\ mpc' # "copy" /\ nextSeq' = nextSeq
    BY <1>3, CloseEffects DEF Close, CloseGiveUp, CloseStopRecv, CloseReset, FinSend,
           FinFail, FinQuit, FinTimeout, FinRecv, FinExhausted, Destroy, Join
  <2> QED
    BY <1>1, <2>1 DEF Written
<1>4. CASE UNCHANGED <<mpc, nextSeq>>
  BY <1>1, <1>4 DEF Written
<1> QED
  BY <1>2, <1>3, <1>4, SendThreadEffects, RecvThreadEffects, EnvironmentEffects
     DEF Next, Done, vars, mainVars, slotVars

\* A slot changes only when Send() writes the packet nextSeq into it.
LEMMA SlotStep ==
    ASSUME TypeInv, Next
    PROVE  \/ pendingPackets' = pendingPackets
           \/ /\ mpc = "header" /\ mpc' = "copy" /\ nextSeq' = nextSeq /\ Send
              /\ pendingPackets' = [pendingPackets EXCEPT ![nextSeq % W].seq = nextSeq]
           \/ /\ mpc = "copy" /\ mpc' = "queue" /\ nextSeq' = nextSeq + 1 /\ Send
              /\ pendingPackets' = [pendingPackets EXCEPT ![nextSeq % W].data = nextSeq]
<1>1. CASE Send
  BY <1>1 DEF Send, SendQuit, SendAcquire, SendHeader, SendCopy, SendQueue, slotVars
<1> QED
  BY <1>1, CloseEffects, SendThreadEffects, RecvThreadEffects, EnvironmentEffects
     DEF Next, Done, vars, slotVars

LEMMA WrittenStep == ASSUME TypeInv, WrittenInv, Next PROVE WrittenInv'
<1>1. Written \in Nat /\ Written' \in Nat /\ Written' >= Written
  BY WrittenGrows
<1>2. ASSUME NEW x \in Seqs, x < Written PROVE x < Written'
  <2>1. x \in Nat
    BY DEF Seqs
  <2> QED
    BY <1>1, <1>2, <2>1
<1>3. ASSUME NEW i \in 0..(W - 1), pendingPackets'[i].seq \in Seqs
      PROVE  pendingPackets'[i].seq < Written'
  <2>1. CASE pendingPackets'[i].seq = pendingPackets[i].seq
    BY <1>2, <1>3, <2>1 DEF WrittenInv
  <2>2. CASE mpc' = "copy" /\ nextSeq' = nextSeq /\ pendingPackets'[i].seq = nextSeq
    <3>1. nextSeq \in Nat /\ Written' = nextSeq + 1
      BY <2>2 DEF TypeInv, TypeOK, Written
    <3> QED
      BY <2>2, <3>1
  <2>3. pendingPackets \in [0..(W - 1) -> Packets]
    BY DEF TypeInv, TypeOK
  <2>4. \/ pendingPackets' = pendingPackets
        \/ /\ mpc' = "copy" /\ nextSeq' = nextSeq
           /\ pendingPackets' = [pendingPackets EXCEPT ![nextSeq % W].seq = nextSeq]
        \/ pendingPackets' = [pendingPackets EXCEPT ![nextSeq % W].data = nextSeq]
    BY SlotStep
  <2>5. ASSUME pendingPackets' = [pendingPackets EXCEPT ![nextSeq % W].seq = nextSeq]
        PROVE  pendingPackets'[i].seq \in {pendingPackets[i].seq, nextSeq}
    BY <2>3, <2>5 DEF Packets
  <2>6. ASSUME pendingPackets' = [pendingPackets EXCEPT ![nextSeq % W].data = nextSeq]
        PROVE  pendingPackets'[i].seq = pendingPackets[i].seq
    BY <2>3, <2>6 DEF Packets
  <2> QED
    BY <2>1, <2>2, <2>4, <2>5, <2>6
<1>4. ASSUME NEW d \in DataPkts, IsIn(d, net') PROVE d.seq < Written'
  <2>1. d.seq \in Seqs
    BY DEF DataPkts
  <2>2. d.seq < Written
    BY <1>4, <2>1, NetStep DEF FromSlot, WrittenInv
  <2> QED
    BY <1>2, <2>1, <2>2
<1>5. ASSUME NEW s \in Seqs, got'[s] # Nothing PROVE s < Written'
  <2>1. CASE \E d \in DataPkts : RcvData(d)
    <3>1. PICK d \in DataPkts : RcvData(d)
      BY <2>1
    <3>2. got[s] # Nothing \/ s = d.seq
      BY <1>5, <3>1, StoreType DEF TypeInv, TypeOK, Stored
    <3>3. IsIn(d, net)
      BY <3>1 DEF RcvData
    <3>4. s < Written
      BY <3>2, <3>3 DEF WrittenInv
    <3> QED
      BY <1>2, <3>4
  <2>2. CASE UNCHANGED got
    BY <1>2, <1>5, <2>2 DEF WrittenInv
  <2> QED
    BY <2>1, <2>2, SendEffects, CloseEffects, SendThreadEffects, RecvThreadEffects
       DEF Next, Environment, RcvFin, Lose, Done, vars
<1> QED
  BY <1>3, <1>4, <1>5 DEF WrittenInv

\* The receiver holds nothing that Send() has not begun to write.
LEMMA ReceivedWritten ==
    ASSUME TypeInv, WrittenInv
    PROVE  rcvNext \in 0..N /\ Written \in Nat /\ rcvNext <= Written
<1>1. got \in Stored
  BY DEF TypeInv, TypeOK, Stored
<1>2. rcvNext \in 0..N /\ \A s \in 0..(rcvNext - 1) : got[s] # Nothing
  BY <1>1, ContiguousIs DEF rcvNext
<1>3. nextSeq \in Nat
  BY DEF TypeInv, TypeOK
<1>4. Written \in Nat
  BY <1>3 DEF Written
<1>5. CASE rcvNext > 0
  <2>1. rcvNext - 1 \in 0..(rcvNext - 1) /\ rcvNext - 1 \in Seqs
    BY <1>2, <1>5 DEF Seqs
  <2>2. got[rcvNext - 1] # Nothing
    BY <1>2, <2>1
  <2>3. rcvNext - 1 < Written
    BY <2>1, <2>2 DEF WrittenInv
  <2> QED
    BY <1>2, <1>4, <2>3
<1> QED
  BY <1>2, <1>4, <1>5

------------------------------------------------------------------------------
(* The semaphore empty counts the slots that Send() may still claim.  Each    *)
(* acknowledgment moves base and, one step later, releases that many slots:   *)
(* between the two steps the credits lag behind base and never run ahead.     *)

Claimed == IF mpc \in {"header", "copy"} THEN nextSeq + 1 ELSE nextSeq

CreditInv ==
    /\ empty = lastReleased - Claimed
    /\ rpc = "release" => lastReleased < base + effectiveWindow
    /\ rpc # "release" => lastReleased = base + effectiveWindow

\* Only Send() claims a slot, and it takes a credit for it.
LEMMA ClaimStep ==
    ASSUME TypeInv, CreditInv, Next, ~RecvThread
    PROVE  empty' = lastReleased' - Claimed' /\ UNCHANGED <<rpc, base, lastReleased>>
<1>1. nextSeq \in Nat /\ empty \in Int /\ lastReleased \in Int
  BY DEF TypeInv, TypeOK
<1>2. empty = lastReleased - Claimed
  BY DEF CreditInv
<1>3. CASE Send
  <2>1. UNCHANGED <<rpc, base, lastReleased>>
    BY <1>3, SendEffects
  <2>2. CASE SendAcquire
    <3>1. mpc = "send" /\ mpc' = "header" /\ empty' = empty - 1 /\ nextSeq' = nextSeq
      BY <2>2 DEF SendAcquire, slotVars
    <3>2. Claimed = nextSeq /\ Claimed' = nextSeq + 1
      BY <3>1 DEF Claimed
    <3> QED
      BY <1>1, <1>2, <2>1, <3>1, <3>2
  <2>3. CASE ~SendAcquire
    <3>1. empty' = empty
      BY <1>3, <2>3 DEF Send, SendQuit, SendHeader, SendCopy, SendQueue
    <3>2. Claimed' = Claimed
      BY <1>3, <2>3 DEF Send, SendQuit, SendHeader, SendCopy, SendQueue, slotVars, Claimed
    <3> QED
      BY <1>2, <2>1, <3>1, <3>2
  <2> QED
    BY <2>2, <2>3
<1>4. CASE Close
  <2>1. UNCHANGED <<rpc, base, lastReleased, empty, nextSeq>>
    BY <1>4, CloseEffects
  <2>2. mpc \notin {"header", "copy"} /\ mpc' \notin {"header", "copy"}
    BY <1>4 DEF Close, CloseGiveUp, CloseStopRecv, CloseReset, FinSend, FinFail, FinQuit,
           FinTimeout, FinRecv, FinExhausted, Destroy, Join
  <2> QED
    BY <1>2, <2>1, <2>2 DEF Claimed
<1>5. CASE UNCHANGED <<mpc, nextSeq, empty, rpc, base, lastReleased>>
  BY <1>2, <1>5 DEF Claimed
<1> QED
  BY <1>3, <1>4, <1>5, SendThreadEffects, EnvironmentEffects
     DEF Next, Done, vars, mainVars, recvVars, slotVars, ackVars

\* RecvThread() releases exactly the slots its acknowledgment has freed: the
\* count of ReleaseSemaphore() is positive and never passes the maximum.
LEMMA ReleaseStep ==
    ASSUME TypeInv, AckInv, WrittenInv, CreditInv, RRelease
    PROVE  /\ empty' = lastReleased' - Claimed'
           /\ lastReleased' = base' + effectiveWindow /\ rpc' = "wait"
<1>1. /\ base \in Nat /\ lastReleased \in Nat /\ nextSeq \in Nat /\ empty \in Nat
      /\ effectiveWindow \in Nat /\ effectiveWindow <= W
  BY WindowBounds DEF TypeInv, TypeOK
<1>2. /\ rpc = "release" /\ rpc' = "wait" /\ base' = base
      /\ lastReleased' = lastReleased + slotsToRelease
      /\ empty' = IF 0 < slotsToRelease /\ empty + slotsToRelease <= W
                  THEN empty + slotsToRelease ELSE empty
  BY DEF RRelease
<1>3. Claimed' = Claimed
  BY RecvThreadEffects DEF RecvThread, Claimed
<1>4. empty = lastReleased - Claimed /\ lastReleased < base + effectiveWindow
  BY <1>2 DEF CreditInv
<1>5. base <= Claimed /\ Claimed \in Nat
  <2>1. rcvNext \in 0..N /\ Written \in Nat /\ rcvNext <= Written /\ base <= rcvNext
    BY ReceivedWritten DEF AckInv
  <2>2. Written <= Claimed /\ Claimed \in Nat
    BY <1>1 DEF Written, Claimed
  <2> QED
    BY <1>1, <2>1, <2>2
<1>6. slotsToRelease = base + effectiveWindow - lastReleased
  BY DEF slotsToRelease
<1>7. slotsToRelease \in Int /\ 0 < slotsToRelease
  BY <1>1, <1>4, <1>6
<1>8. empty + slotsToRelease = (base + effectiveWindow) - Claimed
  BY <1>1, <1>4, <1>5, <1>6
<1>9. (base + effectiveWindow) - Claimed <= W
  BY <1>1, <1>5
<1>10. empty' = empty + slotsToRelease
  BY <1>2, <1>7, <1>8, <1>9
<1>11. lastReleased' = base + effectiveWindow
  BY <1>1, <1>2, <1>6
<1>12. empty' = lastReleased' - Claimed'
  BY <1>3, <1>8, <1>10, <1>11
<1>13. base' = base /\ rpc' = "wait"
  BY <1>2
<1> QED
  BY <1>11, <1>12, <1>13

LEMMA CreditStep ==
    ASSUME TypeInv, AckInv, WrittenInv, CreditInv, Next PROVE CreditInv'
<1>1. CASE RRelease
  BY <1>1, ReleaseStep DEF CreditInv
<1>2. CASE RecvThread /\ ~RRelease
  <2>1. UNCHANGED <<empty, lastReleased, mpc, nextSeq>> /\ rpc # "release"
    BY <1>2, RecvThreadEffects DEF RecvThread, RQuit, RWake, RFail, RNewAck, RDupAck,
           RFastRetx, ROldAck, countersUnchanged, ackVars
  <2>2. empty' = lastReleased' - Claimed'
    BY <2>1 DEF CreditInv, Claimed
  <2>3. lastReleased = base + effectiveWindow
    BY <2>1 DEF CreditInv
  <2>4. CASE \E m \in Acks : RNewAck(m)
    <3>1. base' > base /\ rpc' = "release"
      BY <2>4 DEF RNewAck
    <3>2. base \in Nat /\ base' \in Nat /\ effectiveWindow \in Nat
      BY TypeStep, WindowBounds DEF TypeInv, TypeOK
    <3>3. base + effectiveWindow < base' + effectiveWindow
      BY <3>1, <3>2, AddLess
    <3> QED
      BY <2>1, <2>2, <2>3, <3>1, <3>3 DEF CreditInv
  <2>5. CASE ~\E m \in Acks : RNewAck(m)
    <3>1. base' = base /\ rpc' # "release"
      BY <1>2, <2>5 DEF RecvThread, RQuit, RWake, RFail, RDupAck, RFastRetx, ROldAck,
             countersUnchanged, ackVars
    <3> QED
      BY <2>1, <2>2, <2>3, <3>1 DEF CreditInv
  <2> QED
    BY <2>4, <2>5
<1>3. CASE ~RecvThread
  BY <1>3, ClaimStep DEF CreditInv
<1> QED
  BY <1>1, <1>2, <1>3 DEF RecvThread

\* The packet Send() is writing has a slot of its own.
LEMMA WithinWindow ==
    ASSUME TypeInv, CreditInv, mpc \in {"header", "copy"}
    PROVE  nextSeq < base + W
<1>1. /\ base \in Nat /\ lastReleased \in Nat /\ nextSeq \in Nat /\ empty \in Nat
      /\ effectiveWindow \in Nat /\ effectiveWindow <= W
  BY WindowBounds DEF TypeInv, TypeOK
<1>2. empty = lastReleased - (nextSeq + 1)
  BY DEF CreditInv, Claimed
<1>3. lastReleased <= base + effectiveWindow
  BY <1>1 DEF CreditInv
<1> QED
  BY <1>1, <1>2, <1>3

HeaderWritten == mpc = "copy" => pendingPackets[nextSeq % W].seq = nextSeq

LEMMA SlotsIntactStep ==
    ASSUME TypeInv, CreditInv, SlotsIntact, HeaderWritten, Next
    PROVE  SlotsIntact' /\ HeaderWritten'
<1>1. /\ base \in Nat /\ nextSeq \in Nat /\ base' \in Nat /\ base' >= base
      /\ pendingPackets \in [0..(W - 1) -> Packets]
  BY BaseGrows, TypeStep DEF TypeInv, TypeOK
<1>2. nextSeq % W \in 0..(W - 1)
  BY <1>1, SlotIndex
<1>3. ASSUME mpc \in {"header", "copy"}, NEW s \in base..(nextSeq - 1)
      PROVE  (s % W) # (nextSeq % W) /\ (s % W) \in 0..(W - 1)
  <2>1. s \in Nat /\ s < nextSeq /\ s >= base
    BY <1>1
  <2>2. nextSeq < base + W
    BY <1>3, WithinWindow
  <2>3. nextSeq < s + W
    BY <1>1, <2>1, <2>2
  <2>4. (s % W) # (nextSeq % W)
    BY <1>1, <2>1, <2>3, SlotsDiffer
  <2> QED
    BY <2>1, <2>4, SlotIndex
<1>4. CASE SendHeader
  <2>1. /\ mpc = "header" /\ mpc' = "copy" /\ nextSeq' = nextSeq /\ base' = base
        /\ pendingPackets' = [pendingPackets EXCEPT ![nextSeq % W].seq = nextSeq]
    BY <1>4, SendEffects DEF SendHeader, Send
  <2>2. HeaderWritten'
    BY <1>1, <1>2, <2>1 DEF HeaderWritten, Packets
  <2>3. ASSUME NEW s \in base..(nextSeq - 1)
        PROVE  pendingPackets'[s % W] = [seq |-> s, data |-> s]
    <3>1. pendingPackets'[s % W] = pendingPackets[s % W]
      BY <1>1, <1>3, <2>1
    <3> QED
      BY <3>1 DEF SlotsIntact
  <2> QED
    BY <2>1, <2>2, <2>3 DEF SlotsIntact
<1>5. CASE SendCopy
  <2>1. /\ mpc = "copy" /\ mpc' = "queue" /\ nextSeq' = nextSeq + 1 /\ base' = base
        /\ pendingPackets' = [pendingPackets EXCEPT ![nextSeq % W].data = nextSeq]
    BY <1>5, SendEffects DEF SendCopy, Send
  <2>2. HeaderWritten'
    BY <2>1 DEF HeaderWritten
  <2>3. ASSUME NEW s \in base..(nextSeq - 1)
        PROVE  pendingPackets'[s % W] = [seq |-> s, data |-> s]
    <3>1. pendingPackets'[s % W] = pendingPackets[s % W]
      BY <1>1, <1>3, <2>1
    <3> QED
      BY <3>1 DEF SlotsIntact
  <2>4. pendingPackets'[nextSeq % W] = [seq |-> nextSeq, data |-> nextSeq]
    <3>1. /\ pendingPackets[nextSeq % W] \in Packets
          /\ pendingPackets[nextSeq % W].seq = nextSeq
      BY <1>1, <1>2, <2>1 DEF HeaderWritten
    <3> QED
      BY <1>1, <1>2, <2>1, <3>1 DEF Packets
  <2>5. ASSUME NEW s \in base..((nextSeq + 1) - 1)
        PROVE  pendingPackets'[s % W] = [seq |-> s, data |-> s]
    <3>1. s = nextSeq \/ s \in base..(nextSeq - 1)
      BY <1>1
    <3> QED
      BY <2>3, <2>4, <3>1
  <2> QED
    BY <2>1, <2>2, <2>5 DEF SlotsIntact
<1>6. CASE ~SendHeader /\ ~SendCopy
  <2>1. pendingPackets' = pendingPackets /\ nextSeq' = nextSeq
    BY <1>6, CloseEffects, SendThreadEffects, RecvThreadEffects, EnvironmentEffects
       DEF Next, Send, SendQuit, SendAcquire, SendQueue, Done, vars, slotVars
  <2>2. mpc' = "copy" => mpc = "copy"
    BY <1>6, SendThreadEffects, RecvThreadEffects, EnvironmentEffects
       DEF Next, Send, SendQuit, SendAcquire, SendQueue, Close, CloseGiveUp,
           CloseStopRecv, CloseReset, FinSend, FinFail, FinQuit, FinTimeout, FinRecv,
           FinExhausted, Destroy, Join, Done, vars, mainVars
  <2>3. HeaderWritten'
    BY <2>1, <2>2 DEF HeaderWritten
  <2>4. ASSUME NEW s \in base'..(nextSeq - 1)
        PROVE  pendingPackets'[s % W] = [seq |-> s, data |-> s]
    <3>1. s \in base..(nextSeq - 1)
      BY <1>1
    <3> QED
      BY <2>1, <3>1 DEF SlotsIntact
  <2> QED
    BY <2>1, <2>3, <2>4 DEF SlotsIntact
<1> QED
  BY <1>4, <1>5, <1>6

------------------------------------------------------------------------------
(* The inductive invariant, and what it implies.                              *)

Inv == /\ TypeInv /\ AckInv /\ PastInv /\ StatusInv /\ WrittenInv
       /\ CreditInv /\ SlotsIntact /\ HeaderWritten

LEMMA InitInv == Init => Inv
<1> SUFFICES ASSUME Init PROVE Inv
  OBVIOUS
<1>1. /\ mpc = "send" /\ status = "STATUS_OK" /\ rpc = "wait" /\ base = 0 /\ nextSeq = 0
      /\ lastReleased = effectiveWindow /\ empty = effectiveWindow
      /\ pendingPackets = [i \in 0..(W - 1) |-> [seq |-> Uninit, data |-> Uninit]]
      /\ net = NoDatagrams(DataPkts \cup FinPkts)
      /\ got = [s \in Seqs |-> Nothing]
  BY DEF Init
<1>2. TypeInv
  BY InitType
<1>3. rcvNext \in 0..N
  BY <1>2, ContiguousIs DEF rcvNext, TypeInv, TypeOK, Stored
<1>4. AckInv
  <2>1. ASSUME NEW m \in Acks, IsIn(m, sockq) PROVE m.ackSeq = 0
    <3>1. PICK late \in 0..(SYN_MAX_ATTEMPTS - 1) :
            sockq = [NoDatagrams(Acks) EXCEPT ![[fin |-> FALSE, ackSeq |-> 0]] = late]
      BY DEF Init
    <3>2. ASSUME m # [fin |-> FALSE, ackSeq |-> 0] PROVE FALSE
      <4>1. sockq[m] = 0
        BY <3>1, <3>2 DEF NoDatagrams
      <4> QED
        BY <2>1, <4>1 DEF IsIn
    <3> QED
      BY <3>2
  <2> QED
    BY <1>1, <1>3, <2>1 DEF AckInv
<1>5. PastInv /\ StatusInv /\ HeaderWritten
  BY <1>1 DEF PastInv, PastAcks, StatusInv, HeaderWritten, Exited
<1>6. WrittenInv
  <2>1. \A i \in 0..(W - 1) : pendingPackets[i].seq \notin Seqs
    BY <1>1 DEF Uninit, Seqs
  <2>2. \A d \in DataPkts : ~IsIn(d, net)
    BY <1>1 DEF NoDatagrams, IsIn
  <2> QED
    BY <1>1, <2>1, <2>2 DEF WrittenInv
<1>7. CreditInv
  <2>1. effectiveWindow \in Int
    BY WindowBounds
  <2> QED
    BY <1>1, <2>1 DEF CreditInv, Claimed
<1>8. SlotsIntact
  BY <1>1 DEF SlotsIntact
<1> QED
  BY <1>2, <1>4, <1>5, <1>6, <1>7, <1>8 DEF Inv

LEMMA InvStep == Inv /\ [Next]_vars => Inv'
<1> SUFFICES ASSUME Inv, [Next]_vars PROVE Inv'
  OBVIOUS
<1>1. TypeInv'
  BY TypeStep DEF Inv
<1>2. CASE Next
  BY <1>1, <1>2, AckStep, PastStep, StatusStep, WrittenStep, CreditStep, SlotsIntactStep
     DEF Inv
<1>3. CASE UNCHANGED vars
  <2>1. UNCHANGED <<mpc, status, rpc, base, nextSeq, pendingPackets, lastReleased, empty,
                    net, sockq, got>>
    BY <1>3 DEF vars, mainVars, recvVars, slotVars, ackVars, sockVars
  <2>2. AckInv' /\ WrittenInv'
    BY <2>1 DEF Inv, AckInv, WrittenInv, Written, rcvNext, IsIn
  <2>3. PastInv' /\ StatusInv' /\ CreditInv' /\ SlotsIntact' /\ HeaderWritten'
    BY <2>1 DEF Inv, PastInv, PastAcks, StatusInv, Exited, CreditInv, Claimed,
           SlotsIntact, HeaderWritten
  <2> QED
    BY <1>1, <2>2, <2>3 DEF Inv
<1> QED
  BY <1>2, <1>3

\* Send() never writes over a packet that is queued and not acknowledged: with
\* three threads moving base, the credits and the slots, and no lock.
THEOREM SlotsStayIntact == Spec => []SlotsIntact
<1>1. Inv => SlotsIntact
  BY DEF Inv
<1> QED
  BY <1>1, InitInv, InvStep, PTL DEF Spec

------------------------------------------------------------------------------
(* Every step of the three threads is a step of ReliableTransfer, or a        *)
(* stutter.                                                                   *)

LEMMA SendMaps ==
    ASSUME Inv, Send
    PROVE  [Abstract!Next]_(Abstract!vars)
<1>1. base' = base /\ rcvNext' = rcvNext
  BY SendEffects DEF rcvNext
<1>2. nextSeq \in Nat /\ (mpc = "header" => nextSeq < N)
  BY DEF Inv, TypeInv, TypeOK, PcInv
<1>3. CASE SendQuit
  <2>1. mpc = "send" /\ mpc' = "exit" /\ status' = "TIMEOUT" /\ nextSeq' = nextSeq
    BY <1>3 DEF SendQuit, slotVars
  <2>2. Written' = Written /\ Outcome = "open" /\ Outcome' = "failed"
    BY <2>1 DEF Written, Outcome, Exited
  <2> QED
    BY <1>1, <2>2 DEF Abstract!Next, Abstract!Fail
<1>4. CASE SendHeader
  <2>1. mpc = "header" /\ mpc' = "copy" /\ nextSeq' = nextSeq
    BY <1>4 DEF SendHeader
  <2>2. Written' = Written + 1 /\ Written < N
    BY <1>2, <2>1 DEF Written
  <2>3. Outcome = "open" /\ Outcome' = "open"
    BY <2>1 DEF Outcome, Exited
  <2> QED
    BY <1>1, <2>2, <2>3 DEF Abstract!Next, Abstract!Accept
<1>5. CASE SendAcquire \/ SendCopy \/ SendQueue
  <2>1. Written' = Written /\ Outcome' = Outcome
    BY <1>5 DEF SendAcquire, SendCopy, SendQueue, slotVars, Written, Outcome, Exited
  <2> QED
    BY <1>1, <2>1 DEF Abstract!vars
<1> QED
  BY <1>3, <1>4, <1>5 DEF Send

LEMMA CloseMaps ==
    ASSUME Inv, Close
    PROVE  [Abstract!Next]_(Abstract!vars)
<1>1. base' = base /\ rcvNext' = rcvNext /\ nextSeq' = nextSeq
  BY CloseEffects DEF rcvNext
<1>2. Written' = Written
  <2>1. mpc # "copy" /\ mpc' # "copy"
    BY DEF Close, CloseGiveUp, CloseStopRecv, CloseReset, FinSend, FinFail, FinQuit,
           FinTimeout, FinRecv, FinExhausted, Destroy, Join
  <2> QED
    BY <1>1, <2>1 DEF Written
<1>3. CASE CloseGiveUp \/ FinFail \/ FinQuit \/ FinExhausted
  <2>1. mpc \in {"send", "fin", "wait"} /\ mpc' = "exit" /\ status' # "STATUS_OK"
    BY <1>3 DEF CloseGiveUp, FinFail, FinQuit, FinExhausted
  <2>2. Outcome = "open" /\ Outcome' = "failed"
    BY <2>1 DEF Outcome, Exited
  <2> QED
    BY <1>1, <1>2, <2>2 DEF Abstract!Next, Abstract!Fail
<1>4. ASSUME mpc = "wait", mpc' = "closed" PROVE [Abstract!Next]_(Abstract!vars)
  <2>1. base = N
    BY <1>4 DEF Inv, PastInv, PastAcks
  <2>2. Outcome = "open" /\ Outcome' = "ok"
    BY <1>4 DEF Outcome, Exited
  <2> QED
    BY <1>1, <1>2, <2>1, <2>2 DEF Abstract!Next, Abstract!Succeed
<1>5. ASSUME mpc \in {"send", "stop", "fin", "wait"}, mpc' \in {"stop", "fin", "wait"}
      PROVE  [Abstract!Next]_(Abstract!vars)
  <2>1. Outcome' = Outcome
    BY <1>5 DEF Outcome, Exited
  <2> QED
    BY <1>1, <1>2, <2>1 DEF Abstract!vars
<1>6. CASE Destroy \/ Join
  <2>1. mpc \in {"closed", "join"} /\ mpc' \in {"join", "exit"} /\ status' = status
    BY <1>6 DEF Destroy, Join
  <2>2. status = "STATUS_OK"
    BY <2>1 DEF Inv, StatusInv, Exited
  <2>3. Outcome = "ok" /\ Outcome' = "ok"
    BY <2>1, <2>2 DEF Outcome, Exited
  <2> QED
    BY <1>1, <1>2, <2>3 DEF Abstract!vars
<1>7. CASE FinRecv
  <2>1. mpc = "wait" /\ mpc' \in {"closed", "fin"}
    BY <1>7 DEF FinRecv
  <2> QED
    BY <1>4, <1>5, <2>1
<1>8. CASE CloseStopRecv \/ CloseReset \/ FinSend \/ FinTimeout
  BY <1>5, <1>8 DEF CloseStopRecv, CloseReset, FinSend, FinTimeout
<1> QED
  BY <1>3, <1>6, <1>7, <1>8 DEF Close

LEMMA RecvThreadMaps ==
    ASSUME Inv, RecvThread
    PROVE  [Abstract!Next]_(Abstract!vars)
<1>1. UNCHANGED <<mpc, status, nextSeq>> /\ rcvNext' = rcvNext
  BY RecvThreadEffects DEF rcvNext
<1>2. Written' = Written /\ Outcome' = Outcome
  BY <1>1 DEF Written, Outcome, Exited
<1>3. CASE base' = base
  BY <1>1, <1>2, <1>3 DEF Abstract!vars
<1>4. ASSUME NEW m \in Acks, ~Exited, IsIn(m, sockq), base' = m.ackSeq, base' > base
      PROVE  [Abstract!Next]_(Abstract!vars)
  <2>1. m.ackSeq \in 0..N /\ base \in 0..N /\ rcvNext \in 0..N
    BY ReceivedWritten DEF Acks, Inv, TypeInv, TypeOK
  <2>2. m.ackSeq <= rcvNext
    BY <1>4 DEF Inv, AckInv
  <2>3. base' \in (base + 1)..rcvNext /\ base # N
    BY <1>4, <2>1, <2>2
  <2>4. Outcome = "open"
    BY <1>4, <2>3 DEF Inv, PastInv, PastAcks, Outcome
  <2> QED
    BY <1>1, <1>2, <2>3, <2>4 DEF Abstract!Next, Abstract!Acknowledge
<1> QED
  BY <1>3, <1>4, BaseStep DEF Next

LEMMA EnvironmentMaps ==
    ASSUME Inv, Environment
    PROVE  [Abstract!Next]_(Abstract!vars)
<1>1. UNCHANGED <<mpc, status, nextSeq, base>>
  BY EnvironmentEffects
<1>2. Written' = Written /\ Outcome' = Outcome
  BY <1>1 DEF Written, Outcome, Exited
<1>3. rcvNext \in 0..N /\ rcvNext' \in 0..N /\ rcvNext' >= rcvNext
  BY RcvStep DEF Inv, Next
<1>4. Written \in Nat /\ rcvNext' <= Written
  <2>1. TypeInv' /\ WrittenInv'
    BY InvStep DEF Inv, Next
  <2>2. (Written \in Nat /\ rcvNext <= Written)'
    BY <2>1, ReceivedWritten, PTL
  <2> QED
    BY <1>2, <2>2
<1>5. CASE rcvNext' = rcvNext
  BY <1>1, <1>2, <1>5 DEF Abstract!vars
<1>6. CASE rcvNext' # rcvNext
  <2>1. rcvNext' \in (rcvNext + 1)..Written
    BY <1>3, <1>4, <1>6
  <2> QED
    BY <1>1, <1>2, <2>1 DEF Abstract!Next, Abstract!Deliver
<1> QED
  BY <1>5, <1>6

\* The three-threaded sender implements the reliable transfer: packets are
\* delivered in order, acknowledged only once delivered, and Close() reports
\* success only when all of them are acknowledged.
THEOREM Implementation == Spec => ImplementsReliableTransfer
<1>1. Init => Abstract!Init
  <2> SUFFICES ASSUME Init PROVE Abstract!Init
    OBVIOUS
  <2>1. mpc = "send" /\ nextSeq = 0 /\ base = 0
    BY DEF Init
  <2>2. Written = 0 /\ Outcome = "open"
    BY <2>1 DEF Written, Outcome, Exited
  <2>3. rcvNext \in 0..N /\ rcvNext <= Written
    BY InitInv, ReceivedWritten DEF Inv
  <2>4. rcvNext = 0
    BY <2>2, <2>3
  <2> QED
    BY <2>1, <2>2, <2>4 DEF Abstract!Init
<1>2. Inv /\ [Next]_vars => [Abstract!Next]_(Abstract!vars)
  <2> SUFFICES ASSUME Inv, [Next]_vars PROVE [Abstract!Next]_(Abstract!vars)
    OBVIOUS
  <2>1. CASE SendThread \/ UNCHANGED vars
    <3>1. UNCHANGED <<mpc, status, nextSeq, base, got>>
      BY <2>1, SendThreadEffects DEF vars, mainVars, slotVars, ackVars
    <3>2. rcvNext' = rcvNext
      BY <3>1 DEF rcvNext
    <3> QED
      BY <3>1, <3>2 DEF Abstract!vars, Written, Outcome, Exited
  <2> QED
    BY <2>1, SendMaps, CloseMaps, RecvThreadMaps, EnvironmentMaps DEF Next, Done
<1> QED
  BY <1>1, <1>2, InitInv, InvStep, PTL
     DEF Spec, ImplementsReliableTransfer, Abstract!Spec
==============================================================================
