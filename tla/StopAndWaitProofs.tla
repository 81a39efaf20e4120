-------------------------- MODULE StopAndWaitProofs --------------------------
(***************************************************************************)
(* Theorems about StopAndWait: its types, the order of what the receiver   *)
(* holds, and the implementation of ReliableTransfer, for every number of  *)
(* packets and every bound.                                                *)
(***************************************************************************)
EXTENDS StopAndWait, FiniteSetTheorems, TLAPS

------------------------------------------------------------------------------
(* The bags of datagrams.                                                     *)

\* sendto() leaves a bag of datagrams, whether or not the cap drops m.
LEMMA PutType ==
    ASSUME NEW S, NEW q \in [S -> Nat], NEW m, NEW cap
    PROVE  Put(q, m, cap) \in [S -> Nat]
<1>1. ASSUME NEW x \in S
      PROVE  [q EXCEPT ![m] = @ + 1][x] \in Nat
    <2>1. CASE x = m
        BY <2>1
    <2>2. CASE x # m
        BY <2>2
    <2> QED
        BY <2>1, <2>2
<1>2. [q EXCEPT ![m] = @ + 1] \in [S -> Nat]
    BY <1>1
<1> QED
    BY <1>2 DEF Put

\* recvfrom(), or a loss, leaves a bag of datagrams.
LEMMA TakeType ==
    ASSUME NEW S, NEW q \in [S -> Nat], NEW m \in S, IsIn(m, q)
    PROVE  Take(q, m) \in [S -> Nat]
BY DEF Take, IsIn

\* Nothing but m can be new in the bag after sendto().
LEMMA PutMembers ==
    ASSUME NEW S, NEW q \in [S -> Nat], NEW m, NEW cap, NEW x \in S,
           IsIn(x, Put(q, m, cap))
    PROVE  x = m \/ IsIn(x, q)
BY DEF Put, IsIn

\* Nothing is new in the bag after recvfrom() or a loss.
LEMMA TakeMembers ==
    ASSUME NEW S, NEW q \in [S -> Nat], NEW m \in S, NEW x \in S,
           IsIn(x, Take(q, m))
    PROVE  IsIn(x, q)
BY DEF Take, IsIn

------------------------------------------------------------------------------
(* How many datagrams are under way.                                          *)

\* The copies Load() counts.  A bag whose copies are all counted is one no
\* datagram of which has more than cap copies.
Copies(q, cap) == {x \in (DOMAIN q) \X (1..cap) : x[2] <= q[x[1]]}
Counted(S, q, cap) ==
    q \in [S -> Nat] /\ (\A m \in S : q[m] <= cap) /\ IsFiniteSet(Copies(q, cap))

LEMMA LoadIs == \A q, cap : Load(q, cap) = Cardinality(Copies(q, cap))
BY DEF Load, Copies

LEMMA LoadType ==
    ASSUME NEW S, NEW q, NEW cap, Counted(S, q, cap)
    PROVE  Load(q, cap) \in Nat
BY LoadIs, FS_CardinalityType DEF Counted

\* An empty queue.
LEMMA LoadNone ==
    ASSUME NEW S, NEW cap \in Nat
    PROVE  Counted(S, NoDatagrams(S), cap) /\ Load(NoDatagrams(S), cap) = 0
<1>1. Copies(NoDatagrams(S), cap) = {}
    BY DEF Copies, NoDatagrams
<1>2. NoDatagrams(S) \in [S -> Nat] /\ \A m \in S : NoDatagrams(S)[m] <= cap
    BY DEF NoDatagrams
<1> QED
    BY <1>1, <1>2, LoadIs, FS_EmptySet DEF Counted

\* A datagram with cap copies fills the queue.
LEMMA LoadFull ==
    ASSUME NEW S, NEW cap \in Nat, NEW q, Counted(S, q, cap), NEW m \in S, q[m] = cap
    PROVE  Load(q, cap) >= cap
<1> DEFINE g == [i \in 1..cap |-> <<m, i>>]
<1>1. \A i \in 1..cap : <<m, i>> \in Copies(q, cap)
    BY DEF Copies, Counted
<1>2. g \in Injection(1..cap, Copies(q, cap))
    <2>1. g \in [1..cap -> Copies(q, cap)]
        BY <1>1
    <2>2. \A i, j \in 1..cap : g[i] = g[j] => i = j
        OBVIOUS
    <2> QED
        BY <2>1, <2>2 DEF Injection, IsInjective
<1>3. Cardinality(1..cap) <= Cardinality(Copies(q, cap))
    BY <1>2, FS_Injection DEF Counted
<1>4. Cardinality(1..cap) = cap
    BY FS_Interval
<1> QED
    BY <1>3, <1>4, LoadIs

\* sendto(): one more under way, or none.
LEMMA LoadPut ==
    ASSUME NEW S, NEW cap \in Nat, NEW q, Counted(S, q, cap), NEW m \in S
    PROVE  /\ Counted(S, Put(q, m, cap), cap)
           /\ Load(Put(q, m, cap), cap) <= Load(q, cap) + 1
<1>1. CASE ~(Load(q, cap) < cap)
    BY <1>1, LoadType DEF Put
<1>2. CASE Load(q, cap) < cap
    <2> DEFINE p == [q EXCEPT ![m] = @ + 1]
    <2>1. Put(q, m, cap) = p
        BY <1>2 DEF Put
    <2>2. /\ q \in [S -> Nat] /\ (\A x \in S : q[x] <= cap) /\ q[m] # cap
          /\ IsFiniteSet(Copies(q, cap)) /\ Load(q, cap) \in Nat
        <3>1. q[m] # cap
            BY <1>2, LoadFull, LoadType
        <3> QED
            BY <3>1, LoadType DEF Counted
    <2>3. p \in [S -> Nat] /\ \A x \in S : p[x] = IF x = m THEN q[m] + 1 ELSE q[x]
        BY <2>2
    <2>4. \A x \in S : p[x] <= cap
        BY <2>2, <2>3
    <2>5. Copies(p, cap) = Copies(q, cap) \cup {<<m, q[m] + 1>>}
        <3>1. DOMAIN p = S /\ DOMAIN q = S
            BY <2>2, <2>3
        <3>2. ASSUME NEW x \in S, NEW k \in 1..cap
              PROVE  k <= p[x] <=> k <= q[x] \/ <<x, k>> = <<m, q[m] + 1>>
            BY <2>2, <2>3
        <3>3. q[m] + 1 \in 1..cap
            BY <2>2
        <3> QED
            BY <3>1, <3>2, <3>3 DEF Copies
    <2>6. /\ IsFiniteSet(Copies(p, cap))
          /\ Cardinality(Copies(p, cap)) <= Cardinality(Copies(q, cap)) + 1
        <3>1. Cardinality(Copies(q, cap)) \in Nat
            BY <2>2, FS_CardinalityType
        <3> DEFINE C == Copies(q, cap)
        <3> HIDE DEF C, p
        <3>2. IsFiniteSet(C) /\ Cardinality(C) \in Nat
            BY <2>2, <3>1 DEF C
        <3>3. /\ IsFiniteSet(C \cup {<<m, q[m] + 1>>})
              /\ Cardinality(C \cup {<<m, q[m] + 1>>})
                    \in {Cardinality(C), Cardinality(C) + 1}
            BY <3>2, FS_AddElement
        <3> QED
            BY <2>5, <3>2, <3>3 DEF C
    <2> QED
        BY <2>1, <2>3, <2>4, <2>6, LoadIs DEF Counted
<1> QED
    BY <1>1, <1>2

\* recvfrom(), or a loss: one less.
LEMMA LoadTake ==
    ASSUME NEW S, NEW cap \in Nat, NEW q, Counted(S, q, cap), NEW m \in S, IsIn(m, q)
    PROVE  /\ Counted(S, Take(q, m), cap)
           /\ Load(Take(q, m), cap) = Load(q, cap) - 1
<1> DEFINE p == [q EXCEPT ![m] = @ - 1]
<1>1. /\ q \in [S -> Nat] /\ (\A x \in S : q[x] <= cap) /\ q[m] > 0
      /\ IsFiniteSet(Copies(q, cap))
    BY DEF Counted, IsIn
<1>2. p \in [S -> Nat] /\ \A x \in S : p[x] = IF x = m THEN q[m] - 1 ELSE q[x]
    BY <1>1
<1>3. \A x \in S : p[x] <= cap
    BY <1>1, <1>2
<1>4. Copies(p, cap) = Copies(q, cap) \ {<<m, q[m]>>} /\ <<m, q[m]>> \in Copies(q, cap)
    <2>1. DOMAIN p = S /\ DOMAIN q = S
        BY <1>1, <1>2
    <2>2. ASSUME NEW x \in S, NEW k \in 1..cap
          PROVE  k <= p[x] <=> k <= q[x] /\ <<x, k>> # <<m, q[m]>>
        BY <1>1, <1>2
    <2>3. q[m] \in 1..cap
        BY <1>1
    <2> QED
        BY <2>1, <2>2, <2>3 DEF Copies
<1>5. /\ IsFiniteSet(Copies(p, cap))
      /\ Cardinality(Copies(p, cap)) = Cardinality(Copies(q, cap)) - 1
    BY <1>1, <1>4, FS_RemoveElement
<1> QED
    BY <1>2, <1>3, <1>5, LoadIs DEF Counted, Take

USE StopAndWaitAssumption

------------------------------------------------------------------------------
(* The inductive invariant.                                                   *)

\* Where the program is says how far the transfer has come, and that Send()
\* leaves its loop through the literal 4 and never through the loop's own test.
PcInv ==
    /\ off = base
    /\ pc \in {"open", "syn", "synWait"} => base = 0 /\ sends = 0 /\ currAttempt <= 2
    /\ pc \in {"data", "dataWait"} => base < N /\ currAttempt <= 4
    /\ pc = "dataWait" => sends > 0
    /\ pc \in {"fin", "finWait", "closed"} => base = N /\ sends = 0
    /\ pc = "finWait" => currAttempt < MAX_ATTEMPTS
    /\ sends > 0 => base < N

\* What is on its way to the receiver has been accepted and is what main()
\* wanted sent under its number; what comes back, the receiver holds.
NetInv == \A d \in Pkts : IsIn(d, net) /\ d.kind = "DATA" =>
            d.data = d.seq /\ d.seq < Accepted

SockInv == \A m \in Replies : IsIn(m, sockq) => m.ackSeq <= Len(got)

\* The receiver holds everything acknowledged, and nothing not accepted.
GotInv == base <= Len(got) /\ Len(got) <= Accepted

Inv == TypeOK /\ PcInv /\ NetInv /\ SockInv /\ GotInv /\ Delivered

LEMMA InitInv == Init => Inv
<1> SUFFICES ASSUME Init PROVE Inv
    OBVIOUS
<1>1. net \in [Pkts -> Nat] /\ sockq \in [Replies -> Nat]
    BY DEF Init, NoDatagrams
<1>3. got = <<>> /\ Len(got) = 0 /\ DOMAIN got = {} /\ got \in Seq(Seqs)
    BY DEF Init
<1>4. TypeOK
    BY <1>1, <1>3 DEF Init, TypeOK
<1>5. NetInv /\ SockInv
    BY DEF Init, NetInv, SockInv, NoDatagrams, IsIn
<1>6. PcInv /\ GotInv /\ Delivered
    BY <1>3 DEF Init, PcInv, GotInv, Delivered, Accepted
<1> QED
    BY <1>4, <1>5, <1>6 DEF Inv

------------------------------------------------------------------------------
(* Three kinds of steps.  Those of the sender that touch neither the network  *)
(* nor the receiver; those that put a datagram on the wire; those that take   *)
(* one from the socket.                                                       *)

LEMMA QuietStep ==
    ASSUME Inv, TypeOK', PcInv', UNCHANGED <<base, off, net, sockq, got, sends>>
    PROVE  Inv'
BY DEF Inv, NetInv, SockInv, GotInv, Delivered, Accepted

LEMMA ExitStep ==
    ASSUME Inv, NEW s \in {"INVALID_NAME", "FAILED_SEND", "FAILED_RECV", "TIMEOUT",
                           "select"}, Exit(s)
    PROVE  Inv'
<1>1. TypeOK'
    BY DEF Inv, TypeOK, Exit
<1>2. PcInv'
    BY DEF Inv, PcInv, Exit
<1> QED
    BY <1>1, <1>2, QuietStep DEF Exit

\* sendto(): the packet's number is base and its payload the one at off, so
\* what NetInv says of it follows from off = base.
LEMMA SendStep ==
    ASSUME Inv, PcInv', NEW kind, NEW seq, NEW data,
           NEW w \in {"synWait", "dataWait", "finWait"}, SendTo(kind, seq, data, w),
           sends' \in Nat, sends' >= sends,
           kind = "DATA" => seq = base /\ data = base /\ sends' > 0
    PROVE  Inv'
<1>1. net' \in [Pkts -> Nat]
    BY PutType DEF Inv, TypeOK, SendTo
<1>2. TypeOK'
    BY <1>1 DEF Inv, TypeOK, SendTo
<1>3. Accepted' >= Accepted /\ Accepted \in Nat /\ Accepted' \in Nat
    BY DEF Inv, TypeOK, SendTo, Accepted
<1>4. NetInv'
    <2> SUFFICES ASSUME NEW d \in Pkts, IsIn(d, net'), d.kind = "DATA"
                 PROVE  d.data = d.seq /\ d.seq < Accepted'
        BY DEF NetInv
    <2>1. d = [kind |-> kind, seq |-> seq, data |-> data] \/ IsIn(d, net)
        <3>1. IsIn(d, Put(net, [kind |-> kind, seq |-> seq, data |-> data], NetCap))
            BY DEF SendTo
        <3>2. net \in [Pkts -> Nat]
            BY DEF Inv, TypeOK
        <3> QED
            BY <3>1, <3>2, PutMembers
    <2>2. CASE IsIn(d, net)
        <3>1. d.data = d.seq /\ d.seq < Accepted /\ d.seq \in Nat
            BY <2>2 DEF Inv, NetInv, Pkts, Seqs
        <3> QED
            BY <1>3, <3>1
    <2>3. CASE d = [kind |-> kind, seq |-> seq, data |-> data]
        <3>1. d.seq = base /\ d.data = base /\ sends' > 0
            BY <2>3
        <3>2. Accepted' = base + 1
            BY <3>1 DEF Inv, PcInv, SendTo, Accepted
        <3> QED
            BY <3>1, <3>2 DEF Inv, TypeOK
    <2> QED
        BY <2>1, <2>2, <2>3
<1>5. SockInv' /\ Delivered'
    BY DEF Inv, SockInv, Delivered, SendTo
<1>6. GotInv'
    BY <1>3 DEF Inv, TypeOK, GotInv, SendTo
<1> QED
    BY <1>2, <1>4, <1>5, <1>6 DEF Inv

\* recvfrom(), when the sender's own variables are in order afterwards.
LEMMA ReceiveStep ==
    ASSUME Inv, NEW m \in Replies, NEW w, Receive(w, m), PcInv',
           pc' \in {"syn", "data", "fin", "closed"}, currAttempt' \in 0..MAX_ATTEMPTS,
           off' \in 0..N, base' \in 0..N, sends' \in Nat,
           Accepted' = Accepted, base' <= Len(got)
    PROVE  Inv'
<1>1. sockq' \in [Replies -> Nat]
    BY TakeType DEF Inv, TypeOK, Receive
<1>2. UNCHANGED <<status, totalTimeouts, net, got>>
    BY DEF Receive
<1>3. TypeOK'
    BY <1>1, <1>2 DEF Inv, TypeOK
<1>4. SockInv'
    <2> SUFFICES ASSUME NEW r \in Replies, IsIn(r, sockq')
                 PROVE  r.ackSeq <= Len(got')
        BY DEF SockInv
    <2>1. IsIn(r, sockq)
        BY TakeMembers DEF Inv, TypeOK, Receive
    <2> QED
        BY <1>2, <2>1 DEF Inv, SockInv
<1>5. NetInv' /\ GotInv' /\ Delivered'
    BY <1>2 DEF Inv, NetInv, GotInv, Delivered
<1> QED
    BY <1>3, <1>4, <1>5 DEF Inv

------------------------------------------------------------------------------
(* Every step keeps the invariant.                                            *)

\* Open(): the SYN loop.
LEMMA OpenInv == ASSUME Inv, Open PROVE Inv'
<1>1. CASE Resolve
    <2>1. TypeOK' /\ PcInv'
        BY <1>1 DEF Inv, TypeOK, PcInv, Resolve
    <2> QED
        BY <1>1, <2>1, QuietStep DEF Resolve
<1>2. CASE SynSend
    <2>1. SendTo("SYN", 0, None, "synWait") /\ sends' = sends /\ pc = "syn"
        BY <1>2 DEF SynSend
    <2>2. PcInv'
        BY <2>1 DEF Inv, PcInv, SendTo
    <2>3. sends \in Nat
        BY DEF Inv, TypeOK
    <2> QED
        BY <2>1, <2>2, <2>3, SendStep
<1>3. CASE SynTimeout
    <2>1. CASE currAttempt # 2 /\ Timeout("synWait", "syn")
        <3>1. TypeOK' /\ PcInv'
            BY <2>1 DEF Inv, TypeOK, PcInv, Timeout
        <3> QED
            BY <2>1, <3>1, QuietStep DEF Timeout
    <2> QED
        BY <1>3, <2>1, ExitStep DEF SynTimeout
<1>4. ASSUME NEW m \in Replies, SynRecv(m) PROVE Inv'
    <2>1. /\ Receive("synWait", m) /\ pc = "synWait"
          /\ \/ pc' = "data" /\ currAttempt' = 0
             \/ pc' = "syn" /\ currAttempt' = currAttempt
          /\ UNCHANGED <<off, base, sends>>
        BY <1>4 DEF SynRecv, Receive
    <2>2. PcInv' /\ base = 0
        BY <2>1 DEF Inv, PcInv
    <2>3. /\ off' \in 0..N /\ base' \in 0..N /\ sends' \in Nat
          /\ currAttempt' \in 0..MAX_ATTEMPTS
        BY <2>1 DEF Inv, TypeOK
    <2>4. Accepted' = Accepted /\ base' <= Len(got)
        BY <2>1 DEF Inv, GotInv, Accepted
    <2> QED
        BY <2>1, <2>2, <2>3, <2>4, ReceiveStep
<1> QED
    BY <1>1, <1>2, <1>3, <1>4 DEF Open

\* Send() and main()'s loop: an acknowledgment moves base and off together.
LEMMA SendInv == ASSUME Inv, Send PROVE Inv'
<1>1. CASE DataSend
    <2>1. pc = "data" /\ currAttempt < MAX_ATTEMPTS
        BY <1>1 DEF DataSend, Inv, PcInv, TypeOK
    <2>2. SendTo("DATA", base, off, "dataWait") /\ sends' = sends + 1
        BY <1>1, <2>1 DEF DataSend
    <2>3. sends \in Nat /\ off = base
        BY DEF Inv, TypeOK, PcInv
    <2>4. PcInv'
        BY <2>1, <2>2, <2>3 DEF Inv, PcInv, SendTo
    <2> QED
        BY <2>2, <2>3, <2>4, SendStep
<1>2. CASE DataTimeout
    <2>1. CASE ~LastAttempt /\ Timeout("dataWait", "data")
        <3>1. TypeOK' /\ PcInv'
            BY <2>1 DEF Inv, TypeOK, PcInv, Timeout, LastAttempt
        <3> QED
            BY <2>1, <3>1, QuietStep DEF Timeout
    <2> QED
        BY <1>2, <2>1, ExitStep DEF DataTimeout
<1>3. ASSUME NEW m \in Replies, DataRecv(m) PROVE Inv'
    <2>1. Receive("dataWait", m) /\ pc = "dataWait"
        BY <1>3 DEF DataRecv, Receive
    <2>2. /\ off = base /\ base < N /\ base \in Nat /\ sends > 0 /\ sends \in Nat
          /\ currAttempt \in 0..MAX_ATTEMPTS
          /\ currAttempt <= 4 /\ base <= Len(got) /\ Len(got) \in Nat
        BY <2>1 DEF Inv, TypeOK, PcInv, GotInv
    <2>3. CASE IsExpected(m)
        <3>1. /\ base' = base + 1 /\ off' = off + 1 /\ sends' = 0 /\ currAttempt' = 0
              /\ pc' = IF off + 1 < N THEN "data" ELSE "fin"
            BY <1>3, <2>3 DEF DataRecv, Returned
        <3>2. m.ackSeq <= Len(got)
            BY <2>1 DEF Inv, SockInv, Receive
        <3>3. base' <= Len(got)
            BY <2>3, <3>1, <3>2 DEF IsExpected
        <3>4. PcInv'
            BY <2>2, <3>1 DEF PcInv
        <3>5. Accepted' = Accepted
            BY <2>2, <3>1 DEF Accepted
        <3>6. off' \in 0..N /\ base' \in 0..N /\ pc' \in {"data", "fin"}
            BY <2>2, <3>1
        <3> QED
            BY <2>1, <2>2, <3>1, <3>3, <3>4, <3>5, <3>6, ReceiveStep
    <2>4. CASE ~IsExpected(m)
        <3>1. pc' = "data" /\ UNCHANGED <<off, base, currAttempt, sends>>
            BY <1>3, <2>4 DEF DataRecv
        <3>2. PcInv'
            BY <2>2, <3>1 DEF PcInv
        <3>3. Accepted' = Accepted /\ off' \in 0..N /\ base' \in 0..N
            BY <2>2, <3>1 DEF Accepted
        <3> QED
            BY <2>1, <2>2, <3>1, <3>2, <3>3, ReceiveStep
    <2> QED
        BY <2>3, <2>4
<1> QED
    BY <1>1, <1>2, <1>3 DEF Send

\* Close(): the FIN loop.
LEMMA CloseInv == ASSUME Inv, Close PROVE Inv'
<1>1. CASE FinSend
    <2>1. /\ SendTo("FIN", base, None, "finWait") /\ sends' = sends /\ pc = "fin"
          /\ currAttempt < MAX_ATTEMPTS
        BY <1>1 DEF FinSend, FinAttemptsLeft
    <2>2. PcInv'
        BY <2>1 DEF Inv, PcInv, SendTo
    <2>3. sends \in Nat
        BY DEF Inv, TypeOK
    <2> QED
        BY <2>1, <2>2, <2>3, SendStep
<1>2. CASE FinExhausted
    <2>1. TypeOK' /\ PcInv'
        BY <1>2 DEF Inv, TypeOK, PcInv, FinExhausted
    <2> QED
        BY <1>2, <2>1, QuietStep DEF FinExhausted
<1>3. CASE FinTimeout
    <2>1. TypeOK' /\ PcInv'
        BY <1>3 DEF Inv, TypeOK, PcInv, FinTimeout, Timeout
    <2> QED
        BY <1>3, <2>1, QuietStep DEF FinTimeout, Timeout
<1>4. ASSUME NEW m \in Replies, FinRecv(m) PROVE Inv'
    <2>1. /\ Receive("finWait", m) /\ pc = "finWait" /\ pc' \in {"closed", "fin"}
          /\ UNCHANGED <<off, base, currAttempt, sends>>
        BY <1>4 DEF FinRecv, Receive
    <2>3. PcInv'
        BY <2>1 DEF Inv, PcInv
    <2>4. /\ off' \in 0..N /\ base' \in 0..N /\ sends' \in Nat
          /\ currAttempt' \in 0..MAX_ATTEMPTS
        BY <2>1 DEF Inv, TypeOK
    <2>5. Accepted' = Accepted /\ base' <= Len(got)
        BY <2>1 DEF Inv, GotInv, Accepted
    <2> QED
        BY <2>1, <2>3, <2>4, <2>5, ReceiveStep
<1> QED
    BY <1>1, <1>2, <1>3, <1>4 DEF Close

\* The receiver's answers carry what it holds; a packet it stores is the next
\* one of main()'s buffer.
LEMMA EnvironmentInv == ASSUME Inv, Environment PROVE Inv'
<1>1. PICK d \in Pkts : RcvData(d) \/ RcvControl(d) \/ Lose(d)
    BY DEF Environment
<1>2. /\ net' = Take(net, d) /\ IsIn(d, net)
      /\ UNCHANGED <<pc, status, off, base, currAttempt, totalTimeouts, sends>>
    BY <1>1 DEF RcvData, RcvControl, Lose, senderUnchanged
<1>3. net' \in [Pkts -> Nat]
    BY <1>2, TakeType DEF Inv, TypeOK
<1>4. Accepted' = Accepted
    BY <1>2 DEF Accepted
<1>5. NetInv'
    <2> SUFFICES ASSUME NEW x \in Pkts, IsIn(x, net'), x.kind = "DATA"
                 PROVE  x.data = x.seq /\ x.seq < Accepted'
        BY DEF NetInv
    <2>1. IsIn(x, net)
        BY <1>2, TakeMembers DEF Inv, TypeOK
    <2> QED
        BY <1>4, <2>1 DEF Inv, NetInv
<1>6. PcInv'
    BY <1>2 DEF Inv, PcInv
<1>7. /\ got' \in Seq(Seqs) /\ Len(got') \in Nat /\ Len(got') >= Len(got)
      /\ Len(got') <= Accepted /\ Delivered'
    <2>1. CASE got' = got
        BY <2>1 DEF Inv, TypeOK, GotInv, Delivered
    <2>2. CASE RcvData(d) /\ d.seq = Len(got)
        <3>1. got' = Append(got, d.data) /\ d.kind = "DATA" /\ IsIn(d, net)
            BY <2>2 DEF RcvData
        <3>2. d.data = d.seq /\ d.seq < Accepted
            BY <3>1 DEF Inv, NetInv
        <3>3. d.data \in Seqs
            BY <3>1 DEF Pkts
        <3>4. got \in Seq(Seqs)
            BY DEF Inv, TypeOK
        <3>5. /\ got' \in Seq(Seqs) /\ Len(got') = Len(got) + 1
              /\ Len(got) \in Nat
            BY <3>1, <3>3, <3>4
        <3>6. Delivered'
            <4> SUFFICES ASSUME NEW i \in DOMAIN got' PROVE got'[i] = i - 1
                BY DEF Delivered
            <4>1. i \in 1..(Len(got) + 1)
                BY <3>5
            <4>2. CASE i = Len(got) + 1
                <5>1. got'[i] = d.data
                    BY <3>1, <3>3, <3>4, <4>2
                <5> QED
                    BY <2>2, <3>2, <3>5, <4>2, <5>1
            <4>3. CASE i \in 1..Len(got)
                <5>1. got'[i] = got[i]
                    BY <3>1, <3>3, <3>4, <4>3
                <5>2. i \in DOMAIN got
                    BY <3>4, <4>3
                <5> QED
                    BY <5>1, <5>2 DEF Inv, Delivered
            <4> QED
                BY <3>5, <4>1, <4>2, <4>3
        <3>7. Accepted \in Nat
            BY DEF Inv, TypeOK, Accepted
        <3> QED
            BY <2>2, <3>2, <3>5, <3>6, <3>7
    <2> QED
        BY <1>1, <2>1, <2>2 DEF RcvData, RcvControl, Lose
<1>8. GotInv'
    BY <1>2, <1>4, <1>7 DEF Inv, TypeOK, GotInv
<1>9. sockq' \in [Replies -> Nat] /\ SockInv'
    <2>1. \A kind, n : Reply(kind, n) => sockq' \in [Replies -> Nat]
        BY PutType DEF Inv, TypeOK, Reply
    <2>2. ASSUME NEW m \in Replies, IsIn(m, sockq)
          PROVE  m.ackSeq <= Len(got')
        <3>1. m.ackSeq <= Len(got) /\ m.ackSeq \in Nat /\ Len(got) \in Nat
            BY <2>2 DEF Inv, SockInv, Replies, TypeOK
        <3> QED
            BY <1>7, <3>1
    <2>3. CASE sockq' = sockq
        BY <2>2, <2>3 DEF Inv, TypeOK, SockInv
    <2>4. ASSUME NEW kind, NEW n \in Nat, Reply(kind, n), n <= Len(got')
          PROVE  SockInv'
        <3> SUFFICES ASSUME NEW m \in Replies, IsIn(m, sockq')
                     PROVE  m.ackSeq <= Len(got')
            BY DEF SockInv
        <3>1. m = [kind |-> kind, ackSeq |-> n] \/ IsIn(m, sockq)
            BY <2>4, PutMembers DEF Inv, TypeOK, Reply
        <3> QED
            BY <2>2, <2>4, <3>1
    <2>5. Len(got) \in Nat
        BY DEF Inv, TypeOK
    <2>6. \/ Reply("ACK", Len(got')) \/ Reply("SYN-ACK", 0)
          \/ Reply("FIN-ACK", Len(got)) \/ sockq' = sockq
        BY <1>1 DEF RcvData, RcvControl, Lose
    <2> QED
        BY <1>7, <2>1, <2>3, <2>4, <2>5, <2>6
<1>10. TypeOK'
    BY <1>2, <1>3, <1>7, <1>9 DEF Inv, TypeOK
<1> QED
    BY <1>5, <1>6, <1>7, <1>8, <1>9, <1>10 DEF Inv

\* Every step of main(), of the receiver and of the network keeps the invariant.
LEMMA Invariant == Spec => []Inv
<1>1. Inv /\ [Next]_vars => Inv'
    <2> SUFFICES ASSUME Inv, [Next]_vars PROVE Inv'
        OBVIOUS
    <2>1. CASE IOFail
        BY <2>1, ExitStep DEF IOFail
    <2>2. CASE UNCHANGED vars
        BY <2>2 DEF vars, Inv, TypeOK, PcInv, NetInv, SockInv, GotInv, Delivered, Accepted
    <2> QED
        BY <2>1, <2>2, OpenInv, SendInv, CloseInv, EnvironmentInv DEF Next, main, Done
<1> QED
    BY <1>1, InitInv, PTL DEF Spec

\* Every variable keeps its type; in particular the sequence number never passes
\* N, and no loop counts more than MAX_ATTEMPTS timeouts.
THEOREM TypeCorrect == Spec => []TypeOK
BY Invariant, PTL DEF Inv

\* The receiver's buffer is always a prefix of main()'s buffer.
THEOREM DeliveredInOrder == Spec => []Delivered
BY Invariant, PTL DEF Inv

------------------------------------------------------------------------------
(* TIMEOUT.                                                                   *)

\* Each attempt but the current one was a transmission, and stale answers only
\* add to them; a TIMEOUT of Send() comes after the attempt with the literal 4.
AttemptInv ==
    /\ pc = "data" => sends >= currAttempt
    /\ pc = "dataWait" => sends > currAttempt
    /\ status = "TIMEOUT" => pc = "exit"
    /\ status = "TIMEOUT" /\ sends > 0 => sends > 4

LEMMA AttemptExit ==
    ASSUME Inv, AttemptInv, NEW s, Exit(s), s = "TIMEOUT" => sends = 0 \/ sends > 4
    PROVE  AttemptInv'
BY DEF AttemptInv, Exit

LEMMA AttemptSend == ASSUME Inv, AttemptInv, Send PROVE AttemptInv'
<1>1. /\ sends \in Nat /\ currAttempt \in Nat
      /\ pc \in {"data", "dataWait"} => currAttempt < MAX_ATTEMPTS
    BY DEF Inv, TypeOK, PcInv
<1>2. CASE DataSend
    <2>1. /\ pc = "data" /\ pc' = "dataWait" /\ sends' = sends + 1
          /\ UNCHANGED <<status, currAttempt>>
        BY <1>1, <1>2 DEF DataSend, SendTo
    <2> QED
        BY <1>1, <2>1 DEF AttemptInv
<1>3. CASE ~LastAttempt /\ Timeout("dataWait", "data")
    <2>1. /\ pc = "dataWait" /\ pc' = "data" /\ currAttempt' = currAttempt + 1
          /\ UNCHANGED <<status, sends>>
        BY <1>3 DEF Timeout
    <2> QED
        BY <1>1, <2>1 DEF AttemptInv
<1>4. CASE LastAttempt /\ pc = "dataWait" /\ Exit("TIMEOUT")
    <2>1. sends > 4
        BY <1>1, <1>4 DEF AttemptInv, LastAttempt
    <2> QED
        BY <1>4, <2>1, AttemptExit
<1>5. ASSUME NEW m \in Replies, DataRecv(m) PROVE AttemptInv'
    <2>1. pc = "dataWait" /\ status' = status
        BY <1>5 DEF DataRecv, Receive
    <2>2. CASE IsExpected(m)
        <3>1. pc' \in {"data", "fin"} /\ currAttempt' = 0 /\ sends' = 0
            BY <1>5, <2>2 DEF DataRecv, Returned
        <3> QED
            BY <2>1, <3>1 DEF AttemptInv
    <2>3. CASE ~IsExpected(m)
        <3>1. pc' = "data" /\ UNCHANGED <<currAttempt, sends>>
            BY <1>5, <2>3 DEF DataRecv
        <3> QED
            BY <1>1, <2>1, <3>1 DEF AttemptInv
    <2> QED
        BY <2>2, <2>3
<1> QED
    BY <1>2, <1>3, <1>4, <1>5 DEF Send, DataTimeout

LEMMA AttemptOpen == ASSUME Inv, AttemptInv, Open PROVE AttemptInv'
<1>1. /\ pc \in {"open", "syn", "synWait"} => sends = 0
      /\ sends \in Nat /\ currAttempt \in Nat
    BY DEF Inv, TypeOK, PcInv
<1>2. CASE pc = "synWait" /\ Exit("TIMEOUT")
    BY <1>1, <1>2, AttemptExit
<1>3. CASE Resolve \/ SynSend \/ Timeout("synWait", "syn")
    <2>1. /\ status' = status /\ pc \in {"open", "syn", "synWait"}
          /\ pc' \in {"syn", "synWait"}
        BY <1>3 DEF Resolve, SynSend, SendTo, Timeout
    <2> QED
        BY <2>1 DEF AttemptInv
<1>4. ASSUME NEW m \in Replies, SynRecv(m) PROVE AttemptInv'
    <2>1. /\ pc = "synWait" /\ status' = status /\ sends' = sends
          /\ pc' = "syn" \/ (pc' = "data" /\ currAttempt' = 0)
        BY <1>4 DEF SynRecv, Receive
    <2> QED
        BY <1>1, <2>1 DEF AttemptInv
<1> QED
    BY <1>2, <1>3, <1>4 DEF Open, SynTimeout

LEMMA AttemptNext == Inv /\ AttemptInv /\ [Next]_vars => AttemptInv'
<1> SUFFICES ASSUME Inv, AttemptInv, [Next]_vars PROVE AttemptInv'
    OBVIOUS
<1>1. CASE Close
    <2>1. /\ pc \in {"fin", "finWait"} /\ pc' \in {"fin", "finWait", "closed"}
          /\ status' = status
        BY <1>1 DEF Close, FinSend, SendTo, FinExhausted, FinTimeout, Timeout, FinRecv,
                    Receive
    <2> QED
        BY <2>1 DEF AttemptInv
<1>2. CASE IOFail
    <2>1. PICK s \in {"INVALID_NAME", "FAILED_SEND", "FAILED_RECV", "select"} : Exit(s)
        BY <1>2 DEF IOFail
    <2> QED
        BY <2>1, AttemptExit
<1>3. CASE UNCHANGED <<pc, status, sends, currAttempt>>
    BY <1>3 DEF AttemptInv
<1> QED
    BY <1>1, <1>2, <1>3, AttemptOpen, AttemptSend
    DEF Next, main, Environment, RcvData, RcvControl, Lose, senderUnchanged, Done, vars

\* With the MAX_ATTEMPTS of SenderSocket.h, which the literal 4 of Send() has to
\* match, Send() reports TIMEOUT only after it has sent the packet MAX_ATTEMPTS
\* times.
THEOREM TimeoutIsExhaustion ==
    ASSUME MAX_ATTEMPTS = 5
    PROVE  Spec => []TimeoutMeansExhausted
<1>1. Init => AttemptInv
    BY DEF Init, AttemptInv
<1>2. Inv /\ AttemptInv => TimeoutMeansExhausted
    BY DEF Inv, TypeOK, AttemptInv, TimeoutMeansExhausted
<1> QED
    BY <1>1, <1>2, AttemptNext, Invariant, PTL DEF Spec

------------------------------------------------------------------------------
(* What is under way is bounded by the timeouts.                              *)

\* Load() counts every datagram of both directions.
BagInv == Counted(Pkts, net, NetCap) /\ Counted(Replies, sockq, NetCap)

Waits == pc \in {"synWait", "dataWait", "finWait", "exit"}

WayInv == BagInv /\ UnderWayByTimeouts

LEMMA UnderWayType == ASSUME BagInv PROVE UnderWay \in Nat
<1>1. Load(net, NetCap) \in Nat /\ Load(sockq, NetCap) \in Nat
    BY LoadType DEF BagInv
<1> QED
    BY <1>1 DEF UnderWay

\* sendto(): one datagram more, and main() waits for its answer.
LEMMA WaySend ==
    ASSUME Inv, WayInv, NEW kind, NEW seq, NEW data, NEW wait,
           ~Waits, wait \in {"synWait", "dataWait", "finWait"},
           SendTo(kind, seq, data, wait),
           [kind |-> kind, seq |-> seq, data |-> data] \in Pkts
    PROVE  WayInv'
<1> DEFINE m == [kind |-> kind, seq |-> seq, data |-> data]
<1>1. /\ net' = Put(net, m, NetCap) /\ sockq' = sockq
      /\ totalTimeouts' = totalTimeouts /\ pc' = wait
    BY DEF SendTo
<1>2. Counted(Pkts, net', NetCap) /\ Load(net', NetCap) <= Load(net, NetCap) + 1
    BY <1>1, LoadPut DEF WayInv, BagInv
<1>3. BagInv'
    BY <1>1, <1>2 DEF WayInv, BagInv
<1>4. /\ Load(net, NetCap) \in Nat /\ Load(sockq, NetCap) \in Nat
      /\ Load(net', NetCap) \in Nat /\ totalTimeouts \in Nat
    BY <1>2, LoadType DEF WayInv, BagInv, Inv, TypeOK
<1>5. Load(net, NetCap) + Load(sockq, NetCap) <= totalTimeouts
    BY <1>4 DEF WayInv, UnderWayByTimeouts, UnderWay, Waits
<1>6. Load(net', NetCap) + Load(sockq', NetCap) <= totalTimeouts' + 1
    BY <1>1, <1>2, <1>4, <1>5
<1>7. UnderWayByTimeouts'
    BY <1>1, <1>6 DEF UnderWayByTimeouts, UnderWay
<1> QED
    BY <1>3, <1>7 DEF WayInv

\* recvfrom(): one datagram less, and main() waits no more.
LEMMA WayReceive ==
    ASSUME Inv, WayInv, NEW wait, NEW m \in Replies, Receive(wait, m), Waits
    PROVE  WayInv'
<1>1. /\ sockq' = Take(sockq, m) /\ IsIn(m, sockq)
      /\ UNCHANGED <<net, totalTimeouts>>
    BY DEF Receive
<1>2. Counted(Replies, sockq', NetCap) /\ Load(sockq', NetCap) = Load(sockq, NetCap) - 1
    BY <1>1, LoadTake DEF WayInv, BagInv
<1>3. BagInv'
    BY <1>1, <1>2 DEF WayInv, BagInv
<1>4. /\ Load(net, NetCap) \in Nat /\ Load(sockq, NetCap) \in Nat
      /\ totalTimeouts \in Nat
    BY LoadType DEF WayInv, BagInv, Inv, TypeOK
<1>5. Load(net, NetCap) + Load(sockq, NetCap) <= totalTimeouts + 1
    BY <1>4 DEF WayInv, UnderWayByTimeouts, UnderWay, Waits
<1>6. Load(net', NetCap) + Load(sockq', NetCap) <= totalTimeouts'
    BY <1>1, <1>2, <1>4, <1>5
<1>7. Load(net', NetCap) + Load(sockq', NetCap) <= totalTimeouts' + 1
    BY <1>1, <1>2, <1>4, <1>6
<1>8. UnderWayByTimeouts'
    BY <1>1, <1>4, <1>6, <1>7 DEF UnderWayByTimeouts, UnderWay
<1> QED
    BY <1>3, <1>8 DEF WayInv

\* A step that leaves both queues alone, and counts a timeout when main() stops
\* waiting.
LEMMA WayQuiet ==
    ASSUME Inv, WayInv, UNCHANGED <<net, sockq>>,
           \/ totalTimeouts' = totalTimeouts /\ (Waits => Waits')
           \/ totalTimeouts' = totalTimeouts + 1
    PROVE  WayInv'
<1>1. BagInv'
    BY DEF WayInv, BagInv
<1>2. UnderWay' = UnderWay /\ UnderWay \in Nat /\ totalTimeouts \in Nat
    BY UnderWayType DEF WayInv, UnderWay, Inv, TypeOK
<1>3. UnderWayByTimeouts'
    BY <1>2 DEF WayInv, UnderWayByTimeouts, Waits
<1> QED
    BY <1>1, <1>3 DEF WayInv

LEMMA WayMain == ASSUME Inv, WayInv, main PROVE WayInv'
<1>1. /\ off = base /\ (pc = "data" => base \in Seqs) /\ base \in 0..N
      /\ pc = "data" => currAttempt < MAX_ATTEMPTS
    BY DEF Inv, TypeOK, PcInv, Seqs
<1>2. CASE SynSend \/ DataSend \/ FinSend
    <2>1. CASE SynSend
        <3>1. [kind |-> "SYN", seq |-> 0, data |-> None] \in Pkts
            BY DEF Pkts
        <3> QED
            BY <2>1, <3>1, WaySend DEF SynSend, Waits
    <2>2. CASE DataSend
        <3>1. pc = "data" /\ SendTo("DATA", base, off, "dataWait")
            BY <1>1, <2>2 DEF DataSend
        <3>2. [kind |-> "DATA", seq |-> base, data |-> off] \in Pkts
            BY <1>1, <3>1 DEF Pkts
        <3> QED
            BY <3>1, <3>2, WaySend DEF Waits
    <2>3. CASE FinSend
        <3>1. [kind |-> "FIN", seq |-> base, data |-> None] \in Pkts
            BY <1>1 DEF Pkts
        <3> QED
            BY <2>3, <3>1, WaySend DEF FinSend, Waits
    <2> QED
        BY <1>2, <2>1, <2>2, <2>3
<1>3. ASSUME NEW m \in Replies, SynRecv(m) \/ DataRecv(m) \/ FinRecv(m) PROVE WayInv'
    <2>1. PICK w \in {"synWait", "dataWait", "finWait"} : Receive(w, m)
        BY <1>3 DEF SynRecv, DataRecv, FinRecv
    <2>2. Waits
        BY <2>1 DEF Receive, Waits
    <2> QED
        BY <2>1, <2>2, WayReceive
<1>4. ASSUME NEW w, NEW a, Timeout(w, a) PROVE WayInv'
    BY <1>4, WayQuiet DEF Timeout
<1>5. CASE Exit("TIMEOUT") \/ Resolve \/ FinExhausted
    <2>1. UNCHANGED <<net, sockq, totalTimeouts>> /\ (Waits => Waits')
        BY <1>5 DEF Exit, Resolve, FinExhausted, Waits
    <2> QED
        BY <2>1, WayQuiet
<1> QED
    BY <1>2, <1>3, <1>4, <1>5
    DEF main, Open, SynTimeout, Send, DataTimeout, Close, FinTimeout

\* The receiver answers a datagram with one at most.
LEMMA WayEnvironment == ASSUME Inv, WayInv, Environment PROVE WayInv'
<1>1. PICK d \in Pkts : RcvData(d) \/ RcvControl(d) \/ Lose(d)
    BY DEF Environment
<1>2. /\ net' = Take(net, d) /\ IsIn(d, net) /\ UNCHANGED <<pc, totalTimeouts>>
    BY <1>1 DEF RcvData, RcvControl, Lose, senderUnchanged
<1>3. Counted(Pkts, net', NetCap) /\ Load(net', NetCap) = Load(net, NetCap) - 1
    BY <1>2, LoadTake DEF WayInv, BagInv
<1>4. /\ Counted(Replies, sockq', NetCap)
      /\ Load(sockq', NetCap) <= Load(sockq, NetCap) + 1
    <2>1. Load(sockq, NetCap) \in Nat /\ Counted(Replies, sockq, NetCap)
        BY LoadType DEF WayInv, BagInv
    <2>2. ASSUME NEW m \in Replies, sockq' = Put(sockq, m, NetCap)
          PROVE  /\ Counted(Replies, sockq', NetCap)
                 /\ Load(sockq', NetCap) <= Load(sockq, NetCap) + 1
        BY <2>1, <2>2, LoadPut
    <2>3. Len(got) \in 0..N /\ Len(got') \in 0..N
        <3>1. Inv'
            BY EnvironmentInv
        <3>2. Accepted \in 0..N /\ Accepted' = Accepted
            <4>1. /\ off \in 0..N /\ N \in Nat /\ (sends > 0 => off < N)
                  /\ UNCHANGED <<off, sends>>
                BY <1>1 DEF Inv, TypeOK, PcInv, RcvData, RcvControl, Lose, senderUnchanged
            <4> QED
                BY <4>1 DEF Accepted
        <3>3. /\ Len(got) \in Nat /\ Len(got') \in Nat
              /\ Len(got) <= Accepted /\ Len(got') <= Accepted'
            BY <3>1 DEF Inv, TypeOK, GotInv
        <3> QED
            BY <3>2, <3>3
    <2>4. /\ [kind |-> "ACK", ackSeq |-> Len(got')] \in Replies
          /\ [kind |-> "SYN-ACK", ackSeq |-> 0] \in Replies
          /\ [kind |-> "FIN-ACK", ackSeq |-> Len(got)] \in Replies
        BY <2>3 DEF Replies
    <2>5. (\E m \in Replies : sockq' = Put(sockq, m, NetCap)) \/ sockq' = sockq
        BY <1>1, <2>4 DEF RcvData, RcvControl, Lose, Reply
    <2> QED
        BY <2>1, <2>2, <2>5
<1>5. BagInv'
    BY <1>3, <1>4 DEF BagInv
<1>6. /\ Load(net, NetCap) \in Nat /\ Load(sockq, NetCap) \in Nat
      /\ Load(net', NetCap) \in Nat /\ Load(sockq', NetCap) \in Nat
    BY <1>3, <1>4, LoadType DEF WayInv, BagInv
<1>7. UnderWay' <= UnderWay /\ UnderWay \in Nat /\ UnderWay' \in Nat
    BY <1>3, <1>4, <1>6 DEF UnderWay
<1>8. totalTimeouts \in Nat
    BY DEF Inv, TypeOK
<1>9. UnderWayByTimeouts'
    BY <1>2, <1>7, <1>8 DEF WayInv, UnderWayByTimeouts
<1> QED
    BY <1>5, <1>9 DEF WayInv

\* For any number of packets, and however many acknowledgments turn out to be
\* stale, what is under way never exceeds the timeouts so far, plus the one
\* datagram whose answer the sender waits for.
THEOREM StaleAnswersDoNotMultiply == Spec => []UnderWayByTimeouts
<1>1. Init => WayInv
    <2> SUFFICES ASSUME Init PROVE WayInv
        OBVIOUS
    <2>1. /\ BagInv /\ Load(net, NetCap) = 0 /\ Load(sockq, NetCap) = 0
        BY LoadNone DEF Init, BagInv
    <2> QED
        BY <2>1 DEF Init, WayInv, UnderWayByTimeouts, UnderWay
<1>2. Inv /\ WayInv /\ [Next]_vars => WayInv'
    <2> SUFFICES ASSUME Inv, WayInv, [Next]_vars PROVE WayInv'
        OBVIOUS
    <2>1. CASE IOFail
        <3>1. UNCHANGED <<net, sockq, totalTimeouts>> /\ pc' = "exit"
            BY <2>1 DEF IOFail, Exit
        <3> QED
            BY <3>1, WayQuiet DEF Waits
    <2>2. CASE UNCHANGED vars
        <3>1. UNCHANGED <<net, sockq, totalTimeouts>> /\ (Waits => Waits')
            BY <2>2 DEF vars, Waits
        <3> QED
            BY <3>1, WayQuiet
    <2> QED
        BY <2>1, <2>2, WayMain, WayEnvironment DEF Next, Done
<1> QED
    BY <1>1, <1>2, Invariant, PTL DEF Spec, WayInv

------------------------------------------------------------------------------
(* Refinement.                                                                *)

\* Open() stutters, or fails.
LEMMA OpenMaps == ASSUME Inv, Open PROVE [Abstract!Next]_(Abstract!vars)
<1>1. UNCHANGED <<off, base, got, sends>>
    BY DEF Open, Resolve, SynSend, SynTimeout, SynRecv, Receive, SendTo, Timeout, Exit
<1>2. pc \in {"open", "syn", "synWait"} /\ pc' \notin {"closed"}
    BY DEF Open, Resolve, SynSend, SynTimeout, SynRecv, Receive, SendTo, Timeout, Exit
<1> QED
    BY <1>1, <1>2 DEF Abstract!Next, Abstract!Fail, Abstract!vars, Accepted, Outcome

\* The first transmission of a packet accepts it; its acknowledgment advances
\* what is acknowledged by one.
LEMMA SendMaps == ASSUME Inv, Send PROVE [Abstract!Next]_(Abstract!vars)
<1> USE DEF Abstract!vars, Accepted, Outcome
<1>1. CASE DataSend
    <2>1. pc = "data" /\ currAttempt < MAX_ATTEMPTS /\ off < N /\ off \in Nat
        BY <1>1 DEF DataSend, Inv, PcInv, TypeOK
    <2>2. /\ pc' = "dataWait" /\ sends' = sends + 1
          /\ UNCHANGED <<off, base, got>>
        BY <1>1, <2>1 DEF DataSend, SendTo
    <2>3. sends \in Nat
        BY DEF Inv, TypeOK
    <2>4. CASE sends = 0
        BY <2>1, <2>2, <2>4 DEF Abstract!Next, Abstract!Accept
    <2>5. CASE sends # 0
        BY <2>1, <2>2, <2>3, <2>5
    <2> QED
        BY <2>4, <2>5
<1>2. CASE DataTimeout
    <2>1. UNCHANGED <<off, base, got, sends>> /\ pc = "dataWait" /\ pc' \in {"data", "exit"}
        BY <1>2 DEF DataTimeout, Timeout, Exit
    <2> QED
        BY <2>1 DEF Abstract!Next, Abstract!Fail
<1>3. ASSUME NEW m \in Replies, DataRecv(m) PROVE [Abstract!Next]_(Abstract!vars)
    <2>1. pc = "dataWait" /\ pc' \in {"data", "fin"} /\ got' = got /\ IsIn(m, sockq)
        BY <1>3 DEF DataRecv, Receive, Returned
    <2>2. CASE IsExpected(m)
        <3>1. base' = base + 1 /\ off' = off + 1 /\ sends' = 0
            BY <1>3, <2>2 DEF DataRecv, Returned
        <3>2. sends > 0 /\ sends \in Nat /\ off \in Nat /\ base \in Nat /\ Len(got) \in Nat
            BY <2>1 DEF Inv, PcInv, TypeOK
        <3>3. base + 1 <= Len(got)
            BY <2>1, <2>2 DEF Inv, SockInv, IsExpected
        <3>4. base' \in (base + 1)..Len(got)
            BY <3>1, <3>2, <3>3
        <3> QED
            BY <2>1, <3>1, <3>2, <3>4 DEF Abstract!Next, Abstract!Acknowledge
    <2>3. CASE ~IsExpected(m)
        BY <1>3, <2>1, <2>3 DEF DataRecv
    <2> QED
        BY <2>2, <2>3
<1> QED
    BY <1>1, <1>2, <1>3 DEF Send

\* Close() stutters until it returns STATUS_OK, with everything acknowledged.
LEMMA CloseMaps == ASSUME Inv, Close PROVE [Abstract!Next]_(Abstract!vars)
<1>1. UNCHANGED <<off, base, got, sends>>
    BY DEF Close, FinSend, FinExhausted, FinTimeout, FinRecv, Receive, SendTo, Timeout
<1>2. pc \in {"fin", "finWait"} /\ pc' \in {"fin", "finWait", "closed"}
    BY DEF Close, FinSend, FinExhausted, FinTimeout, FinRecv, Receive, SendTo, Timeout
<1>3. base = N
    BY <1>2 DEF Inv, PcInv
<1> QED
    BY <1>1, <1>2, <1>3 DEF Abstract!Next, Abstract!Succeed, Abstract!vars, Accepted,
        Outcome

\* The receiver delivers what has been accepted.
LEMMA EnvironmentMaps ==
    ASSUME Inv, Inv', Environment
    PROVE  [Abstract!Next]_(Abstract!vars)
<1>1. UNCHANGED <<pc, off, base, sends>>
    BY DEF Environment, RcvData, RcvControl, Lose, senderUnchanged
<1>2. Accepted' = Accepted /\ Outcome' = Outcome
    BY <1>1 DEF Accepted, Outcome
<1>3. CASE got' = got
    BY <1>1, <1>2, <1>3 DEF Abstract!vars
<1>4. CASE got' # got
    <2>1. PICK d \in Pkts : RcvData(d) /\ got' = Append(got, d.data)
        BY <1>4 DEF Environment, RcvData, RcvControl, Lose
    <2>2. got \in Seq(Seqs) /\ got' \in Seq(Seqs) /\ Accepted \in Nat
        BY DEF Inv, TypeOK, Accepted
    <2>3. d.data \in Seqs
        BY <2>1 DEF RcvData, Pkts
    <2>4. Len(got') = Len(got) + 1 /\ Len(got) \in Nat
        BY <2>1, <2>2, <2>3
    <2>5. Len(got') <= Accepted
        BY <1>2 DEF Inv, GotInv
    <2>6. Len(got') \in (Len(got) + 1)..Accepted
        BY <2>2, <2>4, <2>5
    <2> QED
        BY <1>1, <1>2, <2>6 DEF Abstract!Next, Abstract!Deliver
<1> QED
    BY <1>3, <1>4

\* The stop-and-wait sender implements the reliable transfer: success means
\* that the receiver has acknowledged every packet, in order.
THEOREM Implementation == Spec => ImplementsReliableTransfer
<1>1. Init => Abstract!Init
    BY DEF Init, Abstract!Init, Accepted, Outcome
<1>2. Inv /\ Inv' /\ [Next]_vars => [Abstract!Next]_(Abstract!vars)
    <2> SUFFICES ASSUME Inv, Inv', [Next]_vars
                 PROVE  [Abstract!Next]_(Abstract!vars)
        OBVIOUS
    <2>1. CASE IOFail
        <3>1. UNCHANGED <<off, base, got, sends>> /\ pc \notin {"closed", "exit"}
              /\ pc' = "exit"
            BY <2>1 DEF IOFail, Exit
        <3> QED
            BY <3>1 DEF Abstract!Next, Abstract!Fail, Accepted, Outcome
    <2>2. CASE UNCHANGED vars
        BY <2>2 DEF vars, Abstract!vars, Accepted, Outcome
    <2> QED
        BY <2>1, <2>2, OpenMaps, SendMaps, CloseMaps, EnvironmentMaps
        DEF Next, main, Done
<1> QED
    BY <1>1, <1>2, Invariant, PTL DEF Spec, ImplementsReliableTransfer, Abstract!Spec
==============================================================================
