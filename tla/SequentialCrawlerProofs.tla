----------------------- MODULE SequentialCrawlerProofs -----------------------
(***************************************************************************)
(* The receive loop of the sequential crawlers, for every size that keeps  *)
(* the assumption: each size of the page buffer below the limit is half of *)
(* another, and the first sizes are at least THRESHOLD.                    *)
(***************************************************************************)
EXTENDS SequentialCrawler, TLAPS

\* While a response is received, or has been, the buffer has one of the sizes it
\* may go through.
SizeInv ==
    pc \in {"recv", "status"} /\ Limited =>
        IF phase = "robots" THEN bufferSize = RobotsMax ELSE bufferSize \in PageSizes

\* A new connection starts without a verdict.
FreshInv == pc \in {"socket", "recv"} /\ Limited => loaded = "none"

Inv == TypeOK /\ BufferHolds /\ SizeInv /\ FreshInv /\ LimitKept

\* The limit of the buffer is a number, and no size is beyond it.
LEMMA MaxSize ==
    /\ maxSize \in Nat
    /\ \A s \in PageSizes : s \in Nat /\ s <= PageMax
    /\ initialSize \in Nat /\ initialSize >= THRESHOLD
    /\ THRESHOLD \in Nat \ {0}
BY SequentialAssumption DEF maxSize, initialSize

\* The numbers of the receive loop, and what is left of the buffer during it.
LEMMA Sizes ==
    ASSUME Inv
    PROVE  /\ cursor \in Nat /\ allocatedSize \in Nat /\ bufferSize \in Nat
           /\ pc = "recv" => allocatedSize = bufferSize /\ cursor + THRESHOLD <= bufferSize
BY DEF Inv, TypeOK, BufferHolds

\* What recv() returns fits.
LEMMA Received ==
    ASSUME NEW a \in Nat, NEW c \in Nat, NEW n \in 1..a - c
    PROVE  n \in Nat /\ c + n \in Nat /\ c + n <= a
OBVIOUS

\* Before the first line is read nothing has been received.
LEMMA InitInv == Init => Inv
BY DEF Init, Inv, TypeOK, BufferHolds, SizeInv, FreshInv, LimitKept, Programs, Limited

\* The steps outside receiveResponse(): they keep cursor, or start a connection
\* with a new buffer.
LEMMA UrlSteps ==
    ASSUME Inv,
           \/ ReadURL \/ EndOfFile \/ CheckHost \/ resolveDNS \/ LookupFails \/ CheckIP
           \/ NoSocket \/ ConnectFails \/ Allowed \/ EndURL \/ BadStatus \/ Done
    PROVE  Inv'
<1> USE DEF Inv, TypeOK, BufferHolds, SizeInv, FreshInv, LimitKept, Programs, Limited,
            maxSize, buffer, crawl
<1>1. CASE ReadURL
  BY <1>1 DEF ReadURL, Onward
<1>2. CASE EndOfFile
  BY <1>2 DEF EndOfFile
<1>3. CASE CheckHost
  BY <1>3 DEF CheckHost
<1>4. CASE resolveDNS
  BY <1>4 DEF resolveDNS
<1>5. CASE LookupFails
  BY <1>5 DEF LookupFails, Onward
<1>6. CASE CheckIP
  BY <1>6 DEF CheckIP
<1>7. CASE NoSocket
  BY <1>7 DEF NoSocket, Drop, Onward
<1>8. CASE ConnectFails
  BY <1>8 DEF ConnectFails, Drop, Onward
<1>9. CASE Allowed
  BY <1>9 DEF Allowed
<1>10. CASE EndURL
  BY <1>10 DEF EndURL, Onward
<1>11. CASE BadStatus
  BY <1>11 DEF BadStatus
<1>12. CASE Done
  BY <1>12 DEF Done, vars
<1> QED
  BY <1>1, <1>2, <1>3, <1>4, <1>5, <1>6, <1>7, <1>8, <1>9, <1>10, <1>11, <1>12

\* A new connection gets a buffer with room for THRESHOLD bytes.
LEMMA ConnectStep == ASSUME Inv, Connect PROVE Inv'
<1>1. /\ program' = program /\ phase' = phase /\ loaded' = loaded /\ winsock' = winsock
      /\ pc = "socket" /\ pc' = "recv"
      /\ cursor' = 0 /\ allocatedSize' = initialSize /\ bufferSize' = initialSize
  BY DEF Connect, crawl
<1>2. TypeOK'
  BY <1>1, MaxSize DEF Inv, TypeOK
<1>3. BufferHolds'
  BY <1>1, MaxSize DEF BufferHolds
<1>4. SizeInv'
  BY <1>1, SequentialAssumption DEF SizeInv, Limited, initialSize
<1>5. FreshInv' /\ LimitKept'
  BY <1>1 DEF Inv, FreshInv, LimitKept, Limited
<1> QED
  BY <1>2, <1>3, <1>4, <1>5 DEF Inv

\* Bytes that end nothing: the buffer has room left, doubles, or is refused.
LEMMA RecvSomeStep == ASSUME Inv, RecvSome PROVE Inv'
<1>1. /\ program' = program /\ phase' = phase /\ pc = "recv"
      /\ maxSize' = maxSize
  BY DEF RecvSome, crawl, maxSize
<1>2. PICK n \in 1..allocatedSize - cursor :
         /\ cursor' = cursor + n
         /\ IF ~Short(cursor + n)
            THEN UNCHANGED <<pc, winsock, allocatedSize, bufferSize, loaded>>
            ELSE /\ allocatedSize' = 2 * allocatedSize
                 /\ IF ~Limited \/ bufferSize < maxSize
                    THEN bufferSize' = newSize /\ UNCHANGED <<pc, winsock, loaded>>
                    ELSE /\ loaded' = "exceeding max" /\ Drop(Onward)
                         /\ UNCHANGED bufferSize
  BY DEF RecvSome
<1>3. /\ cursor \in Nat /\ allocatedSize \in Nat /\ n \in Nat
      /\ allocatedSize = bufferSize /\ cursor + THRESHOLD <= bufferSize
      /\ cursor + n \in Nat /\ cursor + n <= allocatedSize
      /\ maxSize \in Nat /\ THRESHOLD \in Nat
  BY <1>1, MaxSize, Sizes, Received
<1>4. Limited => loaded = "none" /\ bufferSize <= maxSize
  BY <1>1, MaxSize, SequentialAssumption DEF Inv, SizeInv, FreshInv, maxSize
<1>5. CASE ~Short(cursor + n)
  <2>1. cursor + n + THRESHOLD <= allocatedSize
    BY <1>3, <1>5 DEF Short
  <2>2. TypeOK' /\ BufferHolds'
    BY <1>1, <1>2, <1>3, <1>5, <2>1 DEF Inv, TypeOK, BufferHolds
  <2>3. SizeInv' /\ FreshInv' /\ LimitKept'
    BY <1>1, <1>2, <1>4, <1>5 DEF Inv, SizeInv, FreshInv, LimitKept, Limited
  <2> QED
    BY <2>2, <2>3 DEF Inv
<1>6. CASE Short(cursor + n) /\ (~Limited \/ bufferSize < maxSize)
  <2>1. /\ allocatedSize' = 2 * allocatedSize /\ bufferSize' = newSize
        /\ UNCHANGED <<pc, winsock, loaded>>
    BY <1>2, <1>6
  <2>2. Limited => /\ phase # "robots"
                   /\ 2 * bufferSize \in PageSizes /\ 2 * bufferSize <= maxSize
    <3> SUFFICES ASSUME Limited
                 PROVE  /\ phase # "robots"
                        /\ 2 * bufferSize \in PageSizes /\ 2 * bufferSize <= maxSize
      OBVIOUS
    <3>1. bufferSize < maxSize
      BY <1>6
    <3>2. IF phase = "robots" THEN bufferSize = RobotsMax ELSE bufferSize \in PageSizes
      BY <1>1 DEF Inv, SizeInv
    <3>3. phase # "robots"
      BY <1>3, <3>1, <3>2 DEF maxSize
    <3>4. maxSize = PageMax /\ bufferSize \in PageSizes
      BY <3>2, <3>3 DEF maxSize
    <3>5. 2 * bufferSize \in PageSizes
      BY <3>1, <3>4, SequentialAssumption
    <3> QED
      BY <3>3, <3>4, <3>5, MaxSize
  <2>3. bufferSize' = 2 * bufferSize
    BY <1>3, <2>1, <2>2 DEF newSize, min
  <2>4. /\ cursor' \in Nat /\ allocatedSize' \in Nat /\ bufferSize' \in Nat
        /\ allocatedSize' = bufferSize' /\ cursor' + THRESHOLD <= bufferSize'
    <3>1. cursor + n + THRESHOLD <= 2 * bufferSize /\ 2 * bufferSize \in Nat
      BY <1>3
    <3> QED
      BY <1>2, <1>3, <2>1, <2>3, <3>1
  <2>5. TypeOK' /\ BufferHolds'
    BY <1>1, <2>1, <2>4 DEF Inv, TypeOK, BufferHolds
  <2>6. SizeInv' /\ FreshInv' /\ LimitKept'
    BY <1>1, <1>4, <2>1, <2>2, <2>3 DEF Inv, SizeInv, FreshInv, LimitKept, Limited
  <2> QED
    BY <2>5, <2>6 DEF Inv
<1>7. CASE Short(cursor + n) /\ Limited /\ ~(bufferSize < maxSize)
  <2>1. /\ allocatedSize' = 2 * allocatedSize /\ bufferSize' = bufferSize
        /\ loaded' = "exceeding max" /\ winsock' = FALSE /\ pc' = "next"
    BY <1>2, <1>7 DEF Drop, Onward, Limited
  <2>2. cursor' > maxSize - THRESHOLD
    <3>1. allocatedSize - (cursor + n) < THRESHOLD /\ allocatedSize >= maxSize
      BY <1>3, <1>7 DEF Short
    <3>2. cursor + n > maxSize - THRESHOLD
      BY <1>3, <3>1
    <3> QED
      BY <1>2, <3>2
  <2>3. cursor' \in Nat /\ allocatedSize' \in Nat /\ bufferSize' \in Nat
    <3>1. cursor' = cursor + n
      BY <1>2
    <3>2. 2 * allocatedSize \in Nat /\ bufferSize \in Nat
      BY <1>3
    <3> QED
      BY <1>3, <2>1, <3>1, <3>2
  <2>4. TypeOK'
    BY <1>1, <2>1, <2>3 DEF Inv, TypeOK
  <2> QED
    BY <1>1, <2>1, <2>2, <2>4 DEF Inv, BufferHolds, SizeInv, FreshInv, LimitKept
<1> QED
  BY <1>5, <1>6, <1>7

\* The ways receiveResponse() ends.
LEMMA RecvLastSteps == ASSUME Inv, TooSlow \/ RecvFails \/ RecvEnd PROVE Inv'
<1>1. CASE TooSlow
  <2>1. /\ program' = program /\ phase' = phase /\ allocatedSize' = allocatedSize
        /\ bufferSize' = bufferSize /\ loaded' = "slow download"
        /\ pc' = "next" /\ winsock' = FALSE
    BY <1>1 DEF TooSlow, crawl, Drop, Onward, Limited
  <2>2. PICK n \in 1..allocatedSize - cursor : cursor' = cursor + n
    BY <1>1 DEF TooSlow
  <2>3. cursor' \in Nat
    BY <2>2, Sizes, Received
  <2> QED
    BY <2>1, <2>3 DEF Inv, TypeOK, BufferHolds, SizeInv, FreshInv, LimitKept
<1>2. CASE RecvFails
  <2>1. /\ program' = program /\ phase' = phase /\ UNCHANGED buffer
        /\ loaded' = "failed" /\ pc' \in {"next", "end"} /\ winsock' = FALSE
    BY <1>2 DEF RecvFails, crawl, Drop, Onward
  <2> QED
    BY <2>1 DEF Inv, TypeOK, BufferHolds, SizeInv, FreshInv, LimitKept, buffer
<1>3. CASE RecvEnd
  <2>1. /\ program' = program /\ phase' = phase /\ UNCHANGED <<buffer, winsock>>
        /\ loaded' = "done" /\ pc = "recv" /\ pc' = "status" /\ maxSize' = maxSize
    BY <1>3 DEF RecvEnd, crawl, maxSize
  <2>2. Limited => bufferSize <= maxSize
    BY <2>1, MaxSize, SequentialAssumption DEF Inv, SizeInv, maxSize
  <2>3. /\ cursor \in Nat /\ bufferSize \in Nat /\ cursor + THRESHOLD <= bufferSize
        /\ cursor' = cursor /\ Limited' = Limited
    BY <2>1 DEF Inv, TypeOK, BufferHolds, Limited, buffer
  <2>4. Limited => cursor <= maxSize - THRESHOLD
    BY <2>2, <2>3, MaxSize
  <2>5. LimitKept'
    BY <2>1, <2>3, <2>4 DEF LimitKept
  <2> QED
    BY <2>1, <2>5 DEF Inv, TypeOK, BufferHolds, SizeInv, FreshInv, Limited, buffer
<1> QED
  BY <1>1, <1>2, <1>3

\* Every step keeps the invariant.
LEMMA NextInv == Inv /\ [Next]_vars => Inv'
<1> SUFFICES ASSUME Inv, [Next]_vars PROVE Inv'
  OBVIOUS
<1>1. CASE UNCHANGED vars
  BY <1>1 DEF Inv, TypeOK, BufferHolds, SizeInv, FreshInv, LimitKept, Limited, maxSize,
              vars, crawl, buffer
<1>2. CASE Next
  BY <1>2, UrlSteps, ConnectStep, RecvSomeStep, RecvLastSteps DEF Next, receiveResponse
<1> QED
  BY <1>1, <1>2

\* Types, the room in the buffer and the limit are invariants of every crawl.
LEMMA Invariance == Spec => []Inv
BY InitInv, NextInv, PTL DEF Spec

\* recv() and the terminator stay within the buffer, for any THRESHOLD, any sizes
\* that double up to the limit, and any way a response is cut into pieces.
THEOREM BufferSuffices == Spec => []BufferHolds
<1>1. Inv => BufferHolds
  BY DEF Inv
<1> QED
  BY <1>1, Invariance, PTL

\* A response is refused as too long exactly if it comes within THRESHOLD of the
\* limit.
THEOREM LimitIsKept == Spec => []LimitKept
<1>1. Inv => LimitKept
  BY DEF Inv
<1> QED
  BY <1>1, Invariance, PTL
==============================================================================
