----------------------------- MODULE StopAndWait -----------------------------
(***************************************************************************)
(* The stop-and-wait sender of Hw3P2 (SenderSocket.cpp, Hw3P2.cpp), from   *)
(* Open() to the end of main().  One thread sends a SYN, N packets and a   *)
(* FIN; each loop sends its datagram, waits in select() and sends again    *)
(* after a timeout or after a datagram it does not expect.  The receiver   *)
(* and the network are external.                                           *)
(***************************************************************************)
EXTENDS Integers, Sequences, Datagrams

CONSTANTS
    N,            \* packets main() hands to Send()
    MAX_ATTEMPTS, \* 5 in SenderSocket.h
    NetCap,       \* bound: datagrams under way in each direction
    IOErrors      \* may getaddrinfo(), sendto(), select(), recvfrom() fail?

\* Send() tests the literal 4 before the loop's own test of MAX_ATTEMPTS.
ASSUME StopAndWaitAssumption ==
    /\ N \in Nat \ {0}
    /\ MAX_ATTEMPTS \in Nat /\ MAX_ATTEMPTS > 4
    /\ NetCap \in Nat \ {0}
    /\ IOErrors \in BOOLEAN

(* As in SenderSocket, Mut_... is a slip the code does not make.               *)

VARIABLES
    pc,             \* where main() is
    status,         \* what Open(), Send() or Close() returned last
    off,            \* packets main() has sent, its buffer offset
    base,           \* the next sequence number
    currAttempt,    \* timeouts in the current loop
    totalTimeouts,
    net,            \* datagrams on their way to the receiver
    sockq,          \* the sender's socket receive queue
    got,            \* the payloads the receiver holds, in order
    sends           \* history: transmissions of the current packet

vars == <<pc, status, off, base, currAttempt, totalTimeouts, net, sockq, got,
          sends>>

Seqs == 0..(N - 1)

\* Packet n of main()'s buffer carries payload n; a SYN or a FIN carries none.
None == -1
Pkts == [kind : {"DATA"}, seq : Seqs, data : Seqs]
        \cup [kind : {"SYN"}, seq : {0}, data : {None}]
        \cup [kind : {"FIN"}, seq : 0..N, data : {None}]

\* class ReceiverHeader: ackSeq is the next expected sequence number.
Replies == [kind : {"SYN-ACK", "ACK", "FIN-ACK"}, ackSeq : 0..N]

Running == pc \notin {"closed", "exit"}

Init ==
    /\ pc = "open" /\ status = "STATUS_OK"
    /\ off = 0 /\ base = 0 /\ currAttempt = 0 /\ totalTimeouts = 0
    /\ net = NoDatagrams(Pkts) /\ sockq = NoDatagrams(Replies)
    /\ got = <<>>
    /\ sends = 0

------------------------------------------------------------------------------
(* Steps the three loops share.  Each loop is at "..." before sendto() and at *)
(* "...Wait" in select().                                                     *)

SendTo(kind, seq, data, wait) ==
    /\ net' = Put(net, [kind |-> kind, seq |-> seq, data |-> data], NetCap)
    /\ pc' = wait
    /\ UNCHANGED <<status, off, base, currAttempt, totalTimeouts, sockq, got>>

Mut_TimeoutUncounted(wait, again) ==
    /\ pc = wait /\ ~AnyIn(sockq)
    /\ currAttempt' = currAttempt + 1
    /\ pc' = again
    /\ UNCHANGED <<status, off, base, totalTimeouts, net, sockq, got, sends>>

\* select() returns 0: one more attempt.
Timeout(wait, again) ==
    /\ pc = wait /\ ~AnyIn(sockq)
    /\ currAttempt' = currAttempt + 1
    /\ totalTimeouts' = totalTimeouts + 1
    /\ pc' = again
    /\ UNCHANGED <<status, off, base, net, sockq, got, sends>>

Receive(wait, m) ==
    /\ pc = wait /\ IsIn(m, sockq)
    /\ sockq' = Take(sockq, m)
    /\ UNCHANGED <<status, totalTimeouts, net, got>>

\* A status other than STATUS_OK: main() calls exit(1).
Exit(s) ==
    /\ status' = s /\ pc' = "exit"
    /\ UNCHANGED <<off, base, currAttempt, totalTimeouts, net, sockq, got, sends>>

\* sendto(), select() or recvfrom() fails.
IOFail ==
    /\ IOErrors
    /\ \/ pc = "open" /\ Exit("INVALID_NAME")
       \/ pc \in {"syn", "data", "fin"} /\ Exit("FAILED_SEND")
       \/ pc \in {"synWait", "dataWait"} /\ Exit("select")
       \/ pc = "finWait" /\ Exit("FAILED_RECV")
       \/ pc \in {"synWait", "dataWait"} /\ AnyIn(sockq) /\ Exit("FAILED_RECV")

------------------------------------------------------------------------------
(* Open().                                                                    *)

Resolve ==
    /\ pc = "open"
    /\ pc' = "syn"
    /\ UNCHANGED <<status, off, base, currAttempt, totalTimeouts, net, sockq, got,
                   sends>>

SynSend ==
    /\ pc = "syn"
    /\ SendTo("SYN", 0, None, "synWait")
    /\ UNCHANGED sends

\* The third timeout returns, before the loop's own test of SYN_MAX_ATTEMPTS, 3.
SynTimeout ==
    \/ currAttempt # 2 /\ Timeout("synWait", "syn")
    \/ currAttempt = 2 /\ pc = "synWait" /\ ~AnyIn(sockq) /\ Exit("TIMEOUT")

SynRecv(m) ==
    /\ Receive("synWait", m)
    /\ IF m.kind = "SYN-ACK"
       THEN pc' = "data" /\ currAttempt' = 0
       ELSE pc' = "syn" /\ UNCHANGED currAttempt
    /\ UNCHANGED <<off, base, sends>>

Open == \/ Resolve \/ SynSend \/ SynTimeout \/ (\E m \in Replies : SynRecv(m))

------------------------------------------------------------------------------
(* main()'s loop over the buffer and Send().                                  *)

\* Send() has returned STATUS_OK: the next packet, or Close().
Returned ==
    /\ off' = off + 1
    /\ pc' = IF off + 1 < N THEN "data" ELSE "fin"
    /\ currAttempt' = 0
    /\ sends' = 0

\* The head of the loop; were the attempts ever used up there, Send() would
\* return STATUS_OK with nothing acknowledged.
DataSend ==
    /\ pc = "data"
    /\ IF currAttempt < MAX_ATTEMPTS
       THEN /\ SendTo("DATA", base, off, "dataWait")
            /\ sends' = sends + 1
       ELSE /\ Returned
            /\ UNCHANGED <<status, base, totalTimeouts, net, sockq, got>>

Mut_LastAttemptLate == currAttempt = MAX_ATTEMPTS
Mut_LastAttemptEarly == currAttempt = 3
LastAttempt == currAttempt = 4

DataTimeout ==
    \/ ~LastAttempt /\ Timeout("dataWait", "data")
    \/ LastAttempt /\ pc = "dataWait" /\ ~AnyIn(sockq) /\ Exit("TIMEOUT")

\* Send() looks at ackSeq alone.  Any other number goes round the loop: the
\* packet is sent again and the attempt is not counted.
Mut_AcceptsAnyAck(m) == m.ackSeq >= base
IsExpected(m) == m.ackSeq = base + 1

DataRecv(m) ==
    /\ Receive("dataWait", m)
    /\ IF IsExpected(m)
       THEN base' = base + 1 /\ Returned
       ELSE pc' = "data" /\ UNCHANGED <<off, base, currAttempt, sends>>

Send == \/ DataSend \/ DataTimeout \/ (\E m \in Replies : DataRecv(m))

------------------------------------------------------------------------------
(* Close(), which returns STATUS_OK however its loop ends.                    *)

FinAttemptsLeft == currAttempt < MAX_ATTEMPTS

FinSend ==
    /\ pc = "fin" /\ FinAttemptsLeft
    /\ SendTo("FIN", base, None, "finWait")
    /\ UNCHANGED sends

FinExhausted ==
    /\ pc = "fin" /\ ~FinAttemptsLeft
    /\ pc' = "closed"
    /\ UNCHANGED <<status, off, base, currAttempt, totalTimeouts, net, sockq, got,
                   sends>>

Mut_FinSelectForever == FALSE
FinTimeout == Timeout("finWait", "fin")

FinRecv(m) ==
    /\ Receive("finWait", m)
    /\ pc' = IF m.kind = "FIN-ACK" THEN "closed" ELSE "fin"
    /\ UNCHANGED <<off, base, currAttempt, sends>>

Close == \/ FinSend \/ FinExhausted \/ FinTimeout
         \/ (\E m \in Replies : FinRecv(m))

------------------------------------------------------------------------------
(* External: the receiver, which stores a packet when it is the next one and  *)
(* answers every datagram, and the network.                                   *)

senderUnchanged == UNCHANGED <<pc, status, off, base, currAttempt, totalTimeouts,
                               sends>>

Reply(kind, n) ==
    \/ sockq' = Put(sockq, [kind |-> kind, ackSeq |-> n], NetCap)
    \/ UNCHANGED sockq

RcvData(d) ==
    /\ IsIn(d, net) /\ d.kind = "DATA"
    /\ net' = Take(net, d)
    /\ got' = IF d.seq = Len(got) THEN Append(got, d.data) ELSE got
    /\ Reply("ACK", Len(got'))
    /\ senderUnchanged

RcvControl(d) ==
    /\ IsIn(d, net) /\ d.kind # "DATA"
    /\ net' = Take(net, d)
    /\ IF d.kind = "SYN" THEN Reply("SYN-ACK", 0) ELSE Reply("FIN-ACK", Len(got))
    /\ UNCHANGED got
    /\ senderUnchanged

Lose(d) ==
    /\ IsIn(d, net)
    /\ net' = Take(net, d)
    /\ UNCHANGED <<sockq, got>>
    /\ senderUnchanged

Environment == \E d \in Pkts : RcvData(d) \/ RcvControl(d) \/ Lose(d)

Done == ~Running /\ UNCHANGED vars

main == Open \/ Send \/ Close
Next == main \/ IOFail \/ Environment \/ Done

Spec == Init /\ [][Next]_vars

(* main() runs and select() times out; nothing is assumed of the network.     *)
FairSpec == Spec /\ WF_vars(main)

------------------------------------------------------------------------------
(* Properties.                                                                *)

TypeOK ==
    /\ pc \in {"open", "syn", "synWait", "data", "dataWait", "fin", "finWait",
               "closed", "exit"}
    /\ status \in {"STATUS_OK", "INVALID_NAME", "FAILED_SEND", "FAILED_RECV",
                   "TIMEOUT", "select"}
    /\ off \in 0..N /\ base \in 0..N
    /\ currAttempt \in 0..MAX_ATTEMPTS /\ totalTimeouts \in Nat
    /\ net \in [Pkts -> Nat] /\ sockq \in [Replies -> Nat]
    /\ got \in Seq(Seqs)
    /\ sends \in Nat

\* The receiver's buffer is a prefix of main()'s: the sequence number, which
\* Send() takes from base, and the payload, which main() takes at off, never
\* drift apart, whatever acknowledgments arrive late.
Delivered == \A i \in DOMAIN got : got[i] = i - 1

\* Send() reports TIMEOUT only after it has sent the packet MAX_ATTEMPTS times.
TimeoutMeansExhausted ==
    status = "TIMEOUT" /\ sends > 0 => sends >= MAX_ATTEMPTS

\* No datagram is answered by more than one: however many acknowledgments turn
\* out to be stale, what is under way never exceeds the timeouts so far, plus
\* the one datagram the sender is waiting to see answered.
UnderWay == Load(net, NetCap) + Load(sockq, NetCap)
UnderWayByTimeouts ==
    UnderWay <= totalTimeouts
        + (IF pc \in {"synWait", "dataWait", "finWait", "exit"} THEN 1 ELSE 0)

\* The program ends, whatever the network does: stale acknowledgments cannot
\* keep any of the three loops going.
Terminates == <>~Running

(* Refinement.  A packet is accepted with its first transmission.             *)

Accepted == IF sends > 0 THEN off + 1 ELSE off

Outcome == IF pc = "closed" THEN "ok" ELSE IF pc = "exit" THEN "failed" ELSE "open"

Abstract == INSTANCE ReliableTransfer
    WITH accepted <- Accepted, delivered <- Len(got), acked <- base,
         outcome <- Outcome

\* The stop-and-wait sender, too, implements the reliable transfer: success
\* means that the receiver has acknowledged all N packets.
ImplementsReliableTransfer == Abstract!Spec
==============================================================================
