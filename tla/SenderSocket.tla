----------------------------- MODULE SenderSocket -----------------------------
(***************************************************************************)
(* The sliding-window sender of Hw3P3 (SenderSocket.cpp, Hw3P3.cpp) from   *)
(* the moment Open() has returned STATUS_OK: main() calls Send() for each  *)
(* of N packets and then Close(); workerThread() transmits the queued      *)
(* packets, handles acknowledgments and retransmits.  The two threads      *)
(* share pendingPackets, the counters of the class, two semaphores and two *)
(* events.  The receiver and the network are external.                     *)
(*                                                                         *)
(* A step of a thread ends before the next access whose order with the     *)
(* other thread's accesses matters.  Timers are nondeterministic: a        *)
(* timeout may happen whenever nothing else wakes the thread.              *)
(***************************************************************************)
EXTENDS Integers, Datagrams

CONSTANTS
    N,            \* packets main() hands to Send(): ceil(bytes / payload)
    W,            \* senderWindow, the command-line argument
    MAX_ATTEMPTS, \* 50 in SenderSocket.h
    RecvWnds,     \* the windows the receiver may advertise
    NetCap,       \* bound: datagrams under way in each direction
    IOErrors      \* may sendto() and recvfrom() fail in the kernel?

\* main() rejects senderWindow < 1; a buffer of 2^power DWORDs is not empty.
ASSUME ConstAssumption ==
    /\ N \in Nat \ {0}
    /\ W \in Nat \ {0}
    /\ MAX_ATTEMPTS \in Nat \ {0}
    /\ RecvWnds \subseteq Nat \ {0} /\ RecvWnds # {}
    /\ NetCap \in Nat \ {0}
    /\ IOErrors \in BOOLEAN

SYN_MAX_ATTEMPTS == 3

(* The definitions named Mut_... are slips the code does not make.  Each       *)
(* stands before the definition it would replace: with that slip some          *)
(* property of this module fails.                                              *)

VARIABLES
    \* main thread
    mpc,             \* where main() is
    mEff,            \* the minimum Send() has computed and not yet stored
    status,          \* what the last Send() or Close() returned
    currAttempt,     \* FINs that timed out
    \* worker thread
    wpc,             \* where workerThread() is
    \* members of SenderSocket
    base, nextSeq, nextToSend, lastReleased,
    receiverWindow, effectiveWindow,
    retxForBase, dupACK,
    pendingPackets,
    \* Windows objects
    empty, full,     \* semaphore counts
    eventQuit,       \* manual-reset event
    sockReady,       \* socketReceiveReady, auto-reset, tied to FD_READ
    \* network and receiver
    net,             \* datagrams on their way to the receiver
    sockq,           \* the sender's socket receive queue
    got,             \* what the receiver holds for each sequence number
    rcvNext,         \* the receiver's next expected sequence number
    rcvWnd,          \* the window it advertised last
    \* history
    sentTimes,       \* times each packet was transmitted: 0, 1 or more (2)
    resent,          \* retransmissions since base last moved
    lastSample,      \* the packet whose RTT was sampled last
    overtaken        \* has base ever moved past nextToSend?

mainVars == <<mpc, mEff, status, currAttempt>>
ackVars  == <<base, lastReleased, receiverWindow, retxForBase, dupACK>>
rcvVars  == <<got, rcvNext, rcvWnd>>
histVars == <<sentTimes, resent, lastSample, overtaken>>
vars == <<mainVars, wpc, ackVars, nextSeq, nextToSend, effectiveWindow,
          pendingPackets, empty, full, eventQuit, sockReady, net, sockq,
          rcvVars, histVars>>

Seqs == 0..(N - 1)

\* Packet n carries payload n; -1 stands for memory nothing has written yet,
\* -2 for "the receiver holds nothing".
Uninit  == -1
Nothing == -2
Payloads == Seqs \cup {Uninit}

\* class Packet: flagged says that the worker has filled in the Flags word.
Packets == [seq : Payloads, data : Payloads, flagged : BOOLEAN]

DataPkts == [fin : {FALSE}, seq : Seqs, data : Payloads]
FinPkts  == [fin : {TRUE}, seq : 0..N, data : {Uninit}]

\* class ReceiverHeader.  The recvWnd of a FIN-ACK is a checksum; nothing
\* reads it (0 here).
Acks == [fin : {FALSE}, ackSeq : 0..N, recvWnd : RecvWnds]
        \cup [fin : {TRUE}, ackSeq : 0..N, recvWnd : {0}]

min(a, b) == IF a <= b THEN a ELSE b

\* main() has exited, or has closed the socket it shares with the worker.
Exited == mpc = "exit"
SockClosed == mpc \in {"join", "exit"}

------------------------------------------------------------------------------
(* The state Open() leaves behind when it returns STATUS_OK.  Up to           *)
(* SYN_MAX_ATTEMPTS - 1 late SYN-ACKs may be waiting in the socket, for the   *)
(* SYNs whose answers arrived after their timeouts.                           *)

Init ==
    /\ mpc = "send" /\ mEff = 0 /\ status = "STATUS_OK"
    /\ currAttempt = 0
    /\ wpc = "wait"
    /\ base = 0 /\ nextSeq = 0 /\ nextToSend = 0
    /\ receiverWindow \in RecvWnds
    /\ effectiveWindow = 0
    /\ lastReleased = min(W, receiverWindow)
    /\ retxForBase = 0 /\ dupACK = 0
    /\ pendingPackets =
         [i \in 0..(W - 1) |->
            [seq |-> Uninit, data |-> Uninit, flagged |-> FALSE]]
    /\ empty = min(W, receiverWindow) /\ full = 0
    /\ eventQuit = FALSE
    /\ net = NoDatagrams(DataPkts \cup FinPkts)
    /\ \E late \in 0..(SYN_MAX_ATTEMPTS - 1) :
         /\ sockq = [NoDatagrams(Acks) EXCEPT
              ![[fin |-> FALSE, ackSeq |-> 0, recvWnd |-> receiverWindow]] = late]
         /\ sockReady = (late > 0)
    /\ got = [s \in Seqs |-> Nothing] /\ rcvNext = 0
    /\ rcvWnd = receiverWindow
    /\ sentTimes = [s \in Seqs |-> 0] /\ resent = 0 /\ lastSample = Uninit
    /\ overtaken = FALSE

------------------------------------------------------------------------------
(* External: the receiver.  Its acknowledgments carry the next expected       *)
(* sequence number; it buffers out-of-order packets, drops datagrams without  *)
(* MAGIC_PROTOCOL and answers a FIN only when it has no gap.  Its window      *)
(* never shrinks.                                                             *)

\* The answer reaches the sender's socket, and signals FD_READ, or is lost.
Reply(ack) ==
    \/ /\ Load(sockq, NetCap) < NetCap
       /\ sockq' = Put(sockq, ack, NetCap)
       /\ sockReady' = TRUE
    \/ UNCHANGED <<sockq, sockReady>>

RcvData(d) ==
    /\ IsIn(d, net)
    /\ net' = Take(net, d)
    /\ got' = IF got[d.seq] = Nothing THEN [got EXCEPT ![d.seq] = d.data] ELSE got
    /\ \E n \in rcvNext..N, w \in {r \in RecvWnds : r >= rcvWnd} :
         /\ \A s \in rcvNext..(n - 1) : got'[s] # Nothing
         /\ n < N => got'[n] = Nothing
         /\ rcvNext' = n
         /\ rcvWnd' = w
         /\ Reply([fin |-> FALSE, ackSeq |-> n, recvWnd |-> w])
    /\ UNCHANGED <<mainVars, wpc, ackVars, nextSeq, nextToSend, effectiveWindow,
                   pendingPackets, empty, full, eventQuit, histVars>>

RcvFin(d) ==
    /\ IsIn(d, net)
    /\ net' = Take(net, d)
    /\ IF \A s \in Seqs : got[s] # Nothing => s < rcvNext
       THEN Reply([fin |-> TRUE, ackSeq |-> rcvNext, recvWnd |-> 0])
       ELSE UNCHANGED <<sockq, sockReady>>
    /\ UNCHANGED <<mainVars, wpc, ackVars, nextSeq, nextToSend, effectiveWindow,
                   pendingPackets, empty, full, eventQuit, rcvVars, histVars>>

Lose(d) ==
    /\ IsIn(d, net)
    /\ net' = Take(net, d)
    /\ UNCHANGED <<mainVars, wpc, ackVars, nextSeq, nextToSend, effectiveWindow,
                   pendingPackets, empty, full, eventQuit, sockReady, sockq,
                   rcvVars, histVars>>

Environment ==
    \/ \E d \in DataPkts : RcvData(d)
    \/ \E d \in FinPkts : RcvFin(d)
    \/ \E d \in DataPkts \cup FinPkts : Lose(d)

\* FD_READ after recvfrom() has left q in the queue: signaled again if
\* datagrams remain, left alone otherwise.
StillReadable(q) == sockReady \/ AnyIn(q)

------------------------------------------------------------------------------
(* main(): Send().                                                            *)

workerUnchanged == UNCHANGED <<wpc, ackVars, nextToSend, histVars>>

\* WaitForMultipleObjects on {eventQuit, empty}: the event has the lower
\* index, so it wins when both are signaled; main() exits on TIMEOUT.
SendQuit ==
    /\ mpc = "send" /\ nextSeq < N
    /\ eventQuit
    /\ status' = "TIMEOUT" /\ mpc' = "exit"
    /\ UNCHANGED <<mEff, currAttempt, nextSeq, effectiveWindow,
                   pendingPackets, empty, full, eventQuit, sockReady, net, sockq,
                   rcvVars>>
    /\ workerUnchanged

SendAcquire ==
    /\ mpc = "send" /\ nextSeq < N
    /\ ~eventQuit /\ empty > 0
    /\ empty' = empty - 1
    /\ mpc' = "window"
    /\ UNCHANGED <<mEff, status, currAttempt, nextSeq, effectiveWindow,
                   pendingPackets, full, eventQuit, sockReady, net, sockq,
                   rcvVars>>
    /\ workerUnchanged

\* effectiveWindow = min(senderWindow, receiverWindow): the read ...
SendReadWindow ==
    /\ mpc = "window"
    /\ mEff' = min(W, receiverWindow)
    /\ mpc' = "store"
    /\ UNCHANGED <<status, currAttempt, nextSeq, effectiveWindow,
                   pendingPackets, empty, full, eventQuit, sockReady, net, sockq,
                   rcvVars>>
    /\ workerUnchanged

\* ... and the write, with no lock between the two.
SendStoreWindow ==
    /\ mpc = "store"
    /\ effectiveWindow' = mEff /\ mEff' = 0
    /\ mpc' = "header"
    /\ UNCHANGED <<status, currAttempt, nextSeq, pendingPackets, empty,
                   full, eventQuit, sockReady, net, sockq, rcvVars>>
    /\ workerUnchanged

SendHeader ==
    /\ mpc = "header"
    /\ pendingPackets' = [pendingPackets EXCEPT ![nextSeq % W].seq = nextSeq]
    /\ mpc' = "copy"
    /\ UNCHANGED <<mEff, status, currAttempt, nextSeq, effectiveWindow,
                   empty, full, eventQuit, sockReady, net, sockq, rcvVars>>
    /\ workerUnchanged

SendCopy ==
    /\ mpc = "copy"
    /\ pendingPackets' = [pendingPackets EXCEPT ![nextSeq % W].data = nextSeq]
    /\ nextSeq' = nextSeq + 1
    /\ mpc' = "queue"
    /\ UNCHANGED <<mEff, status, currAttempt, effectiveWindow, empty,
                   full, eventQuit, sockReady, net, sockq, rcvVars>>
    /\ workerUnchanged

\* ReleaseSemaphore(full, 1): fails, unnoticed, when the count is at its maximum.
SendQueue ==
    /\ mpc = "queue"
    /\ full' = IF full < W THEN full + 1 ELSE full
    /\ mpc' = "send"
    /\ UNCHANGED <<mEff, status, currAttempt, nextSeq, effectiveWindow,
                   pendingPackets, empty, eventQuit, sockReady, net, sockq,
                   rcvVars>>
    /\ workerUnchanged

Send == \/ SendQuit \/ SendAcquire \/ SendReadWindow \/ SendStoreWindow
        \/ SendHeader \/ SendCopy \/ SendQueue

------------------------------------------------------------------------------
(* main(): Close(), which runs once Send() has taken the last packet, and the *)
(* end of main() with the destructor.                                         *)

closeUnchanged == UNCHANGED <<mEff, wpc, ackVars, nextSeq, nextToSend,
                              effectiveWindow, pendingPackets, empty, full,
                              rcvVars, histVars>>

Mut_AllSent == ~(nextToSend < nextSeq)
AllAcked == ~(base < nextSeq)

\* The loop polls base first and eventQuit second.
CloseGiveUp ==
    /\ mpc = "send" /\ nextSeq = N
    /\ ~AllAcked /\ eventQuit
    /\ status' = "TIMEOUT" /\ mpc' = "exit"
    /\ UNCHANGED <<currAttempt, eventQuit, sockReady, net, sockq>>
    /\ closeUnchanged

CloseAllAcked ==
    /\ mpc = "send" /\ nextSeq = N
    /\ AllAcked
    /\ mpc' = "fin"
    /\ UNCHANGED <<status, currAttempt, eventQuit, sockReady, net, sockq>>
    /\ closeUnchanged

Mut_FinAttemptsOffByOne == currAttempt <= MAX_ATTEMPTS
FinAttemptsLeft == currAttempt < MAX_ATTEMPTS

FinSend ==
    /\ mpc = "fin" /\ FinAttemptsLeft
    /\ net' = Put(net, [fin |-> TRUE, seq |-> base, data |-> Uninit], NetCap)
    /\ mpc' = "select"
    /\ UNCHANGED <<status, currAttempt, eventQuit, sockReady, sockq>>
    /\ closeUnchanged

\* sendto() fails in the FIN loop, or select() or recvfrom() does: main() exits.
FinFail ==
    /\ IOErrors
    /\ \/ /\ mpc = "fin" /\ FinAttemptsLeft
          /\ status' = "FAILED_SEND"
       \/ /\ mpc \in {"select", "recv"}
          /\ status' = "FAILED_RECV"
    /\ mpc' = "exit"
    /\ UNCHANGED <<currAttempt, eventQuit, sockReady, net, sockq>>
    /\ closeUnchanged

FinTimeout ==
    /\ mpc = "select" /\ ~AnyIn(sockq)
    /\ currAttempt' = currAttempt + 1
    /\ mpc' = "fin"
    /\ UNCHANGED <<status, eventQuit, sockReady, net, sockq>>
    /\ closeUnchanged

FinReadable ==
    /\ mpc = "select" /\ AnyIn(sockq)
    /\ mpc' = "recv"
    /\ UNCHANGED <<status, currAttempt, eventQuit, sockReady, net, sockq>>
    /\ closeUnchanged

\* The worker took the datagram between select() and recvfrom():
\* WSAEWOULDBLOCK, and the next FIN is sent without counting an attempt.
FinWouldBlock ==
    /\ mpc = "recv" /\ ~AnyIn(sockq)
    /\ mpc' = "fin"
    /\ UNCHANGED <<status, currAttempt, eventQuit, sockReady, net, sockq>>
    /\ closeUnchanged

\* Anything that is not a FIN-ACK goes round the loop again, uncounted.
FinRecv(m) ==
    /\ mpc = "recv" /\ IsIn(m, sockq)
    /\ sockq' = Take(sockq, m)
    /\ sockReady' = StillReadable(sockq')
    /\ mpc' = IF m.fin THEN "closed" ELSE "fin"
    /\ UNCHANGED <<status, currAttempt, eventQuit, net>>
    /\ closeUnchanged

\* The loop runs out of attempts: Close() returns STATUS_OK all the same.
FinExhausted ==
    /\ mpc = "fin" /\ ~FinAttemptsLeft
    /\ mpc' = "closed"
    /\ UNCHANGED <<status, currAttempt, eventQuit, sockReady, net, sockq>>
    /\ closeUnchanged

Mut_DestroyNoSetEvent ==
    /\ mpc = "closed"
    /\ mpc' = "join"
    /\ UNCHANGED <<status, currAttempt, eventQuit, sockReady, net, sockq>>
    /\ closeUnchanged

\* main() closes the socket; ~SenderSocket() tells a live worker to quit ...
Destroy ==
    /\ mpc = "closed"
    /\ eventQuit' = (eventQuit \/ wpc # "done")
    /\ mpc' = "join"
    /\ UNCHANGED <<status, currAttempt, sockReady, net, sockq>>
    /\ closeUnchanged

\* ... and waits for it.
Join ==
    /\ mpc = "join" /\ wpc = "done"
    /\ mpc' = "exit"
    /\ UNCHANGED <<status, currAttempt, eventQuit, sockReady, net, sockq>>
    /\ closeUnchanged

Close == \/ CloseGiveUp \/ CloseAllAcked \/ FinSend \/ FinFail \/ FinTimeout
         \/ FinReadable \/ FinWouldBlock \/ (\E m \in Acks : FinRecv(m))
         \/ FinExhausted \/ Destroy \/ Join

------------------------------------------------------------------------------
(* workerThread().  WaitForMultipleObjects reports the signaled object with   *)
(* the lowest index: eventQuit, then full, then the socket; it times out only *)
(* when none is signaled, and never while nothing is unacknowledged.          *)

Waiting == wpc = "wait" /\ ~Exited

\* sendto() of a pending packet.  Without MAGIC_PROTOCOL the receiver drops
\* the datagram.
Transmit(p) ==
    /\ net' = IF p.flagged
              THEN Put(net, [fin |-> FALSE, seq |-> p.seq, data |-> p.data], NetCap)
              ELSE net
    /\ sentTimes' = IF p.seq \in Seqs
                    THEN [sentTimes EXCEPT ![p.seq] = min(2, @ + 1)]
                    ELSE sentTimes

WorkerQuit ==
    /\ Waiting /\ eventQuit
    /\ wpc' = "done"
    /\ UNCHANGED <<mainVars, ackVars, nextSeq, nextToSend, effectiveWindow,
                   pendingPackets, empty, full, eventQuit, sockReady, net, sockq,
                   rcvVars, histVars>>

\* The full semaphore: transmit the next queued packet.  A failed sendto()
\* raises eventQuit and still counts the packet as sent.
WorkerSend ==
    /\ Waiting /\ ~eventQuit /\ full > 0
    /\ full' = full - 1
    /\ effectiveWindow' = min(W, receiverWindow)
    /\ pendingPackets' = [pendingPackets EXCEPT ![nextToSend % W].flagged = TRUE]
    /\ nextToSend' = nextToSend + 1
    /\ \/ /\ Transmit(pendingPackets'[nextToSend % W])
          /\ UNCHANGED eventQuit
       \/ /\ IOErrors
          /\ eventQuit' = TRUE
          /\ UNCHANGED <<net, sentTimes>>
    /\ UNCHANGED <<mainVars, wpc, ackVars, nextSeq, empty, sockReady, sockq,
                   rcvVars, resent, lastSample, overtaken>>

\* The socket event: the wait resets it, recvfrom() comes in a later step.
WorkerWake ==
    /\ Waiting /\ ~eventQuit /\ full = 0 /\ sockReady
    /\ sockReady' = FALSE
    /\ wpc' = "recv"
    /\ UNCHANGED <<mainVars, ackVars, nextSeq, nextToSend, effectiveWindow,
                   pendingPackets, empty, full, eventQuit, net, sockq, rcvVars,
                   histVars>>

\* recvfrom() fails: another reader emptied the queue, the socket is closed,
\* or a kernel error.
WorkerRecvFail ==
    /\ wpc = "recv" /\ ~Exited
    /\ IOErrors \/ SockClosed \/ ~AnyIn(sockq)
    /\ eventQuit' = TRUE
    /\ wpc' = "wait"
    /\ UNCHANGED <<mainVars, ackVars, nextSeq, nextToSend, effectiveWindow,
                   pendingPackets, empty, full, sockReady, net, sockq, rcvVars,
                   histVars>>

Receive(m) ==
    /\ wpc = "recv" /\ ~SockClosed
    /\ IsIn(m, sockq)
    /\ sockq' = Take(sockq, m)
    /\ sockReady' = StillReadable(sockq')

Mut_SampleAlways == TRUE
SampleRTT == retxForBase = 0

\* ackSeq > base, up to the assignment retxForBase = 0.
WorkerNewAck(m) ==
    /\ Receive(m)
    /\ m.ackSeq > base
    /\ lastSample' = IF SampleRTT THEN m.ackSeq - 1 ELSE lastSample
    /\ effectiveWindow' = min(W, m.recvWnd)
    /\ receiverWindow' = m.recvWnd
    /\ base' = m.ackSeq
    /\ retxForBase' = 0 /\ resent' = 0
    /\ overtaken' = (overtaken \/ m.ackSeq > nextToSend)
    /\ wpc' = "release"
    /\ UNCHANGED <<mainVars, nextSeq, nextToSend, lastReleased, dupACK,
                   pendingPackets, empty, full, eventQuit, net, rcvVars,
                   sentTimes>>

\* The rest of that branch, which reads effectiveWindow back.
\* ReleaseSemaphore fails, unnoticed, unless 0 < n and the count stays <= W.
Mut_ReleaseWholeWindow == effectiveWindow
slotsToRelease == base + effectiveWindow - lastReleased
ReleaseOK == 0 < slotsToRelease /\ empty + slotsToRelease <= W

Mut_ReleasedForgotten == lastReleased
releasedNow == lastReleased + slotsToRelease

WorkerRelease ==
    /\ wpc = "release" /\ ~Exited
    /\ lastReleased' = releasedNow
    /\ empty' = IF ReleaseOK THEN empty + slotsToRelease ELSE empty
    /\ dupACK' = 0
    /\ wpc' = "wait"
    /\ UNCHANGED <<mainVars, base, receiverWindow, retxForBase, nextSeq,
                   nextToSend, effectiveWindow, pendingPackets, full, eventQuit,
                   sockReady, net, sockq, rcvVars, histVars>>

\* ackSeq = base: the third duplicate resends the slot of base, whether or
\* not anything is outstanding.  dupACK saturates at 4: past 3 it has no effect.
WorkerDupAck(m) ==
    /\ Receive(m)
    /\ m.ackSeq = base
    /\ dupACK' = min(dupACK + 1, 4)
    /\ IF dupACK + 1 = 3
       THEN /\ retxForBase' = retxForBase + 1
            /\ \/ /\ Transmit(pendingPackets[base % W])
                  /\ resent' = resent + 1
               \/ /\ IOErrors
                  /\ UNCHANGED <<net, sentTimes, resent>>
       ELSE UNCHANGED <<retxForBase, net, sentTimes, resent>>
    /\ wpc' = "wait"
    /\ UNCHANGED <<mainVars, base, lastReleased, receiverWindow, nextSeq,
                   nextToSend, effectiveWindow, pendingPackets, empty, full,
                   eventQuit, rcvVars, lastSample, overtaken>>

\* ackSeq < base: a reordered acknowledgment has no effect.
WorkerOldAck(m) ==
    /\ Receive(m)
    /\ m.ackSeq < base
    /\ wpc' = "wait"
    /\ UNCHANGED <<mainVars, ackVars, nextSeq, nextToSend, effectiveWindow,
                   pendingPackets, empty, full, eventQuit, net, rcvVars, histVars>>

TimedOut == /\ Waiting /\ ~eventQuit /\ full = 0 /\ ~sockReady
            /\ nextToSend > base

Mut_RetxTwiceAsMany == retxForBase + 1 <= 2 * MAX_ATTEMPTS
Mut_RetxOneLess == retxForBase + 1 < MAX_ATTEMPTS
RetxLeft == retxForBase + 1 <= MAX_ATTEMPTS

\* WAIT_TIMEOUT: resend the packet at base ...
WorkerTimeout ==
    /\ TimedOut
    /\ RetxLeft
    /\ retxForBase' = retxForBase + 1
    /\ \/ /\ Transmit(pendingPackets[base % W])
          /\ resent' = resent + 1
          /\ UNCHANGED eventQuit
       \/ /\ IOErrors
          /\ eventQuit' = TRUE
          /\ UNCHANGED <<net, sentTimes, resent>>
    /\ UNCHANGED <<mainVars, wpc, base, lastReleased, receiverWindow, dupACK,
                   nextSeq, nextToSend, effectiveWindow, pendingPackets, empty,
                   full, sockReady, sockq, rcvVars, lastSample, overtaken>>

Mut_GiveUpSilently ==
    /\ TimedOut
    /\ ~RetxLeft
    /\ retxForBase' = retxForBase + 1
    /\ wpc' = "done"
    /\ UNCHANGED <<mainVars, base, lastReleased, receiverWindow, dupACK, nextSeq,
                   nextToSend, effectiveWindow, pendingPackets, empty, full,
                   eventQuit, sockReady, net, sockq, rcvVars, histVars>>

\* ... or give up after MAX_ATTEMPTS retransmissions.
WorkerGiveUp ==
    /\ TimedOut
    /\ ~RetxLeft
    /\ retxForBase' = retxForBase + 1
    /\ eventQuit' = TRUE
    /\ wpc' = "done"
    /\ UNCHANGED <<mainVars, base, lastReleased, receiverWindow, dupACK, nextSeq,
                   nextToSend, effectiveWindow, pendingPackets, empty, full,
                   sockReady, net, sockq, rcvVars, histVars>>

workerThread ==
    \/ WorkerQuit \/ WorkerSend \/ WorkerWake \/ WorkerRecvFail
    \/ \E m \in Acks : WorkerNewAck(m) \/ WorkerDupAck(m) \/ WorkerOldAck(m)
    \/ WorkerRelease \/ WorkerTimeout \/ WorkerGiveUp

\* The process is gone.
Done == Exited /\ UNCHANGED vars

Next == Send \/ Close \/ workerThread \/ Environment \/ Done

Spec == Init /\ [][Next]_vars

(* Windows schedules both threads, and every timer fires: the fairness of     *)
(* each thread's own steps.  Nothing is assumed of the network.               *)
FairSpec == Spec /\ WF_vars(Send) /\ WF_vars(Close) /\ WF_vars(workerThread)

------------------------------------------------------------------------------
(* Properties.                                                                *)

TypeOK ==
    /\ mpc \in {"send", "window", "store", "header", "copy", "queue", "fin",
                "select", "recv", "closed", "join", "exit"}
    /\ wpc \in {"wait", "recv", "release", "done"}
    /\ status \in {"STATUS_OK", "TIMEOUT", "FAILED_SEND", "FAILED_RECV"}
    /\ mEff \in Nat /\ currAttempt \in 0..MAX_ATTEMPTS
    /\ base \in 0..N /\ nextSeq \in 0..N /\ nextToSend \in Nat
    /\ lastReleased \in Nat
    /\ receiverWindow \in RecvWnds /\ effectiveWindow \in Nat
    /\ retxForBase \in Nat /\ dupACK \in 0..4
    /\ pendingPackets \in [0..(W - 1) -> Packets]
    /\ empty \in 0..W /\ full \in 0..W
    /\ eventQuit \in BOOLEAN /\ sockReady \in BOOLEAN
    /\ net \in [DataPkts \cup FinPkts -> Nat]
    /\ sockq \in [Acks -> Nat]
    /\ got \in [Seqs -> Payloads \cup {Nothing}]
    /\ rcvNext \in 0..N /\ rcvWnd \in RecvWnds
    /\ sentTimes \in [Seqs -> 0..2] /\ resent \in Nat /\ lastSample \in Payloads
    /\ overtaken \in BOOLEAN

\* Flow control: the packets Send() has claimed a slot for and the receiver has
\* not acknowledged fit the window it advertised last, and the buffer.
Claimed == nextSeq + (IF mpc \in {"window", "store", "header", "copy"} THEN 1 ELSE 0)
FlowControl == Claimed <= base + min(W, receiverWindow)

\* A packet that is queued and not acknowledged is whole in its slot: Send()
\* never writes over it, so every retransmission of it carries its payload.
SlotsIntact ==
    \A s \in base..(nextSeq - 1) :
        /\ pendingPackets[s % W].seq = s
        /\ pendingPackets[s % W].data = s

\* No credit is lost: whenever the worker calls ReleaseSemaphore(empty, n) the
\* call succeeds.
CreditsReleased == wpc = "release" => ReleaseOK

\* Karn's rule: an RTT is sampled only from a packet transmitted exactly once,
\* as long as base has never overtaken nextToSend.  (A fast retransmit can send
\* a packet that is not queued yet; once it is acknowledged, Send() may refill
\* the slot before the worker gets to it, and the worker, whose nextToSend lags
\* behind, sends the new packet twice without counting a retransmission.)
KarnsRule ==
    [][lastSample' # lastSample /\ ~overtaken => sentTimes[lastSample'] = 1]_vars

\* A packet is retransmitted at most MAX_ATTEMPTS times by timeouts, and once
\* more by the fast retransmit.
RetxBound == resent <= MAX_ATTEMPTS + 1

\* Close() reaches the FIN only when the receiver holds everything Send() took.
CloseReturnedOK == mpc \in {"closed", "join"} \/ (Exited /\ status = "STATUS_OK")
ClosedMeansReceived ==
    mpc \in {"fin", "select", "recv"} \/ CloseReturnedOK => rcvNext = N

\* Without kernel errors, Send() and Close() report TIMEOUT only after the
\* worker has used up all the retransmissions of the packet at base.
TimeoutMeansExhausted ==
    status = "TIMEOUT" /\ ~IOErrors => retxForBase > MAX_ATTEMPTS

\* Every transfer ends its sending phase: all packets are acknowledged, or the
\* program gives up, whatever the network does.  The one exception is a
\* ReleaseSemaphore(full) that fails at the maximum: nextToSend then stays
\* behind, and the worker may wait without a timeout for a lost packet.
TransferEnds == \/ <>(mpc \in {"fin", "exit"})
                \/ <>(mpc = "queue" /\ full = W)

\* ~SenderSocket() always returns: the worker sees eventQuit and ends.
DestructorEnds == mpc = "closed" ~> mpc = "exit"

------------------------------------------------------------------------------
(* Refinement.  A packet counts as accepted once Send() has begun to write it *)
(* to its slot, for from then on a fast retransmit can put it on the wire.    *)

Written == IF mpc = "copy" THEN nextSeq + 1 ELSE nextSeq

Outcome == IF CloseReturnedOK THEN "ok" ELSE IF Exited THEN "failed" ELSE "open"

Abstract == INSTANCE ReliableTransfer
    WITH accepted <- Written, delivered <- rcvNext, acked <- base,
         outcome <- Outcome

\* The sliding-window sender implements the reliable transfer: what Send()
\* takes is delivered in order, acknowledged only when delivered, and success
\* is reported only when everything is acknowledged.
ImplementsReliableTransfer == Abstract!Spec
==============================================================================
