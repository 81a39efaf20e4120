----------------------------- MODULE SplitThreads -----------------------------
(***************************************************************************)
(* The sliding-window sender of the extra part of Hw3P3: SendThread()      *)
(* transmits queued packets and retransmits on timeout, RecvThread()       *)
(* handles acknowledgments, main() calls Send() and Close().  The three    *)
(* threads share the members of SenderSocket without a lock, so base,      *)
(* retxForBase and the slots may change between any two accesses of        *)
(* another thread.  The module starts where Open() returns STATUS_OK; its  *)
(* SYN loop is the one of module Open.  Timers are nondeterministic.       *)
(***************************************************************************)
EXTENDS Integers, Datagrams

CONSTANTS
    N,            \* packets main() hands to Send()
    W,            \* senderWindow
    MAX_ATTEMPTS, \* 50 in SenderSocket.h
    RecvWnd,      \* the window the receiver advertises
    NetCap,       \* bound: datagrams under way to the receiver
    QueueCap,     \* bound: datagrams in the sender's receive queue
    IOErrors      \* may sendto() and recvfrom() fail in the kernel?

ASSUME SplitAssumption ==
    /\ N \in Nat \ {0}
    /\ W \in Nat \ {0}
    /\ MAX_ATTEMPTS \in Nat \ {0}
    /\ RecvWnd \in Nat \ {0}
    /\ NetCap \in Nat \ {0} /\ QueueCap \in Nat \ {0}
    /\ IOErrors \in BOOLEAN

SYN_MAX_ATTEMPTS == 3

(* The definitions named Mut_... are slips the code does not make; each        *)
(* stands before the definition it would replace.                              *)

VARIABLES
    \* main(): where it is, what the last call returned, FINs that timed out
    mpc, status, currAttempt,
    \* SendThread(): where it is, its index, the value of retxForBase it has read
    spc, sIndex, sRetx,
    \* RecvThread(): where it is, the value of retxForBase it has read
    rpc, rRetx,
    \* members of SenderSocket
    base, nextSeq, nextToSend, lastReleased, retxForBase, dupACK,
    pendingPackets,
    \* Windows objects
    empty, full, eventQuit, sockReady,
    \* network, the sender's receive queue, and what the receiver holds
    net, sockq, got

mainVars == <<mpc, status, currAttempt>>
sendVars == <<spc, sIndex, sRetx>>
recvVars == <<rpc, rRetx>>
slotVars == <<nextSeq, pendingPackets>>
ackVars  == <<base, lastReleased, dupACK>>
sockVars == <<sockReady, sockq>>
vars == <<mainVars, sendVars, recvVars, slotVars, ackVars, nextToSend,
          retxForBase, empty, full, eventQuit, sockVars, net, got>>

Seqs == 0..(N - 1)

\* Packet n carries payload n.  Uninit: a slot that is still all zero, whose
\* magic the receiver refuses.  Nothing: the receiver holds no packet.
Uninit  == -1
Nothing == -2
Packets == [seq : Seqs \cup {Uninit}, data : Seqs \cup {Uninit}]

DataPkts == [fin : {FALSE}, seq : Seqs, data : Seqs \cup {Uninit}]
FinPkts  == [fin : {TRUE}, seq : 0..N, data : {Uninit}]
Acks == [fin : BOOLEAN, ackSeq : 0..N]

min(a, b) == IF a <= b THEN a ELSE b

\* Both windows are constant here, so every computation of effectiveWindow
\* gives this value; module SenderSocket has windows that open.
Mut_LargerWindow == IF W >= RecvWnd THEN W ELSE RecvWnd
effectiveWindow == min(W, RecvWnd)

Exited == mpc = "exit"

------------------------------------------------------------------------------
(* The state in which Open() returns STATUS_OK, with the SYN-ACKs that came   *)
(* after their timeouts still in the socket.                                  *)

Init ==
    /\ mpc = "send" /\ status = "STATUS_OK" /\ currAttempt = 0
    /\ spc = "top" /\ sIndex = 0 /\ sRetx = 0
    /\ rpc = "wait" /\ rRetx = 0
    /\ base = 0 /\ nextSeq = 0 /\ nextToSend = 0
    /\ lastReleased = effectiveWindow
    /\ retxForBase = 0 /\ dupACK = 0
    /\ pendingPackets = [i \in 0..(W - 1) |-> [seq |-> Uninit, data |-> Uninit]]
    /\ empty = effectiveWindow /\ full = 0
    /\ eventQuit = FALSE
    /\ net = NoDatagrams(DataPkts \cup FinPkts)
    /\ \E late \in 0..(SYN_MAX_ATTEMPTS - 1) :
         /\ sockq = [NoDatagrams(Acks) EXCEPT ![[fin |-> FALSE, ackSeq |-> 0]] = late]
         /\ sockReady = (late > 0)
    /\ got = [s \in Seqs |-> Nothing]

------------------------------------------------------------------------------
(* External: the receiver, as in module SenderSocket.                         *)

Contiguous(g) == CHOOSE n \in 0..N : /\ \A s \in 0..(n - 1) : g[s] # Nothing
                                     /\ n < N => g[n] = Nothing
rcvNext == Contiguous(got)

\* The answer is lost, or queued.  FD_READ is posted once for each recvfrom():
\* a datagram that comes after the wake-up waits for the recvfrom() under way.
Reply(ack) ==
    \/ /\ Load(sockq, QueueCap) < QueueCap
       /\ sockq' = Put(sockq, ack, QueueCap)
       /\ sockReady' = (rpc # "recv")
    \/ UNCHANGED sockVars

senderUnchanged ==
    UNCHANGED <<mainVars, sendVars, recvVars, slotVars, ackVars, nextToSend,
                retxForBase, empty, full, eventQuit>>

RcvData(d) ==
    /\ IsIn(d, net)
    /\ net' = Take(net, d)
    /\ got' = IF got[d.seq] = Nothing THEN [got EXCEPT ![d.seq] = d.data] ELSE got
    /\ Reply([fin |-> FALSE, ackSeq |-> Contiguous(got')])
    /\ senderUnchanged

RcvFin(d) ==
    /\ IsIn(d, net)
    /\ net' = Take(net, d)
    /\ IF \A s \in Seqs : got[s] # Nothing => s < rcvNext
       THEN Reply([fin |-> TRUE, ackSeq |-> rcvNext])
       ELSE UNCHANGED sockVars
    /\ UNCHANGED got
    /\ senderUnchanged

Lose(d) ==
    /\ IsIn(d, net)
    /\ net' = Take(net, d)
    /\ UNCHANGED <<sockVars, got>>
    /\ senderUnchanged

Environment ==
    \/ \E d \in DataPkts : RcvData(d)
    \/ \E d \in FinPkts : RcvFin(d)
    \/ \E d \in DataPkts \cup FinPkts : Lose(d)

\* sendto() of a slot; a slot without MAGIC_PROTOCOL comes to nothing.
Transmit(p) ==
    net' = IF p.seq \in Seqs
           THEN Put(net, [fin |-> FALSE, seq |-> p.seq, data |-> p.data], NetCap)
           ELSE net

\* recvfrom() of m; FD_READ is signaled again if datagrams remain.
Receive(m) ==
    /\ IsIn(m, sockq)
    /\ sockq' = Take(sockq, m)
    /\ sockReady' = AnyIn(sockq')

------------------------------------------------------------------------------
(* main(): Send().                                                            *)

callUnchanged ==
    UNCHANGED <<currAttempt, sendVars, recvVars, ackVars, nextToSend, retxForBase,
                eventQuit, sockVars, net, got>>

SendQuit ==
    /\ mpc = "send" /\ nextSeq < N
    /\ eventQuit
    /\ status' = "TIMEOUT" /\ mpc' = "exit"
    /\ UNCHANGED <<slotVars, empty, full>> /\ callUnchanged

SendAcquire ==
    /\ mpc = "send" /\ nextSeq < N
    /\ ~eventQuit /\ empty > 0
    /\ empty' = empty - 1
    /\ mpc' = "header"
    /\ UNCHANGED <<status, slotVars, full>> /\ callUnchanged

\* Flags and sequence number first ...
SendHeader ==
    /\ mpc = "header"
    /\ pendingPackets' = [pendingPackets EXCEPT ![nextSeq % W].seq = nextSeq]
    /\ mpc' = "copy"
    /\ UNCHANGED <<status, nextSeq, empty, full>> /\ callUnchanged

\* ... then the payload.
SendCopy ==
    /\ mpc = "copy"
    /\ pendingPackets' = [pendingPackets EXCEPT ![nextSeq % W].data = nextSeq]
    /\ nextSeq' = nextSeq + 1
    /\ mpc' = "queue"
    /\ UNCHANGED <<status, empty, full>> /\ callUnchanged

SendQueue ==
    /\ mpc = "queue"
    /\ full' = IF full < W THEN full + 1 ELSE full
    /\ mpc' = "send"
    /\ UNCHANGED <<status, slotVars, empty>> /\ callUnchanged

Send == SendQuit \/ SendAcquire \/ SendHeader \/ SendCopy \/ SendQueue

------------------------------------------------------------------------------
(* main(): Close() and ~SenderSocket().                                       *)

closeUnchanged ==
    UNCHANGED <<sendVars, recvVars, slotVars, ackVars, nextToSend, retxForBase,
                empty, full, got>>

Mut_AllSent == ~(nextToSend < nextSeq)
AllAcked == ~(base < nextSeq)

CloseGiveUp ==
    /\ mpc = "send" /\ nextSeq = N
    /\ ~AllAcked /\ eventQuit
    /\ status' = "TIMEOUT" /\ mpc' = "exit"
    /\ UNCHANGED <<currAttempt, eventQuit, sockVars, net>>
    /\ closeUnchanged

\* SetEvent(eventQuit) is meant for RecvThread() ...
CloseStopRecv ==
    /\ mpc = "send" /\ nextSeq = N
    /\ AllAcked
    /\ eventQuit' = TRUE
    /\ mpc' = "stop"
    /\ UNCHANGED <<status, currAttempt, sockVars, net>> /\ closeUnchanged

Mut_NoWait == TRUE
RecvJoined == rpc = "done"

\* ... and is reset once that thread has ended: SendThread() may see it or not.
CloseReset ==
    /\ mpc = "stop" /\ RecvJoined
    /\ eventQuit' = FALSE
    /\ mpc' = "fin"
    /\ UNCHANGED <<status, currAttempt, sockVars, net>> /\ closeUnchanged

FinAttemptsLeft == currAttempt < MAX_ATTEMPTS

FinSend ==
    /\ mpc = "fin" /\ FinAttemptsLeft
    /\ net' = Put(net, [fin |-> TRUE, seq |-> base, data |-> Uninit], NetCap)
    /\ mpc' = "wait"
    /\ UNCHANGED <<status, currAttempt, eventQuit, sockVars>>
    /\ closeUnchanged

\* sendto() fails, or recvfrom() with another error than WSAEWOULDBLOCK.
FinFail ==
    /\ IOErrors
    /\ \/ /\ mpc = "fin" /\ FinAttemptsLeft
          /\ status' = "FAILED_SEND"
          /\ UNCHANGED sockReady
       \/ /\ mpc = "wait" /\ ~eventQuit /\ sockReady
          /\ status' = "FAILED_RECV"
          /\ sockReady' = FALSE
    /\ mpc' = "exit"
    /\ UNCHANGED <<currAttempt, eventQuit, sockq, net>> /\ closeUnchanged

\* A SendThread() that missed the quit event can still fail and raise it.
FinQuit ==
    /\ mpc = "wait" /\ eventQuit
    /\ status' = "FAILED_SEND" /\ mpc' = "exit"
    /\ UNCHANGED <<currAttempt, eventQuit, sockVars, net>>
    /\ closeUnchanged

FinTimeout ==
    /\ mpc = "wait" /\ ~eventQuit /\ ~sockReady
    /\ currAttempt' = currAttempt + 1
    /\ mpc' = "fin"
    /\ UNCHANGED <<status, eventQuit, sockVars, net>> /\ closeUnchanged

\* Not a FIN-ACK: the next FIN, uncounted.  So is WSAEWOULDBLOCK.
FinRecv ==
    /\ mpc = "wait" /\ ~eventQuit /\ sockReady
    /\ IF AnyIn(sockq)
       THEN \E m \in Acks :
              /\ Receive(m)
              /\ mpc' = IF m.fin THEN "closed" ELSE "fin"
       ELSE sockReady' = FALSE /\ mpc' = "fin" /\ UNCHANGED sockq
    /\ UNCHANGED <<status, currAttempt, eventQuit, net>>
    /\ closeUnchanged

\* Unlike the worker's Close(), this one reports that no FIN was answered.
FinExhausted ==
    /\ mpc = "fin" /\ ~FinAttemptsLeft
    /\ status' = "TIMEOUT" /\ mpc' = "exit"
    /\ UNCHANGED <<currAttempt, eventQuit, sockVars, net>>
    /\ closeUnchanged

Mut_DestroyNoSetEvent ==
    /\ mpc = "closed"
    /\ mpc' = "join"
    /\ UNCHANGED <<status, currAttempt, eventQuit, sockVars, net>>
    /\ closeUnchanged

Destroy ==
    /\ mpc = "closed"
    /\ eventQuit' = TRUE
    /\ mpc' = "join"
    /\ UNCHANGED <<status, currAttempt, sockVars, net>> /\ closeUnchanged

Join ==
    /\ mpc = "join" /\ spc = "done" /\ rpc = "done"
    /\ mpc' = "exit"
    /\ UNCHANGED <<status, currAttempt, eventQuit, sockVars, net>>
    /\ closeUnchanged

Close == \/ CloseGiveUp \/ CloseStopRecv \/ CloseReset \/ FinSend \/ FinFail
         \/ FinQuit \/ FinTimeout \/ FinRecv \/ FinExhausted \/ Destroy \/ Join

------------------------------------------------------------------------------
(* SendThread().                                                              *)

sendUnchanged ==
    UNCHANGED <<mainVars, recvVars, slotVars, ackVars, empty, sockVars, got>>
localUnchanged ==
    UNCHANGED <<nextToSend, retxForBase, full, eventQuit, net>> /\ sendUnchanged

\* The timeout of the next wait: "idle" waits for ever, "timed" does not.
Mut_IdleAfterSend == "idle"
WaitMode == IF nextToSend > base THEN "timed" ELSE "idle"

STop ==
    /\ spc = "top" /\ ~Exited
    /\ spc' = WaitMode
    /\ UNCHANGED <<sIndex, sRetx>> /\ localUnchanged

SWaiting == spc \in {"idle", "timed"} /\ ~Exited

SQuit ==
    /\ SWaiting /\ eventQuit
    /\ spc' = "done"
    /\ UNCHANGED <<sIndex, sRetx>> /\ localUnchanged

\* The full semaphore: transmit ...
SFull ==
    /\ SWaiting /\ ~eventQuit /\ full > 0
    /\ full' = full - 1
    /\ \/ /\ Transmit(pendingPackets[nextToSend % W])
          /\ spc' = "sent"
          /\ UNCHANGED eventQuit
       \/ /\ IOErrors
          /\ eventQuit' = TRUE /\ spc' = "done"
          /\ UNCHANGED net
    /\ UNCHANGED <<sIndex, sRetx, nextToSend, retxForBase>>
    /\ sendUnchanged

\* ... and count it: the acknowledgment may have been handled in between.
SAdvance ==
    /\ spc = "sent" /\ ~Exited
    /\ nextToSend' = nextToSend + 1
    /\ spc' = "top"
    /\ UNCHANGED <<sIndex, sRetx, retxForBase, full, eventQuit, net>>
    /\ sendUnchanged

\* WAIT_TIMEOUT: nextToSend > base is tested, ...
STimeout ==
    /\ spc = "timed" /\ ~Exited /\ ~eventQuit /\ full = 0
    /\ spc' = IF nextToSend > base THEN "index" ELSE "top"
    /\ UNCHANGED <<sIndex, sRetx>> /\ localUnchanged

\* ... base is read again for the slot, ...
SIndex ==
    /\ spc = "index" /\ ~Exited
    /\ sIndex' = base % W
    /\ spc' = "read"
    /\ UNCHANGED sRetx /\ localUnchanged

\* ... retxForBase++ reads ...
SRead ==
    /\ spc = "read" /\ ~Exited
    /\ sRetx' = retxForBase
    /\ spc' = "write"
    /\ UNCHANGED sIndex /\ localUnchanged

\* ... and writes, ...
SWrite ==
    /\ spc = "write" /\ ~Exited
    /\ retxForBase' = sRetx + 1 /\ sRetx' = 0
    /\ spc' = "limit"
    /\ UNCHANGED <<sIndex, nextToSend, full, eventQuit, net>>
    /\ sendUnchanged

RetxLeft == retxForBase <= MAX_ATTEMPTS

Mut_GiveUpSilently ==
    /\ spc = "limit" /\ ~Exited
    /\ spc' = IF RetxLeft THEN "resend" ELSE "done"
    /\ UNCHANGED <<sIndex, sRetx>> /\ localUnchanged

\* ... the limit is tested, ...
SLimit ==
    /\ spc = "limit" /\ ~Exited
    /\ spc' = IF RetxLeft THEN "resend" ELSE "done"
    /\ eventQuit' = (eventQuit \/ ~RetxLeft)
    /\ UNCHANGED <<sIndex, sRetx, nextToSend, retxForBase, full, net>>
    /\ sendUnchanged

\* ... and the slot is sent, whatever it holds by now.
SResend ==
    /\ spc = "resend" /\ ~Exited
    /\ sIndex' = 0
    /\ \/ /\ Transmit(pendingPackets[sIndex])
          /\ spc' = "top"
          /\ UNCHANGED eventQuit
       \/ /\ IOErrors
          /\ eventQuit' = TRUE /\ spc' = "done"
          /\ UNCHANGED net
    /\ UNCHANGED <<sRetx, nextToSend, retxForBase, full>>
    /\ sendUnchanged

SendThread == \/ STop \/ SQuit \/ SFull \/ SAdvance \/ STimeout \/ SIndex
              \/ SRead \/ SWrite \/ SLimit \/ SResend

------------------------------------------------------------------------------
(* RecvThread().                                                              *)

recvUnchanged ==
    UNCHANGED <<mainVars, sendVars, slotVars, nextToSend, full, got>>
countersUnchanged ==
    UNCHANGED <<rRetx, ackVars, retxForBase, empty, net>> /\ recvUnchanged

RQuit ==
    /\ rpc = "wait" /\ ~Exited /\ eventQuit
    /\ rpc' = "done"
    /\ UNCHANGED <<eventQuit, sockVars>> /\ countersUnchanged

RWake ==
    /\ rpc = "wait" /\ ~Exited /\ ~eventQuit /\ sockReady
    /\ sockReady' = FALSE
    /\ rpc' = "recv"
    /\ UNCHANGED <<eventQuit, sockq>> /\ countersUnchanged

\* recvfrom() fails: nothing to read, or a kernel error.
RFail ==
    /\ rpc = "recv" /\ ~Exited
    /\ IOErrors \/ ~AnyIn(sockq)
    /\ eventQuit' = TRUE
    /\ rpc' = "done"
    /\ UNCHANGED sockVars /\ countersUnchanged

\* ackSeq > base, up to the assignment of base.
RNewAck(m) ==
    /\ rpc = "recv" /\ ~Exited
    /\ Receive(m)
    /\ m.ackSeq > base
    /\ base' = m.ackSeq
    /\ rpc' = "release"
    /\ UNCHANGED <<rRetx, lastReleased, dupACK, retxForBase, empty, eventQuit, net>>
    /\ recvUnchanged

slotsToRelease == base + effectiveWindow - lastReleased

\* The rest of that branch.  ReleaseSemaphore fails, unnoticed, unless
\* 0 < n and the count stays <= W.
RRelease ==
    /\ rpc = "release" /\ ~Exited
    /\ retxForBase' = 0 /\ dupACK' = 0
    /\ lastReleased' = lastReleased + slotsToRelease
    /\ empty' = IF 0 < slotsToRelease /\ empty + slotsToRelease <= W
                THEN empty + slotsToRelease ELSE empty
    /\ rpc' = "wait"
    /\ UNCHANGED <<rRetx, base, eventQuit, sockVars, net>>
    /\ recvUnchanged

\* ackSeq = base; the third duplicate goes on to retransmit.  dupACK saturates
\* at 4: past 3 it has no effect.
RDupAck(m) ==
    /\ rpc = "recv" /\ ~Exited
    /\ Receive(m)
    /\ m.ackSeq = base
    /\ dupACK' = min(dupACK + 1, 4)
    /\ IF dupACK + 1 = 3
       THEN rRetx' = retxForBase /\ rpc' = "dup"
       ELSE UNCHANGED rRetx /\ rpc' = "wait"
    /\ UNCHANGED <<base, lastReleased, retxForBase, empty, eventQuit, net>>
    /\ recvUnchanged

\* retxForBase++ writes what it has read plus one; a failed sendto() is ignored.
RFastRetx ==
    /\ rpc = "dup" /\ ~Exited
    /\ retxForBase' = rRetx + 1 /\ rRetx' = 0
    /\ Transmit(pendingPackets[base % W]) \/ (IOErrors /\ UNCHANGED net)
    /\ rpc' = "wait"
    /\ UNCHANGED <<ackVars, empty, eventQuit, sockVars>>
    /\ recvUnchanged

ROldAck(m) ==
    /\ rpc = "recv" /\ ~Exited
    /\ Receive(m)
    /\ m.ackSeq < base
    /\ rpc' = "wait"
    /\ UNCHANGED eventQuit /\ countersUnchanged

RecvThread ==
    \/ RQuit \/ RWake \/ RFail \/ RRelease \/ RFastRetx
    \/ \E m \in Acks : RNewAck(m) \/ RDupAck(m) \/ ROldAck(m)

Done == Exited /\ UNCHANGED vars

Next == Send \/ Close \/ SendThread \/ RecvThread \/ Environment \/ Done

Spec == Init /\ [][Next]_vars

(* Windows schedules the three threads, and their timers fire.  Nothing is    *)
(* assumed of the network.                                                    *)
FairSpec == Spec /\ WF_vars(Send) /\ WF_vars(Close) /\ WF_vars(SendThread)
                 /\ WF_vars(RecvThread)

------------------------------------------------------------------------------
(* Properties.                                                                *)

TypeOK ==
    /\ mpc \in {"send", "header", "copy", "queue", "stop", "fin", "wait",
                "closed", "join", "exit"}
    /\ status \in {"STATUS_OK", "TIMEOUT", "FAILED_SEND", "FAILED_RECV"}
    /\ currAttempt \in 0..MAX_ATTEMPTS
    /\ spc \in {"top", "idle", "timed", "sent", "index", "read", "write",
                "limit", "resend", "done"}
    /\ sIndex \in 0..(W - 1) /\ sRetx \in Nat
    /\ rpc \in {"wait", "recv", "release", "dup", "done"} /\ rRetx \in Nat
    /\ base \in 0..N /\ nextSeq \in 0..N /\ nextToSend \in 0..N
    /\ lastReleased \in Nat /\ retxForBase \in Nat /\ dupACK \in 0..4
    /\ pendingPackets \in [0..(W - 1) -> Packets]
    /\ empty \in 0..W /\ full \in 0..W
    /\ eventQuit \in BOOLEAN /\ sockReady \in BOOLEAN
    /\ net \in [DataPkts \cup FinPkts -> Nat]
    /\ sockq \in [Acks -> Nat]
    /\ got \in [Seqs -> Seqs \cup {Uninit, Nothing}]

\* Close() reads FIN-ACKs only after RecvThread() has ended, although it takes
\* the quit event back: RecvThread() never takes the FIN-ACK from under it.
OneReader == mpc \in {"fin", "wait", "closed"} => rpc = "done"

\* SendThread() waits without a timeout only while the receiver has acknowledged
\* everything it has counted as sent: no counted packet is left without a timer.
TimerArmed == spc = "idle" => nextToSend <= base

\* Send() never writes over a packet that is queued and not acknowledged, with
\* three threads moving base, the credits and the slots.
SlotsIntact ==
    \A s \in base..(nextSeq - 1) :
        pendingPackets[s % W] = [seq |-> s, data |-> s]

\* Every transfer ends its sending phase, although updates of retxForBase by
\* the two threads can be lost.  The one exception is a ReleaseSemaphore(full)
\* that fails at the maximum: nextToSend then stays behind for good.
TransferEnds == \/ <>(mpc \in {"fin", "exit"})
                \/ <>(mpc = "queue" /\ full = W)

\* ~SenderSocket() returns: the SendThread() that missed the quit event of
\* Close() sees the second one.
DestructorEnds == mpc = "closed" ~> mpc = "exit"

Written == IF mpc = "copy" THEN nextSeq + 1 ELSE nextSeq
Outcome == IF mpc \in {"closed", "join"} \/ (Exited /\ status = "STATUS_OK")
           THEN "ok" ELSE IF Exited THEN "failed" ELSE "open"

Abstract == INSTANCE ReliableTransfer
    WITH accepted <- Written, delivered <- rcvNext, acked <- base,
         outcome <- Outcome

\* The three-threaded sender, too, implements the reliable transfer.
ImplementsReliableTransfer == Abstract!Spec
==============================================================================
