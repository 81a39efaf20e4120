----------------------------- MODULE Traceroute -----------------------------
(***************************************************************************)
(* The parallel traceroute of Hw4 (Hw4.cpp).  One thread sends a probe for *)
(* every TTL, then goes round a loop: select() on the ICMP and the DNS     *)
(* socket, read what is there, and scan the hops for probes to repeat.  A  *)
(* hop that answers is looked up by its address.  Routers, the DNS server  *)
(* and other programs on the host are external: a probe is answered at     *)
(* most once, at any time, or never.                                       *)
(***************************************************************************)
EXTENDS Integers

CONSTANTS
    MaxTTL,      \* 30 in the code
    MaxProbes,   \* 3 in the code
    TxIds,       \* transaction ids of DNS queries
    ForeignSeqs, \* sequence numbers of other programs' echo replies with our id
    SendErrors   \* may setsockopt() and sendto() fail?

ASSUME TracerouteAssumption ==
    /\ MaxTTL \in Nat \ {0} /\ MaxProbes \in Nat \ {0}
    /\ TxIds # {}
    /\ ForeignSeqs \subseteq Nat
    /\ SendErrors \in BOOLEAN

(* As in SenderSocket, Mut_... is a slip the code does not make.               *)

VARIABLES
    pc,
    answer,      \* HopResult.replied and the ICMP message that set it
    attempts,
    inFuture,    \* send_time is uninitialised and lies after any clock reading
    dns_sent, dns_replied, dns_txid,
    name,        \* resolved_name: whose name it is
    max_ttl,
    probes,      \* probes of each hop that may still be answered
    queries,     \* DNS queries that may still be answered
    echoed,      \* history: hops whose echo reply has been read
    unheard,     \* history: hops that were probed or asked for since the last select()
    told,        \* history: what the first answer to the hop's query was read as
    clash        \* history: hops that held the id of an answer with another hop

dnsVars == <<dns_sent, dns_replied, dns_txid, name, queries, told, clash>>
vars == <<pc, answer, attempts, inFuture, dnsVars, max_ttl, probes, echoed, unheard>>

Hops == 1..MaxTTL

\* ICMP types; "none" for a hop that has not replied.
Types   == {"TTL_EXPIRED", "ECHO_REPLY", "DEST_UNREACH"}
Answers == Types \cup {"none"}

\* A name is that of a hop, "<no DNS entry>", what the stack held, or what a reader
\* made of an answer that it did not understand.
NoEntry == -1
Garbage == 0
Other   == -2
Names   == Hops \cup {NoEntry, Garbage, Other}
Unread  == -3

Queries == [hop : Hops, txid : TxIds]

\* Only replied and attempts are initialised.
Init ==
    /\ pc = "send"
    /\ answer = [i \in Hops |-> "none"]
    /\ attempts = [i \in Hops |-> 0]
    /\ inFuture \in [Hops -> BOOLEAN]
    /\ dns_sent \in [Hops -> BOOLEAN]
    /\ dns_replied \in [Hops -> BOOLEAN]
    /\ dns_txid \in [Hops -> TxIds]
    /\ name = [i \in Hops |-> Garbage]
    /\ max_ttl = MaxTTL
    /\ probes = [i \in Hops |-> 0]
    /\ queries = {}
    /\ echoed = {} /\ unheard = {}
    /\ told = [i \in Hops |-> Unread]
    /\ clash = {}

------------------------------------------------------------------------------
(* Probes.                                                                    *)

\* send_icmp_packet() for the hops of S; it fails for some of them.
SendFailures(S) == IF SendErrors THEN SUBSET S ELSE {{}}

SendProbes(S) ==
    probes' = [i \in Hops |-> IF i \in S THEN probes[i] + 1 ELSE probes[i]]

\* A probe that could not be sent is not counted and has no send_time.
FirstProbes ==
    /\ pc = "send" /\ pc' = "select"
    /\ \E F \in SendFailures(Hops) :
         /\ SendProbes(Hops \ F)
         /\ attempts' = [i \in Hops |-> IF i \in F THEN 0 ELSE 1]
         /\ inFuture' = [i \in Hops |-> i \in F /\ inFuture[i]]
    /\ unheard' = Hops
    /\ UNCHANGED <<answer, dnsVars, max_ttl, echoed>>

\* A hop within reach that has not answered and has probes left.
Pending(i) == answer[i] = "none" /\ attempts[i] < MaxProbes

PendingHops == {i \in 1..max_ttl : Pending(i)}

\* compute_timeout_for_hop() lies between 100 and 500 ms; how much of it has
\* elapsed is left open, but for a send_time that no clock reading reaches.
MayBeDue == {i \in PendingHops : ~inFuture[i]}

Mut_FinishedIfAnswered(D) == \A i \in 1..max_ttl : answer[i] # "none"
Mut_FinishedWithLast(D) == \A i \in PendingHops : i \in D /\ attempts[i] + 1 = MaxProbes

\* The scan that repeats the probes of D has met no pending hop.
finished(D) == PendingHops = {}

\* A repeated probe counts even if it could not be sent.
Scan(D) ==
    /\ pc = "scan"
    /\ pc' = IF finished(D) THEN "print" ELSE "select"
    /\ unheard' = unheard \cup D
    /\ \E F \in SendFailures(D) : SendProbes(D \ F)
    /\ attempts' = [i \in Hops |-> IF i \in D THEN attempts[i] + 1 ELSE attempts[i]]
    /\ UNCHANGED <<answer, inFuture, dnsVars, max_ttl, echoed>>

Resend   == \E D \in SUBSET MayBeDue \ {{}} : Scan(D)
NoResend == Scan({})

------------------------------------------------------------------------------
(* The ICMP socket.                                                           *)

\* An answer holds IP and ICMP headers (28 bytes); an error adds those of the
\* probe.  A probe is 8 bytes, so the echo reply has no more than its headers.
Size(type) == IF type = "ECHO_REPLY" THEN 28 ELSE 56

OwnAnswers ==
    {[type |-> t, seq |-> i, bytes |-> Size(t)] :
        t \in Types, i \in {j \in Hops : probes[j] > 0}}
ForeignEchoes ==
    {[type |-> "ECHO_REPLY", seq |-> s, bytes |-> 60] : s \in ForeignSeqs}

longEnough(bytes) == bytes >= 56

\* The bytes after the headers decide; seq stays 0 for what is too short.
seqOf(msg) == IF longEnough(msg.bytes) THEN msg.seq ELSE 0

min(a, b) == IF a <= b THEN a ELSE b

\* The question is the address of the hop, written backwards under in-addr.arpa;
\* the address stands for the hop.
createDNSQuery(txid, i) == [hop |-> i, txid |-> txid]

\* send_dns_query() draws a transaction id and fills in the hop.
send_dns_query(i) ==
    \E t \in TxIds :
        /\ dns_txid' = [dns_txid EXCEPT ![i] = t]
        /\ dns_sent' = [dns_sent EXCEPT ![i] = TRUE]
        /\ dns_replied' = [dns_replied EXCEPT ![i] = FALSE]
        /\ queries' = queries \cup {createDNSQuery(t, i)}
        /\ clash' = clash \ {i}
        /\ UNCHANGED <<name, told>>

Mut_RecordAlways(seq, type) ==
    IF seq \in Hops
    THEN /\ answer' = [answer EXCEPT ![seq] = type]
         /\ IF type = "DEST_UNREACH" THEN UNCHANGED dnsVars
                                     ELSE send_dns_query(seq)
    ELSE UNCHANGED <<answer, dnsVars>>

\* The first answer counts.  DEST_UNREACH sets replied in its own branch, so
\* that no name is asked for.
Record(seq, type) ==
    IF seq \in Hops /\ answer[seq] = "none"
    THEN /\ answer' = [answer EXCEPT ![seq] = type]
         /\ IF type = "DEST_UNREACH" THEN UNCHANGED dnsVars
                                     ELSE send_dns_query(seq)
    ELSE UNCHANGED <<answer, dnsVars>>

\* A name is asked for.
Asked(i) == answer[i] \in {"TTL_EXPIRED", "ECHO_REPLY"}

\* The DNS socket may have been readable too.
ReadICMP ==
    /\ pc = "select" /\ pc' \in {"dns", "scan"}
    /\ \E msg \in OwnAnswers \cup ForeignEchoes :
         /\ max_ttl' = IF longEnough(msg.bytes) /\ msg.type = "ECHO_REPLY"
                       THEN min(max_ttl, msg.seq) ELSE max_ttl
         /\ Record(seqOf(msg), msg.type)
         /\ IF msg \in OwnAnswers
            THEN /\ probes' = [probes EXCEPT ![msg.seq] = @ - 1]
                 /\ echoed' = IF msg.type = "ECHO_REPLY"
                              THEN echoed \cup {msg.seq} ELSE echoed
            ELSE UNCHANGED <<probes, echoed>>
    /\ unheard' = {i \in Hops : Asked(i)' /\ ~Asked(i)}
    /\ UNCHANGED <<attempts, inFuture>>

\* select() lets answers arrive to all that was sent before it.
stillUnheard == IF pc = "select" THEN {} ELSE unheard

\* select() times out or fails, or what is read is not for us: another id,
\* another type, an error, a DNS answer nobody waits for.
NothingForUs ==
    /\ pc \in {"select", "dns"} /\ pc' = "scan"
    /\ unheard' = stillUnheard
    /\ UNCHANGED <<answer, attempts, inFuture, dnsVars, max_ttl, probes, echoed>>

------------------------------------------------------------------------------
(* The DNS socket.                                                            *)

Mut_AnyTxId(i, t) == dns_sent[i] /\ ~dns_replied[i]
Awaits(i, t) == dns_sent[i] /\ ~dns_replied[i] /\ dns_txid[i] = t

\* An answer is read as the name of the hop that was asked for, as no name (it is too
\* short, an error, empty, without a PTR record, or the name has length 0), or as some
\* other name if the reader (DnsHelper) stops in the middle or goes astray.
parseDNSReply(q) == {q.hop, NoEntry, Other}

\* The hops that hold the id of an answer, if there are several.
Clashing(t) ==
    {i \in Hops : dns_txid[i] = t /\ \E j \in Hops \ {i} : dns_txid[j] = t}

\* The first hop that waits for the id gets the answer, which may come again.
ReadDNS ==
    /\ pc \in {"select", "dns"} /\ pc' = "scan"
    /\ \E q \in queries, r \in Names :
         LET W == {i \in 1..max_ttl : Awaits(i, q.txid)} IN
         /\ r \in parseDNSReply(q)
         /\ queries' \in {queries, queries \ {q}}
         /\ told' = [told EXCEPT ![q.hop] = IF @ = Unread THEN r ELSE @]
         /\ clash' = clash \cup Clashing(q.txid)
         /\ IF W = {}
            THEN UNCHANGED <<dns_replied, name>>
            ELSE \E i \in W :
                   /\ \A j \in W : i <= j
                   /\ dns_replied' = [dns_replied EXCEPT ![i] = TRUE]
                   /\ name' = [name EXCEPT ![i] = r]
    /\ unheard' = stillUnheard
    /\ UNCHANGED <<answer, attempts, inFuture, dns_sent, dns_txid, max_ttl, probes,
                   echoed>>

\* A label with a negative length ends the process.
DieReading ==
    /\ pc \in {"select", "dns"} /\ pc' = "died"
    /\ \E q \in queries, i \in 1..max_ttl : Awaits(i, q.txid)
    /\ UNCHANGED <<answer, attempts, inFuture, dnsVars, max_ttl, probes, echoed, unheard>>

\* What is printed for a hop that replied.
printedName(i) == IF dns_replied[i] THEN name[i] ELSE NoEntry

PrintResults ==
    /\ pc = "print" /\ pc' = "done"
    /\ name' = [i \in Hops |-> IF i <= max_ttl /\ answer[i] # "none"
                               THEN printedName(i) ELSE name[i]]
    /\ UNCHANGED <<answer, attempts, inFuture, dns_sent, dns_replied, dns_txid,
                   queries, told, clash, max_ttl, probes, echoed, unheard>>

------------------------------------------------------------------------------

Done == pc \in {"done", "died"} /\ UNCHANGED vars

Next == FirstProbes \/ Resend \/ NoResend \/ ReadICMP \/ NothingForUs \/ ReadDNS
        \/ DieReading \/ PrintResults \/ Done

Spec == Init /\ [][Next]_vars

\* Each pass of the loop ends, and since the clock runs on, a pending hop whose
\* send_time is not garbage is found due in some later pass.
FairSpec ==
    /\ Spec
    /\ WF_vars(FirstProbes \/ NothingForUs \/ NoResend \/ PrintResults)
    /\ SF_vars(Resend)

------------------------------------------------------------------------------
(* Properties.                                                                *)

TypeOK ==
    /\ pc \in {"send", "select", "dns", "scan", "print", "done", "died"}
    /\ answer \in [Hops -> Answers]
    /\ attempts \in [Hops -> 0..MaxProbes]
    /\ inFuture \in [Hops -> BOOLEAN]
    /\ dns_sent \in [Hops -> BOOLEAN] /\ dns_replied \in [Hops -> BOOLEAN]
    /\ dns_txid \in [Hops -> TxIds]
    /\ name \in [Hops -> Names]
    /\ max_ttl \in 0..MaxTTL
    /\ probes \in [Hops -> 0..MaxProbes]
    /\ queries \subseteq Queries
    /\ echoed \subseteq Hops /\ unheard \subseteq Hops
    /\ told \in [Hops -> Names \cup {Unread}]
    /\ clash \subseteq Hops

\* main() gives a hop within max_ttl up only after its last attempt (an attempt that
\* repeats a probe counts even if sending failed), and never without a select() behind
\* that attempt, in which its answer could still have come: not in the scan that has
\* made it, and not because max_ttl has been lowered or other hops have answered
\* meanwhile.
LastProbeHeard ==
    pc \in {"print", "done"} =>
        \A i \in 1..max_ttl :
            answer[i] = "none" => attempts[i] = MaxProbes /\ i \notin unheard

\* The name printed for a hop that was asked for is what the first answer to its own
\* query was read as, however late it came, how often and in what order with those of
\* other hops, and whatever its fields held before; or no name if none was read: unless
\* an answer came with an id that another hop's dns_txid held too.
NamesFollowAnswers ==
    pc = "done" =>
        \A i \in 1..max_ttl :
            Asked(i) /\ i \notin clash =>
                name[i] = IF told[i] = Unread THEN NoEntry ELSE told[i]

\* Later answers do not disturb a hop that has answered: a late answer to an
\* earlier probe, or one of another kind, neither replaces the first answer nor
\* causes a probe or a second DNS query.
Settled ==
    [][\A i \in Hops :
         answer[i] # "none" =>
             /\ answer'[i] = answer[i]
             /\ attempts'[i] = attempts[i]
             /\ \A q \in queries' \ queries : q.hop # i]_vars

\* main() ends, in the middle of an answer it cannot read at the latest, unless it is
\* held up for ever by a hop whose first probe could not be sent and whose
\* uninitialised send_time lies in the future.
Terminates ==
    <>(pc \in {"done", "died"}) \/ <>[](\E i \in PendingHops : inFuture[i])

=============================================================================
