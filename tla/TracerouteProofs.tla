--------------------------- MODULE TracerouteProofs ---------------------------
(***************************************************************************)
(* The traceroute for any number of hops, probes and transaction ids, and  *)
(* for any initial content of the fields nothing initialises.              *)
(***************************************************************************)
EXTENDS Traceroute, TLAPS

USE TracerouteAssumption

\* No hop has more probes under way than attempts counted; before the first round
\* nothing has been sent and nobody has answered.
ProbeInv ==
    /\ \A i \in Hops : probes[i] <= attempts[i]
    /\ pc = "send" => \A i \in Hops : attempts[i] = 0 /\ answer[i] = "none"

\* A query under way belongs to a hop that has been asked for and still has the
\* transaction id of the query.
QueryInv == \A q \in queries : Asked(q.hop) /\ dns_txid[q.hop] = q.txid

\* What the fields of a hop say that has been asked for can be relied on, unless it
\* shared an id: the hop has its name once its answer has been read, and not before.
NameInv ==
    \A i \in Hops :
        /\ Asked(i) => dns_sent[i]
        /\ ~Asked(i) => told[i] = Unread
        /\ Asked(i) /\ i <= max_ttl /\ i \notin clash =>
              IF dns_replied[i] THEN told[i] # Unread /\ name[i] = told[i]
                                ELSE told[i] = Unread

\* When the scan begins, select() has come after all probes of hops without an answer.
HeardInv ==
    pc \in {"dns", "scan"} => \A i \in Hops : answer[i] = "none" => i \notin unheard

EndInv == LastProbeHeard /\ NamesFollowAnswers

Inv == TypeOK /\ ProbeInv /\ QueryInv /\ NameInv /\ HeardInv /\ EndInv

------------------------------------------------------------------------------
(* Init.                                                                      *)

LEMMA InitInv == Init => Inv
<1> SUFFICES ASSUME Init PROVE Inv
  OBVIOUS
<1>1. TypeOK
  BY DEF Init, TypeOK, Answers, Names, Garbage
<1>2. ProbeInv /\ QueryInv /\ HeardInv /\ EndInv
  BY DEF Init, ProbeInv, QueryInv, HeardInv, EndInv, LastProbeHeard, NamesFollowAnswers
<1>3. NameInv
  BY DEF Init, NameInv, Asked
<1> QED
  BY <1>1, <1>2, <1>3 DEF Inv

------------------------------------------------------------------------------
(* Probes.                                                                    *)

\* Steps that leave the names alone.
LEMMA SameNames ==
    ASSUME Inv, UNCHANGED <<answer, dns_sent, dns_replied, dns_txid, name, told, clash,
                            queries, max_ttl>>
    PROVE  QueryInv' /\ NameInv'
BY DEF Inv, QueryInv, NameInv, Asked

LEMMA FirstProbesInv == Inv /\ FirstProbes => Inv'
<1> SUFFICES ASSUME Inv, FirstProbes PROVE Inv'
  OBVIOUS
<1>1. PICK F \in SendFailures(Hops) :
        /\ SendProbes(Hops \ F)
        /\ attempts' = [i \in Hops |-> IF i \in F THEN 0 ELSE 1]
        /\ inFuture' = [i \in Hops |-> i \in F /\ inFuture[i]]
  BY DEF FirstProbes
<1>2. /\ pc = "send" /\ pc' = "select"
      /\ UNCHANGED <<answer, dns_sent, dns_replied, dns_txid, name, told, clash, queries,
                     max_ttl, echoed>>
      /\ unheard' = Hops
  BY DEF FirstProbes, dnsVars
<1>3. \A i \in Hops : probes[i] = 0 /\ answer[i] = "none"
  BY <1>2 DEF Inv, TypeOK, ProbeInv
<1>4. /\ probes' = [i \in Hops |-> IF i \in Hops \ F THEN probes[i] + 1 ELSE probes[i]]
      /\ \A i \in Hops : probes'[i] = IF i \in F THEN 0 ELSE 1
  BY <1>1, <1>3 DEF SendProbes
<1>5. /\ attempts' \in [Hops -> 0..MaxProbes] /\ probes' \in [Hops -> 0..MaxProbes]
      /\ inFuture' \in [Hops -> BOOLEAN]
  BY <1>1, <1>4 DEF Inv, TypeOK
<1>6. TypeOK'
  BY <1>2, <1>5 DEF Inv, TypeOK
<1>7. ProbeInv'
  BY <1>1, <1>2, <1>4 DEF ProbeInv
<1>8. HeardInv' /\ EndInv'
  BY <1>2 DEF HeardInv, EndInv, LastProbeHeard, NamesFollowAnswers
<1> QED
  BY <1>2, <1>6, <1>7, <1>8, SameNames DEF Inv

LEMMA ScanInv ==
    ASSUME Inv, NEW D \in SUBSET MayBeDue, Scan(D)
    PROVE  Inv'
<1>1. PICK F \in SendFailures(D) : SendProbes(D \ F)
  BY DEF Scan
<1>2. /\ pc = "scan" /\ pc' = IF finished(D) THEN "print" ELSE "select"
      /\ attempts' = [i \in Hops |-> IF i \in D THEN attempts[i] + 1 ELSE attempts[i]]
      /\ unheard' = unheard \cup D
      /\ UNCHANGED <<answer, inFuture, dns_sent, dns_replied, dns_txid, name, told, clash,
                     queries, max_ttl, echoed>>
  BY DEF Scan, dnsVars
<1>3. /\ probes \in [Hops -> 0..MaxProbes] /\ attempts \in [Hops -> 0..MaxProbes]
      /\ max_ttl \in 0..MaxTTL
      /\ \A i \in Hops : probes[i] <= attempts[i]
  BY DEF Inv, TypeOK, ProbeInv
<1>4. \A i \in D : i \in Hops /\ i \in PendingHops /\ attempts[i] < MaxProbes
  BY <1>3 DEF MayBeDue, PendingHops, Pending, Hops
<1>5. probes' = [i \in Hops |-> IF i \in D \ F THEN probes[i] + 1 ELSE probes[i]]
  BY <1>1 DEF SendProbes
<1>6. attempts' \in [Hops -> 0..MaxProbes]
  BY <1>2, <1>3, <1>4
<1>7. ASSUME NEW i \in Hops
      PROVE  probes'[i] \in 0..MaxProbes /\ probes'[i] <= attempts'[i]
  <2>1. /\ probes[i] \in 0..MaxProbes /\ attempts[i] \in 0..MaxProbes
        /\ probes[i] <= attempts[i]
    BY <1>3
  <2>2. CASE i \in D
    BY <1>2, <1>4, <1>5, <2>1, <2>2
  <2>3. CASE i \notin D
    BY <1>2, <1>5, <2>1, <2>3
  <2> QED
    BY <2>2, <2>3
<1>8. probes' \in [Hops -> 0..MaxProbes]
  BY <1>5, <1>7
<1>9. D \subseteq Hops
  BY <1>4
<1>10. TypeOK'
  BY <1>2, <1>6, <1>8, <1>9 DEF Inv, TypeOK
<1>11. ProbeInv' /\ HeardInv' /\ NamesFollowAnswers'
  BY <1>2, <1>7 DEF ProbeInv, HeardInv, NamesFollowAnswers
\* A scan that repeats a probe is not the last.
<1>12. LastProbeHeard'
  <2> SUFFICES ASSUME finished(D), NEW i \in 1..max_ttl, answer[i] = "none"
               PROVE  attempts'[i] = MaxProbes /\ i \notin unheard'
    BY <1>2 DEF LastProbeHeard
  <2>1. D = {} /\ ~Pending(i)
    BY <1>4 DEF finished, PendingHops
  <2>2. i \in Hops
    BY <1>3 DEF Hops
  <2>3. ~(attempts[i] < MaxProbes) /\ attempts[i] \in 0..MaxProbes
    BY <1>3, <2>1, <2>2 DEF Pending
  <2>4. i \notin unheard
    BY <1>2, <2>2 DEF Inv, HeardInv
  <2> QED
    BY <1>2, <2>1, <2>2, <2>3, <2>4
<1> QED
  BY <1>2, <1>10, <1>11, <1>12, SameNames DEF Inv, EndInv

------------------------------------------------------------------------------
(* Answers.                                                                   *)

\* The first answer of a hop that makes send_dns_query() ask, or one that does not.
LEMMA RecordInv ==
    ASSUME Inv, NEW seq, NEW type \in Types, Record(seq, type), max_ttl' \in 0..max_ttl
    PROVE  /\ answer' \in [Hops -> Answers]
           /\ dns_sent' \in [Hops -> BOOLEAN] /\ dns_replied' \in [Hops -> BOOLEAN]
           /\ dns_txid' \in [Hops -> TxIds] /\ name' = name /\ told' = told
           /\ queries' \subseteq Queries /\ clash' \subseteq clash
           /\ QueryInv' /\ NameInv'
           /\ \A i \in Hops : answer[i] # "none" =>
                /\ answer'[i] = answer[i]
                /\ \A q \in queries' \ queries : q.hop # i
<1>1. TypeOK /\ QueryInv /\ NameInv
  BY DEF Inv
<1>0. ASSUME NEW i \in Hops, i <= max_ttl' PROVE i <= max_ttl
  BY <1>0, <1>1 DEF TypeOK, Hops
<1>2. CASE ~(seq \in Hops /\ answer[seq] = "none")
  <2>1. UNCHANGED <<answer, dns_sent, dns_replied, dns_txid, name, told, clash, queries>>
    BY <1>2 DEF Record, dnsVars
  <2>2. NameInv'
    BY <1>0, <1>1, <2>1 DEF NameInv, Asked
  <2> QED
    BY <1>1, <2>1, <2>2 DEF TypeOK, QueryInv, Asked
<1>3. CASE seq \in Hops /\ answer[seq] = "none" /\ type = "DEST_UNREACH"
  <2>1. /\ answer' = [answer EXCEPT ![seq] = type]
        /\ UNCHANGED <<dns_sent, dns_replied, dns_txid, name, told, clash, queries>>
    BY <1>3 DEF Record, dnsVars
  <2>2. /\ answer' \in [Hops -> Answers]
        /\ \A i \in Hops : answer[i] # "none" => answer'[i] = answer[i]
        /\ \A i \in Hops : Asked(i)' <=> Asked(i)
    BY <1>1, <1>3, <2>1 DEF TypeOK, Answers, Asked
  <2>3. QueryInv'
    BY <1>1, <2>1, <2>2 DEF TypeOK, QueryInv, Queries
  <2>4. NameInv'
    BY <1>0, <1>1, <2>1, <2>2 DEF NameInv
  <2> QED
    BY <1>1, <2>1, <2>2, <2>3, <2>4 DEF TypeOK
<1>4. CASE seq \in Hops /\ answer[seq] = "none" /\ type # "DEST_UNREACH"
  <2>1. /\ answer' = [answer EXCEPT ![seq] = type] /\ send_dns_query(seq)
        /\ type \in {"TTL_EXPIRED", "ECHO_REPLY"}
    BY <1>4 DEF Record, Types
  <2>2. PICK t \in TxIds :
          /\ dns_txid' = [dns_txid EXCEPT ![seq] = t]
          /\ dns_sent' = [dns_sent EXCEPT ![seq] = TRUE]
          /\ dns_replied' = [dns_replied EXCEPT ![seq] = FALSE]
          /\ queries' = queries \cup {createDNSQuery(t, seq)}
          /\ clash' = clash \ {seq}
          /\ UNCHANGED <<name, told>>
    BY <2>1 DEF send_dns_query
  <2>3. /\ answer' \in [Hops -> Answers]
        /\ \A i \in Hops : answer[i] # "none" => answer'[i] = answer[i]
        /\ \A i \in Hops : i # seq => (Asked(i)' <=> Asked(i)) /\ dns_txid'[i] = dns_txid[i]
        /\ ~Asked(seq) /\ Asked(seq)' /\ dns_txid'[seq] = t
    BY <1>1, <1>4, <2>1, <2>2 DEF TypeOK, Answers, Types, Asked
  <2>4. /\ dns_sent' \in [Hops -> BOOLEAN] /\ dns_replied' \in [Hops -> BOOLEAN]
        /\ dns_txid' \in [Hops -> TxIds]
    BY <1>1, <2>2 DEF TypeOK
  <2>5. createDNSQuery(t, seq) \in Queries /\ createDNSQuery(t, seq).hop = seq
        /\ createDNSQuery(t, seq).txid = t
    BY <1>4 DEF createDNSQuery, Queries
  <2>6. queries' \subseteq Queries
    BY <1>1, <2>2, <2>5 DEF TypeOK
  <2>7. QueryInv'
    <3> SUFFICES ASSUME NEW q \in queries' PROVE Asked(q.hop)' /\ dns_txid'[q.hop] = q.txid
      BY DEF QueryInv
    <3>1. CASE q = createDNSQuery(t, seq)
      BY <2>3, <2>5, <3>1
    <3>2. CASE q \in queries
      <4>1. Asked(q.hop) /\ dns_txid[q.hop] = q.txid /\ q.hop \in Hops
        BY <1>1, <3>2 DEF QueryInv, TypeOK, Queries
      <4> QED
        BY <2>3, <4>1
    <3> QED
      BY <2>2, <3>1, <3>2
  <2>8. NameInv'
    <3> SUFFICES ASSUME NEW i \in Hops
                 PROVE  /\ Asked(i)' => dns_sent'[i]
                        /\ ~Asked(i)' => told'[i] = Unread
                        /\ Asked(i)' /\ i <= max_ttl' /\ i \notin clash' =>
                              IF dns_replied'[i] THEN told'[i] # Unread /\ name'[i] = told'[i]
                                                 ELSE told'[i] = Unread
      BY DEF NameInv
    <3>1. CASE i = seq
      BY <1>1, <1>4, <2>2, <2>3, <3>1 DEF NameInv, TypeOK
    <3>2. CASE i # seq
      <4>1. /\ Asked(i)' <=> Asked(i)
            /\ dns_sent'[i] = dns_sent[i] /\ dns_replied'[i] = dns_replied[i]
            /\ i \in clash' <=> i \in clash
        BY <1>1, <2>2, <2>3, <3>2 DEF TypeOK
      <4> QED
        BY <1>0, <1>1, <2>2, <4>1 DEF NameInv
    <3> QED
      BY <3>1, <3>2
  <2>9. ASSUME NEW i \in Hops, answer[i] # "none"
        PROVE  \A q \in queries' \ queries : q.hop # i
    BY <1>4, <2>2, <2>5, <2>9
  <2> QED
    BY <2>2, <2>3, <2>4, <2>6, <2>7, <2>8, <2>9
<1> QED
  BY <1>2, <1>3, <1>4

\* An ICMP message has one of the types the program knows; an answer of a probe
\* has the number of its hop.
LEMMA Messages ==
    ASSUME NEW msg \in OwnAnswers \cup ForeignEchoes
    PROVE  /\ msg.type \in Types /\ msg.seq \in Nat
           /\ msg \in OwnAnswers => msg.seq \in Hops /\ probes[msg.seq] > 0
BY DEF OwnAnswers, ForeignEchoes, Types, Hops

\* max_ttl never rises.
LEMMA Lowered ==
    ASSUME TypeOK, ReadICMP
    PROVE  max_ttl' \in 0..max_ttl /\ max_ttl' \in 0..MaxTTL
<1>1. PICK msg \in OwnAnswers \cup ForeignEchoes :
        max_ttl' = IF longEnough(msg.bytes) /\ msg.type = "ECHO_REPLY"
                   THEN min(max_ttl, msg.seq) ELSE max_ttl
  BY DEF ReadICMP
<1>2. msg.seq \in Nat /\ max_ttl \in 0..MaxTTL
  BY Messages DEF TypeOK
<1> QED
  BY <1>1, <1>2 DEF min

LEMMA ReadICMPInv == Inv /\ ReadICMP => Inv'
<1> SUFFICES ASSUME Inv, ReadICMP PROVE Inv'
  OBVIOUS
<1>1. /\ pc = "select" /\ pc' \in {"dns", "scan"} /\ UNCHANGED <<attempts, inFuture>>
  BY DEF ReadICMP
<1>2. PICK msg \in OwnAnswers \cup ForeignEchoes :
        /\ max_ttl' = IF longEnough(msg.bytes) /\ msg.type = "ECHO_REPLY"
                      THEN min(max_ttl, msg.seq) ELSE max_ttl
        /\ Record(seqOf(msg), msg.type)
        /\ IF msg \in OwnAnswers
           THEN /\ probes' = [probes EXCEPT ![msg.seq] = @ - 1]
                /\ echoed' = IF msg.type = "ECHO_REPLY"
                             THEN echoed \cup {msg.seq} ELSE echoed
           ELSE UNCHANGED <<probes, echoed>>
  BY DEF ReadICMP
<1>3. /\ msg.type \in Types /\ msg.seq \in Nat
      /\ msg \in OwnAnswers => msg.seq \in Hops /\ probes[msg.seq] > 0
  BY Messages
<1>4. /\ answer' \in [Hops -> Answers]
      /\ dns_sent' \in [Hops -> BOOLEAN] /\ dns_replied' \in [Hops -> BOOLEAN]
      /\ dns_txid' \in [Hops -> TxIds] /\ name' = name /\ told' = told
      /\ queries' \subseteq Queries /\ clash' \subseteq clash
      /\ QueryInv' /\ NameInv'
  BY <1>2, <1>3, Lowered, RecordInv DEF Inv
<1>5. max_ttl' \in 0..MaxTTL
  BY Lowered DEF Inv
<1>6. /\ probes' \in [Hops -> 0..MaxProbes]
      /\ \A i \in Hops : probes'[i] <= probes[i]
      /\ echoed' \subseteq Hops
  <2>1. probes \in [Hops -> 0..MaxProbes] /\ echoed \subseteq Hops
    BY DEF Inv, TypeOK
  <2> QED
    BY <1>2, <1>3, <2>1
<1>7. unheard' = {i \in Hops : Asked(i)' /\ ~Asked(i)}
  BY DEF ReadICMP
<1>8. TypeOK'
  BY <1>1, <1>4, <1>5, <1>6, <1>7 DEF Inv, TypeOK
<1>9. HeardInv'
  BY <1>7 DEF HeardInv, Asked
<1>10. ProbeInv'
  <2>1. ASSUME NEW i \in Hops PROVE probes'[i] <= attempts'[i]
    <3>1. probes'[i] <= probes[i] /\ probes[i] <= attempts[i] /\ attempts'[i] = attempts[i]
      BY <1>1, <1>6 DEF Inv, ProbeInv
    <3>2. probes'[i] \in Nat /\ probes[i] \in Nat /\ attempts[i] \in Nat
      BY <1>6 DEF Inv, TypeOK
    <3> QED
      BY <3>1, <3>2
  <2> QED
    BY <1>1, <2>1 DEF ProbeInv
<1> QED
  BY <1>1, <1>4, <1>8, <1>9, <1>10 DEF Inv, EndInv, LastProbeHeard, NamesFollowAnswers

LEMMA NothingForUsInv == Inv /\ NothingForUs => Inv'
<1> SUFFICES ASSUME Inv, NothingForUs PROVE Inv'
  OBVIOUS
<1>1. /\ pc \in {"select", "dns"} /\ pc' = "scan" /\ unheard' = stillUnheard
      /\ UNCHANGED <<answer, attempts, inFuture, dns_sent, dns_replied, dns_txid, name, told,
                     clash, queries, max_ttl, probes, echoed>>
  BY DEF NothingForUs, dnsVars
<1>2. HeardInv' /\ unheard' \subseteq Hops
  BY <1>1 DEF Inv, TypeOK, HeardInv, stillUnheard
<1>3. TypeOK'
  BY <1>1, <1>2 DEF Inv, TypeOK
<1>4. ProbeInv' /\ EndInv'
  BY <1>1 DEF Inv, ProbeInv, EndInv, LastProbeHeard, NamesFollowAnswers
<1> QED
  BY <1>1, <1>2, <1>3, <1>4, SameNames DEF Inv

LEMMA DieReadingInv == Inv /\ DieReading => Inv'
<1> SUFFICES ASSUME Inv, DieReading PROVE Inv'
  OBVIOUS
<1>1. /\ pc \in {"select", "dns"} /\ pc' = "died"
      /\ UNCHANGED <<answer, attempts, inFuture, dns_sent, dns_replied, dns_txid, name, told,
                     clash, queries, max_ttl, probes, echoed, unheard>>
  BY DEF DieReading, dnsVars
<1>2. TypeOK' /\ ProbeInv' /\ HeardInv' /\ EndInv'
  BY <1>1 DEF Inv, TypeOK, ProbeInv, HeardInv, EndInv, LastProbeHeard, NamesFollowAnswers
<1> QED
  BY <1>1, <1>2, SameNames DEF Inv

LEMMA ReadDNSInv == Inv /\ ReadDNS => Inv'
<1> SUFFICES ASSUME Inv, ReadDNS PROVE Inv'
  OBVIOUS
<1>1. /\ pc \in {"select", "dns"} /\ pc' = "scan" /\ unheard' = stillUnheard
      /\ UNCHANGED <<answer, attempts, inFuture, dns_sent, dns_txid, max_ttl, probes,
                     echoed>>
  BY DEF ReadDNS
<1> DEFINE W(t) == {i \in 1..max_ttl : Awaits(i, t)}
<1>2. PICK q \in queries, r \in Names :
        /\ queries' \in {queries, queries \ {q}}
        /\ told' = [told EXCEPT ![q.hop] = IF @ = Unread THEN r ELSE @]
        /\ clash' = clash \cup Clashing(q.txid)
        /\ IF W(q.txid) = {}
           THEN UNCHANGED <<dns_replied, name>>
           ELSE \E i \in W(q.txid) :
                  /\ dns_replied' = [dns_replied EXCEPT ![i] = TRUE]
                  /\ name' = [name EXCEPT ![i] = r]
  BY DEF ReadDNS
<1>3. TypeOK /\ ProbeInv /\ QueryInv /\ NameInv
  BY DEF Inv
<1>4. q.hop \in Hops /\ Asked(q.hop) /\ dns_txid[q.hop] = q.txid
  BY <1>3 DEF TypeOK, Queries, QueryInv
<1>5. /\ W(q.txid) \subseteq Hops /\ r # Unread
      /\ \A i \in W(q.txid) : dns_sent[i] /\ ~dns_replied[i] /\ dns_txid[i] = q.txid
  BY <1>3 DEF TypeOK, Hops, Awaits, Names, NoEntry, Garbage, Other, Unread
<1>6. /\ dns_replied' \in [Hops -> BOOLEAN] /\ name' \in [Hops -> Names]
      /\ told' \in [Hops -> Names \cup {Unread}]
      /\ clash' \subseteq Hops /\ queries' \subseteq Queries
  <2>1. dns_replied' \in [Hops -> BOOLEAN] /\ name' \in [Hops -> Names]
    <3> HIDE DEF W
    <3> QED
      BY <1>2, <1>3, <1>5 DEF TypeOK
  <2> QED
    BY <1>2, <1>3, <1>4, <2>1 DEF TypeOK, Clashing
<1>7. HeardInv' /\ unheard' \subseteq Hops
  BY <1>1 DEF Inv, TypeOK, HeardInv, stillUnheard
<1>8. TypeOK'
  BY <1>1, <1>3, <1>6, <1>7 DEF TypeOK
<1>9. QueryInv'
  BY <1>1, <1>2, <1>3 DEF QueryInv, Asked
<1>10. ProbeInv' /\ EndInv'
  BY <1>1, <1>3 DEF ProbeInv, EndInv, LastProbeHeard, NamesFollowAnswers
<1>11. NameInv'
  <2> SUFFICES ASSUME NEW j \in Hops
               PROVE  /\ Asked(j)' => dns_sent'[j]
                      /\ ~Asked(j)' => told'[j] = Unread
                      /\ Asked(j)' /\ j <= max_ttl' /\ j \notin clash' =>
                            IF dns_replied'[j] THEN told'[j] # Unread /\ name'[j] = told'[j]
                                               ELSE told'[j] = Unread
    BY DEF NameInv
  <2>1. /\ Asked(j) <=> Asked(j)' /\ dns_sent'[j] = dns_sent[j]
    BY <1>1 DEF Asked
  <2>2. /\ Asked(j) => dns_sent[j]
        /\ ~Asked(j) => told'[j] = Unread
    BY <1>2, <1>3, <1>4 DEF NameInv, TypeOK
  <2>3. ASSUME Asked(j), j <= max_ttl, j \notin clash'
        PROVE  IF dns_replied'[j] THEN told'[j] # Unread /\ name'[j] = told'[j]
                                  ELSE told'[j] = Unread
    <3>1. /\ j \notin clash
          /\ dns_txid[j] = q.txid => \A i \in Hops : dns_txid[i] = q.txid => i = j
      BY <1>2, <2>3 DEF Clashing
    <3>2. IF dns_replied[j] THEN told[j] # Unread /\ name[j] = told[j]
                            ELSE told[j] = Unread
      BY <1>3, <2>3, <3>1 DEF NameInv
    \* Somebody else's answer leaves the hop alone.
    <3>3. CASE j # q.hop
      <4>1. dns_txid[j] # q.txid
        BY <1>4, <3>1, <3>3
      <4>2. told'[j] = told[j] /\ name'[j] = name[j] /\ dns_replied'[j] = dns_replied[j]
        BY <1>2, <1>3, <1>5, <3>3, <4>1 DEF TypeOK
      <4> QED
        BY <3>2, <4>2
    \* Its own reaches it, unless it has come before.
    <3>4. CASE j = q.hop
      <4>1. told'[j] = IF told[j] = Unread THEN r ELSE told[j]
        BY <1>2, <1>3, <3>4 DEF TypeOK
      <4>2. CASE dns_replied[j]
        <5>1. W(q.txid) = {}
          BY <1>4, <1>5, <3>1, <3>4, <4>2
        <5> QED
          BY <1>2, <3>2, <4>1, <4>2, <5>1
      <4>3. CASE ~dns_replied[j]
        <5>1. j \in W(q.txid)
          BY <1>3, <1>4, <2>3, <3>4, <4>3 DEF Awaits, NameInv, Hops, TypeOK
        <5>2. PICK i \in W(q.txid) : /\ dns_replied' = [dns_replied EXCEPT ![i] = TRUE]
                                     /\ name' = [name EXCEPT ![i] = r]
          BY <1>2, <5>1
        <5>3. i = j
          BY <1>4, <1>5, <3>1, <3>4
        <5>4. dns_replied'[j] /\ name'[j] = r
          BY <1>3, <5>2, <5>3 DEF TypeOK
        <5> QED
          BY <1>5, <3>2, <4>1, <4>3, <5>4
      <4> QED
        BY <4>2, <4>3
    <3> QED
      BY <3>3, <3>4
  <2> QED
    BY <1>1, <2>1, <2>2, <2>3
<1> QED
  BY <1>7, <1>8, <1>9, <1>10, <1>11 DEF Inv

LEMMA PrintResultsInv == Inv /\ PrintResults => Inv'
<1> SUFFICES ASSUME Inv, PrintResults PROVE Inv'
  OBVIOUS
<1>1. /\ pc = "print" /\ pc' = "done"
      /\ name' = [i \in Hops |-> IF i <= max_ttl /\ answer[i] # "none"
                                 THEN printedName(i) ELSE name[i]]
      /\ UNCHANGED <<answer, attempts, inFuture, dns_sent, dns_replied, dns_txid, told,
                     clash, queries, max_ttl, probes, echoed, unheard>>
  BY DEF PrintResults
<1>2. ASSUME NEW i \in Hops
      PROVE  /\ name'[i] \in {name[i], NoEntry}
             /\ i <= max_ttl /\ Asked(i) =>
                    name'[i] = IF dns_replied[i] THEN name[i] ELSE NoEntry
  BY <1>1 DEF printedName, Asked
<1>3. TypeOK'
  <2>1. name' \in [Hops -> Names]
    BY <1>1, <1>2 DEF Inv, TypeOK, Names
  <2> QED
    BY <1>1, <2>1 DEF Inv, TypeOK
<1>4. QueryInv'
  BY <1>1 DEF Inv, QueryInv, Asked
<1>5. NameInv'
  <2>1. NameInv
    BY DEF Inv
  <2> QED
    BY <1>1, <1>2, <2>1 DEF NameInv, Asked
<1>6. NamesFollowAnswers'
  <2> SUFFICES ASSUME NEW i \in 1..max_ttl, Asked(i), i \notin clash
               PROVE  name'[i] = IF told[i] = Unread THEN NoEntry ELSE told[i]
    BY <1>1 DEF NamesFollowAnswers, Asked
  <2>1. i \in Hops /\ i <= max_ttl
    BY DEF Inv, TypeOK, Hops
  <2> QED
    BY <1>2, <2>1 DEF Inv, NameInv
<1>7. LastProbeHeard'
  BY <1>1 DEF Inv, EndInv, LastProbeHeard
<1>8. ProbeInv' /\ HeardInv'
  BY <1>1 DEF Inv, ProbeInv, HeardInv
<1> QED
  BY <1>3, <1>4, <1>5, <1>6, <1>7, <1>8 DEF Inv, EndInv

LEMMA NextInv == Inv /\ [Next]_vars => Inv'
<1> SUFFICES ASSUME Inv, [Next]_vars PROVE Inv'
  OBVIOUS
<1>1. CASE UNCHANGED vars
  BY <1>1 DEF Inv, TypeOK, ProbeInv, QueryInv, NameInv, HeardInv, EndInv, LastProbeHeard,
     NamesFollowAnswers, Asked, vars, dnsVars
<1>2. CASE Resend \/ NoResend
  BY <1>2, ScanInv DEF Resend, NoResend
<1> QED
  BY <1>1, <1>2, FirstProbesInv, ReadICMPInv, NothingForUsInv, ReadDNSInv,
     DieReadingInv, PrintResultsInv DEF Next, Done

LEMMA Invariance == Spec => []Inv
BY InitInv, NextInv, PTL DEF Spec

------------------------------------------------------------------------------

\* Every variable keeps its type: no hop is probed more than MaxProbes times, and
\* max_ttl stays within the hops whatever number an echo reply carries.
THEOREM TypeCorrect == Spec => []TypeOK
<1>1. Inv => TypeOK
  BY DEF Inv
<1> QED
  BY <1>1, Invariance, PTL

\* With any number of hops and probes, and whatever is lost, late or fails to be sent,
\* main() gives no hop up before a select() has followed its last attempt.
THEOREM LastProbesHeard == Spec => []LastProbeHeard
<1>1. Inv => LastProbeHeard
  BY DEF Inv, EndInv
<1> QED
  BY <1>1, Invariance, PTL

\* Whatever the fields of HopResult hold at first, and in whatever order and however
\* often answers arrive, a hop that shares its id with no other when an answer with it is
\* read is printed with what the first answer to its own query said.
THEOREM PrintedNamesFollow == Spec => []NamesFollowAnswers
<1>1. Inv => NamesFollowAnswers
  BY DEF Inv, EndInv
<1> QED
  BY <1>1, Invariance, PTL

\* A hop that has answered is neither probed nor asked for again, and keeps its
\* answer.
THEOREM FirstAnswerCounts == Spec => Settled
<1> DEFINE Step ==
      \A i \in Hops :
         answer[i] # "none" =>
             /\ answer'[i] = answer[i]
             /\ attempts'[i] = attempts[i]
             /\ \A q \in queries' \ queries : q.hop # i
<1>1. Inv /\ [Next]_vars => [Step]_vars
  <2> SUFFICES ASSUME Inv, Next, NEW i \in Hops, answer[i] # "none"
               PROVE  /\ answer'[i] = answer[i]
                      /\ attempts'[i] = attempts[i]
                      /\ \A q \in queries' \ queries : q.hop # i
    OBVIOUS
  <2>1. CASE FirstProbes
    BY <2>1 DEF Inv, ProbeInv, FirstProbes
  <2>2. ASSUME NEW D \in SUBSET MayBeDue, Scan(D)
        PROVE  UNCHANGED <<answer, queries>> /\ attempts'[i] = attempts[i]
    BY <2>2 DEF Scan, MayBeDue, PendingHops, Pending, dnsVars
  <2>3. CASE Resend \/ NoResend
    <3>1. PICK D \in SUBSET MayBeDue : Scan(D)
      BY <2>3 DEF Resend, NoResend
    <3> QED
      BY <2>2, <3>1
  <2>4. CASE ReadICMP
    <3>1. PICK msg \in OwnAnswers \cup ForeignEchoes : Record(seqOf(msg), msg.type)
      BY <2>4 DEF ReadICMP
    <3>2. msg.type \in Types
      BY Messages
    <3> QED
      BY <2>4, <3>1, <3>2, Lowered, RecordInv DEF ReadICMP, Inv
  <2>5. CASE NothingForUs \/ ReadDNS \/ DieReading \/ PrintResults \/ Done
    BY <2>5 DEF NothingForUs, ReadDNS, DieReading, PrintResults, Done, vars, dnsVars
  <2> QED
    BY <2>1, <2>3, <2>4, <2>5 DEF Next
<1> QED
  BY <1>1, Invariance, PTL DEF Spec, Settled
===============================================================================
