---------------------------- MODULE CrawlerProofs ----------------------------
(***************************************************************************)
(* Theorems about Crawler, for any number of threads, any input file and   *)
(* any resolution of names: no host is looked up twice, no address is      *)
(* contacted twice, no URL is skipped, and the counters account for all.   *)
(***************************************************************************)
EXTENDS Crawler, FiniteSetTheorems, TLAPS

USE CrawlerAssumption

\* A thread that has popped a URL holds a host, and one that has resolved it a
\* list of addresses.
HoldInv ==
    \A t \in Threads : /\ th[t] \in {"host", "count", "dns"} => url[t] \in Hosts
                       /\ th[t] \in {"ip", "contact"} => addr[t] \in Answers

\* The types of what the sets and the queue depend on; those of the counters are in
\* CounterInv.
TypeInv ==
    /\ urlQueue \in Seq(Hosts)
    /\ seenHosts \subseteq Hosts /\ seenIPs \subseteq IPs
    /\ th \in [Threads -> Places]
    /\ url \in [Threads -> Hosts \cup {None}]
    /\ addr \in [Threads -> Answers \cup {None}]
    /\ lookups \in [Hosts -> Nat] /\ contacts \in [IPs -> Nat]
    /\ HoldInv

\* A host is in seenHosts before it is looked up.  A thread at "count" owns its
\* host: nobody has looked it up, and no other thread is about to.
HostInv ==
    /\ \A h \in Hosts : lookups[h] <= 1 /\ (lookups[h] = 1 => h \in seenHosts)
    /\ \A t \in Threads : th[t] = "count" =>
         /\ lookups[url[t]] = 0 /\ url[t] \in seenHosts
         /\ \A u \in Threads : th[u] = "count" /\ url[u] = url[t] => u = t

\* The same for first addresses, with "contact" for "count".
First(t) == Head(addr[t])
AddressInv ==
    /\ \A i \in IPs : contacts[i] <= 1 /\ (contacts[i] = 1 => i \in seenIPs)
    /\ \A t \in Threads : th[t] = "contact" =>
         /\ contacts[First(t)] = 0 /\ First(t) \in seenIPs
         /\ \A u \in Threads : th[u] = "contact" /\ First(u) = First(t) => u = t

\* A host of the file is still queued, or popped and not yet tested, or seen; a
\* host that was seen has been looked up, or is about to be.
Queued(h) == \E k \in DOMAIN urlQueue : urlQueue[k] = h
QueueInv ==
    /\ \A k \in DOMAIN Input :
         \/ Queued(Input[k])
         \/ \E t \in Threads : th[t] = "host" /\ url[t] = Input[k]
         \/ Input[k] \in seenHosts
    /\ \A h \in seenHosts : lookups[h] = 1
                            \/ \E t \in Threads : th[t] = "count" /\ url[t] = h
    /\ \A t \in Threads : th[t] \in {"leave", "done"} => urlQueue = <<>>

Inv == TypeInv /\ HostInv /\ AddressInv /\ QueueInv

LEMMA InitInv == Init => Inv
<1> SUFFICES ASSUME Init PROVE Inv
    OBVIOUS
<1>1. TypeInv
    BY DEF Init, TypeInv, HoldInv, Places
<1>2. HostInv /\ AddressInv
    BY DEF Init, HostInv, AddressInv, First
<1>3. QueueInv
    BY DEF Init, QueueInv, Queued
<1> QED
    BY <1>1, <1>2, <1>3 DEF Inv

------------------------------------------------------------------------------
(* One lemma per kind of step.                                                *)

\* A step that moves t to a place with no obligations, and leaves the queue, the
\* sets, what the threads hold and the history alone.
Free == {"pop", "robots", "get", "parse"} \cup Codes

LEMMA FreeStep ==
    ASSUME Inv, NEW t \in Threads, NEW p \in Free, th' = [th EXCEPT ![t] = p],
           th[t] \notin {"host", "count"},
           UNCHANGED <<urlQueue, seenHosts, seenIPs, url, addr, lookups, contacts>>
    PROVE  Inv'
<1>1. p \notin {"host", "count", "dns", "ip", "contact", "leave", "done"} /\ p \in Places
    BY DEF Free, Places, Codes
<1>2. \A u \in Threads : th'[u] = th[u] \/ (u = t /\ th'[u] = p)
    BY DEF Inv, TypeInv
<1>3. TypeInv'
    BY <1>1, <1>2 DEF Inv, TypeInv, HoldInv
<1>4. HostInv'
    BY <1>1, <1>2 DEF Inv, HostInv
<1>5. AddressInv'
    BY <1>1, <1>2 DEF Inv, AddressInv, First
<1>6. QueueInv'
    <2>1. \A u \in Threads : th[u] \in {"host", "count"} => th'[u] = th[u]
        BY <1>2
    <2>2. \A h : Queued(h)' <=> Queued(h)
        BY DEF Queued
    <2> QED
        BY <1>1, <1>2, <2>1, <2>2 DEF Inv, QueueInv
<1> QED
    BY <1>3, <1>4, <1>5, <1>6 DEF Inv

\* Pop(): the URL leaves the queue and t holds it.
LEMMA PopInv == ASSUME Inv, NEW t \in Threads, Pop(t) PROVE Inv'
<1>1. /\ th[t] = "pop" /\ th' = [th EXCEPT ![t] = "host"] /\ urlQueue # <<>>
      /\ url' = [url EXCEPT ![t] = Head(urlQueue)] /\ urlQueue' = Tail(urlQueue)
      /\ UNCHANGED <<seenHosts, seenIPs, addr, lookups, contacts>>
    BY DEF Pop, Goto, histVars
<1>2. \A u \in Threads : /\ u # t => th'[u] = th[u] /\ url'[u] = url[u]
                         /\ u = t => th'[u] = "host" /\ url'[u] = Head(urlQueue)
    BY <1>1 DEF Inv, TypeInv
<1>3. urlQueue \in Seq(Hosts) /\ Head(urlQueue) \in Hosts /\ Tail(urlQueue) \in Seq(Hosts)
    BY <1>1 DEF Inv, TypeInv
<1>4. TypeInv'
    BY <1>1, <1>2, <1>3 DEF Inv, TypeInv, HoldInv, Places
<1>5. HostInv' /\ AddressInv'
    BY <1>1, <1>2 DEF Inv, HostInv, AddressInv, First
<1>6. ASSUME NEW h, Queued(h) PROVE Queued(h)' \/ h = Head(urlQueue)
    <2>1. PICK k \in DOMAIN urlQueue : urlQueue[k] = h
        BY <1>6 DEF Queued
    <2>2. k \in 1..Len(urlQueue) /\ Len(urlQueue) \in Nat
        BY <1>3, <2>1
    <2>3. CASE k = 1
        BY <1>1, <1>3, <2>1, <2>3
    <2>4. CASE k # 1
        <3>1. k - 1 \in DOMAIN Tail(urlQueue) /\ Tail(urlQueue)[k - 1] = h
            BY <1>1, <1>3, <2>1, <2>2, <2>4
        <3> QED
            BY <1>1, <3>1 DEF Queued
    <2> QED
        BY <2>3, <2>4
<1>7. QueueInv'
    <2>1. ASSUME NEW k \in DOMAIN Input
          PROVE  \/ Queued(Input[k])'
                 \/ \E u \in Threads : th'[u] = "host" /\ url'[u] = Input[k]
                 \/ Input[k] \in seenHosts'
        <3>1. CASE Queued(Input[k])
            BY <1>2, <1>6, <3>1
        <3>2. CASE \E u \in Threads : th[u] = "host" /\ url[u] = Input[k]
            BY <1>1, <1>2, <3>2
        <3>3. CASE Input[k] \in seenHosts
            BY <1>1, <3>3
        <3> QED
            BY <3>1, <3>2, <3>3 DEF Inv, QueueInv
    <2>2. \A h \in seenHosts' : lookups'[h] = 1
                \/ \E u \in Threads : th'[u] = "count" /\ url'[u] = h
        BY <1>1, <1>2 DEF Inv, QueueInv
    <2>3. \A u \in Threads : th'[u] \in {"leave", "done"} => urlQueue' = <<>>
        BY <1>1, <1>2 DEF Inv, QueueInv
    <2> QED
        BY <2>1, <2>2, <2>3 DEF QueueInv
<1> QED
    BY <1>4, <1>5, <1>7 DEF Inv

\* A thread leaves: it has found the queue empty, and nothing is ever added.
LEMMA LeaveInv ==
    ASSUME Inv, NEW t \in Threads, QueueEmpty(t) \/ Leave(t)
    PROVE  Inv'
<1>1. PICK p \in {"leave", "done"} : th' = [th EXCEPT ![t] = p]
    BY DEF QueueEmpty, Leave, Goto
<1>2. /\ th[t] \in {"pop", "leave"} /\ urlQueue = <<>>
      /\ UNCHANGED <<urlQueue, seenHosts, seenIPs, url, addr, lookups, contacts>>
    BY DEF QueueEmpty, Leave, Goto, histVars, Inv, QueueInv
<1>3. \A u \in Threads : /\ u # t => th'[u] = th[u]
                         /\ u = t => th'[u] = p
    BY <1>1 DEF Inv, TypeInv
<1>4. TypeInv'
    BY <1>1, <1>2, <1>3 DEF Inv, TypeInv, HoldInv, Places
<1>5. HostInv' /\ AddressInv'
    BY <1>2, <1>3 DEF Inv, HostInv, AddressInv, First
<1>6. QueueInv'
    <2>1. \A h : Queued(h)' <=> Queued(h)
        BY <1>2 DEF Queued
    <2> QED
        BY <1>2, <1>3, <2>1 DEF Inv, QueueInv
<1> QED
    BY <1>4, <1>5, <1>6 DEF Inv

\* The test and the insertion are one step under seenHostsMutex, so t becomes
\* the only owner of the host.
LEMMA CheckHostInv == ASSUME Inv, NEW t \in Threads, CheckHost(t) PROVE Inv'
<1>1. /\ th[t] = "host"
      /\ th' = [th EXCEPT ![t] = IF url[t] \notin seenHosts THEN "count" ELSE "pop"]
      /\ seenHosts' = seenHosts \cup {url[t]}
      /\ UNCHANGED <<urlQueue, seenIPs, url, addr, lookups, contacts>>
    BY DEF CheckHost, Goto, isHostUnique, histVars
<1>2. url[t] \in Hosts
    BY <1>1 DEF Inv, TypeInv, HoldInv
<1>3. \A u \in Threads : /\ u # t => th'[u] = th[u]
                         /\ u = t => th'[u] = IF url[t] \notin seenHosts
                                              THEN "count" ELSE "pop"
    BY <1>1 DEF Inv, TypeInv
<1>4. TypeInv'
    BY <1>1, <1>2, <1>3 DEF Inv, TypeInv, HoldInv, Places
<1>5. HostInv'
    <2>1. url[t] \notin seenHosts => lookups[url[t]] = 0
        BY <1>2 DEF Inv, TypeInv, HostInv
    <2>2. \A u \in Threads : th[u] = "count" => url[u] \in seenHosts
        BY DEF Inv, HostInv
    <2> QED
        BY <1>1, <1>2, <1>3, <2>1, <2>2 DEF Inv, HostInv
<1>6. AddressInv'
    BY <1>1, <1>3 DEF Inv, AddressInv, First
<1>7. QueueInv'
    <2>1. \A h : Queued(h)' <=> Queued(h)
        BY <1>1 DEF Queued
    <2>2. \A u \in Threads : th[u] = "host" => th'[u] = "host" \/ url[u] \in seenHosts'
        BY <1>1, <1>3
    <2>3. ASSUME NEW h \in seenHosts'
          PROVE  lookups'[h] = 1 \/ \E u \in Threads : th'[u] = "count" /\ url'[u] = h
        <3>1. CASE h \in seenHosts
            <4>1. \A u \in Threads : th[u] = "count" => th'[u] = "count"
                BY <1>1, <1>3
            <4> QED
                BY <1>1, <3>1, <4>1 DEF Inv, QueueInv
        <3>2. CASE h \notin seenHosts
            BY <1>1, <1>3, <3>2
        <3> QED
            BY <3>1, <3>2
    <2>4. \A u \in Threads : th'[u] \in {"leave", "done"} => urlQueue' = <<>>
        BY <1>1, <1>3 DEF Inv, QueueInv
    <2>5. \A k \in DOMAIN Input :
            \/ Queued(Input[k])'
            \/ \E u \in Threads : th'[u] = "host" /\ url'[u] = Input[k]
            \/ Input[k] \in seenHosts'
        BY <1>1, <2>1, <2>2 DEF Inv, QueueInv
    <2> QED
        BY <2>3, <2>4, <2>5 DEF QueueInv
<1> QED
    BY <1>4, <1>5, <1>6, <1>7 DEF Inv

\* The owner of a host looks it up, for the first and only time.
LEMMA StartLookupInv == ASSUME Inv, NEW t \in Threads, StartLookup(t) PROVE Inv'
<1>1. /\ th[t] = "count" /\ th' = [th EXCEPT ![t] = "dns"]
      /\ lookups' = [lookups EXCEPT ![url[t]] = @ + 1]
      /\ UNCHANGED <<urlQueue, seenHosts, seenIPs, url, addr, contacts>>
    BY DEF StartLookup, Goto, shared
<1>2. url[t] \in Hosts /\ lookups[url[t]] = 0 /\ url[t] \in seenHosts
    BY <1>1 DEF Inv, TypeInv, HoldInv, HostInv
<1>3. \A u \in Threads : /\ u # t => th'[u] = th[u]
                         /\ u = t => th'[u] = "dns"
    BY <1>1 DEF Inv, TypeInv
<1>4. lookups \in [Hosts -> Nat] /\ seenHosts \subseteq Hosts
    BY DEF Inv, TypeInv
<1>5. \A h \in Hosts : lookups'[h] = IF h = url[t] THEN 1 ELSE lookups[h]
    BY <1>1, <1>2, <1>4
<1>6. TypeInv'
    <2>1. lookups' \in [Hosts -> Nat]
        BY <1>1, <1>2, <1>4
    <2> QED
        BY <1>1, <1>2, <1>3, <2>1 DEF Inv, TypeInv, HoldInv, Places
<1>7. HostInv'
    <2>1. \A u \in Threads : th'[u] = "count" => u # t /\ th[u] = "count" /\ url[u] # url[t]
        BY <1>1, <1>3 DEF Inv, HostInv
    <2>2. \A u \in Threads : th[u] = "count" => url[u] \in Hosts
        BY DEF Inv, TypeInv, HoldInv
    <2> QED
        BY <1>1, <1>2, <1>5, <2>1, <2>2 DEF Inv, HostInv
<1>8. AddressInv'
    BY <1>1, <1>3 DEF Inv, AddressInv, First
<1>9. QueueInv'
    <2>1. \A h : Queued(h)' <=> Queued(h)
        BY <1>1 DEF Queued
    <2>2. \A u \in Threads : th[u] = "host" => th'[u] = "host"
        BY <1>1, <1>3
    <2>3. \A h \in seenHosts' : lookups'[h] = 1
                \/ \E u \in Threads : th'[u] = "count" /\ url'[u] = h
        <3> SUFFICES ASSUME NEW h \in seenHosts, h # url[t]
                     PROVE  lookups'[h] = 1
                            \/ \E u \in Threads : th'[u] = "count" /\ url'[u] = h
            BY <1>1, <1>2, <1>5
        <3>1. CASE lookups[h] = 1
            BY <1>4, <1>5, <3>1
        <3>2. CASE \E u \in Threads : th[u] = "count" /\ url[u] = h
            BY <1>1, <1>3, <3>2
        <3> QED
            BY <3>1, <3>2 DEF Inv, QueueInv
    <2>4. \A u \in Threads : th'[u] \in {"leave", "done"} => urlQueue' = <<>>
        BY <1>1, <1>3 DEF Inv, QueueInv
    <2>5. \A k \in DOMAIN Input :
            \/ Queued(Input[k])'
            \/ \E u \in Threads : th'[u] = "host" /\ url'[u] = Input[k]
            \/ Input[k] \in seenHosts'
        BY <1>1, <2>1, <2>2 DEF Inv, QueueInv
    <2> QED
        BY <2>3, <2>4, <2>5 DEF QueueInv
<1> QED
    BY <1>6, <1>7, <1>8, <1>9 DEF Inv

\* resolveDNS(): t now holds an address.
LEMMA ResolveInv == ASSUME Inv, NEW t \in Threads, resolveDNS(t) PROVE Inv'
<1>1. /\ th[t] = "dns" /\ th' = [th EXCEPT ![t] = "ip"]
      /\ UNCHANGED <<urlQueue, seenHosts, seenIPs, url, lookups, contacts>>
    BY DEF resolveDNS, Goto, shared, histVars
<1>2. PICK a \in Answers : addr' = [addr EXCEPT ![t] = a]
    BY DEF resolveDNS
<1>3. \A u \in Threads : /\ u # t => th'[u] = th[u] /\ addr'[u] = addr[u]
                         /\ u = t => th'[u] = "ip" /\ addr'[u] = a
    BY <1>1, <1>2 DEF Inv, TypeInv
<1>4. TypeInv'
    BY <1>1, <1>2, <1>3 DEF Inv, TypeInv, HoldInv, Places
<1>5. HostInv' /\ AddressInv'
    BY <1>1, <1>3 DEF Inv, HostInv, AddressInv, First
<1>6. QueueInv'
    <2>1. \A u \in Threads : th[u] \in {"host", "count"} => th'[u] = th[u]
        BY <1>1, <1>3
    <2>2. \A h : Queued(h)' <=> Queued(h)
        BY <1>1 DEF Queued
    <2> QED
        BY <1>1, <1>3, <2>1, <2>2 DEF Inv, QueueInv
<1> QED
    BY <1>4, <1>5, <1>6 DEF Inv

\* The test and the insertion are one step under seenIPsMutex.
LEMMA CheckIPInv == ASSUME Inv, NEW t \in Threads, CheckIP(t) PROVE Inv'
<1>1. /\ th[t] = "ip"
      /\ th' = [th EXCEPT ![t] = IF First(t) \notin seenIPs THEN "contact" ELSE "pop"]
      /\ seenIPs' = seenIPs \cup {First(t)}
      /\ UNCHANGED <<urlQueue, seenHosts, url, addr, lookups, contacts>>
    BY DEF CheckIP, Goto, isIPUnique, histVars, First
<1>2. First(t) \in IPs
    BY <1>1 DEF Inv, TypeInv, HoldInv, First
<1>3. \A u \in Threads : /\ u # t => th'[u] = th[u]
                         /\ u = t => th'[u] = IF First(t) \notin seenIPs
                                              THEN "contact" ELSE "pop"
    BY <1>1 DEF Inv, TypeInv
<1>4. TypeInv'
    BY <1>1, <1>2, <1>3 DEF Inv, TypeInv, HoldInv, Places
<1>5. AddressInv'
    <2>1. First(t) \notin seenIPs => contacts[First(t)] = 0
        BY <1>2 DEF Inv, TypeInv, AddressInv
    <2>2. \A u \in Threads : th[u] = "contact" => First(u) \in seenIPs
        BY DEF Inv, AddressInv, First
    <2> QED
        BY <1>1, <1>2, <1>3, <2>1, <2>2 DEF Inv, AddressInv, First
<1>6. HostInv'
    BY <1>1, <1>3 DEF Inv, HostInv
<1>7. QueueInv'
    <2>1. \A u \in Threads : th[u] \in {"host", "count"} => th'[u] = th[u]
        BY <1>1, <1>3
    <2>2. \A h : Queued(h)' <=> Queued(h)
        BY <1>1 DEF Queued
    <2> QED
        BY <1>1, <1>3, <2>1, <2>2 DEF Inv, QueueInv
<1> QED
    BY <1>4, <1>5, <1>6, <1>7 DEF Inv

\* The owner of an address contacts it, for the first and only time.
LEMMA StartRobotsInv == ASSUME Inv, NEW t \in Threads, StartRobots(t) PROVE Inv'
<1>1. /\ th[t] = "contact" /\ th' = [th EXCEPT ![t] = "robots"]
      /\ contacts' = [contacts EXCEPT ![First(t)] = @ + 1]
      /\ UNCHANGED <<urlQueue, seenHosts, seenIPs, url, addr, lookups>>
    BY DEF StartRobots, Goto, shared, First
<1>2. First(t) \in IPs /\ contacts[First(t)] = 0 /\ First(t) \in seenIPs
    BY <1>1 DEF Inv, TypeInv, HoldInv, AddressInv, First
<1>3. \A u \in Threads : /\ u # t => th'[u] = th[u]
                         /\ u = t => th'[u] = "robots"
    BY <1>1 DEF Inv, TypeInv
<1>4. contacts \in [IPs -> Nat]
    BY DEF Inv, TypeInv
<1>5. \A i \in IPs : contacts'[i] = IF i = First(t) THEN 1 ELSE contacts[i]
    BY <1>1, <1>2, <1>4
<1>6. TypeInv'
    <2>1. contacts' \in [IPs -> Nat]
        BY <1>1, <1>2, <1>4
    <2> QED
        BY <1>1, <1>2, <1>3, <2>1 DEF Inv, TypeInv, HoldInv, Places
<1>7. AddressInv'
    <2>1. \A u \in Threads : th'[u] = "contact" =>
                               u # t /\ th[u] = "contact" /\ First(u) # First(t)
        BY <1>1, <1>3 DEF Inv, AddressInv, First
    <2>2. \A u \in Threads : th[u] = "contact" => First(u) \in IPs
        BY DEF Inv, TypeInv, HoldInv, First
    <2> QED
        BY <1>1, <1>2, <1>5, <2>1, <2>2 DEF Inv, AddressInv, First
<1>8. HostInv'
    BY <1>1, <1>3 DEF Inv, HostInv
<1>9. QueueInv'
    <2>1. \A u \in Threads : th[u] \in {"host", "count"} => th'[u] = th[u]
        BY <1>1, <1>3
    <2>2. \A h : Queued(h)' <=> Queued(h)
        BY <1>1 DEF Queued
    <2> QED
        BY <1>1, <1>3, <2>1, <2>2 DEF Inv, QueueInv
<1> QED
    BY <1>6, <1>7, <1>8, <1>9 DEF Inv

------------------------------------------------------------------------------

LEMMA NextInv == Inv /\ [Next]_vars => Inv'
<1> SUFFICES ASSUME Inv, [Next]_vars PROVE Inv'
    OBVIOUS
<1>0. ASSUME UNCHANGED <<urlQueue, seenHosts, seenIPs, th, url, addr, lookups, contacts>>
      PROVE  Inv'
    <2>1. \A h : Queued(h)' <=> Queued(h)
        BY <1>0 DEF Queued
    <2> QED
        BY <1>0, <2>1 DEF Inv, TypeInv, HoldInv, HostInv, AddressInv, First, QueueInv
<1>1. ASSUME NEW t \in Threads, processURLs(t) PROVE Inv'
    <2>1. CASE Pop(t)
        BY <2>1, PopInv
    <2>2. CASE QueueEmpty(t) \/ Leave(t)
        BY <2>2, LeaveInv
    <2>3. CASE CheckHost(t)
        BY <2>3, CheckHostInv
    <2>4. CASE StartLookup(t)
        BY <2>4, StartLookupInv
    <2>5. CASE resolveDNS(t)
        BY <2>5, ResolveInv
    <2>6. CASE CheckIP(t)
        BY <2>6, CheckIPInv
    <2>7. CASE StartRobots(t)
        BY <2>7, StartRobotsInv
    <2>8. CASE Start(t) \/ LookupFails(t) \/ parsePageLinks(t)
        <3>1. th[t] \in {"start", "dns", "parse"} /\ th' = [th EXCEPT ![t] = "pop"]
            BY <2>8 DEF Start, LookupFails, parsePageLinks, Goto
        <3>2. UNCHANGED <<urlQueue, seenHosts, seenIPs, url, addr, lookups, contacts>>
            BY <2>8 DEF Start, LookupFails, parsePageLinks, shared, histVars
        <3> QED
            BY <3>1, <3>2, FreeStep DEF Free
    <2>9. ASSUME NEW r \in Responses, Robots(t, r) \/ Page(t, r) PROVE Inv'
        <3>1. th[t] \in {"robots", "get"}
            BY <2>9 DEF Robots, Page, Goto
        <3>2. PICK p \in Free : th' = [th EXCEPT ![t] = p]
            BY <2>9 DEF Robots, Page, Goto, Free, Responses
        <3>3. UNCHANGED <<urlQueue, seenHosts, seenIPs, url, addr, lookups, contacts>>
            BY <2>9 DEF Robots, Page, shared, histVars
        <3> QED
            BY <3>1, <3>2, <3>3, FreeStep
    <2>10. CASE Classify(t)
        <3>1. th[t] \notin {"host", "count"}
            BY <2>10 DEF Classify, Codes
        <3>2. PICK p \in Free : th' = [th EXCEPT ![t] = p]
            BY <2>10 DEF Classify, Free
        <3>3. UNCHANGED <<urlQueue, seenHosts, seenIPs, url, addr, lookups, contacts>>
            BY <2>10 DEF Classify, shared, histVars
        <3> QED
            BY <3>1, <3>2, <3>3, FreeStep
    <2>11. CASE BadStatus(t)
        BY <2>11, <1>0 DEF BadStatus, shared, histVars
    <2> QED
        BY <1>1, <2>1, <2>2, <2>3, <2>4, <2>5, <2>6, <2>7, <2>8, <2>9, <2>10, <2>11
        DEF processURLs
<1>3. CASE printStatsPeriodically \/ Done \/ UNCHANGED vars
    BY <1>0, <1>3 DEF printStatsPeriodically, SeeFinished, printFinalStats, Done, vars,
                      shared, histVars
<1> QED
    BY <1>1, <1>3 DEF Next

\* Inv is an invariant of the crawler.
LEMMA Invariant == Spec => []Inv
    BY InitInv, NextInv, PTL DEF Spec

\* However many threads popped the same host, only one looks it up: the mutex
\* around seenHosts makes the test and the insertion one step.
THEOREM HostLookedUpOnce == Spec => []HostOnce
<1>1. Inv => HostOnce
    BY DEF Inv, HostInv, HostOnce
<1> QED
    BY <1>1, Invariant, PTL

\* However many hosts have the same first address, one of them has its
\* robots.txt asked for.
THEOREM AddressContactedOnce == Spec => []AddressOnce
<1>1. Inv => AddressOnce
    BY DEF Inv, AddressInv, AddressOnce
<1> QED
    BY <1>1, Invariant, PTL

\* When the last thread has left, every host of the file has been looked up: no
\* URL is lost between the queue and the thread that popped it.
THEOREM NoURLSkipped == Spec => []NothingSkipped
<1>1. Inv => NothingSkipped
    <2> SUFFICES ASSUME Inv, AllDone, Threads # {}, NEW k \in DOMAIN Input
                 PROVE  lookups[Input[k]] = 1
        BY DEF NothingSkipped
    <2>1. urlQueue = <<>>
        BY DEF Inv, QueueInv, AllDone
    <2>2. ~Queued(Input[k])
        BY <2>1 DEF Queued
    <2>3. Input[k] \in seenHosts
        BY <2>2 DEF Inv, QueueInv, AllDone
    <2> QED
        BY <2>3 DEF Inv, QueueInv, AllDone
<1> QED
    BY <1>1, Invariant, PTL

------------------------------------------------------------------------------
(* The counters.                                                              *)

Bit(x, S) == IF x \in S THEN 1 ELSE 0

Among(f, S) == {u \in Threads : f[u] \in S}

Active == Places \ {"start", "done"}

\* Moving one thread changes the number of threads in S by at most one.
LEMMA Moved ==
    ASSUME NEW f \in [Threads -> Places], NEW g \in [Threads -> Places],
           NEW t \in Threads, NEW S, \A u \in Threads \ {t} : g[u] = f[u]
    PROVE  /\ Cardinality(Among(f, S)) \in Nat /\ Cardinality(Among(g, S)) \in Nat
           /\ Cardinality(Among(g, S)) + Bit(f[t], S)
                = Cardinality(Among(f, S)) + Bit(g[t], S)
<1> DEFINE A == Among(f, S)
           B == Among(g, S)
           R == A \ {t}
<1>1. IsFiniteSet(A) /\ Cardinality(A) \in Nat
    BY FS_Subset, FS_CardinalityType DEF Among
<1>2. IsFiniteSet(R) /\ Cardinality(R) \in Nat /\ t \notin R
    BY <1>1, FS_RemoveElement, FS_CardinalityType
<1>3. A = IF f[t] \in S THEN R \cup {t} ELSE R
    BY DEF Among
<1>4. B = IF g[t] \in S THEN R \cup {t} ELSE R
    BY DEF Among
<1> HIDE DEF A, B, R
<1>5. IsFiniteSet(R \cup {t}) /\ Cardinality(R \cup {t}) = Cardinality(R) + 1
    BY <1>2, FS_AddElement
<1>6. Cardinality(A) = Cardinality(R) + Bit(f[t], S)
    BY <1>2, <1>3, <1>5 DEF Bit
<1>7. Cardinality(B) = Cardinality(R) + Bit(g[t], S)
    BY <1>2, <1>4, <1>5 DEF Bit
<1>8. Bit(f[t], S) \in Nat /\ Bit(g[t], S) \in Nat
    BY DEF Bit
<1>9. /\ Cardinality(A) \in Nat /\ Cardinality(B) \in Nat
      /\ Cardinality(B) + Bit(f[t], S) = Cardinality(A) + Bit(g[t], S)
    BY <1>2, <1>6, <1>7, <1>8
<1> QED
    BY <1>9 DEF A, B

LEMMA MovedAt ==
    ASSUME TypeInv, NEW t \in Threads, NEW p \in Places, th' = [th EXCEPT ![t] = p],
           NEW S
    PROVE  /\ At(S) \in Nat /\ At(S)' \in Nat
           /\ At(S)' + Bit(th[t], S) = At(S) + Bit(p, S)
<1> DEFINE g == th'
<1>1. /\ th \in [Threads -> Places] /\ g \in [Threads -> Places] /\ g[t] = p
      /\ \A u \in Threads \ {t} : g[u] = th[u]
    BY DEF TypeInv
<1>2. At(S) = Cardinality(Among(th, S)) /\ At(S)' = Cardinality(Among(g, S))
    BY DEF At, Among
<1> HIDE DEF g
<1>3. /\ Cardinality(Among(th, S)) \in Nat /\ Cardinality(Among(g, S)) \in Nat
      /\ Cardinality(Among(g, S)) + Bit(th[t], S)
           = Cardinality(Among(th, S)) + Bit(g[t], S)
    BY <1>1, Moved
<1> QED
    BY <1>1, <1>2, <1>3

LEMMA BitType == \A x, S : Bit(x, S) \in Nat
BY DEF Bit

CounterInv ==
    /\ stats \in [Counters -> Nat] /\ activeThreadsCount \in Nat
    /\ IsFiniteSet(seenHosts) /\ IsFiniteSet(seenIPs)

CodesIn(C) == Bit("2xx", C) + Bit("3xx", C) + Bit("4xx", C)
              + Bit("5xx", C) + Bit("other", C)

\* A step that moves t to p and counts C: what it adds to one side of each
\* equation of Accounted it must add to the other.
LEMMA Balance ==
    ASSUME Inv, CounterInv, Accounted, NEW t \in Threads,
           NEW p \in Places, NEW C,
           th' = [th EXCEPT ![t] = p], Count(C), CounterInv',
           Len(urlQueue) \in Nat, Len(urlQueue') \in Nat,
           Bit("E", C) + Bit(p, {"host"}) + Len(urlQueue')
               = Bit(th[t], {"host"}) + Len(urlQueue),
           Bit("H", C) + Bit(p, {"count"}) + Cardinality(seenHosts)
               = Bit(th[t], {"count"}) + Cardinality(seenHosts'),
           Bit("I", C) + Bit(p, {"contact"}) + Cardinality(seenIPs)
               = Bit(th[t], {"contact"}) + Cardinality(seenIPs'),
           CodesIn(C) + Bit(p, Codes) = Bit(th[t], Codes) + Bit("C", C),
           activeThreadsCount' + Bit(th[t], Active)
               = activeThreadsCount + Bit(p, Active)
    PROVE  Accounted'
<1>1. \A c \in Counters : /\ stats[c] \in Nat
                          /\ stats'[c] = stats[c] + Bit(c, C)
    BY DEF CounterInv, Count, Bit
<1>2. {"E", "H", "I", "C", "2xx", "3xx", "4xx", "5xx", "other"} \subseteq Counters
    BY DEF Counters, Codes
<1>3. TypeInv
    BY DEF Inv
<1>4. /\ Cardinality(seenHosts) \in Nat /\ Cardinality(seenHosts') \in Nat
      /\ Cardinality(seenIPs) \in Nat /\ Cardinality(seenIPs') \in Nat
    BY FS_CardinalityType DEF CounterInv
<1>5. stats'["E"] + At({"host"})' + Len(urlQueue') = Len(Input)
    <2> DEFINE s == stats["E"]  s1 == stats'["E"]  b == Bit("E", C)
               a == At({"host"})  a1 == At({"host"})'
               x == Bit(th[t], {"host"})  y == Bit(p, {"host"})
               k == Len(urlQueue)  k1 == Len(urlQueue')  n == Len(Input)
    <2>1. s \in Nat /\ b \in Nat /\ s1 = s + b
        BY <1>1, <1>2, BitType
    <2>2. a \in Nat /\ a1 \in Nat /\ x \in Nat /\ y \in Nat /\ a1 + x = a + y
        BY <1>3, MovedAt, BitType
    <2>3. /\ k \in Nat /\ k1 \in Nat /\ n \in Nat
          /\ b + y + k1 = x + k /\ s + a + k = n
        BY <1>4 DEF Accounted
    <2> HIDE DEF s, s1, b, a, a1, x, y, k, k1, n
    <2>4. s1 + a1 + k1 = n
        BY <2>1, <2>2, <2>3
    <2> QED
        BY <2>4 DEF s1, a1, k1, n
<1>6. stats'["H"] + At({"count"})' = Cardinality(seenHosts')
    <2> DEFINE s == stats["H"]  s1 == stats'["H"]  b == Bit("H", C)
               a == At({"count"})  a1 == At({"count"})'
               x == Bit(th[t], {"count"})  y == Bit(p, {"count"})
               k == Cardinality(seenHosts)  k1 == Cardinality(seenHosts')
    <2>1. s \in Nat /\ b \in Nat /\ s1 = s + b
        BY <1>1, <1>2, BitType
    <2>2. a \in Nat /\ a1 \in Nat /\ x \in Nat /\ y \in Nat /\ a1 + x = a + y
        BY <1>3, MovedAt, BitType
    <2>3. k \in Nat /\ k1 \in Nat /\ b + y + k = x + k1 /\ s + a = k
        BY <1>4 DEF Accounted
    <2> HIDE DEF s, s1, b, a, a1, x, y, k, k1
    <2>4. s1 + a1 = k1
        BY <2>1, <2>2, <2>3
    <2> QED
        BY <2>4 DEF s1, a1, k1
<1>7. stats'["I"] + At({"contact"})' = Cardinality(seenIPs')
    <2> DEFINE s == stats["I"]  s1 == stats'["I"]  b == Bit("I", C)
               a == At({"contact"})  a1 == At({"contact"})'
               x == Bit(th[t], {"contact"})  y == Bit(p, {"contact"})
               k == Cardinality(seenIPs)  k1 == Cardinality(seenIPs')
    <2>1. s \in Nat /\ b \in Nat /\ s1 = s + b
        BY <1>1, <1>2, BitType
    <2>2. a \in Nat /\ a1 \in Nat /\ x \in Nat /\ y \in Nat /\ a1 + x = a + y
        BY <1>3, MovedAt, BitType
    <2>3. k \in Nat /\ k1 \in Nat /\ b + y + k = x + k1 /\ s + a = k
        BY <1>4 DEF Accounted
    <2> HIDE DEF s, s1, b, a, a1, x, y, k, k1
    <2>4. s1 + a1 = k1
        BY <2>1, <2>2, <2>3
    <2> QED
        BY <2>4 DEF s1, a1, k1
<1>8. stats'["2xx"] + stats'["3xx"] + stats'["4xx"] + stats'["5xx"] + stats'["other"]
          + At(Codes)' = stats'["C"]
    <2> DEFINE s2 == stats["2xx"]  s3 == stats["3xx"]  s4 == stats["4xx"]
               s5 == stats["5xx"]  s6 == stats["other"]  s == stats["C"]
               b2 == Bit("2xx", C)  b3 == Bit("3xx", C)  b4 == Bit("4xx", C)
               b5 == Bit("5xx", C)  b6 == Bit("other", C)  b == Bit("C", C)
               a == At(Codes)  a1 == At(Codes)'
               x == Bit(th[t], Codes)  y == Bit(p, Codes)
               r2 == stats'["2xx"]  r3 == stats'["3xx"]  r4 == stats'["4xx"]
               r5 == stats'["5xx"]  r6 == stats'["other"]  r == stats'["C"]
    <2>1. /\ s2 \in Nat /\ s3 \in Nat /\ s4 \in Nat /\ s5 \in Nat /\ s6 \in Nat /\ s \in Nat
          /\ r2 = s2 + b2 /\ r3 = s3 + b3 /\ r4 = s4 + b4 /\ r5 = s5 + b5 /\ r6 = s6 + b6
          /\ r = s + b
        BY <1>1, <1>2
    <2>2. /\ b2 \in Nat /\ b3 \in Nat /\ b4 \in Nat /\ b5 \in Nat /\ b6 \in Nat /\ b \in Nat
          /\ x \in Nat /\ y \in Nat
        BY BitType
    <2>3. a \in Nat /\ a1 \in Nat /\ a1 + x = a + y
        BY <1>3, MovedAt
    <2>4. /\ b2 + b3 + b4 + b5 + b6 + y = x + b
          /\ s2 + s3 + s4 + s5 + s6 + a = s
        BY DEF Accounted, CodesIn
    <2> HIDE DEF s2, s3, s4, s5, s6, s, b2, b3, b4, b5, b6, b, a, a1, x, y, r2, r3, r4, r5,
                 r6, r
    <2>5. r2 + r3 + r4 + r5 + r6 + a1 = r
        BY <2>1, <2>2, <2>3, <2>4
    <2> QED
        BY <2>5 DEF r2, r3, r4, r5, r6, a1, r
<1>9. activeThreadsCount' = At(Active)'
    <2> DEFINE a == At(Active)  a1 == At(Active)'  c == activeThreadsCount
               c1 == activeThreadsCount'  x == Bit(th[t], Active)  y == Bit(p, Active)
    <2>1. a \in Nat /\ a1 \in Nat /\ a1 + x = a + y
        BY <1>3, MovedAt
    <2>2. x \in Nat /\ y \in Nat /\ c1 \in Nat /\ c1 + x = c + y /\ c = a
        BY BitType DEF CounterInv, Accounted, Active
    <2> HIDE DEF a, a1, c, c1, x, y
    <2>3. c1 = a1
        BY <2>1, <2>2
    <2> QED
        BY <2>3 DEF c1, a1
<1> QED
    BY <1>5, <1>6, <1>7, <1>8, <1>9 DEF Accounted, Active

LEMMA CountType == ASSUME CounterInv, NEW C, Count(C) PROVE stats' \in [Counters -> Nat]
BY DEF CounterInv, Count

LEMMA CountNothing == ASSUME CounterInv, UNCHANGED stats PROVE Count({})
BY DEF CounterInv, Count

LEMMA Sizes ==
    ASSUME Inv, CounterInv
    PROVE  /\ Len(urlQueue) \in Nat
           /\ Cardinality(seenHosts) \in Nat /\ Cardinality(seenIPs) \in Nat
BY FS_CardinalityType DEF Inv, TypeInv, CounterInv

\* A step of an active thread that leaves the queue and the sets alone.
LEMMA BalanceAlone ==
    ASSUME Inv, CounterInv, Accounted, NEW t \in Threads, NEW p \in Active, NEW C,
           th' = [th EXCEPT ![t] = p], Count(C), UNCHANGED shared,
           th[t] \in Active \ {"host"}, p # "host", "E" \notin C,
           Bit("H", C) + Bit(p, {"count"}) = Bit(th[t], {"count"}),
           Bit("I", C) + Bit(p, {"contact"}) = Bit(th[t], {"contact"}),
           CodesIn(C) + Bit(p, Codes) = Bit(th[t], Codes) + Bit("C", C)
    PROVE  CounterInv' /\ Accounted'
<1>1. UNCHANGED <<urlQueue, seenHosts, seenIPs, activeThreadsCount>>
    BY DEF shared
<1>2. CounterInv'
    BY <1>1, CountType DEF CounterInv
<1>3. /\ Len(urlQueue) \in Nat /\ Len(urlQueue') \in Nat
      /\ Cardinality(seenHosts) \in Nat /\ Cardinality(seenIPs) \in Nat
    BY <1>1, Sizes
<1>4. p \in Places
    BY DEF Active
<1>5. Bit("E", C) + Bit(p, {"host"}) + Len(urlQueue')
          = Bit(th[t], {"host"}) + Len(urlQueue)
    BY <1>1, <1>3 DEF Bit
<1>6. /\ Bit("H", C) + Bit(p, {"count"}) + Cardinality(seenHosts)
          = Bit(th[t], {"count"}) + Cardinality(seenHosts')
      /\ Bit("I", C) + Bit(p, {"contact"}) + Cardinality(seenIPs)
          = Bit(th[t], {"contact"}) + Cardinality(seenIPs')
    BY <1>1, <1>3, BitType
<1>7. activeThreadsCount' + Bit(th[t], Active) = activeThreadsCount + Bit(p, Active)
    BY <1>1 DEF Bit
<1> QED
    BY <1>2, <1>3, <1>4, <1>5, <1>6, <1>7, Balance

\* The start and the end of a thread, and its turns at the queue.
LEMMA AccountedTurns ==
    ASSUME Inv, CounterInv, Accounted, NEW t \in Threads,
           Start(t) \/ Leave(t) \/ Pop(t) \/ QueueEmpty(t)
    PROVE  CounterInv' /\ Accounted'
<1>1. /\ UNCHANGED <<seenHosts, seenIPs, stats>> /\ Count({})
      /\ Len(urlQueue) \in Nat
      /\ Cardinality(seenHosts) \in Nat /\ Cardinality(seenIPs) \in Nat
    BY CountNothing, Sizes DEF Start, Leave, Pop, QueueEmpty
<1>2. /\ Bit("E", {}) = 0 /\ Bit("H", {}) = 0 /\ Bit("I", {}) = 0
      /\ CodesIn({}) = 0 /\ Bit("C", {}) = 0
    BY DEF Bit, CodesIn
<1>3. activeThreadsCount \in Nat
    BY DEF CounterInv
<1>4. CASE Start(t) \/ Leave(t)
    <2>1. PICK p \in {"pop", "done"} :
             /\ th' = [th EXCEPT ![t] = p] /\ urlQueue' = urlQueue
             /\ \/ p = "pop" /\ th[t] = "start"
                   /\ activeThreadsCount' = activeThreadsCount + 1
                \/ p = "done" /\ th[t] = "leave"
                   /\ activeThreadsCount' = activeThreadsCount - 1
        BY <1>4 DEF Start, Leave, Goto
    <2>2. p \in Places
        BY <2>1 DEF Places
    <2>3. activeThreadsCount' \in Nat
        <3>1. CASE p = "pop"
            BY <1>3, <2>1, <3>1
        <3>2. CASE p = "done"
            <4> DEFINE a == At(Active)  a1 == At(Active)'  c == activeThreadsCount
            <4>1. Bit(th[t], Active) = 1 /\ Bit(p, Active) = 0
                BY <2>1, <3>2 DEF Bit, Active, Places
            <4>2. a \in Nat /\ a1 \in Nat /\ a1 + Bit(th[t], Active) = a + Bit(p, Active)
                BY <2>1, <2>2, MovedAt DEF Inv
            <4>3. c = a
                BY DEF Accounted, Active
            <4> HIDE DEF a, a1, c
            <4>4. c - 1 \in Nat
                BY <4>1, <4>2, <4>3
            <4> QED
                BY <2>1, <3>2, <4>4 DEF c
        <3> QED
            BY <2>1, <3>1, <3>2
    <2>4. CounterInv'
        BY <1>1, <2>3 DEF CounterInv
    <2>5. /\ Bit(p, {"host"}) = 0 /\ Bit(th[t], {"host"}) = 0
          /\ Bit(p, {"count"}) = 0 /\ Bit(th[t], {"count"}) = 0
          /\ Bit(p, {"contact"}) = 0 /\ Bit(th[t], {"contact"}) = 0
          /\ Bit(p, Codes) = 0 /\ Bit(th[t], Codes) = 0
        BY <2>1 DEF Bit, Codes
    <2>6. activeThreadsCount' + Bit(th[t], Active) = activeThreadsCount + Bit(p, Active)
        <3>1. CASE p = "pop"
            <4>1. Bit(th[t], Active) = 0 /\ Bit(p, Active) = 1
                BY <2>1, <3>1 DEF Bit, Active, Places
            <4> QED
                BY <1>3, <2>1, <3>1, <4>1
        <3>2. CASE p = "done"
            <4>1. Bit(th[t], Active) = 1 /\ Bit(p, Active) = 0
                BY <2>1, <3>2 DEF Bit, Active, Places
            <4> QED
                BY <1>3, <2>1, <3>2, <4>1
        <3> QED
            BY <2>1, <3>1, <3>2
    <2>7. /\ Bit("E", {}) + Bit(p, {"host"}) + Len(urlQueue')
              = Bit(th[t], {"host"}) + Len(urlQueue)
          /\ Bit("H", {}) + Bit(p, {"count"}) + Cardinality(seenHosts)
              = Bit(th[t], {"count"}) + Cardinality(seenHosts')
          /\ Bit("I", {}) + Bit(p, {"contact"}) + Cardinality(seenIPs)
              = Bit(th[t], {"contact"}) + Cardinality(seenIPs')
          /\ CodesIn({}) + Bit(p, Codes) = Bit(th[t], Codes) + Bit("C", {})
          /\ Len(urlQueue') \in Nat
        BY <1>1, <1>2, <2>1, <2>5
    <2> QED
        BY <1>1, <2>1, <2>2, <2>4, <2>6, <2>7, Balance
<1>5. CASE Pop(t) \/ QueueEmpty(t)
    <2>1. PICK p \in {"host", "leave"} :
             /\ th' = [th EXCEPT ![t] = p] /\ th[t] = "pop"
             /\ activeThreadsCount' = activeThreadsCount
             /\ \/ p = "host" /\ urlQueue # <<>> /\ urlQueue' = Tail(urlQueue)
                \/ p = "leave" /\ urlQueue' = urlQueue
        BY <1>5 DEF Pop, QueueEmpty, Goto
    <2>2. p \in Places
        BY <2>1 DEF Places
    <2>3. CounterInv'
        BY <1>1, <2>1 DEF CounterInv
    <2>4. /\ Bit(th[t], {"host"}) = 0 /\ Bit(p, {"host"}) = IF p = "host" THEN 1 ELSE 0
          /\ Bit(p, {"count"}) = 0 /\ Bit(th[t], {"count"}) = 0
          /\ Bit(p, {"contact"}) = 0 /\ Bit(th[t], {"contact"}) = 0
          /\ Bit(p, Codes) = 0 /\ Bit(th[t], Codes) = 0
          /\ Bit(p, Active) = 1 /\ Bit(th[t], Active) = 1
        BY <2>1 DEF Bit, Codes, Active, Places
    <2>5. /\ Len(urlQueue') \in Nat
          /\ Bit(p, {"host"}) + Len(urlQueue') = Len(urlQueue)
        <3>1. urlQueue \in Seq(Hosts)
            BY DEF Inv, TypeInv
        <3>2. CASE p = "host"
            <4>1. Len(urlQueue') = Len(urlQueue) - 1 /\ Len(urlQueue) > 0
                BY <2>1, <3>1, <3>2
            <4> QED
                BY <1>1, <2>4, <3>2, <4>1
        <3>3. CASE p = "leave"
            BY <1>1, <2>1, <2>4, <3>3
        <3> QED
            BY <3>2, <3>3
    <2>6. /\ Bit("E", {}) + Bit(p, {"host"}) + Len(urlQueue')
              = Bit(th[t], {"host"}) + Len(urlQueue)
          /\ Bit("H", {}) + Bit(p, {"count"}) + Cardinality(seenHosts)
              = Bit(th[t], {"count"}) + Cardinality(seenHosts')
          /\ Bit("I", {}) + Bit(p, {"contact"}) + Cardinality(seenIPs)
              = Bit(th[t], {"contact"}) + Cardinality(seenIPs')
          /\ CodesIn({}) + Bit(p, Codes) = Bit(th[t], Codes) + Bit("C", {})
          /\ activeThreadsCount' + Bit(th[t], Active)
              = activeThreadsCount + Bit(p, Active)
        BY <1>1, <1>2, <1>3, <2>1, <2>4, <2>5
    <2> QED
        BY <1>1, <2>1, <2>2, <2>3, <2>5, <2>6, Balance
<1> QED
    BY <1>4, <1>5

\* The two tests: whoever makes a set grow is the one who will count it.
LEMMA AccountedTests ==
    ASSUME Inv, CounterInv, Accounted, NEW t \in Threads, CheckHost(t) \/ CheckIP(t)
    PROVE  CounterInv' /\ Accounted'
<1>1. /\ UNCHANGED <<urlQueue, activeThreadsCount>> /\ Len(urlQueue) \in Nat
      /\ Cardinality(seenHosts) \in Nat /\ Cardinality(seenIPs) \in Nat
      /\ IsFiniteSet(seenHosts) /\ IsFiniteSet(seenIPs)
    BY Sizes DEF CheckHost, CheckIP, CounterInv
<1>2. CASE CheckHost(t)
    <2> DEFINE p == IF url[t] \notin seenHosts THEN "count" ELSE "pop"
    <2>1. /\ th[t] = "host" /\ th' = [th EXCEPT ![t] = p] /\ Count({"E"})
          /\ seenHosts' = seenHosts \cup {url[t]} /\ seenIPs' = seenIPs
        BY <1>2 DEF CheckHost, Goto, isHostUnique
    <2>2. /\ p \in Places /\ p \in Active /\ p # "host" /\ p # "contact" /\ p \notin Codes
          /\ th[t] \in Active /\ th[t] \notin Codes
        BY <2>1 DEF Places, Active, Codes
    <2>3. /\ IsFiniteSet(seenHosts')
          /\ Bit(p, {"count"}) + Cardinality(seenHosts) = Cardinality(seenHosts')
        <3>1. /\ IsFiniteSet(seenHosts \cup {url[t]})
              /\ Cardinality(seenHosts \cup {url[t]})
                   = IF url[t] \in seenHosts
                     THEN Cardinality(seenHosts) ELSE Cardinality(seenHosts) + 1
            BY <1>1, FS_AddElement
        <3>2. Bit(p, {"count"}) = IF url[t] \in seenHosts THEN 0 ELSE 1
            BY DEF Bit
        <3> QED
            BY <1>1, <2>1, <3>1, <3>2
    <2> HIDE DEF p
    <2>4. CounterInv'
        BY <1>1, <2>1, <2>3, CountType DEF CounterInv
    <2>5. /\ Bit("E", {"E"}) = 1 /\ Bit("H", {"E"}) = 0 /\ Bit("I", {"E"}) = 0
          /\ Bit("C", {"E"}) = 0 /\ CodesIn({"E"}) = 0
          /\ Bit(p, {"host"}) = 0 /\ Bit(th[t], {"host"}) = 1
          /\ Bit(th[t], {"count"}) = 0
          /\ Bit(p, {"contact"}) = 0 /\ Bit(th[t], {"contact"}) = 0
          /\ Bit(p, Codes) = 0 /\ Bit(th[t], Codes) = 0
          /\ Bit(p, Active) = 1 /\ Bit(th[t], Active) = 1
        BY <2>1, <2>2 DEF Bit, CodesIn
    <2>6. /\ Bit("E", {"E"}) + Bit(p, {"host"}) + Len(urlQueue')
              = Bit(th[t], {"host"}) + Len(urlQueue)
          /\ Bit("H", {"E"}) + Bit(p, {"count"}) + Cardinality(seenHosts)
              = Bit(th[t], {"count"}) + Cardinality(seenHosts')
          /\ Bit("I", {"E"}) + Bit(p, {"contact"}) + Cardinality(seenIPs)
              = Bit(th[t], {"contact"}) + Cardinality(seenIPs')
          /\ CodesIn({"E"}) + Bit(p, Codes) = Bit(th[t], Codes) + Bit("C", {"E"})
          /\ activeThreadsCount' + Bit(th[t], Active)
              = activeThreadsCount + Bit(p, Active)
          /\ Len(urlQueue') \in Nat
        BY <1>1, <2>1, <2>3, <2>5, BitType
    <2> QED
        BY <1>1, <2>1, <2>2, <2>4, <2>6, Balance
<1>3. CASE CheckIP(t)
    <2> DEFINE p == IF First(t) \notin seenIPs THEN "contact" ELSE "pop"
    <2>1. /\ th[t] = "ip" /\ th' = [th EXCEPT ![t] = p] /\ Count({})
          /\ seenIPs' = seenIPs \cup {First(t)} /\ UNCHANGED <<seenHosts, stats>>
        BY <1>3, CountNothing DEF CheckIP, Goto, isIPUnique, First
    <2>2. /\ p \in Places /\ p \in Active /\ p # "host" /\ p # "count" /\ p \notin Codes
          /\ th[t] \in Active /\ th[t] \notin Codes
        BY <2>1 DEF Places, Active, Codes
    <2>3. /\ IsFiniteSet(seenIPs')
          /\ Bit(p, {"contact"}) + Cardinality(seenIPs) = Cardinality(seenIPs')
        <3>1. /\ IsFiniteSet(seenIPs \cup {First(t)})
              /\ Cardinality(seenIPs \cup {First(t)})
                   = IF First(t) \in seenIPs
                     THEN Cardinality(seenIPs) ELSE Cardinality(seenIPs) + 1
            BY <1>1, FS_AddElement
        <3>2. Bit(p, {"contact"}) = IF First(t) \in seenIPs THEN 0 ELSE 1
            BY DEF Bit
        <3> QED
            BY <1>1, <2>1, <3>1, <3>2
    <2> HIDE DEF p
    <2>4. CounterInv'
        BY <1>1, <2>1, <2>3 DEF CounterInv
    <2>5. /\ Bit("E", {}) = 0 /\ Bit("H", {}) = 0 /\ Bit("I", {}) = 0
          /\ Bit("C", {}) = 0 /\ CodesIn({}) = 0
          /\ Bit(p, {"host"}) = 0 /\ Bit(th[t], {"host"}) = 0
          /\ Bit(p, {"count"}) = 0 /\ Bit(th[t], {"count"}) = 0
          /\ Bit(th[t], {"contact"}) = 0
          /\ Bit(p, Codes) = 0 /\ Bit(th[t], Codes) = 0
          /\ Bit(p, Active) = 1 /\ Bit(th[t], Active) = 1
        BY <2>1, <2>2 DEF Bit, CodesIn
    <2>6. /\ Bit("E", {}) + Bit(p, {"host"}) + Len(urlQueue')
              = Bit(th[t], {"host"}) + Len(urlQueue)
          /\ Bit("H", {}) + Bit(p, {"count"}) + Cardinality(seenHosts)
              = Bit(th[t], {"count"}) + Cardinality(seenHosts')
          /\ Bit("I", {}) + Bit(p, {"contact"}) + Cardinality(seenIPs)
              = Bit(th[t], {"contact"}) + Cardinality(seenIPs')
          /\ CodesIn({}) + Bit(p, Codes) = Bit(th[t], Codes) + Bit("C", {})
          /\ activeThreadsCount' + Bit(th[t], Active)
              = activeThreadsCount + Bit(p, Active)
          /\ Len(urlQueue') \in Nat
        BY <1>1, <2>1, <2>3, <2>5, BitType
    <2> QED
        BY <1>1, <2>1, <2>2, <2>4, <2>6, Balance
<1> QED
    BY <1>2, <1>3

\* The steps that count what the thread itself has done: a host, an address, a page
\* or its class, and those that count nothing the equations speak of.
LEMMA AccountedWork ==
    ASSUME Inv, CounterInv, Accounted, NEW t \in Threads,
           \/ StartLookup(t) \/ LookupFails(t) \/ resolveDNS(t) \/ StartRobots(t)
           \/ \E r \in Responses : Robots(t, r) \/ Page(t, r)
           \/ Classify(t) \/ parsePageLinks(t)
    PROVE  CounterInv' /\ Accounted'
<1>1. PICK p \in Active, C \in SUBSET Counters :
         /\ th' = [th EXCEPT ![t] = p] /\ Count(C)
         /\ \/ th[t] = "count" /\ p = "dns" /\ C = {"H"}
            \/ th[t] = "dns" /\ p = "pop" /\ C = {}
            \/ th[t] = "dns" /\ p = "ip" /\ C = {"D"}
            \/ th[t] = "contact" /\ p = "robots" /\ C = {"I"}
            \/ th[t] = "robots" /\ p \in {"get", "pop"} /\ C \in {{"R"}, {}}
            \/ th[t] = "get" /\ p = "pop" /\ C = {}
            \/ th[t] = "get" /\ p \in Codes /\ C = {"C"}
            \/ th[t] \in Codes /\ p \in {"parse", "pop"} /\ C = {th[t]}
            \/ th[t] = "parse" /\ p = "pop" /\ C \in {{}, {"tamu"}, {"tamu", "external"}}
    <2> DEFINE Good(p, C) ==
            /\ th' = [th EXCEPT ![t] = p] /\ Count(C)
            /\ \/ th[t] = "count" /\ p = "dns" /\ C = {"H"}
               \/ th[t] = "dns" /\ p = "pop" /\ C = {}
               \/ th[t] = "dns" /\ p = "ip" /\ C = {"D"}
               \/ th[t] = "contact" /\ p = "robots" /\ C = {"I"}
               \/ th[t] = "robots" /\ p \in {"get", "pop"} /\ C \in {{"R"}, {}}
               \/ th[t] = "get" /\ p = "pop" /\ C = {}
               \/ th[t] = "get" /\ p \in Codes /\ C = {"C"}
               \/ th[t] \in Codes /\ p \in {"parse", "pop"} /\ C = {th[t]}
               \/ th[t] = "parse" /\ p = "pop" /\ C \in {{}, {"tamu"}, {"tamu", "external"}}
    <2> SUFFICES \E p \in Active, C \in SUBSET Counters : Good(p, C)
        OBVIOUS
    <2>0. /\ {"dns", "pop", "ip", "robots", "get", "parse"} \subseteq Active
          /\ Codes \subseteq Active /\ Codes \subseteq Counters
          /\ {"H", "D", "I", "R", "C", "tamu", "external"} \subseteq Counters
        BY DEF Active, Places, Counters, Codes
    <2>1. CASE StartLookup(t)
        <3>1. Good("dns", {"H"})
            BY <2>1 DEF StartLookup, Goto
        <3> QED
            BY <2>0, <3>1
    <2>2. CASE LookupFails(t)
        <3>1. Good("pop", {})
            BY <2>2, CountNothing DEF LookupFails, Goto
        <3> QED
            BY <2>0, <3>1
    <2>3. CASE resolveDNS(t)
        <3>1. Good("ip", {"D"})
            BY <2>3 DEF resolveDNS, Goto
        <3> QED
            BY <2>0, <3>1
    <2>4. CASE StartRobots(t)
        <3>1. Good("robots", {"I"})
            BY <2>4 DEF StartRobots, Goto
        <3> QED
            BY <2>0, <3>1
    <2>5. ASSUME NEW r \in Responses, Robots(t, r)
          PROVE  \E p \in Active, C \in SUBSET Counters : Good(p, C)
        <3>1. Good("get", {"R"}) \/ Good("pop", {})
            BY <2>5 DEF Robots, Goto
        <3> QED
            BY <2>0, <3>1
    <2>6. ASSUME NEW r \in Responses, Page(t, r)
          PROVE  \E p \in Active, C \in SUBSET Counters : Good(p, C)
        <3>1. CASE r = Failed
            <4>1. Good("pop", {})
                BY <2>6, <3>1 DEF Page, Goto
            <4> QED
                BY <2>0, <4>1
        <3>2. CASE r # Failed
            <4>1. r \in Codes
                BY <3>2 DEF Responses
            <4>2. Good(r, {"C"})
                BY <2>6, <3>2, <4>1 DEF Page, Goto
            <4> QED
                BY <2>0, <4>1, <4>2
        <3> QED
            BY <3>1, <3>2
    <2>7. CASE Classify(t)
        <3>1. Good("parse", {th[t]}) \/ Good("pop", {th[t]})
            BY <2>7 DEF Classify
        <3>2. th[t] \in Codes
            BY <2>7 DEF Classify
        <3> QED
            BY <2>0, <3>1, <3>2
    <2>8. CASE parsePageLinks(t)
        <3>1. PICK S \in {{}, {"tamu"}, {"tamu", "external"}} : Count(S)
            BY <2>8 DEF parsePageLinks
        <3>2. Good("pop", S)
            BY <2>8, <3>1 DEF parsePageLinks, Goto
        <3>3. S \in SUBSET Counters
            BY <2>0
        <3> QED
            BY <2>0, <3>2, <3>3
    <2> HIDE DEF Good
    <2> QED
        BY <2>1, <2>2, <2>3, <2>4, <2>5, <2>6, <2>7, <2>8
<1>2. UNCHANGED shared
    BY DEF StartLookup, LookupFails, resolveDNS, StartRobots, Robots, Page, Classify,
           parsePageLinks
<1>3. th[t] \in Active \ {"host"} /\ p # "host" /\ "E" \notin C
    BY <1>1 DEF Active, Places, Codes
<1>4. Bit("H", C) + Bit(p, {"count"}) = Bit(th[t], {"count"})
    BY <1>1 DEF Bit, Codes
<1>5. Bit("I", C) + Bit(p, {"contact"}) = Bit(th[t], {"contact"})
    BY <1>1 DEF Bit, Codes
<1>6. CodesIn(C) + Bit(p, Codes) = Bit(th[t], Codes) + Bit("C", C)
    BY <1>1 DEF CodesIn, Bit, Codes
<1> QED
    BY <1>1, <1>2, <1>3, <1>4, <1>5, <1>6, BalanceAlone

\* A step that moves no thread and counts nothing.
LEMMA AccountedStays ==
    ASSUME CounterInv, Accounted,
           UNCHANGED <<urlQueue, seenHosts, seenIPs, activeThreadsCount, stats, th>>
    PROVE  CounterInv' /\ Accounted'
BY DEF CounterInv, Accounted, At

\* At the start nobody has moved and nothing is counted.
LEMMA AccountedInit == Init => CounterInv /\ Accounted
<1> SUFFICES ASSUME Init PROVE CounterInv /\ Accounted
    OBVIOUS
<1>1. CounterInv
    BY FS_EmptySet DEF Init, CounterInv
<1>2. ASSUME NEW S, "start" \notin S PROVE At(S) = 0
    <2>1. {t \in Threads : th[t] \in S} = {}
        BY <1>2 DEF Init
    <2> QED
        BY <2>1, FS_EmptySet DEF At
<1>3. /\ At({"host"}) = 0 /\ At({"count"}) = 0 /\ At({"contact"}) = 0
      /\ At(Codes) = 0 /\ At(Places \ {"start", "done"}) = 0
    BY <1>2 DEF Codes
<1>4. /\ \A c \in Counters : stats[c] = 0
      /\ {"E", "H", "I", "C", "2xx", "3xx", "4xx", "5xx", "other"} \subseteq Counters
    BY DEF Init, Counters, Codes
<1>5. /\ Cardinality(seenHosts) = 0 /\ Cardinality(seenIPs) = 0
      /\ activeThreadsCount = 0 /\ urlQueue = Input /\ Len(urlQueue) \in Nat
    BY FS_EmptySet DEF Init
<1>6. Accounted
    BY <1>3, <1>4, <1>5 DEF Accounted
<1> QED
    BY <1>1, <1>6

\* The counters the statistics print lose and invent nothing: a URL of the file is
\* counted, queued or in the hands of one thread, and each host and each address in
\* the shared sets is counted or about to be, by the thread that inserted it.
THEOREM EveryURLAccounted == Spec => []Accounted
<1>1. Inv /\ CounterInv /\ Accounted /\ [Next]_vars => (CounterInv /\ Accounted)'
    <2> SUFFICES ASSUME Inv, CounterInv, Accounted, [Next]_vars
                 PROVE  CounterInv' /\ Accounted'
        OBVIOUS
    <2>1. ASSUME NEW t \in Threads, processURLs(t) PROVE CounterInv' /\ Accounted'
        <3>1. CASE Start(t) \/ Leave(t) \/ Pop(t) \/ QueueEmpty(t)
            BY <3>1, AccountedTurns
        <3>2. CASE CheckHost(t) \/ CheckIP(t)
            BY <3>2, AccountedTests
        <3>3. CASE \/ StartLookup(t) \/ LookupFails(t) \/ resolveDNS(t) \/ StartRobots(t)
                   \/ \E r \in Responses : Robots(t, r) \/ Page(t, r)
                   \/ Classify(t) \/ parsePageLinks(t)
            BY <3>3, AccountedWork
        <3>4. CASE BadStatus(t)
            BY <3>4, AccountedStays DEF BadStatus, shared
        <3> QED
            BY <2>1, <3>1, <3>2, <3>3, <3>4 DEF processURLs
    <2>2. CASE printStatsPeriodically \/ Done \/ UNCHANGED vars
        BY <2>2, AccountedStays DEF printStatsPeriodically, SeeFinished, printFinalStats,
           Done, vars, shared
    <2> QED
        BY <2>1, <2>2 DEF Next
<1> QED
    BY <1>1, AccountedInit, Invariant, PTL DEF Spec

==============================================================================
