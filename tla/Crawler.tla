------------------------------- MODULE Crawler -------------------------------
(***************************************************************************)
(* The multi-threaded crawler of Hw1P3.cpp: N threads run processURLs()    *)
(* over a shared queue, two sets under mutexes make sure that no host is   *)
(* looked up and no address contacted twice, atomic counters feed the      *)
(* statistics, and the thread that prints them ends when a crawler thread  *)
(* finds the queue empty.  A step ends before the next access to shared    *)
(* state; DNS and HTTP are external, and may take any time and fail.       *)
(***************************************************************************)
EXTENDS Naturals, Sequences, FiniteSets

CONSTANTS
    Threads,   \* the crawler threads
    Hosts,     \* host names
    IPs,       \* addresses
    Answers,   \* the lists of addresses getaddrinfo() may return
    Input      \* the hosts of the file's URLs, as parseURL() leaves them

ASSUME CrawlerAssumption ==
    /\ IsFiniteSet(Threads)
    /\ Input \in Seq(Hosts)
    /\ Answers \subseteq Seq(IPs) \ {<<>>} /\ Answers # {}

(* As in SenderSocket, Mut_... is a slip the code does not make.               *)

VARIABLES
    urlQueue,
    seenHosts, seenIPs,
    isCrawlingFinished,
    activeThreadsCount,
    stats,              \* CrawlerStats: the counters that are printed
    th,                 \* where each thread is in processURLs()
    url,                \* the host each thread has popped
    addr,               \* the addresses it was resolved to
    spc,                \* where printStatsPeriodically() is
    summary,            \* how many counters printFinalStats() has printed
    aborted,            \* an exception nobody catches has ended the process
    lookups,            \* history: lookups of each host,
    contacts, fallbacks \* connections for robots.txt: to the first address, to others

vars == <<urlQueue, seenHosts, seenIPs, isCrawlingFinished, activeThreadsCount, stats,
          th, url, addr, spc, summary, aborted, lookups, contacts, fallbacks>>

shared    == <<urlQueue, seenHosts, seenIPs, isCrawlingFinished, activeThreadsCount>>
statsVars == <<spc, summary, aborted>>
histVars  == <<lookups, contacts, fallbacks>>

\* E extracted, H unique hosts, D lookups, I unique addresses, R passed robots,
\* C crawled, then the classes of status codes and the pages with TAMU links.
Codes    == {"2xx", "3xx", "4xx", "5xx", "other"}
Counters == {"E", "H", "D", "I", "R", "C", "tamu", "external"} \cup Codes

\* socket(), connect(), send(), select() or recv() fails, or the response is too
\* long, too slow or not HTTP.
Failed == "failed"

\* What handleSocketInteraction() ends with: the class of a status, or a failure.
Responses == Codes \cup {Failed}

\* The counters printFinalStats() prints.
Printed == {"E", "H", "I", "C"} \cup Codes

\* What url and addr hold before their first assignment.
None == <<>>

Init ==
    /\ urlQueue = Input
    /\ seenHosts = {} /\ seenIPs = {}
    /\ isCrawlingFinished = FALSE /\ activeThreadsCount = 0
    /\ stats = [c \in Counters |-> 0]
    /\ th = [t \in Threads |-> "start"]
    /\ url = [t \in Threads |-> None] /\ addr = [t \in Threads |-> None]
    /\ spc = "print" /\ summary = 0 /\ aborted = FALSE
    /\ lookups = [h \in Hosts |-> 0]
    /\ contacts = [i \in IPs |-> 0] /\ fallbacks = [i \in IPs |-> 0]

------------------------------------------------------------------------------
(* processURLs().                                                             *)

Goto(t, from, to) == th[t] = from /\ th' = [th EXCEPT ![t] = to]

Count(S) == stats' = [c \in Counters |-> IF c \in S THEN stats[c] + 1 ELSE stats[c]]

Start(t) ==
    /\ Goto(t, "start", "pop")
    /\ activeThreadsCount' = activeThreadsCount + 1
    /\ UNCHANGED <<urlQueue, seenHosts, seenIPs, isCrawlingFinished, stats, url, addr,
                   statsVars, histVars>>

\* Under queueMutex.
Pop(t) ==
    /\ urlQueue # <<>>
    /\ Goto(t, "pop", "host")
    /\ url' = [url EXCEPT ![t] = Head(urlQueue)]
    /\ urlQueue' = Tail(urlQueue)
    /\ UNCHANGED <<seenHosts, seenIPs, isCrawlingFinished, activeThreadsCount, stats,
                   addr, statsVars, histVars>>

Mut_LeavesLastURL(t) ==
    /\ Len(urlQueue) <= 1
    /\ Goto(t, "pop", "leave")
    /\ isCrawlingFinished' = TRUE
    /\ UNCHANGED <<urlQueue, seenHosts, seenIPs, activeThreadsCount, stats, url, addr,
                   statsVars, histVars>>

Mut_LeaveUnflagged(t) ==
    /\ urlQueue = <<>>
    /\ Goto(t, "pop", "leave")
    /\ UNCHANGED <<shared, stats, url, addr, statsVars, histVars>>

\* The first thread to find the queue empty ends the crawl for the statistics.
QueueEmpty(t) ==
    /\ urlQueue = <<>>
    /\ Goto(t, "pop", "leave")
    /\ isCrawlingFinished' = TRUE
    /\ UNCHANGED <<urlQueue, seenHosts, seenIPs, activeThreadsCount, stats, url, addr,
                   statsVars, histVars>>

Leave(t) ==
    /\ Goto(t, "leave", "done")
    /\ activeThreadsCount' = activeThreadsCount - 1
    /\ UNCHANGED <<urlQueue, seenHosts, seenIPs, isCrawlingFinished, stats, url, addr,
                   statsVars, histVars>>

Mut_AlwaysUnique(h) == TRUE
isHostUnique(h) == h \notin seenHosts

\* The URL is counted; then the host is tested and inserted under seenHostsMutex.
CheckHost(t) ==
    /\ Goto(t, "host", IF isHostUnique(url[t]) THEN "count" ELSE "pop")
    /\ seenHosts' = seenHosts \cup {url[t]}
    /\ Count({"E"})
    /\ UNCHANGED <<urlQueue, seenIPs, isCrawlingFinished, activeThreadsCount, url, addr,
                   statsVars, histVars>>

\* The host is counted; then resolveDNS() begins ...
StartLookup(t) ==
    /\ Goto(t, "count", "dns")
    /\ Count({"H"})
    /\ lookups' = [lookups EXCEPT ![url[t]] = @ + 1]
    /\ UNCHANGED <<shared, url, addr, statsVars, contacts, fallbacks>>

\* ... and fails, or finds addresses.
LookupFails(t) ==
    /\ Goto(t, "dns", "pop")
    /\ UNCHANGED <<shared, stats, url, addr, statsVars, histVars>>

resolveDNS(t) ==
    /\ Goto(t, "dns", "ip")
    /\ \E a \in Answers : addr' = [addr EXCEPT ![t] = a]
    /\ Count({"D"})
    /\ UNCHANGED <<shared, url, statsVars, histVars>>

Mut_AlwaysNew(i) == TRUE
isIPUnique(i) == i \notin seenIPs

\* Only the first address is looked at, under seenIPsMutex.
CheckIP(t) ==
    /\ Goto(t, "ip", IF isIPUnique(Head(addr[t])) THEN "contact" ELSE "pop")
    /\ seenIPs' = seenIPs \cup {Head(addr[t])}
    /\ UNCHANGED <<urlQueue, seenHosts, isCrawlingFinished, activeThreadsCount, stats,
                   url, addr, statsVars, histVars>>

\* connectToServer() tries the first k addresses of the list.
Tried(t, k, i) == \E j \in 2..k : addr[t][j] = i

\* The address is counted; then the HEAD request for robots.txt begins ...
StartRobots(t) ==
    /\ Goto(t, "contact", "robots")
    /\ Count({"I"})
    /\ contacts' = [contacts EXCEPT ![Head(addr[t])] = @ + 1]
    /\ \E k \in DOMAIN addr[t] :
         fallbacks' = [i \in IPs |-> fallbacks[i] + IF Tried(t, k, i) THEN 1 ELSE 0]
    /\ UNCHANGED <<shared, url, addr, statsVars, lookups>>

\* ... and only a 4xx answer lets the crawler fetch the page.
Robots(t, r) ==
    /\ Goto(t, "robots", IF r = "4xx" THEN "get" ELSE "pop")
    /\ Count(IF r = "4xx" THEN {"R"} ELSE {})
    /\ UNCHANGED <<shared, url, addr, statsVars, histVars>>

Mut_PageCountsFailed(t, r) ==
    /\ Goto(t, "get", IF r = Failed THEN "pop" ELSE r)
    /\ Count({"C"})
    /\ UNCHANGED <<shared, url, addr, statsVars, histVars>>

\* The GET request for the page: numCrawledURLs first ...
Page(t, r) ==
    /\ Goto(t, "get", IF r = Failed THEN "pop" ELSE r)
    /\ Count(IF r = Failed THEN {} ELSE {"C"})
    /\ UNCHANGED <<shared, url, addr, statsVars, histVars>>

\* ... then the class of the status code, and for 2xx parsePageLinks().
Classify(t) ==
    /\ th[t] \in Codes
    /\ th' = [th EXCEPT ![t] = IF th[t] = "2xx" THEN "parse" ELSE "pop"]
    /\ Count({th[t]})
    /\ UNCHANGED <<shared, url, addr, statsVars, histVars>>

parsePageLinks(t) ==
    /\ Goto(t, "parse", "pop")
    /\ \E S \in {{}, {"tamu"}, {"tamu", "external"}} : Count(S)
    /\ UNCHANGED <<shared, url, addr, statsVars, histVars>>

\* A status that is no number: stoi() throws in parseHttpResponse(), and nothing
\* catches it.
BadStatus(t) ==
    /\ th[t] \in {"robots", "get"}
    /\ aborted' = TRUE
    /\ UNCHANGED <<shared, stats, th, url, addr, spc, summary, histVars>>

processURLs(t) ==
    /\ ~aborted
    /\ \/ Start(t) \/ Pop(t) \/ QueueEmpty(t) \/ Leave(t) \/ CheckHost(t)
       \/ StartLookup(t) \/ LookupFails(t) \/ resolveDNS(t) \/ CheckIP(t)
       \/ StartRobots(t) \/ (\E r \in Responses : Robots(t, r) \/ Page(t, r))
       \/ Classify(t) \/ parsePageLinks(t) \/ BadStatus(t)

------------------------------------------------------------------------------
(* printStatsPeriodically(): a line every two seconds, until the flag is set; *)
(* then the summary, one counter after the other.                             *)

SeeFinished ==
    /\ spc = "print" /\ isCrawlingFinished
    /\ spc' = "summary"
    /\ UNCHANGED <<shared, stats, th, url, addr, summary, aborted, histVars>>

printFinalStats ==
    /\ spc = "summary"
    /\ summary' = summary + 1
    /\ spc' = IF summary' = Cardinality(Printed) THEN "done" ELSE "summary"
    /\ UNCHANGED <<shared, stats, th, url, addr, aborted, histVars>>

printStatsPeriodically == ~aborted /\ (SeeFinished \/ printFinalStats)

\* main() joins the crawler threads, then the statistics thread.
AllDone == \A t \in Threads : th[t] = "done"
Exited == aborted \/ (AllDone /\ spc = "done")
Done == Exited /\ UNCHANGED vars

Next == (\E t \in Threads : processURLs(t)) \/ printStatsPeriodically \/ Done

Spec == Init /\ [][Next]_vars

(* Every thread is scheduled; select() and connect() end, if only by timeout. *)
FairSpec == /\ Spec
            /\ \A t \in Threads : WF_vars(processURLs(t))
            /\ WF_vars(printStatsPeriodically)

------------------------------------------------------------------------------
(* Properties.                                                                *)

Places == {"start", "pop", "leave", "done", "host", "count", "dns", "ip", "contact",
           "robots", "get", "parse"} \cup Codes

TypeOK ==
    /\ urlQueue \in Seq(Hosts)
    /\ seenHosts \subseteq Hosts /\ seenIPs \subseteq IPs
    /\ isCrawlingFinished \in BOOLEAN /\ activeThreadsCount \in Nat
    /\ stats \in [Counters -> Nat]
    /\ th \in [Threads -> Places]
    /\ url \in [Threads -> Hosts \cup {None}]
    /\ addr \in [Threads -> Answers \cup {None}]
    /\ spc \in {"print", "summary", "done"} /\ summary \in 0..Cardinality(Printed)
    /\ aborted \in BOOLEAN
    /\ lookups \in [Hosts -> Nat]
    /\ contacts \in [IPs -> Nat] /\ fallbacks \in [IPs -> Nat]

\* No host is looked up twice, however the threads that popped it interleave.
HostOnce == \A h \in Hosts : lookups[h] <= 1

\* Polite crawling: no two hosts that resolve to the same first address have it
\* asked for robots.txt, whatever threads they were popped by.
AddressOnce == \A i \in IPs : contacts[i] <= 1

\* The counters account for every URL: what each thread has done and not yet
\* counted is the only difference between them and the shared sets.
At(S) == Cardinality({t \in Threads : th[t] \in S})
Accounted ==
    /\ stats["E"] + At({"host"}) + Len(urlQueue) = Len(Input)
    /\ stats["H"] + At({"count"}) = Cardinality(seenHosts)
    /\ stats["I"] + At({"contact"}) = Cardinality(seenIPs)
    /\ stats["2xx"] + stats["3xx"] + stats["4xx"] + stats["5xx"] + stats["other"]
         + At(Codes) = stats["C"]
    /\ activeThreadsCount = At(Places \ {"start", "done"})

\* When the last thread has left, no URL has been skipped: every host of the file
\* has been looked up, by whichever thread was the first to claim it.
NothingSkipped ==
    AllDone /\ Threads # {} => \A k \in DOMAIN Input : lookups[Input[k]] = 1

\* The program ends: every thread finds the queue empty, and the statistics
\* thread learns of it.
Terminates == <>Exited
==============================================================================
