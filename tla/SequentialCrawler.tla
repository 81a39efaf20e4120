-------------------------- MODULE SequentialCrawler --------------------------
(***************************************************************************)
(* The single-threaded crawlers: Hw1P1.cpp and Hw1P2.cpp load one page;    *)
(* Hw1P2.cpp also goes through a file of URLs, asks each new host at a new *)
(* address for robots.txt, and loads the page if there is none.  All use   *)
(* the same receive loop with a buffer that doubles (Hw1P3.cpp has it too, *)
(* with a smaller THRESHOLD).  Servers and the resolver are external.      *)
(* Socket handles are left out: the process may run out of them, which     *)
(* createSocket() reports as any other error.                              *)
(***************************************************************************)
EXTENDS Integers, Sequences

CONSTANTS
    Input,       \* the hosts of the file's URLs; "" for a URL that is rejected
    Literals,    \* those that are written as addresses
    Addresses,   \* what getaddrinfo() may return as first address
    THRESHOLD,   \* 4096 in the code
    FirstSize,   \* 4096, the buffer of Hw1P1 at first
    RobotsMax,   \* 16 KB, size and limit of the buffer for robots.txt
    PageSizes,   \* the sizes the page buffer of a file's URL goes through,
    PageSize,    \* 32 KB at first,
    PageMax,     \* 2 MB at last
    MaxBytes     \* bound: bytes a server sends to the programs without a limit

ASSUME SequentialAssumption ==
    /\ Input \in Seq(STRING)
    /\ Literals \subseteq Addresses
    /\ THRESHOLD \in Nat \ {0} /\ MaxBytes \in Nat
    /\ FirstSize \in Nat /\ FirstSize >= THRESHOLD
    /\ RobotsMax \in Nat /\ RobotsMax >= THRESHOLD
    /\ PageMax \in Nat
    /\ PageSize \in PageSizes /\ PageSize >= THRESHOLD
    /\ \A s \in PageSizes :
         /\ s \in Nat /\ s <= PageMax
         /\ s < PageMax => 2 * s \in PageSizes

(* As in SenderSocket, Mut_... is a slip the code does not make.               *)

VARIABLES
    program,     \* "Hw1P1", "one" (Hw1P2 with a URL), "file" (Hw1P2 with a file)
    pc,
    urls,        \* the lines still to be read
    host, addr,
    seenHosts, seenIPs,
    winsock,     \* has WSAStartup() been called more often than WSACleanup()?
    phase,       \* "robots" or "page"
    cursor, allocatedSize, bufferSize,   \* of receiveResponse()
    loaded       \* history: how receiveResponse() has ended in this phase

crawl  == <<program, urls, host, addr, seenHosts, seenIPs>>
buffer == <<cursor, allocatedSize, bufferSize>>
vars   == <<pc, crawl, winsock, phase, buffer, loaded>>

Programs == {"Hw1P1", "one", "file"}
None     == "none"

Init ==
    /\ program \in Programs /\ pc = "next" /\ urls = Input
    /\ host = None /\ addr = None
    /\ seenHosts = {} /\ seenIPs = {}
    /\ winsock = TRUE
    /\ phase = "page"
    /\ cursor = 0 /\ allocatedSize = 0 /\ bufferSize = 0
    /\ loaded = "none"

------------------------------------------------------------------------------
(* The URLs.                                                                  *)

\* A rejected URL ends the programs that have only one.
Onward == IF program = "file" THEN "next" ELSE "end"

\* getline() and parseURL().
ReadURL ==
    /\ pc = "next" /\ urls # <<>>
    /\ urls' = Tail(urls)
    /\ IF Head(urls) = ""
       THEN pc' = Onward /\ UNCHANGED host
       ELSE /\ host' = Head(urls)
            /\ pc' = IF program = "file" THEN "host" ELSE "dns"
    /\ UNCHANGED <<program, addr, seenHosts, seenIPs, winsock, phase, buffer, loaded>>

EndOfFile ==
    /\ pc = "next" /\ urls = <<>>
    /\ pc' = "end" /\ winsock' = FALSE
    /\ UNCHANGED <<crawl, phase, buffer, loaded>>

\* isHostUnique() tests and inserts.
CheckHost ==
    /\ pc = "host"
    /\ seenHosts' = seenHosts \cup {host}
    /\ pc' = IF host \in seenHosts THEN "next" ELSE "dns"
    /\ UNCHANGED <<program, urls, host, addr, seenIPs, winsock, phase, buffer, loaded>>

\* A host that is an address needs no lookup, and no Winsock.
resolveDNS ==
    /\ pc = "dns"
    /\ \E a \in IF host \in Literals THEN {host}
                ELSE IF winsock THEN Addresses ELSE {} : addr' = a
    /\ pc' = IF program = "file" THEN "ip" ELSE "socket"
    /\ UNCHANGED <<program, urls, host, seenHosts, seenIPs, winsock, phase, buffer, loaded>>

\* The lookup fails; only the programs with one URL call WSACleanup() here.
LookupFails ==
    /\ pc = "dns" /\ host \notin Literals
    /\ pc' = Onward
    /\ winsock' = (winsock /\ program = "file")
    /\ UNCHANGED <<crawl, phase, buffer, loaded>>

CheckIP ==
    /\ pc = "ip"
    /\ seenIPs' = seenIPs \cup {addr}
    /\ IF addr \in seenIPs THEN pc' = "next" /\ UNCHANGED <<phase, loaded>>
       ELSE pc' = "socket" /\ phase' = "robots" /\ loaded' = "none"
    /\ UNCHANGED <<program, urls, host, addr, seenHosts, winsock, buffer>>

------------------------------------------------------------------------------
(* A connection.                                                              *)

\* Every failure on the way calls WSACleanup().
Drop(to) == pc' = to /\ winsock' = FALSE

\* Without a socket for robots.txt the program returns.
NoSocket ==
    /\ pc = "socket"
    /\ Drop(IF phase = "robots" THEN "end" ELSE Onward)
    /\ UNCHANGED <<crawl, phase, buffer, loaded>>

\* connectToServer() and sendRequest().
ConnectFails ==
    /\ pc = "socket" /\ winsock
    /\ Drop(Onward)
    /\ UNCHANGED <<crawl, phase, buffer, loaded>>

initialSize ==
    IF program = "Hw1P1" THEN FirstSize
    ELSE IF phase = "robots" THEN RobotsMax ELSE PageSize

Connect ==
    /\ pc = "socket" /\ winsock
    /\ pc' = "recv"
    /\ cursor' = 0 /\ allocatedSize' = initialSize /\ bufferSize' = initialSize
    /\ UNCHANGED <<crawl, winsock, phase, loaded>>

------------------------------------------------------------------------------
(* receiveResponse().                                                         *)

Limited == program = "file"
maxSize == IF phase = "robots" THEN RobotsMax ELSE PageMax

min(a, b) == IF a <= b THEN a ELSE b

Mut_ShortWhenFull(c) == allocatedSize - c < 1

\* Too little room is left for the next recv().
Short(c) == allocatedSize - c < THRESHOLD

Mut_NewSizeBeforeDoubling == IF Limited THEN min(allocatedSize, maxSize) ELSE allocatedSize
newSize == IF Limited THEN min(2 * allocatedSize, maxSize) ELSE 2 * allocatedSize

\* n bytes arrive and do not end the loop.
RecvSome ==
    /\ pc = "recv"
    /\ \E n \in 1..allocatedSize - cursor :
         LET c == cursor + n IN
         /\ Limited \/ c <= MaxBytes
         /\ cursor' = c
         /\ IF ~Short(c)
            THEN UNCHANGED <<pc, winsock, allocatedSize, bufferSize, loaded>>
            ELSE /\ allocatedSize' = 2 * allocatedSize
                 /\ IF ~Limited \/ bufferSize < maxSize
                    THEN bufferSize' = newSize /\ UNCHANGED <<pc, winsock, loaded>>
                    ELSE /\ loaded' = "exceeding max" /\ Drop(Onward)
                         /\ UNCHANGED bufferSize
    /\ UNCHANGED <<crawl, phase>>

\* More bytes, but after more than ten seconds.
TooSlow ==
    /\ pc = "recv" /\ Limited
    /\ \E n \in 1..allocatedSize - cursor : cursor' = cursor + n
    /\ loaded' = "slow download" /\ Drop(Onward)
    /\ UNCHANGED <<crawl, phase, allocatedSize, bufferSize>>

\* select() times out, select() or recv() fails, or what was received at the end
\* of the stream is not HTTP.
RecvFails ==
    /\ pc = "recv"
    /\ loaded' = "failed" /\ Drop(Onward)
    /\ UNCHANGED <<crawl, phase, buffer>>

\* The end of the stream: a terminator is written at cursor.
RecvEnd ==
    /\ pc = "recv" /\ pc' = "status"
    /\ loaded' = "done"
    /\ UNCHANGED <<crawl, winsock, phase, buffer>>

------------------------------------------------------------------------------
(* The status line.                                                           *)

\* The status of robots.txt is 4xx: the page may be loaded.
Allowed ==
    /\ pc = "status" /\ phase = "robots"
    /\ phase' = "page" /\ pc' = "socket" /\ loaded' = "none"
    /\ UNCHANGED <<crawl, winsock, buffer>>

\* Another status of robots.txt, any of a page, or no status line ends the URL.
EndURL ==
    /\ pc = "status"
    /\ pc' = Onward
    /\ winsock' = (program = "file")
    /\ UNCHANGED <<crawl, phase, buffer, loaded>>

\* stoi() throws and nobody catches it.
BadStatus ==
    /\ pc = "status" /\ pc' = "end"
    /\ UNCHANGED <<crawl, winsock, phase, buffer, loaded>>

------------------------------------------------------------------------------

Done == pc = "end" /\ UNCHANGED vars

receiveResponse == RecvSome \/ TooSlow \/ RecvFails \/ RecvEnd

Next == \/ ReadURL \/ EndOfFile \/ CheckHost \/ resolveDNS \/ LookupFails \/ CheckIP
        \/ NoSocket \/ ConnectFails \/ Connect
        \/ receiveResponse
        \/ Allowed \/ EndURL \/ BadStatus
        \/ Done

Spec == Init /\ [][Next]_vars

\* Every call returns: select() waits ten seconds at most, connect() and
\* getaddrinfo() have time limits of their own.
FairSpec == Spec /\ WF_vars(Next)

------------------------------------------------------------------------------
(* Properties.                                                                *)

TypeOK ==
    /\ program \in Programs
    /\ pc \in {"next", "host", "dns", "ip", "socket", "recv", "status", "end"}
    /\ winsock \in BOOLEAN
    /\ phase \in {"robots", "page"}
    /\ cursor \in Nat /\ allocatedSize \in Nat /\ bufferSize \in Nat
    /\ loaded \in {"none", "done", "failed", "slow download", "exceeding max"}

\* What recv() is handed lies within the buffer, with room to go on, and the
\* terminator written at the end of the stream does too, however the response is
\* cut into pieces: allocatedSize and the size of the vector, which are computed
\* separately, never drift apart.
BufferHolds ==
    pc \in {"recv", "status"} =>
        /\ allocatedSize = bufferSize
        /\ cursor + THRESHOLD <= bufferSize

\* The limits of 16 KB and 2 MB act THRESHOLD bytes early: a response is refused as
\* too long exactly if it comes closer than that to the limit.
LimitKept ==
    Limited =>
        /\ loaded = "exceeding max" => cursor > maxSize - THRESHOLD
        /\ loaded = "done" => cursor <= maxSize - THRESHOLD

==============================================================================
