------------------------------ MODULE DnsClient ------------------------------
(***************************************************************************)
(* The DNS client of Hw2 (Hw2.cpp): sendDNSQuery() sends one query up to   *)
(* three times, the first datagram that comes back goes to                 *)
(* parseDNSResponse(), which walks through the sections of the packet and  *)
(* reads names, compressed or not, with readDNSName().  The server is      *)
(* external: a reply is any packet of Replies.                             *)
(***************************************************************************)
EXTENDS DnsPackets

CONSTANT MaxTries  \* 3 in the code

ASSUME DnsAssumption == MaxTries \in Nat \ {0}

(* As in SenderSocket, Mut_... is a slip the code does not make.               *)

VARIABLES
    pc,
    attempts,
    reply,     \* the packet in response[]
    ptr,       \* offset in it
    section, left,        \* the section and the records left in it
    field,     \* what the name being read is: "question", "owner", "rdata"
    start,     \* history: where that name starts
    orig_ptr, jumped, visited, output,  \* of readDNSName()
    dataLen,   \* of the current record
    records,   \* history: where the records read so far start
    verdict    \* what is printed at the end

parser   == <<section, left, field, start, dataLen, records>>
nameVars == <<orig_ptr, jumped, visited, output>>
vars == <<pc, attempts, reply, ptr, section, left, field, start, orig_ptr, jumped,
          visited, output, dataLen, records, verdict>>

------------------------------------------------------------------------------

Sections == <<"questions", "answers", "authority", "additional">>

Cell(o) == At(reply, o)
Is(k)   == Cell(ptr).kind = k

Init ==
    /\ pc = "send" /\ attempts = 0 /\ reply = NoReply
    /\ ptr = 0 /\ section = 1 /\ left = 0 /\ field = "question" /\ start = 0
    /\ orig_ptr = 0 /\ jumped = FALSE /\ visited = {} /\ output = <<>>
    /\ dataLen = 0 /\ records = <<>> /\ verdict = "none"

------------------------------------------------------------------------------
(* sendDNSQuery().                                                            *)

\* The result of sendto() is ignored.
SendQuery ==
    /\ pc = "send" /\ pc' = "wait"
    /\ UNCHANGED <<attempts, reply, ptr, parser, nameVars, verdict>>

Finish(v) == pc' = "done" /\ verdict' = v

TriesLeft(n) == n < MaxTries

SelectTimeout ==
    /\ pc = "wait"
    /\ attempts' = attempts + 1
    /\ IF TriesLeft(attempts + 1) THEN pc' = "send" /\ UNCHANGED verdict
       ELSE Finish("no response")
    /\ UNCHANGED <<reply, ptr, parser, nameVars>>

SelectError ==
    /\ pc = "wait" /\ Finish("select error")
    /\ UNCHANGED <<attempts, reply, ptr, parser, nameVars>>

ReceiveError ==
    /\ pc = "wait" /\ Finish("socket error")
    /\ UNCHANGED <<attempts, reply, ptr, parser, nameVars>>

\* Whatever arrives ends the query: parseDNSResponse() looks at the header ...
HeaderVerdict(r) ==
    IF Size(r) < SizeOfHeader THEN "smaller than header"
    ELSE IF ~r.txidOK THEN "TXID mismatch"
    ELSE IF r.rcode # 0 THEN "Rcode" ELSE "none"

\* ... and begins with the questions.
Receive ==
    /\ pc = "wait"
    /\ \E r \in Replies :
         /\ reply' = r
         /\ left' = r.counts[1]
         /\ verdict' = HeaderVerdict(r)
         /\ pc' = IF HeaderVerdict(r) = "none" THEN "next" ELSE "done"
    /\ ptr' = SizeOfHeader
    /\ UNCHANGED <<attempts, section, field, start, dataLen, records, nameVars>>

------------------------------------------------------------------------------
(* readDNSName().                                                             *)

\* The call for the name at o.
BeginName(o, f) ==
    /\ pc' = "name" /\ field' = f
    /\ start' = o /\ ptr' = o /\ orig_ptr' = o
    /\ jumped' = FALSE /\ visited' = {} /\ output' = <<>>

Mut_SavedAtEveryJump == ptr + 2
\* Only the first jump saves where the name ends.
savedPtr == IF jumped THEN orig_ptr ELSE ptr + 2

Mut_LoopUnnoticed(o) ==
    IF ptr + 1 >= Size(reply) THEN "truncated jump"
    ELSE IF o < SizeOfHeader THEN "jump into header"
    ELSE IF o >= Size(reply) THEN "jump beyond packet" ELSE "none"

JumpVerdict(o) ==
    IF ptr + 1 >= Size(reply) THEN "truncated jump"
    ELSE IF o \in visited THEN "jump loop"
    ELSE IF o < SizeOfHeader THEN "jump into header"
    ELSE IF o >= Size(reply) THEN "jump beyond packet" ELSE "none"

FollowJump ==
    /\ pc = "name" /\ Is("jump")
    /\ LET o == Cell(ptr).to IN
       IF JumpVerdict(o) # "none"
       THEN Finish(JumpVerdict(o)) /\ UNCHANGED <<ptr, nameVars>>
       ELSE /\ visited' = visited \cup {o}
            /\ orig_ptr' = savedPtr
            /\ ptr' = o /\ jumped' = TRUE
            /\ UNCHANGED <<pc, verdict, output>>
    /\ UNCHANGED <<attempts, reply, parser>>

\* The test of 255 leaves out the dot.  A negative length passes all tests, and
\* memcpy() takes it for an enormous size, at which it leaves the memory of the
\* process.
LabelVerdict(n) ==
    IF n > LabelMax THEN "label too long"
    ELSE IF ptr + 1 + n >= Size(reply) THEN "truncated name"
    ELSE IF Len(output) + n > NameMax THEN "name too long"
    ELSE IF n < 0 THEN "access violation" ELSE "none"

CopyLabel ==
    /\ pc = "name" /\ Is("length")
    /\ LET n == label_length(Cell(ptr).n) IN
       IF LabelVerdict(n) # "none"
       THEN Finish(LabelVerdict(n)) /\ UNCHANGED <<ptr, output>>
       ELSE /\ output' = output \o (IF output = <<>> THEN <<>> ELSE <<".">>)
                                \o [i \in 1..n |-> Cell(ptr + i).c]
            /\ ptr' = ptr + 1 + n
            /\ UNCHANGED <<pc, verdict>>
    /\ UNCHANGED <<attempts, reply, parser, orig_ptr, jumped, visited>>

\* The terminator of a name with more than NameMax characters is written behind
\* output[]: the stack checks of the build may end the process, or nothing comes of it.
EndName ==
    /\ pc = "name" /\ Is("zero")
    /\ \/ /\ ptr' = IF jumped THEN orig_ptr ELSE ptr + 1
          /\ pc' = "named"
          /\ UNCHANGED verdict
       \/ /\ Len(output) > NameMax
          /\ Finish("stack overrun")
          /\ UNCHANGED ptr
    /\ UNCHANGED <<attempts, reply, parser, nameVars>>

\* What is read as a name begins with something else.
Astray ==
    /\ \/ pc = "name" /\ ~\E k \in {"jump", "length", "zero"} : Is(k)
       \/ pc = "named" /\ field = "owner" /\ ptr < Size(reply) /\ ~Is("record")
    /\ Finish("astray")
    /\ UNCHANGED <<attempts, reply, ptr, parser, nameVars>>

------------------------------------------------------------------------------
(* parseDNSResponse().                                                        *)

NextSection ==
    /\ pc = "next" /\ left = 0
    /\ IF section = Len(Sections)
       THEN Finish("parsed") /\ UNCHANGED <<section, left>>
       ELSE /\ section' = section + 1
            /\ left' = reply.counts[section + 1]
            /\ UNCHANGED <<pc, verdict>>
    /\ UNCHANGED <<attempts, reply, ptr, field, start, dataLen, records, nameVars>>

\* No test before a question; before the first record of the authority section
\* only; before every record of the other two.
Exhausted ==
    /\ ptr >= Size(reply)
    /\ \/ Sections[section] \in {"answers", "additional"}
       \/ Sections[section] = "authority" /\ left = reply.counts[section]

NextRecord ==
    /\ pc = "next" /\ left > 0
    /\ left' = left - 1
    /\ IF Exhausted
       THEN /\ Finish("not enough records")
            /\ UNCHANGED <<ptr, field, start, nameVars, records>>
       ELSE /\ BeginName(ptr, IF Sections[section] = "questions" THEN "question" ELSE "owner")
            /\ records' = Append(records, ptr)
            /\ UNCHANGED verdict
    /\ UNCHANGED <<attempts, reply, section, dataLen>>

EndQuestion ==
    /\ pc = "named" /\ field = "question"
    /\ ptr' = ptr + 1 /\ pc' = "next"
    /\ UNCHANGED <<attempts, reply, parser, nameVars, verdict>>


RecordVerdict(h) ==
    IF ~h.classOK THEN "unsupported class"
    ELSE IF ~h.ttlOK THEN "TTL too high"
    ELSE IF h.len > Size(reply) - (ptr + 1) THEN "value beyond packet" ELSE "none"

\* The authority section takes every value for a name.
ReadsName(h) ==
    HoldsName(h) \/ Sections[section] = "authority"

ReadHeader ==
    /\ pc = "named" /\ field = "owner"
    /\ \/ /\ ptr >= Size(reply)
          /\ Finish("truncated RR header")
          /\ UNCHANGED <<ptr, field, start, nameVars, dataLen>>
       \/ /\ Is("record")
          /\ LET h == Cell(ptr) IN
             /\ dataLen' = h.len
             /\ IF RecordVerdict(h) # "none"
                THEN /\ Finish(RecordVerdict(h))
                     /\ UNCHANGED <<ptr, field, start, nameVars>>
                ELSE /\ IF ReadsName(h)
                        THEN BeginName(ptr + 1, "rdata")
                        ELSE /\ pc' = "skip" /\ ptr' = ptr + 1
                             /\ UNCHANGED <<field, start, nameVars>>
                     /\ UNCHANGED verdict
    /\ UNCHANGED <<attempts, reply, section, left, records>>

Mut_SkipAlways == {ptr + dataLen}

\* The byte at ptr, after a name that has been read or at a value that has not,
\* tells whether the value has to be skipped.  Behind the packet it is whatever
\* response[] held.
SkipTo ==
    IF ptr >= Size(reply) THEN {ptr, ptr + dataLen}
    ELSE IF Is("jump") \/ Is("high") THEN {ptr} ELSE {ptr + dataLen}

SkipData ==
    /\ pc = "skip" \/ (pc = "named" /\ field = "rdata")
    /\ ptr' \in SkipTo
    /\ pc' = "next"
    /\ UNCHANGED <<attempts, reply, parser, nameVars, verdict>>

------------------------------------------------------------------------------

Done == pc = "done" /\ UNCHANGED vars

sendDNSQuery == SendQuery \/ SelectTimeout \/ SelectError \/ ReceiveError \/ Receive
readDNSName  == FollowJump \/ CopyLabel \/ EndName \/ Astray
parseDNSResponse == NextSection \/ NextRecord \/ EndQuestion \/ ReadHeader \/ SkipData

Next == sendDNSQuery \/ readDNSName \/ parseDNSResponse \/ Done

Spec == Init /\ [][Next]_vars

\* select() returns after ten seconds at the latest, and the parser never waits.
FairSpec == Spec /\ WF_vars(Next)

------------------------------------------------------------------------------
(* What SectionsRead assumes of a packet.                                     *)

\* The packets for which the byte that SkipData looks at tells the truth: behind a
\* value that is a name the next owner is compressed, and no other value begins with
\* a byte from 0xC0 on, as the addresses from 192.0.0.0 on do.
Regular(r) ==
    \A n \in r.counts[1] + 1 .. Declared(r) :
        LET e == HeaderOf(r, n) IN
        IF HoldsName(At(r, e))
        THEN n < Declared(r) => At(r, StartOf(r)[n + 1]).kind = "jump"
        ELSE At(r, e + 1).kind # "high"

------------------------------------------------------------------------------
(* Properties.                                                                *)

WellFormed == reply # NoReply /\ reply.fault = "none"

\* readDNSName() returns the name that the packet holds there, whatever labels and
\* jumps it is made of, and leaves ptr behind the name, not behind its last jump.
NameRead ==
    pc = "named" /\ WellFormed =>
        output = NameAt(reply)[start] /\ ptr = EndOfName(reply)[start]

\* parseDNSResponse() reads every question and record of a well-formed packet where
\* it starts, and reaches the end of the last section, as long as the byte behind a
\* name or at the start of a value is no misleading one.
SectionsRead ==
    WellFormed /\ Regular(reply) =>
        /\ \A n \in 1..Len(records) : records[n] = StartOf(reply)[n]
        /\ pc = "done" => verdict = "parsed" /\ Len(records) = Declared(reply)

\* How each fault is reported.  Two pass the tests of readDNSName(): the length of a
\* label from SignBit on, which ends the process, and a name with one character more
\* than NameMax, after which the parser goes on as after any other (and astray in the
\* authority section, if the value is no name), if writing behind output[] lets it.
ReportsOf(f) ==
    IF f = "negative length" THEN {"access violation"}
    ELSE IF f = "name one too long" THEN {"stack overrun", "parsed", "astray"} ELSE {f}


\* The program ends: after three timeouts, and with any packet, even if its jumps
\* go round in a circle.
Terminates == <>(pc = "done")

==============================================================================
