------------------------------ MODULE DnsHelper ------------------------------
(***************************************************************************)
(* The reader of DNS answers of Hw4 (dns_helper.cpp): parseDNSReply()      *)
(* skips the question of a packet, walks through its answers and takes the *)
(* name of the first PTR record, with a readDNSName() of its own, which    *)
(* tests less than the one of Hw2 and restores ptr in another way.         *)
(***************************************************************************)
EXTENDS DnsPackets

(* As in SenderSocket, Mut_... is a slip the code does not make.               *)

VARIABLES
    pc,
    reply,     \* the packet in response[]
    ptr,       \* offset in it
    left,      \* the answers left
    field,     \* what the name being read is: "owner" or "value"
    original_ptr, jumped, jumps, output,  \* of readDNSName()
    returned   \* what parseDNSReply() returns

vars == <<pc, reply, ptr, left, field, original_ptr, jumped, jumps, output, returned>>

------------------------------------------------------------------------------

Cell(o) == At(reply, o)
Is(k)   == Cell(ptr).kind = k

\* parseDNSReply() is called with a packet.
Init ==
    /\ pc = "call" /\ reply \in Replies /\ returned = FALSE
    /\ ptr = 0 /\ left = 0 /\ field = "owner"
    /\ original_ptr = 0 /\ jumped = FALSE /\ jumps = {} /\ output = <<>>

Return(b) == pc' = "done" /\ returned' = b

\* parseDNSReply() rejects a packet that is too short, another query's, an error or
\* without answers.
IsRefused ==
    Size(reply) < SizeOfHeader \/ ~reply.txidOK \/ reply.rcode # 0 \/ reply.counts[2] = 0

Refuse ==
    /\ pc = "call" /\ IsRefused
    /\ Return(FALSE)
    /\ UNCHANGED <<reply, ptr, left, field, original_ptr, jumped, jumps, output>>

\* The question is skipped up to its first zero byte, which no byte of a label or a
\* jump is taken to be.
NonZero == {"length", "char", "jump", "half"}
FirstZero ==
    CHOOSE o \in SizeOfHeader..Size(reply) :
        /\ Cell(o).kind \notin NonZero
        /\ \A p \in SizeOfHeader..o - 1 : Cell(p).kind \in NonZero

\* That byte ends the name of a question.
QuestionEnds == Cell(FirstZero).kind = "zero" /\ Cell(FirstZero + 1).kind = "question"

SkipQuestion ==
    /\ pc = "call" /\ ~IsRefused /\ QuestionEnds
    /\ pc' = "answer" /\ ptr' = FirstZero + 2 /\ left' = reply.counts[2]
    /\ UNCHANGED <<reply, field, original_ptr, jumped, jumps, output, returned>>

------------------------------------------------------------------------------
(* readDNSName().                                                             *)

\* The call for the name at o.
BeginName(o, f) ==
    /\ pc' = "name" /\ field' = f
    /\ ptr' = o /\ original_ptr' = o
    /\ jumped' = FALSE /\ jumps' = {} /\ output' = <<>>

Mut_NotRestored(o) == o + 1
\* Where the name that was left at o ends.  After a jump, two bytes behind its
\* start, whatever labels stand before the jump.
afterName(o) == IF jumped THEN original_ptr + 2 ELSE o + 1

LeaveName(o) ==
    /\ pc' = "named" /\ ptr' = afterName(o)
    /\ UNCHANGED <<reply, left, field, original_ptr, jumped, jumps, output, returned>>

EndName == pc = "name" /\ Is("zero") /\ LeaveName(ptr)

\* A jump that leads behind the packet or has been followed ends the name.
MayJump(o) == o < Size(reply) /\ o \notin jumps

FollowJump ==
    /\ pc = "name" /\ Is("jump") /\ ptr + 1 < Size(reply)
    /\ MayJump(Cell(ptr).to)
    /\ jumps' = jumps \cup {Cell(ptr).to}
    /\ ptr' = Cell(ptr).to /\ jumped' = TRUE
    /\ UNCHANGED <<pc, reply, left, field, original_ptr, output, returned>>

RefuseJump ==
    /\ pc = "name" /\ Is("jump") /\ ptr + 1 < Size(reply)
    /\ ~MayJump(Cell(ptr).to)
    /\ LeaveName(ptr)

label_len == label_length(Cell(ptr).n)

\* So does a label that is too long, behind its length.
RefuseLabel ==
    /\ pc = "name" /\ Is("length") /\ label_len > LabelMax
    /\ LeaveName(ptr + 1)

\* The bytes of a label are copied without a look at either end.
InMemory ==
    /\ \A i \in 1..label_len : Cell(ptr + i).kind = "char"
    /\ Len(output) + (IF output = <<>> THEN 0 ELSE 1) + label_len <= NameMax

CopyLabel ==
    /\ pc = "name" /\ Is("length") /\ label_len \in 1..LabelMax /\ InMemory
    /\ output' = output \o (IF output = <<>> THEN <<>> ELSE <<".">>)
                        \o [i \in 1..label_len |-> Cell(ptr + i).c]
    /\ ptr' = ptr + 1 + label_len
    /\ UNCHANGED <<pc, reply, left, field, original_ptr, jumped, jumps, returned>>

\* A negative length is an enormous size for memcpy(), which leaves the memory of
\* the process.
AccessViolation ==
    /\ pc = "name" /\ Is("length") /\ label_len < 0
    /\ pc' = "died"
    /\ UNCHANGED <<reply, ptr, left, field, original_ptr, jumped, jumps, output, returned>>

\* What is read as a question, a name or a header is something else or lies behind the
\* packet, or the name is longer than output[].
Astray ==
    /\ \/ pc = "call" /\ ~IsRefused /\ ~QuestionEnds
       \/ pc = "name" /\ ~\E k \in {"jump", "length", "zero"} : Is(k)
       \/ pc = "name" /\ Is("jump") /\ ptr + 1 >= Size(reply)
       \/ pc = "name" /\ Is("length") /\ label_len \in 1..LabelMax /\ ~InMemory
       \/ pc = "named" /\ field = "owner" /\ ~Is("record")
    /\ pc' = "astray"
    /\ UNCHANGED <<reply, ptr, left, field, original_ptr, jumped, jumps, output, returned>>

------------------------------------------------------------------------------
(* parseDNSReply().                                                           *)

NextAnswer ==
    /\ pc = "answer" /\ left > 0
    /\ left' = left - 1
    /\ BeginName(ptr, "owner")
    /\ UNCHANGED <<reply, returned>>

NoName ==
    /\ pc = "answer" /\ left = 0
    /\ Return(FALSE)
    /\ UNCHANGED <<reply, ptr, left, field, original_ptr, jumped, jumps, output>>

\* The value of a PTR record is the name looked for; any other is skipped.
ReadHeader ==
    /\ pc = "named" /\ field = "owner" /\ Is("record")
    /\ IF Cell(ptr).type = "PTR"
       THEN BeginName(ptr + 1, "value")
       ELSE /\ pc' = "answer" /\ ptr' = ptr + 1 + Cell(ptr).len
            /\ UNCHANGED <<field, original_ptr, jumped, jumps, output>>
    /\ UNCHANGED <<reply, left, returned>>

\* The name is taken even if reading it was given up.
ReturnName ==
    /\ pc = "named" /\ field = "value"
    /\ Return(TRUE)
    /\ UNCHANGED <<reply, ptr, left, field, original_ptr, jumped, jumps, output>>

------------------------------------------------------------------------------

Ended == pc \in {"done", "astray", "died"}

Done == Ended /\ UNCHANGED vars

readDNSName == EndName \/ FollowJump \/ RefuseJump \/ RefuseLabel \/ CopyLabel
               \/ AccessViolation \/ Astray
parseDNSReply == Refuse \/ SkipQuestion \/ NextAnswer \/ NoName \/ ReadHeader \/ ReturnName

Next == parseDNSReply \/ readDNSName \/ Done

Spec == Init /\ [][Next]_vars

\* The parser never waits.
FairSpec == Spec /\ WF_vars(Next)

------------------------------------------------------------------------------
(* Properties.                                                                *)

WellFormed == reply.fault = "none"

\* What a packet answers: the value of the first PTR record among its answers.
Lookups(r) ==
    {n \in r.counts[1] + 1 .. r.counts[1] + r.counts[2] : At(r, HeaderOf(r, n)).type = "PTR"}

Answered ==
    /\ pc = "done" /\ returned = (Lookups(reply) # {})
    /\ \A n \in Lookups(reply) :
          (\A k \in Lookups(reply) : n <= k)
              => output = NameAt(reply)[HeaderOf(reply, n) + 1]

\* The name at o is labels and then a jump.
IsMixed(r, o) == At(r, o).kind = "length" /\ At(r, EndOfName(r)[o] - 2).kind = "jump"

\* Answers to a query as servers send them: the question alone, and no owner that
\* is compressed behind a label.
Plain(r) ==
    /\ r.counts[1] = 1 /\ At(r, EndOfName(r)[SizeOfHeader] - 2).kind # "jump"
    /\ \A n \in 2..1 + r.counts[2] : ~IsMixed(r, StartOf(r)[n])

\* parseDNSReply() comes to an end with every packet, even if its jumps go round in
\* a circle, and with a plain one it finds the name: behind any answers of other
\* types, through any labels and jumps of the value, and none if there is none.
LookupAnswered == <>(Ended /\ (WellFormed /\ Plain(reply) => Answered))

==============================================================================
