----------------------------- MODULE DnsPackets -----------------------------
(***************************************************************************)
(* DNS messages, for the readers of Hw2 (DnsClient) and Hw4 (DnsHelper),   *)
(* and what a well-formed one says, independently of how a program reads   *)
(* it.                                                                     *)
(*                                                                         *)
(* A packet is a sequence of cells.  Each byte of a name is a cell; the    *)
(* fixed headers (of the packet, of a question, of a record) are one cell  *)
(* each, so that SizeOfHeader is 1 where the code has 12 and the offsets   *)
(* are shorter.  A cell that is read as what it is not leads a reader      *)
(* astray, and what comes of it then is left open.                         *)
(***************************************************************************)
EXTENDS Integers, Sequences

CONSTANTS
    Replies,   \* the packets that may arrive
    LabelMax,  \* 63 in the code
    NameMax,   \* 255 in the code
    SignBit    \* 128: a byte from here on is negative as a char

ASSUME PacketAssumption ==
    /\ LabelMax \in Nat /\ NameMax \in Nat
    /\ SignBit \in Nat /\ LabelMax < SignBit

------------------------------------------------------------------------------
(* Packets.                                                                   *)

Zero     == [kind |-> "zero"]
\* A byte below 0xC0 where the length of a label is expected.
Length(n) == [kind |-> "length", n |-> n]
Char(c)  == [kind |-> "char", c |-> c]
\* A jump takes two bytes.
Jump(o)  == << [kind |-> "jump", to |-> o], [kind |-> "half"] >>
QTail    == [kind |-> "question"]
\* classOK: IN or CHAOS; ttlOK: at most a year.
Record(type, classOK, ttlOK, len) ==
    [kind |-> "record", type |-> type, classOK |-> classOK, ttlOK |-> ttlOK, len |-> len]
\* A byte of an address, below or from 0xC0 on.
Low  == [kind |-> "low"]
High == [kind |-> "high"]

SizeOfHeader == 1

\* cells[1] is the header; counts are the records it declares; fault is what is
\* wrong with the packet, if anything.
Size(r) == Len(r.cells)
At(r, o) == IF o < Size(r) THEN r.cells[o + 1] ELSE [kind |-> "beyond"]
NoReply == [cells |-> <<>>, txidOK |-> FALSE, rcode |-> 0, counts |-> <<0, 0, 0, 0>>,
            fault |-> "none"]

HoldsName(h) == h.type \in {"CNAME", "PTR", "NS"}

\* Both readers take the length for a char, which is signed.
label_length(n) == IF n >= SignBit THEN n - 2 * SignBit ELSE n

------------------------------------------------------------------------------
(* What a well-formed packet says, independently of how the code reads it.    *)

\* The name at an offset, with dots, and where it ends.
Dot(a, b) == IF b = <<>> THEN a ELSE a \o <<".">> \o b

LabelAt(r, o) == [i \in 1..At(r, o).n |-> At(r, o + i).c]

NameAt(r) ==
    LET f[o \in 0..Size(r)] ==
            IF At(r, o).kind = "length" THEN Dot(LabelAt(r, o), f[o + 1 + At(r, o).n])
            ELSE IF At(r, o).kind = "jump" THEN f[At(r, o).to]
            ELSE <<>>
    IN f

EndOfName(r) ==
    LET f[o \in 0..Size(r)] ==
            IF At(r, o).kind = "length" THEN f[o + 1 + At(r, o).n]
            ELSE IF At(r, o).kind = "jump" THEN o + 2
            ELSE o + 1
    IN f

Declared(r) == r.counts[1] + r.counts[2] + r.counts[3] + r.counts[4]

\* Where the n-th question or record starts.
StartOf(r) ==
    LET f[n \in 1..Declared(r) + 1] ==
            IF n = 1 THEN SizeOfHeader
            ELSE LET e == EndOfName(r)[f[n - 1]] IN
                 IF n - 1 <= r.counts[1] THEN e + 1 ELSE e + 1 + At(r, e).len
    IN f

\* Where the header of the n-th record stands.
HeaderOf(r, n) == EndOfName(r)[StartOf(r)[n]]

\* A name goes on behind a label or at the target of a jump, and ends after Depth such
\* steps.
NameKinds == {"length", "jump", "zero"}
GoesOn(r, o) == At(r, o).kind \in {"length", "jump"}
Onward(r, o) ==
    IF At(r, o).kind = "length" THEN o + 1 + At(r, o).n ELSE At(r, o).to

Depth(r) ==
    LET d[o \in 0..Size(r)] == IF GoesOn(r, o) THEN d[Onward(r, o)] + 1 ELSE 0
    IN d

\* Labels and jumps lead to other parts of names, and every name ends.
NamesSound(r) ==
    /\ \A o \in 0..Size(r) - 1 :
          /\ At(r, o).kind = "length" => At(r, o).n \in 1..LabelMax
          /\ At(r, o).kind = "jump" => At(r, o).to \in SizeOfHeader..Size(r) - 1
                                       /\ o + 1 < Size(r)
          /\ GoesOn(r, o) => /\ Onward(r, o) \in 0..Size(r) - 1
                             /\ At(r, Onward(r, o)).kind \in NameKinds
    /\ Depth(r) \in [0..Size(r) -> 0..Size(r)]
    /\ \A o \in 0..Size(r) - 1 :
          GoesOn(r, o) => Depth(r)[Onward(r, o)] < Depth(r)[o]
    /\ \A o \in 0..Size(r) - 1 : Len(NameAt(r)[o]) <= NameMax

InAuthority(r, n) ==
    r.counts[1] + r.counts[2] < n /\ n <= r.counts[1] + r.counts[2] + r.counts[3]

\* The header of the n-th record announces the value that follows.
RecordSound(r, n) ==
    LET e == HeaderOf(r, n) IN
    /\ e < Size(r) /\ At(r, e).kind = "record" /\ At(r, e).classOK /\ At(r, e).ttlOK
    /\ At(r, e).len \in 0..Size(r) - (e + 1)
    /\ IF HoldsName(At(r, e))
       THEN /\ At(r, e + 1).kind \in NameKinds
            /\ EndOfName(r)[e + 1] = e + 1 + At(r, e).len
       ELSE /\ ~InAuthority(r, n)
            /\ At(r, e).len > 0 => At(r, e + 1).kind \in {"low", "high"}

IsWellFormed(r) ==
    /\ Size(r) \in Nat \ (0..SizeOfHeader - 1) /\ r.txidOK /\ r.rcode = 0
    /\ r.counts \in [1..4 -> Nat]
    /\ \A o \in 0..Size(r) - 1 : At(r, o).kind = "record" => At(r, o).len \in Nat
    /\ NamesSound(r)
    /\ \A n \in 1..Declared(r) :
          StartOf(r)[n] \in SizeOfHeader..Size(r) - 1
            /\ At(r, StartOf(r)[n]).kind \in NameKinds
    /\ \A n \in r.counts[1] + 1 .. Declared(r) : RecordSound(r, n)

\* What holds of any packet: lengths are bytes, jumps and records hold numbers.
IsPacket(r) ==
    /\ Size(r) \in Nat
    /\ \A o \in 0..Size(r) - 1 :
          /\ At(r, o).kind = "length" => At(r, o).n \in 1..2 * SignBit - 1
          /\ At(r, o).kind = "jump" => At(r, o).to \in Nat
          /\ At(r, o).kind = "record" => At(r, o).len \in Nat

ASSUME ReplyAssumption ==
    \A r \in Replies : IsPacket(r) /\ (r.fault = "none" => IsWellFormed(r))

==============================================================================
