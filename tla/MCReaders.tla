------------------------------ MODULE MCReaders ------------------------------
(* The two readers of DNS packets, the client of Hw2 and the reader of Hw4:   *)
(* one of the two programs runs, the other one is done before it starts.      *)
(* Their packets are well-formed ones, put together from all forms of names,  *)
(* and each fault wherever it can be.                                         *)
EXTENDS DnsClient, MCPackets

------------------------------------------------------------------------------
(* Replies for the client.                                                    *)

\* Two records after the question, in one section or in two.
Counts == {<<1, 2, 0, 0>>, <<1, 1, 0, 1>>}

Pairs ==
    UNION {{r1 \o r2 : r2 \in Addresses(First + Len(r1), {FALSE})
                              \cup NameRecords(First + Len(r1), "CNAME")}
           : r1 \in Addresses(First, BOOLEAN) \cup Texts(First)
                        \cup NameRecords(First, "CNAME")}

\* A name server in the authority section and its address.
Referrals ==
    {RR(Jump(1), "NS", v) \o RR(Jump(First), "A", Address(FALSE)) :
        v \in NameForms(First + 3)}

WellFormedReplies ==
    {Packet(Question \o p, c, "none") : p \in Pairs, c \in Counts}
    \cup {Packet(Question \o p, <<1, 0, 1, 1>>, "none") : p \in Referrals}

\* The record that is at fault stands first in one of three sections, or second in
\* the last.
Good == RR(Jump(1), "A", Address(FALSE))
Places ==
    {<<Question, <<1, 1, 0, 0>>>>, <<Question, <<1, 0, 1, 0>>>>, <<Question, <<1, 0, 0, 1>>>>,
     <<Question \o Good, <<1, 1, 0, 1>>>>, <<Question \o Good, <<1, 0, 0, 2>>>>}

\* The name of the question, an owner, or the value of a record.
FaultyReplies ==
    {Packet(f[1] \o << QTail >>, <<1, 0, 0, 0>>, f[2]) : f \in FaultyNames(1)}
    \cup {Packet(f[1], <<1, 0, 0, 0>>, f[2]) : f \in CutNames}
    \cup UNION {{Packet(p[1] \o RR(f[1], "A", Address(FALSE)), p[2], f[2]) :
                     f \in FaultyNames(1 + Len(p[1]))} : p \in Places}
    \cup UNION {{Packet(p[1] \o RR(Jump(1), "CNAME", f[1]), p[2], f[2]) :
                     f \in FaultyNames(1 + Len(p[1]) + 3) \cup CutNames} : p \in Places}
    \cup {Packet(p[1] \o f[1], p[2], f[2]) : p \in Places, f \in CutNames}

\* Headers of records, and records that are missing.
FaultyHeaders ==
    { <<<< Record("A", FALSE, TRUE, 2) >> \o Address(FALSE), "unsupported class">>,
      <<<< Record("A", TRUE, FALSE, 2) >> \o Address(FALSE), "TTL too high">>,
      <<<< Record("A", TRUE, TRUE, 3) >> \o Address(FALSE), "value beyond packet">>,
      <<<<>>, "truncated RR header">> }
FaultyRecords ==
    {Packet(p[1] \o Jump(1) \o h[1], p[2], h[2]) : p \in Places, h \in FaultyHeaders}
    \cup {Packet(p[1], p[2], "not enough records") : p \in Places}

ClientReplies == WellFormedReplies \cup Refused \cup FaultyReplies \cup FaultyRecords

------------------------------------------------------------------------------
(* Answers to the lookups of the traceroute.                                  *)

Answers(o) ==
    Addresses(o, {FALSE}) \cup UNION {NameRecords(o, t) : t \in {"CNAME", "PTR"}}

\* Two answers; or one, and a name that is none in the last section; or no answer.
WellFormedAnswers ==
    UNION {{Packet(Question \o r \o s, <<1, 2, 0, 0>>, "none") : s \in Answers(First + Len(r))}
           : r \in Answers(First)}
    \cup {Packet(Question \o r \o RR(Jump(1), "PTR", Full), <<1, 1, 0, 1>>, "none") :
              r \in Answers(First)}
    \cup {Packet(Question, <<1, 0, 0, 0>>, "none"),
          Packet(Question \o Question, <<2, 0, 0, 0>>, "none")}

\* The name at fault is that of the question, of an answer or its value.
FaultyAnswers ==
    {Packet(f[1] \o << QTail >> \o RR(Jump(1), "PTR", Full), <<1, 1, 0, 0>>, f[2]) :
        f \in FaultyNames(1)}
    \cup {Packet(Question \o RR(f[1], "PTR", Full), <<1, 1, 0, 0>>, f[2]) :
              f \in FaultyNames(First)}
    \cup {Packet(Question \o RR(Jump(1), "PTR", f[1]), <<1, 1, 0, 0>>, f[2]) :
              f \in FaultyNames(First + 3) \cup CutNames}
    \cup {Packet(Question \o f[1], <<1, 1, 0, 0>>, f[2]) : f \in CutNames}

LookupReplies == WellFormedAnswers \cup Refused \cup FaultyAnswers

\* What ReplyAssumption says of the client's packets holds of these too.
ASSUME LookupAssumption ==
    \A r \in LookupReplies : IsPacket(r) /\ (r.fault = "none" => IsWellFormed(r))

------------------------------------------------------------------------------

VARIABLES pc4, reply4, ptr4, left4, field4, original_ptr4, jumped4, jumps4, output4, returned4

Helper == INSTANCE DnsHelper WITH
    Replies <- LookupReplies,
    pc <- pc4, reply <- reply4, ptr <- ptr4, left <- left4, field <- field4,
    original_ptr <- original_ptr4, jumped <- jumped4, jumps <- jumps4, output <- output4,
    returned <- returned4

helperVars == <<pc4, reply4, ptr4, left4, field4, original_ptr4, jumped4, jumps4, output4,
                returned4>>

HelperOff ==
    /\ pc4 = "done" /\ reply4 = NoReply /\ ptr4 = 0 /\ left4 = 0 /\ field4 = "owner"
    /\ original_ptr4 = 0 /\ jumped4 = FALSE /\ jumps4 = {} /\ output4 = <<>>
    /\ returned4 = FALSE

ClientOff ==
    /\ pc = "done" /\ attempts = 0 /\ reply = NoReply
    /\ ptr = 0 /\ section = 1 /\ left = 0 /\ field = "question" /\ start = 0
    /\ orig_ptr = 0 /\ jumped = FALSE /\ visited = {} /\ output = <<>>
    /\ dataLen = 0 /\ records = <<>> /\ verdict = "none"

OneRuns == (Init /\ HelperOff) \/ (Helper!Init /\ ClientOff)

OneReads ==
    \/ Next /\ UNCHANGED helperVars
    \/ Helper!Next /\ UNCHANGED vars

readersVars == <<vars, helperVars>>

\* What is off only stutters, so that this is the fairness of the one that runs.
Readers == OneRuns /\ [][OneReads]_readersVars /\ WF_readersVars(OneReads)

LookupAnswered == Helper!LookupAnswered

==============================================================================
