------------------------------ MODULE MCPackets ------------------------------
(* Parts from which the instances put DNS messages together.                  *)
EXTENDS DnsPackets

Header == [kind |-> "header"]
Packet(cells, counts, fault) ==
    [cells |-> << Header >> \o cells, txidOK |-> TRUE, rcode |-> 0, counts |-> counts,
     fault |-> fault]

Label(c) == << Length(1), Char(c) >>

\* The question's name "a.b" stands at offset 1, its suffix "b" at 3.
Question == Label("a") \o Label("b") \o << Zero, QTail >>
First    == 1 + Len(Question)

Full == Label("c") \o << Zero >>

\* Names of a record at offset o; the last one jumps twice when the name at First
\* is compressed too.
NameForms(o) ==
    {Full, Jump(1), Jump(3), Label("d") \o Jump(3)}
        \cup (IF o > First THEN {Jump(First), Label("e") \o Jump(First)} ELSE {})

RR(owner, type, value) == owner \o << Record(type, TRUE, TRUE, Len(value)) >> \o value

Address(hi) == << IF hi THEN High ELSE Low, Low >>

\* Records at offset o: addresses, text and names.
Addresses(o, hi) == {RR(n, "A", Address(h)) : n \in NameForms(o), h \in hi}
Texts(o) == {RR(n, "TXT", Address(FALSE)) : n \in NameForms(o)}
NameRecords(o, type) ==
    UNION {{RR(n, type, v) : v \in NameForms(o + Len(n) + 1)} : n \in NameForms(o)}

\* What may come instead of a packet with records.
Refused ==
    { [Packet(<<>>, <<0, 0, 0, 0>>, "smaller than header") EXCEPT !.cells = <<>>],
      [Packet(<<>>, <<0, 0, 0, 0>>, "TXID mismatch") EXCEPT !.txidOK = FALSE],
      [Packet(<<>>, <<0, 0, 0, 0>>, "Rcode") EXCEPT !.rcode = 3] }

\* Names with a fault at offset o, wherever the packet goes on behind them ...
FaultyNames(o) ==
    { <<Jump(o), "jump loop">>,
      <<Label("d") \o Jump(o), "jump loop">>,
      <<Jump(o + 2) \o Jump(o), "jump loop">>,
      <<Label("d") \o Jump(o + 4) \o Label("e") \o Jump(o), "jump loop">>,
      <<Jump(0), "jump into header">>,
      <<Label("d") \o Jump(99), "jump beyond packet">>,
      <<<< Length(LabelMax + 1) >>, "label too long">>,
      <<Label("d") \o << Length(SignBit - 1) >>, "label too long">>,
      <<<< Length(SignBit) >>, "negative length">>,
      <<Label("d") \o << Length(SignBit + 1) >>, "negative length">>,
      <<Label("d") \o Label("e") \o << Length(2), Char("f"), Char("f"), Length(1),
        Char("g"), Zero >>, "name too long">>,
      <<Label("d") \o Label("e") \o Label("f") \o Label("g") \o << Zero >>,
        "name one too long">> }

\* ... and names with which it ends.
CutNames ==
    { <<<< Head(Jump(1)) >>, "truncated jump">>,
      <<Label("d") \o << Head(Jump(1)) >>, "truncated jump">>,
      <<<< Length(1) >>, "truncated name">>,
      <<Label("d") \o << Length(2), Char("e") >>, "truncated name">> }

==============================================================================
