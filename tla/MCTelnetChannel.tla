-------------------------- MODULE MCTelnetChannel --------------------------
(* Streams for TLC: the encoding of small sessions.                         *)
EXTENDS TelnetChannel, SequencesExt

MCBytes == Telnet \cup {"cr", "lf", "nul", "tar", "c1", "c2", "a", "b"}

Upto(units, k, Size(_)) == FoldSeq(LAMBDA u, n : n + Size(u), 0, SubSeq(units, 1, k))

Stream(units, lines, archive, rest) ==
  LET up(Size(_)) == [k \in 0 .. Len(units) |-> Upto(units, k, Size)]
      carried == [k \in 1 .. Len(units) |-> Payload(units[k])]
  IN [units |-> units, lines |-> lines, archive |-> archive, rest |-> rest,
      cut |-> [k \in 0 .. Len(lines) |-> Upto(lines, k, LAMBDA l : Len(l) + 2)],
      wire |-> FlattenSeq(units), payload |-> FlattenSeq(carried),
      start |-> up(Len), pay |-> up(LAMBDA u : Len(Payload(u))),
      offers |-> up(LAMBDA u : IF Answered(u) THEN 1 ELSE 0)]

\* _ro_push: BINARY both ways, the command, the archive with every IAC doubled.
Binary == << <<"iac", "will", "bin">>, <<"iac", "do", "bin">> >>
Push(archive, units, rest) ==
  Stream(Binary \o << <<"tar">>, <<"cr">>, <<"lf">> >> \o units, <<>>, archive, rest)

\* telnet_exec: command lines; another client negotiates between them.
Commands == Stream(<< <<"c1">>, <<"cr">>, <<"lf">>, <<"c2">>, <<"cr">>, <<"lf">> >>,
                   << <<"c1">>, <<"c2">> >>, <<>>, <<>>)
Chatty == Stream(<< <<"iac", "sb", "a", "iac", "se">>, <<"c1">>, <<"iac", "wont", "a">>,
                    <<"cr">>, <<"lf">>, <<"iac", "a">>, <<"iac", "do", "iac">>,
                    <<"c2">>, <<"iac", "iac">>, <<"cr">>, <<"lf">> >>,
                 << <<"c1">>, <<"c2", "iac">> >>, <<>>, <<>>)

Sessions == {
  Push(<<"a", "iac", "cr", "lf">>,
       << <<"a">>, <<"iac", "iac">>, <<"cr">>, <<"lf">>, <<"nul">>, <<"nul">> >>, <<"nul", "nul">>),
  Push(<<"b", "c1", "lf", "iac", "iac", "a">>,
       << <<"b">>, <<"c1">>, <<"lf">>, <<"iac", "iac">>, <<"iac", "iac">>, <<"a">> >>, <<>>),
  Commands, Chatty}

=============================================================================
