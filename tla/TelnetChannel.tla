--------------------------- MODULE TelnetChannel ---------------------------
(***************************************************************************)
(* One connection to the agent, files/anyvmd.py: Telnet._fill takes chunks *)
(* off the wire and decodes them, serve() reads command lines from what is *)
(* decoded, and do_extract() lets tarfile read an archive from the same    *)
(* buffer.  TCP cuts the stream anywhere, and the connection may end       *)
(* anywhere.                                                               *)
(*                                                                         *)
(* A byte is a string; one byte stands for the text of a whole command     *)
(* ("tar" for the one that announces an archive).  A unit is what telnet   *)
(* takes as one: a plain byte, a doubled IAC, a negotiation, ...           *)
(***************************************************************************)
EXTENDS Integers, Sequences

CONSTANTS
  Bytes,     \* the bytes of the streams
  Streams,   \* what a client may send in one connection
  Record     \* tarfile's read size, 20 * 512

Verbs == {"will", "wont", "do", "dont"}
Telnet == Verbs \cup {"iac", "sb", "se", "bin"}

\* The forms of a unit.
Plain(u) == \E b \in Bytes \ {"iac"} : u = <<b>>
Escaped(u) == u = <<"iac", "iac">>
Offer(u) == \E v \in Verbs, o \in Bytes : u = <<"iac", v, o>>
Option(u) == \E o \in Bytes \ {"iac"} : u = <<"iac", "sb", o, "iac", "se">>
Other(u) == \E c \in Bytes \ (Verbs \cup {"iac", "sb"}) : u = <<"iac", c>>

\* What a unit carries, and whether it has an answer.
Payload(u) == IF Plain(u) THEN u ELSE IF Escaped(u) THEN <<"iac">> ELSE <<>>
Answered(u) == Offer(u) /\ u[2] \in {"will", "do"}

\* What the client means by the payload: command lines and where each ends, or the
\* line of one archive and the archive, which begins with the name of a member.
\* Tarfile stops after the record with the first block of zeros; the second block,
\* and a record filled up after it, is the rest.
Meant(s) ==
  /\ s.lines \in Seq(Seq(Bytes))
  /\ s.cut \in [0 .. Len(s.lines) -> 0 .. Len(s.payload)] /\ s.cut[0] = 0
  /\ \A k \in 1 .. Len(s.lines) :
       LET line == s.lines[k] IN
       /\ line # <<>> /\ line[1] # "nul"
       /\ \A i \in 1 .. Len(line) : line[i] \notin {"cr", "lf"}
       /\ s.cut[k] = s.cut[k - 1] + Len(line) + 2
       /\ SubSeq(s.payload, s.cut[k - 1] + 1, s.cut[k]) = line \o <<"cr", "lf">>
  /\ IF s.archive = <<>>
       THEN s.cut[Len(s.lines)] = Len(s.payload)
       ELSE /\ s.lines = <<>>
            /\ s.payload = <<"tar", "cr", "lf">> \o (s.archive \o s.rest)
            /\ s.archive[1] \notin {"lf", "nul"}
            /\ \A i \in 1 .. Len(s.rest) : s.rest[i] = "nul"

\* A stream: its units, its wire and its payload in one piece, where each
\* unit ends in both, how many answers it calls for up to there, and its meaning.
IsStream(s) ==
  /\ \A k \in 1 .. Len(s.units) :
       LET u == s.units[k] IN
       /\ Plain(u) \/ Escaped(u) \/ Offer(u) \/ Option(u) \/ Other(u)
       /\ s.start[k] = s.start[k - 1] + Len(u)
       /\ SubSeq(s.wire, s.start[k - 1] + 1, s.start[k]) = u
       /\ s.pay[k] = s.pay[k - 1] + Len(Payload(u))
       /\ SubSeq(s.payload, s.pay[k - 1] + 1, s.pay[k]) = Payload(u)
       /\ s.offers[k] = s.offers[k - 1] + (IF Answered(u) THEN 1 ELSE 0)
  /\ s.units \in Seq(Seq(Bytes))
  /\ s.wire \in Seq(Bytes) /\ s.payload \in Seq(Bytes)
  /\ s.start \in [0 .. Len(s.units) -> 0 .. Len(s.wire)]
  /\ s.pay \in [0 .. Len(s.units) -> 0 .. Len(s.payload)]
  /\ s.offers \in [0 .. Len(s.units) -> 0 .. Len(s.units)]
  /\ s.start[0] = 0 /\ s.start[Len(s.units)] = Len(s.wire)
  /\ s.pay[0] = 0 /\ s.pay[Len(s.units)] = Len(s.payload)
  /\ s.offers[0] = 0
  /\ \A i \in 1 .. Len(s.payload) : s.payload[i] = "tar" => i = 1 /\ s.archive # <<>>
  /\ s.archive \in Seq(Bytes) /\ s.rest \in Seq(Bytes)
  /\ Meant(s)

ASSUME BytesAssumption == Telnet \subseteq Bytes
ASSUME StreamsAssumption == \A s \in Streams : IsStream(s)
ASSUME RecordAssumption == Record \in Nat \ {0}

VARIABLES
  sent,      \* the stream of this connection
  here,      \* bytes of it recv has returned
  at,        \* bytes of it decoded; self.raw, or data[i:], is what lies between
  decoded,   \* all that was appended to self.buf
  taken,     \* how much of it was taken off self.buf again
  filling,   \* is _fill's loop running?
  eof,       \* self.eof
  replies,   \* answers sent
  pc,        \* where serve() is
  tar,       \* what tarfile has read of the archive
  marker,    \* TAR_DONE was sent
  failed,    \* an extraction failed
  executed   \* the lines given to the command line interpreter

input == <<sent, here, at, decoded, filling, replies>>
vars == <<sent, here, at, decoded, taken, filling, eof, replies, pc, tar, marker,
          failed, executed>>

-----------------------------------------------------------------------------
Init ==
  /\ sent \in Streams
  /\ here = 0 /\ at = 0 /\ decoded = <<>> /\ taken = 0
  /\ filling = FALSE /\ eof = FALSE /\ replies = 0
  /\ pc = "line"
  /\ tar = <<>> /\ marker = FALSE /\ failed = FALSE
  /\ executed = <<>>

Buf == SubSeq(decoded, taken + 1, Len(decoded))
Data == SubSeq(sent.wire, at + 1, here)

-----------------------------------------------------------------------------
(***************************************************************************)
(* _fill: one recv, then its loop, one unit per turn.                      *)
(***************************************************************************)
HasLine == \E i \in 1 .. Len(Buf) : Buf[i] \in {"cr", "lf"}

\* read_line finds no separator, or read has not got its `want` yet.
Waiting ==
  /\ ~filling /\ ~eof
  /\ \/ pc = "line" /\ ~HasLine
     \/ pc = "tar" /\ Len(Buf) < Record

Recv ==
  /\ Waiting
  /\ here' \in here + 1 .. Len(sent.wire)
  /\ filling' = TRUE
  /\ UNCHANGED <<sent, at, decoded, taken, eof, replies, pc, tar, marker, failed, executed>>

\* recv returned "": what is not decodable counts as payload.  Or it raised.
Close ==
  /\ Waiting
  /\ eof' = TRUE
  /\ \/ decoded' = decoded \o Data /\ at' = here
     \/ UNCHANGED <<decoded, at>>
  /\ UNCHANGED <<sent, here, taken, filling, replies, pc, tar, marker, failed, executed>>

Take(n, out, answers) ==
  /\ at' = at + n
  /\ decoded' = decoded \o out
  /\ replies' = replies + answers

DecodePlain == Len(Data) >= 1 /\ Data[1] # "iac" /\ Take(1, <<Data[1]>>, 0)

\* Mutant: both bytes of a doubled IAC are kept.
DecodeDoubled ==
  Len(Data) >= 2 /\ Data[1] = "iac" /\ Data[2] = "iac" /\ Take(2, <<"iac", "iac">>, 0)

DecodeEscaped ==
  Len(Data) >= 2 /\ Data[1] = "iac" /\ Data[2] = "iac" /\ Take(2, <<"iac">>, 0)

\* _negotiate answers WILL and DO, whatever the option.
DecodeOffer ==
  /\ Len(Data) >= 3 /\ Data[1] = "iac" /\ Data[2] \in Verbs
  /\ Take(3, <<>>, IF Data[2] \in {"will", "do"} THEN 1 ELSE 0)

\* The places where a subnegotiation can end.
Ends == {j \in 3 .. Len(Data) - 1 : Data[j] = "iac" /\ Data[j + 1] = "se"}

DecodeOption ==
  /\ Len(Data) >= 2 /\ Data[1] = "iac" /\ Data[2] = "sb"
  /\ \E j \in Ends : (\A i \in Ends : j <= i) /\ Take(j + 1, <<>>, 0)

DecodeOther ==
  /\ Len(Data) >= 2 /\ Data[1] = "iac" /\ Data[2] \notin Verbs \cup {"iac", "sb"}
  /\ Take(2, <<>>, 0)

Decode ==
  /\ filling
  /\ DecodePlain \/ DecodeEscaped \/ DecodeOffer \/ DecodeOption \/ DecodeOther
  /\ UNCHANGED <<sent, here, taken, filling, eof, pc, tar, marker, failed, executed>>

\* A sequence that straddles the chunk.
Incomplete ==
  /\ Data # <<>> /\ Data[1] = "iac"
  /\ \/ Len(Data) = 1
     \/ Len(Data) = 2 /\ Data[2] \in Verbs
     \/ Len(Data) >= 2 /\ Data[2] = "sb" /\ Ends = {}

\* Mutant: a sequence that straddles the chunk is dropped.
FillDrops ==
  /\ filling
  /\ Data = <<>> \/ Incomplete
  /\ filling' = FALSE
  /\ at' = here
  /\ UNCHANGED <<sent, here, decoded, taken, eof, replies, pc, tar, marker, failed, executed>>

\* The end of the loop: nothing left, or nothing yet decodable.
FillEnds ==
  /\ filling
  /\ Data = <<>> \/ Incomplete
  /\ filling' = FALSE
  /\ UNCHANGED <<sent, here, at, decoded, taken, eof, replies, pc, tar, marker, failed, executed>>

-----------------------------------------------------------------------------
(***************************************************************************)
(* serve: read_line, and what the line asks for.                           *)
(***************************************************************************)
\* The first position of a byte in the buffer.
Find(b, p) == Buf[p] = b /\ \A i \in 1 .. p - 1 : Buf[i] # b
Lacks(b) == \A i \in 1 .. Len(Buf) : Buf[i] # b

\* "\n" is looked for first, "\r" only in a buffer without one.
Separator(p) == Find("lf", p) \/ (Lacks("lf") /\ Find("cr", p))

\* Mutant: the byte after the separator always goes.
SkipTwo(p) == IF p < Len(Buf) THEN p + 1 ELSE p

\* The separator, and a "\n" or "\x00" after it if it is here already.
Skip(p) == IF p < Len(Buf) /\ Buf[p + 1] \in {"lf", "nul"} THEN p + 1 ELSE p

\* line.strip(): the line (one only) without the line ends around it.
Kept(s) == {i \in 1 .. Len(s) : s[i] \notin {"cr", "lf"}}
Stripped(s) ==
  IF Kept(s) = {}
    THEN {<<>>}
    ELSE {SubSeq(s, i, j) : i \in {n \in Kept(s) : \A m \in Kept(s) : n <= m},
                            j \in {n \in Kept(s) : \A m \in Kept(s) : m <= n}}

Served(gone) == pc' = IF gone THEN "closed" ELSE "line"

\* The command of a line: an archive, whose directory may not come into being;
\* nothing; or anything else, for os.system, whose output may find the client
\* gone.
Command(line) ==
  \/ /\ line = <<>>
     /\ Served(eof)
     /\ UNCHANGED <<eof, tar, marker, failed, executed>>
  \/ /\ line = <<"tar">>
     /\ tar' = <<>> /\ marker' = FALSE
     /\ \/ pc' = "tar" /\ UNCHANGED failed
        \/ Served(eof) /\ failed' = TRUE
     /\ UNCHANGED <<eof, executed>>
  \/ /\ line \notin {<<>>, <<"tar">>}
     /\ executed' = Append(executed, line)
     /\ eof' \in {eof, TRUE}
     /\ Served(eof')
     /\ UNCHANGED <<tar, marker, failed>>

ReadLine ==
  /\ pc = "line" /\ ~filling
  /\ \E p \in 1 .. Len(Buf) :
       /\ Separator(p)
       /\ taken' = taken + Skip(p)
       /\ \E line \in Stripped(SubSeq(Buf, 1, p - 1)) : Command(line)
  /\ UNCHANGED input

\* At the end of the stream the rest is a line, or there is none.
LastLine ==
  /\ pc = "line" /\ ~filling /\ eof /\ ~HasLine
  /\ taken' = Len(decoded)
  /\ Command(Buf)
  /\ UNCHANGED input

-----------------------------------------------------------------------------
ArchiveSize == Len(sent.archive)
FirstRecord == SubSeq(sent.archive, 1, Record)
NextRecord == SubSeq(Buf, 1, Record)

\* tarfile reads a record more and goes on.
TarReads ==
  /\ Len(Buf) >= Record
  /\ tar = <<>> => NextRecord = FirstRecord
  /\ Len(tar) + Record < ArchiveSize
  /\ tar' = tar \o NextRecord
  /\ taken' = taken + Record
  /\ UNCHANGED <<eof, pc, marker, failed>>

\* The last record: the marker goes out, if anybody is there.
TarDone ==
  /\ Len(Buf) >= Record
  /\ tar = <<>> => NextRecord = FirstRecord
  /\ Len(tar) + Record = ArchiveSize
  /\ tar' = tar \o NextRecord
  /\ taken' = taken + Record
  /\ eof' \in {eof, TRUE}
  /\ marker' = ~eof'
  /\ Served(eof')
  /\ UNCHANGED failed

\* Mutant: a read at the end of the stream waits for its bytes.
TarFailsOnlyWhole ==
  /\ Len(Buf) >= Record
  /\ taken' = taken + Record
  /\ failed' = TRUE
  /\ Served(eof)
  /\ UNCHANGED <<eof, tar, marker>>

\* Mutant: a read takes what it was asked for, also from a shorter rest.
TarFailsPastEnd ==
  /\ Len(Buf) >= Record \/ eof
  /\ taken' = taken + Record
  /\ failed' = TRUE
  /\ Served(eof)
  /\ UNCHANGED <<eof, tar, marker>>

\* A first header whose checksum is wrong, a full disc: the exception is logged,
\* and what was read is gone from the buffer.  Or an archive cut short; where
\* tarfile takes the cut for the end, nobody is there to read the marker.
TarFails ==
  /\ Len(Buf) >= Record \/ eof
  /\ taken' = IF Len(Buf) >= Record THEN taken + Record ELSE Len(decoded)
  /\ failed' = TRUE
  /\ Served(eof)
  /\ UNCHANGED <<eof, tar, marker>>

Extract ==
  /\ pc = "tar" /\ ~filling
  /\ TarReads \/ TarDone \/ TarFails
  /\ UNCHANGED <<input, executed>>

-----------------------------------------------------------------------------
Agent == Decode \/ FillEnds \/ ReadLine \/ LastLine \/ Extract

Network == Recv \/ Close

Next == Agent \/ Network

Spec == Init /\ [][Next]_vars

\* The agent's loops run; a connection that delivers nothing more is closed,
\* as every client of this repository does after its own timeout; a command
\* given to os.system returns.
FairSpec == Spec /\ WF_vars(Agent) /\ WF_vars(Network)

-----------------------------------------------------------------------------
TypeOK ==
  /\ sent \in Streams
  /\ here \in 0 .. Len(sent.wire) /\ at \in 0 .. here
  /\ decoded \in Seq(Bytes) /\ taken \in 0 .. Len(decoded)
  /\ filling \in BOOLEAN /\ eof \in BOOLEAN
  /\ marker \in BOOLEAN /\ failed \in BOOLEAN
  /\ replies \in 0 .. Len(sent.units)
  /\ pc \in {"line", "tar", "closed"}
  /\ tar \in Seq(Bytes) /\ Len(tar) <= ArchiveSize
  /\ executed \in Seq(Seq(Bytes))

\* While the connection lasts, what _fill has decoded is what the client meant by
\* the units that are there, each unit taken whole and answered once, however
\* recv cut the stream: a negotiation or a doubled IAC that straddles two chunks
\* is neither lost nor taken for data.
DecodeIgnoresCuts ==
  ~eof => \E k \in 0 .. Len(sent.units) :
            /\ at = sent.start[k]
            /\ decoded = SubSeq(sent.payload, 1, sent.pay[k])
            /\ replies = sent.offers[k]

\* The marker the client waits for means that tarfile has read the archive as it
\* was sent, wherever the stream was cut, and also when a cut put the second
\* byte of the line end in front of the archive.
MarkerMeansWhole == marker => tar = sent.archive

\* Only what the client sent as a command line is run, whole and in its order:
\* no byte of an archive, and no half of a line, as long as the connection lasts
\* and no extraction has failed.
LinesAsSent ==
  ~eof /\ ~failed => executed = SubSeq(sent.lines, 1, Len(executed))

\* The agent comes back to accept(), where the next client waits.
SessionEnds == <>(pc = "closed")

=============================================================================
