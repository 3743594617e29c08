------------------------ MODULE TelnetChannelProofs ------------------------
(***************************************************************************)
(* The agent's connection for every stream, every way TCP cuts it and      *)
(* every record size: types, the decoder, the archive, and the command     *)
(* lines.                                                                  *)
(***************************************************************************)
EXTENDS TelnetChannel, SequenceTheorems, TLAPS

-----------------------------------------------------------------------------
(***************************************************************************)
(* Streams.                                                                *)
(***************************************************************************)
LEMMA SubSeqAt ==
  ASSUME NEW S, NEW q \in Seq(S), NEW a \in Nat, NEW b \in 0 .. Len(q), a <= b
  PROVE  /\ SubSeq(q, a + 1, b) \in Seq(S)
         /\ Len(SubSeq(q, a + 1, b)) = b - a
         /\ \A j \in 1 .. b - a : SubSeq(q, a + 1, b)[j] = q[a + j]
OBVIOUS

\* A front and what follows it make a longer front.
LEMMA Adjacent ==
  ASSUME NEW S, NEW q \in Seq(S), NEW a \in Nat, NEW b \in 0 .. Len(q), a <= b
  PROVE  SubSeq(q, 1, a) \o SubSeq(q, a + 1, b) = SubSeq(q, 1, b)
<1>1. 1 \in 1 .. Len(q) + 1 /\ a \in 1 - 1 .. Len(q) /\ b \in a .. Len(q)
  OBVIOUS
<1>2. QED
  BY <1>1, ConcatAdjacentSubSeq

\* The elements of a concatenation.
LEMMA ConcatAt ==
  ASSUME NEW S, NEW s1 \in Seq(S), NEW s2 \in Seq(S)
  PROVE  /\ s1 \o s2 \in Seq(S)
         /\ Len(s1) \in Nat /\ Len(s2) \in Nat
         /\ Len(s1 \o s2) = Len(s1) + Len(s2)
         /\ \A i \in 1 .. Len(s1) : (s1 \o s2)[i] = s1[i]
         /\ \A i \in 1 .. Len(s2) : (s1 \o s2)[Len(s1) + i] = s2[i]
OBVIOUS

\* The first two bytes of a unit tell its form.
LEMMA UnitForms ==
  ASSUME NEW u \in Seq(Bytes), Plain(u) \/ Escaped(u) \/ Offer(u) \/ Option(u) \/ Other(u)
  PROVE  /\ Len(u) \in 1 .. 5
         /\ u[1] # "iac" => Len(u) = 1 /\ Payload(u) = <<u[1]>> /\ ~Answered(u)
         /\ u[1] = "iac" => Len(u) >= 2
         /\ u[1] = "iac" /\ u[2] = "iac" =>
              Len(u) = 2 /\ Payload(u) = <<"iac">> /\ ~Answered(u)
         /\ u[1] = "iac" /\ u[2] \in Verbs =>
              /\ Len(u) = 3 /\ Payload(u) = <<>>
              /\ Answered(u) <=> u[2] \in {"will", "do"}
         /\ u[1] = "iac" /\ u[2] = "sb" =>
              /\ Len(u) = 5 /\ Payload(u) = <<>> /\ ~Answered(u)
              /\ u[3] # "iac" /\ u[4] = "iac" /\ u[5] = "se"
         /\ u[1] = "iac" /\ u[2] \notin Verbs \cup {"iac", "sb"} =>
              Len(u) = 2 /\ Payload(u) = <<>> /\ ~Answered(u)
<1>. USE DEF Payload, Answered, Verbs
<1>1. CASE Plain(u)
  <2>1. PICK b \in Bytes \ {"iac"} : u = <<b>>
    BY <1>1 DEF Plain
  <2>2. Len(u) = 1 /\ u[1] = b /\ b # "iac"
    BY <2>1
  <2>3. ~Offer(u)
    BY <2>2 DEF Offer
  <2>4. QED
    BY <1>1, <2>1, <2>2, <2>3
<1>2. CASE Escaped(u)
  <2>1. Len(u) = 2 /\ u[1] = "iac" /\ u[2] = "iac"
    BY <1>2 DEF Escaped
  <2>2. ~Plain(u) /\ ~Offer(u)
    BY <2>1 DEF Plain, Offer
  <2>3. QED
    BY <1>2, <2>1, <2>2
<1>3. CASE Offer(u)
  <2>1. Len(u) = 3 /\ u[1] = "iac" /\ u[2] \in Verbs
    BY <1>3 DEF Offer
  <2>2. ~Plain(u) /\ ~Escaped(u)
    BY <2>1 DEF Plain, Escaped
  <2>3. QED
    BY <1>3, <2>1, <2>2
<1>4. CASE Option(u)
  <2>1. PICK o \in Bytes \ {"iac"} : u = <<"iac", "sb", o, "iac", "se">>
    BY <1>4 DEF Option
  <2>2. Len(u) = 5 /\ u[1] = "iac" /\ u[2] = "sb" /\ u[3] # "iac" /\ u[4] = "iac" /\ u[5] = "se"
    BY <2>1
  <2>3. ~Plain(u) /\ ~Escaped(u) /\ ~Offer(u)
    BY <2>2 DEF Plain, Escaped, Offer
  <2>4. QED
    BY <2>2, <2>3
<1>5. CASE Other(u)
  <2>1. Len(u) = 2 /\ u[1] = "iac" /\ u[2] \notin Verbs \cup {"iac", "sb"}
    BY <1>5 DEF Other
  <2>2. ~Plain(u) /\ ~Escaped(u) /\ ~Offer(u)
    BY <2>1 DEF Plain, Escaped, Offer
  <2>3. QED
    BY <2>1, <2>2
<1>6. QED
  BY <1>1, <1>2, <1>3, <1>4, <1>5

\* A unit within its stream: where its bytes lie on the wire, and what the
\* payload up to its end is.
LEMMA UnitAt ==
  ASSUME NEW s \in Streams, NEW k \in 0 .. Len(s.units) - 1
  PROVE  LET u == s.units[k + 1] IN
         /\ u \in Seq(Bytes)
         /\ Plain(u) \/ Escaped(u) \/ Offer(u) \/ Option(u) \/ Other(u)
         /\ s.start[k] \in Nat /\ s.start[k + 1] = s.start[k] + Len(u)
         /\ s.start[k + 1] <= Len(s.wire)
         /\ \A j \in 1 .. Len(u) : s.wire[s.start[k] + j] = u[j]
         /\ SubSeq(s.payload, 1, s.pay[k]) \o Payload(u) = SubSeq(s.payload, 1, s.pay[k + 1])
         /\ s.offers[k + 1] = s.offers[k] + (IF Answered(u) THEN 1 ELSE 0)
<1>. DEFINE u == s.units[k + 1]
<1>1. IsStream(s)
  BY StreamsAssumption
<1>2. /\ s.units \in Seq(Seq(Bytes)) /\ s.wire \in Seq(Bytes) /\ s.payload \in Seq(Bytes)
      /\ s.start \in [0 .. Len(s.units) -> 0 .. Len(s.wire)]
      /\ s.pay \in [0 .. Len(s.units) -> 0 .. Len(s.payload)]
  BY <1>1 DEF IsStream
<1>3. /\ k + 1 \in 1 .. Len(s.units) /\ k \in 0 .. Len(s.units) /\ k + 1 \in 0 .. Len(s.units)
      /\ (k + 1) - 1 = k
  BY <1>2
<1>4. u \in Seq(Bytes)
  BY <1>2, <1>3, ElementOfSeq
<1>5. /\ Plain(u) \/ Escaped(u) \/ Offer(u) \/ Option(u) \/ Other(u)
      /\ s.start[k + 1] = s.start[k] + Len(u)
      /\ SubSeq(s.wire, s.start[k] + 1, s.start[k + 1]) = u
      /\ s.pay[k + 1] = s.pay[k] + Len(Payload(u))
      /\ SubSeq(s.payload, s.pay[k] + 1, s.pay[k + 1]) = Payload(u)
      /\ s.offers[k + 1] = s.offers[k] + (IF Answered(u) THEN 1 ELSE 0)
  BY <1>1, <1>3 DEF IsStream
<1>6. /\ s.start[k] \in 0 .. Len(s.wire) /\ s.start[k + 1] \in 0 .. Len(s.wire)
      /\ s.pay[k] \in 0 .. Len(s.payload) /\ s.pay[k + 1] \in 0 .. Len(s.payload)
      /\ Len(s.wire) \in Nat /\ Len(s.payload) \in Nat /\ Len(u) \in Nat
  <2>1. s.start[k] \in 0 .. Len(s.wire) /\ s.start[k + 1] \in 0 .. Len(s.wire)
    BY <1>2, <1>3, Zenon
  <2>2. s.pay[k] \in 0 .. Len(s.payload) /\ s.pay[k + 1] \in 0 .. Len(s.payload)
    BY <1>2, <1>3, Zenon
  <2>3. Len(s.wire) \in Nat /\ Len(s.payload) \in Nat /\ Len(u) \in Nat
    BY <1>2, <1>4, LenProperties, Zenon
  <2>4. QED
    BY <2>1, <2>2, <2>3
<1>7. ASSUME NEW j \in 1 .. Len(u) PROVE s.wire[s.start[k] + j] = u[j]
  <2>1. SubSeq(s.wire, s.start[k] + 1, s.start[k + 1])[j] = s.wire[s.start[k] + j]
    <3>. DEFINE a == s.start[k]
                b == s.start[k + 1]
    <3>1. a \in Nat /\ b \in 0 .. Len(s.wire) /\ Len(u) \in Nat /\ b = a + Len(u)
      BY <1>5, <1>6
    <3>. HIDE DEF a, b, u
    <3>2. j \in 1 .. b - a /\ a <= b
      BY <3>1
    <3>3. SubSeq(s.wire, a + 1, b)[j] = s.wire[a + j]
      BY <1>2, <3>1, <3>2, SubSeqAt
    <3>4. QED
      BY <3>3 DEF a, b
  <2>2. QED
    BY <2>1, <1>5
<1>8. SubSeq(s.payload, 1, s.pay[k]) \o Payload(u) = SubSeq(s.payload, 1, s.pay[k + 1])
  <2>1. s.pay[k] <= s.pay[k + 1]
    <3>1. Payload(u) \in Seq(Bytes)
      BY <1>4, BytesAssumption DEF Payload, Telnet
    <3>2. QED
      BY <1>5, <1>6, <3>1
  <2>2. SubSeq(s.payload, 1, s.pay[k]) \o SubSeq(s.payload, s.pay[k] + 1, s.pay[k + 1])
          = SubSeq(s.payload, 1, s.pay[k + 1])
    <3>. DEFINE a == s.pay[k]
                b == s.pay[k + 1]
    <3>1. a \in Nat /\ b \in 0 .. Len(s.payload) /\ a <= b
      BY <1>6, <2>1
    <3>. HIDE DEF a, b
    <3>2. SubSeq(s.payload, 1, a) \o SubSeq(s.payload, a + 1, b) = SubSeq(s.payload, 1, b)
      BY <1>2, <3>1, Adjacent
    <3>3. QED
      BY <3>2 DEF a, b
  <2>3. QED
    BY <1>5, <2>2
<1>9. s.start[k] \in Nat /\ s.start[k + 1] <= Len(s.wire)
  <2>. DEFINE a == s.start[k]
              b == s.start[k + 1]
              n == Len(s.wire)
  <2>1. a \in 0 .. n /\ b \in 0 .. n /\ n \in Nat
    BY <1>6
  <2>. HIDE DEF a, b, n
  <2>2. a \in Nat /\ b <= n
    BY <2>1
  <2>3. QED
    BY <2>2 DEF a, b, n
<1>10. QED
  BY <1>4, <1>5, <1>7, <1>8, <1>9, Zenon

-----------------------------------------------------------------------------
(***************************************************************************)
(* The decoder.  While the connection lasts it stands between two units.   *)
(***************************************************************************)
InputInv ==
  /\ sent \in Streams
  /\ here \in 0 .. Len(sent.wire) /\ at \in 0 .. here
  /\ filling \in BOOLEAN /\ eof \in BOOLEAN
  /\ filling => ~eof

\* The bytes to decode are a piece of the stream.
LEMMA DataAt ==
  ASSUME InputInv
  PROVE  /\ Data \in Seq(Bytes)
         /\ Len(Data) = here - at
         /\ \A j \in 1 .. Len(Data) : Data[j] = sent.wire[at + j]
<1>1. sent.wire \in Seq(Bytes)
  BY StreamsAssumption DEF InputInv, IsStream
<1>2. at \in Nat /\ here \in 0 .. Len(sent.wire) /\ at <= here
  BY <1>1 DEF InputInv
<1>3. QED
  BY <1>1, <1>2, SubSeqAt DEF Data

\* Where the decoder stands, and the unit that lies there.
LEMMA NextUnit ==
  ASSUME InputInv, DecodeIgnoresCuts, ~eof, Len(Data) >= 1
  PROVE  \E k \in 0 .. Len(sent.units) - 1 :
           /\ at = sent.start[k]
           /\ decoded = SubSeq(sent.payload, 1, sent.pay[k])
           /\ replies = sent.offers[k]
           /\ \A j \in 1 .. Len(Data) :
                j <= Len(sent.units[k + 1]) => Data[j] = sent.units[k + 1][j]
<1>1. PICK k \in 0 .. Len(sent.units) :
        /\ at = sent.start[k]
        /\ decoded = SubSeq(sent.payload, 1, sent.pay[k])
        /\ replies = sent.offers[k]
  BY DEF DecodeIgnoresCuts
<1>2. /\ sent.start[Len(sent.units)] = Len(sent.wire)
      /\ sent.units \in Seq(Seq(Bytes))
  BY StreamsAssumption DEF InputInv, IsStream
<1>3. at < here /\ here <= Len(sent.wire)
  BY DataAt DEF InputInv
<1>4. k # Len(sent.units)
  BY <1>1, <1>2, <1>3 DEF InputInv
<1>5. k \in 0 .. Len(sent.units) - 1
  BY <1>1, <1>2, <1>4
<1>6. ASSUME NEW j \in 1 .. Len(Data), j <= Len(sent.units[k + 1])
      PROVE  Data[j] = sent.units[k + 1][j]
  <2>1. Data[j] = sent.wire[at + j]
    BY DataAt
  <2>2. j \in 1 .. Len(sent.units[k + 1])
    BY <1>5, <1>6, DataAt, UnitAt, LenProperties DEF InputInv
  <2>3. sent.wire[sent.start[k] + j] = sent.units[k + 1][j]
    BY <1>5, <2>2, UnitAt DEF InputInv
  <2>4. QED
    BY <1>1, <2>1, <2>3
<1>7. QED
  BY <1>1, <1>5, <1>6

\* One turn of _fill's loop takes one whole unit.
LEMMA DecodeStep ==
  ASSUME InputInv, DecodeIgnoresCuts, Decode
  PROVE  InputInv' /\ DecodeIgnoresCuts'
<1>1. ~eof /\ UNCHANGED <<sent, here, filling, eof>>
  BY DEF Decode, InputInv
<1>2. Len(Data) >= 1
  BY DataAt DEF Decode, DecodePlain, DecodeEscaped, DecodeOffer, DecodeOption, DecodeOther
<1>3. PICK k \in 0 .. Len(sent.units) - 1 :
        /\ at = sent.start[k]
        /\ decoded = SubSeq(sent.payload, 1, sent.pay[k])
        /\ replies = sent.offers[k]
        /\ \A j \in 1 .. Len(Data) :
             j <= Len(sent.units[k + 1]) => Data[j] = sent.units[k + 1][j]
  BY <1>1, <1>2, NextUnit
<1>. DEFINE u == sent.units[k + 1]
<1>4. /\ u \in Seq(Bytes)
      /\ Plain(u) \/ Escaped(u) \/ Offer(u) \/ Option(u) \/ Other(u)
      /\ sent.start[k] \in Nat /\ sent.start[k + 1] = sent.start[k] + Len(u)
      /\ sent.start[k + 1] <= Len(sent.wire)
      /\ SubSeq(sent.payload, 1, sent.pay[k]) \o Payload(u)
           = SubSeq(sent.payload, 1, sent.pay[k + 1])
      /\ sent.offers[k + 1] = sent.offers[k] + (IF Answered(u) THEN 1 ELSE 0)
  BY <1>3, UnitAt DEF InputInv
<1>. HIDE DEF u
<1>5. /\ Len(u) \in 1 .. 5
      /\ u[1] # "iac" => Len(u) = 1 /\ Payload(u) = <<u[1]>> /\ ~Answered(u)
      /\ u[1] = "iac" => Len(u) >= 2
      /\ u[1] = "iac" /\ u[2] = "iac" =>
           Len(u) = 2 /\ Payload(u) = <<"iac">> /\ ~Answered(u)
      /\ u[1] = "iac" /\ u[2] \in Verbs =>
           /\ Len(u) = 3 /\ Payload(u) = <<>>
           /\ Answered(u) <=> u[2] \in {"will", "do"}
      /\ u[1] = "iac" /\ u[2] = "sb" =>
           /\ Len(u) = 5 /\ Payload(u) = <<>> /\ ~Answered(u)
           /\ u[3] # "iac" /\ u[4] = "iac" /\ u[5] = "se"
      /\ u[1] = "iac" /\ u[2] \notin Verbs \cup {"iac", "sb"} =>
           Len(u) = 2 /\ Payload(u) = <<>> /\ ~Answered(u)
  BY <1>4, UnitForms
<1>6. \A j \in 1 .. Len(Data) : j <= Len(u) => Data[j] = u[j]
  BY <1>3 DEF u
<1>7. Len(Data) \in Nat /\ Len(Data) = here - at
  BY DataAt DEF InputInv
<1>8. Data[1] = u[1] /\ (u[1] = "iac" /\ Len(Data) >= 2 => Data[2] = u[2])
  BY <1>2, <1>5, <1>6, <1>7
\* Whichever branch is taken, it takes u, and what it makes of it is its payload.
<1>9. Len(u) <= Len(Data) /\ Take(Len(u), Payload(u), IF Answered(u) THEN 1 ELSE 0)
  <2>1. CASE DecodePlain
    BY <2>1, <1>2, <1>5, <1>7, <1>8 DEF DecodePlain
  <2>2. CASE DecodeEscaped
    BY <2>2, <1>5, <1>7, <1>8 DEF DecodeEscaped
  <2>3. CASE DecodeOffer
    <3>1. Data[1] = "iac" /\ Data[2] \in Verbs /\ Len(Data) >= 3
      BY <2>3 DEF DecodeOffer
    <3>2. u[1] = "iac" /\ u[2] = Data[2]
      BY <3>1, <1>7, <1>8
    <3>3. Len(u) = 3 /\ Payload(u) = <<>> /\ (Answered(u) <=> Data[2] \in {"will", "do"})
      BY <3>1, <3>2, <1>5
    <3>4. (IF Data[2] \in {"will", "do"} THEN 1 ELSE 0) = (IF Answered(u) THEN 1 ELSE 0)
      BY <3>3
    <3>5. Take(3, <<>>, IF Answered(u) THEN 1 ELSE 0)
      BY <2>3, <3>4 DEF DecodeOffer
    <3>6. QED
      BY <3>1, <3>3, <3>5
  <2>4. CASE DecodeOption
    <3>1. u[1] = "iac" /\ u[2] = "sb" /\ Len(u) = 5
      BY <2>4, <1>5, <1>7, <1>8 DEF DecodeOption
    <3>2. PICK j \in Ends : (\A i \in Ends : j <= i) /\ Take(j + 1, <<>>, 0)
      BY <2>4 DEF DecodeOption
    <3>3. j \in 3 .. Len(Data) - 1 /\ Data[j] = "iac"
      BY <3>2 DEF Ends
    <3>4. j # 3
      BY <3>1, <3>3, <1>5, <1>6, <1>7
    <3>5. Len(Data) >= 5
      BY <3>3, <3>4, <1>7
    <3>6. Data[4] = "iac" /\ Data[5] = "se"
      BY <3>1, <3>5, <1>5, <1>6, <1>7
    <3>7. 4 \in Ends
      BY <3>5, <3>6, <1>7 DEF Ends
    <3>8. j = 4
      BY <3>2, <3>3, <3>4, <3>7, <1>7
    <3>9. QED
      BY <3>1, <3>2, <3>5, <3>8, <1>5
  <2>5. CASE DecodeOther
    BY <2>5, <1>5, <1>7, <1>8 DEF DecodeOther
  <2>6. QED
    BY <2>1, <2>2, <2>3, <2>4, <2>5 DEF Decode
<1>10. at' \in 0 .. here'
  BY <1>1, <1>5, <1>7, <1>9 DEF Take, InputInv
<1>11. InputInv'
  BY <1>1, <1>10 DEF InputInv
<1>12. /\ at' = sent'.start[k + 1]
       /\ decoded' = SubSeq(sent'.payload, 1, sent'.pay[k + 1])
       /\ replies' = sent'.offers[k + 1]
  BY <1>1, <1>3, <1>4, <1>9 DEF Take
<1>13. k + 1 \in 0 .. Len(sent'.units)
  <2>1. Len(sent.units) \in Nat
    BY StreamsAssumption DEF InputInv, IsStream
  <2>2. QED
    BY <2>1, <1>1, <1>3
<1>14. QED
  BY <1>11, <1>12, <1>13 DEF DecodeIgnoresCuts

\* Every step keeps what is said of the decoder.
LEMMA InputStep == InputInv /\ DecodeIgnoresCuts /\ [Next]_vars => InputInv' /\ DecodeIgnoresCuts'
<1>. SUFFICES ASSUME InputInv, DecodeIgnoresCuts, [Next]_vars
              PROVE  InputInv' /\ DecodeIgnoresCuts'
  OBVIOUS
<1>1. CASE Decode
  BY <1>1, DecodeStep
<1>2. CASE Recv
  <2>1. Len(sent.wire) \in Nat
    BY StreamsAssumption DEF InputInv, IsStream
  <2>2. InputInv'
    BY <1>2, <2>1 DEF Recv, Waiting, InputInv
  <2>3. QED
    BY <1>2, <2>2 DEF Recv, DecodeIgnoresCuts
<1>3. CASE Close
  BY <1>3 DEF Close, Waiting, InputInv, DecodeIgnoresCuts
<1>4. CASE FillEnds
  BY <1>4 DEF FillEnds, InputInv, DecodeIgnoresCuts
<1>5. CASE ReadLine \/ LastLine \/ Extract
  <2>1. UNCHANGED input /\ ~filling
    BY <1>5 DEF ReadLine, LastLine, Extract
  <2>2. eof' \in {eof, TRUE}
    BY <1>5 DEF ReadLine, LastLine, Extract, Command, TarReads, TarDone, TarFails
  <2>3. QED
    BY <2>1, <2>2 DEF input, InputInv, DecodeIgnoresCuts
<1>6. CASE UNCHANGED vars
  BY <1>6 DEF vars, InputInv, DecodeIgnoresCuts
<1>7. QED
  BY <1>1, <1>2, <1>3, <1>4, <1>5, <1>6 DEF Next, Agent, Network

\* At the start nothing is received or decoded.
LEMMA InputInit == Init => InputInv /\ DecodeIgnoresCuts
<1>. SUFFICES ASSUME Init PROVE InputInv /\ DecodeIgnoresCuts
  OBVIOUS
<1>1. IsStream(sent)
  BY StreamsAssumption DEF Init
<1>2. /\ sent.start[0] = 0 /\ sent.pay[0] = 0 /\ sent.offers[0] = 0
      /\ Len(sent.units) \in Nat /\ Len(sent.wire) \in Nat
  BY <1>1 DEF IsStream
<1>3. SubSeq(sent.payload, 1, 0) = <<>>
  BY SubSeqEmpty
<1>4. 0 \in 0 .. Len(sent.units) /\ 0 \in 0 .. Len(sent.wire)
  BY <1>2
<1>5. InputInv
  <2>1. here = 0 /\ at = 0 /\ ~filling /\ ~eof
    BY DEF Init
  <2>2. here \in 0 .. Len(sent.wire) /\ at \in 0 .. here
    BY <1>4, <2>1
  <2>3. sent \in Streams /\ filling \in BOOLEAN /\ eof \in BOOLEAN
    BY DEF Init
  <2>4. QED
    BY <2>1, <2>2, <2>3, Zenon DEF InputInv
<1>6. at = sent.start[0] /\ decoded = SubSeq(sent.payload, 1, sent.pay[0]) /\ replies = sent.offers[0]
  BY <1>2, <1>3 DEF Init
<1>7. QED
  BY <1>4, <1>5, <1>6 DEF DecodeIgnoresCuts

\* The decoder takes whole units and gives their payload, wherever recv cuts the
\* stream.
THEOREM DecodeFaithful == Spec => []DecodeIgnoresCuts
<1>1. InputInv /\ DecodeIgnoresCuts /\ [Next]_vars => (InputInv /\ DecodeIgnoresCuts)'
  BY InputStep
<1>2. QED
  BY InputInit, <1>1, PTL DEF Spec

-----------------------------------------------------------------------------
(***************************************************************************)
(* Types.                                                                  *)
(***************************************************************************)
LEMMA BufAt ==
  ASSUME TypeOK
  PROVE  /\ Buf \in Seq(Bytes)
         /\ Len(Buf) = Len(decoded) - taken
         /\ \A j \in 1 .. Len(Buf) : Buf[j] = decoded[taken + j]
<1>1. decoded \in Seq(Bytes) /\ taken \in Nat /\ Len(decoded) \in Nat /\ taken <= Len(decoded)
  BY DEF TypeOK
<1>2. QED
  BY <1>1, SubSeqAt DEF Buf

\* A line is part of what was read.
LEMMA StrippedOf ==
  ASSUME NEW s \in Seq(Bytes), NEW line \in Stripped(s)
  PROVE  /\ line \in Seq(Bytes)
         /\ line = <<"tar">> => \E i \in 1 .. Len(s) : s[i] = "tar"
<1>1. CASE Kept(s) = {}
  BY <1>1 DEF Stripped
<1>2. CASE Kept(s) # {}
  <2>1. PICK i \in Kept(s), j \in Kept(s) : line = SubSeq(s, i, j) /\ i <= j
    BY <1>2 DEF Stripped
  <2>2. i \in 1 .. Len(s) /\ j \in 1 .. Len(s)
    BY <2>1 DEF Kept
  <2>3. line \in Seq(Bytes) /\ Len(line) = j - i + 1 /\ line[1] = s[i]
    BY <2>1, <2>2
  <2>4. QED
    BY <2>2, <2>3
<1>3. QED
  BY <1>1, <1>2

\* Every command keeps the types.
LEMMA CommandType ==
  ASSUME TypeOK, NEW line \in Seq(Bytes), Command(line), UNCHANGED sent
  PROVE  /\ eof' \in BOOLEAN /\ marker' \in BOOLEAN /\ failed' \in BOOLEAN
         /\ pc' \in {"line", "tar", "closed"}
         /\ tar' \in Seq(Bytes) /\ Len(tar') <= Len(sent'.archive)
         /\ executed' \in Seq(Seq(Bytes))
<1>1. sent.archive \in Seq(Bytes)
  BY StreamsAssumption DEF TypeOK, IsStream
<1>2. Len(tar') <= Len(sent'.archive) /\ tar' \in Seq(Bytes)
  <2>1. tar' = tar \/ tar' = <<>>
    BY DEF Command
  <2>2. tar \in Seq(Bytes) /\ Len(tar) <= Len(sent.archive) /\ Len(sent.archive) \in Nat
    BY <1>1 DEF TypeOK, ArchiveSize
  <2>3. <<>> \in Seq(Bytes) /\ Len(<<>>) = 0
    BY EmptySeq
  <2>4. CASE tar' = tar
    BY <2>2, <2>4
  <2>5. CASE tar' = <<>>
    BY <2>2, <2>3, <2>5
  <2>6. QED
    BY <2>1, <2>4, <2>5
<1>3. pc' \in {"line", "tar", "closed"}
  BY DEF Command, Served
<1>4. executed' \in Seq(Seq(Bytes))
  <2>1. executed' = executed \/ executed' = Append(executed, line)
    BY DEF Command
  <2>2. executed \in Seq(Seq(Bytes))
    BY DEF TypeOK
  <2>. DEFINE S == Seq(Bytes)
  <2>3. executed \in Seq(S) /\ line \in S
    BY <2>2
  <2>. HIDE DEF S
  <2>4. Append(executed, line) \in Seq(S)
    BY <2>3, AppendProperties
  <2>5. executed' \in Seq(S)
    BY <2>1, <2>3, <2>4
  <2>6. QED
    BY <2>5 DEF S
<1>5. eof' \in BOOLEAN /\ marker' \in BOOLEAN /\ failed' \in BOOLEAN
  BY Zenon DEF Command, TypeOK
<1>6. QED
  BY <1>2, <1>3, <1>4, <1>5

\* Every turn of the decoder keeps the types.
LEMMA DecodeType ==
  ASSUME TypeOK, InputInv, DecodeIgnoresCuts, Decode
  PROVE  TypeOK'
<1>1. InputInv' /\ DecodeIgnoresCuts' /\ ~eof' /\ UNCHANGED <<sent, here>>
  BY DecodeStep DEF Decode, InputInv
<1>2. decoded' \in Seq(Bytes) /\ Len(decoded') >= Len(decoded)
  <2>1. PICK out \in Seq(Bytes) : decoded' = decoded \o out
    <3>1. "iac" \in Bytes
      BY BytesAssumption DEF Telnet
    <3>2. Len(Data) >= 1 => Data[1] \in Bytes
      BY DataAt, ElementOfSeq
    <3>3. \E out \in {<<Data[1]>>, <<"iac">>, <<>>} :
            decoded' = decoded \o out /\ (out = <<Data[1]>> => Len(Data) >= 1)
      <4>1. CASE DecodePlain
        BY <4>1 DEF DecodePlain, Take
      <4>2. CASE DecodeEscaped
        BY <4>2, DataAt DEF DecodeEscaped, Take
      <4>3. CASE DecodeOffer \/ DecodeOption \/ DecodeOther
        <5>1. decoded' = decoded \o <<>>
          BY <4>3 DEF DecodeOffer, DecodeOption, DecodeOther, Take
        <5>2. <<>> # <<Data[1]>>
          OBVIOUS
        <5>3. QED
          BY <5>1, <5>2
      <4>4. QED
        BY <4>1, <4>2, <4>3 DEF Decode
    <3>4. PICK out \in {<<Data[1]>>, <<"iac">>, <<>>} :
            decoded' = decoded \o out /\ (out = <<Data[1]>> => Len(Data) >= 1)
      BY <3>3
    <3>5. out \in Seq(Bytes)
      <4>1. CASE out = <<Data[1]>>
        BY <4>1, <3>2, <3>4
      <4>2. CASE out = <<"iac">>
        BY <4>2, <3>1
      <4>3. CASE out = <<>>
        BY <4>3, EmptySeq
      <4>4. QED
        BY <3>4, <4>1, <4>2, <4>3
    <3>6. QED
      BY <3>4, <3>5
  <2>2. QED
    BY <2>1 DEF TypeOK
<1>3. replies' \in 0 .. Len(sent'.units)
  <2>1. IsStream(sent')
    BY <1>1, StreamsAssumption DEF InputInv
  <2>2. PICK k \in 0 .. Len(sent'.units) : replies' = sent'.offers[k]
    BY <1>1 DEF DecodeIgnoresCuts
  <2>3. QED
    BY <2>1, <2>2, Zenon DEF IsStream
<1>4. taken' \in 0 .. Len(decoded')
  BY <1>2 DEF Decode, TypeOK
<1>5. QED
  BY <1>1, <1>2, <1>3, <1>4 DEF Decode, TypeOK, InputInv, ArchiveSize

\* Every step keeps the types.
LEMMA TypeStep ==
  ASSUME TypeOK, InputInv, DecodeIgnoresCuts, [Next]_vars
  PROVE  TypeOK'
<1>1. InputInv'
  BY InputStep
<1>2. CASE Decode
  BY <1>2, DecodeType
<1>3. CASE Recv
  BY <1>1, <1>3 DEF Recv, TypeOK, InputInv, ArchiveSize
<1>4. CASE Close
  <2>1. decoded' \in Seq(Bytes) /\ Len(decoded') >= Len(decoded)
    <3>1. decoded \in Seq(Bytes) /\ Data \in Seq(Bytes)
      BY DataAt DEF TypeOK
    <3>2. decoded' = decoded \/ decoded' = decoded \o Data
      BY <1>4 DEF Close
    <3>3. QED
      <4>1. /\ decoded \o Data \in Seq(Bytes)
            /\ Len(decoded \o Data) = Len(decoded) + Len(Data)
            /\ Len(decoded) \in Nat /\ Len(Data) \in Nat
        BY <3>1, ConcatAt
      <4>2. CASE decoded' = decoded
        BY <3>1, <4>1, <4>2
      <4>3. CASE decoded' = decoded \o Data
        BY <4>1, <4>3
      <4>4. QED
        BY <3>2, <4>2, <4>3
  <2>2. taken' \in 0 .. Len(decoded')
    BY <1>4, <2>1 DEF Close, TypeOK
  <2>3. QED
    BY <1>1, <1>4, <2>1, <2>2 DEF Close, TypeOK, InputInv, ArchiveSize
<1>5. CASE FillEnds
  BY <1>1, <1>5 DEF FillEnds, TypeOK, InputInv, ArchiveSize
<1>6. CASE ReadLine
  <2>1. PICK p \in 1 .. Len(Buf) :
          /\ taken' = taken + Skip(p)
          /\ \E line \in Stripped(SubSeq(Buf, 1, p - 1)) : Command(line)
    BY <1>6 DEF ReadLine
  <2>2. SubSeq(Buf, 1, p - 1) \in Seq(Bytes)
    BY <2>1, BufAt
  <2>3. PICK line \in Seq(Bytes) : Command(line)
    BY <2>1, <2>2, StrippedOf
  <2>4. UNCHANGED <<sent, here, at, decoded, filling, replies>>
    BY <1>6 DEF ReadLine, input
  <2>5. taken' \in 0 .. Len(decoded')
    BY <2>1, <2>4, BufAt DEF Skip, TypeOK
  <2>6. QED
    BY <1>1, <2>3, <2>4, <2>5, CommandType DEF TypeOK, InputInv, ArchiveSize
<1>7. CASE LastLine
  <2>1. UNCHANGED <<sent, here, at, decoded, filling, replies>> /\ Command(Buf)
    BY <1>7 DEF LastLine, input
  <2>2. taken' \in 0 .. Len(decoded')
    BY <1>7, <2>1 DEF LastLine, TypeOK
  <2>3. QED
    BY <1>1, <2>1, <2>2, BufAt, CommandType DEF TypeOK, InputInv, ArchiveSize
<1>8. CASE Extract
  <2>1. UNCHANGED <<sent, here, at, decoded, filling, replies, executed>>
    BY <1>8 DEF Extract, input
  <2>2. pc' \in {"line", "tar", "closed"}
    BY <1>8 DEF Extract, TarReads, TarDone, TarFails, Served
  <2>3. eof' \in BOOLEAN /\ marker' \in BOOLEAN /\ failed' \in BOOLEAN
    BY <1>8 DEF Extract, TarReads, TarDone, TarFails, TypeOK
  <2>4. taken' \in 0 .. Len(decoded')
    <3>1. taken' = Len(decoded) \/ (Len(Buf) >= Record /\ taken' = taken + Record)
      BY <1>8 DEF Extract, TarReads, TarDone, TarFails
    <3>2. Len(Buf) = Len(decoded) - taken /\ taken \in Nat /\ Len(decoded) \in Nat
      BY BufAt DEF TypeOK
    <3>3. QED
      BY <2>1, <3>1, <3>2, RecordAssumption
  <2>5. tar' \in Seq(Bytes) /\ Len(tar') <= Len(sent'.archive)
    <3>1. Len(Buf) >= Record => NextRecord \in Seq(Bytes) /\ Len(NextRecord) = Record
      BY BufAt, RecordAssumption DEF NextRecord
    <3>2. \/ tar' = tar
          \/ Len(Buf) >= Record /\ tar' = tar \o NextRecord /\ Len(tar) + Record <= Len(sent.archive)
      <4>1. Len(tar) + Record < Len(sent.archive) => Len(tar) + Record <= Len(sent.archive)
        BY RecordAssumption, StreamsAssumption DEF TypeOK, IsStream
      <4>2. Len(tar) + Record = Len(sent.archive) => Len(tar) + Record <= Len(sent.archive)
        BY RecordAssumption, StreamsAssumption DEF TypeOK, IsStream
      <4>3. QED
        BY <1>8, <4>1, <4>2 DEF Extract, TarReads, TarDone, TarFails, ArchiveSize
    <3>3. tar \in Seq(Bytes) /\ Len(tar) <= Len(sent.archive)
      BY DEF TypeOK, ArchiveSize
    <3>4. QED
      <4>1. CASE tar' = tar
        BY <2>1, <3>3, <4>1
      <4>2. CASE /\ Len(Buf) >= Record /\ tar' = tar \o NextRecord
                 /\ Len(tar) + Record <= Len(sent.archive)
        <5>1. /\ tar \o NextRecord \in Seq(Bytes)
              /\ Len(tar \o NextRecord) = Len(tar) + Record
          BY <3>1, <3>3, <4>2, ConcatAt
        <5>2. QED
          BY <2>1, <4>2, <5>1
      <4>3. QED
        BY <3>2, <4>1, <4>2
  <2>6. QED
    BY <1>1, <2>1, <2>2, <2>3, <2>4, <2>5 DEF TypeOK, InputInv, ArchiveSize
<1>9. CASE UNCHANGED vars
  BY <1>1, <1>9 DEF vars, TypeOK, InputInv, ArchiveSize
<1>10. QED
  BY <1>2, <1>3, <1>4, <1>5, <1>6, <1>7, <1>8, <1>9 DEF Next, Agent, Network

\* The types at the start.
LEMMA TypeInit == Init => TypeOK
<1>. SUFFICES ASSUME Init PROVE TypeOK
  OBVIOUS
<1>1. InputInv
  BY InputInit
<1>2. Len(sent.units) \in Nat /\ Len(sent.archive) \in Nat
  BY StreamsAssumption DEF InputInv, IsStream
<1>3. taken \in 0 .. Len(decoded) /\ replies \in 0 .. Len(sent.units) /\ Len(tar) <= ArchiveSize
  BY <1>2 DEF Init, ArchiveSize
<1>4. decoded \in Seq(Bytes) /\ tar \in Seq(Bytes) /\ executed \in Seq(Seq(Bytes))
  BY EmptySeq DEF Init
<1>5. marker \in BOOLEAN /\ failed \in BOOLEAN /\ pc \in {"line", "tar", "closed"}
  BY DEF Init
<1>6. QED
  BY <1>1, <1>3, <1>4, <1>5, Zenon DEF InputInv, TypeOK

\* No count runs ahead of what it counts.
THEOREM TypeCorrect == Spec => []TypeOK
<1>1. TypeOK /\ InputInv /\ DecodeIgnoresCuts /\ [Next]_vars
        => (TypeOK /\ InputInv /\ DecodeIgnoresCuts)'
  BY TypeStep, InputStep
<1>2. QED
  BY TypeInit, InputInit, <1>1, PTL DEF Spec

-----------------------------------------------------------------------------
(***************************************************************************)
(* The archive.  While the connection lasts tarfile reads the payload from *)
(* behind the command's line, or from its LF when that came late, and then *)
(* the first header is refused.                                            *)
(***************************************************************************)
TarInv ==
  /\ MarkerMeansWhole
  /\ pc = "tar" => ~marker
  /\ pc = "tar" /\ ~eof =>
       /\ sent.archive # <<>>
       /\ tar = SubSeq(sent.archive, 1, Len(tar))
       /\ \/ Len(tar) = 0 /\ taken \in {2, 3}
          \/ Len(tar) > 0 /\ taken = 3 + Len(tar)

IInv == TypeOK /\ InputInv /\ DecodeIgnoresCuts /\ TarInv

\* While the connection lasts, what is decoded is a front of what was meant.
LEMMA Prefix ==
  ASSUME IInv, ~eof
  PROVE  /\ Len(decoded) <= Len(sent.payload)
         /\ \A i \in 1 .. Len(decoded) : decoded[i] = sent.payload[i]
<1>1. IsStream(sent)
  BY StreamsAssumption DEF IInv, TypeOK
<1>2. PICK k \in 0 .. Len(sent.units) : decoded = SubSeq(sent.payload, 1, sent.pay[k])
  BY DEF IInv, DecodeIgnoresCuts
<1>3. sent.payload \in Seq(Bytes) /\ sent.pay[k] \in 0 .. Len(sent.payload)
  BY <1>1, <1>2, Zenon DEF IsStream
<1>. DEFINE b == sent.pay[k]
<1>4. b \in 0 .. Len(sent.payload) /\ 0 \in Nat /\ 0 <= b
  BY <1>3
<1>. HIDE DEF b
<1>5. /\ Len(SubSeq(sent.payload, 0 + 1, b)) = b - 0
      /\ \A j \in 1 .. b - 0 : SubSeq(sent.payload, 0 + 1, b)[j] = sent.payload[0 + j]
  BY <1>3, <1>4, SubSeqAt
<1>6. decoded = SubSeq(sent.payload, 0 + 1, b)
  BY <1>2 DEF b
<1>7. b \in Nat /\ b <= Len(sent.payload)
  BY <1>3, <1>4
<1>8. QED
  BY <1>5, <1>6, <1>7

\* The payload of a push, byte by byte.
LEMMA PushPayload ==
  ASSUME IInv, sent.archive # <<>>
  PROVE  /\ sent.archive \in Seq(Bytes) /\ ArchiveSize \in Nat \ {0}
         /\ sent.payload[1] = "tar" /\ sent.payload[2] = "cr" /\ sent.payload[3] = "lf"
         /\ \A i \in 1 .. ArchiveSize : sent.payload[3 + i] = sent.archive[i]
         /\ sent.archive[1] \notin {"lf", "nul"}
<1>1. IsStream(sent)
  BY StreamsAssumption DEF IInv, TypeOK
<1>2. /\ sent.archive \in Seq(Bytes) /\ sent.archive[1] \notin {"lf", "nul"}
      /\ sent.payload = <<"tar", "cr", "lf">> \o (sent.archive \o sent.rest)
      /\ sent.rest \in Seq(Bytes)
  BY <1>1 DEF IsStream, Meant
<1>. DEFINE head == <<"tar", "cr", "lf">>
            arch == sent.archive
            tail == sent.archive \o sent.rest
            S == {"tar", "cr", "lf"} \cup Bytes
<1>3. head \in Seq(S) /\ Len(head) = 3 /\ head[1] = "tar" /\ head[2] = "cr" /\ head[3] = "lf"
  OBVIOUS
<1>4. /\ tail \in Seq(Bytes) /\ Len(arch) \in Nat /\ Len(sent.rest) \in Nat
      /\ Len(tail) = Len(arch) + Len(sent.rest)
      /\ \A i \in 1 .. Len(arch) : tail[i] = arch[i]
  <2>1. arch \in Seq(Bytes) /\ sent.rest \in Seq(Bytes) /\ tail = arch \o sent.rest
    BY <1>2
  <2>. HIDE DEF arch, tail
  <2>2. QED
    BY <2>1, ConcatAt
<1>5. arch # <<>> /\ Len(arch) \in Nat \ {0}
  BY <1>2, EmptySeq
<1>6. sent.payload = head \o tail /\ tail \in Seq(S)
  BY <1>2, <1>4
<1>. HIDE DEF head, arch, tail, S
<1>7. /\ \A i \in 1 .. Len(head) : (head \o tail)[i] = head[i]
      /\ \A i \in 1 .. Len(tail) : (head \o tail)[Len(head) + i] = tail[i]
  <2>1. head \in Seq(S) /\ tail \in Seq(S)
    BY <1>3, <1>6
  <2>2. QED
    BY <2>1, ConcatAt
<1>8. sent.payload[1] = "tar" /\ sent.payload[2] = "cr" /\ sent.payload[3] = "lf"
  <2>1. 1 \in 1 .. Len(head) /\ 2 \in 1 .. Len(head) /\ 3 \in 1 .. Len(head)
    BY <1>3
  <2>2. QED
    BY <1>3, <1>6, <1>7, <2>1
<1>9. ASSUME NEW i \in 1 .. Len(arch) PROVE sent.payload[3 + i] = arch[i]
  <2>1. i \in 1 .. Len(tail)
    BY <1>4
  <2>2. QED
    BY <1>3, <1>4, <1>6, <1>7, <2>1
<1>10. QED
  BY <1>2, <1>5, <1>8, <1>9 DEF arch, ArchiveSize

\* Behind the archive come zeros.
LEMMA PushRest ==
  ASSUME IInv, sent.archive # <<>>, NEW i \in 3 + ArchiveSize + 1 .. Len(sent.payload)
  PROVE  sent.payload[i] = "nul"
<1>1. IsStream(sent)
  BY StreamsAssumption DEF IInv, TypeOK
<1>2. /\ sent.archive \in Seq(Bytes) /\ sent.rest \in Seq(Bytes)
      /\ sent.payload = <<"tar", "cr", "lf">> \o (sent.archive \o sent.rest)
      /\ \A j \in 1 .. Len(sent.rest) : sent.rest[j] = "nul"
  BY <1>1 DEF IsStream, Meant
<1>. DEFINE head == <<"tar", "cr", "lf">>
            arch == sent.archive
            rest == sent.rest
            tail == arch \o rest
            S == {"tar", "cr", "lf"} \cup Bytes
            j == i - (3 + Len(arch))
<1>3. head \in Seq(S) /\ Len(head) = 3 /\ arch \in Seq(S) /\ rest \in Seq(S)
  BY <1>2
<1>4. sent.payload = head \o tail /\ i \in 3 + Len(arch) + 1 .. Len(sent.payload)
  BY <1>2 DEF ArchiveSize
<1>5. \A n \in 1 .. Len(rest) : rest[n] = "nul"
  BY <1>2
<1>. HIDE DEF head, arch, rest, S
<1>6. /\ tail \in Seq(S) /\ Len(tail) = Len(arch) + Len(rest)
      /\ Len(arch) \in Nat /\ Len(rest) \in Nat
      /\ \A n \in 1 .. Len(rest) : tail[Len(arch) + n] = rest[n]
  BY <1>3, ConcatAt
<1>. HIDE DEF tail
<1>7. /\ Len(head \o tail) = Len(head) + Len(tail)
      /\ \A n \in 1 .. Len(tail) : (head \o tail)[Len(head) + n] = tail[n]
  <2>1. head \in Seq(S) /\ tail \in Seq(S)
    BY <1>3, <1>6
  <2>2. QED
    BY <2>1, ConcatAt
<1>8. j \in 1 .. Len(rest) /\ Len(arch) + j \in 1 .. Len(tail) /\ 3 + (Len(arch) + j) = i
  BY <1>3, <1>4, <1>6, <1>7
<1>9. sent.payload[i] = tail[Len(arch) + j]
  BY <1>3, <1>4, <1>7, <1>8
<1>10. QED
  BY <1>5, <1>6, <1>8, <1>9

\* What lies in the buffer while the connection lasts: the payload from behind
\* what was taken.
LEMMA Ahead ==
  ASSUME IInv, ~eof
  PROVE  /\ Buf \in Seq(Bytes) /\ Len(Buf) \in Nat /\ taken \in Nat
         /\ Len(sent.payload) \in Nat /\ taken + Len(Buf) <= Len(sent.payload)
         /\ \A j \in 1 .. Len(Buf) : Buf[j] = sent.payload[taken + j]
<1>1. IsStream(sent) /\ TypeOK
  BY StreamsAssumption DEF IInv, TypeOK
<1>2. /\ Buf \in Seq(Bytes) /\ Len(Buf) = Len(decoded) - taken
      /\ \A j \in 1 .. Len(Buf) : Buf[j] = decoded[taken + j]
      /\ Len(Buf) \in Nat /\ taken \in Nat /\ Len(decoded) \in Nat
  BY <1>1, BufAt, LenProperties DEF TypeOK
<1>3. Len(sent.payload) \in Nat
  BY <1>1 DEF IsStream
<1>4. /\ Len(decoded) <= Len(sent.payload)
      /\ \A i \in 1 .. Len(decoded) : decoded[i] = sent.payload[i]
  BY Prefix
<1>5. ASSUME NEW j \in 1 .. Len(Buf) PROVE Buf[j] = sent.payload[taken + j]
  BY <1>2, <1>4
<1>6. QED
  BY <1>2, <1>3, <1>4, <1>5

\* A line without its line end.
LEMMA StripLine ==
  ASSUME NEW s \in Seq(Bytes), NEW n \in 1 .. Len(s),
         \A i \in 1 .. n : s[i] \notin {"cr", "lf"},
         \A i \in n + 1 .. Len(s) : s[i] \in {"cr", "lf"}
  PROVE  Stripped(s) = {SubSeq(s, 1, n)}
<1>1. Kept(s) = 1 .. n
  BY DEF Kept
<1>2. n \in Nat /\ 1 \in Kept(s) /\ n \in Kept(s)
  BY <1>1, LenProperties
<1>3. /\ {i \in Kept(s) : \A m \in Kept(s) : i <= m} = {1}
      /\ {j \in Kept(s) : \A m \in Kept(s) : m <= j} = {n}
  BY <1>1, <1>2
<1>4. Kept(s) # {}
  BY <1>2
<1>5. QED
  <2>. DEFINE I == {i \in Kept(s) : \A m \in Kept(s) : i <= m}
              J == {j \in Kept(s) : \A m \in Kept(s) : m <= j}
  <2>1. Stripped(s) = {SubSeq(s, i, j) : i \in I, j \in J}
    BY <1>4 DEF Stripped
  <2>2. I = {1} /\ J = {n}
    BY <1>3
  <2>. HIDE DEF I, J
  <2>3. QED
    BY <2>1, <2>2

\* A whole line that lies ahead is taken off as it is, with its CR, and with its LF
\* if that has come.
LEMMA LineAhead ==
  ASSUME IInv, ~eof, NEW line \in Seq(Bytes), NEW m \in Nat \ {0}, m = Len(line),
         \A i \in 1 .. m : line[i] \notin {"cr", "lf"},
         \A i \in 1 .. m : sent.payload[taken + i] = line[i],
         sent.payload[taken + m + 1] = "cr", sent.payload[taken + m + 2] = "lf",
         taken + m + 3 <= Len(sent.payload) =>
           sent.payload[taken + m + 3] \notin {"lf", "nul"},
         NEW p \in 1 .. Len(Buf), Separator(p)
  PROVE  Stripped(SubSeq(Buf, 1, p - 1)) = {line} /\ Skip(p) \in {m + 1, m + 2}
<1>1. /\ Buf \in Seq(Bytes) /\ Len(Buf) \in Nat /\ taken \in Nat
      /\ Len(sent.payload) \in Nat /\ taken + Len(Buf) <= Len(sent.payload)
      /\ \A j \in 1 .. Len(Buf) : Buf[j] = sent.payload[taken + j]
  BY Ahead
<1>2. ASSUME NEW j \in 1 .. m, j <= Len(Buf) PROVE Buf[j] = line[j] /\ Buf[j] \notin {"cr", "lf"}
  <2>1. j \in 1 .. Len(Buf)
    BY <1>1, <1>2
  <2>2. QED
    BY <1>1, <2>1
<1>3. m + 1 <= Len(Buf) => Buf[m + 1] = "cr"
  <2>1. taken + (m + 1) = taken + m + 1
    BY <1>1
  <2>2. QED
    BY <1>1, <2>1
<1>4. m + 2 <= Len(Buf) => Buf[m + 2] = "lf"
  <2>1. taken + (m + 2) = taken + m + 2
    BY <1>1
  <2>2. QED
    BY <1>1, <2>1
<1>5. m + 3 <= Len(Buf) => Buf[m + 3] \notin {"lf", "nul"}
  <2>1. taken + (m + 3) = taken + m + 3
    BY <1>1
  <2>2. SUFFICES ASSUME m + 3 <= Len(Buf) PROVE Buf[m + 3] = sent.payload[taken + m + 3]
    BY <1>1
  <2>3. m + 3 \in 1 .. Len(Buf)
    BY <1>1, <2>2
  <2>4. QED
    BY <1>1, <2>1, <2>3
<1>6. Buf[p] \in {"cr", "lf"}
  BY DEF Separator, Find
<1>7. p >= m + 1
  BY <1>2, <1>6
<1>8. \/ p = m + 2 /\ Skip(p) = m + 2
      \/ p = m + 1 /\ Skip(p) = m + 1
  <2>1. CASE Find("lf", p)
    <3>1. p # m + 1
      BY <1>3, <2>1 DEF Find
    <3>2. ~(p > m + 2)
      <4>1. SUFFICES ASSUME p > m + 2 PROVE FALSE
        OBVIOUS
      <4>2. m + 2 \in 1 .. p - 1 /\ m + 2 <= Len(Buf)
        BY <1>1, <4>1
      <4>3. QED
        BY <1>4, <2>1, <4>2 DEF Find
    <3>3. p = m + 2
      BY <1>1, <1>7, <3>1, <3>2
    <3>4. ~(p < Len(Buf) /\ Buf[p + 1] \in {"lf", "nul"})
      <4>1. p + 1 = m + 3 /\ (p < Len(Buf) => m + 3 <= Len(Buf))
        BY <1>1, <3>3
      <4>2. QED
        BY <1>5, <4>1
    <3>5. QED
      BY <3>3, <3>4 DEF Skip
  <2>2. CASE Lacks("lf") /\ Find("cr", p)
    <3>1. Len(Buf) < m + 2
      <4>1. SUFFICES ASSUME m + 2 <= Len(Buf) PROVE FALSE
        BY <1>1
      <4>2. m + 2 \in 1 .. Len(Buf)
        BY <1>1, <4>1
      <4>3. QED
        BY <1>4, <2>2, <4>1, <4>2 DEF Lacks
    <3>2. p = m + 1 /\ ~(p < Len(Buf))
      BY <1>1, <1>7, <3>1
    <3>3. QED
      BY <3>2 DEF Skip
  <2>3. QED
    BY <2>1, <2>2 DEF Separator
<1>. DEFINE s == SubSeq(Buf, 1, p - 1)
<1>9. s \in Seq(Bytes) /\ Len(s) = p - 1 /\ \A j \in 1 .. p - 1 : s[j] = Buf[j]
  BY <1>1
<1>10. m \in 1 .. Len(s)
  BY <1>7, <1>9
<1>11. \A i \in 1 .. m : s[i] = line[i] /\ s[i] \notin {"cr", "lf"}
  <2>1. ASSUME NEW i \in 1 .. m PROVE i \in 1 .. p - 1 /\ i <= Len(Buf)
    BY <1>1, <1>7
  <2>2. QED
    BY <1>2, <1>9, <2>1
<1>12. \A i \in m + 1 .. Len(s) : s[i] \in {"cr", "lf"}
  <2>1. SUFFICES ASSUME NEW i \in m + 1 .. Len(s) PROVE s[i] = "cr"
    BY Zenon
  <2>2. i = m + 1 /\ i \in 1 .. p - 1 /\ i <= Len(Buf)
    BY <1>1, <1>8, <1>9, <2>1
  <2>3. QED
    BY <1>3, <1>9, <2>2
<1>. HIDE DEF s
<1>13. SubSeq(s, 1, m) = line
  BY <1>9, <1>10, <1>11
<1>14. Stripped(s) = {SubSeq(s, 1, m)}
  BY <1>9, <1>10, <1>11, <1>12, StripLine
<1>15. QED
  BY <1>8, <1>13, <1>14 DEF s

\* The LF of a line whose CR was taken off without it: an empty line.
LEMMA LateLineEnd ==
  ASSUME IInv, ~eof, sent.payload[taken + 1] = "lf",
         taken + 2 <= Len(sent.payload) => sent.payload[taken + 2] \notin {"lf", "nul"},
         NEW p \in 1 .. Len(Buf), Separator(p)
  PROVE  Stripped(SubSeq(Buf, 1, p - 1)) = {<<>>} /\ Skip(p) = 1
<1>1. /\ Buf \in Seq(Bytes) /\ Len(Buf) \in Nat /\ taken \in Nat
      /\ Len(sent.payload) \in Nat /\ taken + Len(Buf) <= Len(sent.payload)
      /\ \A j \in 1 .. Len(Buf) : Buf[j] = sent.payload[taken + j]
  BY Ahead
<1>2. 1 \in 1 .. Len(Buf) /\ Buf[1] = "lf"
  BY <1>1
<1>3. p = 1
  BY <1>1, <1>2 DEF Separator, Find, Lacks
<1>4. ~(p < Len(Buf) /\ Buf[p + 1] \in {"lf", "nul"})
  <2>1. SUFFICES ASSUME 2 <= Len(Buf) PROVE Buf[2] \notin {"lf", "nul"}
    BY <1>1, <1>3
  <2>2. 2 \in 1 .. Len(Buf) /\ taken + 2 <= Len(sent.payload)
    BY <1>1, <2>1
  <2>3. QED
    BY <1>1, <2>2
<1>5. SubSeq(Buf, 1, p - 1) = <<>>
  BY <1>3, SubSeqEmpty
<1>6. Kept(<<>>) = {}
  BY DEF Kept
<1>7. Stripped(<<>>) = {<<>>}
  BY <1>6 DEF Stripped
<1>8. QED
  BY <1>3, <1>4, <1>5, <1>7 DEF Skip

\* The beginning of a push.
LEMMA PushLine ==
  ASSUME IInv, ~eof, sent.archive # <<>>, taken = 0, NEW p \in 1 .. Len(Buf), Separator(p)
  PROVE  Stripped(SubSeq(Buf, 1, p - 1)) = {<<"tar">>} /\ Skip(p) \in {2, 3}
<1>1. /\ sent.payload[1] = "tar" /\ sent.payload[2] = "cr" /\ sent.payload[3] = "lf"
      /\ ArchiveSize \in Nat \ {0} /\ sent.archive[1] \notin {"lf", "nul"}
      /\ \A n \in 1 .. ArchiveSize : sent.payload[3 + n] = sent.archive[n]
  BY PushPayload
<1>2. sent.payload[4] \notin {"lf", "nul"}
  <2>1. 1 \in 1 .. ArchiveSize /\ 3 + 1 = 4
    BY <1>1
  <2>2. QED
    BY <1>1, <2>1
<1>3. Len(sent.payload) \in Nat /\ 1 <= Len(sent.payload) /\ sent.payload \in Seq(Bytes)
  <2>1. sent.payload \in Seq(Bytes)
    BY StreamsAssumption DEF IInv, TypeOK, IsStream
  <2>2. QED
    BY <2>1, Ahead
<1>. DEFINE line == <<"tar">>
<1>4. line \in Seq(Bytes) /\ Len(line) = 1 /\ line[1] = "tar"
  <2>1. sent.payload[1] \in Bytes
    BY <1>3, ElementOfSeq
  <2>2. QED
    BY <1>1, <2>1
<1>. HIDE DEF line
<1>5. /\ \A i \in 1 .. 1 : line[i] \notin {"cr", "lf"} /\ sent.payload[taken + i] = line[i]
      /\ sent.payload[taken + 1 + 1] = "cr" /\ sent.payload[taken + 1 + 2] = "lf"
      /\ sent.payload[taken + 1 + 3] \notin {"lf", "nul"}
  BY <1>1, <1>2, <1>4
<1>6. Stripped(SubSeq(Buf, 1, p - 1)) = {line} /\ Skip(p) \in {1 + 1, 1 + 2}
  BY <1>4, <1>5, LineAhead
<1>7. QED
  BY <1>6 DEF line

\* The line that announces the archive is taken off with its CR, and with its LF
\* if that has come.
LEMMA LineTaken ==
  ASSUME IInv, ~eof, NEW p \in 1 .. Len(Buf), Separator(p),
         <<"tar">> \in Stripped(SubSeq(Buf, 1, p - 1))
  PROVE  sent.archive # <<>> /\ taken + Skip(p) \in {2, 3}
<1>1. IsStream(sent)
  BY StreamsAssumption DEF IInv, TypeOK
<1>2. /\ Buf \in Seq(Bytes) /\ Len(Buf) \in Nat /\ taken \in Nat
      /\ Len(sent.payload) \in Nat /\ taken + Len(Buf) <= Len(sent.payload)
      /\ \A j \in 1 .. Len(Buf) : Buf[j] = sent.payload[taken + j]
  BY Ahead
<1>3. SubSeq(Buf, 1, p - 1) \in Seq(Bytes) /\ Len(SubSeq(Buf, 1, p - 1)) = p - 1
      /\ \A j \in 1 .. p - 1 : SubSeq(Buf, 1, p - 1)[j] = Buf[j]
  BY <1>2
<1>4. PICK i \in 1 .. p - 1 : Buf[i] = "tar"
  BY <1>3, StrippedOf
<1>5. taken + i \in 1 .. Len(sent.payload) /\ sent.payload[taken + i] = "tar"
  <2>1. i \in 1 .. Len(Buf)
    BY <1>2, <1>4
  <2>2. QED
    BY <1>2, <1>4, <2>1
<1>6. taken + i = 1 /\ sent.archive # <<>>
  BY <1>1, <1>5 DEF IsStream
<1>7. taken = 0
  BY <1>2, <1>4, <1>6
<1>8. Skip(p) \in {2, 3}
  BY <1>6, <1>7, PushLine
<1>9. QED
  BY <1>6, <1>7, <1>8

\* A record that tarfile accepts is the next of the archive.
LEMMA RecordTaken ==
  ASSUME IInv, ~eof, pc = "tar", Len(Buf) >= Record, tar = <<>> => NextRecord = FirstRecord,
         Len(tar) + Record <= ArchiveSize
  PROVE  /\ tar \o NextRecord = SubSeq(sent.archive, 1, Len(tar) + Record)
         /\ Len(tar \o NextRecord) = Len(tar) + Record
         /\ taken = 3 + Len(tar)
<1>1. TypeOK /\ sent.archive # <<>> /\ tar = SubSeq(sent.archive, 1, Len(tar))
  BY DEF IInv, TarInv
<1>2. /\ Buf \in Seq(Bytes) /\ Len(Buf) = Len(decoded) - taken
      /\ \A j \in 1 .. Len(Buf) : Buf[j] = decoded[taken + j]
      /\ Len(Buf) \in Nat /\ taken \in Nat /\ Len(decoded) \in Nat
      /\ tar \in Seq(Bytes) /\ Len(tar) \in Nat
  BY <1>1, BufAt, LenProperties DEF TypeOK
<1>3. /\ sent.archive \in Seq(Bytes) /\ ArchiveSize \in Nat \ {0} /\ ArchiveSize = Len(sent.archive)
      /\ sent.payload[3] = "lf" /\ sent.archive[1] \notin {"lf", "nul"}
      /\ \A i \in 1 .. ArchiveSize : sent.payload[3 + i] = sent.archive[i]
  BY <1>1, PushPayload DEF ArchiveSize
<1>4. /\ NextRecord \in Seq(Bytes) /\ Len(NextRecord) = Record
      /\ \A j \in 1 .. Record : NextRecord[j] = Buf[j]
  BY <1>2, RecordAssumption DEF NextRecord
<1>5. \A j \in 1 .. Record : NextRecord[j] = sent.payload[taken + j]
  <2>1. /\ Len(decoded) <= Len(sent.payload)
        /\ \A i \in 1 .. Len(decoded) : decoded[i] = sent.payload[i]
    BY Prefix
  <2>2. ASSUME NEW j \in 1 .. Record PROVE NextRecord[j] = sent.payload[taken + j]
    <3>1. j \in 1 .. Len(Buf) /\ taken + j \in 1 .. Len(decoded)
      BY <1>2, RecordAssumption
    <3>2. NextRecord[j] = Buf[j] /\ Buf[j] = decoded[taken + j]
      BY <1>2, <1>4, <3>1
    <3>3. QED
      BY <2>1, <3>1, <3>2
  <2>3. QED
    BY <2>2
<1>6. taken = 3 + Len(tar)
  <2>1. CASE Len(tar) = 0 /\ taken = 2
    <3>1. tar = <<>>
      BY <1>2, <2>1, EmptySeq
    <3>2. NextRecord[1] = sent.archive[1]
      <4>1. FirstRecord[1] = sent.archive[1]
        BY <1>2, <1>3, <2>1, RecordAssumption DEF FirstRecord
      <4>2. QED
        BY <3>1, <4>1
    <3>3. NextRecord[1] = "lf"
      BY <1>3, <1>5, <2>1, RecordAssumption
    <3>4. QED
      BY <1>3, <3>2, <3>3
  <2>2. CASE Len(tar) = 0 /\ taken = 3
    BY <2>2
  <2>3. CASE Len(tar) > 0 /\ taken = 3 + Len(tar)
    BY <2>3
  <2>4. QED
    BY <2>1, <2>2, <2>3 DEF IInv, TarInv
<1>. DEFINE t == Len(tar)
            n == t + Record
<1>7. t \in Nat /\ n \in 0 .. Len(sent.archive) /\ t <= n /\ n - t = Record
  BY <1>2, <1>3, RecordAssumption
<1>8. NextRecord = SubSeq(sent.archive, t + 1, n)
  <2>. HIDE DEF t, n
  <2>1. /\ SubSeq(sent.archive, t + 1, n) \in Seq(Bytes)
        /\ Len(SubSeq(sent.archive, t + 1, n)) = n - t
        /\ \A j \in 1 .. n - t : SubSeq(sent.archive, t + 1, n)[j] = sent.archive[t + j]
    BY <1>3, <1>7, SubSeqAt
  <2>2. ASSUME NEW j \in 1 .. Record PROVE NextRecord[j] = sent.archive[t + j]
    <3>1. t + j \in 1 .. ArchiveSize /\ taken + j = 3 + (t + j)
      <4>1. taken = 3 + t
        BY <1>6 DEF t
      <4>2. QED
        BY <1>3, <1>7, <4>1, RecordAssumption
    <3>2. QED
      BY <1>3, <1>5, <3>1
  <2>3. QED
    BY <1>4, <1>7, <2>1, <2>2, SeqEqual, RecordAssumption
<1>9. SubSeq(sent.archive, 1, t) \o SubSeq(sent.archive, t + 1, n) = SubSeq(sent.archive, 1, n)
  <2>. HIDE DEF t, n
  <2>1. QED
    BY <1>3, <1>7, Adjacent
<1>10. Len(tar \o NextRecord) = Len(tar) + Record
  BY <1>2, <1>4, ConcatAt
<1>11. tar \o NextRecord = SubSeq(sent.archive, 1, Len(tar) + Record)
  <2>1. SubSeq(sent.archive, 1, t) \o NextRecord = SubSeq(sent.archive, 1, n)
    BY <1>8, <1>9
  <2>2. QED
    BY <1>1, <2>1
<1>12. QED
  BY <1>6, <1>10, <1>11

\* Every step keeps what is said of the archive.
LEMMA TarStep ==
  ASSUME IInv, [Next]_vars
  PROVE  TarInv'
<1>1. CASE Decode \/ Recv \/ FillEnds \/ UNCHANGED vars
  BY <1>1 DEF Decode, Recv, FillEnds, vars, IInv, TarInv, MarkerMeansWhole
<1>2. CASE Close
  BY <1>2 DEF Close, IInv, TarInv, MarkerMeansWhole
<1>3. CASE ReadLine
  <2>1. PICK p \in 1 .. Len(Buf) :
          /\ Separator(p) /\ taken' = taken + Skip(p)
          /\ \E line \in Stripped(SubSeq(Buf, 1, p - 1)) : Command(line)
    BY <1>3 DEF ReadLine
  <2>2. PICK line \in Stripped(SubSeq(Buf, 1, p - 1)) : Command(line)
    BY <2>1
  <2>3. pc = "line" /\ sent' = sent
    BY <1>3 DEF ReadLine, input
  <2>4. CASE line = <<"tar">>
    <3>1. tar' = <<>> /\ ~marker' /\ eof' = eof
      BY <2>2, <2>4 DEF Command
    <3>2. ~eof => sent.archive # <<>> /\ taken' \in {2, 3}
      BY <2>1, <2>3, <2>4, LineTaken
    <3>3. Len(tar') = 0 /\ tar' = SubSeq(sent'.archive, 1, Len(tar'))
      BY <3>1, EmptySeq, SubSeqEmpty
    <3>4. QED
      BY <2>3, <3>1, <3>2, <3>3 DEF TarInv, MarkerMeansWhole
  <2>5. CASE line # <<"tar">>
    <3>1. pc' # "tar" /\ UNCHANGED <<tar, marker>>
      BY <2>2, <2>5 DEF Command, Served
    <3>2. QED
      BY <2>3, <3>1 DEF IInv, TarInv, MarkerMeansWhole
  <2>6. QED
    BY <2>4, <2>5
<1>4. CASE LastLine
  <2>1. pc = "line" /\ sent' = sent /\ eof /\ Command(Buf)
    BY <1>4 DEF LastLine, input
  <2>2. eof'
    BY <2>1 DEF Command
  <2>3. CASE tar' = <<>> /\ ~marker'
    BY <2>2, <2>3 DEF TarInv, MarkerMeansWhole
  <2>4. CASE UNCHANGED <<tar, marker>> /\ pc' # "tar"
    BY <2>1, <2>4 DEF IInv, TarInv, MarkerMeansWhole
  <2>5. QED
    BY <2>1, <2>3, <2>4 DEF Command, Served
<1>5. CASE Extract
  <2>1. pc = "tar" /\ sent' = sent /\ ~marker
    BY <1>5 DEF Extract, input, IInv, TarInv
  <2>2. /\ ArchiveSize \in Nat /\ Len(tar) \in Nat /\ ArchiveSize' = ArchiveSize
        /\ sent.archive \in Seq(Bytes)
    <3>1. IsStream(sent) /\ tar \in Seq(Bytes)
      BY StreamsAssumption DEF IInv, TypeOK
    <3>2. sent.archive \in Seq(Bytes)
      BY <3>1 DEF IsStream
    <3>3. QED
      BY <2>1, <3>1, <3>2, LenProperties DEF ArchiveSize
  <2>3. CASE TarReads
    <3>1. pc' = "tar" /\ ~marker' /\ eof' = eof
      BY <2>1, <2>3 DEF TarReads
    <3>2. ASSUME ~eof
          PROVE  /\ sent'.archive # <<>>
                 /\ tar' = SubSeq(sent'.archive, 1, Len(tar'))
                 /\ Len(tar') > 0 /\ taken' = 3 + Len(tar')
      <4>1. Len(tar) + Record <= ArchiveSize
        BY <2>2, <2>3, RecordAssumption DEF TarReads
      <4>2. /\ tar' = SubSeq(sent.archive, 1, Len(tar) + Record)
            /\ Len(tar') = Len(tar) + Record /\ taken = 3 + Len(tar)
        BY <2>1, <2>3, <3>2, <4>1, RecordTaken DEF TarReads
      <4>3. taken' = taken + Record
        BY <2>3 DEF TarReads
      <4>4. sent.archive # <<>>
        BY <2>1, <3>2 DEF IInv, TarInv
      <4>5. QED
        BY <2>1, <2>2, <4>2, <4>3, <4>4, RecordAssumption
    <3>3. QED
      BY <3>1, <3>2 DEF TarInv, MarkerMeansWhole
  <2>4. CASE TarDone
    <3>1. pc' # "tar" /\ marker' = ~eof' /\ eof' \in {eof, TRUE}
      BY <2>4 DEF TarDone, Served
    <3>2. ASSUME marker' PROVE tar' = sent'.archive
      <4>1. ~eof
        BY <3>1, <3>2
      <4>2. Len(tar) + Record = ArchiveSize
        BY <2>4 DEF TarDone
      <4>3. tar' = SubSeq(sent.archive, 1, Len(tar) + Record)
        BY <2>1, <2>2, <2>4, <4>1, <4>2, RecordTaken DEF TarDone
      <4>4. tar' = SubSeq(sent.archive, 1, Len(sent.archive))
        BY <4>2, <4>3 DEF ArchiveSize
      <4>5. QED
        BY <2>1, <2>2, <4>4, SubSeqFull
    <3>3. QED
      BY <3>1, <3>2 DEF TarInv, MarkerMeansWhole
  <2>5. CASE TarFails
    <3>1. pc' # "tar" /\ ~marker'
      BY <2>1, <2>5 DEF TarFails, Served
    <3>2. QED
      BY <3>1 DEF TarInv, MarkerMeansWhole
  <2>6. QED
    BY <1>5, <2>3, <2>4, <2>5 DEF Extract
<1>6. QED
  BY <1>1, <1>2, <1>3, <1>4, <1>5 DEF Next, Agent, Network

\* The marker says that the archive was read as it was sent, also in a session
\* where a line end was cut.
THEOREM MarkerHonest == Spec => []MarkerMeansWhole
<1>1. Init => IInv
  <2>1. Init => TarInv
    BY DEF Init, TarInv, MarkerMeansWhole
  <2>2. QED
    BY <2>1, TypeInit, InputInit DEF IInv
<1>2. IInv /\ [Next]_vars => IInv'
  BY TypeStep, InputStep, TarStep DEF IInv
<1>3. IInv => MarkerMeansWhole
  BY DEF IInv, TarInv
<1>4. QED
  BY <1>1, <1>2, <1>3, PTL DEF Spec

-----------------------------------------------------------------------------
(***************************************************************************)
(* Command lines.  While the connection lasts serve() stands behind a line *)
(* it was sent, or in front of that line's LF; in a session with an        *)
(* archive it has run nothing.                                             *)
(***************************************************************************)
LineInv ==
  ~eof /\ ~failed =>
    IF sent.archive = <<>>
      THEN /\ pc = "line"
           /\ \E k \in 0 .. Len(sent.lines) :
                /\ executed = SubSeq(sent.lines, 1, k)
                /\ taken = sent.cut[k] \/ (k > 0 /\ taken = sent.cut[k] - 1)
      ELSE /\ executed = <<>>
           /\ pc # "tar" => taken \in {0, 3 + ArchiveSize}

\* Where the lines of a session begin and end in its payload.
LEMMA Lines ==
  ASSUME IInv
  PROVE  /\ sent.lines \in Seq(Seq(Bytes)) /\ Len(sent.lines) \in Nat
         /\ sent.payload \in Seq(Bytes) /\ Len(sent.payload) \in Nat
         /\ \A k \in 0 .. Len(sent.lines) : sent.cut[k] \in 0 .. Len(sent.payload)
         /\ sent.cut[0] = 0
         /\ sent.archive = <<>> => sent.cut[Len(sent.lines)] = Len(sent.payload)
<1>1. IsStream(sent)
  BY StreamsAssumption DEF IInv, TypeOK
<1>2. sent.lines \in Seq(Seq(Bytes)) /\ sent.payload \in Seq(Bytes)
  BY <1>1 DEF IsStream, Meant
<1>3. Len(sent.lines) \in Nat /\ Len(sent.payload) \in Nat
  BY <1>2, LenProperties, Zenon
<1>4. /\ sent.cut \in [0 .. Len(sent.lines) -> 0 .. Len(sent.payload)] /\ sent.cut[0] = 0
      /\ sent.archive = <<>> => sent.cut[Len(sent.lines)] = Len(sent.payload)
  BY <1>1 DEF IsStream, Meant
<1>5. QED
  BY <1>2, <1>3, <1>4, Zenon

\* Where a line lies in the payload.
LEMMA LineAt ==
  ASSUME IInv, NEW k \in 1 .. Len(sent.lines)
  PROVE  LET line == sent.lines[k] IN
         /\ line \in Seq(Bytes) /\ Len(line) \in Nat \ {0} /\ line[1] # "nul"
         /\ \A i \in 1 .. Len(line) : line[i] \notin {"cr", "lf"}
         /\ sent.cut[k - 1] \in Nat /\ sent.cut[k] = sent.cut[k - 1] + Len(line) + 2
         /\ sent.cut[k] <= Len(sent.payload)
         /\ \A i \in 1 .. Len(line) : sent.payload[sent.cut[k - 1] + i] = line[i]
         /\ sent.payload[sent.cut[k - 1] + Len(line) + 1] = "cr"
         /\ sent.payload[sent.cut[k - 1] + Len(line) + 2] = "lf"
<1>. DEFINE line == sent.lines[k]
            a == sent.cut[k - 1]
            b == sent.cut[k]
            m == Len(line)
<1>1. /\ line # <<>> /\ line[1] # "nul"
      /\ \A i \in 1 .. m : line[i] \notin {"cr", "lf"}
      /\ b = a + m + 2
      /\ SubSeq(sent.payload, a + 1, b) = line \o <<"cr", "lf">>
  BY StreamsAssumption DEF IInv, TypeOK, IsStream, Meant
<1>2. /\ a \in Nat /\ b \in 0 .. Len(sent.payload) /\ line \in Seq(Bytes)
      /\ sent.payload \in Seq(Bytes) /\ Len(sent.payload) \in Nat
  <2>1. /\ sent.lines \in Seq(Seq(Bytes)) /\ Len(sent.lines) \in Nat
        /\ sent.payload \in Seq(Bytes) /\ Len(sent.payload) \in Nat
        /\ \A n \in 0 .. Len(sent.lines) : sent.cut[n] \in 0 .. Len(sent.payload)
    BY Lines
  <2>2. k \in 0 .. Len(sent.lines) /\ k - 1 \in 0 .. Len(sent.lines)
    BY <2>1
  <2>3. a \in 0 .. Len(sent.payload) /\ b \in 0 .. Len(sent.payload)
    BY <2>1, <2>2, Zenon
  <2>4. line \in Seq(Bytes)
    BY <2>1, ElementOfSeq
  <2>. HIDE DEF a, b, line
  <2>5. QED
    BY <2>1, <2>3, <2>4
<1>3. m \in Nat \ {0}
  BY <1>1, <1>2, EmptySeq, LenProperties
<1>. HIDE DEF line, a, b, m
<1>4. \A j \in 1 .. m + 2 : (line \o <<"cr", "lf">>)[j] = sent.payload[a + j]
  <2>1. a <= b /\ b - a = m + 2
    BY <1>1, <1>2, <1>3
  <2>2. \A j \in 1 .. b - a : SubSeq(sent.payload, a + 1, b)[j] = sent.payload[a + j]
    BY <1>2, <2>1, SubSeqAt
  <2>3. QED
    BY <1>1, <2>1, <2>2
<1>5. /\ \A i \in 1 .. m : (line \o <<"cr", "lf">>)[i] = line[i]
      /\ (line \o <<"cr", "lf">>)[m + 1] = "cr"
      /\ (line \o <<"cr", "lf">>)[m + 2] = "lf"
  <2>. DEFINE S == Bytes \cup {"cr", "lf"}
              e == <<"cr", "lf">>
  <2>1. line \in Seq(S) /\ e \in Seq(S) /\ Len(e) = 2 /\ e[1] = "cr" /\ e[2] = "lf"
    BY <1>2
  <2>. HIDE DEF S, e
  <2>2. /\ \A i \in 1 .. Len(line) : (line \o e)[i] = line[i]
        /\ \A i \in 1 .. Len(e) : (line \o e)[Len(line) + i] = e[i]
    BY <2>1, ConcatAt
  <2>3. 1 \in 1 .. Len(e) /\ 2 \in 1 .. Len(e)
    BY <2>1
  <2>4. QED
    BY <2>1, <2>2, <2>3 DEF m, e
<1>6. ASSUME NEW i \in 1 .. m PROVE sent.payload[a + i] = line[i]
  <2>1. i \in 1 .. m + 2
    BY <1>3
  <2>2. QED
    BY <1>4, <1>5, <2>1
<1>7. sent.payload[a + m + 1] = "cr" /\ sent.payload[a + m + 2] = "lf"
  <2>1. m + 1 \in 1 .. m + 2 /\ m + 2 \in 1 .. m + 2
    BY <1>3
  <2>2. a + (m + 1) = a + m + 1 /\ a + (m + 2) = a + m + 2
    BY <1>2, <1>3
  <2>3. QED
    BY <1>4, <1>5, <2>1, <2>2
<1>8. b <= Len(sent.payload)
  BY <1>2
<1>9. QED
  BY <1>1, <1>2, <1>3, <1>6, <1>7, <1>8, Zenon DEF line, a, b, m

\* Behind a line comes another, which begins with no line end and no NUL, or
\* nothing.
LEMMA BehindLine ==
  ASSUME IInv, sent.archive = <<>>, NEW k \in 0 .. Len(sent.lines),
         sent.cut[k] + 1 <= Len(sent.payload)
  PROVE  k + 1 \in 1 .. Len(sent.lines) /\ sent.payload[sent.cut[k] + 1] \notin {"lf", "nul"}
<1>1. /\ Len(sent.lines) \in Nat /\ Len(sent.payload) \in Nat
      /\ sent.cut[Len(sent.lines)] = Len(sent.payload)
  BY Lines
<1>2. k # Len(sent.lines)
  BY <1>1
<1>3. k + 1 \in 1 .. Len(sent.lines) /\ (k + 1) - 1 = k
  BY <1>1, <1>2
<1>. DEFINE line == sent.lines[k + 1]
<1>4. /\ Len(line) \in Nat \ {0} /\ line[1] # "nul"
      /\ \A i \in 1 .. Len(line) : line[i] \notin {"cr", "lf"}
      /\ \A i \in 1 .. Len(line) : sent.payload[sent.cut[k] + i] = line[i]
  <2>. DEFINE n == k + 1
  <2>1. n \in 1 .. Len(sent.lines) /\ n - 1 = k
    BY <1>3
  <2>. HIDE DEF n
  <2>2. /\ Len(sent.lines[n]) \in Nat \ {0} /\ sent.lines[n][1] # "nul"
        /\ \A i \in 1 .. Len(sent.lines[n]) : sent.lines[n][i] \notin {"cr", "lf"}
        /\ \A i \in 1 .. Len(sent.lines[n]) : sent.payload[sent.cut[n - 1] + i] = sent.lines[n][i]
    BY <2>1, LineAt
  <2>3. QED
    BY <2>1, <2>2 DEF n
<1>5. 1 \in 1 .. Len(line)
  BY <1>4
<1>6. QED
  BY <1>3, <1>4, <1>5

\* serve() reads a line in a session of commands.
LEMMA ReadsLine ==
  ASSUME IInv, LineInv, ~eof, ~failed, sent.archive = <<>>, ReadLine, ~eof', ~failed'
  PROVE  LineInv'
<1>1. PICK p \in 1 .. Len(Buf) :
        /\ Separator(p) /\ taken' = taken + Skip(p)
        /\ \E line \in Stripped(SubSeq(Buf, 1, p - 1)) : Command(line)
  BY DEF ReadLine
<1>2. PICK line \in Stripped(SubSeq(Buf, 1, p - 1)) : Command(line)
  BY <1>1
<1>3. sent' = sent /\ pc = "line"
  BY DEF ReadLine, input
<1>4. PICK k \in 0 .. Len(sent.lines) :
        /\ executed = SubSeq(sent.lines, 1, k)
        /\ taken = sent.cut[k] \/ (k > 0 /\ taken = sent.cut[k] - 1)
  BY DEF LineInv
<1>5. /\ Len(Buf) \in Nat /\ taken \in Nat /\ Len(sent.payload) \in Nat
      /\ taken + Len(Buf) <= Len(sent.payload)
  BY Ahead
<1>6. /\ sent.lines \in Seq(Seq(Bytes)) /\ Len(sent.lines) \in Nat
      /\ sent.cut[k] \in 0 .. Len(sent.payload)
  BY Lines
<1>7. CASE taken = sent.cut[k]
  <2>1. k + 1 \in 1 .. Len(sent.lines) /\ (k + 1) - 1 = k
    BY <1>5, <1>6, <1>7, BehindLine
  <2>. DEFINE next == sent.lines[k + 1]
              m == Len(next)
  <2>2. /\ next \in Seq(Bytes) /\ m \in Nat \ {0}
        /\ \A i \in 1 .. m : next[i] \notin {"cr", "lf"}
        /\ sent.cut[k + 1] = taken + m + 2
        /\ sent.cut[k + 1] <= Len(sent.payload)
        /\ \A i \in 1 .. m : sent.payload[taken + i] = next[i]
        /\ sent.payload[taken + m + 1] = "cr" /\ sent.payload[taken + m + 2] = "lf"
    <3>. DEFINE n == k + 1
    <3>1. n \in 1 .. Len(sent.lines) /\ n - 1 = k
      BY <2>1
    <3>. HIDE DEF n
    <3>2. /\ sent.lines[n] \in Seq(Bytes) /\ Len(sent.lines[n]) \in Nat \ {0}
          /\ \A i \in 1 .. Len(sent.lines[n]) : sent.lines[n][i] \notin {"cr", "lf"}
          /\ sent.cut[n] = sent.cut[n - 1] + Len(sent.lines[n]) + 2
          /\ sent.cut[n] <= Len(sent.payload)
          /\ \A i \in 1 .. Len(sent.lines[n]) : sent.payload[sent.cut[n - 1] + i] = sent.lines[n][i]
          /\ sent.payload[sent.cut[n - 1] + Len(sent.lines[n]) + 1] = "cr"
          /\ sent.payload[sent.cut[n - 1] + Len(sent.lines[n]) + 2] = "lf"
      BY <3>1, LineAt
    <3>3. QED
      BY <1>7, <3>1, <3>2 DEF n
  <2>3. taken + m + 3 <= Len(sent.payload) =>
          sent.payload[taken + m + 3] \notin {"lf", "nul"}
    <3>. DEFINE n == k + 1
    <3>1. n \in 0 .. Len(sent.lines) /\ sent.cut[n] + 1 = taken + m + 3
      BY <1>5, <2>1, <2>2
    <3>. HIDE DEF n
    <3>2. sent.cut[n] + 1 <= Len(sent.payload) => sent.payload[sent.cut[n] + 1] \notin {"lf", "nul"}
      BY <3>1, BehindLine
    <3>3. QED
      BY <3>1, <3>2
  <2>4. Stripped(SubSeq(Buf, 1, p - 1)) = {next} /\ Skip(p) \in {m + 1, m + 2}
    <3>. HIDE DEF next
    <3>1. QED
      BY <1>1, <2>2, <2>3, LineAhead
  <2>5. line = next
    BY <1>2, <2>4
  <2>6. next # <<>> /\ next # <<"tar">>
    <3>1. next # <<>>
      BY <2>2, EmptySeq
    <3>2. ASSUME next = <<"tar">> PROVE FALSE
      <4>1. <<"tar">> \in Stripped(SubSeq(Buf, 1, p - 1))
        BY <2>4, <3>2
      <4>2. QED
        BY <1>1, <4>1, LineTaken
    <3>3. QED
      BY <3>1, <3>2
  <2>7. executed' = Append(executed, next) /\ pc' = "line"
    BY <1>2, <2>5, <2>6 DEF Command, Served
  <2>8. executed' = SubSeq(sent.lines, 1, k + 1)
    <3>. DEFINE S == Seq(Bytes)
    <3>1. sent.lines \in Seq(S)
      BY <1>6
    <3>. HIDE DEF S, m
    <3>2. Append(SubSeq(sent.lines, 1, k), sent.lines[k + 1]) = SubSeq(sent.lines, 1, k + 1)
      BY <1>6, <2>1, <3>1
    <3>3. QED
      BY <1>4, <2>7, <3>2
  <2>9. k + 1 > 0 /\ (taken' = sent.cut[k + 1] \/ taken' = sent.cut[k + 1] - 1)
    <3>. HIDE DEF next
    <3>1. QED
      BY <1>1, <1>5, <2>2, <2>4
  <2>10. k + 1 \in 0 .. Len(sent.lines)
    BY <2>1
  <2>11. QED
    BY <1>3, <2>7, <2>8, <2>9, <2>10 DEF LineInv
<1>8. CASE k > 0 /\ taken = sent.cut[k] - 1
  <2>1. k \in 1 .. Len(sent.lines) /\ taken + 1 = sent.cut[k]
    BY <1>5, <1>6, <1>8
  <2>2. sent.payload[taken + 1] = "lf"
    <3>1. /\ sent.cut[k] = sent.cut[k - 1] + Len(sent.lines[k]) + 2
          /\ sent.payload[sent.cut[k - 1] + Len(sent.lines[k]) + 2] = "lf"
      BY <2>1, LineAt
    <3>2. QED
      BY <2>1, <3>1
  <2>3. taken + 2 <= Len(sent.payload) => sent.payload[taken + 2] \notin {"lf", "nul"}
    <3>1. sent.cut[k] + 1 = taken + 2
      BY <1>5, <2>1
    <3>2. sent.cut[k] + 1 <= Len(sent.payload) => sent.payload[sent.cut[k] + 1] \notin {"lf", "nul"}
      BY BehindLine
    <3>3. QED
      BY <3>1, <3>2
  <2>4. Stripped(SubSeq(Buf, 1, p - 1)) = {<<>>} /\ Skip(p) = 1
    BY <1>1, <2>2, <2>3, LateLineEnd
  <2>5. line = <<>>
    BY <1>2, <2>4
  <2>6. executed' = executed /\ pc' = "line" /\ taken' = sent.cut[k]
    <3>1. Command(<<>>)
      BY <1>2, <2>5
    <3>2. executed' = executed /\ pc' = "line"
      BY <3>1 DEF Command, Served
    <3>3. QED
      BY <1>1, <2>1, <2>4, <3>2
  <2>7. QED
    BY <1>3, <1>4, <2>6 DEF LineInv
<1>9. QED
  BY <1>4, <1>7, <1>8

\* serve() reads a line in a session with an archive: the first, or none, as the
\* rest of the last record holds no line end.
LEMMA ReadsPush ==
  ASSUME IInv, LineInv, ~eof, ~failed, sent.archive # <<>>, ReadLine, ~eof', ~failed'
  PROVE  LineInv'
<1>1. PICK p \in 1 .. Len(Buf) :
        /\ Separator(p) /\ taken' = taken + Skip(p)
        /\ \E line \in Stripped(SubSeq(Buf, 1, p - 1)) : Command(line)
  BY DEF ReadLine
<1>2. PICK line \in Stripped(SubSeq(Buf, 1, p - 1)) : Command(line)
  BY <1>1
<1>3. sent' = sent /\ pc = "line" /\ executed = <<>> /\ taken \in {0, 3 + ArchiveSize}
  BY DEF ReadLine, input, LineInv
<1>4. taken = 0
  <2>1. SUFFICES ASSUME taken = 3 + ArchiveSize PROVE FALSE
    BY <1>3
  <2>2. /\ Len(Buf) \in Nat /\ taken + Len(Buf) <= Len(sent.payload)
        /\ Len(sent.payload) \in Nat /\ taken \in Nat
        /\ \A j \in 1 .. Len(Buf) : Buf[j] = sent.payload[taken + j]
    BY Ahead
  <2>3. Buf[p] \in {"cr", "lf"}
    BY <1>1 DEF Separator, Find
  <2>4. sent.payload[taken + p] = "nul"
    <3>1. taken + p \in 3 + ArchiveSize + 1 .. Len(sent.payload)
      BY <1>1, <2>1, <2>2
    <3>2. QED
      BY <3>1, PushRest
  <2>5. QED
    BY <1>1, <2>2, <2>3, <2>4
<1>5. line = <<"tar">>
  BY <1>1, <1>2, <1>4, PushLine
<1>6. executed' = executed /\ pc' = "tar"
  BY <1>2, <1>5 DEF Command
<1>7. QED
  BY <1>3, <1>6 DEF LineInv

\* Every step keeps what is said of the lines.
LEMMA LineStep ==
  ASSUME IInv, LineInv, [Next]_vars
  PROVE  LineInv'
<1>. SUFFICES ASSUME ~eof', ~failed' PROVE LineInv'
  BY DEF LineInv
<1>1. CASE Decode \/ Recv \/ FillEnds \/ UNCHANGED vars
  <2>1. UNCHANGED <<sent, taken, eof, pc, failed, executed>>
    BY <1>1 DEF Decode, Recv, FillEnds, vars
  <2>2. QED
    BY <2>1 DEF LineInv, ArchiveSize
<1>2. CASE Close
  BY <1>2 DEF Close
<1>3. CASE ReadLine
  <2>1. ~eof /\ ~failed
    <3>1. (eof' = eof \/ eof' = TRUE) /\ (failed' = failed \/ failed' = TRUE)
      BY <1>3 DEF ReadLine, Command
    <3>2. eof' \in BOOLEAN /\ failed' \in BOOLEAN /\ eof \in BOOLEAN /\ failed \in BOOLEAN
      BY TypeStep DEF IInv, TypeOK
    <3>3. eof' = FALSE /\ failed' = FALSE
      BY <3>2
    <3>4. eof = FALSE /\ failed = FALSE
      BY <3>1, <3>2, <3>3
    <3>5. QED
      BY <3>4
  <2>2. QED
    BY <1>3, <2>1, ReadsLine, ReadsPush
<1>4. CASE LastLine
  BY <1>4 DEF LastLine, Command
<1>5. CASE Extract
  <2>1. pc = "tar" /\ sent' = sent /\ executed' = executed
    BY <1>5 DEF Extract, input
  <2>2. ~eof /\ ~failed
    <3>1. (eof' = eof \/ eof' = TRUE) /\ (failed' = failed \/ failed' = TRUE)
      BY <1>5 DEF Extract, TarReads, TarDone, TarFails
    <3>2. eof' \in BOOLEAN /\ failed' \in BOOLEAN /\ eof \in BOOLEAN /\ failed \in BOOLEAN
      BY TypeStep DEF IInv, TypeOK
    <3>3. eof' = FALSE /\ failed' = FALSE
      BY <3>2
    <3>4. eof = FALSE /\ failed = FALSE
      BY <3>1, <3>2, <3>3
    <3>5. QED
      BY <3>4
  <2>3. sent.archive # <<>> /\ executed = <<>>
    BY <2>1, <2>2 DEF IInv, TarInv, LineInv
  <2>4. CASE TarReads
    <3>1. pc' = "tar"
      BY <2>1, <2>4 DEF TarReads
    <3>2. QED
      BY <2>1, <2>3, <3>1 DEF LineInv
  <2>5. CASE TarDone
    <3>1. /\ Len(Buf) >= Record /\ (tar = <<>> => NextRecord = FirstRecord)
          /\ Len(tar) + Record = ArchiveSize /\ taken' = taken + Record
      BY <2>5 DEF TarDone
    <3>2. ArchiveSize \in Nat /\ Len(tar) \in Nat /\ Record \in Nat
      BY <2>3, PushPayload, RecordAssumption DEF IInv, TypeOK
    <3>3. taken = 3 + Len(tar)
      BY <2>1, <2>2, <3>1, <3>2, RecordTaken
    <3>4. taken' = 3 + ArchiveSize /\ ArchiveSize' = ArchiveSize
      BY <2>1, <3>1, <3>2, <3>3 DEF ArchiveSize
    <3>5. QED
      BY <2>1, <2>3, <3>4 DEF LineInv
  <2>6. CASE TarFails
    BY <2>6 DEF TarFails
  <2>7. QED
    BY <1>5, <2>4, <2>5, <2>6 DEF Extract
<1>6. QED
  BY <1>1, <1>2, <1>3, <1>4, <1>5 DEF Next, Agent, Network

\* Only the client's lines are run, whole and in their order, and no byte of an
\* archive is, wherever the stream is cut.
THEOREM LinesHonest == Spec => []LinesAsSent
<1>1. Init => IInv /\ LineInv
  <2>1. Init => TarInv
    BY DEF Init, TarInv, MarkerMeansWhole
  <2>2. Init => IInv
    BY <2>1, TypeInit, InputInit DEF IInv
  <2>3. ASSUME Init PROVE LineInv
    <3>1. Len(sent.lines) \in Nat /\ sent.cut[0] = 0
      BY <2>2, <2>3, Lines
    <3>2. 0 \in 0 .. Len(sent.lines) /\ executed = SubSeq(sent.lines, 1, 0)
      BY <2>3, <3>1, SubSeqEmpty DEF Init
    <3>3. QED
      BY <2>3, <3>1, <3>2 DEF Init, LineInv
  <2>4. QED
    BY <2>2, <2>3
<1>2. IInv /\ LineInv /\ [Next]_vars => (IInv /\ LineInv)'
  <2>1. IInv /\ [Next]_vars => IInv'
    BY TypeStep, InputStep, TarStep DEF IInv
  <2>2. QED
    BY <2>1, LineStep
<1>3. IInv /\ LineInv => LinesAsSent
  <2>. SUFFICES ASSUME IInv, LineInv, ~eof, ~failed
                PROVE  executed = SubSeq(sent.lines, 1, Len(executed))
    BY DEF LinesAsSent
  <2>1. sent.lines \in Seq(Seq(Bytes)) /\ Len(sent.lines) \in Nat
    BY Lines
  <2>2. CASE sent.archive = <<>>
    <3>1. PICK k \in 0 .. Len(sent.lines) : executed = SubSeq(sent.lines, 1, k)
      BY <2>2 DEF LineInv
    <3>. DEFINE S == Seq(Bytes)
    <3>2. sent.lines \in Seq(S)
      BY <2>1
    <3>. HIDE DEF S
    <3>3. Len(SubSeq(sent.lines, 1, k)) = k
      BY <2>1, <3>2
    <3>4. QED
      BY <3>1, <3>3
  <2>3. CASE sent.archive # <<>>
    <3>1. executed = <<>>
      BY <2>3 DEF LineInv
    <3>2. QED
      BY <3>1, EmptySeq, SubSeqEmpty
  <2>4. QED
    BY <2>2, <2>3
<1>4. QED
  BY <1>1, <1>2, <1>3, PTL DEF Spec

=============================================================================
