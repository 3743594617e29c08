--------------------------- MODULE DownloadProofs ---------------------------
(***************************************************************************)
(* The downloader for every file length, number of threads and number of   *)
(* attempts: type correctness, and the completeness of a download from a   *)
(* server that honours Range.                                              *)
(***************************************************************************)
EXTENDS Download, TLAPS

\* The chunk length of download() is a ceiling: the threads' chunks cover the file.
LEMMA ChunkCovers ==
  /\ Chunk \in Nat \ {0}
  /\ Threads * Chunk >= Blocks
<1>1. DEFINE n == Blocks + Threads - 1
<1>2. n \in Nat /\ n >= Threads
  BY BlocksAssumption, ThreadsAssumption
<1>3. Chunk \in Int /\ Threads * Chunk <= n /\ n < Threads * Chunk + Threads
  BY <1>2, ThreadsAssumption DEF Chunk
<1>4. Chunk > 0
  BY <1>2, <1>3, ThreadsAssumption, BlocksAssumption
<1>5. QED
  BY <1>3, <1>4, ThreadsAssumption, BlocksAssumption

\* Each piece is a non-empty range inside the file.
LEMMA PieceRange ==
  ASSUME NEW i \in Pieces
  PROVE  /\ Start(i) \in 0 .. Blocks - 1
         /\ End(i) \in Start(i) .. Blocks - 1
<1>1. Start(i) \in Nat /\ Start(i) < Blocks
  BY ChunkCovers, ThreadsAssumption, BlocksAssumption DEF Pieces, Start
<1>2. QED
  BY <1>1, ChunkCovers, BlocksAssumption DEF End

\* Every block of the file is in some piece.
LEMMA PiecesCover ==
  ASSUME NEW p \in 0 .. Blocks - 1
  PROVE  \E i \in Pieces : p \in Start(i) .. End(i)
<1>1. DEFINE q == p \div Chunk
<1>2. p \in Nat /\ p < Blocks /\ Chunk \in Nat /\ Chunk > 0 /\ Chunk * Threads >= Blocks
  BY ChunkCovers, BlocksAssumption, ThreadsAssumption
<1>3. q \in Nat /\ Chunk * q <= p /\ p < Chunk * q + Chunk
  BY <1>2
<1>4. q < Threads
  <2>1. SUFFICES ASSUME q >= Threads PROVE FALSE
    BY <1>3, ThreadsAssumption
  <2>2. Chunk * q >= Chunk * Threads
    BY <2>1, <1>2, <1>3, ThreadsAssumption
  <2>3. QED
    BY <2>2, <1>2, <1>3, ThreadsAssumption, BlocksAssumption
<1>5. q * Chunk = Chunk * q
  BY <1>2, <1>3
<1>6. q \in Pieces
  BY <1>2, <1>3, <1>4, <1>5, ThreadsAssumption, BlocksAssumption DEF Pieces
<1>7. p \in Start(q) .. End(q)
  BY <1>2, <1>3, <1>5, BlocksAssumption DEF Start, End
<1>8. QED
  BY <1>6, <1>7

-----------------------------------------------------------------------------
(***************************************************************************)
(* The inductive invariant.  TypeOK alone is not inductive: the bound on   *)
(* pos needs the fact that a stream delivers at most its answer, the bound *)
(* on attempt that a thread which gave up never reconnects.                *)
(***************************************************************************)

Streaming(i) == pc[i] = "stream"

\* A reading thread is inside its piece, or inside the whole file that a server
\* ignoring Range sent it.
ThreadInv ==
  \A i \in Pieces :
    /\ pc[i] \in {"idle", "connect", "stream"} => attempt[i] < Attempts
    /\ Streaming(i) => /\ Start(i) <= pos[i]
                       /\ full[i] => pos[i] <= Start(i) + Blocks
                       /\ ~full[i] => pos[i] <= End(i) + 1

PhaseInv ==
  /\ phase = "probe" => \A i \in Pieces : pc[i] = "idle"
  /\ phase \in {"probe", "chunks"} => got = 0
  /\ phase \in {"probe", "chunks", "resume", "resuming"} => stalls < Attempts
  /\ phase = "resuming" => /\ start <= got
                           /\ start < Blocks
                           /\ fullStream => got <= start + Blocks
                           /\ ~fullStream => got <= Blocks
  /\ phase = "single" => got <= Blocks

TypeInv == TypeOK /\ ThreadInv /\ PhaseInv

\* The types at the start.
LEMMA TypeInit == Init => TypeInv
<1>. SUFFICES ASSUME Init PROVE TypeInv
  OBVIOUS
<1>1. \A i \in Pieces : Start(i) \in 0 .. Blocks - 1
  BY PieceRange
<1>. USE BlocksAssumption, AttemptsAssumption
<1>2. pos \in [Pieces -> Positions]
  BY <1>1 DEF Init, Positions
<1>3. data \in [Positions -> {Hole} \cup 0 .. Blocks - 1]
  BY DEF Init
<1>4. TypeOK
  <2>1. len \in 0 .. 2 * Blocks /\ got \in 0 .. 2 * Blocks /\ start \in 0 .. Blocks
    BY DEF Init
  <2>2. attempt \in [Pieces -> 0 .. Attempts] /\ stalls \in 0 .. Attempts
    BY DEF Init
  <2>3. /\ pc \in [Pieces -> {"idle", "connect", "stream", "done", "failed"}]
        /\ full \in [Pieces -> BOOLEAN]
        /\ fullStream \in BOOLEAN
        /\ phase \in Phases
    BY DEF Init, Phases
  <2>4. QED
    BY <1>2, <1>3, <2>1, <2>2, <2>3 DEF TypeOK
<1>5. ThreadInv /\ PhaseInv
  BY DEF Init, ThreadInv, PhaseInv, Streaming
<1>6. QED
  BY <1>4, <1>5 DEF TypeInv

\* What a write within the file's positions does to it.
LEMMA WriteType ==
  ASSUME NEW p \in Positions, NEW b \in 0 .. Blocks - 1, TypeOK, Write(p, b), p < 2 * Blocks
  PROVE  /\ data' \in [Positions -> {Hole} \cup 0 .. Blocks - 1]
         /\ len' \in 0 .. 2 * Blocks
BY BlocksAssumption DEF TypeOK, Write, Positions

\* A truncated file has the types of a file.
LEMMA TruncateType ==
  ASSUME NEW n \in 0 .. Blocks, Truncate(n)
  PROVE  /\ data' \in [Positions -> {Hole} \cup 0 .. Blocks - 1]
         /\ len' \in 0 .. 2 * Blocks
BY BlocksAssumption DEF Truncate

\* A step of one thread keeps the types.
LEMMA TypeThread ==
  ASSUME TypeInv, NEW i \in Pieces, Thread(i)
  PROVE  TypeInv'
<1>. USE BlocksAssumption, AttemptsAssumption DEF TypeInv, Phases
<1>1. /\ Start(i) \in 0 .. Blocks - 1
      /\ End(i) \in Start(i) .. Blocks - 1
  BY PieceRange
<1>2. CASE ChunkConnect(i)
  <2>1. full' \in [Pieces -> BOOLEAN]
    BY <1>2, RangeIgnoredAssumption DEF ChunkConnect, Answers, TypeOK
  <2>2. QED
    BY <1>1, <1>2, <2>1
       DEF ChunkConnect, TypeOK, ThreadInv, PhaseInv, Streaming, Positions, file, stream
<1>3. CASE ChunkRead(i)
  <2>1. /\ pos[i] \in Positions /\ pos[i] < 2 * Blocks
        /\ Source(pos[i], Start(i), full[i]) \in 0 .. Blocks - 1
    BY <1>1, <1>3 DEF ChunkRead, TypeOK, ThreadInv, Streaming, Positions, Source
  <2>2. /\ data' \in [Positions -> {Hole} \cup 0 .. Blocks - 1]
        /\ len' \in 0 .. 2 * Blocks
    BY <1>3, <2>1, WriteType DEF ChunkRead
  <2>3. pos' = [pos EXCEPT ![i] = pos[i] + 1]
    BY <1>3 DEF ChunkRead
  <2>4. TypeOK'
    BY <1>3, <2>1, <2>2, <2>3 DEF ChunkRead, TypeOK, Positions, stream
  <2>5. ThreadInv'
    <3>1. /\ full[i] => pos[i] + 1 <= Start(i) + Blocks
          /\ ~full[i] => pos[i] + 1 <= End(i) + 1
      BY <1>1, <1>3, <2>1 DEF ChunkRead, Source, TypeOK, Positions
    <3>2. QED
      BY <1>1, <1>3, <2>1, <2>3, <3>1 DEF ChunkRead, TypeOK, ThreadInv, Streaming, Positions
  <2>6. PhaseInv'
    BY <1>3 DEF ChunkRead, TypeOK, PhaseInv, Streaming, stream
  <2>7. QED
    BY <2>4, <2>5, <2>6
<1>4. CASE ChunkEof(i)
  BY <1>4 DEF ChunkEof, Retry, TypeOK, ThreadInv, PhaseInv, Streaming, file, stream
<1>5. CASE ChunkError(i)
  BY <1>5 DEF ChunkError, Retry, TypeOK, ThreadInv, PhaseInv, Streaming, file, stream
<1>6. QED
  BY <1>2, <1>3, <1>4, <1>5 DEF Thread

\* A step of the main thread keeps the types.
LEMMA TypeMain ==
  ASSUME TypeInv, Main
  PROVE  TypeInv'
<1>. USE BlocksAssumption, AttemptsAssumption DEF TypeInv, Phases
<1>. \A i \in Pieces : Start(i) \in 0 .. Blocks - 1
  BY PieceRange
<1>1. CASE ProbeRanges
  <2>1. Truncate(Blocks)
    BY <1>1 DEF ProbeRanges
  <2>2. QED
    BY <1>1, <2>1, TruncateType
       DEF ProbeRanges, TypeOK, ThreadInv, PhaseInv, Streaming, stream
<1>2. CASE ProbePlain
  <2>1. Truncate(0)
    BY <1>2 DEF ProbePlain
  <2>2. QED
    BY <1>2, <2>1, TruncateType
       DEF ProbePlain, TypeOK, ThreadInv, PhaseInv, Streaming, threads, stream
<1>3. CASE Join
  <2>1. CASE Truncate(0)
    BY <1>3, <2>1, TruncateType
       DEF Join, TypeOK, ThreadInv, PhaseInv, Streaming, threads, stream
  <2>2. CASE UNCHANGED file
    BY <1>3, <2>2 DEF Join, TypeOK, ThreadInv, PhaseInv, Streaming, file, threads, stream
  <2>3. QED
    BY <1>3, <2>1, <2>2 DEF Join
<1>4. CASE ResumeConnect
  <2>1. fullStream' \in BOOLEAN
    BY <1>4, RangeIgnoredAssumption DEF ResumeConnect, Answers
  <2>2. QED
    BY <1>4, <2>1
       DEF ResumeConnect, TypeOK, ThreadInv, PhaseInv, Streaming, file, threads
<1>5. CASE ResumeRead
  <2>1. /\ got \in Positions /\ got < 2 * Blocks
        /\ Source(got, start, fullStream) \in 0 .. Blocks - 1
    BY <1>5 DEF ResumeRead, TypeOK, PhaseInv, Positions, Source
  <2>2. /\ data' \in [Positions -> {Hole} \cup 0 .. Blocks - 1]
        /\ len' \in 0 .. 2 * Blocks
    BY <1>5, <2>1, WriteType DEF ResumeRead
  <2>3. QED
    BY <1>5, <2>1, <2>2
       DEF ResumeRead, TypeOK, ThreadInv, PhaseInv, Streaming, Source, Positions, threads
<1>6. CASE ResumeEnd
  BY <1>6 DEF ResumeEnd, ResumeRoundEnds, TypeOK, ThreadInv, PhaseInv, Streaming,
              file, threads
<1>7. CASE ResumeRefused
  BY <1>7 DEF ResumeRefused, ResumeRoundEnds, TypeOK, ThreadInv, PhaseInv, Streaming,
              file, threads
<1>8. CASE ResumeDone
  BY <1>8 DEF ResumeDone, TypeOK, ThreadInv, PhaseInv, Streaming, file, threads, stream
<1>9. CASE CheckSize
  BY <1>9 DEF CheckSize, TypeOK, ThreadInv, PhaseInv, Streaming, file, threads, stream
<1>10. CASE SingleRead
  <2>1. got \in Positions /\ got < 2 * Blocks /\ got \in 0 .. Blocks - 1
    BY <1>10 DEF SingleRead, TypeOK, Positions
  <2>2. /\ data' \in [Positions -> {Hole} \cup 0 .. Blocks - 1]
        /\ len' \in 0 .. 2 * Blocks
    BY <1>10, <2>1, WriteType DEF SingleRead
  <2>3. QED
    BY <1>10, <2>1, <2>2
       DEF SingleRead, TypeOK, ThreadInv, PhaseInv, Streaming, threads
<1>11. CASE SingleEof
  BY <1>11 DEF SingleEof, TypeOK, ThreadInv, PhaseInv, Streaming, file, threads, stream
<1>12. CASE SingleError
  BY <1>12 DEF SingleError, TypeOK, ThreadInv, PhaseInv, Streaming, file, threads, stream
<1>13. QED
  BY <1>1, <1>2, <1>3, <1>4, <1>5, <1>6, <1>7, <1>8, <1>9, <1>10, <1>11, <1>12
     DEF Main

\* Every step keeps the types.
LEMMA TypeStep == TypeInv /\ [Next]_vars => TypeInv'
<1>. SUFFICES ASSUME TypeInv, [Next]_vars PROVE TypeInv'
  OBVIOUS
<1>1. CASE Main
  BY <1>1, TypeMain
<1>2. ASSUME NEW i \in Pieces, Thread(i) PROVE TypeInv'
  BY <1>2, TypeThread
<1>3. CASE UNCHANGED vars
  BY <1>3 DEF vars, TypeInv, TypeOK, ThreadInv, PhaseInv, Streaming
<1>4. QED
  BY <1>1, <1>2, <1>3 DEF Next

\* The downloader's state is well typed: no thread writes outside the positions
\* a server's answer can reach, and no counter passes its bound.
THEOREM TypeCorrect == Spec => []TypeOK
<1>1. TypeInv => TypeOK
  BY DEF TypeInv
<1>2. QED
  BY <1>1, TypeInit, TypeStep, PTL DEF Spec

-----------------------------------------------------------------------------
(***************************************************************************)
(* Completeness.  RangedDownloadIsComplete speaks of the end only; the     *)
(* strengthening says what each thread's piece and the resumed prefix hold *)
(* on the way, and that no thread outlives the parallel phase.             *)
(***************************************************************************)

PieceRight(i, n) == \A p \in Start(i) .. n : data[p] = p

ParallelInv ==
  \A i \in Pieces :
    /\ ~full[i]
    /\ pc[i] \in {"connect", "stream"} => phase = "chunks"
    /\ phase = "chunks" /\ pc[i] = "stream" => PieceRight(i, pos[i] - 1)
    /\ phase = "chunks" /\ pc[i] = "done" => PieceRight(i, End(i))

CompleteInv ==
  /\ TypeInv
  /\ ParallelInv
  /\ ~fullStream
  /\ phase = "chunks" => len = Blocks /\ \A i \in Pieces : pc[i] # "idle"
  /\ phase \in {"resume", "resuming"} => got <= Blocks
  /\ ResumeOwnsFile
  /\ phase \in {"check", "ok"} => len = Blocks /\ RightUpTo(Blocks)

\* At the start nothing is claimed to be written.
LEMMA CompleteInit == Init => CompleteInv
BY TypeInit DEF Init, CompleteInv, ParallelInv, ResumeOwnsFile, RightUpTo

\* Writing the right block spoils nothing.
LEMMA WriteRight ==
  ASSUME TypeOK, NEW p \in Positions, Write(p, p)
  PROVE  /\ data'[p] = p
         /\ \A q \in Positions : data[q] = q => data'[q] = q
BY DEF TypeOK, Write

\* A step of one thread: only a read touches the file, and with the right block.
LEMMA CompleteThread ==
  ASSUME RangeIgnored = FALSE, CompleteInv, NEW i \in Pieces, Thread(i)
  PROVE  CompleteInv'
<1>. USE BlocksAssumption
<1>1. TypeInv'
  BY TypeThread DEF CompleteInv
<1>2. TypeOK /\ ParallelInv /\ ThreadInv /\ phase = "chunks" /\ len = Blocks
  BY DEF CompleteInv, TypeInv, ParallelInv, Thread, ChunkConnect, ChunkRead, ChunkEof, ChunkError
<1>3. \A j \in Pieces : /\ Start(j) \in 0 .. Blocks - 1
                        /\ End(j) \in Start(j) .. Blocks - 1
  BY PieceRange
<1>4. phase' = "chunks" /\ fullStream' = fullStream
  BY <1>2 DEF Thread, ChunkConnect, ChunkRead, ChunkEof, ChunkError, file, stream
<1>5. SUFFICES ParallelInv' /\ len' = Blocks /\ \A j \in Pieces : pc'[j] # "idle"
  BY <1>1, <1>2, <1>4 DEF CompleteInv, ResumeOwnsFile
<1>6. CASE ChunkConnect(i)
  <2>1. full' = [full EXCEPT ![i] = FALSE] /\ pos' = [pos EXCEPT ![i] = Start(i)]
    BY <1>6 DEF ChunkConnect, Answers
  <2>2. QED
    BY <1>2, <1>3, <1>4, <1>6, <2>1
       DEF ChunkConnect, CompleteInv, ParallelInv, PieceRight, TypeOK, file
<1>7. CASE ChunkRead(i)
  <2>1. pos[i] \in Positions /\ pos[i] <= End(i) /\ Write(pos[i], pos[i])
    BY <1>2, <1>3, <1>7 DEF ChunkRead, Source, ParallelInv, TypeOK, Positions
  <2>2. /\ data'[pos[i]] = pos[i]
        /\ \A q \in Positions : data[q] = q => data'[q] = q
    BY <1>2, <2>1, WriteRight
  <2>3. len' = Blocks
    BY <1>2, <1>3, <2>1 DEF Write, Positions
  <2>4. pos' = [pos EXCEPT ![i] = pos[i] + 1] /\ pc' = pc /\ full' = full
    BY <1>7 DEF ChunkRead
  <2>5. ASSUME NEW j \in Pieces PROVE ParallelInv!(j)'
    <3>1. \A p \in 0 .. Blocks - 1 : p \in Positions
      BY DEF Positions
    <3>2. pc[j] = "done" => PieceRight(j, End(j))'
      BY <1>2, <1>3, <2>2, <3>1 DEF ParallelInv, PieceRight
    <3>3. pc[j] = "stream" /\ j # i => PieceRight(j, pos[j] - 1)'
      BY <1>2, <1>3, <2>2, <2>4, <3>1 DEF ParallelInv, PieceRight, ThreadInv, Streaming, TypeOK, Positions
    <3>4. j = i => PieceRight(j, pos[j] - 1)'
      BY <1>2, <1>3, <1>7, <2>1, <2>2, <2>4, <3>1
         DEF ChunkRead, ParallelInv, PieceRight, TypeOK, Positions
    <3>5. QED
      BY <1>2, <1>4, <2>4, <3>2, <3>3, <3>4 DEF ParallelInv
  <2>6. QED
    BY <1>2, <1>4, <2>3, <2>4, <2>5 DEF ParallelInv, CompleteInv
<1>8. CASE ChunkEof(i)
  <2>1. pos[i] - Start(i) = Expected(i) => pos[i] - 1 = End(i)
    BY <1>2, <1>3 DEF Expected, TypeOK, Positions
  <2>2. QED
    BY <1>2, <1>4, <1>8, <2>1
       DEF ChunkEof, Retry, CompleteInv, ParallelInv, PieceRight, TypeOK, file
<1>9. CASE ChunkError(i)
  BY <1>2, <1>4, <1>9 DEF ChunkError, Retry, CompleteInv, ParallelInv, PieceRight, TypeOK, file
<1>10. QED
  BY <1>6, <1>7, <1>8, <1>9 DEF Thread

\* A step of the main thread: the join needs every piece to be right and the
\* pieces to cover the file; the fallback starts from an empty file nobody else
\* writes.
LEMMA CompleteMain ==
  ASSUME RangeIgnored = FALSE, CompleteInv, Main
  PROVE  CompleteInv'
<1>. USE BlocksAssumption
<1>1. TypeInv'
  BY TypeMain DEF CompleteInv
<1>2. TypeOK /\ ParallelInv /\ PhaseInv
  BY DEF CompleteInv, TypeInv
<1>3. CASE ProbeRanges
  BY <1>1, <1>2, <1>3
     DEF ProbeRanges, Truncate, CompleteInv, ParallelInv, ResumeOwnsFile, stream
<1>4. CASE ProbePlain
  BY <1>1, <1>2, <1>4
     DEF ProbePlain, Truncate, CompleteInv, ParallelInv, PhaseInv, ResumeOwnsFile, threads, stream
<1>5. CASE Join
  <2>1. CASE \E i \in Pieces : pc[i] = "failed"
    <3>1. phase' = "resume" /\ len' = 0 /\ got' = 0 /\ got = 0
      BY <1>2, <1>5, <2>1 DEF Join, Truncate, PhaseInv, stream
    <3>2. QED
      BY <1>1, <1>2, <1>5, <3>1
         DEF Join, CompleteInv, ParallelInv, ResumeOwnsFile, RightUpTo, threads, stream
  <2>2. CASE ~ \E i \in Pieces : pc[i] = "failed"
    <3>1. \A i \in Pieces : PieceRight(i, End(i))
      BY <1>2, <1>5, <2>2 DEF Join, ParallelInv
    <3>2. RightUpTo(Blocks)
      BY <3>1, PiecesCover DEF PieceRight, RightUpTo
    <3>3. phase' = "check" /\ UNCHANGED <<data, len, pc, full, fullStream>> /\ len = Blocks
      BY <1>5, <2>2 DEF Join, CompleteInv, file, threads, stream
    <3>4. QED
      BY <1>1, <1>2, <1>5, <3>2, <3>3
         DEF Join, CompleteInv, ParallelInv, ResumeOwnsFile, RightUpTo
  <2>3. QED
    BY <2>1, <2>2
<1>6. CASE ResumeConnect
  <2>1. fullStream' = FALSE
    BY <1>6 DEF ResumeConnect, Answers
  <2>2. QED
    BY <1>1, <1>2, <1>6, <2>1
       DEF ResumeConnect, CompleteInv, ParallelInv, ResumeOwnsFile, RightUpTo, file, threads
<1>7. CASE ResumeRead
  <2>1. got \in Positions /\ got < Blocks /\ Write(got, got) /\ len = got /\ RightUpTo(got)
    BY <1>2, <1>7 DEF ResumeRead, Source, CompleteInv, ResumeOwnsFile, TypeOK, Positions
  <2>2. /\ data'[got] = got
        /\ \A q \in Positions : data[q] = q => data'[q] = q
    BY <1>2, <2>1, WriteRight
  <2>3. got' = got + 1 /\ len' = got + 1
    BY <1>7, <2>1 DEF ResumeRead, Write, Positions
  <2>4. RightUpTo(got)'
    BY <2>1, <2>2, <2>3 DEF RightUpTo, Positions
  <2>5. QED
    BY <1>1, <1>2, <1>7, <2>1, <2>3, <2>4
       DEF ResumeRead, CompleteInv, ParallelInv, ResumeOwnsFile, Positions, threads
<1>8. CASE ResumeEnd
  BY <1>1, <1>2, <1>8
     DEF ResumeEnd, ResumeRoundEnds, CompleteInv, ParallelInv, ResumeOwnsFile, RightUpTo,
         file, threads
<1>9. CASE ResumeRefused
  BY <1>1, <1>2, <1>9
     DEF ResumeRefused, ResumeRoundEnds, CompleteInv, ParallelInv, ResumeOwnsFile, RightUpTo,
         file, threads
<1>10. CASE ResumeDone
  <2>1. got = Blocks
    BY <1>2, <1>10 DEF ResumeDone, CompleteInv, TypeOK
  <2>2. QED
    BY <1>1, <1>2, <1>10, <2>1
       DEF ResumeDone, CompleteInv, ParallelInv, ResumeOwnsFile, RightUpTo, file, threads, stream
<1>11. CASE CheckSize
  BY <1>1, <1>2, <1>11
     DEF CheckSize, CompleteInv, ParallelInv, ResumeOwnsFile, RightUpTo, file, threads, stream
<1>12. CASE SingleRead
  BY <1>1, <1>2, <1>12
     DEF SingleRead, CompleteInv, ParallelInv, ResumeOwnsFile, threads
<1>13. CASE SingleEof
  BY <1>1, <1>2, <1>13
     DEF SingleEof, CompleteInv, ParallelInv, ResumeOwnsFile, file, threads, stream
<1>14. CASE SingleError
  BY <1>1, <1>2, <1>14
     DEF SingleError, CompleteInv, ParallelInv, ResumeOwnsFile, file, threads, stream
<1>15. QED
  BY <1>3, <1>4, <1>5, <1>6, <1>7, <1>8, <1>9, <1>10, <1>11, <1>12, <1>13, <1>14
     DEF Main

\* Against a server that honours Range every step keeps the claim.
LEMMA CompleteStep ==
  ASSUME RangeIgnored = FALSE
  PROVE  CompleteInv /\ [Next]_vars => CompleteInv'
<1>. SUFFICES ASSUME CompleteInv, [Next]_vars PROVE CompleteInv'
  OBVIOUS
<1>1. CASE Main
  BY <1>1, CompleteMain
<1>2. ASSUME NEW i \in Pieces, Thread(i) PROVE CompleteInv'
  BY <1>2, CompleteThread
<1>3. CASE UNCHANGED vars
  <2>1. TypeInv'
    BY TypeStep DEF CompleteInv
  <2>2. QED
    BY <1>3, <2>1 DEF vars, CompleteInv, ParallelInv, PieceRight, ResumeOwnsFile, RightUpTo
<1>4. QED
  BY <1>1, <1>2, <1>3 DEF Next

\* With a server that honours Range, whatever the length of the file, the number
\* of threads and of tries: a file that download() fetched by ranges and reported
\* as finished has every block of the remote file.
THEOREM RangedComplete ==
  ASSUME RangeIgnored = FALSE
  PROVE  Spec => []RangedDownloadIsComplete
<1>1. CompleteInv => RangedDownloadIsComplete
  BY DEF CompleteInv, RangedDownloadIsComplete
<1>2. QED
  BY <1>1, CompleteInit, CompleteStep, PTL DEF Spec

\* Under the same assumption: while the fallback runs the file is exactly the
\* prefix it received, no thread of the parallel phase writes under it.
THEOREM ResumeOwns ==
  ASSUME RangeIgnored = FALSE
  PROVE  Spec => []ResumeOwnsFile
<1>1. CompleteInv => ResumeOwnsFile
  BY DEF CompleteInv
<1>2. QED
  BY <1>1, CompleteInit, CompleteStep, PTL DEF Spec

=============================================================================
