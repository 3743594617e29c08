------------------------------ MODULE Download ------------------------------
(***************************************************************************)
(* The HTTP downloader of build.py: download() probes the server, fetches  *)
(* the file as parallel Range requests (_download_chunk, one thread per    *)
(* piece, DL_ATTEMPTS tries each), falls back to one resuming stream       *)
(* (_download_resume) when a piece failed for good, and checks the size of *)
(* the file it leaves.  Without Range support, or below DL_CHUNK_MIN, it   *)
(* is one plain stream (_download_single).                                 *)
(*                                                                         *)
(* The unit of data is one resp.read(DL_BUF) buffer, a "block".  data[p]   *)
(* is the number of the block of the remote file that the local file holds *)
(* at block p, or Hole where only the zeros of truncate() are: the local   *)
(* file is right at p exactly when data[p] = p.                            *)
(***************************************************************************)
EXTENDS Integers

CONSTANTS
  Blocks,        \* length of the remote file
  Threads,       \* DL_THREADS
  ChunkMin,      \* DL_CHUNK_MIN, in blocks
  Attempts,      \* DL_ATTEMPTS
  RangeIgnored   \* may the server answer a Range request with the whole file?

ASSUME BlocksAssumption == Blocks \in Nat \ {0}
ASSUME ThreadsAssumption == Threads \in Nat \ {0}
ASSUME ChunkMinAssumption == ChunkMin \in Nat
ASSUME AttemptsAssumption == Attempts \in Nat \ {0}
ASSUME RangeIgnoredAssumption == RangeIgnored \in BOOLEAN

VARIABLES
  phase,     \* where download() is
  data, len, \* the local file: its blocks and its length
  pc,        \* where the thread of each piece is
  attempt,   \* tries each piece has used up
  pos,       \* next block of the file each piece's thread writes
  full,      \* whether the answer a thread reads ignored its Range header
  got,       \* blocks the plain or the resuming stream has received
  start,     \* got when its current connection was opened
  fullStream,\* whether that connection's answer ignored the Range header
  stalls     \* resuming rounds in a row without progress

file == <<data, len>>
threads == <<pc, attempt, pos, full>>
stream == <<got, start, fullStream, stalls>>
vars == <<phase, data, len, pc, attempt, pos, full, got, start, fullStream, stalls>>

-----------------------------------------------------------------------------
Hole == -1
Positions == 0 .. 2 * Blocks     \* where a thread may write at all
Chunk == (Blocks + Threads - 1) \div Threads
Pieces == {i \in 0 .. Threads - 1 : i * Chunk < Blocks}
Start(i) == i * Chunk
End(i) == IF Start(i) + Chunk < Blocks THEN Start(i) + Chunk - 1 ELSE Blocks - 1
Expected(i) == End(i) - Start(i) + 1

\* The answers the server may give to a Range request: 206, or 200.
Answers == IF RangeIgnored THEN BOOLEAN ELSE {FALSE}

\* The remote block a stream delivers next, when it was asked for `from`.
Source(p, from, whole) == IF whole THEN p - from ELSE p

Write(p, b) ==
  /\ data' = [data EXCEPT ![p] = b]
  /\ len' = IF p < len THEN len ELSE p + 1

\* open(fileout, "wb") and, for the parallel phase, truncate(n).
Truncate(n) ==
  /\ data' = [p \in Positions |-> Hole]
  /\ len' = n

-----------------------------------------------------------------------------
Init ==
  /\ phase = "probe"
  /\ data = [p \in Positions |-> Hole]
  /\ len = 0
  /\ pc = [i \in Pieces |-> "idle"]
  /\ attempt = [i \in Pieces |-> 0]
  /\ pos = [i \in Pieces |-> Start(i)]
  /\ full = [i \in Pieces |-> FALSE]
  /\ got = 0
  /\ start = 0
  /\ fullStream = FALSE
  /\ stalls = 0

\* _http_probe learnt the size and that ranges work: pre-size the file and
\* submit one task per piece.
ProbeRanges ==
  /\ phase = "probe"
  /\ Blocks >= ChunkMin
  /\ phase' = "chunks"
  /\ Truncate(Blocks)
  /\ pc' = [i \in Pieces |-> "connect"]
  /\ UNCHANGED <<attempt, pos, full, stream>>

\* No size, no ranges, or a small file: one stream.
ProbePlain ==
  /\ phase = "probe"
  /\ phase' = "single"
  /\ Truncate(0)
  /\ UNCHANGED <<threads, stream>>

-----------------------------------------------------------------------------
ChunkConnect(i) ==
  /\ pc[i] = "connect"
  /\ \E whole \in Answers : full' = [full EXCEPT ![i] = whole]
  /\ pc' = [pc EXCEPT ![i] = "stream"]
  /\ pos' = [pos EXCEPT ![i] = Start(i)]
  /\ UNCHANGED <<phase, file, attempt, stream>>

ChunkRead(i) ==
  /\ pc[i] = "stream"
  /\ Source(pos[i], Start(i), full[i]) <= (IF full[i] THEN Blocks - 1 ELSE End(i))
  /\ Write(pos[i], Source(pos[i], Start(i), full[i]))
  /\ pos' = [pos EXCEPT ![i] = @ + 1]
  /\ UNCHANGED <<phase, pc, attempt, full, stream>>

\* Mutant: a piece is tried once more than DL_ATTEMPTS.
RetryOnceMore(i) ==
  /\ attempt' = [attempt EXCEPT ![i] = @ + 1]
  /\ pc' = [pc EXCEPT ![i] = IF attempt[i] + 1 <= Attempts THEN "connect" ELSE "failed"]

\* An exception in a try: sleep and try again, or give up and raise.
Retry(i) ==
  /\ attempt' = [attempt EXCEPT ![i] = @ + 1]
  /\ pc' = [pc EXCEPT ![i] = IF attempt[i] + 1 < Attempts THEN "connect" ELSE "failed"]

\* Mutant: any end of the stream counts as the end of the piece.
ChunkEofUnchecked(i) ==
  /\ pc[i] = "stream"
  /\ pc' = [pc EXCEPT ![i] = "done"]
  /\ UNCHANGED <<phase, file, attempt, pos, full, stream>>

\* resp.read() returned b"": the end of the range, or a connection that
\* closed early without an error.
ChunkEof(i) ==
  /\ pc[i] = "stream"
  /\ IF pos[i] - Start(i) = Expected(i)
       THEN /\ pc' = [pc EXCEPT ![i] = "done"]
            /\ UNCHANGED attempt
       ELSE Retry(i)
  /\ UNCHANGED <<phase, file, pos, full, stream>>

\* The request is refused (402, 503, a reset) or the stream breaks.
ChunkError(i) ==
  /\ pc[i] \in {"connect", "stream"}
  /\ Retry(i)
  /\ UNCHANGED <<phase, file, pos, full, stream>>

\* Mutant: the first failure starts the fallback under the running threads.
JoinFirstFailure ==
  /\ phase = "chunks"
  /\ \/ /\ \E i \in Pieces : pc[i] = "failed"
        /\ phase' = "resume"
        /\ Truncate(0)
     \/ /\ \A i \in Pieces : pc[i] = "done"
        /\ phase' = "check"
        /\ UNCHANGED file
  /\ UNCHANGED <<threads, stream>>

\* The executor has joined every thread; any failure starts over as a stream.
Join ==
  /\ phase = "chunks"
  /\ \A i \in Pieces : pc[i] \in {"done", "failed"}
  /\ IF \E i \in Pieces : pc[i] = "failed"
       THEN /\ phase' = "resume"
            /\ Truncate(0)
       ELSE /\ phase' = "check"
            /\ UNCHANGED file
  /\ UNCHANGED <<threads, stream>>

-----------------------------------------------------------------------------
\* One round of _download_resume: Range: bytes=<got>-.
ResumeConnect ==
  /\ phase = "resume"
  /\ got < Blocks
  /\ phase' = "resuming"
  /\ start' = got
  /\ \E whole \in IF got = 0 THEN {FALSE} ELSE Answers : fullStream' = whole
  /\ UNCHANGED <<file, threads, got, stalls>>

ResumeRead ==
  /\ phase = "resuming"
  /\ Source(got, start, fullStream) < Blocks
  /\ Write(got, Source(got, start, fullStream))
  /\ got' = got + 1
  /\ UNCHANGED <<phase, threads, start, fullStream, stalls>>

\* Mutant: every round starts the stall count afresh.
ResumeRoundNeverStalls(from) == stalls' = 0 /\ phase' = "resume"

\* The stream ended or broke: progress clears the stall count.
ResumeRoundEnds(from) ==
  IF got > from
    THEN stalls' = 0 /\ phase' = "resume"
    ELSE /\ stalls' = stalls + 1
         /\ phase' = IF stalls + 1 >= Attempts THEN "fatal" ELSE "resume"

ResumeEnd ==
  /\ phase = "resuming"
  /\ ResumeRoundEnds(start)
  /\ UNCHANGED <<file, threads, got, start, fullStream>>

\* The request itself fails: a round without progress.
ResumeRefused ==
  /\ phase = "resume"
  /\ got < Blocks
  /\ start' = got
  /\ ResumeRoundEnds(got)
  /\ UNCHANGED <<file, threads, got, fullStream>>

ResumeDone ==
  /\ phase = "resume"
  /\ got >= Blocks
  /\ phase' = "check"
  /\ UNCHANGED <<file, threads, stream>>

\* os.path.getsize(fileout) against the probed size.
CheckSize ==
  /\ phase = "check"
  /\ phase' = IF len = Blocks THEN "ok" ELSE "fatal"
  /\ UNCHANGED <<file, threads, stream>>

-----------------------------------------------------------------------------
SingleRead ==
  /\ phase = "single"
  /\ got < Blocks
  /\ Write(got, got)
  /\ got' = got + 1
  /\ UNCHANGED <<phase, threads, start, fullStream, stalls>>

\* The end of the stream, early or not: nothing compares it with the size.
SingleEof ==
  /\ phase = "single"
  /\ phase' = "okPlain"
  /\ UNCHANGED <<file, threads, stream>>

SingleError ==
  /\ phase = "single"
  /\ phase' = "fatal"
  /\ UNCHANGED <<file, threads, stream>>

-----------------------------------------------------------------------------
Thread(i) == ChunkConnect(i) \/ ChunkRead(i) \/ ChunkEof(i) \/ ChunkError(i)

Main ==
  \/ ProbeRanges \/ ProbePlain \/ Join
  \/ ResumeConnect \/ ResumeRead \/ ResumeEnd \/ ResumeRefused \/ ResumeDone
  \/ CheckSize
  \/ SingleRead \/ SingleEof \/ SingleError

Next == Main \/ \E i \in Pieces : Thread(i)

Spec == Init /\ [][Next]_vars

\* Every blocking call has a timeout (DL_CONN_TIMEOUT, DL_READ_TIMEOUT): each
\* thread, and the main thread, keeps stepping.
FairSpec == Spec /\ WF_vars(Main) /\ \A i \in Pieces : WF_vars(Thread(i))

-----------------------------------------------------------------------------
Phases == {"probe", "chunks", "resume", "resuming", "check", "single",
           "ok", "okPlain", "fatal"}

TypeOK ==
  /\ phase \in Phases
  /\ data \in [Positions -> {Hole} \cup 0 .. Blocks - 1]
  /\ len \in 0 .. 2 * Blocks
  /\ pc \in [Pieces -> {"idle", "connect", "stream", "done", "failed"}]
  /\ attempt \in [Pieces -> 0 .. Attempts]
  /\ pos \in [Pieces -> Positions]
  /\ full \in [Pieces -> BOOLEAN]
  /\ got \in 0 .. 2 * Blocks
  /\ start \in 0 .. Blocks
  /\ fullStream \in BOOLEAN
  /\ stalls \in 0 .. Attempts

RightUpTo(n) == \A p \in 0 .. n - 1 : data[p] = p

\* A server that honours Range: when download() of a file it split into pieces
\* returns 0, the file has every byte of the remote one, whatever pieces broke,
\* were cut short or were fetched again, and whichever of the two paths ended it.
RangedDownloadIsComplete ==
  phase = "ok" => len = Blocks /\ RightUpTo(Blocks)

\* The fallback owns the file: no thread of the parallel phase still writes into
\* it, so it holds exactly what the resuming stream received.
ResumeOwnsFile ==
  phase \in {"resume", "resuming"} => len = got /\ RightUpTo(got)

\* download() comes to an end: its retries and its resuming rounds are bounded.
Terminates == <>(phase \in {"ok", "okPlain", "fatal"})

=============================================================================
