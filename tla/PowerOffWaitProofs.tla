------------------------- MODULE PowerOffWaitProofs -------------------------
(***************************************************************************)
(* For every poll, limit and threshold: the count of silence never         *)
(* overstates it, so the short cut-offs cut off a silent guest only.       *)
(*                                                                         *)
(* The invariant says how far the count may have got at each point of a    *)
(* poll: what a finished sleep adds to it is only booked by ReadTail.      *)
(***************************************************************************)
EXTENDS PowerOffWait, TLAPS

\* What the wait has counted so far, by the point of the poll it is at.
CountInv ==
  /\ pc \in {"test", "sleep"} => elapsed < MaxSeconds /\ stalled <= elapsed
  /\ pc = "tail" => stalled + Poll <= elapsed /\ clock = Poll /\ seen # -1
  /\ pc = "test" /\ last = size => stalled <= silence
  /\ pc = "tail" /\ last = seen => stalled + Poll <= quiet
  /\ pc = "tail" /\ seen = size => quiet <= silence

\* The log only grows, so a size once read is behind it or still right.
LogInv == last <= size /\ seen <= size

IInv ==
  /\ TypeOK
  /\ CountInv
  /\ LogInv
  /\ ack => ~sparc64
  /\ StalledIsSilence
  /\ ForcedOnSilence

USE DEF conf, guest, Returned, Forced, Horizon

-----------------------------------------------------------------------------
\* The wait starts with nothing counted.
LEMMA InitInv == Init => IInv
<1> SUFFICES ASSUME Init PROVE IInv
  OBVIOUS
<1> USE PollAssumption, MaxSecondsAssumption, MaxSizeAssumption
<1>1. TypeOK
  <2>1. sparc64 \in BOOLEAN /\ consoleBuild \in BOOLEAN /\ running \in BOOLEAN /\ ack \in BOOLEAN
    BY DEF Init
  <2>2. tail \in Lines
    BY DEF Init, Lines
  <2> QED
    BY <2>1, <2>2 DEF Init, TypeOK
<1>2. CountInv /\ LogInv /\ StalledIsSilence /\ ForcedOnSilence
  BY DEF Init, CountInv, LogInv, StalledIsSilence, ForcedOnSilence
<1> QED
  BY <1>1, <1>2 DEF Init, IInv

-----------------------------------------------------------------------------
\* The end of a poll: the limit is tested against what has been slept.
LEMMA PollEnds ==
  ASSUME IInv, pc = "tail", TimeOut
  PROVE  /\ pc' \in {"test", "timeout"}
         /\ elapsed' = elapsed
         /\ running' \in BOOLEAN
         /\ pc' = "test" => elapsed' < MaxSeconds
<1> USE PollAssumption, MaxSecondsAssumption
<1>1. CASE elapsed >= MaxSeconds
  BY <1>1 DEF TimeOut, ForceKill
<1>2. CASE ~(elapsed >= MaxSeconds)
  <2>1. running' \in BOOLEAN
    BY <1>2 DEF TimeOut, IInv, TypeOK
  <2> QED
    BY <1>2, <2>1 DEF TimeOut, IInv, TypeOK
<1> QED
  BY <1>1, <1>2

\* The latch holds only what a guest other than sparc64 acknowledged.
LEMMA LatchInv ==
  ASSUME IInv, LatchAck, UNCHANGED sparc64
  PROVE  ack' \in BOOLEAN /\ (ack' => ~sparc64')
BY DEF LatchAck, IInv, TypeOK

\* What ReadTail makes of a log that has grown.
LEMMA GrewInv ==
  ASSUME IInv, pc = "tail", seen # last, LatchAck, Grew,
         UNCHANGED <<conf, clock, seen, size, tail, silence, quiet>>
  PROVE  IInv'
<1> USE PollAssumption, MaxSecondsAssumption, MaxSizeAssumption
<1>1. /\ pc' \in {"test", "timeout"}
      /\ elapsed' = elapsed
      /\ running' \in BOOLEAN
      /\ pc' = "test" => elapsed' < MaxSeconds
  BY PollEnds DEF Grew
<1>2. ack' \in BOOLEAN /\ (ack' => ~sparc64')
  BY LatchInv
<1>3. last' = seen /\ stalled' = 0
  BY DEF Grew
<1>4. sparc64' \in BOOLEAN /\ consoleBuild' \in BOOLEAN
  BY DEF IInv, TypeOK
<1>5. TypeOK'
  BY <1>1, <1>2, <1>3, <1>4 DEF IInv, TypeOK
<1>6. CountInv' /\ LogInv' /\ StalledIsSilence' /\ ForcedOnSilence'
  BY <1>1, <1>3 DEF IInv, TypeOK, CountInv, LogInv, StalledIsSilence, ForcedOnSilence
<1> QED
  BY <1>2, <1>5, <1>6 DEF IInv

\* What it makes of one that has not: this is where a silence is booked, and
\* where the short cut-offs are.
LEMMA NotGrownInv ==
  ASSUME IInv, pc = "tail", seen = last, LatchAck, NotGrown,
         UNCHANGED <<conf, clock, seen, size, tail, silence, quiet>>
  PROVE  IInv'
<1> USE PollAssumption, MaxSecondsAssumption, MaxSizeAssumption, SilenceAssumption
<1>1. ack' \in BOOLEAN /\ (ack' => ~sparc64')
  BY LatchInv
<1>2. stalled' = stalled + Poll /\ last' = last
  BY DEF NotGrown
<1>2a. stalled' \in 0 .. MaxSeconds + Poll - 1
  BY <1>2 DEF IInv, TypeOK, CountInv
<1>3. sparc64' \in BOOLEAN /\ consoleBuild' \in BOOLEAN
  BY DEF IInv, TypeOK
<1>4. CASE ack' /\ stalled' >= AckSilence
  <2>1. pc' = "acked" /\ running' = FALSE /\ elapsed' = elapsed
    BY <1>4 DEF NotGrown, ForceKill
  <2>1a. running' \in BOOLEAN
    BY <2>1
  <2>2. TypeOK'
    BY <1>1, <1>2, <1>3, <1>2a, <2>1, <2>1a DEF IInv, TypeOK
  <2>3. CountInv' /\ LogInv' /\ StalledIsSilence'
    BY <1>2, <2>1 DEF IInv, TypeOK, CountInv, LogInv, StalledIsSilence
  <2>4. quiet' >= AckSilence
    BY <1>2, <1>4 DEF IInv, TypeOK, CountInv
  <2>5. ForcedOnSilence'
    BY <1>1, <1>4, <2>1, <2>4 DEF ForcedOnSilence
  <2> QED
    BY <1>1, <2>2, <2>3, <2>5 DEF IInv
<1>5. CASE ~(ack' /\ stalled' >= AckSilence) /\ consoleBuild /\ stalled' >= ConsoleSilence
  <2>1. pc' = "silent" /\ running' = FALSE /\ elapsed' = elapsed
    BY <1>5 DEF NotGrown, ForceKill
  <2>1a. running' \in BOOLEAN
    BY <2>1
  <2>2. TypeOK'
    BY <1>1, <1>2, <1>3, <1>2a, <2>1, <2>1a DEF IInv, TypeOK
  <2>3. CountInv' /\ LogInv' /\ StalledIsSilence'
    BY <1>2, <2>1 DEF IInv, TypeOK, CountInv, LogInv, StalledIsSilence
  <2>4. quiet' >= ConsoleSilence
    BY <1>2, <1>5 DEF IInv, TypeOK, CountInv
  <2>5. ForcedOnSilence'
    BY <1>5, <2>1, <2>4 DEF ForcedOnSilence
  <2> QED
    BY <1>1, <2>2, <2>3, <2>5 DEF IInv
<1>6. CASE /\ ~(ack' /\ stalled' >= AckSilence)
           /\ ~(consoleBuild /\ stalled' >= ConsoleSilence)
  <2>1. TimeOut
    BY <1>6 DEF NotGrown
  <2>2. /\ pc' \in {"test", "timeout"}
        /\ elapsed' = elapsed
        /\ running' \in BOOLEAN
        /\ pc' = "test" => elapsed' < MaxSeconds
    BY <2>1, PollEnds
  <2>3. TypeOK'
    BY <1>1, <1>2, <1>3, <1>2a, <2>2 DEF IInv, TypeOK
  <2>4. CountInv' /\ LogInv' /\ StalledIsSilence' /\ ForcedOnSilence'
    BY <1>2, <2>2 DEF IInv, TypeOK, CountInv, LogInv, StalledIsSilence, ForcedOnSilence
  <2> QED
    BY <1>1, <2>3, <2>4 DEF IInv
<1> QED
  BY <1>4, <1>5, <1>6

-----------------------------------------------------------------------------
\* Every step of the wait and of the guest keeps the invariant.
LEMMA StepInv == IInv /\ [Next]_vars => IInv'
<1> SUFFICES ASSUME IInv, [Next]_vars PROVE IInv'
  OBVIOUS
<1> USE PollAssumption, MaxSecondsAssumption, MaxSizeAssumption
<1>1. CASE Test
  <2>1. sparc64' \in BOOLEAN /\ consoleBuild' \in BOOLEAN /\ running' \in BOOLEAN /\ ack' \in BOOLEAN
    BY <1>1 DEF Test, IInv, TypeOK
  <2>2. pc' \in {"sleep", "down"}
    BY <1>1 DEF Test
  <2>3. TypeOK'
    BY <1>1, <2>1, <2>2 DEF Test, IInv, TypeOK
  <2>4. CountInv' /\ LogInv' /\ StalledIsSilence' /\ ForcedOnSilence'
    BY <1>1, <2>2 DEF Test, IInv, TypeOK, CountInv, LogInv, StalledIsSilence, ForcedOnSilence
  <2>5. (ack => ~sparc64)'
    BY <1>1 DEF Test, IInv
  <2> QED
    BY <2>3, <2>4, <2>5 DEF IInv
<1>2. CASE Tick
  <2>1. sparc64' \in BOOLEAN /\ consoleBuild' \in BOOLEAN /\ running' \in BOOLEAN /\ ack' \in BOOLEAN
    BY <1>2 DEF Tick, IInv, TypeOK
  <2>2. TypeOK'
    BY <1>2, <2>1 DEF Tick, IInv, TypeOK
  <2>3. StalledIsSilence'
    BY <1>2 DEF Tick, IInv, TypeOK, CountInv, StalledIsSilence
  <2>4. CountInv' /\ LogInv' /\ ForcedOnSilence'
    BY <1>2 DEF Tick, IInv, TypeOK, CountInv, LogInv, ForcedOnSilence
  <2>5. (ack => ~sparc64)'
    BY <1>2 DEF Tick, IInv
  <2> QED
    BY <2>2, <2>3, <2>4, <2>5 DEF IInv
<1>3. CASE ReadSize
  <2>1. sparc64' \in BOOLEAN /\ consoleBuild' \in BOOLEAN /\ running' \in BOOLEAN /\ ack' \in BOOLEAN
    BY <1>3 DEF ReadSize, IInv, TypeOK
  <2>2. TypeOK'
    BY <1>3, <2>1 DEF ReadSize, IInv, TypeOK, CountInv
  <2>3. CountInv'
    BY <1>3 DEF ReadSize, IInv, TypeOK, CountInv, StalledIsSilence
  <2>4. LogInv' /\ StalledIsSilence' /\ ForcedOnSilence'
    BY <1>3 DEF ReadSize, IInv, TypeOK, LogInv, StalledIsSilence, ForcedOnSilence
  <2>5. (ack => ~sparc64)'
    BY <1>3 DEF ReadSize, IInv
  <2> QED
    BY <2>2, <2>3, <2>4, <2>5 DEF IInv
<1>4. CASE ReadTail
  <2>1. CASE tail = "banner"
    <3>1. /\ pc' = "halted"
          /\ running' = FALSE
          /\ UNCHANGED <<sparc64, consoleBuild, clock, elapsed, stalled, last, ack, seen, size, tail, silence, quiet>>
      BY <1>4, <2>1 DEF ReadTail, ForceKill
    <3>2. sparc64' \in BOOLEAN /\ consoleBuild' \in BOOLEAN /\ ack' \in BOOLEAN
      BY <3>1 DEF IInv, TypeOK
    <3>3. TypeOK'
      BY <3>1, <3>2 DEF IInv, TypeOK
    <3>4. CountInv' /\ LogInv' /\ StalledIsSilence' /\ ForcedOnSilence'
      BY <3>1 DEF IInv, TypeOK, CountInv, LogInv, StalledIsSilence, ForcedOnSilence
    <3>5. (ack => ~sparc64)'
      BY <3>1 DEF IInv
    <3> QED
      BY <3>3, <3>4, <3>5 DEF IInv
  <2>2. CASE tail # "banner" /\ seen # last
    BY <1>4, <2>2, GrewInv DEF ReadTail
  <2>3. CASE tail # "banner" /\ seen = last
    BY <1>4, <2>3, NotGrownInv DEF ReadTail
  <2> QED
    BY <2>1, <2>2, <2>3
<1>5. CASE GuestWritesLine
  <2>1. sparc64' \in BOOLEAN /\ consoleBuild' \in BOOLEAN /\ running' \in BOOLEAN /\ ack' \in BOOLEAN
    BY <1>5 DEF GuestWritesLine, IInv, TypeOK
  <2>2. TypeOK'
    BY <1>5, <2>1 DEF GuestWritesLine, IInv, TypeOK
  <2>3. last' # size' /\ seen' # size' /\ LogInv'
    BY <1>5 DEF GuestWritesLine, IInv, TypeOK, LogInv
  <2>4. CountInv' /\ StalledIsSilence'
    BY <1>5, <2>3 DEF GuestWritesLine, IInv, TypeOK, CountInv, StalledIsSilence
  <2>5. ForcedOnSilence'
    BY <1>5, <2>3 DEF GuestWritesLine, IInv, ForcedOnSilence
  <2>6. (ack => ~sparc64)'
    BY <1>5 DEF GuestWritesLine, IInv
  <2> QED
    BY <2>2, <2>3, <2>4, <2>5, <2>6 DEF IInv
<1>6. CASE QemuExits \/ UNCHANGED vars
  <2>1. UNCHANGED <<sparc64, consoleBuild, pc, clock, elapsed, stalled, last, ack, seen, size, tail, silence, quiet>>
    BY <1>6 DEF QemuExits, vars
  <2>2. running' \in BOOLEAN
    BY <1>6 DEF QemuExits, vars, IInv, TypeOK
  <2>3. sparc64' \in BOOLEAN /\ consoleBuild' \in BOOLEAN /\ ack' \in BOOLEAN
    BY <2>1 DEF IInv, TypeOK
  <2>4. TypeOK'
    BY <2>1, <2>2, <2>3 DEF IInv, TypeOK
  <2>5. CountInv' /\ LogInv' /\ StalledIsSilence' /\ ForcedOnSilence' /\ (ack => ~sparc64)'
    BY <2>1 DEF IInv, CountInv, LogInv, StalledIsSilence, ForcedOnSilence
  <2> QED
    BY <2>4, <2>5 DEF IInv
<1> QED
  BY <1>1, <1>2, <1>3, <1>4, <1>5, <1>6 DEF Next, Wait

\* The invariant holds throughout.
LEMMA Invariance == Spec => []IInv
BY InitInv, StepInv, PTL DEF Spec

\* Every variable keeps its type; elapsed passes the limit by less than a poll.
THEOREM TypeCorrect == Spec => []TypeOK
<1>1. IInv => TypeOK
  BY DEF IInv
<1> QED
  BY <1>1, Invariance, PTL

\* The wait never counts more silence than there was.
THEOREM StalledCorrect == Spec => []StalledIsSilence
<1>1. IInv => StalledIsSilence
  BY DEF IInv
<1> QED
  BY <1>1, Invariance, PTL

\* A guest cut off for its silence was silent for the threshold.
THEOREM ForcedCorrect == Spec => []ForcedOnSilence
<1>1. IInv => ForcedOnSilence
  BY DEF IInv
<1> QED
  BY <1>1, Invariance, PTL

=============================================================================
