---------------------------- MODULE PowerOffWait ----------------------------
(***************************************************************************)
(* _wait_vm_down() of build.py: wait for QEMU to exit, judging from the    *)
(* serial log whether the guest is still getting there, and force-kill it  *)
(* when it halted without a power-off, went silent, or ran out of time.    *)
(*                                                                         *)
(* One poll is a sleep, a read of the size of the log and a read of its    *)
(* last line; the guest writes to the log at any moment between them.      *)
(* Time passes in the sleep only, a Tick at a time.                        *)
(***************************************************************************)
EXTENDS Integers

CONSTANTS
  Poll,            \* poll, in ticks
  MaxSeconds,      \* max_seconds, in ticks
  AckSilence,      \* the 60 s of silence after an acknowledgement
  ConsoleSilence,  \* the 300 s of silence on a console build
  MaxSize          \* bound: lines the guest writes

ASSUME PollAssumption == Poll \in Nat \ {0}
ASSUME MaxSecondsAssumption == MaxSeconds \in Nat \ {0}
ASSUME SilenceAssumption == AckSilence \in Nat \ {0} /\ ConsoleSilence \in Nat \ {0}
ASSUME MaxSizeAssumption == MaxSize \in Nat

VARIABLES
  sparc64,      \* VM_ARCH is sparc64
  consoleBuild, \* VM_USE_CONSOLE_BUILD is set
  pc,           \* where the wait is, or how it ended
  running,      \* is the QEMU process there?
  clock,        \* ticks slept in this poll
  elapsed, stalled, last, ack,   \* elapsed, stalled, last_size, poweroff_ack
  seen,         \* the size this poll has read
  size, tail,   \* the serial log: its length and its last line
  silence,      \* ticks since the guest last wrote to it
  quiet         \* history: the silence when this poll read the size

conf == <<sparc64, consoleBuild>>
guest == <<running, size, tail>>
vars == <<sparc64, consoleBuild, pc, running, clock, elapsed, stalled, last, ack,
          seen, size, tail, silence, quiet>>

Lines == {"other", "ack", "banner"}
Forced == {"halted", "acked", "silent", "timeout"}
Returned == Forced \cup {"down"}

-----------------------------------------------------------------------------
Init ==
  /\ sparc64 \in BOOLEAN
  /\ consoleBuild \in BOOLEAN
  /\ pc = "test"
  /\ running \in BOOLEAN
  /\ clock = 0
  /\ elapsed = 0
  /\ stalled = 0
  /\ last = -1
  /\ ack = FALSE
  /\ seen = -1
  /\ size \in 0 .. MaxSize
  /\ tail \in IF size = 0 THEN {"other"} ELSE Lines
  /\ silence = 0 /\ quiet = 0

\* while isRunning() == 0
Test ==
  /\ pc = "test"
  /\ pc' = IF running THEN "sleep" ELSE "down"
  /\ clock' = 0
  /\ UNCHANGED <<conf, guest, elapsed, stalled, last, ack, seen, silence, quiet>>

\* silence is counted no further than the wait can last.
Horizon == MaxSeconds + Poll

Tick ==
  /\ pc = "sleep"
  /\ clock < Poll
  /\ clock' = clock + 1
  /\ silence' = IF silence < Horizon THEN silence + 1 ELSE silence
  /\ UNCHANGED <<conf, pc, guest, elapsed, stalled, last, ack, seen, quiet>>

\* The sleep is over: os.path.getsize, the first half of _serial_tail_line.
ReadSize ==
  /\ pc = "sleep"
  /\ clock = Poll
  /\ pc' = "tail"
  /\ elapsed' = elapsed + Poll
  /\ seen' = size /\ quiet' = silence
  /\ UNCHANGED <<conf, guest, clock, stalled, last, ack, silence>>

\* destroyVM() and return.
ForceKill(why) == pc' = why /\ running' = FALSE

\* Mutant: the limit itself still passes.
TimeOutLate ==
  /\ IF elapsed > MaxSeconds THEN ForceKill("timeout") ELSE pc' = "test" /\ UNCHANGED running
  /\ UNCHANGED elapsed

\* The end of a poll.
TimeOut ==
  /\ IF elapsed >= MaxSeconds THEN ForceKill("timeout") ELSE pc' = "test" /\ UNCHANGED running
  /\ UNCHANGED elapsed

LatchAck == ack' = (ack \/ (~sparc64 /\ tail = "ack"))

\* Mutant: only a silent log that acknowledged clears the count.
GrewKeepsStalled == last' = seen /\ UNCHANGED stalled /\ TimeOut

Grew == last' = seen /\ stalled' = 0 /\ TimeOut

\* Mutant: a guest silent at the limit is asked again, and the wait starts over.
NotGrownAsksAgain ==
  /\ UNCHANGED last
  /\ IF elapsed >= MaxSeconds
       THEN stalled' = 0 /\ elapsed' = 0 /\ pc' = "test" /\ UNCHANGED running
       ELSE stalled' = stalled + Poll /\ TimeOut

\* Mutant: after an acknowledgement it is the wait that counts, not the silence.
NotGrownClocked ==
  /\ stalled' = stalled + Poll
  /\ UNCHANGED last
  /\ IF ack' /\ elapsed >= AckSilence
       THEN ForceKill("acked") /\ UNCHANGED elapsed
       ELSE IF consoleBuild /\ stalled' >= ConsoleSilence
       THEN ForceKill("silent") /\ UNCHANGED elapsed
       ELSE TimeOut

NotGrown ==
  /\ stalled' = stalled + Poll
  /\ UNCHANGED last
  /\ IF ack' /\ stalled' >= AckSilence
       THEN ForceKill("acked") /\ UNCHANGED elapsed
       ELSE IF consoleBuild /\ stalled' >= ConsoleSilence
       THEN ForceKill("silent") /\ UNCHANGED elapsed
       ELSE TimeOut

\* The second half of _serial_tail_line, and what the poll makes of it.
ReadTail ==
  /\ pc = "tail"
  /\ IF tail = "banner"
       THEN ForceKill("halted") /\ UNCHANGED <<elapsed, stalled, last, ack>>
       ELSE LatchAck /\ IF seen # last THEN Grew ELSE NotGrown
  /\ UNCHANGED <<conf, clock, seen, size, tail, silence, quiet>>

-----------------------------------------------------------------------------
\* The guest writes a line to the serial port.
GuestWritesLine ==
  /\ running
  /\ size < MaxSize
  /\ size' = size + 1
  /\ tail' \in Lines
  /\ silence' = 0
  /\ UNCHANGED <<conf, pc, running, clock, elapsed, stalled, last, ack, seen, quiet>>

QemuExits ==
  /\ running
  /\ running' = FALSE
  /\ UNCHANGED <<conf, pc, clock, elapsed, stalled, last, ack, seen, size, tail, silence, quiet>>

Wait == Test \/ Tick \/ ReadSize \/ ReadTail

Next == Wait \/ GuestWritesLine \/ QemuExits

Spec == Init /\ [][Next]_vars

\* The wait itself never blocks; nothing is assumed of the guest.
FairSpec == Spec /\ WF_vars(Wait)

-----------------------------------------------------------------------------
\* elapsed passes the limit by less than a poll.
TypeOK ==
  /\ sparc64 \in BOOLEAN
  /\ consoleBuild \in BOOLEAN
  /\ pc \in {"test", "sleep", "tail"} \cup Returned
  /\ running \in BOOLEAN
  /\ clock \in 0 .. Poll
  /\ elapsed \in 0 .. MaxSeconds + Poll - 1
  /\ stalled \in 0 .. MaxSeconds + Poll - 1
  /\ last \in -1 .. MaxSize
  /\ ack \in BOOLEAN
  /\ seen \in -1 .. MaxSize
  /\ size \in 0 .. MaxSize
  /\ tail \in Lines
  /\ silence \in 0 .. Horizon /\ quiet \in 0 .. Horizon

\* stalled never overstates: unless the guest has just written, it has been
\* silent for all the time the wait has counted against it.
StalledIsSilence ==
  pc = "sleep" /\ last = size => stalled + clock <= silence

\* A guest cut off for its silence had been silent for the full threshold when
\* that poll read the size, whatever it has written since; for the short one
\* it must be seen to acknowledge the shutdown, which on sparc64 counts for
\* nothing.
ForcedOnSilence ==
  /\ pc = "acked" => ack /\ ~sparc64 /\ quiet >= AckSilence
  /\ pc = "silent" => consoleBuild /\ quiet >= ConsoleSilence

\* The wait ends whatever the guest does: this is what bounds a build.
Terminates == <>(pc \in Returned)

\* The comment on sparc64: "only the "has halted" banner or the full timeout may
\* end the wait", because silence there means that the guest still syncs.  On a
\* console build the long silence ends it too, as the comment on that branch wants.
SparcWaitsForBanner == sparc64 => pc \notin {"acked", "silent"}

=============================================================================
