--------------------------- MODULE BuildPipeline ---------------------------
(***************************************************************************)
(* main() of build.py with this repository's conf and hooks: a disc image  *)
(* from VM_VHD_LINK, telnet transport, host_prepareImage.sh, host_         *)
(* waitForLoginTag.py, host_enablessh.py and host_finalizeImage.sh.  The   *)
(* build drives the Machine; it may be killed at a CrashPoint, a step may  *)
(* fail, and the next run of build.py starts over in the same tree.        *)
(***************************************************************************)
EXTENDS Machine

CONSTANTS
  CrashPoints,  \* where build.py may be killed, as values of pc
  MaxRuns       \* bound: runs of build.py in one tree

VARIABLES
  pc,        \* where main() is
  child,     \* the process launch_qemu has just started
  restarted, \* _wait_telnet's `restarted`
  runs,      \* runs started so far
  shipped    \* the exported image; NoImage when there is none

vars == <<live, pidfile, guest, disc, cache, pc, child, restarted, runs, shipped>>
buildVars == <<child, restarted, runs, shipped>>

Points == {"clear", "materialise", "prepare", "popen", "writepid", "poll", "login",
           "pushAgent", "pushLauncher", "setType", "check", "wait", "restart",
           "shutdown", "down", "restoreTemplate", "restoreChoices", "verify", "export"}
Ended == {"done", "failed"}

ASSUME CrashPointsAssumption == CrashPoints \subseteq Points
ASSUME MaxRunsAssumption == MaxRuns \in Nat \ {0}

Init ==
  /\ MachineInit
  /\ pc = "clear"
  /\ child = NoPid
  /\ restarted = FALSE
  /\ runs = 1
  /\ shipped = NoImage

Goto(from, to) == pc = from /\ pc' = to

-----------------------------------------------------------------------------
\* "Clean slate FIRST".
ClearVM ==
  /\ Goto("clear", "materialise")
  /\ Clear
  /\ UNCHANGED buildVars

\* beforeBuild, startWeb, setup and _prep_vhd_disk: a stock image, or exit.
Materialise ==
  /\ \/ Goto("materialise", "prepare") /\ disc' = StockImage
     \/ Goto("materialise", "failed") /\ UNCHANGED disc
  /\ UNCHANGED <<live, pidfile, guest, cache, buildVars>>

\* prepareImage patches the template; it, or the resize of createVMFromVHD
\* after it, may fail on either side of the patch.
PrepareImage ==
  /\ \/ Goto("prepare", "popen") /\ disc' = [disc EXCEPT !["template"] = "bootstrap"]
     \/ /\ Goto("prepare", "failed")
        /\ disc' \in {disc, [disc EXCEPT !["template"] = "bootstrap"]}
  /\ UNCHANGED <<live, pidfile, guest, cache, buildVars>>

-----------------------------------------------------------------------------
\* launch_qemu: Popen, then the pid file, then one poll of the child.
LaunchPopen ==
  /\ Goto("popen", "writepid")
  /\ \E p \in Pids : Popen(p) /\ child' = p
  /\ UNCHANGED <<pidfile, restarted, runs, shipped>>

LaunchWritePid ==
  /\ Goto("writepid", "poll")
  /\ pidfile' = child
  /\ UNCHANGED <<live, guest, disc, cache, buildVars>>

LaunchPoll ==
  /\ \/ child \in live /\ Goto("poll", "login")
     \/ child \notin live /\ Goto("poll", IF restarted THEN "wait" ELSE "failed")
  /\ UNCHANGED <<vmVars, buildVars>>

\* The waitForLoginTag hook: the probe answers, or the deadline exits build.py
\* with the machine still up.
WaitForLoginTag ==
  /\ \/ guest = "up" /\ Goto("login", IF restarted THEN "wait" ELSE "pushAgent")
     \/ Goto("login", "failed")
  /\ UNCHANGED <<vmVars, buildVars>>

-----------------------------------------------------------------------------
\* Mutant: the agent stores the archive instead of the file in it.
GuestStoresArchive(f, c) == cache' = [cache EXCEPT ![f] = "archive"]

\* The guest performs a command of the agent on one file.
GuestWrites(f, c) == cache' = [cache EXCEPT ![f] = c]

\* _ro_push: the archive is extracted and the marker comes back, or it exits;
\* the file may be there either way.
Push(from, to, f, c) ==
  /\ \/ guest = "up" /\ Goto(from, to) /\ GuestWrites(f, c)
     \/ guest = "up" /\ Goto(from, "failed") /\ GuestWrites(f, c)
     \/ Goto(from, "failed") /\ UNCHANGED cache
  /\ UNCHANGED <<live, pidfile, guest, disc, buildVars>>

PushAgent == Push("pushAgent", "pushLauncher", "agent", "file")
PushLauncher == Push("pushLauncher", "setType", "launcher", "text")

\* SetType is one line of the telnet session; its own failure shows only in
\* the transcript.
SetType ==
  /\ Goto("setType", "check")
  /\ \/ guest = "up" /\ GuestWrites("launcher", "obey")
     \/ UNCHANGED cache
  /\ UNCHANGED <<live, pidfile, guest, disc, buildVars>>

\* What the transcript of SetType, Info, Info, Type contains.  Type prints the
\* launcher, whose own text has the words Obey and TaskWindow.
TranscriptHasObey == View("launcher") \in {"text", "obey"}
TranscriptHasTaskWindow == View("launcher") \in {"text", "obey"}
TranscriptHasNotFound == View("launcher") = "absent" \/ View("agent") = "absent"

CheckTranscript ==
  /\ IF guest = "up" /\ TranscriptHasObey /\ TranscriptHasTaskWindow /\ ~TranscriptHasNotFound
       THEN pc = "check" /\ pc' \in {"wait", "failed"}
       ELSE Goto("check", "failed")
  /\ UNCHANGED <<vmVars, buildVars>>

-----------------------------------------------------------------------------
\* Mutant: the one restart is not remembered.
WaitTelnetForever ==
  /\ \/ guest = "up" /\ Goto("wait", "shutdown") /\ UNCHANGED restarted
     \/ ~restarted /\ Goto("wait", "restart") /\ UNCHANGED restarted
     \/ restarted /\ Goto("wait", "failed") /\ UNCHANGED restarted
  /\ UNCHANGED <<vmVars, child, runs, shipped>>

\* _wait_telnet: ready; or the retries are used up, which restarts the machine
\* once and then gives up with the machine still up.
WaitTelnet ==
  /\ \/ guest = "up" /\ Goto("wait", "shutdown") /\ UNCHANGED restarted
     \/ ~restarted /\ Goto("wait", "restart") /\ restarted' = TRUE
     \/ restarted /\ Goto("wait", "failed") /\ UNCHANGED restarted
  /\ UNCHANGED <<vmVars, child, runs, shipped>>

\* Mutant: the cap ends the wait without the forced power-off.
WaitVmDownNoKill(from, to) ==
  /\ Goto(from, to)
  /\ UNCHANGED <<vmVars, buildVars>>

\* _wait_vm_down: the machine is down, or the time is up and it is destroyed.
WaitVmDown(from, to) ==
  /\ Goto(from, to)
  /\ IF IsRunning THEN Destroy ELSE UNCHANGED vmVars
  /\ UNCHANGED buildVars

\* _restart asks for an ACPI power-down, which this board ignores, waits for the
\* machine to go down and starts it again.
Restart == WaitVmDown("restart", "popen")

\* shutdown_and_wait sends the command, whether or not anyone is connected.
SendShutdown ==
  /\ Goto("shutdown", "down")
  /\ guest' \in IF guest = "up" THEN {"up", "halting"} ELSE {guest}
  /\ UNCHANGED <<live, pidfile, disc, cache, buildVars>>

Down == WaitVmDown("down", "restoreTemplate")

-----------------------------------------------------------------------------
\* finalizeImage: the template by its path, then the live copy by its content,
\* which is unique once the template is stock again; then the two read-backs.
RestoreTemplate ==
  /\ IF disc["template"] = "bootstrap"
       THEN /\ Goto("restoreTemplate", "restoreChoices")
            /\ disc' = [disc EXCEPT !["template"] = "stock"]
       ELSE Goto("restoreTemplate", "failed") /\ UNCHANGED disc
  /\ UNCHANGED <<live, pidfile, guest, cache, buildVars>>

\* The files the locate by content finds.
BootstrapCopies == {f \in Files : disc[f] = "bootstrap"}

RestoreChoices ==
  /\ IF Cardinality(BootstrapCopies) = 1
       THEN /\ Goto("restoreChoices", "verify")
            /\ disc' = [f \in Files |-> IF f \in BootstrapCopies THEN "stock" ELSE disc[f]]
       ELSE Goto("restoreChoices", "failed") /\ UNCHANGED disc
  /\ UNCHANGED <<live, pidfile, guest, cache, buildVars>>

\* Mutant: the launcher is not read back.
VerifyNoLauncher ==
  /\ IF BootstrapCopies = {}
       THEN pc = "verify" /\ pc' \in {"export", "failed"}
       ELSE Goto("verify", "failed")
  /\ UNCHANGED <<vmVars, buildVars>>

VerifyImage ==
  /\ IF BootstrapCopies = {} /\ disc["launcher"] # "absent"
       THEN pc = "verify" /\ pc' \in {"export", "failed"}
       ELSE Goto("verify", "failed")
  /\ UNCHANGED <<vmVars, buildVars>>

\* exportOVA, then "Build finished."
Export ==
  /\ \/ Goto("export", "done") /\ shipped' = disc
     \/ Goto("export", "failed") /\ UNCHANGED shipped
  /\ UNCHANGED <<vmVars, child, restarted, runs>>

-----------------------------------------------------------------------------
\* build.py is killed; QEMU, in a session of its own, is not.
Crash ==
  /\ pc \in CrashPoints
  /\ pc' = "failed"
  /\ UNCHANGED <<vmVars, buildVars>>

\* Somebody runs build.py again.
Rebuild ==
  /\ pc \in Ended
  /\ runs < MaxRuns
  /\ pc' = "clear"
  /\ runs' = runs + 1
  /\ restarted' = FALSE
  /\ UNCHANGED <<vmVars, child, shipped>>

Build ==
  \/ ClearVM \/ Materialise \/ PrepareImage
  \/ LaunchPopen \/ LaunchWritePid \/ LaunchPoll \/ WaitForLoginTag
  \/ PushAgent \/ PushLauncher \/ SetType \/ CheckTranscript
  \/ WaitTelnet \/ Restart \/ SendShutdown \/ Down
  \/ RestoreTemplate \/ RestoreChoices \/ VerifyImage \/ Export

Next == Build \/ Crash \/ Rebuild \/ (Guest /\ UNCHANGED <<pc, buildVars>>)

Spec == Init /\ [][Next]_vars

\* Every wait of the build has a deadline; the guest owes it nothing.
FairSpec == Spec /\ WF_vars(Build)

-----------------------------------------------------------------------------
TypeOK ==
  /\ MachineTypeOK
  /\ pc \in Points \cup Ended
  /\ child \in Pids \cup {NoPid}
  /\ restarted \in BOOLEAN
  /\ runs \in 1 .. MaxRuns
  /\ shipped \in [Files -> Content]

\* What is exported starts nothing from the build host and has the launcher,
\* although machines were killed with unwritten buffers, the guest was restarted
\* half-way and steps of earlier runs failed or were cut short.
ShippedIsSealed ==
  shipped # NoImage => /\ shipped["template"] = "stock"
                       /\ shipped["choices"] = "stock"
                       /\ shipped["launcher"] # "absent"

\* The clean slate ("kill a VM left running by a previous run"): whatever became
\* of an earlier run, past clearVM no process of it is left that could hold the
\* forwarded port.  It is true unless build.py is killed between Popen and the write
\* of the pid file, which the comment does not except.
CleanSlate == pc \in {"materialise", "prepare", "popen"} => live = {}

\* A successful build leaves no QEMU behind.
DoneLeavesNoMachine == pc = "done" => live = {}

R == INSTANCE Release WITH
  Places <- {"template", "choices"},
  scaffold <- BootstrapCopies,
  launcher <- disc["launcher"] # "absent",
  powered <- guest # "off",
  released <- shipped # NoImage

\* The build implements the release discipline: host edits and the export only
\* with the machine off, every bootstrap removed before the export.
ImplementsRelease == R!ASpec

\* Every run of build.py comes to an end, whatever the guest does.
EveryRunEnds == (pc = "clear") ~> (pc \in Ended)

\* The conf's comment on the forced power-off: a truncated shutdown "would fail
\* the build rather than ship quietly", because finalizeImage "reads the agent's
\* files back off the exported disc".  It reads the launcher back, not the agent.
ShippedHasAgent == shipped # NoImage => shipped["agent"] = "file"

=============================================================================
