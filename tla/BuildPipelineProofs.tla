------------------------ MODULE BuildPipelineProofs ------------------------
(***************************************************************************)
(* The build pipeline for every set of process ids, every choice of crash  *)
(* points and any number of runs: types, what is shipped, the clean slate, *)
(* and the implementation of Release.                                      *)
(***************************************************************************)
EXTENDS BuildPipeline, FiniteSetTheorems, TLAPS

-----------------------------------------------------------------------------
(***************************************************************************)
(* The inductive invariant: where the machine is off, which process it is, *)
(* and what each file can be at each point of main().                      *)
(***************************************************************************)

\* No machine runs on the image while the host works on it.
HostPoints == {"materialise", "prepare", "popen",
               "restoreTemplate", "restoreChoices", "verify", "export", "done"}

\* The guest runs in the process launch_qemu started last, and from the write of
\* the pid file until the machine is down the file names that process.
Recorded == {"poll", "login", "pushAgent", "pushLauncher", "setType", "check", "wait",
             "restart", "shutdown", "down"}

MachineInv ==
  /\ guest # "off" => live = {child} /\ child \in Pids
  /\ guest = "off" => cache = Clean
  /\ pc \in HostPoints => guest = "off"
  /\ pc \in Recorded => pidfile = child

\* The machine only ever runs on a scaffolded image, and only the template is
\* scaffolded by the host; the guest writes what the build has it write.
FilesInv ==
  /\ guest # "off" => disc["template"] = "bootstrap"
  /\ cache["template"] = "clean"
  /\ cache["choices"] \in {"clean", "bootstrap"}
  /\ cache["agent"] \in {"clean", "file"}
  /\ cache["launcher"] \in {"clean", "text", "obey"}
  /\ disc["template"] \in {"absent", "stock", "bootstrap"}
  /\ disc["choices"] \in {"absent", "stock", "bootstrap"}
  /\ disc["agent"] \in {"absent", "file"}
  /\ disc["launcher"] \in {"absent", "text", "obey"}

StageInv ==
  /\ pc = "materialise" => disc = NoImage
  /\ pc = "prepare" => disc = StockImage
  /\ pc \in Recorded \cup {"popen", "writepid", "restoreTemplate"} =>
       disc["template"] = "bootstrap"
  /\ pc = "restoreChoices" => disc["template"] = "stock"
  /\ pc \in {"verify", "export"} => disc["template"] = "stock" /\ disc["choices"] = "stock"
  /\ pc = "export" => disc["launcher"] # "absent"

IInv == TypeOK /\ MachineInv /\ FilesInv /\ StageInv /\ ShippedIsSealed

\* The clean checkout satisfies the invariant.
LEMMA InitInv == Init => IInv
<1>. SUFFICES ASSUME Init PROVE IInv
  OBVIOUS
<1>. USE DEF Init, MachineInit
<1>1. NoImage \in [Files -> Content] /\ Clean \in [Files -> Content \cup {"clean"}]
  BY DEF NoImage, Clean, Content
<1>2. TypeOK
  <2>1. MachineTypeOK
    BY <1>1 DEF MachineTypeOK, GuestStates
  <2>2. pc \in Points /\ runs \in 1 .. MaxRuns
    BY MaxRunsAssumption DEF Points
  <2>3. QED
    BY <1>1, <2>1, <2>2 DEF TypeOK
<1>3. MachineInv /\ FilesInv /\ StageInv /\ ShippedIsSealed
  BY DEF MachineInv, FilesInv, StageInv, ShippedIsSealed, HostPoints, Recorded, NoImage,
         Clean, Files
<1>4. QED
  BY <1>2, <1>3 DEF IInv

\* The steps of the machine on its own: the guest writes what it was told to,
\* QEMU may be gone at any time.
LEMMA GuestInv ==
  ASSUME IInv, Guest, UNCHANGED <<pc, buildVars>>
  PROVE  IInv'
<1>. USE DEF IInv, TypeOK, MachineTypeOK, MachineInv, FilesInv, StageInv, ShippedIsSealed,
             buildVars
<1>1. CASE QemuExits
  BY <1>1 DEF QemuExits, PowerLoss, Clean, Files, Content, GuestStates
<1>2. CASE GuestCopiesChoices
  BY <1>2 DEF GuestCopiesChoices, View, Files, Content, GuestStates, HostPoints
<1>3. CASE GuestStartsAgent
  BY <1>3 DEF GuestStartsAgent, GuestStates
<1>4. CASE GuestHangs
  BY <1>4 DEF GuestHangs, GuestStates
<1>5. CASE GuestHalts
  BY <1>5 DEF GuestHalts, GuestStates
<1>6. ASSUME NEW f \in Files, GuestFlushes(f) PROVE IInv'
  BY <1>6 DEF GuestFlushes, Files, Content, GuestStates, HostPoints, Recorded
<1>7. QED
  BY <1>1, <1>2, <1>3, <1>4, <1>5, <1>6 DEF Guest

\* The steps of build.py, a crash and a new run.
LEMMA BuildInv ==
  ASSUME IInv, Build \/ Crash \/ Rebuild
  PROVE  IInv'
<1>. USE CrashPointsAssumption, MaxRunsAssumption, PidsAssumption
     DEF IInv, TypeOK, MachineTypeOK, MachineInv, FilesInv, StageInv, ShippedIsSealed,
         vmVars, buildVars, Goto, Points, Ended, HostPoints, Recorded, Files, Content, GuestStates
<1>1. CASE ClearVM
  BY <1>1 DEF ClearVM, Clear, PowerLoss, NoImage, Clean, IsRunning
<1>2. CASE Materialise
  BY <1>2 DEF Materialise, StockImage, NoImage
<1>3. CASE PrepareImage
  BY <1>3 DEF PrepareImage, StockImage, NoImage
<1>4. CASE LaunchPopen
  BY <1>4 DEF LaunchPopen, Popen
<1>5. CASE LaunchWritePid
  BY <1>5 DEF LaunchWritePid
<1>6. CASE LaunchPoll
  BY <1>6 DEF LaunchPoll
<1>7. CASE WaitForLoginTag
  BY <1>7 DEF WaitForLoginTag
<1>8. CASE PushAgent
  BY <1>8 DEF PushAgent, Push, GuestWrites
<1>9. CASE PushLauncher
  BY <1>9 DEF PushLauncher, Push, GuestWrites
<1>10. CASE SetType
  BY <1>10 DEF SetType, GuestWrites
<1>11. CASE CheckTranscript
  BY <1>11 DEF CheckTranscript
<1>12. CASE WaitTelnet
  <2>1. restarted' \in BOOLEAN
    BY <1>12 DEF WaitTelnet
  <2>2. pc = "wait" /\ pc' \in {"shutdown", "restart", "failed"} /\ UNCHANGED <<vmVars, child, runs, shipped>>
    BY <1>12 DEF WaitTelnet
  <2>3. QED
    BY <2>1, <2>2
<1>13. CASE Restart
  BY <1>13 DEF Restart, WaitVmDown, Destroy, PowerLoss, IsRunning, Clean
<1>14. CASE SendShutdown
  BY <1>14 DEF SendShutdown
<1>15. CASE Down
  BY <1>15 DEF Down, WaitVmDown, Destroy, PowerLoss, IsRunning, Clean
<1>16. CASE RestoreTemplate
  BY <1>16 DEF RestoreTemplate
<1>17. CASE VerifyImage
  BY <1>17 DEF VerifyImage, BootstrapCopies
<1>18. CASE Export
  BY <1>18 DEF Export, NoImage
<1>19. CASE Crash
  BY <1>19 DEF Crash
<1>20. CASE Rebuild
  <2>1. restarted' \in BOOLEAN
    BY <1>20 DEF Rebuild
  <2>. runs' \in 1 .. MaxRuns
    BY <1>20 DEF Rebuild
  <2>2. pc \in Ended /\ pc' = "clear" /\ UNCHANGED <<vmVars, child, shipped>>
    BY <1>20 DEF Rebuild
  <2>3. QED
    BY <2>1, <2>2
<1>21. CASE RestoreChoices
  <2>1. CASE Cardinality(BootstrapCopies) = 1
    <3>1. BootstrapCopies # {}
      BY <2>1, FS_EmptySet
    <3>2. BootstrapCopies = {"choices"}
      BY <1>21, <3>1 DEF RestoreChoices, BootstrapCopies
    <3>3. disc' = [f \in Files |-> IF f = "choices" THEN "stock" ELSE disc[f]]
      BY <1>21, <2>1, <3>2 DEF RestoreChoices
    <3>4. QED
      BY <1>21, <3>3 DEF RestoreChoices
  <2>2. CASE Cardinality(BootstrapCopies) # 1
    BY <1>21, <2>2 DEF RestoreChoices
  <2>3. QED
    BY <2>1, <2>2
<1>22. QED
  BY <1>1, <1>2, <1>3, <1>4, <1>5, <1>6, <1>7, <1>8, <1>9, <1>10, <1>11, <1>12, <1>13, <1>14, <1>15, <1>16, <1>17, <1>18, <1>19, <1>20, <1>21
     DEF Build

\* Every step keeps the invariant.
LEMMA StepInv == IInv /\ [Next]_vars => IInv'
<1>. SUFFICES ASSUME IInv, [Next]_vars PROVE IInv'
  OBVIOUS
<1>1. CASE Build \/ Crash \/ Rebuild
  BY <1>1, BuildInv
<1>2. CASE Guest /\ UNCHANGED <<pc, buildVars>>
  BY <1>2, GuestInv
<1>3. CASE UNCHANGED vars
  BY <1>3 DEF vars, IInv, TypeOK, MachineTypeOK, MachineInv, FilesInv, StageInv, ShippedIsSealed
<1>4. QED
  BY <1>1, <1>2, <1>3 DEF Next

\* The invariant holds throughout.
LEMMA Invariance == Spec => []IInv
BY InitInv, StepInv, PTL DEF Spec

-----------------------------------------------------------------------------
\* The state of the pipeline is well typed.
THEOREM TypeCorrect == Spec => []TypeOK
<1>1. IInv => TypeOK
  BY DEF IInv
<1>2. QED
  BY <1>1, Invariance, PTL

\* Wherever build.py is killed, however often it is run again and whatever the
\* guest does with its buffers: a released image has both copies of TimeSetup
\* back to stock and the launcher on it.
THEOREM ShippedSealed == Spec => []ShippedIsSealed
<1>1. IInv => ShippedIsSealed
  BY DEF IInv
<1>2. QED
  BY <1>1, Invariance, PTL

-----------------------------------------------------------------------------
(***************************************************************************)
(* The clean slate.  The pid file is all build.py knows of a process, so   *)
(* the invariant is that it names every one there is, but for the moment   *)
(* between Popen and the write, when the child in hand does.               *)
(***************************************************************************)
DownPoints == {"materialise", "prepare", "popen",
               "restoreTemplate", "restoreChoices", "verify", "export", "done"}

SlateInv ==
  /\ pc = "writepid" => live \subseteq {child}
  /\ pc # "writepid" => live \subseteq {pidfile}
  /\ pc \in DownPoints => live = {}

\* Before the first launch nothing lives.
LEMMA SlateInit == Init => SlateInv
BY DEF Init, MachineInit, SlateInv, DownPoints

\* A step keeps every process recorded, if build.py is not killed between Popen
\* and the write of the pid file.
LEMMA SlateStep ==
  ASSUME "writepid" \notin CrashPoints
  PROVE  TypeOK /\ SlateInv /\ [Next]_vars => SlateInv'
<1>. SUFFICES ASSUME TypeOK, SlateInv, [Next]_vars PROVE SlateInv'
  OBVIOUS
<1>. USE DEF SlateInv, DownPoints, vmVars, buildVars, Goto
<1>1. CASE ClearVM
  BY <1>1, PidsAssumption DEF ClearVM, Clear, IsRunning
<1>2. CASE Restart \/ Down
  BY <1>2 DEF Restart, Down, WaitVmDown, Destroy, IsRunning
<1>3. CASE LaunchPopen
  BY <1>3 DEF LaunchPopen, Popen
<1>4. CASE LaunchWritePid
  BY <1>4 DEF LaunchWritePid
<1>5. CASE Crash
  BY <1>5 DEF Crash
<1>6. CASE Rebuild
  BY <1>6 DEF Rebuild, Ended
<1>7. CASE Materialise \/ PrepareImage
  BY <1>7 DEF Materialise, PrepareImage
<1>8. CASE LaunchPoll \/ WaitForLoginTag
  BY <1>8 DEF LaunchPoll, WaitForLoginTag
<1>9. CASE PushAgent \/ PushLauncher \/ SetType \/ CheckTranscript
  BY <1>9 DEF PushAgent, PushLauncher, Push, SetType, CheckTranscript
<1>10. CASE WaitTelnet \/ SendShutdown
  BY <1>10 DEF WaitTelnet, SendShutdown
<1>11. CASE RestoreTemplate \/ RestoreChoices \/ VerifyImage \/ Export
  BY <1>11 DEF RestoreTemplate, RestoreChoices, VerifyImage, Export
<1>12. CASE Guest /\ UNCHANGED <<pc, buildVars>>
  BY <1>12 DEF Guest, QemuExits, GuestCopiesChoices, GuestStartsAgent, GuestHangs,
               GuestHalts, GuestFlushes
<1>13. CASE UNCHANGED vars
  BY <1>13 DEF vars
<1>. QED
  BY <1>1, <1>2, <1>3, <1>4, <1>5, <1>6, <1>7, <1>8, <1>9, <1>10, <1>11, <1>12, <1>13
     DEF Next, Build

\* Whatever became of earlier runs, past clearVM none of their processes is left.
THEOREM SlateIsClean ==
  ASSUME "writepid" \notin CrashPoints
  PROVE  Spec => []CleanSlate
<1>1. SlateInv => CleanSlate
  BY DEF SlateInv, DownPoints, CleanSlate
<1>2. TypeOK /\ SlateInv /\ [Next]_vars => SlateInv'
  BY SlateStep
<1>. QED
  BY <1>1, <1>2, SlateInit, TypeCorrect, PTL DEF Spec

\* A successful build leaves no QEMU behind.
THEOREM DoneIsDown ==
  ASSUME "writepid" \notin CrashPoints
  PROVE  Spec => []DoneLeavesNoMachine
<1>1. SlateInv => DoneLeavesNoMachine
  BY DEF SlateInv, DownPoints, DoneLeavesNoMachine
<1>2. TypeOK /\ SlateInv /\ [Next]_vars => SlateInv'
  BY SlateStep
<1>. QED
  BY <1>1, <1>2, SlateInit, TypeCorrect, PTL DEF Spec

-----------------------------------------------------------------------------
(***************************************************************************)
(* The pipeline implements Release: which abstract step each step is.      *)
(***************************************************************************)
LEMMA ReleaseInit == Init => R!AInit
BY DEF Init, MachineInit, R!AInit, BootstrapCopies, NoImage, Files

\* The steps that leave the image, the machine's power and the release alone.
LEMMA Stutters ==
  ASSUME UNCHANGED <<disc, shipped>>, guest # "off" <=> guest' # "off"
  PROVE  UNCHANGED R!avars
BY DEF R!avars, BootstrapCopies

\* The steps that only start the machine, stop it or lose it.
LEMMA Powers ==
  ASSUME UNCHANGED <<disc, shipped>>, guest # "off" <=> ~(guest' # "off")
  PROVE  R!Power
BY DEF R!Power, BootstrapCopies

\* Whether the machine runs is all that a launch or a stop tells Release.
LEMMA PowersOrStutters ==
  ASSUME UNCHANGED <<disc, shipped>>
  PROVE  [R!ANext]_(R!avars)
<1>1. CASE guest # "off" <=> guest' # "off"
  BY <1>1, Stutters
<1>2. CASE guest # "off" <=> ~(guest' # "off")
  BY <1>2, Powers DEF R!ANext
<1>. QED
  BY <1>1, <1>2

\* Every step of the build is one of Release, or none.
LEMMA ReleaseStep == IInv /\ [Next]_vars => [R!ANext]_(R!avars)
<1>. SUFFICES ASSUME IInv, [Next]_vars PROVE [R!ANext]_(R!avars)
  OBVIOUS
<1>. USE DEF buildVars, vmVars, Goto
<1>1. CASE ClearVM
  <2>1. R!Discard
    BY <1>1 DEF ClearVM, Clear, PowerLoss, R!Discard, BootstrapCopies, NoImage, Files
  <2>. QED
    BY <2>1 DEF R!ANext
<1>2. CASE Materialise
  BY <1>2 DEF Materialise, IInv, StageInv, R!avars, BootstrapCopies, StockImage, NoImage, Files
<1>3. CASE PrepareImage
  <2>1. guest = "off" /\ disc = StockImage
    BY <1>3 DEF PrepareImage, IInv, MachineInv, StageInv, HostPoints
  <2>2. CASE UNCHANGED disc
    BY <1>3, <2>2, PowersOrStutters DEF PrepareImage
  <2>3. CASE disc' = [disc EXCEPT !["template"] = "bootstrap"]
    <3>1. BootstrapCopies = {} /\ BootstrapCopies' = {"template"}
      BY <2>1, <2>3 DEF BootstrapCopies, StockImage, NoImage, Files
    <3>2. disc["launcher"] = disc'["launcher"]
      BY <2>1, <2>3 DEF StockImage, NoImage, Files
    <3>3. R!Scaffold
      BY <1>3, <2>1, <3>1, <3>2 DEF PrepareImage, R!Scaffold
    <3>. QED
      BY <3>3 DEF R!ANext
  <2>. QED
    BY <1>3, <2>2, <2>3 DEF PrepareImage
<1>4. CASE LaunchPopen
  BY <1>4, PowersOrStutters DEF LaunchPopen, Popen
<1>5. CASE LaunchWritePid \/ LaunchPoll \/ WaitForLoginTag \/ CheckTranscript \/ WaitTelnet \/ SendShutdown
  BY <1>5, PowersOrStutters
     DEF LaunchWritePid, LaunchPoll, WaitForLoginTag, CheckTranscript, WaitTelnet, SendShutdown
<1>6. CASE PushAgent \/ PushLauncher \/ SetType
  BY <1>6, PowersOrStutters DEF PushAgent, PushLauncher, Push, SetType
<1>7. CASE Restart \/ Down
  BY <1>7, PowersOrStutters DEF Restart, Down, WaitVmDown, Destroy
<1>8. CASE RestoreTemplate
  <2>1. guest = "off"
    BY <1>8 DEF RestoreTemplate, IInv, MachineInv, HostPoints
  <2>2. CASE UNCHANGED disc
    BY <1>8, <2>2, PowersOrStutters DEF RestoreTemplate
  <2>3. CASE disc["template"] = "bootstrap" /\ disc' = [disc EXCEPT !["template"] = "stock"]
    <3>1. BootstrapCopies' = BootstrapCopies \ {"template"} /\ "template" \in BootstrapCopies
      BY <2>3 DEF BootstrapCopies, Files, IInv, TypeOK, MachineTypeOK
    <3>2. disc["launcher"] = disc'["launcher"]
      BY <2>3 DEF Files, IInv, TypeOK, MachineTypeOK
    <3>3. R!Seal
      BY <1>8, <2>1, <3>1, <3>2 DEF RestoreTemplate, R!Seal
    <3>. QED
      BY <3>3 DEF R!ANext
  <2>. QED
    BY <1>8, <2>2, <2>3 DEF RestoreTemplate
<1>9. CASE RestoreChoices
  <2>1. guest = "off"
    BY <1>9 DEF RestoreChoices, IInv, MachineInv, HostPoints
  <2>2. CASE Cardinality(BootstrapCopies) # 1
    BY <1>9, <2>2, PowersOrStutters DEF RestoreChoices
  <2>3. CASE Cardinality(BootstrapCopies) = 1
    <3>1. BootstrapCopies # {}
      BY <2>3, FS_EmptySet
    <3>2. BootstrapCopies = {"choices"}
      BY <1>9, <3>1 DEF RestoreChoices, BootstrapCopies, Files, IInv, FilesInv, StageInv
    <3>3. disc' = [f \in Files |-> IF f = "choices" THEN "stock" ELSE disc[f]]
      BY <1>9, <2>3, <3>2 DEF RestoreChoices
    <3>4. disc["launcher"] = disc'["launcher"] /\ BootstrapCopies' = {}
      BY <3>2, <3>3 DEF BootstrapCopies, Files, IInv, FilesInv
    <3>5. R!Seal
      BY <1>9, <2>1, <3>2, <3>4 DEF RestoreChoices, R!Seal
    <3>. QED
      BY <3>5 DEF R!ANext
  <2>. QED
    BY <2>2, <2>3
<1>10. CASE VerifyImage
  BY <1>10, PowersOrStutters DEF VerifyImage
<1>11. CASE Export
  <2>1. CASE UNCHANGED shipped
    BY <1>11, <2>1, PowersOrStutters DEF Export
  <2>2. CASE pc = "export" /\ shipped' = disc
    <3>1. guest = "off" /\ BootstrapCopies = {} /\ disc["launcher"] # "absent"
      BY <2>2 DEF IInv, MachineInv, FilesInv, StageInv, HostPoints, BootstrapCopies, Files
    <3>2. shipped' # NoImage
      BY <2>2, <3>1 DEF NoImage, Files
    <3>3. R!Publish
      BY <1>11, <3>1, <3>2 DEF Export, R!Publish, BootstrapCopies
    <3>. QED
      BY <3>3 DEF R!ANext
  <2>. QED
    BY <1>11, <2>1, <2>2 DEF Export
<1>12. CASE Crash \/ Rebuild \/ UNCHANGED vars
  BY <1>12, PowersOrStutters DEF Crash, Rebuild, vars
<1>13. CASE Guest /\ UNCHANGED <<pc, buildVars>>
  <2>1. CASE QemuExits \/ GuestCopiesChoices \/ GuestStartsAgent \/ GuestHangs \/ GuestHalts
    BY <1>13, <2>1, PowersOrStutters
       DEF QemuExits, GuestCopiesChoices, GuestStartsAgent, GuestHangs, GuestHalts
  <2>2. ASSUME NEW f \in Files, GuestFlushes(f) PROVE R!GuestEdits
    <3>1. guest # "off" /\ disc["template"] = "bootstrap"
      BY <2>2 DEF GuestFlushes, IInv, FilesInv
    <3>2. disc' = [disc EXCEPT ![f] = cache[f]] /\ cache[f] # "clean" /\ guest' = guest
      BY <2>2 DEF GuestFlushes
    <3>3. CASE f = "choices"
      <4>1. cache[f] = "bootstrap" /\ disc'["launcher"] = disc["launcher"]
        BY <3>2, <3>3 DEF IInv, TypeOK, MachineTypeOK, FilesInv, Files
      <4>2. BootstrapCopies' = BootstrapCopies \cup {"choices"} /\ BootstrapCopies # {}
        BY <3>1, <3>2, <3>3, <4>1 DEF BootstrapCopies, Files, IInv, TypeOK, MachineTypeOK
      <4>. QED
        BY <1>13, <3>1, <3>2, <4>1, <4>2 DEF R!GuestEdits
    <3>4. CASE f \in {"agent", "launcher"}
      <4>1. cache[f] \notin {"bootstrap", "absent"} /\ disc[f] # "bootstrap"
        BY <3>2, <3>4 DEF IInv, FilesInv
      <4>2. BootstrapCopies' = BootstrapCopies
        BY <3>2, <3>4, <4>1 DEF BootstrapCopies, Files, IInv, TypeOK, MachineTypeOK
      <4>3. disc'["launcher"] # "absent" \/ disc'["launcher"] = disc["launcher"]
        BY <3>2, <3>4, <4>1 DEF Files, IInv, TypeOK, MachineTypeOK
      <4>. QED
        BY <1>13, <3>1, <3>2, <4>2, <4>3 DEF R!GuestEdits
    <3>. QED
      BY <3>2, <3>3, <3>4 DEF Files, IInv, FilesInv
  <2>. QED
    BY <1>13, <2>1, <2>2 DEF Guest, R!ANext
<1>. QED
  BY <1>1, <1>2, <1>3, <1>4, <1>5, <1>6, <1>7, <1>8, <1>9, <1>10, <1>11, <1>12, <1>13
     DEF Next, Build

\* Host edits and the export only with the machine off, and nothing exported
\* that still has a bootstrap or lacks the launcher.
THEOREM Implements == Spec => ImplementsRelease
BY ReleaseInit, ReleaseStep, Invariance, PTL DEF Spec, ImplementsRelease, R!ASpec

=============================================================================
