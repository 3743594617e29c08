------------------------------ MODULE Machine ------------------------------
(***************************************************************************)
(* The virtual machine as build.py handles it: the QEMU process it         *)
(* launches detached and knows only through <os>.pid, the guest inside,    *)
(* and the four files of the disc image the build is about.                *)
(*                                                                         *)
(* The guest is external: RISC OS, its FileCore buffers and its boot are   *)
(* modelled from what build.py and the hooks rely on.  A guest write goes  *)
(* to a buffer first; killing QEMU loses what the guest had not flushed.   *)
(***************************************************************************)
EXTENDS Naturals, FiniteSets

CONSTANTS
  Pids,     \* ids a QEMU process can get
  NoPid     \* the pid file is missing

ASSUME PidsAssumption == NoPid \notin Pids

VARIABLES
  live,     \* running QEMU processes
  pidfile,  \* what <os>.pid holds
  guest,    \* the guest on the current image: off, booting, up, stuck, halting, halted
  disc,     \* content of each file in <os>.qcow2
  cache     \* guest writes not yet on the disc

vmVars == <<live, pidfile, guest, disc, cache>>

-----------------------------------------------------------------------------
(***************************************************************************)
(* The files: the TimeSetup template in RO530Hook, its live copy in        *)
(* Choices, the agent, and the launcher that starts it.  The launcher is   *)
(* "text" until SetType makes it an Obey file, "obey" after.               *)
(***************************************************************************)
Files == {"template", "choices", "agent", "launcher"}
Content == {"absent", "stock", "bootstrap", "file", "text", "obey"}
GuestStates == {"off", "booting", "up", "stuck", "halting", "halted"}

NoImage == [f \in Files |-> "absent"]
StockImage == [NoImage EXCEPT !["template"] = "stock"]
Clean == [f \in Files |-> "clean"]

\* What the guest sees: its buffers over the disc.
View(f) == IF cache[f] = "clean" THEN disc[f] ELSE cache[f]

MachineTypeOK ==
  /\ live \in SUBSET Pids
  /\ pidfile \in Pids \cup {NoPid}
  /\ guest \in GuestStates
  /\ disc \in [Files -> Content]
  /\ cache \in [Files -> Content \cup {"clean"}]

MachineInit ==
  /\ live = {}
  /\ pidfile = NoPid
  /\ guest = "off"
  /\ disc = NoImage
  /\ cache = Clean

-----------------------------------------------------------------------------
\* pid_alive(read_pid()), hence isRunning().
IsRunning == pidfile \in live

\* The process is gone, and with it the guest's buffers.
PowerLoss ==
  /\ guest' = "off"
  /\ cache' = Clean

\* launch_qemu's Popen.  QEMU refuses to start while another one holds the
\* forwarded port; it may also die at once for a reason of its own.
Popen(p) ==
  /\ p \notin live
  /\ \/ /\ live = {}
        /\ live' = {p}
        /\ guest' = "booting"
     \/ UNCHANGED <<live, guest>>
  /\ UNCHANGED <<disc, cache>>

\* destroyVM: TERM, then KILL, the recorded process; forget the pid.
Destroy ==
  /\ IF IsRunning
       THEN live' = live \ {pidfile} /\ PowerLoss
       ELSE UNCHANGED <<live, guest, cache>>
  /\ pidfile' = NoPid
  /\ UNCHANGED disc

\* Mutant: the state files go before the process is looked up.
ClearForgets ==
  /\ PowerLoss
  /\ pidfile' = NoPid
  /\ disc' = NoImage
  /\ UNCHANGED live

\* clearVM: destroy a running VM, remove the image and the state files.  A
\* process the pid file does not name keeps running on the unlinked image.
Clear ==
  /\ live' = IF IsRunning THEN live \ {pidfile} ELSE live
  /\ PowerLoss
  /\ pidfile' = NoPid
  /\ disc' = NoImage

-----------------------------------------------------------------------------
\* QEMU exits or crashes on its own.
QemuExits ==
  /\ live # {}
  /\ live' = {}
  /\ PowerLoss
  /\ UNCHANGED <<pidfile, disc>>

\* The first boot copies the RO530Hook template into Choices.
GuestCopiesChoices ==
  /\ guest = "booting"
  /\ View("choices") = "absent"
  /\ cache' = [cache EXCEPT !["choices"] = View("template")]
  /\ UNCHANGED <<live, pidfile, guest, disc>>

\* The Tasks entries run: the bootstrap fetches the agent, or the launcher
\* starts the installed one.
GuestStartsAgent ==
  /\ guest = "booting"
  /\ \/ View("choices") = "bootstrap"
     \/ View("launcher") = "obey" /\ View("agent") = "file"
  /\ guest' = "up"
  /\ UNCHANGED <<live, pidfile, disc, cache>>

\* An error box, a panic, a busy desktop: the agent does not answer.
GuestHangs ==
  /\ guest \in {"booting", "up", "halting"}
  /\ guest' = "stuck"
  /\ UNCHANGED <<live, pidfile, disc, cache>>

\* A buffer reaches the disc.
GuestFlushes(f) ==
  /\ guest \notin {"off", "halted"}
  /\ cache[f] # "clean"
  /\ disc' = [disc EXCEPT ![f] = cache[f]]
  /\ cache' = [cache EXCEPT ![f] = "clean"]
  /\ UNCHANGED <<live, pidfile, guest>>

\* *Shutdown has dismounted the disc; QEMU stays up.
GuestHalts ==
  /\ guest = "halting"
  /\ cache = Clean
  /\ guest' = "halted"
  /\ UNCHANGED <<live, pidfile, disc, cache>>

Guest ==
  \/ QemuExits
  \/ GuestCopiesChoices \/ GuestStartsAgent \/ GuestHangs \/ GuestHalts
  \/ \E f \in Files : GuestFlushes(f)

=============================================================================
