------------------------------ MODULE SshBuild ------------------------------
(***************************************************************************)
(* main() of build.py with the ssh transport, from the first boot of the   *)
(* installed disc to "Build finished.": the waits, the postBuild reboot,   *)
(* the package install and its one repetition, the extra script, the check *)
(* of authorized_keys, the power-off, the export, the verification boot.   *)
(*                                                                         *)
(* The guest is external: its sshd, the scripts it runs, and what it has   *)
(* written but not yet put on the disc.  The network may drop a session    *)
(* while the script it started goes on.  How the waits for a login, for    *)
(* ssh and for the power-off work inside is GuestWait's and PowerOffWait's.*)
(***************************************************************************)
EXTENDS Naturals

CONSTANTS
  Confs,   \* the confs: what VM_PRE_INSTALL_PKGS, VM_EXTRA_SCRIPT, a postBuild
           \* hook, VM_RSYNC_PKG and VM_SSHFS_PKG ask for
  Tries    \* rounds of each loop that gives a step another chance

ASSUME TriesAssumption == Tries \in Nat \ {0}
\* rsync is one of the packages.
ASSUME ConfsAssumption ==
  /\ Confs \subseteq [pkgs : BOOLEAN, extra : BOOLEAN, post : BOOLEAN,
                      rsync : BOOLEAN, sshfs : BOOLEAN]
  /\ \A c \in Confs : c.rsync => c.pkgs

VARIABLES
  conf,
  keys,      \* the guest's authorized_keys: "good", "bad" (no newline), "missing"
  powered,   \* is there a QEMU?
  reach,     \* does the forwarded port lead to an sshd that answers?
  running,   \* scripts the guest is running, each with the attempt it is of
  written,   \* what finished scripts have done, as the guest sees it
  disc,      \* the part of that which is on the disc
  lost,      \* history: written work went with the machine since the last login
  pc,        \* where main() is
  session,   \* main() waits for a command on a session that is alive
  purpose,   \* what the machine is taken down for
  try,       \* the loop's attempt
  shipped    \* what the exported disc holds

machine == <<powered, reach, running, written, disc, lost>>
vars == <<conf, keys, machine, pc, session, purpose, try, shipped>>

Work == {"pkgs", "extra"}
Scripts == Work \X (1 .. Tries)

\* Where main() waits for as long as the guest's command takes.
Unbounded == {"post", "installing", "extending", "finalize", "sendenv", "look"}
Bounded == {"login", "reach", "install", "extra", "keys", "ask", "down",
            "export", "boot", "probe", "rsync", "teardown"}
Over == {"failed", "badKeys", "noRsync", "finished"}

Init ==
  /\ conf \in Confs
  /\ keys \in {"good", "bad", "missing"}
  /\ powered = FALSE /\ reach = FALSE /\ lost = FALSE
  /\ running = {} /\ written = {} /\ disc = {} /\ shipped = {}
  /\ pc = "login" /\ session = FALSE /\ purpose = "first" /\ try = 1

\* A step that waits on ssh opens its session when it begins.
To(there) == pc' = there /\ session' = (there \in Unbounded /\ reach)
Goto(here, there) == pc = here /\ To(there)

-----------------------------------------------------------------------------
(***************************************************************************)
(* The machine and the guest.                                              *)
(***************************************************************************)
\* QEMU starts on the disc as it is.
Boot ==
  /\ powered' = TRUE /\ reach' = FALSE
  /\ running' = {} /\ written' = disc
  /\ UNCHANGED disc

\* The machine's end, with the guest's buffers on the disc or not.
Ends(flushed) ==
  /\ powered' = FALSE /\ reach' = FALSE
  /\ running' = {} /\ written' = {}
  /\ disc' = (IF flushed THEN disc \cup written ELSE disc)
  /\ lost' = (lost \/ ~(written \subseteq disc') )

\* destroyVM: nothing to do without a machine.
Destroy == IF powered THEN Ends(FALSE) ELSE UNCHANGED machine

GuestServes ==
  /\ powered /\ ~reach
  /\ reach' = TRUE
  /\ UNCHANGED <<powered, running, written, disc, lost, session>>

GuestFlushes(w) ==
  /\ w \in written \ disc
  /\ disc' = disc \cup {w}
  /\ UNCHANGED <<powered, reach, running, written, lost, session>>

Awaited(s) == (pc = "installing" \/ pc = "extending") /\ session /\ s[2] = try

\* A script nobody waits for any more ends, done or not.
OrphanEnds(s) ==
  /\ s \in running /\ ~Awaited(s)
  /\ running' = running \ {s}
  /\ written' \in {written, written \cup {s[1]}}
  /\ UNCHANGED <<powered, reach, disc, lost, session>>

\* A panic; the guest may come back by itself.
GuestDies ==
  /\ powered
  /\ reach' = FALSE /\ session' = FALSE
  /\ running' = {} /\ written' = disc
  /\ lost' = (lost \/ ~(written \subseteq disc))
  /\ UNCHANGED <<powered, disc>>

QemuExits ==
  /\ powered
  /\ Ends(FALSE)
  /\ session' = FALSE

Guest ==
  /\ pc \notin Over
  /\ \/ GuestServes \/ GuestDies \/ QemuExits
     \/ \E w \in Work : GuestFlushes(w)
     \/ \E s \in Scripts : OrphanEnds(s)
  /\ UNCHANGED <<conf, keys, pc, purpose, try, shipped>>

-----------------------------------------------------------------------------
(***************************************************************************)
(* Boots: start_and_wait, _wait_ssh, the postBuild hook's reboot, and      *)
(* shutdown_and_wait.                                                      *)
(***************************************************************************)
\* The login prompt of one of two boots.  Nobody waits for sshd before the
\* install's second attempt.
LoginSeen ==
  /\ Goto("login", IF purpose = "install" THEN "install" ELSE "reach")
  /\ Boot /\ lost' = FALSE
  /\ UNCHANGED <<conf, keys, purpose, try, shipped>>

LoginNeverSeen ==
  /\ Goto("login", "failed")
  /\ UNCHANGED <<conf, keys, machine, purpose, try, shipped>>

AfterInstall == IF conf.extra THEN "extra" ELSE "finalize"
AfterPost == IF conf.pkgs THEN "install" ELSE AfterInstall

\* _wait_ssh returns on an answer only.
Reached ==
  /\ reach
  /\ Goto("reach", IF purpose = "first" /\ conf.post THEN "post" ELSE AfterPost)
  /\ UNCHANGED <<conf, keys, machine, purpose, try, shipped>>

NotReached ==
  /\ Goto("reach", "failed")
  /\ UNCHANGED <<conf, keys, machine, purpose, try, shipped>>

PostBuild ==
  /\ Goto("post", "down")
  /\ purpose' = "post"
  /\ UNCHANGED <<conf, keys, machine, try, shipped>>

\* The guest goes down by itself, or is cut off.
Down ==
  /\ Goto("down", IF purpose = "final" THEN "export" ELSE "login")
  /\ (powered /\ Ends(TRUE)) \/ Destroy
  /\ UNCHANGED <<conf, keys, purpose, try, shipped>>

-----------------------------------------------------------------------------
(***************************************************************************)
(* The scripts piped into the guest's sh.                                  *)
(***************************************************************************)
\* Mutants: the second attempt goes to the machine of the first; there is one
\* attempt too many; the extra script's exit code is not looked at, as once.
InstallFailsNoReboot ==
  \/ try >= Tries /\ To("failed") /\ UNCHANGED <<purpose, try>>
  \/ try < Tries /\ To("install") /\ try' = try + 1 /\ UNCHANGED purpose

InstallFailsLate ==
  \/ try > Tries /\ To("failed") /\ UNCHANGED <<purpose, try>>
  \/ try <= Tries /\ To("down") /\ try' = try + 1 /\ purpose' = "install"

ExtraFailsUnseen == To("finalize") /\ UNCHANGED <<purpose, try>>

\* Another attempt after a reboot; the last one's failure is the build's.
InstallFails ==
  \/ try >= Tries /\ To("failed") /\ UNCHANGED <<purpose, try>>
  \/ try < Tries /\ To("down") /\ try' = try + 1 /\ purpose' = "install"

ExtraFails == To("failed") /\ UNCHANGED <<purpose, try>>

\* The whole script is in the guest's sh.
Sends(here, there, s) ==
  /\ Goto(here, there)
  /\ reach
  /\ running' = running \cup {s}
  /\ UNCHANGED <<powered, reach, written, disc, lost, purpose, try>>

\* rc 0.
Returns(here, there, s) ==
  /\ Goto(here, there)
  /\ session /\ s \in running
  /\ running' = running \ {s}
  /\ written' = written \cup {s[1]}
  /\ UNCHANGED <<powered, reach, disc, lost, purpose, try>>

\* The script's own failure, or rc 255: no session, or one that breaks while
\* the script may go on.
Breaks(s) == running' \in {running, running \ {s}} /\ UNCHANGED <<powered, reach, written, disc, lost>>

Install ==
  /\ \/ Sends("install", "installing", <<"pkgs", try>>)
     \/ pc = "install" /\ InstallFails /\ UNCHANGED machine
  /\ UNCHANGED <<conf, keys, shipped>>

InstallEnds ==
  /\ \/ Returns("installing", AfterInstall, <<"pkgs", try>>)
     \/ pc = "installing" /\ InstallFails /\ Breaks(<<"pkgs", try>>)
  /\ UNCHANGED <<conf, keys, shipped>>

Extra ==
  /\ \/ Sends("extra", "extending", <<"extra", try>>)
     \/ pc = "extra" /\ ExtraFails /\ UNCHANGED machine
  /\ UNCHANGED <<conf, keys, shipped>>

ExtraEnds ==
  /\ \/ Returns("extending", "finalize", <<"extra", try>>)
     \/ pc = "extending" /\ ExtraFails /\ Breaks(<<"extra", try>>)
  /\ UNCHANGED <<conf, keys, shipped>>

\* The finalize hook's exit code is not looked at.
Finalize ==
  /\ Goto("finalize", "keys")
  /\ try' = 1
  /\ UNCHANGED <<conf, keys, machine, purpose, shipped>>

-----------------------------------------------------------------------------
(***************************************************************************)
(* authorized_keys: `ssh cat`, under a ceiling, twice.                     *)
(***************************************************************************)
PowerOff == To("down") /\ purpose' = "final" /\ UNCHANGED try

Keys ==
  /\ pc = "keys"
  /\ \/ reach /\ To("ask") /\ UNCHANGED <<purpose, try>>
     \/ PowerOff
  /\ UNCHANGED <<conf, keys, machine, shipped>>

KeysRead ==
  /\ pc = "ask" /\ reach
  /\ IF keys = "good" THEN PowerOff ELSE To("badKeys") /\ UNCHANGED <<purpose, try>>
  /\ UNCHANGED <<conf, keys, machine, shipped>>

\* Mutant, once the code: no answer counts as no file.
KeysUnansweredBad ==
  /\ Goto("ask", "badKeys")
  /\ UNCHANGED <<conf, keys, machine, purpose, try, shipped>>

\* Mutant: a ceiling that only starts the call again.
KeysUnansweredAgain ==
  /\ Goto("ask", "ask")
  /\ UNCHANGED <<conf, keys, machine, purpose, try, shipped>>

\* rc 124 or 255.
KeysUnanswered ==
  /\ pc = "ask"
  /\ \/ try < Tries /\ To("ask") /\ try' = try + 1 /\ UNCHANGED purpose
     \/ try >= Tries /\ PowerOff
  /\ UNCHANGED <<conf, keys, machine, shipped>>

-----------------------------------------------------------------------------
(***************************************************************************)
(* The export and the verification boot.                                   *)
(***************************************************************************)
\* finalizeImage and exportOVA; either may exit.
Export ==
  /\ \/ /\ Goto("export", IF conf.rsync \/ conf.sshfs THEN "boot" ELSE "finished")
        /\ shipped' = disc
        /\ try' = 1
     \/ Goto("export", "failed") /\ UNCHANGED <<try, shipped>>
  /\ UNCHANGED <<conf, keys, machine, purpose>>

VerifyBoot ==
  /\ \/ Goto("boot", "probe") /\ Boot /\ UNCHANGED lost
     \/ Goto("boot", "failed") /\ UNCHANGED machine
  /\ UNCHANGED <<conf, keys, purpose, try, shipped>>

VerifyReached ==
  /\ reach
  /\ Goto("probe", "sendenv")
  /\ UNCHANGED <<conf, keys, machine, purpose, try, shipped>>

VerifyTimesOut ==
  /\ Goto("probe", IF try < Tries THEN "boot" ELSE "failed")
  /\ Destroy
  /\ try' = (IF try < Tries THEN try + 1 ELSE try)
  /\ UNCHANGED <<conf, keys, purpose, shipped>>

\* _send_env_check: the variable comes back, or something else does.
SendEnv ==
  /\ (session /\ Goto("sendenv", "look")) \/ Goto("sendenv", "failed")
  /\ UNCHANGED <<conf, keys, machine, purpose, try, shipped>>

Look ==
  /\ Goto("look", IF conf.rsync THEN "rsync" ELSE "teardown")
  /\ UNCHANGED <<conf, keys, machine, purpose, try, shipped>>

\* Mutant, once the code: the package is named and not run.
RsyncNamed ==
  /\ Goto("rsync", "teardown")
  /\ UNCHANGED <<conf, keys, machine, purpose, try, shipped>>

\* `rsync --version`: no answer counts as no rsync.
Rsync ==
  /\ \/ reach /\ "pkgs" \in disc /\ Goto("rsync", "teardown")
     \/ Goto("rsync", "noRsync")
  /\ UNCHANGED <<conf, keys, machine, purpose, try, shipped>>

Teardown ==
  /\ Goto("teardown", "finished")
  /\ Destroy
  /\ UNCHANGED <<conf, keys, purpose, try, shipped>>

Prompt ==
  \/ LoginSeen \/ LoginNeverSeen \/ Reached \/ NotReached \/ Down
  \/ Install \/ Extra \/ Keys \/ KeysRead \/ KeysUnanswered
  \/ Export \/ VerifyBoot \/ VerifyReached \/ VerifyTimesOut \/ Rsync \/ Teardown

Awaiting == PostBuild \/ InstallEnds \/ ExtraEnds \/ Finalize \/ SendEnv \/ Look

Next == Prompt \/ Awaiting \/ Guest

Spec == Init /\ [][Next]_vars

\* Every Prompt step has a deadline.  The others have none, but ssh's keepalive
\* ends them once there is nobody at the other end.
FairSpec == Spec /\ WF_vars(Prompt) /\ WF_vars(~session /\ Awaiting)

-----------------------------------------------------------------------------
(***************************************************************************)
(* Properties.                                                             *)
(***************************************************************************)
\* Types; the attempts keep to their number.
TypeOK ==
  /\ conf \in Confs
  /\ keys \in {"good", "bad", "missing"}
  /\ powered \in BOOLEAN /\ reach \in BOOLEAN /\ session \in BOOLEAN /\ lost \in BOOLEAN
  /\ running \subseteq Scripts
  /\ written \subseteq Work /\ disc \subseteq Work /\ shipped \subseteq Work
  /\ pc \in Unbounded \cup Bounded \cup Over
  /\ purpose \in {"first", "post", "install", "final"}
  /\ try \in 1 .. Tries

\* The install's reroll: a script whose session broke may still be at work in
\* the guest, and no other is ever started beside it.
OneScriptAtATime == \A s, t \in running : s = t

\* "Refusing to ship": a build that finishes has exported a disc with every
\* package and script the conf asks for, unless the guest lost what it had
\* written; and with an rsync that runs even then, if the conf names it.
ShippedAsAsked ==
  pc = "finished" =>
    /\ conf.rsync => "pkgs" \in shipped
    /\ ~lost => /\ conf.pkgs => "pkgs" \in shipped
                /\ conf.extra => "extra" \in shipped

\* "A transport failure is NOT a content verdict": once the check of authorized_keys
\* begins, a build whose keys are good gets to its export, however the sessions of
\* the check are refused, dropped or left unanswered, and the guest dies under it.
TransportIsNoVerdict == (pc = "keys" /\ keys = "good") ~> pc = "export"

\* _ssh_run and the deadlines: the build ends, or it stays in one of the calls
\* that have no ceiling, on a session to a guest that is alive.
StaysOnlyOnALiveSession ==
  <>(pc \in Over) \/ <>[](pc \in Unbounded /\ session)

=============================================================================
