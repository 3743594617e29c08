----------------------------- MODULE GuestWait -----------------------------
(***************************************************************************)
(* Waiting for a booted guest: _wait_ssh() and _wait_telnet(), the hostfwd *)
(* guard that follows the guest's lease, the cutoff for a wedged guest,    *)
(* and the restart of the guest that both may ask for.                     *)
(*                                                                         *)
(* The guest, slirp's tables and QEMU's monitor are external.  The guest   *)
(* may do anything at any time.  An address is visible in the table of     *)
(* outbound flows, in the serial log, or nowhere yet.                      *)
(***************************************************************************)
EXTENDS Integers

CONSTANTS
  Transports,   \* "ssh": _wait_ssh, "telnet": _wait_telnet
  Addrs,        \* addresses a lease can have
  Expected,     \* the one that QEMU forwards to at first
  None,
  MaxRetries,   \* probes of one boot that may fail
  MaxRestarts,  \* VM_SSH_MAX_RESTARTS
  WedgeAfter,   \* failed probes before a guest can be taken for wedged
  WedgeLines,   \* new "lost interrupt" lines that make it one
  MaxLost,      \* bound: such lines in a log
  LateMoves     \* may the lease move once the guest has shown it?

ASSUME AddrsAssumption == Expected \in Addrs /\ None \notin Addrs
ASSUME CountsAssumption ==
  /\ MaxRetries \in Nat \ {0} /\ MaxRestarts \in Nat
  /\ WedgeAfter \in Nat /\ WedgeLines \in Nat \ {0} /\ MaxLost \in Nat
ASSUME SwitchAssumption == Transports \subseteq {"ssh", "telnet"} /\ LateMoves \in BOOLEAN

VARIABLES
  transport,
  running,    \* is there a QEMU?
  lease,      \* the guest's address
  flow,       \* the source of most flows in "info usernet"
  printed,    \* the last address in the serial log
  lost,       \* "lost interrupt" lines in the serial log
  serving,    \* does the guest's daemon answer?
  fwd,        \* where QEMU forwards the port to
  pc, retry, restarts, guardDone, lostBase,   \* the wait's locals
  remOk,      \* the monitor has not objected to hostfwd_remove
  attempt,    \* start_and_wait's
  told,       \* history: the last address the guard has seen in this boot
  probes,     \* history: failed probes of this boot
  newLost,    \* history: lines since the wait for this boot began
  well        \* history: failed probes of a guest that could be reached

guest == <<running, lease, flow, printed, lost, serving, fwd>>
locals == <<retry, restarts, guardDone, lostBase, remOk, attempt>>
history == <<told, probes, newLost, well>>
vars == <<transport, guest, pc, locals, history>>

\* Bound: a history counter stops one past what the properties tell apart.
Count(n, cap) == IF n > cap THEN n ELSE n + 1

\* _wait_telnet restarts once.
Limit == IF transport = "telnet" THEN 1 ELSE MaxRestarts

MaybeAddr == Addrs \cup {None}
Waiting == {"probe", "guard", "add", "cutoff", "sleep"}
Over == {"ready", "failed"}

Init ==
  /\ transport \in Transports
  /\ running = TRUE
  /\ lease = None /\ flow = None /\ printed = None
  /\ lost \in {0, 1}
  /\ serving = FALSE
  /\ fwd = Expected
  /\ pc = "probe"
  /\ retry = 0 /\ restarts = 0 /\ attempt = 0
  /\ guardDone = FALSE /\ remOk = FALSE
  /\ lostBase = lost
  /\ told = None /\ probes = 0 /\ newLost = 0 /\ well = 0

-----------------------------------------------------------------------------
(***************************************************************************)
(* One round: the probe, the guard, the cutoff, the sleep.                 *)
(***************************************************************************)
Reachable == running /\ serving /\ lease # None /\ fwd = lease

\* The monitor of a machine that is gone says nothing.
UsernetIp == IF running THEN flow ELSE None
SerialIp == printed

\* detect_guest_ip: the flows first, then the log.
Actual == IF UsernetIp # None THEN UsernetIp ELSE SerialIp

\* A guest that answers, and whose address can be seen.
Visible == running /\ serving /\ lease # None /\ Actual = lease

ProbeSucceeds ==
  /\ pc = "probe" /\ Reachable
  /\ pc' = "ready"
  /\ UNCHANGED <<transport, guest, locals, history>>

\* Even a guest that answers may be too slow for a probe.
ProbeFails ==
  /\ pc = "probe"
  /\ pc' = "guard"
  /\ probes' = Count(probes, MaxRetries + 1)
  /\ well' = IF Visible /\ ~Reachable THEN Count(well, 1) ELSE 0
  /\ UNCHANGED <<transport, guest, locals, told, newLost>>

GuardSkips ==
  /\ pc = "guard"
  /\ guardDone \/ Actual = None
  /\ pc' = "cutoff"
  /\ UNCHANGED <<transport, guest, locals, history>>

GuardMatches ==
  /\ pc = "guard" /\ ~guardDone
  /\ Actual = Expected
  /\ told' = Actual
  /\ guardDone' = TRUE
  /\ pc' = "cutoff"
  /\ UNCHANGED <<transport, guest, retry, restarts, lostBase, remOk, attempt,
                 probes, newLost, well>>

\* rewrite_hostfwd_target, first half.  No reply at all counts as a clean one.
Remove ==
  /\ pc = "guard" /\ ~guardDone
  /\ Actual \notin {None, Expected}
  /\ told' = Actual
  /\ remOk' = (running => fwd # None)
  /\ fwd' = IF running THEN None ELSE fwd
  /\ pc' = "add"
  /\ UNCHANGED <<transport, running, lease, flow, printed, lost, serving,
                 retry, restarts, guardDone, lostBase, attempt,
                 probes, newLost, well>>

\* Mutants: the new forward is asked for while the old one holds the port,
\* and then the old one is removed; a failed addition is not looked at.
AddThenRemove ==
  /\ pc = "add"
  /\ fwd' = None
  /\ guardDone' = FALSE
  /\ pc' = "cutoff"
  /\ UNCHANGED <<transport, running, lease, flow, printed, lost, serving, told,
                 retry, restarts, lostBase, remOk, attempt, probes, newLost, well>>

AddUnchecked ==
  /\ pc = "add"
  /\ fwd' \in {IF running THEN told ELSE fwd, fwd}
  /\ guardDone' = remOk
  /\ well' = IF fwd' = fwd THEN 0 ELSE well
  /\ pc' = "cutoff"
  /\ UNCHANGED <<transport, running, lease, flow, printed, lost, serving, told,
                 retry, restarts, lostBase, remOk, attempt, probes, newLost>>

\* The second half: the forward is added, or QEMU cannot set it up.
Add ==
  /\ pc = "add"
  /\ pc' = "cutoff"
  /\ \/ fwd' = (IF running THEN told ELSE fwd) /\ guardDone' = remOk /\ UNCHANGED well
     \/ running /\ UNCHANGED fwd /\ guardDone' = FALSE /\ well' = 0
  /\ UNCHANGED <<transport, running, lease, flow, printed, lost, serving, told,
                 retry, restarts, lostBase, remOk, attempt, probes, newLost>>

Wedged ==
  /\ transport = "ssh"
  /\ ~guardDone
  /\ retry >= WedgeAfter
  /\ lost - lostBase >= WedgeLines

GivesUp ==
  /\ restarts >= Limit
  /\ pc' = "failed"
  /\ UNCHANGED restarts

\* Mutant: the limit is looked at only by the branch that gives up.
RestartsUnlimited ==
  /\ restarts' = restarts + 1
  /\ pc' = "restart"

RestartsGuest ==
  /\ restarts < Limit
  /\ restarts' = restarts + 1
  /\ pc' = "restart"

\* The guest looks wedged: destroyVM() and a new boot.
Cutoff ==
  /\ pc = "cutoff" /\ Wedged
  /\ \/ GivesUp /\ UNCHANGED guest
     \/ /\ RestartsGuest
        /\ running' = FALSE /\ serving' = FALSE
        /\ UNCHANGED <<lease, flow, printed, lost, fwd>>
  /\ UNCHANGED <<transport, retry, guardDone, lostBase, remOk, attempt, history>>

NoCutoff ==
  /\ pc = "cutoff" /\ ~Wedged
  /\ pc' = "sleep"
  /\ UNCHANGED <<transport, guest, locals, history>>

\* Mutant: the round is not counted.
SleepUncounted ==
  /\ pc = "sleep"
  /\ pc' = "probe"
  /\ UNCHANGED <<transport, guest, locals, history>>

Sleep ==
  /\ pc = "sleep"
  /\ retry' = retry + 1
  /\ IF retry + 1 > MaxRetries
       THEN GivesUp \/ RestartsGuest
       ELSE pc' = "probe" /\ UNCHANGED restarts
  /\ UNCHANGED <<transport, guest, guardDone, lostBase, remOk, attempt, history>>

Round ==
  \/ ProbeSucceeds \/ ProbeFails
  \/ GuardSkips \/ GuardMatches \/ Remove \/ Add
  \/ Cutoff \/ NoCutoff \/ Sleep

-----------------------------------------------------------------------------
(***************************************************************************)
(* main()'s _restart and start_and_wait, whose result nobody looks at.     *)
(***************************************************************************)
NoGuest ==
  /\ running' = FALSE
  /\ serving' = FALSE
  /\ UNCHANGED <<lease, flow, printed, lost, fwd>>

\* The machine is asked to go down, and waited for or killed.
PowerDown ==
  /\ pc = "restart"
  /\ NoGuest
  /\ pc' = "launch" /\ attempt' = 1
  /\ UNCHANGED <<transport, retry, restarts, guardDone, lostBase, remOk, history>>

\* Mutants: the counter of probes goes on; the baseline is that of the first
\* boot.
ResumesWithoutRetry ==
  /\ pc' = "probe"
  /\ guardDone' = FALSE
  /\ lostBase' = lost
  /\ told' = None /\ probes' = 0 /\ newLost' = 0 /\ well' = 0
  /\ UNCHANGED retry

ResumesWithoutBase ==
  /\ pc' = "probe"
  /\ retry' = 0
  /\ guardDone' = FALSE
  /\ told' = None /\ probes' = 0 /\ newLost' = 0 /\ well' = 0
  /\ UNCHANGED lostBase

\* Back in the wait, for a new boot.
Resumes ==
  /\ pc' = "probe"
  /\ retry' = 0
  /\ guardDone' = FALSE
  /\ lostBase' = lost
  /\ told' = None /\ probes' = 0 /\ newLost' = 0 /\ well' = 0

\* A new QEMU truncates the log and forwards to the expected address.
Launch ==
  /\ pc = "launch"
  /\ running' = TRUE
  /\ lease' = None /\ flow' = None /\ printed' = None
  /\ lost' = 0
  /\ serving' = FALSE
  /\ fwd' = Expected
  /\ pc' = "login"
  /\ UNCHANGED <<transport, locals, told, probes, newLost, well>>

\* QEMU does not start: start_and_wait gives up at once, the wait goes on.
LaunchFails ==
  /\ pc = "launch"
  /\ Resumes
  /\ UNCHANGED <<transport, guest, restarts, remOk, attempt>>

LoginSeen ==
  /\ pc = "login" /\ running
  /\ Resumes
  /\ UNCHANGED <<transport, guest, restarts, remOk, attempt>>

\* No login prompt in time: destroyVM(), and once more, or back without a
\* machine.
LoginMissed ==
  /\ pc = "login"
  /\ NoGuest
  /\ IF attempt < 2
       THEN /\ attempt' = attempt + 1
            /\ pc' = "launch"
            /\ UNCHANGED <<retry, guardDone, lostBase, told, probes, newLost, well>>
       ELSE Resumes /\ UNCHANGED attempt
  /\ UNCHANGED <<transport, restarts, remOk>>

Restart == PowerDown \/ Launch \/ LaunchFails \/ LoginSeen \/ LoginMissed

-----------------------------------------------------------------------------
(***************************************************************************)
(* The guest.                                                              *)
(***************************************************************************)
GuestLeases(a) ==
  /\ running
  /\ a # lease
  /\ LateMoves \/ (flow = None /\ printed = None)
  /\ lease' = a
  /\ well' = 0
  /\ UNCHANGED <<transport, running, flow, printed, lost, serving, fwd, pc, locals,
                 told, probes, newLost>>

GuestTalks ==
  /\ running /\ lease # None /\ flow # lease
  /\ flow' = lease
  /\ UNCHANGED <<transport, running, lease, printed, lost, serving, fwd, pc, locals, history>>

GuestPrintsLease ==
  /\ running /\ lease # None /\ printed # lease
  /\ printed' = lease
  /\ UNCHANGED <<transport, running, lease, flow, lost, serving, fwd, pc, locals, history>>

GuestServes ==
  /\ running /\ ~serving
  /\ serving' = TRUE
  /\ UNCHANGED <<transport, running, lease, flow, printed, lost, fwd, pc, locals, history>>

GuestHangs ==
  /\ running /\ serving
  /\ serving' = FALSE
  /\ well' = 0
  /\ UNCHANGED <<transport, running, lease, flow, printed, lost, fwd, pc, locals,
                 told, probes, newLost>>

GuestLosesInterrupt ==
  /\ running /\ lost < MaxLost
  /\ lost' = lost + 1
  /\ newLost' = newLost + 1
  /\ UNCHANGED <<transport, running, lease, flow, printed, serving, fwd, pc, locals,
                 told, probes, well>>

QemuExits ==
  /\ running
  /\ NoGuest
  /\ well' = 0
  /\ UNCHANGED <<transport, pc, locals, told, probes, newLost>>

Guest ==
  /\ pc \notin Over
  /\ \/ \E a \in Addrs : GuestLeases(a)
     \/ GuestTalks \/ GuestPrintsLease \/ GuestServes \/ GuestHangs
     \/ GuestLosesInterrupt \/ QemuExits

Wait == Round \/ Restart
Next == Wait \/ Guest

Spec == Init /\ [][Next]_vars
FairSpec == Spec /\ WF_vars(Wait)

-----------------------------------------------------------------------------
(***************************************************************************)
(* Properties.                                                             *)
(***************************************************************************)
\* Types and the counters' ranges.
TypeOK ==
  /\ transport \in Transports
  /\ running \in BOOLEAN /\ serving \in BOOLEAN
  /\ lease \in MaybeAddr /\ flow \in MaybeAddr /\ printed \in MaybeAddr
  /\ fwd \in MaybeAddr /\ told \in MaybeAddr
  /\ lost \in Nat /\ lostBase \in Nat /\ newLost \in Nat
  /\ pc \in Waiting \cup {"restart", "launch", "login"} \cup Over
  /\ retry \in 0 .. MaxRetries + 1 /\ restarts \in 0 .. Limit
  /\ guardDone \in BOOLEAN /\ remOk \in BOOLEAN
  /\ attempt \in 0 .. 2
  /\ probes \in Nat /\ well \in Nat

\* rewrite_hostfwd_target(), the guard: a guard that is done means that the
\* forward goes where the guard has last seen the guest, however removals,
\* failed additions, restarts and the guest's own end interleave.
GuardMeansForwarded ==
  pc \in Waiting /\ running /\ guardDone => fwd = told

\* _wait_ssh, _wait_telnet: a guest that answers and shows its address, behind
\* a monitor that obeys, fails one probe at most; the guard mends the forward
\* before the next.
VisibleGuestReached == well <= 1

\* The budget: a boot is given up on, or thrown away, only by the cutoff or
\* after its own MaxRetries + 1 failed probes, none of an earlier boot's.
EveryBootHasItsBudget ==
  [][pc = "sleep" /\ pc' \in {"failed", "restart"} => probes = MaxRetries + 1]_vars

\* The cutoff: a storm of lost interrupts in this boot with no address in
\* sight is not waited out, whatever the log of the boot before held.
StormCutShort ==
  [][pc = "cutoff" /\ pc' = "sleep" =>
       ~ /\ transport = "ssh" /\ told = None
         /\ probes > WedgeAfter /\ newLost >= WedgeLines]_vars

\* The wait ends.
WaitEnds == <>(pc \in Over)

=============================================================================
