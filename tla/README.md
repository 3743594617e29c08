# The RISC OS builder in TLA+

`build.py` turns a published RISC OS SD card image into a released virtual
machine: it downloads the image, scaffolds it so that the guest starts an agent
of ours, boots it under a patched QEMU, installs the agent through the agent,
powers the machine off, removes the scaffold from the disc and exports it.  The
hazards are those of a long script around a machine it does not control: threads
that write one file, a guest that hangs or loses its buffers, a process known by
a pid file only, and a script that can be killed anywhere and is then run again in
the same tree.

All paths below are relative to the repository.

## Inventory

| Part | Where | State it keeps | Operations | What makes it correct |
|---|---|---|---|---|
| Download manager | `build.py` 1941-2106 | the local file, a try count per piece, `got` and `stalls` of the fallback | `_http_probe`, `_download_chunk` (one thread per piece), `_download_resume`, `_download_single`, `download` | success means the whole file; the fallback is alone on the file; it ends |
| Disk image preparation | `build.py` 4021-4260, 2665-2681, `hooks/host_beforeBuild.sh` | `<os>.imgzip` (or tar, gz ...), `<os>.img`, `<os>.qcow2` | `clearVM`, the hook's own fetch, `_prep_vhd_disk`, `_unzip_single_img` | what an earlier, killed run left is never taken for finished work; a bad archive is replaced |
| VM lifecycle | `build.py` 182-219, 1862-1940, 2512-2528, 2665-2681 | `<os>.pid`, the QEMU process, the port files | `launch_qemu`, `destroyVM`, `isRunning`, `clearVM`, `startVM` | one machine at a time, none left over, none the build does not know |
| Build pipeline | `build.py` 3938-3985, 4318-4500 and `hooks/` | where `main()` is, `restarted`, the disc | the chain clean slate, materialise, prepare, boot, install, power off, finalize, export | what is exported has the launcher and no scaffold; a run always ends |
| Power-off wait | `build.py` 2531-2662 | `elapsed`, `stalled`, `last_size`, `poweroff_ack` | `_wait_vm_down`, `_serial_tail_line` | it ends, and cuts off only a guest that was silent long enough |
| Guest agent and telnet transport | `files/anyvmd.py`, `build.py` 3560-3646, `hooks/host_enablessh.py` | decoder buffers, raw carry-over, the one connection served | `_fill`, `read`, `read_line`, `do_extract`, `do_create`, `run_command`, `serve`; `telnet_exec`, `_ro_push` | the tar stream arrives byte for byte however TCP cuts it; a session ends |
| Hostfwd guard | `build.py` 330-420, 3666-3930, 3938-3985 | the guest's lease, QEMU's forward, the counters of the wait | `detect_guest_ip`, `rewrite_hostfwd_target`, `_wait_ssh`, `_wait_telnet`, `_restart` | the forward follows the lease; each boot has its own budget; a wedged guest is cut short; the wait ends |
| SSH transport | `build.py` 4460-4838 | where `main()` is, the attempt, the sessions, the guest's disc | the package install and its reroll, the extra script, the keys check, the verification boot | one script at a time; what ships is what the conf asks for; a lost connection is no verdict |
| Console session, install driver | `build.py` 2136-2230, 3150-3560 | one socket, a drain thread, the screen | `ConsoleSession`, `waitForText`, `processOpts` | the socket is drained for as long as it is open; no key is lost |
| FileCore editor | `files/rofilecore.py` | the mapped disc, `frag_base`, `paths` | `_find_root`, `_walk`, `_note`, `locate`, `patch_in_place` | a patch stays in the file it was meant for, wherever the guest has put it; the scaffold is gone for good |
| nbd handling | `hooks/host_prepareImage.sh`, `hooks/host_finalizeImage.sh` | `/dev/nbd*`, the image's lock | connect, disconnect, wait for the lock | nobody opens an image still locked |
| QEMU device models | `files/qemu-riscos-raspi.patch` | device registers, rings, packet buffers | mailbox power, VCHIQ, LAN9512, DWC2, DMA | no packet lost, split or joined; every transfer ends; no wrapped length |
| CI workflows | `.github/workflows/` | the branch, the releases | build, watch, readme, sync | a push is retried until it lands or fails loudly |
| The rest | command line of QEMU, guest profile, OCR, screenshots, upstream check, QEMU build script | none | straight-line I/O | outside a model's reach |

How they interact.  `main()` calls everything in order and in one thread; only
the downloader's executor, the console session and QEMU itself run beside it.
It shares the disc image with QEMU (one of them may have it at a time), the serial
log with QEMU (which appends while it reads), the tree with earlier and later
runs of itself, and a forwarded TCP port with the agent.  The hooks are run as
child processes or executed in `build.py`'s own interpreter; a hook's non-zero
exit, or its `sys.exit`, ends the build where it stands, **with the machine still up**.

Where it gets hard, by place: see `hazards` in `PROJECT.json`, one entry per place in
the code, with the properties that cover it or the reason none does.

## Modules

    Download ............ DownloadProofs
    MediaPrep ........... MediaPrepProofs
    PowerOffWait ........ PowerOffWaitProofs
    TelnetChannel ....... TelnetChannelProofs, MCTelnetChannel (streams for TLC)
    FileCore ............ FileCoreProofs, MCFileCore (fragments and layouts for TLC)
    GuestWait ........... GuestWaitProofs
    SshBuild ............ SshBuildProofs, MCSshBuild (the confs)
    Machine
      ^ EXTENDS
    BuildPipeline ....... BuildPipelineProofs
      |  implements (INSTANCE)          MCBuildPipeline (model values)
      v
    Release

| Module | Models | Variables and the code | Actions and the code |
|---|---|---|---|
| `Download` | `download()` and its strategies | `data`, `len`: the file; `pc`, `attempt`, `pos`, `full`: a thread of `_download_chunk`; `got`, `start`, `stalls`: `_download_resume` | `ProbeRanges`, `ProbePlain`: `_http_probe`; `ChunkConnect/Read/Eof/Error`: one try of a piece; `Join`: leaving the executor; `Resume*`: the fallback; `CheckSize`: the final comparison; `Single*`: the plain stream |
| `MediaPrep` | any of the seven kinds of link to qcow2 | `archive`: what is downloaded; `img`: what it unpacks to; `qcow`; `fresh`: whether this run downloaded the archive in `_prep_vhd_disk`; `why`: how the run failed; `hurt`: history, a download of this run ended short or its disc was full | `ClearVM`, `HookFetch`, `HookAria2c`, `HookCurl`, `Prep`, `Download`, `Extract`, `Extracted`, `DecompressXz`, `DecompressedXz`, `Convert`, `Converted`, `Crash`, `Rebuild` |
| `PowerOffWait` | `_wait_vm_down` | `elapsed`, `stalled`, `last`, `ack`: its locals; `seen`: the size read in this poll; `size`, `tail`: the log; `silence`: true silence of the guest, known to no code; `quiet`: history, the silence when this poll read the size | `Test`, `Tick` (the sleep), `ReadSize` and `ReadTail` (the two halves of `_serial_tail_line`), the guest's writes between any two of them |
| `TelnetChannel` | one connection of the agent | `sent`: the client's stream; `here`: what `recv` has returned of it; `at`: what is decoded (the bytes between are `self.raw`, or what `_fill`'s loop has left); `decoded`, `taken`: what was appended to `self.buf` and what was taken off it; `filling`: in `_fill`; `pc`: in `read_line`, in tarfile, gone; `tar`: what tarfile has read | `Recv`, `Close`, `Decode*`, `FillEnds`: `_fill`; `ReadLine`, `LastLine`: `read_line` and what `serve` does with the line; `TarReads`, `TarDone`, `TarFails`: `do_extract` |
| `FileCore` | `rofilecore.py`, the commands `host_prepareImage.sh` and `host_finalizeImage.sh` give it, and the guest's file system between the two | `disc`: a text, a name, a parent and entries per sector; `base`: `frag_base`; `paths`; `cur`, `stack`, `seen`: `_walk`; `tree`: where things really are, known to the guest only | `Open`: `Volume`, `_find_root`; `Pop`, `List*`: `_walk`; `Cat`, `Patch`, `Refusal`: `locate`, `patch_in_place` and the commands; `Scan`: the hook's grep; `Guest*`: FileCore in the guest |
| `GuestWait` | `_wait_ssh`, `_wait_telnet`, `detect_guest_ip`, `rewrite_hostfwd_target`, `start_and_wait` within `_restart` | `retry`, `restarts`, `guardDone`, `lostBase`: the waits' locals; `fwd`: QEMU's forward; `lease`, `flow`, `printed`, `lost`: the guest; `told`, `probes`, `newLost`, `well`: histories for the properties | `Probe*`, `Guard*`, `Remove` and `Add` (the two halves of the rewrite), `Cutoff`, `Sleep`: a round; `PowerDown`, `Launch*`, `Login*`: the restart; `Guest*`, `QemuExits` |
| `SshBuild` | `main()` with ssh from the first boot on | `pc`, `try`, `purpose`; `session`: a call is waiting on a live session; `running`, `written`, `disc`: scripts in the guest, what they did, what of it is on the disc; `shipped`; `lost`: history, finished work went with a machine | one action per step of `main()`, two for a step that ends otherwise than it begins |
| `Machine` | QEMU, the pid file, the guest, its disc | `live`: processes; `pidfile`; `guest`; `disc` and `cache`: the four files the build is about, on the disc and in FileCore's buffers | `Popen`, `Destroy`, `Clear`; the guest's own steps |
| `BuildPipeline` | `main()` with this repository's conf and hooks | `pc`: where `main()` is; `child`: the process of `launch_qemu`; `restarted`; `shipped`: the export | one action per stage, named after the function or hook |
| `Release` | the abstract promise | where the scaffold is, whether the launcher is on the disc, whether a machine runs, whether anything is released | `Scaffold`, `Power`, `GuestEdits`, `Seal`, `Publish`, `Discard` |

`BuildPipeline` does not repeat what the other modules say: `Materialise` ends with a
whole image or fails, which `MediaPrep` establishes (`ReadyIsWhole`), and
`MediaPrep`'s `Download` ends with a whole file, or a short one, which is what
`Download` finds of its two paths.  `WaitVmDown` ends in one step with the machine
off, or by its kill, which is `PowerOffWait` seen from outside.  `RestoreTemplate`
and `RestoreChoices` write the right file or fail, which is `FileCore`'s
`SealedWhenDone` on a disc that has everything the guest wrote; and `WaitTelnet`, like `SshBuild`'s `Reached`, is `GuestWait` in one
step.

One gap is between the two.  In `FileCore` what the guest writes is on the disc at once, and
`PowerOff` loses nothing; in `BuildPipeline` a write may be lost, but a file has one place.
A machine cut off with the entry of `Choices.TimeSetup` written and its sector not, on a
disc with one stray copy of the bootstrap in a freed sector, is in neither: `locate` would
take the stray for the live copy.

In `FileCore` a file or a directory is one sector and of its bytes only the text they
begin with is kept: what the tool may get wrong is the sector, not the bytes.  It has
no allocation map and learns where a fragment is from the directories in it, so the
guest may leave anything that looks like a directory: the old block of one that has
moved, copies of the script in freed sectors.  Properties about the right sector are stated
for discs where no stale block has the name and the parent of a live one (`Paired`);
`SealedWhenDone` is stated for every disc.

`SshBuild` has the conf as a variable: what it asks for decides which steps there are.
A script is a member of `running` from the moment the guest has it until it ends,
whether or not the session that sent it still lives.

`TelnetChannel` is the inside of `BuildPipeline`'s `Push`: an extraction that the marker
confirms, or none.  A byte is a string there, and one byte stands for the text of a
whole command; what matters of the others is whether they are IAC, a telnet verb, CR,
LF or NUL.  A stream is given with its units, so that the decoder, which knows bytes
only, can be compared with what the client meant.  Tarfile is external: it reads whole
records, refuses a first header that is not one, may fail at any record, and stops after
the record with the first block of zeros.

The guest is external: RISC OS, its first boot and its buffers are modelled from what
the hooks and `conf/riscos-5.30-armv7.conf` rely on.  It may hang, die or halt at any
moment and flush its buffers in any order or not at all; nothing is assumed of it.

On this repository's path the second `start_and_wait` attempt of `main()` does not
happen: `hooks/host_waitForLoginTag.py` exits the build on its deadline rather than
returning.  The one restart there is comes from `_wait_telnet`.

## Runs

| Run | Bounds | Question |
|---|---|---|
| `download` | 5 blocks, 3 threads (pieces of 2, 2, 1), 2 tries | Against a server that honours Range, is a finished download complete, does the fallback have the file to itself, does it end? |
| `media` | 3 runs in one tree, all seven kinds of link | Is the image the build goes on with whole, wherever anything looks, does it call an archive corrupt only for a fault of its own, does every run end? |
| `media_leftover` (violation) | as `media`, zip | Is a corrupt leftover always fetched again? No: a `zlib.error` is not caught |
| `power_off` | polls of 2 ticks, thresholds of 2 and 3 polls, 6 polls in all, 3 lines | Is silence never overstated, is a guest cut off for silence only if it had been silent that long when its log was measured, does the wait end? |
| `power_off_sparc64` (violation) | as `power_off` | Does a sparc64 guest get the banner or the full timeout? Not on a console build |
| `build` | 2 process ids, 2 runs, killed anywhere but at `writepid` | Is what ships sealed, is the slate clean, is no machine left, is `Release` implemented, does every run end? |
| `build_agent` (violation) | 1 run | Does a truncated shutdown fail the build? Not when the agent's own buffers are the lost ones |
| `telnet` | pushes of 2 and 3 records of 2 bytes, one with a record of zeros behind; a plain session of two commands and one with a negotiation of every kind; every cut, every end | Is every stream decoded as meant, does the marker mean a whole archive, are only the client's lines run, does the agent come back? |
| `filecore` | 3 fragments of 3 sectors, 4 layouts, up to 9 objects, one old block at a time | Are fragments placed right, is every object found where it is, does a patch change only the file it names, is no scaffold left, is no regular disc refused? |
| `wait` | 4 probes to a boot, 2 restarts (1 for telnet), 2 addresses, a storm of 2 lines of 3 | Does a done guard forward right, is a visible guest reached at the next probe, has every boot its budget, is a storm cut short, does the wait end? |
| `wait_moves` (violation) | as `wait`, and a lease may move after it was seen | Does the forward follow the guest? Not once the guard is done |
| `ssh_build` | 2 attempts, all 24 confs | Is there one script at a time, is what ships what the conf asks for, do good keys get to the export whatever the network does, does the build stay only on a live session? |

Why the bounds are enough.  Three pieces of unequal length with two tries each have
every combination of a piece that succeeds at once, on its last try and never, beside
one that still runs, and the short last piece; the fallback's rounds can progress,
stall, progress again and give up.  Two runs are one that leaves something and one that
finds it; a third (`media`) finds what the second left of what the first left.  Two
process ids are the machine of the pid file and one it does not name.  Polls of two
ticks let a line fall inside a sleep, at its edge and between the two reads; six polls
reach both thresholds, with an interruption, before the limit.  A line written by the
guest matters only for its kind and the moment it comes, and three lines are enough to
break the silence, acknowledge and break it again.  A telnet sequence has at most five
bytes here, `recv` returns any number of bytes from one to all, and the streams have a
doubled IAC, CR, LF and a command's text inside an archive, two doubled IACs side by
side, and an offer whose option is IAC itself; what the decoder may confuse is there, at
every cut.

Three fragments, whose ids are not in the order of their places, give a directory and its
file in one fragment and in two, a fragment with no directory in it (`locate` then falls
back on content) and a stale block before or behind the live one.  Two addresses are the one
QEMU forwards to and another; four probes are enough for the guard, the cutoff and the
budget to meet, and two restarts carry something of a boot over to the next and the next.
Two attempts are a first one and a last one, which is all the loops of `main()` tell apart.

### Fairness

The program's own steps are weakly fair, the environment's never are:

* `Download`: each thread and the main thread.  Every blocking call has a timeout
  (`DL_CONN_TIMEOUT`, `DL_READ_TIMEOUT`), after which it returns or raises.
* `BuildPipeline`: `Build` as a whole.  Each of its waits has a deadline: 900 s for
  the login, 100 retries in `_wait_telnet`, `max_seconds` in `_wait_vm_down`, the
  timeouts of the agent's sessions.  What stands for the deadline is always a
  disjunct of the action, so the guest need not answer.
* `MediaPrep`: `Step` as a whole; downloads and child processes end.
* `PowerOffWait`: `Wait` as a whole; it sleeps, reads a file and looks at a process.
* `GuestWait`: `Wait` as a whole.  Probes, the monitor and the boots have timeouts; the
  guest and slirp's tables owe nothing.
* `SshBuild`: the steps with a deadline (`Prompt`), and those without one only while they
  have no live session (`~session /\ Awaiting`): ssh's keepalive, `ServerAliveInterval` times
  `ServerAliveCountMax`, ends them.  On a live session they may last for ever, and
  `StaysOnlyOnALiveSession` says that nothing else can.
* `FileCore`: none; its properties are about what is done, and a hook that stops has failed.
* `TelnetChannel`: `Agent` and `Network`, one each.  The agent's loops run and
  `os.system` returns; a client that has nothing more to say closes, as `telnet_exec`,
  `_ro_push` (90 s) and the probes all do.

Deadlock checking is off in every run: `build.py`, `download()`, the waits, the hooks and
a connection all end.

### What the violations show

Four places where a comment or docstring says one thing and the code does another;
`findings` in `PROJECT.json` quotes them.  One reaches the released image in the worst
case: a machine cut off with the agent's file unwritten ships without it (`build_agent`),
because only the launcher is read back.  The others cost a build: a killed run's torn zip
fails every later build until someone deletes it (`media_leftover`); a guest that
renews its lease to another address after the guard is done is probed at the old one for
the rest of the boot (`wait_moves`); and a sparc64 guest that syncs its disks in silence is
cut off on a console build (`power_off_sparc64`), where the comment above allows the banner and
the full timeout only.  The comment on that branch wants it so: the two comments disagree.

Smaller observations have no run of their own.

In the downloader: a plain stream that ends early counts as complete (`build.py` 2019),
whatever the comment on the size check says; and a server that answers a Range request with 200
and the whole file (`RangeIgnored = TRUE`) breaks `RangedDownloadIsComplete`: no status
code is looked at.

In the preparation: the comments at `build.py` 4094-4097 and 4125-4128 describe `<os>.img`
as a cache kept for a retry, while `clearVM` removes it at the start of every run; the
mutant `ClearKeepsImg` shows the code is the better of the two.  A raw image, a qcow2, and
what a qcow2.gz was unpacked to are taken from an earlier run without a look, and a torn
one is converted; a torn xz is never replaced.  `Vouched` and the exception in
`CorruptIsItsOwn` say so.

In the pipeline: killed between `Popen` and the pid file, a run leaves a QEMU that the next
one cannot see (`CleanSlate` fails with `"writepid"` among the crash points).  The check of
the launcher's type reads the text of the file, which matches by itself.

In the power-off wait: the size of the log is read before its last line, and the silence
before an acknowledgement counts like the one after it.  A guest that acknowledges between the two
reads, at the end of a long silence, is cut off in that poll, where the comment speaks of "60 s
of dead-silence AFTER the ack".  What `ForcedOnSilence` says is what holds: when the size was
read, the guest had been silent for as long as the threshold asks, whatever for.

In the FileCore editor: the old block of a moved directory, when it comes first on the disc,
is taken for the directory and its place for that of the fragment; the patch that follows
is refused, or hits another copy of the same text, and the final scan fails the
build if the bootstrap is left anywhere.  `cat --prefix` does not look at the prefix of a
file that is placed by calibration.  An empty directory is not found at all.

In the waits: a monitor that says nothing counts as one that agreed; after a removal that worked
and an addition that did not, the next removal is "not found" and the rewrite returns
False though its addition works, so that the guard asks once more; the cutoff looks at `guard_done` where its comment
says "no guest IP anywhere"; and `_restart` drops what `start_and_wait` returns, so that a
guest which never came up is still probed for a whole budget.

In the ssh build: a verification boot that `_send_env_check` or `rsync --version` fails leaves
its QEMU behind, because the teardown, meant so that it "doesn't outlive this build" (4817),
is behind both returns; the install, the extra script, the hooks and `_send_env_check` have no
ceiling, though `_ssh_run`'s docstring speaks of calls without one as past; the second
attempt of the install waits for the login prompt and not for sshd; no guard watches the lease of that
boot or of the verification; a guest that panics and reboots by itself takes finished
work along unseen, which is the exception `lost` in `ShippedAsAsked`; a conf that asks for
SSHFS only has its packages not looked at.

In the agent: after an extraction that failed, the rest of the archive is still in the
buffer and its lines are run as commands; a line cut off by the end of the connection is
run as far as it came (`read_line` returns it); a record of zeros behind the one where
tarfile stopped stays in the buffer, which harms nobody because the push is the last
thing on its connection; and a CR NUL line end followed by an LF in the same chunk
joins two lines, because LF is looked for first.  `LinesAsSent` is stated for a
connection that lasts and extractions that succeed, and no stream of the runs uses
CR NUL: no client in the repository does.

## Theorems

TLAPS proves, for every value of the constants that the named assumptions allow:

| Theorem | States | Argument |
|---|---|---|
| `DownloadProofs!TypeCorrect` | `Spec => []TypeOK` | a thread's position never leaves its piece unless its Range was ignored, and then stays below twice the length (`ThreadInv`, `PhaseInv`) |
| `DownloadProofs!RangedComplete` | `Spec => []RangedDownloadIsComplete`, if Range is honoured | `CompleteInv`: what a piece has written is right up to its position, and a piece that is done is right to its end; the pieces cover the file, by a lemma on `Chunk`; the fallback is right up to `got` |
| `DownloadProofs!ResumeOwns` | `Spec => []ResumeOwnsFile`, if Range is honoured | the same invariant: past `Join` no thread is connected or streaming |
| `MediaPrepProofs!TypeCorrect`, `ReadyWhole`, `CorruptOwn` | the three invariants of `media`, any number of runs | `ImagesInv`: up to the extraction there is no image, at the conversion a whole one if anything vouches for it; `FreshInv`: only a reused kind is opened that this run has not downloaded; `HurtInv`: what this run has downloaded is whole when it is opened, or the run has been hurt |
| `PowerOffWaitProofs!TypeCorrect`, `StalledCorrect`, `ForcedCorrect` | the three invariants of `power_off`, any poll and thresholds | `CountInv`: while the log has not grown since the last poll, the true silence is at least `stalled` plus the sleep so far; and so it is for `quiet` when the size is compared; `LogInv`: what was read is never ahead of the log |
| `TelnetChannelProofs!TypeCorrect` | `Spec => []TypeOK` | what is taken off the buffer is there (`CommandType`, `DecodeType`), and answers are bounded by the units |
| `TelnetChannelProofs!DecodeFaithful` | `Spec => []DecodeIgnoresCuts`, any stream and cut | the decoder stands between two units: the bytes there determine the next unit's form (`UnitForms`) and that it is whole or waits (`NextUnit`), so one turn of the loop consumes exactly it (`DecodeStep`) |
| `TelnetChannelProofs!MarkerHonest` | `Spec => []MarkerMeansWhole`, any archive and record size | `TarInv`: tarfile reads from behind the line, or from its LF, and then the first header is refused (`RecordTaken`); what it has read is always the front of the archive |
| `TelnetChannelProofs!LinesHonest` | `Spec => []LinesAsSent`, any session and cut | `LineInv`: in a session without an archive `serve()` stands behind the CR of a line it was sent or behind its LF, and has run the lines up to there; in one with an archive it has run nothing, and an intact buffer is taken up to the line, then to the end of the archive. `ReadsLine`: the first line end in the buffer is that of the next line (`LineAt`), so what `read_line` returns is that line |
| `GuestWaitProofs!TypeCorrect`, `BudgetKept`, `StormCut` | types, `EveryBootHasItsBudget`, `StormCutShort`, any counts | `RoundInv`: in the wait, `retry` is the number of this boot's failed probes and `lost - lostBase` that of its lines; a done guard was told an address |
| `GuestWaitProofs!GuardForwards`, `VisibleReached` | `GuardMeansForwarded`, `VisibleGuestReached`, if `~LateMoves` | `LeaseInv`: what can be seen is the lease and stays it, so what the guard was told is still true; `WellInv`: after one failed probe a visible guest is on its way through `Remove` and `Add` |
| `SshBuildProofs!TypeCorrect`, `OneScript`, `Shipped` | the three invariants of `ssh_build`, any confs and attempts | `RunInv`: where `main()` waits for no script none runs, but on the way down after a failure; `KeptInv`, `ShippedInv`: finished work is in the guest or on the disc up to the export, or was lost |
| `FileCoreProofs!TypeCorrect`, `Calibrated`, `NamedOnly` | types, `OffsetsTrue`, `PatchHitsNamed`, any fragments and layout | `TreeInv`, `BlockInv`: in the guest's tree objects have sectors of their own and a directory's entries are its children; `WalkInv`: what is noted, stacked or listed is so in the tree, if `Paired`; a lone hit of `locate` is the named file because by then that file has the text (`TextInv`) |
| `FileCoreProofs!Sealed` | `Spec => []SealedWhenDone`, any fragments and layout, `Paired` or not | `TextInv`: each script is always the stock one or the bootstrap, and past the scan no sector has the bootstrap; `StaleInv`: only a walk of a tree that has the live copy finds its path, be it through an old block |
| `FileCoreProofs!WalkComplete` | `Spec => []WalkFindsAll`, any fragments and layout | `ShapeInv`: the guest's tree is shallow, every object of it has an entry in its directory's block, and a block names its parent's address (`ParentBlock`); `ProgressInv`: a directory met is listed, or being listed, or on the stack. When the walk is over only the first is left (`AllListed`), and from the root down, level by level (`LevelFound`), every directory is met |
| `FileCoreProofs!Accepted` | `Spec => RegularDiscAccepted`, any fragments and layout | `LocateFinds`: on a finished walk `locate` has one answer, by the place if a directory tells of the fragment, else by the text if no other sector has it; `OrderInv`: when the live copy is looked for by its text, the template has its own again; `LauncherInv`: the launcher's text is in the launcher only |
| `BuildPipelineProofs!TypeCorrect`, `ShippedSealed` | types and `ShippedIsSealed`, any processes, crash points, runs | `MachineInv`: the guest runs in the process launched last, and off at every point where the host touches the disc; `FilesInv`, `StageInv`: what each file can be at each stage |
| `BuildPipelineProofs!SlateIsClean`, `DoneIsDown` | `CleanSlate`, `DoneLeavesNoMachine`, if no crash at `writepid` | `SlateInv`: every live process is the one the pid file names, but between `Popen` and the write |
| `BuildPipelineProofs!Implements` | `Spec => ImplementsRelease` | every step maps to a step of `Release` or a stutter, under the invariant above |

The invariants the runs check are not inductive: none of them says which process
the guest runs in, what a piece has already written, or that an image seen at the
start of the preparation can only be one this run has not made yet.  The
strengthenings above say that and nothing more.

Two of these strengthenings are worth a word. That a walk finds everything is a
statement about reachability, and TLAPS has no induction over paths of any length; but
the guest's tree is bounded by what can be in it (`Depths`, `KnownPaths`), so three
levels below the root, each a step of its own, are enough. The walk lists no address
twice (`seen`), and that it never skips a directory it has to list is part of
`ProgressInv`: two directories of the tree have different addresses, so what is in
`seen` was listed as the directory it is. And that only the lines sent are run needs to
know what stands in the payload behind each of them, which `Meant` says of a stream:
each line, then CR LF, and no line begins with the NUL that `read_line` would strip.

Every invariant and every action property the passing runs check is proved.  Liveness
(`Terminates`, `EveryRunEnds`, `SessionEnds`, `WaitEnds`, `StaysOnlyOnALiveSession`,
`TransportIsNoVerdict`) needs
ENABLED and fairness, which the prover does not reach: it is model-checked only, as
are the violations.
`RangedComplete` and `ResumeOwns` assume `RangeIgnored = FALSE`, `SlateIsClean` and
`DoneIsDown` that `"writepid"` is not a crash point, `GuardForwards` and `VisibleReached`
that a lease does not move once it is seen; all are the assumptions of the
runs, and each is necessary.

## Not modelled

* QEMU's command line, guest profile, OCR, screenshots, key injection, release notes:
  straight-line I/O with no state to get wrong.
* The installer path (`VM_ISO_LINK`, `createVM`, the console build with `ConsoleSession`) and
  the `enablessh` branches of the shared builder: keys typed in a fixed order, with a screen read in
  between, which this repository's conf does not reach.
* The reuse of a process id by a foreign program, and the race for a free port.
* In `FileCore`: writes of the guest that are lost with the machine, the length of a file and its padding, objects shared by one fragment's sector,
  and the refusal of `_find_root` on a disc without a root.
* In the agent: `do_create` and the doubling on the way out, the text of
  `parse_tar_command`, the listener's `select`; in the host: the decoder `_telnet_eat_iac`,
  which keeps nothing between two reads.
* The device models of `files/qemu-riscos-raspi.patch`, the nbd lock, and the pushes of the
  workflows.
* Time, but for the power-off wait: a deadline is a step that may be taken.

## What could come next

The agent's way out (`do_create`, `_telnet_eat_iac`); lost writes in `FileCore`, which would
close the gap named under Modules; the packet buffer of the emulated network chip at
small sizes (no frame lost, cut or joined); and the hand-over of the image between qemu-nbd
and qemu-img.
