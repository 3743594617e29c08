------------------------------ MODULE MediaPrep ------------------------------
(***************************************************************************)
(* From a published archive to <os>.qcow2: clearVM(), the beforeBuild      *)
(* hook's own fetch of the archive, and _prep_vhd_disk() with its reuse    *)
(* of what an earlier run left behind.  build.py may be killed anywhere    *)
(* and is run again in the same tree.                                      *)
(*                                                                         *)
(* Seven kinds of link: a zip (what this repository's conf names), a tar   *)
(* of one image, a compressed raw image (img.gz, img.zst, img.bz2), a raw  *)
(* image, a qcow2, a compressed qcow2, and anything else, taken for an xz. *)
(* Of a file only matters how much of it is there: a "part" ends early,    *)
(* one with "holes" has its full length, but not all pieces of a segmented *)
(* download.                                                               *)
(***************************************************************************)
EXTENDS Naturals

CONSTANTS
  Kinds,     \* kinds of link the run tries
  MaxRuns    \* bound: runs of build.py in one tree

ASSUME KindsAssumption ==
  Kinds \subseteq {"zip", "tar", "gz", "img", "qcow2", "qcow2gz", "xz"}
ASSUME MaxRunsAssumption == MaxRuns \in Nat \ {0}

VARIABLES
  kind,      \* what VM_VHD_LINK names
  archive,   \* what is downloaded: <os>.imgzip, .imgtar, .img.gz, .download.img,
             \* .download.qcow2, .download.qcow2.gz or .qcow2.xz
  img,       \* what it unpacks to: <os>.img, and <os>.download.qcow2 for a qcow2gz
  qcow,      \* <os>.qcow2
  pc,        \* where the build is
  fresh,     \* has this run downloaded the archive in _prep_vhd_disk?
  why,       \* how the run failed
  hurt,      \* history: has a download of this run ended short, or its disc been full?
  runs

files == <<archive, img, qcow>>
vars == <<kind, archive, img, qcow, pc, fresh, why, hurt, runs>>

States == {"none", "part", "holes", "whole"}
Torn == {"part", "holes"}

\* Kinds whose archive from an earlier run is used as it is.
Reuses == {"zip", "tar", "img", "qcow2", "xz"}

\* Kinds that are converted as they were downloaded.
Plain == {"img", "qcow2"}

Init ==
  /\ kind \in Kinds
  /\ archive = "none" /\ img = "none" /\ qcow = "none"
  /\ pc = "clear"
  /\ fresh = FALSE
  /\ why = "none"
  /\ hurt = FALSE
  /\ runs = 1

Goto(from, to) == pc = from /\ pc' = to

Fail(reason) == pc' = "failed" /\ why' = reason

-----------------------------------------------------------------------------
\* Mutant: the extracted image outlives the run, as the comments on the retry
\* cache have it.
ClearKeepsImg ==
  /\ Goto("clear", IF kind = "zip" THEN "hook" ELSE "prep")
  /\ qcow' = "none"
  /\ UNCHANGED <<kind, archive, img, fresh, why, hurt, runs>>

\* clearVM removes <os>.img and <os>.qcow2 and leaves whatever is downloaded.
ClearVM ==
  /\ Goto("clear", IF kind = "zip" THEN "hook" ELSE "prep")
  /\ img' = IF kind = "qcow2gz" THEN img ELSE "none"
  /\ qcow' = "none"
  /\ UNCHANGED <<kind, archive, fresh, why, hurt, runs>>

\* The beforeBuild hook takes an archive that exists; else aria2c in segments.
HookFetch ==
  /\ pc = "hook"
  /\ IF archive # "none"
       THEN pc' = "prep" /\ UNCHANGED archive
       ELSE pc' = "aria2c" /\ archive' \in Torn
  /\ UNCHANGED <<kind, img, qcow, fresh, why, hurt, runs>>

\* aria2c is done; or it failed and curl starts over.
HookAria2c ==
  /\ \/ Goto("aria2c", "prep") /\ archive' = "whole"
     \/ Goto("aria2c", "curl") /\ archive' \in {"none", "part"}
  /\ UNCHANGED <<kind, img, qcow, fresh, why, hurt, runs>>

\* curl's failure is the hook's, and run_hook's: fatal.
HookCurl ==
  /\ pc = "curl"
  /\ \/ pc' = "prep" /\ archive' = "whole" /\ UNCHANGED why
     \/ Fail("hook") /\ UNCHANGED archive
  /\ UNCHANGED <<kind, img, qcow, fresh, hurt, runs>>

-----------------------------------------------------------------------------
\* Mutant: the archive is not removed, and what is there is not fetched again.
StartDownloadKeeps ==
  /\ pc' = IF archive = "none" THEN "download" ELSE "extract"
  /\ fresh' = TRUE
  /\ UNCHANGED archive

\* The archive is removed; download() truncates the file and fills it, in pieces
\* or from the front, once the server answers.
StartDownload ==
  /\ pc' = "download"
  /\ fresh' = TRUE
  /\ archive' \in Torn \cup {"none"}

\* What follows the download.
Unpack == IF kind \in Plain THEN "convert" ELSE "extract"

\* _prep_vhd_disk up to the first use of the archive.
Prep ==
  /\ pc = "prep"
  /\ IF qcow # "none"
       THEN pc' = "ready" /\ UNCHANGED <<archive, fresh>>
       ELSE IF img # "none"
       THEN pc' = "convert" /\ UNCHANGED <<archive, fresh>>
       ELSE IF kind \in Reuses /\ archive # "none"
       THEN pc' = Unpack /\ UNCHANGED <<archive, fresh>>
       ELSE StartDownload
  /\ UNCHANGED <<kind, img, qcow, why, hurt, runs>>

\* download() returns with the whole file, or with a part of it when a plain
\* stream ended early; or it exits, and leaves what it has.
Download ==
  /\ pc = "download"
  /\ \/ pc' = Unpack /\ archive' \in {"whole", "part"} /\ UNCHANGED why
     \/ Fail("download") /\ UNCHANGED archive
  /\ hurt' = (hurt \/ archive' # "whole")
  /\ UNCHANGED <<kind, img, qcow, fresh, runs>>

\* Mutant: every refusal fetches the archive again.
RefusedForever == StartDownload /\ UNCHANGED why

\* The archive is refused: once it is fetched again, the second time is fatal.
\* A gz is never fetched twice: it was downloaded in this run.  An xz is not
\* either, whoever downloaded it.
Refused ==
  IF fresh \/ kind = "xz"
    THEN Fail("corrupt") /\ UNCHANGED <<archive, fresh>>
    ELSE StartDownload /\ UNCHANGED why

\* Mutant: the archive becomes the image and is decompressed in place.
ExtractInPlace ==
  /\ pc = "extract" /\ kind # "xz"
  /\ IF kind = "zip" /\ archive = "part"
       THEN Refused /\ UNCHANGED img
       ELSE pc' = "extracting" /\ img' = archive /\ UNCHANGED <<archive, fresh, why>>
  /\ UNCHANGED <<kind, qcow, hurt, runs>>

\* The archive is opened.  A zip without its end is refused before anything is
\* written; everything else starts to write the image.
Extract ==
  /\ pc = "extract" /\ kind # "xz"
  /\ IF kind = "zip" /\ archive = "part"
       THEN Refused /\ UNCHANGED img
       ELSE pc' = "extracting" /\ img' = "part" /\ UNCHANGED <<archive, fresh, why>>
  /\ UNCHANGED <<kind, qcow, hurt, runs>>

\* The end of the extraction.  tar and gunzip report what is torn and leave
\* the image; _unzip_single_img removes it for the exceptions it names, and a
\* zlib.error from the middle of the stream is none of them.
Extracted ==
  /\ pc = "extracting"
  /\ \/ /\ archive = "whole"
        /\ pc' = "convert" /\ img' = "whole"
        /\ archive' = IF kind = "qcow2gz" THEN "none" ELSE archive
        /\ UNCHANGED <<fresh, why, hurt>>
     \/ /\ archive # "whole"
        /\ Refused /\ UNCHANGED hurt
        /\ img' = IF kind = "zip" THEN "none" ELSE img
     \/ /\ archive = "holes" /\ kind = "zip"
        /\ Fail("raised")
        /\ UNCHANGED <<archive, img, fresh, hurt>>
     \/ \* the disc is full: an OSError, or a failing tar or gunzip
        /\ archive = "whole"
        /\ Refused /\ hurt' = TRUE
        /\ img' = IF kind = "zip" THEN "none" ELSE img
  /\ UNCHANGED <<kind, qcow, runs>>

\* xz -d writes the qcow2 itself.  It removes the archive when it is done, and its
\* output when it is not.
DecompressXz ==
  /\ pc = "extract" /\ kind = "xz"
  /\ pc' = "decompressing" /\ qcow' = "part"
  /\ UNCHANGED <<kind, archive, img, fresh, why, hurt, runs>>

DecompressedXz ==
  /\ pc = "decompressing"
  /\ \/ /\ archive = "whole"
        /\ pc' = "ready" /\ qcow' = "whole" /\ archive' = "none"
        /\ UNCHANGED <<fresh, why, hurt>>
     \/ Refused /\ qcow' = "none" /\ hurt' = (hurt \/ archive = "whole")
  /\ UNCHANGED <<kind, img, runs>>

\* qemu-img convert writes the qcow2, with must_run.  It cannot tell a torn image.
Convert ==
  /\ Goto("convert", "converting")
  /\ qcow' = "part"
  /\ UNCHANGED <<kind, archive, img, fresh, why, hurt, runs>>

Converted ==
  /\ pc = "converting"
  /\ \/ /\ pc' = "ready"
        /\ qcow' = IF kind \in Plain THEN archive ELSE img
        /\ archive' = IF kind \in Plain THEN "none" ELSE archive
        /\ img' = IF kind = "qcow2gz" THEN "none" ELSE img
        /\ UNCHANGED why
     \/ Fail("convert") /\ UNCHANGED files
  /\ UNCHANGED <<kind, fresh, hurt, runs>>

-----------------------------------------------------------------------------
\* build.py is killed.
Crash ==
  /\ pc \notin {"ready", "failed"}
  /\ Fail("killed")
  /\ UNCHANGED <<kind, files, fresh, hurt, runs>>

\* The next run, whatever became of the last.
Rebuild ==
  /\ pc \in {"ready", "failed"}
  /\ runs < MaxRuns
  /\ pc' = "clear"
  /\ runs' = runs + 1
  /\ fresh' = FALSE
  /\ why' = "none"
  /\ hurt' = FALSE
  /\ UNCHANGED <<kind, files>>

Step ==
  \/ ClearVM \/ HookFetch \/ HookAria2c \/ HookCurl
  \/ Prep \/ Download \/ Extract \/ Extracted
  \/ DecompressXz \/ DecompressedXz \/ Convert \/ Converted

Next == Step \/ Crash \/ Rebuild

Spec == Init /\ [][Next]_vars

\* Downloads and child processes end.
FairSpec == Spec /\ WF_vars(Step)

-----------------------------------------------------------------------------
Pcs == {"clear", "hook", "aria2c", "curl", "prep", "download", "extract", "extracting",
        "decompressing", "convert", "converting", "ready", "failed"}
Reasons == {"none", "hook", "download", "corrupt", "raised", "convert", "killed"}

TypeOK ==
  /\ kind \in Kinds
  /\ archive \in States
  /\ img \in {"none", "part", "whole"}
  /\ qcow \in States
  /\ pc \in Pcs
  /\ fresh \in BOOLEAN /\ hurt \in BOOLEAN
  /\ why \in Reasons
  /\ runs \in 1 .. MaxRuns

\* Has a decompression of this run vouched for the image?  A raw image and a qcow2
\* are never looked at, and what was once unpacked of a qcow2gz is not again.
Vouched == kind \in {"zip", "tar", "gz", "xz"} \/ (kind = "qcow2gz" /\ fresh)

\* The disk image the build goes on with is the whole published one, however
\* many earlier runs were killed half-way, and whatever they left in the tree;
\* for the kinds where anything looks.
ReadyIsWhole == pc = "ready" /\ Vouched => qcow = "whole"

\* A run that calls its archive corrupt has met a fault of its own: a download of
\* it ended short, or its disc was full.  What runs before it have left, killed at
\* whatever point, is replaced and costs a download.  Not so an xz, which is not
\* fetched twice; what escapes the refusal is LeftoverIsReplaced's, and what
\* nothing looks at is Vouched's exception.
CorruptIsItsOwn == why = "corrupt" /\ kind # "xz" => hurt

\* A run ends: the second download is the last.
EveryRunEnds == pc = "clear" ~> pc \in {"ready", "failed"}

\* What _unzip_single_img and its caller say: a corrupt archive makes it return
\* False, "so the caller can re-download once before giving up".  A zlib.error
\* ends the build instead, and so does the next run, over the same file.
LeftoverIsReplaced == why \in {"corrupt", "raised"} => fresh

=============================================================================
