--------------------------- MODULE MediaPrepProofs ---------------------------
(***************************************************************************)
(* For every set of kinds and any number of runs: the build goes on with   *)
(* the whole image only, where a decompression looks at it, and calls an   *)
(* archive corrupt only after a fault of its own, unless it is an xz.      *)
(*                                                                         *)
(* The first rests on clearVM having removed what _prep_vhd_disk would otherwise *)
(* take for finished work: the two images are absent until this run makes  *)
(* them, and the archive alone is carried over.  A qcow2gz is the kind     *)
(* whose unpacked image is carried over too; a run that downloads it makes *)
(* it anew.  The second follows from what this run's own download has left *)
(* of the archive.                                                         *)
(***************************************************************************)
EXTENDS MediaPrep, TLAPS

\* No disk image until this run converts one, or lets xz write it; no raw image
\* before this run has begun to extract; what is converted is whole.
ImagesInv ==
  /\ pc \in {"hook", "aria2c", "curl", "prep", "download", "extract", "extracting", "convert"}
       => qcow = "none"
  /\ pc \in {"hook", "aria2c", "curl", "prep"} /\ kind # "qcow2gz" => img = "none"
  /\ pc \in {"convert", "converting"} /\ Vouched => img = "whole"
  /\ pc \in {"extracting", "convert", "converting"} => kind # "xz"
  /\ pc = "decompressing" => kind = "xz"

\* Only the archives that are reused reach an extraction undownloaded.
FreshInv ==
  /\ pc \in {"download", "extract", "extracting", "decompressing"}
       => fresh \/ (kind \in Reuses /\ pc # "download")
  /\ pc \in {"clear", "hook", "aria2c", "curl", "prep"} => ~fresh

\* What this run has downloaded is whole when it is unpacked, unless it ended short.
HurtInv == pc \in {"extract", "extracting"} /\ fresh => archive = "whole" \/ hurt

IInv == TypeOK /\ ImagesInv /\ FreshInv /\ HurtInv /\ ReadyIsWhole /\ CorruptIsItsOwn

USE DEF files, States, Torn, Reuses, Plain, Unpack, Vouched, Pcs, Reasons

-----------------------------------------------------------------------------
\* An empty tree satisfies the invariant.
LEMMA InitInv == Init => IInv
<1> SUFFICES ASSUME Init PROVE IInv
  OBVIOUS
<1>1. fresh \in BOOLEAN /\ hurt \in BOOLEAN
  BY DEF Init
<1>2. TypeOK
  BY <1>1, MaxRunsAssumption DEF Init, TypeOK
<1>3. ImagesInv /\ FreshInv /\ HurtInv /\ ReadyIsWhole /\ CorruptIsItsOwn
  BY DEF Init, ImagesInv, FreshInv, HurtInv, ReadyIsWhole, CorruptIsItsOwn
<1> QED
  BY <1>2, <1>3 DEF IInv

\* What a refusal does to the archive, by whether this run fetched it.
LEMMA RefusedInv ==
  ASSUME IInv, Refused, pc \in {"extract", "extracting", "decompressing"}
  PROVE  \/ /\ fresh \/ kind = "xz"
            /\ fresh' = fresh
            /\ pc' = "failed" /\ why' = "corrupt" /\ archive' = archive
         \/ /\ fresh' = TRUE
            /\ pc' = "download" /\ why' = why /\ archive' \in States
BY DEF Refused, StartDownload, Fail, IInv, TypeOK

\* One step of the build; each action keeps what it does not write.
LEMMA StepInv == IInv /\ [Next]_vars => IInv'
<1> SUFFICES ASSUME IInv, [Next]_vars PROVE IInv'
  OBVIOUS
<1> USE KindsAssumption, MaxRunsAssumption
<1> USE DEF IInv, TypeOK, ImagesInv, FreshInv, HurtInv, ReadyIsWhole, CorruptIsItsOwn
<1>1. CASE ClearVM
  BY <1>1 DEF ClearVM, Goto
<1>2. CASE HookFetch
  BY <1>2 DEF HookFetch
<1>3. CASE HookAria2c
  BY <1>3 DEF HookAria2c, Goto
<1>4. CASE HookCurl
  BY <1>4 DEF HookCurl, Fail
<1>5. CASE Prep
  BY <1>5 DEF Prep, StartDownload
<1>6. CASE Download
  BY <1>6 DEF Download, Fail
<1>7. CASE Extract
  <2>1. CASE kind = "zip" /\ archive = "part"
    <3>1. Refused /\ UNCHANGED <<img, kind, qcow, runs>>
      BY <1>7, <2>1 DEF Extract
    <3> QED
      BY <1>7, <3>1, RefusedInv DEF Extract
  <2>2. CASE ~(kind = "zip" /\ archive = "part")
    BY <1>7, <2>2 DEF Extract
  <2> QED
    BY <2>1, <2>2
<1>8. CASE Extracted
  <2>1. UNCHANGED <<kind, qcow, runs>> /\ pc = "extracting"
    BY <1>8 DEF Extracted
  <2>2. CASE /\ pc' = "convert" /\ img' = "whole"
             /\ archive' = IF kind = "qcow2gz" THEN "none" ELSE archive
             /\ UNCHANGED <<fresh, why, hurt>>
    <3>1. fresh' \in BOOLEAN /\ hurt' \in BOOLEAN
      BY <2>2
    <3>2. archive' \in States
      BY <2>2
    <3>3. TypeOK'
      BY <2>1, <2>2, <3>1, <3>2
    <3>4. ImagesInv' /\ FreshInv' /\ HurtInv'
      BY <2>1, <2>2
    <3>5. ReadyIsWhole' /\ CorruptIsItsOwn'
      BY <2>1, <2>2
    <3> HIDE DEF TypeOK, ImagesInv, FreshInv, HurtInv, ReadyIsWhole, CorruptIsItsOwn
    <3> QED
      BY <3>3, <3>4, <3>5
  <2>3. CASE /\ Refused /\ archive # "whole" /\ UNCHANGED hurt
             /\ img' = IF kind = "zip" THEN "none" ELSE img
    BY <2>1, <2>3, RefusedInv
  <2>4. CASE /\ Refused /\ hurt' = TRUE
             /\ img' = IF kind = "zip" THEN "none" ELSE img
    <3>1. hurt' \in BOOLEAN
      BY <2>4
    <3> QED
      BY <2>1, <2>4, <3>1, RefusedInv
  <2>5. CASE Fail("raised") /\ UNCHANGED <<archive, img, fresh, hurt>>
    BY <2>1, <2>5 DEF Fail
  <2> QED
    BY <1>8, <2>2, <2>3, <2>4, <2>5 DEF Extracted
<1>9. CASE Convert
  BY <1>9 DEF Convert, Goto
<1>10. CASE Converted
  BY <1>10 DEF Converted, Fail
<1>11. CASE DecompressXz
  BY <1>11 DEF DecompressXz
<1>12. CASE DecompressedXz
  <2>1. UNCHANGED <<kind, img, runs>> /\ pc = "decompressing"
    BY <1>12 DEF DecompressedXz
  <2>2. CASE /\ pc' = "ready" /\ qcow' = "whole" /\ archive' = "none"
             /\ UNCHANGED <<fresh, why, hurt>>
    <3>1. fresh' \in BOOLEAN /\ hurt' \in BOOLEAN
      BY <2>2
    <3> QED
      BY <2>1, <2>2, <3>1
  <2>3. CASE Refused /\ qcow' = "none" /\ hurt' = (hurt \/ archive = "whole")
    <3>1. hurt' \in BOOLEAN
      BY <2>3
    <3> QED
      BY <2>1, <2>3, <3>1, RefusedInv
  <2> QED
    BY <1>12, <2>2, <2>3 DEF DecompressedXz
<1>13. CASE Crash
  BY <1>13 DEF Crash, Fail
<1>14. CASE Rebuild
  <2>0. fresh' = FALSE /\ hurt' = FALSE
    BY <1>14 DEF Rebuild
  <2>1. fresh' \in BOOLEAN /\ hurt' \in BOOLEAN /\ runs' \in 1 .. MaxRuns
    <3>1. fresh' \in BOOLEAN /\ hurt' \in BOOLEAN
      BY <2>0
    <3>2. runs' \in 1 .. MaxRuns
      BY <1>14 DEF Rebuild
    <3> QED
      BY <3>1, <3>2
  <2>2. UNCHANGED <<kind, archive, img, qcow>> /\ pc' = "clear" /\ why' = "none"
    BY <1>14 DEF Rebuild
  <2>3. TypeOK'
    BY <2>1, <2>2
  <2>4. ImagesInv' /\ FreshInv' /\ HurtInv'
    BY <2>0, <2>2
  <2>5. ReadyIsWhole' /\ CorruptIsItsOwn'
    BY <2>2
  <2> HIDE DEF TypeOK, ImagesInv, FreshInv, HurtInv, ReadyIsWhole, CorruptIsItsOwn
  <2> QED
    BY <2>3, <2>4, <2>5
<1>15. CASE UNCHANGED vars
  BY <1>15 DEF vars
<1> QED
  BY <1>1, <1>2, <1>3, <1>4, <1>5, <1>6, <1>7, <1>8, <1>9, <1>10, <1>11, <1>12, <1>13,
     <1>14, <1>15
     DEF Next, Step

\* The invariant holds throughout.
LEMMA Invariance == Spec => []IInv
BY InitInv, StepInv, PTL DEF Spec

\* Every variable keeps its type.
THEOREM TypeCorrect == Spec => []TypeOK
<1>1. IInv => TypeOK
  BY DEF IInv
<1> QED
  BY <1>1, Invariance, PTL

\* The build goes on with the whole published image only, where a decompression
\* of this run vouches for it.
THEOREM ReadyWhole == Spec => []ReadyIsWhole
<1>1. IInv => ReadyIsWhole
  BY DEF IInv
<1> QED
  BY <1>1, Invariance, PTL

\* A build that calls its archive corrupt has met a short download or a full disc
\* itself, whatever the runs before it have left; an xz excepted.
THEOREM CorruptOwn == Spec => []CorruptIsItsOwn
<1>1. IInv => CorruptIsItsOwn
  BY DEF IInv
<1> QED
  BY <1>1, Invariance, PTL

=============================================================================
