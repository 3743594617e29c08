------------------------------ MODULE Release ------------------------------
(***************************************************************************)
(* What the build promises of the image it releases, whatever fails on the *)
(* way: the disc image is only edited from the host and only released      *)
(* while no machine runs on it; a bootstrap that points at the build host  *)
(* is put in from the host, the guest can at most copy it, and only the    *)
(* host takes it out; what is released carries the installed launcher and  *)
(* no bootstrap.                                                           *)
(***************************************************************************)
CONSTANT Places     \* where a bootstrap can be

VARIABLES
  scaffold,  \* the places that hold the bootstrap
  launcher,  \* is the launcher on the disc?
  powered,   \* does a machine run on the image?
  released   \* has an image been released?

avars == <<scaffold, launcher, powered, released>>

ATypeOK ==
  /\ scaffold \subseteq Places
  /\ launcher \in BOOLEAN
  /\ powered \in BOOLEAN
  /\ released \in BOOLEAN

AInit == scaffold = {} /\ ~launcher /\ ~powered /\ ~released

\* A new run throws the image away, with the machine that uses it.
Discard ==
  /\ scaffold' = {}
  /\ launcher' = FALSE
  /\ powered' = FALSE
  /\ UNCHANGED released

\* The host puts the bootstrap in one place of an image without one.
Scaffold ==
  /\ ~powered
  /\ scaffold = {}
  /\ \E p \in Places : scaffold' = {p}
  /\ UNCHANGED <<launcher, powered, released>>

Power ==
  /\ powered' = ~powered
  /\ UNCHANGED <<scaffold, launcher, released>>

\* The guest copies the bootstrap, and writes or rewrites the launcher.
GuestEdits ==
  /\ powered
  /\ scaffold' \in {scaffold} \cup (IF scaffold = {} THEN {} ELSE {scaffold \cup {p} : p \in Places})
  /\ launcher' \in {launcher, TRUE}
  /\ UNCHANGED <<powered, released>>

\* The host restores one place.
Seal ==
  /\ ~powered
  /\ \E p \in scaffold : scaffold' = scaffold \ {p}
  /\ UNCHANGED <<launcher, powered, released>>

Publish ==
  /\ ~powered
  /\ scaffold = {}
  /\ launcher
  /\ released' = TRUE
  /\ UNCHANGED <<scaffold, launcher, powered>>

ANext == Discard \/ Scaffold \/ Power \/ GuestEdits \/ Seal \/ Publish

ASpec == AInit /\ [][ANext]_avars

=============================================================================
