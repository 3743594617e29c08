--------------------------- MODULE SshBuildProofs ---------------------------
(***************************************************************************)
(* For every set of confs and any number of attempts: no script is started *)
(* beside another, and what is exported is what the conf asks for.         *)
(*                                                                         *)
(* What the invariants of the runs leave open is where the work of a       *)
(* script is between its exit code and the export (KeptInv, ShippedInv),   *)
(* and which scripts may still run at each place of main() (RunInv).       *)
(***************************************************************************)
EXTENDS SshBuild, TLAPS

\* A machine that is off runs nothing and holds nothing.
MachineInv == ~powered => running = {} /\ written = {} /\ ~reach

\* Only the script that is waited for can run; but the last attempt's may go on
\* until its machine is down, or past the build's failure.
RunInv ==
  /\ pc = "installing" => running \subseteq {<<"pkgs", try>>}
  /\ pc = "extending" => running \subseteq {<<"extra", try>>}
  /\ pc \notin {"installing", "extending", "down", "failed"} => running = {}
  /\ OneScriptAtATime

\* w is done, or the machine that did it lost it.
Kept(w) == lost \/ w \in written \cup disc

AfterPkgs == {"extra", "extending", "finalize", "keys", "ask", "export"}
AfterExtra == {"finalize", "keys", "ask", "export"}
AfterExport == {"boot", "probe", "sendenv", "look", "rsync", "teardown", "noRsync", "finished"}

\* The way from the scripts to the export.
KeptInv ==
  LET lastDown == pc = "down" /\ purpose = "final" IN
  /\ pc \in AfterPkgs \/ lastDown => (conf.pkgs => Kept("pkgs"))
  /\ pc \in AfterExtra \/ lastDown => (conf.extra => Kept("extra"))
  /\ pc = "export" => ~powered

\* The way from the export to "Build finished.".
ShippedInv ==
  /\ pc \in AfterExport =>
       /\ shipped = disc /\ written \subseteq disc
       /\ ~lost => (conf.pkgs => "pkgs" \in shipped) /\ (conf.extra => "extra" \in shipped)
  /\ pc \in {"teardown", "finished"} => (conf.rsync => "pkgs" \in shipped)

IInv == TypeOK /\ MachineInv /\ RunInv /\ KeptInv /\ ShippedInv

USE TriesAssumption DEF machine, Work, Scripts, Unbounded, Bounded, Over

-----------------------------------------------------------------------------
\* The first boot satisfies the invariant.
LEMMA InitInv == Init => IInv
<1> SUFFICES ASSUME Init PROVE IInv
  OBVIOUS
<1>1. powered \in BOOLEAN /\ reach \in BOOLEAN /\ session \in BOOLEAN /\ lost \in BOOLEAN
  BY DEF Init
<1>2. TypeOK
  BY <1>1 DEF Init, TypeOK
<1>3. MachineInv /\ RunInv
  BY DEF Init, MachineInv, RunInv, OneScriptAtATime
<1>4. KeptInv /\ ShippedInv
  BY DEF Init, KeptInv, ShippedInv, AfterPkgs, AfterExtra, AfterExport
<1> QED
  BY <1>2, <1>3, <1>4 DEF IInv

\* Every step keeps the types.
LEMMA TypeStep ==
  ASSUME TypeOK, [Next]_vars
  PROVE  TypeOK'
<1> USE ConfsAssumption DEF TypeOK
<1>1. CASE LoginSeen
  BY <1>1 DEF LoginSeen, Goto, To, Boot
<1>2. CASE LoginNeverSeen
  BY <1>2 DEF LoginNeverSeen, Goto, To
<1>3. CASE Reached
  BY <1>3 DEF Reached, Goto, To, AfterPost, AfterInstall
<1>4. CASE NotReached
  BY <1>4 DEF NotReached, Goto, To
<1>5. CASE Down
  BY <1>5 DEF Down, Goto, To, Ends, Destroy
<1>6. CASE Install
  <2>1. CASE Sends("install", "installing", <<"pkgs", try>>)
    <3>1. session' \in BOOLEAN
      BY <2>1 DEF Sends, Goto, To
    <3> QED
      BY <1>6, <2>1, <3>1 DEF Install, Sends, Goto, To
  <2>2. CASE pc = "install" /\ InstallFails /\ UNCHANGED machine
    <3>1. session' \in BOOLEAN
      BY <2>2 DEF InstallFails, To
    <3> QED
      BY <1>6, <2>2, <3>1 DEF Install, InstallFails, To
  <2> QED
    BY <1>6, <2>1, <2>2 DEF Install
<1>7. CASE Extra
  <2>1. CASE Sends("extra", "extending", <<"extra", try>>)
    <3>1. session' \in BOOLEAN
      BY <2>1 DEF Sends, Goto, To
    <3> QED
      BY <1>7, <2>1, <3>1 DEF Extra, Sends, Goto, To
  <2>2. CASE pc = "extra" /\ ExtraFails /\ UNCHANGED machine
    <3>1. session' \in BOOLEAN
      BY <2>2 DEF ExtraFails, To
    <3> QED
      BY <1>7, <2>2, <3>1 DEF Extra, ExtraFails, To
  <2> QED
    BY <1>7, <2>1, <2>2 DEF Extra
<1>8. CASE Keys
  BY <1>8 DEF Keys, To, PowerOff
<1>9. CASE KeysRead
  BY <1>9 DEF KeysRead, To, PowerOff
<1>10. CASE KeysUnanswered
  <2>1. session' \in BOOLEAN
    BY <1>10 DEF KeysUnanswered, PowerOff, To
  <2> QED
    BY <1>10, <2>1 DEF KeysUnanswered, PowerOff, To
<1>11. CASE Export
  <2>1. session' \in BOOLEAN
    BY <1>11 DEF Export, Goto, To
  <2>2. try' \in 1 .. Tries
    <3>1. try' = 1 \/ try' = try
      BY <1>11 DEF Export
    <3> QED
      BY <3>1
  <2>4. shipped' \subseteq Work
    BY <1>11 DEF Export
  <2>3. UNCHANGED <<conf, keys, machine, purpose>> /\ pc' \in Unbounded \cup Bounded \cup Over
    BY <1>11 DEF Export, Goto, To
  <2> QED
    BY <2>1, <2>2, <2>3, <2>4
<1>12. CASE VerifyBoot
  BY <1>12 DEF VerifyBoot, Goto, To, Boot
<1>13. CASE VerifyReached
  BY <1>13 DEF VerifyReached, Goto, To
<1>14. CASE VerifyTimesOut
  <2>1. session' \in BOOLEAN /\ UNCHANGED <<conf, keys, purpose, shipped>>
    BY <1>14 DEF VerifyTimesOut, Goto, To
  <2>2. try' \in 1 .. Tries /\ pc' \in Unbounded \cup Bounded \cup Over
    BY <1>14 DEF VerifyTimesOut, Goto, To
  <2>3. /\ powered' \in BOOLEAN /\ reach' \in BOOLEAN /\ lost' \in BOOLEAN
        /\ running' \subseteq Scripts /\ written' \subseteq Work /\ disc' \subseteq Work
    BY <1>14 DEF VerifyTimesOut, Destroy, Ends
  <2> QED
    BY <2>1, <2>2, <2>3
<1>15. CASE Rsync
  BY <1>15 DEF Rsync, Goto, To
<1>16. CASE Teardown
  BY <1>16 DEF Teardown, Goto, To, Destroy, Ends
<1>17. CASE PostBuild
  BY <1>17 DEF PostBuild, Goto, To
<1>18. CASE InstallEnds
  <2>1. CASE Returns("installing", AfterInstall, <<"pkgs", try>>)
    <3>1. session' \in BOOLEAN
      BY <2>1 DEF Returns, Goto, To, AfterInstall
    <3> QED
      BY <1>18, <2>1, <3>1 DEF InstallEnds, Returns, Goto, To, AfterInstall
  <2>2. CASE pc = "installing" /\ InstallFails /\ Breaks(<<"pkgs", try>>)
    <3>1. session' \in BOOLEAN
      BY <2>2 DEF InstallFails, To, Breaks
    <3> QED
      BY <1>18, <2>2, <3>1 DEF InstallEnds, InstallFails, To, Breaks
  <2> QED
    BY <1>18, <2>1, <2>2 DEF InstallEnds
<1>19. CASE ExtraEnds
  BY <1>19 DEF ExtraEnds, Returns, Breaks, Goto, To, ExtraFails
<1>20. CASE Finalize
  BY <1>20 DEF Finalize, Goto, To
<1>21. CASE SendEnv
  BY <1>21 DEF SendEnv, Goto, To
<1>22. CASE Look
  BY <1>22 DEF Look, Goto, To
<1>23. CASE Guest
  <2>1. UNCHANGED <<conf, keys, pc, purpose, try, shipped>>
    BY <1>23 DEF Guest
  <2>2. CASE GuestServes \/ GuestDies
    BY <2>1, <2>2 DEF GuestServes, GuestDies
  <2>3. CASE QemuExits
    BY <2>1, <2>3 DEF QemuExits, Ends
  <2>4. ASSUME NEW w \in Work, GuestFlushes(w) PROVE TypeOK'
    BY <2>1, <2>4 DEF GuestFlushes
  <2>5. ASSUME NEW s \in Scripts, OrphanEnds(s) PROVE TypeOK'
    BY <2>1, <2>5 DEF OrphanEnds
  <2> QED
    BY <1>23, <2>2, <2>3, <2>4, <2>5 DEF Guest
<1>24. CASE UNCHANGED vars
  BY <1>24 DEF vars
<1> QED
  BY <1>1, <1>2, <1>3, <1>4, <1>5, <1>6, <1>7, <1>8, <1>9, <1>10, <1>11, <1>12, <1>13, <1>14, <1>15, <1>16, <1>17, <1>18, <1>19, <1>20, <1>21, <1>22, <1>23, <1>24
     DEF Next, Prompt, Awaiting

\* A script starts where none runs, and a machine that is down runs none.
LEMMA RunStep ==
  ASSUME TypeOK, MachineInv, RunInv, [Next]_vars
  PROVE  MachineInv' /\ RunInv'
<1> USE DEF TypeOK, MachineInv, RunInv, OneScriptAtATime
<1>1. CASE LoginSeen
  BY <1>1 DEF LoginSeen, Goto, To, Boot
<1>2. CASE LoginNeverSeen
  BY <1>2 DEF LoginNeverSeen, Goto, To
<1>3. CASE Reached
  BY <1>3 DEF Reached, Goto, To, AfterPost, AfterInstall
<1>4. CASE NotReached
  BY <1>4 DEF NotReached, Goto, To
<1>5. CASE Down
  BY <1>5 DEF Down, Goto, To, Ends, Destroy
<1>6. CASE Install
  <2>1. CASE Sends("install", "installing", <<"pkgs", try>>)
    BY <1>6, <2>1 DEF Install, Sends, Goto, To
  <2>2. CASE pc = "install" /\ InstallFails /\ UNCHANGED machine
    BY <1>6, <2>2 DEF Install, InstallFails, To
  <2> QED
    BY <1>6, <2>1, <2>2 DEF Install
<1>7. CASE Extra
  <2>1. CASE Sends("extra", "extending", <<"extra", try>>)
    BY <1>7, <2>1 DEF Extra, Sends, Goto, To
  <2>2. CASE pc = "extra" /\ ExtraFails /\ UNCHANGED machine
    BY <1>7, <2>2 DEF Extra, ExtraFails, To
  <2> QED
    BY <1>7, <2>1, <2>2 DEF Extra
<1>8. CASE Keys
  BY <1>8 DEF Keys, To, PowerOff
<1>9. CASE KeysRead
  BY <1>9 DEF KeysRead, To, PowerOff
<1>10. CASE KeysUnanswered
  BY <1>10 DEF KeysUnanswered, To, PowerOff
<1>11. CASE Export
  BY <1>11 DEF Export, Goto, To
<1>12. CASE VerifyBoot
  <2>1. CASE Goto("boot", "probe") /\ Boot
    BY <1>12, <2>1 DEF VerifyBoot, Goto, To, Boot
  <2>2. CASE Goto("boot", "failed") /\ UNCHANGED machine
    BY <1>12, <2>2 DEF VerifyBoot, Goto, To
  <2> QED
    BY <1>12, <2>1, <2>2 DEF VerifyBoot
<1>13. CASE VerifyReached
  BY <1>13 DEF VerifyReached, Goto, To
<1>14. CASE VerifyTimesOut
  BY <1>14 DEF VerifyTimesOut, Goto, To, Destroy, Ends
<1>15. CASE Rsync
  BY <1>15 DEF Rsync, Goto, To
<1>16. CASE Teardown
  BY <1>16 DEF Teardown, Goto, To, Destroy, Ends
<1>17. CASE PostBuild
  BY <1>17 DEF PostBuild, Goto, To
<1>18. CASE InstallEnds
  <2>1. CASE Returns("installing", AfterInstall, <<"pkgs", try>>)
    BY <1>18, <2>1 DEF InstallEnds, Returns, Goto, To, AfterInstall
  <2>2. CASE pc = "installing" /\ InstallFails /\ Breaks(<<"pkgs", try>>)
    BY <1>18, <2>2 DEF InstallEnds, InstallFails, To, Breaks
  <2> QED
    BY <1>18, <2>1, <2>2 DEF InstallEnds
<1>19. CASE ExtraEnds
  <2>1. CASE Returns("extending", "finalize", <<"extra", try>>)
    BY <1>19, <2>1 DEF ExtraEnds, Returns, Goto, To
  <2>2. CASE pc = "extending" /\ ExtraFails /\ Breaks(<<"extra", try>>)
    BY <1>19, <2>2 DEF ExtraEnds, ExtraFails, To, Breaks
  <2> QED
    BY <1>19, <2>1, <2>2 DEF ExtraEnds
<1>20. CASE Finalize
  BY <1>20 DEF Finalize, Goto, To
<1>21. CASE SendEnv
  BY <1>21 DEF SendEnv, Goto, To
<1>22. CASE Look
  BY <1>22 DEF Look, Goto, To
<1>23. CASE Guest
  BY <1>23 DEF Guest, GuestServes, GuestDies, QemuExits, GuestFlushes, OrphanEnds, Awaited, Ends
<1>24. CASE UNCHANGED vars
  BY <1>24 DEF vars
<1> QED
  BY <1>1, <1>2, <1>3, <1>4, <1>5, <1>6, <1>7, <1>8, <1>9, <1>10, <1>11, <1>12, <1>13, <1>14, <1>15, <1>16, <1>17, <1>18, <1>19, <1>20, <1>21, <1>22, <1>23, <1>24
     DEF Next, Prompt, Awaiting

\* Work that was finished since the last login is in the guest or on the disc, or
\* the machine has taken it along.
LEMMA KeptStep ==
  ASSUME TypeOK, MachineInv, RunInv, KeptInv, [Next]_vars
  PROVE  KeptInv'
<1> USE DEF TypeOK, MachineInv, RunInv, KeptInv, Kept, AfterPkgs, AfterExtra
<1>1. CASE LoginSeen
  BY <1>1 DEF LoginSeen, Goto, To, Boot
<1>2. CASE LoginNeverSeen
  BY <1>2 DEF LoginNeverSeen, Goto, To
<1>3. CASE Reached
  BY <1>3 DEF Reached, Goto, To, AfterPost, AfterInstall
<1>4. CASE NotReached
  BY <1>4 DEF NotReached, Goto, To
<1>5. CASE Down
  BY <1>5 DEF Down, Goto, To, Ends, Destroy
<1>6. CASE Install
  BY <1>6 DEF Install, Sends, Goto, To, InstallFails
<1>7. CASE Extra
  BY <1>7 DEF Extra, Sends, Goto, To, ExtraFails
<1>8. CASE Keys
  BY <1>8 DEF Keys, To, PowerOff
<1>9. CASE KeysRead
  BY <1>9 DEF KeysRead, To, PowerOff
<1>10. CASE KeysUnanswered
  BY <1>10 DEF KeysUnanswered, To, PowerOff
<1>11. CASE Export
  BY <1>11 DEF Export, Goto, To
<1>12. CASE VerifyBoot
  BY <1>12 DEF VerifyBoot, Goto, To, Boot
<1>13. CASE VerifyReached
  BY <1>13 DEF VerifyReached, Goto, To
<1>14. CASE VerifyTimesOut
  BY <1>14 DEF VerifyTimesOut, Goto, To, Destroy, Ends
<1>15. CASE Rsync
  BY <1>15 DEF Rsync, Goto, To
<1>16. CASE Teardown
  BY <1>16 DEF Teardown, Goto, To, Destroy, Ends
<1>17. CASE PostBuild
  BY <1>17 DEF PostBuild, Goto, To
<1>18. CASE InstallEnds
  BY <1>18 DEF InstallEnds, Returns, Breaks, Goto, To, InstallFails, AfterInstall
<1>19. CASE ExtraEnds
  BY <1>19 DEF ExtraEnds, Returns, Breaks, Goto, To, ExtraFails
<1>20. CASE Finalize
  BY <1>20 DEF Finalize, Goto, To
<1>21. CASE SendEnv
  BY <1>21 DEF SendEnv, Goto, To
<1>22. CASE Look
  BY <1>22 DEF Look, Goto, To
<1>23. CASE Guest
  <2>1. UNCHANGED <<conf, keys, pc, purpose, try, shipped>>
    BY <1>23 DEF Guest
  <2>2. \A w \in Work : Kept(w) => Kept(w)'
    <3>1. CASE GuestServes
      BY <3>1 DEF GuestServes
    <3>2. CASE GuestDies
      BY <3>2 DEF GuestDies
    <3>3. CASE QemuExits
      BY <3>3 DEF QemuExits, Ends
    <3>4. ASSUME NEW w \in Work, GuestFlushes(w) PROVE \A v \in Work : Kept(v) => Kept(v)'
      BY <3>4 DEF GuestFlushes
    <3>5. ASSUME NEW s \in Scripts, OrphanEnds(s) PROVE \A v \in Work : Kept(v) => Kept(v)'
      BY <3>5 DEF OrphanEnds
    <3> QED
      BY <1>23, <3>1, <3>2, <3>3, <3>4, <3>5 DEF Guest
  <2>3. pc = "export" => ~powered'
    BY <1>23 DEF Guest, GuestServes, GuestDies, QemuExits, GuestFlushes, OrphanEnds, Ends
  <2> HIDE DEF Kept
  <2> QED
    BY <2>1, <2>2, <2>3
<1>24. CASE UNCHANGED vars
  BY <1>24 DEF vars
<1> QED
  BY <1>1, <1>2, <1>3, <1>4, <1>5, <1>6, <1>7, <1>8, <1>9, <1>10, <1>11, <1>12, <1>13, <1>14, <1>15, <1>16, <1>17, <1>18, <1>19, <1>20, <1>21, <1>22, <1>23, <1>24
     DEF Next, Prompt, Awaiting

\* What is exported has the finished work, and the verification boot adds none.
LEMMA ShippedStep ==
  ASSUME IInv, [Next]_vars
  PROVE  ShippedInv'
<1> USE DEF IInv, TypeOK, MachineInv, RunInv, KeptInv, Kept, AfterPkgs, AfterExtra, AfterExport,
            ShippedInv
<1>1. CASE LoginSeen
  BY <1>1 DEF LoginSeen, Goto, To, Boot
<1>2. CASE LoginNeverSeen
  BY <1>2 DEF LoginNeverSeen, Goto, To
<1>3. CASE Reached
  BY <1>3 DEF Reached, Goto, To, AfterPost, AfterInstall
<1>4. CASE NotReached
  BY <1>4 DEF NotReached, Goto, To
<1>5. CASE Down
  BY <1>5 DEF Down, Goto, To, Ends, Destroy
<1>6. CASE Install
  BY <1>6 DEF Install, Sends, Goto, To, InstallFails
<1>7. CASE Extra
  BY <1>7 DEF Extra, Sends, Goto, To, ExtraFails
<1>8. CASE Keys
  BY <1>8 DEF Keys, To, PowerOff
<1>9. CASE KeysRead
  BY <1>9 DEF KeysRead, To, PowerOff
<1>10. CASE KeysUnanswered
  BY <1>10 DEF KeysUnanswered, To, PowerOff
<1>11. CASE Export
  BY <1>11 DEF Export, Goto, To
<1>12. CASE VerifyBoot
  BY <1>12 DEF VerifyBoot, Goto, To, Boot
<1>13. CASE VerifyReached
  BY <1>13 DEF VerifyReached, Goto, To
<1>14. CASE VerifyTimesOut
  BY <1>14 DEF VerifyTimesOut, Goto, To, Destroy, Ends
<1>15. CASE Rsync
  BY <1>15 DEF Rsync, Goto, To
<1>16. CASE Teardown
  BY <1>16 DEF Teardown, Goto, To, Destroy, Ends
<1>17. CASE PostBuild
  BY <1>17 DEF PostBuild, Goto, To
<1>18. CASE InstallEnds
  BY <1>18 DEF InstallEnds, Returns, Breaks, Goto, To, InstallFails, AfterInstall
<1>19. CASE ExtraEnds
  BY <1>19 DEF ExtraEnds, Returns, Breaks, Goto, To, ExtraFails
<1>20. CASE Finalize
  BY <1>20 DEF Finalize, Goto, To
<1>21. CASE SendEnv
  BY <1>21 DEF SendEnv, Goto, To
<1>22. CASE Look
  BY <1>22 DEF Look, Goto, To
<1>23. CASE Guest
  <2>1. UNCHANGED <<conf, keys, pc, purpose, try, shipped>>
    BY <1>23 DEF Guest
  <2>2. /\ lost => lost'
        /\ pc \in AfterExport /\ written \subseteq disc => disc' = disc /\ written' \subseteq disc'
    <3>1. CASE GuestServes
      BY <3>1 DEF GuestServes
    <3>2. CASE GuestDies
      BY <3>2 DEF GuestDies
    <3>3. CASE QemuExits
      BY <3>3 DEF QemuExits, Ends
    <3>4. ASSUME NEW w \in Work, GuestFlushes(w)
          PROVE  lost' = lost /\ (written \subseteq disc => FALSE)
      BY <3>4 DEF GuestFlushes
    <3>5. ASSUME NEW s \in Scripts, OrphanEnds(s)
          PROVE  lost' = lost /\ pc \notin AfterExport
      BY <3>5 DEF OrphanEnds
    <3> QED
      BY <1>23, <3>1, <3>2, <3>3, <3>4, <3>5 DEF Guest
  <2> QED
    BY <2>1, <2>2
<1>24. CASE UNCHANGED vars
  BY <1>24 DEF vars
<1> QED
  BY <1>1, <1>2, <1>3, <1>4, <1>5, <1>6, <1>7, <1>8, <1>9, <1>10, <1>11, <1>12, <1>13, <1>14, <1>15, <1>16, <1>17, <1>18, <1>19, <1>20, <1>21, <1>22, <1>23, <1>24
     DEF Next, Prompt, Awaiting

\* The invariant holds throughout.
LEMMA Invariance == Spec => []IInv
<1>1. IInv /\ [Next]_vars => IInv'
  BY TypeStep, RunStep, KeptStep, ShippedStep DEF IInv
<1> QED
  BY InitInv, <1>1, PTL DEF Spec

\* Every variable keeps its type, and the attempts keep to their number.
THEOREM TypeCorrect == Spec => []TypeOK
<1>1. IInv => TypeOK
  BY DEF IInv
<1> QED
  BY <1>1, Invariance, PTL

\* No script is ever at work in the guest beside another.
THEOREM OneScript == Spec => []OneScriptAtATime
<1>1. IInv => OneScriptAtATime
  BY DEF IInv, RunInv
<1> QED
  BY <1>1, Invariance, PTL

\* A finished build has exported what its conf asks for, unless the guest lost it.
THEOREM Shipped == Spec => []ShippedAsAsked
<1>1. IInv => ShippedAsAsked
  BY DEF IInv, ShippedInv, ShippedAsAsked, AfterExport
<1> QED
  BY <1>1, Invariance, PTL

=============================================================================
