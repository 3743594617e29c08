--------------------------- MODULE GuestWaitProofs ---------------------------
(***************************************************************************)
(* For every number of probes, restarts, addresses and lost interrupts:    *)
(* each boot has its own budget, a storm is cut short, and, if a lease     *)
(* does not move once it has been seen, a done guard forwards where it     *)
(* says and a guest that can be seen is reached.                           *)
(*                                                                         *)
(* The program's locals say nothing of the guest.  RoundInv ties them to   *)
(* what has happened in this boot; LeaseInv ties what the guard was told   *)
(* to the lease, and QEMU's forward to what it was told; WellInv follows a *)
(* guest that only lacks its forward from the probe to the next one.       *)
(***************************************************************************)
EXTENDS GuestWait, TLAPS

\* Counters, baseline and guard are those of the boot that is waited for.
RoundInv ==
  /\ pc \in Waiting => retry <= MaxRetries /\ lost - lostBase = newLost
  /\ pc = "probe" => probes = retry
  /\ pc \in {"guard", "add", "cutoff", "sleep"} => probes = retry + 1
  /\ pc \in Waiting /\ guardDone => told # None
  /\ pc = "add" => told # None /\ ~guardDone
  /\ pc = "launch" => ~running

\* What can be seen is the lease, and what was seen still is; the forward is as
\* QEMU set it up until the guard sees another address.
LeaseInv ==
  /\ flow \in {None, lease} /\ printed \in {None, lease}
  /\ pc \in Waiting /\ told # None => told = lease /\ (flow # None \/ printed # None)
  /\ running /\ (pc = "login" \/ (pc \in Waiting /\ told \in {None, Expected}))
       => fwd = Expected
  /\ pc = "add" => told # Expected
  /\ GuardMeansForwarded

\* After the failed probe of a guest that only lacks its forward, the guard goes
\* through Remove and Add, or the guest is lost sight of.
WellInv ==
  /\ well <= 1
  /\ pc \in Waiting /\ well = 1 =>
       /\ Visible
       /\ pc = "guard" => ~guardDone /\ lease # Expected
       /\ pc = "add" => told = lease
       /\ pc \in {"cutoff", "sleep", "probe"} => Reachable

USE AddrsAssumption, CountsAssumption, SwitchAssumption
USE DEF guest, locals, history, Waiting, Over, MaybeAddr

\* What a new boot's wait begins with.
LEMMA ResumesType ==
  ASSUME TypeOK, Resumes
  PROVE  /\ pc' = "probe" /\ guardDone' \in BOOLEAN /\ told' \in MaybeAddr
         /\ retry' \in 0 .. MaxRetries + 1 /\ lostBase' \in Nat
         /\ probes' \in Nat /\ newLost' \in Nat /\ well' \in Nat
<1>1. pc' = "probe" /\ guardDone' = FALSE /\ told' = None
  BY DEF Resumes
<1>2. guardDone' \in BOOLEAN
  BY <1>1
<1>3. retry' \in 0 .. MaxRetries + 1 /\ lostBase' \in Nat
  BY DEF Resumes, TypeOK
<1>4. probes' \in Nat /\ newLost' \in Nat /\ well' \in Nat
  BY DEF Resumes
<1> QED
  BY <1>1, <1>2, <1>3, <1>4

-----------------------------------------------------------------------------
\* Every step keeps the types.
LEMMA TypeStep ==
  ASSUME TypeOK, RoundInv, [Next]_vars
  PROVE  TypeOK'
<1> USE DEF TypeOK, RoundInv, Limit
<1>1. CASE ProbeSucceeds
  BY <1>1 DEF ProbeSucceeds
<1>2. CASE ProbeFails
  BY <1>2 DEF ProbeFails, Count
<1>3. CASE GuardSkips
  BY <1>3 DEF GuardSkips
<1>4. CASE GuardMatches
  BY <1>4 DEF GuardMatches, Actual, UsernetIp, SerialIp
<1>5. CASE Remove
  BY <1>5 DEF Remove, Actual, UsernetIp, SerialIp
<1>6. CASE Add
  <2>1. /\ UNCHANGED <<transport, running, lease, flow, printed, lost, serving, told,
                     retry, restarts, lostBase, remOk, attempt, probes, newLost>>
        /\ pc' = "cutoff"
    BY <1>6 DEF Add
  <2>2. fwd' \in MaybeAddr
    BY <1>6 DEF Add
  <2>3. guardDone' \in BOOLEAN
    BY <1>6 DEF Add
  <2>4. well' \in Nat
    BY <1>6 DEF Add
  <2> QED
    BY <2>1, <2>2, <2>3, <2>4
<1>7. CASE Cutoff
  <2>1. UNCHANGED <<transport, retry, guardDone, lostBase, remOk, attempt, history>>
    BY <1>7 DEF Cutoff
  <2>2. running' \in BOOLEAN /\ serving' \in BOOLEAN /\ UNCHANGED <<lease, flow, printed, lost, fwd>>
    BY <1>7 DEF Cutoff
  <2>3. restarts' \in 0 .. Limit /\ pc' \in {"failed", "restart"}
    BY <1>7 DEF Cutoff, GivesUp, RestartsGuest
  <2> QED
    BY <2>1, <2>2, <2>3
<1>8. CASE NoCutoff
  BY <1>8 DEF NoCutoff, Wedged
<1>9. CASE Sleep
  BY <1>9 DEF Sleep, GivesUp, RestartsGuest
<1>10. CASE PowerDown
  <2>1. running' \in BOOLEAN /\ serving' \in BOOLEAN
    BY <1>10 DEF PowerDown, NoGuest
  <2>2. attempt' \in 0 .. 2
    BY <1>10 DEF PowerDown
  <2> QED
    BY <1>10, <2>1, <2>2 DEF PowerDown, NoGuest
<1>11. CASE Launch
  BY <1>11 DEF Launch
<1>12. CASE LaunchFails
  <2>1. Resumes /\ UNCHANGED <<transport, guest, restarts, remOk, attempt>>
    BY <1>12 DEF LaunchFails
  <2> QED
    BY <2>1, ResumesType
<1>13. CASE LoginSeen
  <2>1. Resumes /\ UNCHANGED <<transport, guest, restarts, remOk, attempt>>
    BY <1>13 DEF LoginSeen
  <2> QED
    BY <2>1, ResumesType
<1>14. CASE LoginMissed
  <2>1. running' \in BOOLEAN /\ serving' \in BOOLEAN
    BY <1>14 DEF LoginMissed, NoGuest
  <2>2. UNCHANGED <<transport, lease, flow, printed, lost, fwd, restarts, remOk>>
    BY <1>14 DEF LoginMissed, NoGuest
  <2>3. CASE attempt < 2
    <3>1. attempt' \in 0 .. 2 /\ pc' = "launch"
      BY <1>14, <2>3 DEF LoginMissed
    <3>2. UNCHANGED <<retry, guardDone, lostBase, told, probes, newLost, well>>
      BY <1>14, <2>3 DEF LoginMissed
    <3> QED
      BY <2>1, <2>2, <3>1, <3>2
  <2>4. CASE ~(attempt < 2)
    <3>1. Resumes /\ UNCHANGED attempt
      BY <1>14, <2>4 DEF LoginMissed
    <3> QED
      BY <2>1, <2>2, <3>1, ResumesType
  <2> QED
    BY <2>3, <2>4
<1>15. ASSUME NEW a \in Addrs, GuestLeases(a) PROVE TypeOK'
  BY <1>15 DEF GuestLeases
<1>16. CASE GuestTalks
  BY <1>16 DEF GuestTalks
<1>17. CASE GuestPrintsLease
  BY <1>17 DEF GuestPrintsLease
<1>18. CASE GuestServes
  BY <1>18 DEF GuestServes
<1>19. CASE GuestHangs
  BY <1>19 DEF GuestHangs
<1>20. CASE GuestLosesInterrupt
  BY <1>20 DEF GuestLosesInterrupt
<1>21. CASE QemuExits
  BY <1>21 DEF QemuExits, NoGuest
<1>22. CASE UNCHANGED vars
  BY <1>22 DEF vars
<1> QED
  BY <1>1, <1>2, <1>3, <1>4, <1>5, <1>6, <1>7, <1>8, <1>9, <1>10, <1>11, <1>12, <1>13, <1>14, <1>15, <1>16, <1>17, <1>18, <1>19, <1>20, <1>21, <1>22
     DEF Next, Wait, Round, Restart, Guest

\* The locals of the wait count this boot only.
LEMMA RoundStep ==
  ASSUME TypeOK, RoundInv, [Next]_vars
  PROVE  RoundInv'
<1> USE DEF TypeOK, RoundInv
<1>1. CASE ProbeSucceeds
  BY <1>1 DEF ProbeSucceeds
<1>2. CASE ProbeFails
  BY <1>2 DEF ProbeFails, Count
<1>3. CASE GuardSkips
  BY <1>3 DEF GuardSkips
<1>4. CASE GuardMatches
  BY <1>4 DEF GuardMatches, Actual, UsernetIp, SerialIp
<1>5. CASE Remove
  BY <1>5 DEF Remove, Actual, UsernetIp, SerialIp
<1>6. CASE Add
  BY <1>6 DEF Add
<1>7. CASE Cutoff
  BY <1>7 DEF Cutoff, Wedged, GivesUp, RestartsGuest
<1>8. CASE NoCutoff
  BY <1>8 DEF NoCutoff, Wedged
<1>9. CASE Sleep
  BY <1>9 DEF Sleep, GivesUp, RestartsGuest
<1>10. CASE PowerDown
  BY <1>10 DEF PowerDown, NoGuest
<1>11. CASE Launch
  BY <1>11 DEF Launch
<1>12. CASE LaunchFails
  BY <1>12 DEF LaunchFails, Resumes
<1>13. CASE LoginSeen
  BY <1>13 DEF LoginSeen, Resumes
<1>14. CASE LoginMissed
  BY <1>14 DEF LoginMissed, NoGuest, Resumes
<1>15. ASSUME NEW a \in Addrs, GuestLeases(a) PROVE RoundInv'
  BY <1>15 DEF GuestLeases
<1>16. CASE GuestTalks
  BY <1>16 DEF GuestTalks
<1>17. CASE GuestPrintsLease
  BY <1>17 DEF GuestPrintsLease
<1>18. CASE GuestServes
  BY <1>18 DEF GuestServes
<1>19. CASE GuestHangs
  BY <1>19 DEF GuestHangs
<1>20. CASE GuestLosesInterrupt
  BY <1>20 DEF GuestLosesInterrupt
<1>21. CASE QemuExits
  BY <1>21 DEF QemuExits, NoGuest
<1>22. CASE UNCHANGED vars
  BY <1>22 DEF vars
<1> QED
  BY <1>1, <1>2, <1>3, <1>4, <1>5, <1>6, <1>7, <1>8, <1>9, <1>10, <1>11, <1>12, <1>13, <1>14, <1>15, <1>16, <1>17, <1>18, <1>19, <1>20, <1>21, <1>22
     DEF Next, Wait, Round, Restart, Guest

\* A lease that has been seen stays, so what the guard is told stays true.
LEMMA LeaseStep ==
  ASSUME ~LateMoves, TypeOK, RoundInv, LeaseInv, [Next]_vars
  PROVE  LeaseInv'
<1> USE DEF TypeOK, RoundInv, LeaseInv, GuardMeansForwarded
<1>1. CASE ProbeSucceeds
  BY <1>1 DEF ProbeSucceeds
<1>2. CASE ProbeFails
  BY <1>2 DEF ProbeFails, Count
<1>3. CASE GuardSkips
  BY <1>3 DEF GuardSkips
<1>4. CASE GuardMatches
  BY <1>4 DEF GuardMatches, Actual, UsernetIp, SerialIp
<1>5. CASE Remove
  BY <1>5 DEF Remove, Actual, UsernetIp, SerialIp
<1>6. CASE Add
  BY <1>6 DEF Add
<1>7. CASE Cutoff
  BY <1>7 DEF Cutoff, Wedged, GivesUp, RestartsGuest
<1>8. CASE NoCutoff
  BY <1>8 DEF NoCutoff, Wedged
<1>9. CASE Sleep
  BY <1>9 DEF Sleep, GivesUp, RestartsGuest
<1>10. CASE PowerDown
  BY <1>10 DEF PowerDown, NoGuest
<1>11. CASE Launch
  BY <1>11 DEF Launch
<1>12. CASE LaunchFails
  BY <1>12 DEF LaunchFails, Resumes
<1>13. CASE LoginSeen
  BY <1>13 DEF LoginSeen, Resumes
<1>14. CASE LoginMissed
  BY <1>14 DEF LoginMissed, NoGuest, Resumes
<1>15. ASSUME NEW a \in Addrs, GuestLeases(a) PROVE LeaseInv'
  BY <1>15 DEF GuestLeases
<1>16. CASE GuestTalks
  BY <1>16 DEF GuestTalks
<1>17. CASE GuestPrintsLease
  BY <1>17 DEF GuestPrintsLease
<1>18. CASE GuestServes
  BY <1>18 DEF GuestServes
<1>19. CASE GuestHangs
  BY <1>19 DEF GuestHangs
<1>20. CASE GuestLosesInterrupt
  BY <1>20 DEF GuestLosesInterrupt
<1>21. CASE QemuExits
  BY <1>21 DEF QemuExits, NoGuest
<1>22. CASE UNCHANGED vars
  BY <1>22 DEF vars
<1> QED
  BY <1>1, <1>2, <1>3, <1>4, <1>5, <1>6, <1>7, <1>8, <1>9, <1>10, <1>11, <1>12, <1>13, <1>14, <1>15, <1>16, <1>17, <1>18, <1>19, <1>20, <1>21, <1>22
     DEF Next, Wait, Round, Restart, Guest

\* A guest that could be reached, but for its forward, is mended before the next
\* probe.
LEMMA WellStep ==
  ASSUME ~LateMoves, TypeOK, RoundInv, LeaseInv, WellInv, [Next]_vars
  PROVE  WellInv'
<1> USE DEF TypeOK, RoundInv, LeaseInv, WellInv, GuardMeansForwarded, Visible, Reachable, Actual, UsernetIp, SerialIp
<1>1. CASE ProbeSucceeds
  BY <1>1 DEF ProbeSucceeds
<1>2. CASE ProbeFails
  BY <1>2 DEF ProbeFails, Count
<1>3. CASE GuardSkips
  BY <1>3 DEF GuardSkips
<1>4. CASE GuardMatches
  BY <1>4 DEF GuardMatches, Actual, UsernetIp, SerialIp
<1>5. CASE Remove
  BY <1>5 DEF Remove, Actual, UsernetIp, SerialIp
<1>6. CASE Add
  BY <1>6 DEF Add
<1>7. CASE Cutoff
  BY <1>7 DEF Cutoff, Wedged, GivesUp, RestartsGuest
<1>8. CASE NoCutoff
  BY <1>8 DEF NoCutoff, Wedged
<1>9. CASE Sleep
  BY <1>9 DEF Sleep, GivesUp, RestartsGuest
<1>10. CASE PowerDown
  BY <1>10 DEF PowerDown, NoGuest
<1>11. CASE Launch
  BY <1>11 DEF Launch
<1>12. CASE LaunchFails
  BY <1>12 DEF LaunchFails, Resumes
<1>13. CASE LoginSeen
  BY <1>13 DEF LoginSeen, Resumes
<1>14. CASE LoginMissed
  BY <1>14 DEF LoginMissed, NoGuest, Resumes
<1>15. ASSUME NEW a \in Addrs, GuestLeases(a) PROVE WellInv'
  BY <1>15 DEF GuestLeases
<1>16. CASE GuestTalks
  BY <1>16 DEF GuestTalks
<1>17. CASE GuestPrintsLease
  BY <1>17 DEF GuestPrintsLease
<1>18. CASE GuestServes
  BY <1>18 DEF GuestServes
<1>19. CASE GuestHangs
  BY <1>19 DEF GuestHangs
<1>20. CASE GuestLosesInterrupt
  BY <1>20 DEF GuestLosesInterrupt
<1>21. CASE QemuExits
  BY <1>21 DEF QemuExits, NoGuest
<1>22. CASE UNCHANGED vars
  BY <1>22 DEF vars
<1> QED
  BY <1>1, <1>2, <1>3, <1>4, <1>5, <1>6, <1>7, <1>8, <1>9, <1>10, <1>11, <1>12, <1>13, <1>14, <1>15, <1>16, <1>17, <1>18, <1>19, <1>20, <1>21, <1>22
     DEF Next, Wait, Round, Restart, Guest

-----------------------------------------------------------------------------
\* The wait begins with no probe made and nothing seen.
LEMMA InitInv == Init => TypeOK /\ RoundInv /\ LeaseInv /\ WellInv
<1> SUFFICES ASSUME Init PROVE TypeOK /\ RoundInv /\ LeaseInv /\ WellInv
  OBVIOUS
<1>1. running \in BOOLEAN /\ serving \in BOOLEAN /\ guardDone \in BOOLEAN /\ remOk \in BOOLEAN
  BY DEF Init
<1>2. TypeOK
  BY <1>1 DEF Init, TypeOK, Limit
<1>3. RoundInv
  BY DEF Init, RoundInv
<1>4. LeaseInv
  BY DEF Init, LeaseInv, GuardMeansForwarded
<1>5. WellInv
  BY DEF Init, WellInv
<1> QED
  BY <1>2, <1>3, <1>4, <1>5

\* What needs nothing of the leases.
LEMMA RoundInvariance == Spec => [](TypeOK /\ RoundInv)
<1>1. TypeOK /\ RoundInv /\ [Next]_vars => (TypeOK /\ RoundInv)'
  BY TypeStep, RoundStep
<1> QED
  BY InitInv, <1>1, PTL DEF Spec

\* What needs leases that stay once they are seen.
LEMMA LeaseInvariance ==
  ASSUME ~LateMoves
  PROVE  Spec => [](TypeOK /\ RoundInv /\ LeaseInv /\ WellInv)
<1> DEFINE Inv == TypeOK /\ RoundInv /\ LeaseInv /\ WellInv
<1>1. Inv /\ [Next]_vars => Inv'
  BY TypeStep, RoundStep, LeaseStep, WellStep
<1> QED
  BY InitInv, <1>1, PTL DEF Spec

\* Every variable keeps its type, every counter its range.
THEOREM TypeCorrect == Spec => []TypeOK
BY RoundInvariance, PTL

\* A boot that is not cut off has all its probes, none of an earlier boot's.
THEOREM BudgetKept == Spec => EveryBootHasItsBudget
<1>1. ASSUME TypeOK, RoundInv, [Next]_vars, pc = "sleep", pc' \in {"failed", "restart"}
      PROVE  probes = MaxRetries + 1
  <2>1. Sleep
    BY <1>1 DEF Next, Wait, Round, Restart, Guest, vars,
         ProbeSucceeds, ProbeFails, GuardSkips, GuardMatches, Remove, Add, Cutoff, NoCutoff,
         PowerDown, Launch, LaunchFails, LoginSeen, LoginMissed, GuestLeases, GuestTalks,
         GuestPrintsLease, GuestServes, GuestHangs, GuestLosesInterrupt, QemuExits
  <2> QED
    BY <1>1, <2>1 DEF Sleep, TypeOK, RoundInv
<1> QED
  BY <1>1, RoundInvariance, PTL DEF Spec, EveryBootHasItsBudget

\* A storm of lost interrupts with no address in sight is cut short.
THEOREM StormCut == Spec => StormCutShort
<1>1. ASSUME TypeOK, RoundInv, [Next]_vars, pc = "cutoff", pc' = "sleep",
             transport = "ssh", told = None, probes > WedgeAfter, newLost >= WedgeLines
      PROVE  FALSE
  <2>1. NoCutoff
    BY <1>1 DEF Next, Wait, Round, Restart, Guest, vars,
         ProbeSucceeds, ProbeFails, GuardSkips, GuardMatches, Remove, Add, Cutoff, Sleep,
         GivesUp, RestartsGuest,
         PowerDown, Launch, LaunchFails, LoginSeen, LoginMissed, GuestLeases, GuestTalks,
         GuestPrintsLease, GuestServes, GuestHangs, GuestLosesInterrupt, QemuExits
  <2>2. ~guardDone /\ retry >= WedgeAfter /\ lost - lostBase >= WedgeLines
    BY <1>1 DEF TypeOK, RoundInv
  <2> QED
    BY <1>1, <2>1, <2>2 DEF NoCutoff, Wedged
<1>2. TypeOK /\ RoundInv /\ [Next]_vars =>
        (pc = "cutoff" /\ pc' = "sleep" =>
           ~ /\ transport = "ssh" /\ told = None
             /\ probes > WedgeAfter /\ newLost >= WedgeLines)
  BY <1>1
<1> QED
  BY <1>2, RoundInvariance, PTL DEF Spec, StormCutShort

\* A guard that is done forwards to the guest it has last seen, if a lease does not
\* move once it is seen.
THEOREM GuardForwards ==
  ASSUME ~LateMoves
  PROVE  Spec => []GuardMeansForwarded
<1>1. LeaseInv => GuardMeansForwarded
  BY DEF LeaseInv
<1> QED
  BY <1>1, LeaseInvariance, PTL

\* A guest that serves and can be seen costs at most one failed probe, under the same
\* assumption.
THEOREM VisibleReached ==
  ASSUME ~LateMoves
  PROVE  Spec => []VisibleGuestReached
<1>1. WellInv => VisibleGuestReached
  BY DEF WellInv, VisibleGuestReached
<1> QED
  BY <1>1, LeaseInvariance, PTL

=============================================================================
