---------------------------- MODULE UpdateProofs ----------------------------
(***************************************************************************)
(* What AutoUpdate promises of reboots and of updates that are turned off,  *)
(* for any number of releases, boots, commands, faults, prints and          *)
(* incidents.                                                              *)
(***************************************************************************)
EXTENDS UpdateProperties, TLAPS

IsProc(p) ==
    p \in [kind : Kinds, stage : Stages, checksum : Nat, idleness : Idleness,
           off : BOOLEAN, prints : Nat]

IsHist(h) ==
    h \in [commands : Nat, faults : Nat, prints : Nat, incidents : Nat,
           changed : BOOLEAN, repaired : BOOLEAN, off : BOOLEAN, overlap : BOOLEAN]

TypeInv ==
    /\ boot \in Nat \ {0}
    /\ marker.boot \in Nat
    /\ recommended \in Nat
    /\ scheduled \in {"none"} \cup Idleness
    /\ printer \in PrinterStates
    /\ latest \in Nat
    /\ IsProc(proc)
    /\ setup \in [Actors -> SetupStages]
    /\ IsHist(hist)

-----------------------------------------------------------------------------
(* The commands of proc.                                                    *)

LEMMA NoProcIsProc == IsProc(NoProc) /\ NoProc.stage = "idle" /\ ~NoProc.off
  BY DEF IsProc, NoProc, Kinds, Stages, Idleness

\* A command that goes on keeps everything but its stage.
LEMMA GotoProc ==
    ASSUME IsProc(proc), NEW stage \in Stages, Goto(stage)
    PROVE  /\ IsProc(proc') /\ proc'.stage = stage /\ proc'.off = proc.off
           /\ proc'.prints = proc.prints /\ proc'.idleness = proc.idleness
           /\ proc'.kind = proc.kind
  BY DEF IsProc, Goto

LEMMA FaultHist ==
    ASSUME IsHist(hist), Fault
    PROVE  /\ IsHist(hist') /\ hist'.prints = hist.prints /\ hist'.off = hist.off
           /\ hist'.changed = hist.changed /\ hist'.repaired = hist.repaired
           /\ hist'.overlap = hist.overlap
  BY DEF IsHist, Fault
\* What Moonraker says of the printer before a boot is forgotten with it.
LEMMA BootTypes ==
    ASSUME TypeInv, Booted, EndProcesses, IsHist(hist'),
           UNCHANGED <<marker, recommended, latest>>
    PROVE  TypeInv'
  BY NoProcIsProc DEF TypeInv, Booted, EndProcesses, IsProc, PrinterStates, SetupStages

LEMMA NewBootHist ==
    ASSUME IsHist(hist)
    PROVE  /\ IsHist(NewBoot) /\ IsHist([NewBoot EXCEPT !.incidents = @ + 1])
           /\ ~NewBoot.changed /\ ~NewBoot.repaired
           /\ NewBoot.overlap = hist.overlap /\ NewBoot.off = hist.off
           /\ NewBoot.prints = hist.prints
<1>1. IsHist(NewBoot)
  BY DEF IsHist, NewBoot
<1>2. IsHist([NewBoot EXCEPT !.incidents = @ + 1])
  BY <1>1 DEF IsHist
<1>3. ~NewBoot.changed /\ ~NewBoot.repaired
  BY DEF IsHist, NewBoot
<1>4. NewBoot.overlap = hist.overlap /\ NewBoot.off = hist.off /\ NewBoot.prints = hist.prints
  BY DEF IsHist, NewBoot
<1> QED BY <1>1, <1>2, <1>3, <1>4

\* A scheduled reboot asks for an idleness; a recommendation is of some boot.
LEMMA ScheduleTypes ==
    ASSUME TypeInv, NEW idleness \in Idleness
    PROVE  /\ Schedule(idleness) => scheduled' \in {"none"} \cup Idleness
           /\ ScheduleRecommended(idleness) =>
                 scheduled' \in {"none"} \cup Idleness /\ recommended' \in Nat
           /\ VerifiedMarker.boot \in Nat
  BY DEF TypeInv, Schedule, ScheduleRecommended, VerifiedMarker, CurrentRecommendation, NoMarker

LEMMA HostChangesTypes ==
    ASSUME TypeInv, NEW source, NEW before, HostChangesBy(source, before)
    PROVE  IsHist(hist') /\ marker'.boot \in Nat /\ recommended' \in Nat
  BY DEF TypeInv, IsHist, HostChangesBy, ApplyHostChanges, NewMarker

\* The types are kept by the commands that a user or the timer starts.
LEMMA BeginTypes ==
    ASSUME TypeInv, TimerCheck \/ FollowupCheck \/ InstallLatest \/ RebootUnitFires
                    \/ \E kind \in {"check", "install", "uninstall"} : UserCommand(kind)
    PROVE  TypeInv'
<1>1. ASSUME NEW kind \in Kinds, Begin(kind, "verify") PROVE IsProc(proc')
  BY <1>1, NoProcIsProc DEF Begin, TypeInv, IsProc, IsHist, Stages
<1>2. Command => IsHist(hist')
  BY DEF Command, TypeInv, IsHist
<1>3. CASE TimerCheck
  BY <1>1, <1>3 DEF TimerCheck, TypeInv, rebootVars, updateVars, Kinds
<1>4. CASE FollowupCheck
  BY <1>1, <1>4 DEF FollowupCheck, TypeInv, rebootVars, Kinds
<1>5. CASE InstallLatest
  BY <1>2, <1>5, NoProcIsProc DEF InstallLatest, TypeInv, rebootVars, IsProc, IsHist, Kinds, Stages
<1>6. CASE RebootUnitFires
  BY <1>6, NoProcIsProc DEF RebootUnitFires, TypeInv, updateVars, IsProc, IsHist, Kinds, Stages
<1>7. ASSUME NEW kind \in {"check", "install", "uninstall"}, UserCommand(kind) PROVE TypeInv'
  BY <1>1, <1>2, <1>7 DEF UserCommand, TypeInv, rebootVars, updateVars, Kinds
<1> QED BY <1>3, <1>4, <1>5, <1>6, <1>7

\* The steps of a check.
LEMMA CheckTypes == ASSUME TypeInv, VerifyReboot \/ Check PROVE TypeInv'
<1>1. \A stage \in Stages : Goto(stage) => IsProc(proc')
  BY GotoProc DEF TypeInv
<1>2. Finish => IsProc(proc')
  BY NoProcIsProc DEF Finish
<1>3. Fault => IsHist(hist')
  BY FaultHist DEF TypeInv
<1>4. CASE VerifyReboot
  BY <1>1, <1>2, <1>4, ScheduleTypes DEF VerifyReboot, TypeInv, updateVars, Stages, Idleness
<1>5. CASE PendingReboot
  BY <1>1, <1>2, <1>3, <1>5, ScheduleTypes DEF PendingReboot, TypeInv, updateVars, Stages, Idleness
<1>6. CASE SettleActivation
  BY <1>1, <1>2, <1>3, <1>6 DEF SettleActivation, TypeInv, rebootVars, Stages
<1>7. CASE FetchChecksum
  <2>1. CASE proc' = [proc EXCEPT !.stage = "decide", !.checksum = latest] /\ UNCHANGED hist
    BY <1>7, <2>1 DEF FetchChecksum, TypeInv, rebootVars, updateVars, IsProc, Stages
  <2>2. CASE Fault /\ Goto("after")
    BY <1>1, <1>3, <1>7, <2>2 DEF FetchChecksum, TypeInv, rebootVars, updateVars, Stages
  <2> QED BY <1>7, <2>1, <2>2 DEF FetchChecksum
<1>8. CASE Decide
  BY <1>1, <1>2, <1>3, <1>8 DEF Decide, TypeInv, rebootVars, Stages
<1>9. CASE Reconcile
  BY <1>1, <1>3, <1>9, HostChangesTypes DEF Reconcile, TypeInv, updateVars, Stages
<1>10. CASE Download
  BY <1>1, <1>2, <1>3, <1>10 DEF Download, TypeInv, rebootVars, updateVars, Stages
<1>11. CASE ReplaceBundle \/ UnpackBundle \/ RecordRelease
  BY <1>1, <1>2, <1>3, <1>11
     DEF ReplaceBundle, UnpackBundle, RecordRelease, TypeInv, rebootVars, Stages
<1>12. CASE AfterCheck
  BY <1>2, <1>3, <1>12, ScheduleTypes DEF AfterCheck, TypeInv, updateVars, Idleness
<1> QED BY <1>4, <1>5, <1>6, <1>7, <1>8, <1>9, <1>10, <1>11, <1>12 DEF Check

\* The steps of an install and of an uninstall, and the reboot.
LEMMA InstallTypes == ASSUME TypeInv, Install \/ Remove \/ Perform \/ Reboot PROVE TypeInv'
<1>1. \A stage \in Stages : Goto(stage) => IsProc(proc')
  BY GotoProc DEF TypeInv
<1>2. Finish => IsProc(proc')
  BY NoProcIsProc DEF Finish
<1>3. Fault => IsHist(hist')
  BY FaultHist DEF TypeInv
<1>4. CASE Commit
  BY <1>1, <1>2, <1>3, <1>4 DEF Commit, TypeInv, rebootVars, Stages
<1>5. CASE Optimize
  BY <1>1, <1>3, <1>5, HostChangesTypes DEF Optimize, TypeInv, updateVars, Stages
<1>6. CASE BeginSetup
  <2>1. PICK stage \in {"unenroll", "none", "state"} :
           /\ BeginSettingUp("installer", stage)
           /\ proc' = [proc EXCEPT !.stage = "settingUp", !.off = @ /\ stage # "state"]
    BY <1>6 DEF BeginSetup
  <2>2. IsProc(proc')
    BY <2>1 DEF TypeInv, IsProc, Stages
  <2>3. IsHist(hist') /\ setup' \in [Actors -> SetupStages]
    BY <2>1 DEF TypeInv, BeginSettingUp, IsHist, SetupStages, Actors
  <2> QED BY <1>6, <2>2, <2>3 DEF BeginSetup, TypeInv, rebootVars, updateVars
<1>7. CASE EndSetup
  BY <1>1, <1>7 DEF EndSetup, TypeInv, rebootVars, updateVars, Stages
<1>8. CASE ActivateSources
  BY <1>1, <1>2, <1>3, <1>8 DEF ActivateSources, TypeInv, rebootVars, Stages
<1>9. CASE ArmFollowup
  BY <1>1, <1>3, <1>9 DEF ArmFollowup, TypeInv, rebootVars, Stages
<1>10. CASE Reschedule
  BY <1>2, <1>3, <1>10, ScheduleTypes DEF Reschedule, TypeInv, updateVars, Idleness
<1>11. CASE Remove
  BY <1>1, <1>2, <1>3, <1>11 DEF Remove, TypeInv, Stages, NoMarker
<1>12. CASE Perform
  <2>1. proc' = [proc EXCEPT !.stage = "rebooting", !.prints = hist.prints] => IsProc(proc')
    BY DEF TypeInv, IsProc, IsHist, Stages
  <2>2. CurrentRecommendation \in Nat
    BY DEF TypeInv, CurrentRecommendation
  <2> QED BY <1>2, <1>12, <2>1, <2>2 DEF Perform, TypeInv, updateVars
<1>13. CASE Reboot
  <2>1. CASE Booted /\ EndProcesses /\ hist' = NewBoot
    BY <1>13, <2>1, BootTypes, NewBootHist DEF Reboot, TypeInv
  <2>2. CASE Fault /\ Finish /\ UNCHANGED <<boot, scheduled, printer, setup, followup>>
    BY <1>2, <1>3, <1>13, <2>2 DEF Reboot, TypeInv
  <2> QED BY <1>13, <2>1, <2>2 DEF Reboot
<1> QED BY <1>4, <1>5, <1>6, <1>7, <1>8, <1>9, <1>10, <1>11, <1>12, <1>13 DEF Install

\* Turning updates on and off.
LEMMA SetupTypes == ASSUME TypeInv, NEW a \in Actors, SettingUp(a) PROVE TypeInv'
<1>1. ASSUME NEW from, NEW to \in SetupStages, SetupStep(a, from, to)
      PROVE setup' \in [Actors -> SetupStages]
  BY <1>1 DEF SetupStep, TypeInv
<1>2. Fault => IsHist(hist')
  BY FaultHist DEF TypeInv
<1>3. CASE WriteState(a) \/ InstallUnits(a) \/ Enroll(a) \/ Unenroll(a)
  BY <1>1, <1>2, <1>3 DEF WriteState, InstallUnits, Enroll, Unenroll, TypeInv, rebootVars, SetupStages
<1>4. /\ IsHist([hist EXCEPT !.off = TRUE])
      /\ IsHist([hist EXCEPT !.faults = @ + 1])
      /\ IsHist([hist EXCEPT !.faults = @ + 1, !.off = TRUE])
  <2>1. IsHist([hist EXCEPT !.off = TRUE])
    BY DEF TypeInv, IsHist
  <2>2. IsHist([hist EXCEPT !.faults = @ + 1])
    BY DEF TypeInv, IsHist
  <2>3. IsHist([hist EXCEPT !.faults = @ + 1, !.off = TRUE])
    <3>1. hist.faults + 1 \in Nat
      BY DEF TypeInv, IsHist
    <3> QED BY <3>1, ZenonT(30) DEF TypeInv, IsHist
  <2> QED BY <2>1, <2>2, <2>3
<1>5. CASE RemoveUnits(a)
  BY <1>1, <1>4, <1>5 DEF RemoveUnits, TypeInv, rebootVars, SetupStages
<1>6. CASE RemoveState(a)
  BY <1>1, <1>4, <1>6 DEF RemoveState, TypeInv, rebootVars, SetupStages
<1> QED BY <1>3, <1>5, <1>6 DEF SettingUp

\* Users, prints and incidents.
LEMMA EnvironmentTypes ==
    ASSUME TypeInv, UserSetup \/ Publish \/ UsePrinter \/ LeavePrinter \/ FirmwareUpdate
                    \/ Drift \/ Kill \/ PowerCycle \/ Recover
    PROVE  TypeInv'
<1>1. CASE UserSetup
  <2>1. PICK stage \in {"state", "unenroll"} :
           /\ setup' = [setup EXCEPT !["user"] = stage]
           /\ hist' = [hist EXCEPT !.commands = @ + 1,
                                   !.overlap = @ \/ setup["installer"] # "none",
                                   !.off = @ /\ stage # "state"]
           /\ proc' = [proc EXCEPT !.off = @ /\ stage # "state"]
    BY <1>1 DEF UserSetup
  <2>2. IsProc(proc')
    BY <2>1 DEF TypeInv, IsProc
  <2>3. IsHist(hist')
    <3>1. hist.commands + 1 \in Nat
      BY DEF TypeInv, IsHist
    <3>2. (hist.overlap \/ setup["installer"] # "none") \in BOOLEAN
          /\ (hist.off /\ stage # "state") \in BOOLEAN
      OBVIOUS
    <3> QED BY <2>1, <3>1, <3>2, ZenonT(30) DEF TypeInv, IsHist
  <2>4. setup' \in [Actors -> SetupStages]
    BY <2>1 DEF TypeInv, SetupStages
  <2> QED BY <1>1, <2>2, <2>3, <2>4 DEF UserSetup, TypeInv, rebootVars, updateVars
<1>2. CASE Publish \/ LeavePrinter
  BY <1>2 DEF Publish, LeavePrinter, TypeInv, rebootVars, updateVars, PrinterStates
<1>3. CASE UsePrinter
  BY <1>3 DEF UsePrinter, TypeInv, IsHist, updateVars
<1>4. CASE FirmwareUpdate
  BY <1>4, BootTypes, NewBootHist DEF FirmwareUpdate, TypeInv
<1>5. Incident => IsHist(hist')
  BY DEF Incident, TypeInv, IsHist
<1>6. CASE Drift
  BY <1>5, <1>6 DEF Drift, TypeInv, rebootVars
<1>7. CASE Kill
  BY <1>5, <1>7, NoProcIsProc DEF Kill, TypeInv, rebootVars, updateVars, Finish, SetupStages
<1>8. CASE PowerCycle
  BY <1>8, BootTypes, NewBootHist DEF PowerCycle, TypeInv
<1>9. CASE Recover
  BY <1>9 DEF Recover, Command, TypeInv, rebootVars, IsHist
<1> QED BY <1>1, <1>2, <1>3, <1>4, <1>6, <1>7, <1>8, <1>9

LEMMA TypesKept == TypeInv /\ [Next]_vars => TypeInv'
<1>1. TypeInv /\ UNCHANGED vars => TypeInv'
  BY DEF TypeInv, vars, rebootVars, updateVars
<1> QED BY <1>1, BeginTypes, CheckTypes, InstallTypes, SetupTypes, EnvironmentTypes
        DEF Next, Proceed, Environment

LEMMA TypesInit == Init => TypeInv
<1>1. Init => IsHist(hist)
  BY DEF Init, IsHist
<1> QED BY <1>1, NoProcIsProc
        DEF Init, RebootInit, TypeInv, NoMarker, PrinterStates, SetupStages

THEOREM UpdateTypes == Spec => []TypeInv
  BY TypesInit, TypesKept, PTL DEF Spec

-----------------------------------------------------------------------------
(* What the steps have in common.                                           *)

\* A step does not look at the printer: a reboot about to happen was about to
\* happen before, as it was asked for then.
Unlooked ==
    proc'.stage = "rebooting" =>
        /\ proc.stage = "rebooting"
        /\ proc'.prints = proc.prints /\ proc'.idleness = proc.idleness

\* A step neither changes the host nor forgets a change, nor a boot.
Quiet ==
    /\ UNCHANGED <<boot, marker, recommended, host>>
    /\ hist'.changed = hist.changed /\ hist'.repaired = hist.repaired

\* The use of the printer goes on, ends, or is counted.
Counted ==
    \/ hist'.prints = hist.prints /\ (printer' = printer \/ printer' = "idle")
    \/ hist'.prints = hist.prints + 1

LEMMA FinishUnlooked == Finish => Unlooked
  BY NoProcIsProc DEF Finish, Unlooked

LEMMA GotoUnlooked ==
    ASSUME TypeInv, NEW stage \in Stages \ {"rebooting"}, Goto(stage) PROVE Unlooked
  BY DEF Goto, Unlooked, TypeInv, IsProc

LEMMA HostChangesHist ==
    ASSUME TypeInv, NEW source, NEW before, HostChangesBy(source, before)
    PROVE  /\ hist'.changed = (hist.changed \/ host # HostChanges)
           /\ hist'.repaired = (hist.repaired \/ ~Repaired)
           /\ hist'.prints = hist.prints
  BY DEF TypeInv, IsHist, HostChangesBy

\* Commands that start.
LEMMA BeginSteps ==
    ASSUME TypeInv, TimerCheck \/ FollowupCheck \/ InstallLatest \/ RebootUnitFires
                    \/ \E kind \in {"check", "install", "uninstall"} : UserCommand(kind)
    PROVE  Unlooked /\ Quiet /\ Counted
<1>1. ASSUME NEW kind, Begin(kind, "verify") PROVE Unlooked
  BY <1>1 DEF Begin, NoProc, Unlooked
<1>2. Command => hist'.changed = hist.changed /\ hist'.repaired = hist.repaired /\ hist'.prints = hist.prints
  BY DEF Command, TypeInv, IsHist
<1>3. UNCHANGED proc => Unlooked
  BY DEF Unlooked
<1>4. CASE TimerCheck \/ FollowupCheck
  BY <1>1, <1>3, <1>4 DEF TimerCheck, FollowupCheck, Quiet, Counted, rebootVars
<1>5. CASE InstallLatest
  <2>1. Unlooked
    BY <1>5 DEF InstallLatest, Unlooked, NoProc
  <2> QED BY <1>2, <1>5, <2>1 DEF InstallLatest, Quiet, Counted, rebootVars
<1>6. CASE RebootUnitFires
  <2>1. Unlooked
    BY <1>6 DEF RebootUnitFires, Unlooked, NoProc
  <2> QED BY <1>6, <2>1 DEF RebootUnitFires, Quiet, Counted
<1>7. ASSUME NEW kind \in {"check", "install", "uninstall"}, UserCommand(kind)
      PROVE Unlooked /\ Quiet /\ Counted
  BY <1>1, <1>2, <1>7 DEF UserCommand, Quiet, Counted, rebootVars
<1> QED BY <1>4, <1>5, <1>6, <1>7

LEMMA CheckSteps ==
    ASSUME TypeInv, VerifyReboot \/ Check
    PROVE  Unlooked /\ Counted /\ (Quiet \/ VerifyReboot \/ Reconcile \/ AfterCheck)
<1>1. \A stage \in Stages \ {"rebooting"} : Goto(stage) => Unlooked
  BY GotoUnlooked
<1>2. Finish => Unlooked
  BY FinishUnlooked
<1>3. Fault => /\ hist'.prints = hist.prints /\ hist'.changed = hist.changed
               /\ hist'.repaired = hist.repaired
  BY FaultHist DEF TypeInv
<1>4. CASE VerifyReboot
  BY <1>1, <1>2, <1>4 DEF VerifyReboot, Counted, Stages
<1>5. CASE PendingReboot
  BY <1>1, <1>2, <1>3, <1>5 DEF PendingReboot, Counted, Quiet, Stages
<1>6. CASE SettleActivation
  BY <1>1, <1>2, <1>3, <1>6 DEF SettleActivation, Counted, Quiet, rebootVars, Stages
<1>7. CASE FetchChecksum
  <2>1. Unlooked
    <3>1. ASSUME proc' = [proc EXCEPT !.stage = "decide", !.checksum = latest] PROVE Unlooked
      BY <3>1 DEF Unlooked, TypeInv, IsProc
    <3> QED BY <1>1, <1>7, <3>1 DEF FetchChecksum, Stages
  <2> QED BY <1>3, <1>7, <2>1 DEF FetchChecksum, Counted, Quiet, rebootVars
<1>8. CASE Decide
  BY <1>1, <1>2, <1>3, <1>8 DEF Decide, Counted, Quiet, rebootVars, Stages
<1>9. CASE Reconcile
  BY <1>1, <1>3, <1>9, HostChangesHist DEF Reconcile, Counted, Stages
<1>10. CASE Download \/ ReplaceBundle \/ UnpackBundle \/ RecordRelease
  BY <1>1, <1>2, <1>3, <1>10
     DEF Download, ReplaceBundle, UnpackBundle, RecordRelease, Counted, Quiet, rebootVars, Stages
<1>11. CASE AfterCheck
  BY <1>2, <1>3, <1>11 DEF AfterCheck, Counted
<1> QED BY <1>4, <1>5, <1>6, <1>7, <1>8, <1>9, <1>10, <1>11 DEF Check

LEMMA InstallSteps ==
    ASSUME TypeInv, Install \/ Remove \/ Perform \/ Reboot
    PROVE  /\ Unlooked \/ Perform
           /\ Counted
           /\ Quiet \/ Optimize \/ Reschedule \/ Remove \/ Perform \/ Reboot
<1>1. \A stage \in Stages \ {"rebooting"} : Goto(stage) => Unlooked
  BY GotoUnlooked
<1>2. Finish => Unlooked
  BY FinishUnlooked
<1>3. Fault => /\ hist'.prints = hist.prints /\ hist'.changed = hist.changed
               /\ hist'.repaired = hist.repaired
  BY FaultHist DEF TypeInv
<1>4. CASE Commit
  BY <1>1, <1>2, <1>3, <1>4 DEF Commit, Counted, Quiet, rebootVars, Stages
<1>5. CASE Optimize
  BY <1>1, <1>3, <1>5, HostChangesHist DEF Optimize, Counted, Stages
<1>6. CASE BeginSetup
  <2>1. PICK stage \in {"unenroll", "none", "state"} :
           /\ BeginSettingUp("installer", stage)
           /\ proc' = [proc EXCEPT !.stage = "settingUp", !.off = @ /\ stage # "state"]
    BY <1>6 DEF BeginSetup
  <2>2. Unlooked
    BY <2>1 DEF TypeInv, IsProc, Unlooked
  <2>3. /\ hist'.changed = hist.changed /\ hist'.repaired = hist.repaired
        /\ hist'.prints = hist.prints
    BY <2>1 DEF TypeInv, BeginSettingUp, IsHist
  <2> QED BY <1>6, <2>2, <2>3 DEF BeginSetup, Quiet, Counted, rebootVars
<1>7. CASE EndSetup
  BY <1>1, <1>7 DEF EndSetup, Counted, Quiet, rebootVars, Stages
<1>8. CASE ActivateSources \/ ArmFollowup
  BY <1>1, <1>2, <1>3, <1>8 DEF ActivateSources, ArmFollowup, Counted, Quiet, rebootVars, Stages
<1>9. CASE Reschedule
  BY <1>2, <1>3, <1>9 DEF Reschedule, Counted
<1>10. CASE Remove
  BY <1>1, <1>2, <1>3, <1>10 DEF Remove, Counted, Stages
<1>11. CASE Perform
  BY <1>11 DEF Perform, Counted
<1>12. CASE Reboot
  <2>1. NewBoot.prints = hist.prints
    BY NewBootHist DEF TypeInv
  <2> QED BY <1>2, <1>3, <1>12, <2>1, FinishUnlooked, NoProcIsProc
          DEF Reboot, Counted, Booted, EndProcesses, Unlooked
<1> QED BY <1>4, <1>5, <1>6, <1>7, <1>8, <1>9, <1>10, <1>11, <1>12 DEF Install

LEMMA SetupSteps ==
    ASSUME TypeInv, NEW a \in Actors, SettingUp(a) PROVE Unlooked /\ Quiet /\ Counted
<1>1. UNCHANGED proc => Unlooked
  BY DEF Unlooked
<1>2. Fault => /\ hist'.prints = hist.prints /\ hist'.changed = hist.changed
               /\ hist'.repaired = hist.repaired
  BY FaultHist DEF TypeInv
<1>3. CASE WriteState(a) \/ InstallUnits(a) \/ Enroll(a) \/ Unenroll(a)
  BY <1>1, <1>2, <1>3 DEF WriteState, InstallUnits, Enroll, Unenroll, rebootVars, Quiet, Counted
<1>4. CASE RemoveUnits(a) \/ RemoveState(a)
  <2>1. /\ hist'.prints = hist.prints /\ hist'.changed = hist.changed
        /\ hist'.repaired = hist.repaired
    BY <1>4 DEF RemoveUnits, RemoveState, TypeInv, IsHist
  <2> QED BY <1>1, <1>4, <2>1 DEF RemoveUnits, RemoveState, rebootVars, Quiet, Counted
<1> QED BY <1>3, <1>4 DEF SettingUp

LEMMA EnvironmentSteps ==
    ASSUME TypeInv, UserSetup \/ Publish \/ UsePrinter \/ LeavePrinter \/ FirmwareUpdate
                    \/ Drift \/ Kill \/ PowerCycle \/ Recover
    PROVE  Unlooked /\ Counted /\ (Quiet \/ FirmwareUpdate \/ PowerCycle)
<1>1. UNCHANGED proc => Unlooked
  BY DEF Unlooked
<1>2. CASE UserSetup
  <2>1. PICK stage \in {"state", "unenroll"} :
           /\ hist' = [hist EXCEPT !.commands = @ + 1,
                                   !.overlap = @ \/ setup["installer"] # "none",
                                   !.off = @ /\ stage # "state"]
           /\ proc' = [proc EXCEPT !.off = @ /\ stage # "state"]
    BY <1>2 DEF UserSetup
  <2>2. Unlooked
    BY <2>1 DEF TypeInv, IsProc, Unlooked
  <2>3. /\ hist'.changed = hist.changed /\ hist'.repaired = hist.repaired
        /\ hist'.prints = hist.prints
    BY <2>1 DEF TypeInv, IsHist
  <2> QED BY <1>2, <2>2, <2>3 DEF UserSetup, Quiet, Counted, rebootVars
<1>3. CASE Publish \/ LeavePrinter
  BY <1>1, <1>3 DEF Publish, LeavePrinter, rebootVars, Quiet, Counted
<1>4. CASE UsePrinter
  BY <1>1, <1>4 DEF UsePrinter, TypeInv, IsHist, Quiet, Counted
<1>5. /\ NewBoot.prints = hist.prints
      /\ [NewBoot EXCEPT !.incidents = @ + 1].prints = hist.prints
  BY DEF NewBoot, TypeInv, IsHist
<1>6. CASE FirmwareUpdate \/ PowerCycle
  BY <1>5, <1>6, NoProcIsProc
     DEF FirmwareUpdate, PowerCycle, Booted, EndProcesses, Unlooked, Counted
<1>7. Incident => /\ hist'.prints = hist.prints /\ hist'.changed = hist.changed
                  /\ hist'.repaired = hist.repaired
  BY DEF Incident, TypeInv, IsHist
<1>8. CASE Drift \/ Kill
  BY <1>1, <1>7, <1>8, FinishUnlooked DEF Drift, Kill, rebootVars, Quiet, Counted
<1>9. CASE Recover
  BY <1>1, <1>9 DEF Recover, Command, TypeInv, IsHist, rebootVars, Quiet, Counted
<1> QED BY <1>2, <1>3, <1>4, <1>6, <1>8, <1>9

\* Every step keeps the counts; only Perform looks at the printer.
LEMMA AllSteps ==
    ASSUME TypeInv, [Next]_vars
    PROVE  /\ Unlooked \/ Perform
           /\ Counted
           /\ \/ Quiet \/ VerifyReboot \/ Reconcile \/ AfterCheck \/ Optimize \/ Reschedule
              \/ Remove \/ Perform \/ Reboot \/ FirmwareUpdate \/ PowerCycle
<1>1. CASE UNCHANGED vars
  BY <1>1 DEF vars, rebootVars, Unlooked, Counted, Quiet
<1> QED BY <1>1, BeginSteps, CheckSteps, InstallSteps, SetupSteps, EnvironmentSteps
        DEF Next, Proceed, Environment

-----------------------------------------------------------------------------
(* Reboots are needed and remembered.                                       *)

\* A marker or a recommendation of this boot comes from a change in this boot,
\* and so does a reboot about to happen.
ChangeKnown ==
    marker.boot = boot \/ recommended = boot \/ proc.stage = "rebooting" => hist.changed

RebootInv ==
    /\ marker.boot <= boot /\ recommended <= boot
    /\ ChangeKnown
    /\ PendingKept

\* The marker left by a verification, and the recommendation that is left, are
\* of this boot only if they were.
LEMMA Verified ==
    ASSUME TypeInv, RebootInv,
           UNCHANGED <<boot, host>>, hist'.changed = hist.changed,
           hist'.repaired = hist.repaired, Unlooked,
           marker' \in {marker, VerifiedMarker},
           recommended' \in {recommended, CurrentRecommendation}
    PROVE  RebootInv'
<1>1. marker'.boot = boot <=> marker.boot = boot
  BY DEF VerifiedMarker, RebootHappened, NoMarker, TypeInv
<1>2. marker'.boot <= boot
  BY DEF VerifiedMarker, NoMarker, TypeInv, RebootInv
<1>3. recommended' = boot => recommended = boot
  BY DEF CurrentRecommendation, TypeInv
<1>4. recommended' <= boot
  BY DEF CurrentRecommendation, TypeInv, RebootInv
<1> QED BY <1>1, <1>2, <1>3, <1>4 DEF RebootInv, ChangeKnown, PendingKept, Repaired, Unlooked

\* A change of the host leaves a marker or a recommendation of this boot.
LEMMA Changed ==
    ASSUME TypeInv, RebootInv, NEW source, NEW before, HostChangesBy(source, before),
           Unlooked, UNCHANGED boot
    PROVE  RebootInv'
<1>1. /\ hist'.changed = (hist.changed \/ host # HostChanges)
      /\ hist'.repaired = (hist.repaired \/ ~Repaired)
  BY HostChangesHist
<1>2. hist.changed => hist'.changed
  BY <1>1 DEF TypeInv, IsHist
<1>3. CASE Repaired
  <2>1. marker' = marker /\ hist'.repaired = hist.repaired
    BY <1>1, <1>3 DEF HostChangesBy, ApplyHostChanges, TypeInv, IsHist
  <2>2. recommended' = recommended \/ (recommended' = boot /\ hist'.changed)
    BY <1>1 DEF HostChangesBy, ApplyHostChanges, HostChanges, TypeInv, IsHist
  <2> QED BY <1>2, <1>3, <2>1, <2>2
          DEF RebootInv, ChangeKnown, PendingKept, Unlooked, TypeInv
<1>4. CASE ~Repaired
  <2>1. marker'.boot = boot
    BY <1>4 DEF HostChangesBy, ApplyHostChanges, NewMarker
  <2>2. hist'.changed
    BY <1>1, <1>4 DEF Repaired, HostChanges, TypeInv, IsHist
  <2>3. recommended' = recommended \/ recommended' = boot
    BY DEF HostChangesBy, ApplyHostChanges
  <2> QED BY <2>1, <2>2, <2>3 DEF RebootInv, ChangeKnown, PendingKept, TypeInv
<1> QED BY <1>3, <1>4

\* In a new boot nothing was changed yet, and what there is is of an earlier one.
LEMMA NewBootInv ==
    ASSUME TypeInv, RebootInv, Booted, EndProcesses, UNCHANGED <<marker, recommended>>,
           ~hist'.changed, ~hist'.repaired
    PROVE  RebootInv'
<1>1. marker'.boot # boot' /\ recommended' # boot' /\ marker'.boot <= boot' /\ recommended' <= boot'
  BY DEF TypeInv, RebootInv, Booted
<1>2. proc'.stage # "rebooting"
  BY NoProcIsProc DEF EndProcesses
<1> QED BY <1>1, <1>2 DEF RebootInv, ChangeKnown, PendingKept

LEMMA RebootKept == TypeInv /\ RebootInv /\ [Next]_vars => RebootInv'
<1> SUFFICES ASSUME TypeInv, RebootInv, [Next]_vars PROVE RebootInv'
  OBVIOUS
<1>1. Unlooked \/ Perform
  BY AllSteps
<1>2. CASE Quiet /\ Unlooked
  BY <1>2 DEF Quiet, Unlooked, RebootInv, ChangeKnown, PendingKept, Repaired
<1>3. Fault => hist'.changed = hist.changed /\ hist'.repaired = hist.repaired
  BY FaultHist DEF TypeInv
<1>4. CASE (VerifyReboot \/ AfterCheck \/ Reschedule) /\ Unlooked
  BY <1>3, <1>4, Verified DEF VerifyReboot, AfterCheck, Reschedule, ScheduleRecommended
<1>5. CASE (Reconcile \/ Optimize) /\ Unlooked
  <2>1. UNCHANGED boot
    BY <1>5 DEF Reconcile, Optimize
  <2>2. CASE \E source, before : HostChangesBy(source, before)
    BY <1>5, <2>1, <2>2, Changed
  <2>3. CASE UNCHANGED <<host, marker, recommended>> /\ (UNCHANGED hist \/ Fault)
    BY <1>3, <1>5, <2>1, <2>3 DEF RebootInv, ChangeKnown, PendingKept, Repaired, Unlooked
  <2> QED BY <1>5, <2>2, <2>3 DEF Reconcile, Optimize
<1>6. CASE Remove /\ Unlooked
  <2>1. UNCHANGED <<boot, recommended>> /\ hist'.changed = hist.changed /\ hist'.repaired = hist.repaired
    BY <1>3, <1>6 DEF Remove
  <2>2. CASE host' = {}
    <3>1. ~Repaired'
      BY <2>2 DEF Repaired
    <3>2. marker' = marker \/ marker'.boot = 0
      BY <1>6 DEF Remove, NoMarker
    <3> QED BY <1>6, <2>1, <3>1, <3>2 DEF RebootInv, ChangeKnown, PendingKept, Unlooked, TypeInv
  <2>3. CASE UNCHANGED <<host, marker>>
    BY <1>6, <2>1, <2>3 DEF RebootInv, ChangeKnown, PendingKept, Repaired, Unlooked
  <2> QED BY <1>6, <2>2, <2>3 DEF Remove
<1>7. CASE Perform
  <2>1. UNCHANGED <<boot, marker, host, hist>>
    BY <1>7 DEF Perform
  <2>2. recommended' <= boot /\ (recommended' = boot => recommended = boot)
    BY <1>7 DEF Perform, CurrentRecommendation, TypeInv, RebootInv
  <2>3. proc'.stage = "rebooting" => hist.changed
    BY <1>7, NoProcIsProc DEF Perform, Finish, RebootRecommended, RebootInv, ChangeKnown
  <2> QED BY <2>1, <2>2, <2>3 DEF RebootInv, ChangeKnown, PendingKept, Repaired
<1>8. CASE Reboot /\ Unlooked
  <2>1. CASE Booted /\ EndProcesses /\ hist' = NewBoot
    BY <1>8, <2>1, NewBootInv, NewBootHist DEF Reboot, TypeInv
  <2>2. CASE Fault /\ UNCHANGED boot
    BY <1>3, <1>8, <2>2 DEF Reboot, RebootInv, ChangeKnown, PendingKept, Repaired, Unlooked
  <2> QED BY <1>8, <2>1, <2>2 DEF Reboot
<1>9. CASE FirmwareUpdate \/ PowerCycle
  <2>1. ~hist'.changed /\ ~hist'.repaired
    BY <1>9 DEF FirmwareUpdate, PowerCycle, NewBoot, TypeInv, IsHist
  <2> QED BY <1>9, <2>1, NewBootInv DEF FirmwareUpdate, PowerCycle
<1> QED BY <1>1, <1>2, <1>4, <1>5, <1>6, <1>7, <1>8, <1>9, AllSteps

LEMMA RebootInit0 == Init => RebootInv
  BY DEF Init, RebootInit, RebootInv, ChangeKnown, PendingKept, NoMarker, NoProc

LEMMA RebootInvariant == Spec => [](TypeInv /\ RebootInv)
<1>1. Init => TypeInv /\ RebootInv
  BY TypesInit, RebootInit0
<1>2. TypeInv /\ RebootInv /\ [Next]_vars => (TypeInv /\ RebootInv)'
  BY TypesKept, RebootKept
<1> QED BY <1>1, <1>2, PTL DEF Spec

\* A repair of the root file system made in this boot and still in place keeps
\* its marker, however commands, updates, reboots and incidents follow.
THEOREM PendingAlwaysKept == Spec => []PendingKept
<1>1. RebootInv => PendingKept
  BY DEF RebootInv
<1> QED BY <1>1, RebootInvariant, PTL

\* The installer reboots the host only in a boot in which it changed something
\* that needs it.
THEOREM RebootsNeeded == Spec => RebootNeeded
<1>1. TypeInv /\ RebootInv => [(Reboot /\ boot' # boot) => hist.changed]_vars
  BY DEF Reboot, At, RebootInv, ChangeKnown
<1> QED BY <1>1, RebootInvariant, PTL DEF RebootNeeded

-----------------------------------------------------------------------------
(* Reboots find the printer idle.                                           *)

\* Between its look at the printer and the reboot the command is told of every
\* use of the printer that begins, by the count of them.
LookInv ==
    proc.stage = "rebooting" =>
        /\ proc.prints <= hist.prints
        /\ PrinterAllows(proc.idleness) \/ proc.prints < hist.prints

LEMMA LookKept == TypeInv /\ LookInv /\ [Next]_vars => LookInv'
<1> SUFFICES ASSUME TypeInv, LookInv, [Next]_vars PROVE LookInv'
  OBVIOUS
<1>1. Unlooked \/ Perform
  BY AllSteps
<1>2. Counted
  BY AllSteps
<1>3. hist.prints \in Nat /\ proc.prints \in Nat
  BY DEF TypeInv, IsHist, IsProc
<1>4. CASE Unlooked
  BY <1>2, <1>3, <1>4 DEF Unlooked, Counted, LookInv, PrinterAllows
<1>5. CASE Perform
  <2>1. UNCHANGED <<hist, printer>>
    BY <1>5 DEF Perform
  <2>2. CASE Finish
    BY <2>2, NoProcIsProc DEF Finish, LookInv
  <2>3. CASE /\ PrinterAllows(proc.idleness)
             /\ proc' = [proc EXCEPT !.stage = "rebooting", !.prints = hist.prints]
    <3>1. proc'.prints = hist.prints /\ proc'.idleness = proc.idleness
      BY <2>3 DEF TypeInv, IsProc
    <3> QED BY <1>3, <2>1, <2>3, <3>1 DEF LookInv, PrinterAllows
  <2> QED BY <1>5, <2>2, <2>3 DEF Perform
<1> QED BY <1>1, <1>4, <1>5

LEMMA LookInvariant == Spec => [](TypeInv /\ LookInv)
<1>1. Init => TypeInv /\ LookInv
  BY TypesInit DEF Init, LookInv, NoProc
<1>2. TypeInv /\ LookInv /\ [Next]_vars => (TypeInv /\ LookInv)'
  BY TypesKept, LookKept
<1> QED BY <1>1, <1>2, PTL DEF Spec

\* The host is not rebooted in the middle of a print that began before the last
\* look at the printer.
THEOREM RebootsFindIdle == Spec => RebootsIdle
<1>1. TypeInv /\ LookInv =>
         [(Reboot /\ boot' # boot) => PrinterAllows(proc.idleness) \/ hist.prints # proc.prints]_vars
  BY DEF Reboot, At, LookInv, TypeInv, IsHist, IsProc
<1> QED BY <1>1, LookInvariant, PTL DEF RebootsIdle

-----------------------------------------------------------------------------
(* Updates that are turned off.                                             *)

Enabling == {"state", "units", "enroll"}
Replacing == {"download", "replace"}

\* Without overlapping commands, a disable that has ended left no enrolment and
\* nothing that enrols, and no check that began after it goes on to replace the
\* bundle.
OffKnown ==
    /\ hist.off => ~enrolled
    /\ \A a \in Actors : setup[a] \in Enabling => ~hist.off
    /\ \A a \in Actors : setup[a] \in {"remove", "forget"} => ~enrolled
    /\ \A a, b \in Actors : setup[a] # "none" /\ setup[b] # "none" => a = b
    /\ proc.stage \in Replacing => ~proc.off

OffInv == (proc.off => hist.off) /\ (hist.overlap \/ OffKnown)

\* A step that neither sets updates up nor decides to update.
Unset ==
    /\ UNCHANGED <<setup, enrolled>>
    /\ hist'.off = hist.off /\ hist'.overlap = hist.overlap
    /\ proc'.off => proc.off \/ hist.off
    /\ proc'.stage \in Replacing => proc.stage \in Replacing /\ proc'.off = proc.off

LEMMA FinishOff == Finish => ~proc'.off /\ proc'.stage \notin Replacing
  BY NoProcIsProc DEF Finish, Replacing

LEMMA GotoOff ==
    ASSUME TypeInv, NEW stage \in Stages, Goto(stage)
    PROVE  proc'.off = proc.off /\ proc'.stage = stage
  BY GotoProc DEF TypeInv

LEMMA BeginUnset ==
    ASSUME TypeInv, TimerCheck \/ FollowupCheck \/ InstallLatest \/ RebootUnitFires
                    \/ \E kind \in {"check", "install", "uninstall"} : UserCommand(kind)
    PROVE  Unset
<1>1. ASSUME NEW kind, Begin(kind, "verify")
      PROVE proc'.off = hist.off /\ proc'.stage \notin Replacing
  BY <1>1 DEF Begin, NoProc, Replacing
<1>2. Command => hist'.off = hist.off /\ hist'.overlap = hist.overlap
  BY DEF Command, TypeInv, IsHist
<1>3. CASE TimerCheck \/ FollowupCheck
  BY <1>1, <1>3 DEF TimerCheck, FollowupCheck, Unset, updateVars
<1>4. CASE InstallLatest
  <2>1. UNCHANGED proc \/ (proc'.off = hist.off /\ proc'.stage \notin Replacing)
    BY <1>4 DEF InstallLatest, NoProc, Replacing
  <2> QED BY <1>2, <1>4, <2>1 DEF InstallLatest, Unset
<1>5. CASE RebootUnitFires
  <2>1. UNCHANGED proc \/ (proc'.off = hist.off /\ proc'.stage \notin Replacing)
    BY <1>5 DEF RebootUnitFires, NoProc, Replacing
  <2> QED BY <1>5, <2>1 DEF RebootUnitFires, Unset, updateVars
<1>6. ASSUME NEW kind \in {"check", "install", "uninstall"}, UserCommand(kind) PROVE Unset
  BY <1>1, <1>2, <1>6 DEF UserCommand, Unset, updateVars
<1> QED BY <1>3, <1>4, <1>5, <1>6

LEMMA ProceedUnset ==
    ASSUME TypeInv, Proceed, ~BeginSetup, ~Decide, ~(Reboot /\ Booted) PROVE Unset
<1>1. \A stage \in Stages : Goto(stage) => proc'.off = proc.off /\ proc'.stage = stage
  BY GotoOff
<1>2. Finish => ~proc'.off /\ proc'.stage \notin Replacing
  BY FinishOff
<1>3. Fault => hist'.off = hist.off /\ hist'.overlap = hist.overlap
  BY FaultHist DEF TypeInv
<1>4. CASE VerifyReboot \/ PendingReboot \/ AfterCheck
  BY <1>1, <1>2, <1>3, <1>4
     DEF VerifyReboot, PendingReboot, AfterCheck, Unset, updateVars, Replacing, Stages
<1>5. CASE SettleActivation \/ Download \/ ReplaceBundle \/ UnpackBundle \/ RecordRelease
  BY <1>1, <1>2, <1>3, <1>5
     DEF SettleActivation, Download, ReplaceBundle, UnpackBundle, RecordRelease, Unset, updateVars,
         Replacing, Stages, At
<1>6. CASE FetchChecksum
  <2>1. ASSUME proc' = [proc EXCEPT !.stage = "decide", !.checksum = latest]
        PROVE proc'.off = proc.off /\ proc'.stage = "decide"
    BY <2>1 DEF TypeInv, IsProc
  <2> QED BY <1>1, <1>3, <1>6, <2>1 DEF FetchChecksum, Unset, updateVars, Replacing, Stages
<1>7. \A source, before : HostChangesBy(source, before) => hist'.off = hist.off /\ hist'.overlap = hist.overlap
  BY DEF HostChangesBy, TypeInv, IsHist
<1>8. CASE Reconcile \/ Optimize
  BY <1>1, <1>3, <1>7, <1>8 DEF Reconcile, Optimize, Unset, updateVars, Replacing, Stages
<1>9. CASE Commit \/ EndSetup \/ ActivateSources \/ ArmFollowup \/ Reschedule
  BY <1>1, <1>2, <1>3, <1>9
     DEF Commit, EndSetup, ActivateSources, ArmFollowup, Reschedule, Unset, updateVars, Replacing,
         Stages
<1>10. CASE Remove
  BY <1>1, <1>2, <1>3, <1>10 DEF Remove, Unset, Replacing, Stages
<1>11. CASE Perform
  <2>1. proc' = [proc EXCEPT !.stage = "rebooting", !.prints = hist.prints]
        => proc'.off = proc.off /\ proc'.stage = "rebooting"
    BY DEF TypeInv, IsProc
  <2> QED BY <1>2, <1>11, <2>1 DEF Perform, Unset, updateVars, Replacing
<1>12. CASE Reboot
  BY <1>2, <1>3, <1>12 DEF Reboot, Unset
<1> QED BY <1>4, <1>5, <1>6, <1>8, <1>9, <1>10, <1>11, <1>12 DEF Proceed, Check, Install

LEMMA EnvironmentUnset ==
    ASSUME TypeInv, Publish \/ UsePrinter \/ LeavePrinter \/ Drift \/ Recover PROVE Unset
<1>1. CASE Publish \/ LeavePrinter
  BY <1>1 DEF Publish, LeavePrinter, updateVars, Unset
<1>2. CASE UsePrinter
  BY <1>2 DEF UsePrinter, TypeInv, IsHist, updateVars, Unset
<1>3. CASE Drift
  BY <1>3 DEF Drift, Incident, TypeInv, IsHist, Unset
<1>4. CASE Recover
  BY <1>4 DEF Recover, Command, TypeInv, IsHist, Unset
<1> QED BY <1>1, <1>2, <1>3, <1>4

\* Processes that end leave nothing under way.
LEMMA EndedOff ==
    ASSUME TypeInv, OffInv, UNCHANGED enrolled, hist'.off = hist.off,
           hist'.overlap = hist.overlap,
           \A a \in Actors : setup'[a] \in {setup[a], "none"},
           UNCHANGED proc \/ (~proc'.off /\ proc'.stage \notin Replacing)
    PROVE  OffInv'
  BY DEF OffInv, OffKnown, Enabling

\* A command that begins to set updates up; enabling takes back a disable.
LEMMA SettingUpOff ==
    ASSUME TypeInv, OffInv, NEW a \in Actors, NEW stage \in {"unenroll", "none", "state"},
           setup' = [setup EXCEPT ![a] = stage],
           hist'.off = (hist.off /\ stage # "state"), UNCHANGED enrolled,
           hist'.overlap = (hist.overlap \/ (stage # "none" /\ \E b \in Actors \ {a} : setup[b] # "none")),
           proc'.off = (proc.off /\ stage # "state"),
           proc'.stage \in Replacing => proc.stage \in Replacing
    PROVE  OffInv'
<1>1. proc'.off => hist'.off
  BY DEF OffInv
<1>2. hist.overlap => hist'.overlap
  OBVIOUS
<1>3. setup'[a] = stage /\ \A b \in Actors \ {a} : setup'[b] = setup[b]
  BY DEF TypeInv
<1>4. hist'.overlap \/ OffKnown'
  <2> SUFFICES ASSUME ~hist'.overlap PROVE OffKnown'
    OBVIOUS
  <2>1. OffKnown
    BY <1>2 DEF OffInv
  <2>2. stage # "none" => \A b \in Actors \ {a} : setup[b] = "none"
    OBVIOUS
  <2>3. hist'.off => ~enrolled'
    BY <2>1 DEF OffKnown
  <2>4. \A b \in Actors : setup'[b] \in Enabling => ~hist'.off
    BY <1>3, <2>1 DEF OffKnown, Enabling
  <2>5. \A b \in Actors : setup'[b] \in {"remove", "forget"} => ~enrolled'
    BY <1>3, <2>1 DEF OffKnown
  <2>6. \A b, c \in Actors : setup'[b] # "none" /\ setup'[c] # "none" => b = c
    BY <1>3, <2>1, <2>2 DEF OffKnown
  <2>7. proc'.stage \in Replacing => ~proc'.off
    BY <2>1 DEF OffKnown
  <2> QED BY <2>3, <2>4, <2>5, <2>6, <2>7 DEF OffKnown
<1> QED BY <1>1, <1>4 DEF OffInv

\* One step of turning updates on or off.
LEMMA SetupOff == ASSUME TypeInv, OffInv, NEW a \in Actors, SettingUp(a) PROVE OffInv'
<1>1. UNCHANGED proc
  BY DEF SettingUp, WriteState, InstallUnits, Enroll, Unenroll, RemoveUnits, RemoveState
<1>2. hist'.overlap = hist.overlap
  <2>1. Fault => hist'.overlap = hist.overlap
    BY FaultHist DEF TypeInv
  <2>2. CASE RemoveUnits(a) \/ RemoveState(a)
    BY <2>2 DEF RemoveUnits, RemoveState, TypeInv, IsHist
  <2> QED BY <2>1, <2>2 DEF SettingUp, WriteState, InstallUnits, Enroll, Unenroll
<1>3. ASSUME NEW from, NEW to \in SetupStages, SetupStep(a, from, to)
      PROVE setup[a] = from /\ setup'[a] = to /\ \A b \in Actors \ {a} : setup'[b] = setup[b]
  BY <1>3 DEF SetupStep, TypeInv
<1>4. Fault => hist'.off = hist.off
  BY FaultHist DEF TypeInv
<1>5. CASE WriteState(a) \/ InstallUnits(a)
  <2>1. UNCHANGED enrolled /\ hist'.off = hist.off
    BY <1>4, <1>5 DEF WriteState, InstallUnits
  <2>2. setup[a] \in {"state", "units"} /\ setup'[a] \in {"units", "enroll", "none"}
        /\ \A b \in Actors \ {a} : setup'[b] = setup[b]
    BY <1>3, <1>5 DEF WriteState, InstallUnits, SetupStages
  <2> QED BY <1>1, <1>2, <2>1, <2>2 DEF OffInv, OffKnown, Enabling
<1>6. CASE Enroll(a)
  <2>1. enrolled' /\ UNCHANGED hist
    BY <1>6 DEF Enroll
  <2>2. setup[a] = "enroll" /\ setup'[a] = "none" /\ \A b \in Actors \ {a} : setup'[b] = setup[b]
    BY <1>3, <1>6 DEF Enroll, SetupStages
  <2> QED BY <1>1, <2>1, <2>2 DEF OffInv, OffKnown, Enabling
<1>7. CASE Unenroll(a)
  <2>1. ~enrolled' /\ UNCHANGED hist
    BY <1>7 DEF Unenroll
  <2>2. setup[a] = "unenroll" /\ setup'[a] = "remove" /\ \A b \in Actors \ {a} : setup'[b] = setup[b]
    BY <1>3, <1>7 DEF Unenroll, SetupStages
  <2> QED BY <1>1, <2>1, <2>2 DEF OffInv, OffKnown, Enabling
<1>8. CASE RemoveUnits(a) \/ RemoveState(a)
  <2>1. UNCHANGED enrolled /\ (hist'.off \/ hist'.off = hist.off)
    BY <1>8 DEF RemoveUnits, RemoveState, TypeInv, IsHist
  <2>2. setup[a] \in {"remove", "forget"} /\ setup'[a] \in {"none", "forget"}
        /\ \A b \in Actors \ {a} : setup'[b] = setup[b]
    BY <1>3, <1>8 DEF RemoveUnits, RemoveState, SetupStages
  <2> QED BY <1>1, <1>2, <2>1, <2>2 DEF OffInv, OffKnown, Enabling
<1> QED BY <1>5, <1>6, <1>7, <1>8 DEF SettingUp

\* What setting updates up leaves in the history.
LEMMA HistSetup ==
    ASSUME IsHist(hist), NEW over, NEW off
    PROVE  LET without == [hist EXCEPT !.overlap = over, !.off = off]
               with == [hist EXCEPT !.commands = @ + 1, !.overlap = over, !.off = off]
           IN  without.overlap = over /\ without.off = off /\ with.overlap = over /\ with.off = off
  BY DEF IsHist

LEMMA OffKept == TypeInv /\ OffInv /\ [Next]_vars => OffInv'
<1> SUFFICES ASSUME TypeInv, OffInv, [Next]_vars PROVE OffInv'
  OBVIOUS
<1>1. CASE Unset
  BY <1>1 DEF Unset, OffInv, OffKnown
<1>2. CASE UNCHANGED vars
  BY <1>2 DEF vars, updateVars, OffInv, OffKnown
<1>3. CASE BeginSetup
  <2>1. PICK stage \in {"unenroll", "none", "state"} :
           /\ BeginSettingUp("installer", stage)
           /\ proc' = [proc EXCEPT !.stage = "settingUp", !.off = @ /\ stage # "state"]
    BY <1>3 DEF BeginSetup
  <2>2. proc'.off = (proc.off /\ stage # "state") /\ proc'.stage \notin Replacing
    BY <2>1 DEF TypeInv, IsProc, Replacing
  <2>3. setup' = [setup EXCEPT !["installer"] = stage]
    BY <2>1 DEF BeginSettingUp
  <2>5. /\ hist'.off = (hist.off /\ stage # "state")
        /\ hist'.overlap = (hist.overlap \/ (stage # "none" /\ \E b \in Actors \ {"installer"} : setup[b] # "none"))
    <3> DEFINE over == hist.overlap \/ (stage # "none" /\ \E b \in Actors \ {"installer"} : setup[b] # "none")
               off == hist.off /\ stage # "state"
    <3>1. hist' = [hist EXCEPT !.overlap = over, !.off = off]
      BY <2>1 DEF BeginSettingUp
    <3> QED BY <3>1, HistSetup DEF TypeInv
  <2>4. UNCHANGED enrolled
    BY <1>3 DEF BeginSetup, updateVars
  <2> QED BY <2>2, <2>3, <2>4, <2>5, SettingUpOff DEF Actors
<1>4. CASE UserSetup
  <2>1. PICK stage \in {"state", "unenroll"} :
           /\ setup' = [setup EXCEPT !["user"] = stage]
           /\ hist' = [hist EXCEPT !.commands = @ + 1,
                                   !.overlap = @ \/ setup["installer"] # "none",
                                   !.off = @ /\ stage # "state"]
           /\ proc' = [proc EXCEPT !.off = @ /\ stage # "state"]
    BY <1>4 DEF UserSetup
  <2>2. proc'.off = (proc.off /\ stage # "state") /\ proc'.stage = proc.stage
    BY <2>1 DEF TypeInv, IsProc
  <2>3. /\ hist'.off = (hist.off /\ stage # "state")
        /\ hist'.overlap = (hist.overlap \/ (stage # "none" /\ \E b \in Actors \ {"user"} : setup[b] # "none"))
    <3> DEFINE over == hist.overlap \/ setup["installer"] # "none"
               off == hist.off /\ stage # "state"
    <3>1. hist'.overlap = over /\ hist'.off = off
      BY <2>1, HistSetup DEF TypeInv
    <3>2. over = (hist.overlap \/ (stage # "none" /\ \E b \in Actors \ {"user"} : setup[b] # "none"))
      BY DEF Actors
    <3> QED BY <3>1, <3>2
  <2>4. UNCHANGED enrolled
    BY <1>4 DEF UserSetup, updateVars
  <2>5. "user" \in Actors /\ stage \in {"unenroll", "none", "state"}
    BY DEF Actors
  <2>6. setup' = [setup EXCEPT !["user"] = stage]
    BY <2>1
  <2>7. proc'.stage \in Replacing => proc.stage \in Replacing
    BY <2>2
  <2>8. proc'.off = (proc.off /\ stage # "state")
    BY <2>2
  <2> HIDE DEF Actors
  <2> QED BY <2>3, <2>4, <2>5, <2>6, <2>7, <2>8, SettingUpOff
<1>5. CASE Decide
  <2>1. UNCHANGED <<setup, enrolled>>
    BY <1>5 DEF Decide
  <2>f. Fault => hist'.off = hist.off /\ hist'.overlap = hist.overlap
    BY FaultHist DEF TypeInv
  <2>h. hist'.off = hist.off /\ hist'.overlap = hist.overlap
    BY <1>5, <2>f DEF Decide
  <2>2. proc'.off => proc.off
    BY <1>5, GotoOff, FinishOff DEF Decide, Stages
  <2>3. proc'.stage \in Replacing => enrolled /\ proc'.off = proc.off
    BY <1>5, GotoOff, FinishOff DEF Decide, Stages, Replacing
  <2> QED BY <2>1, <2>h, <2>2, <2>3 DEF OffInv, OffKnown
<1>6. CASE (Reboot /\ Booted) \/ FirmwareUpdate \/ PowerCycle
  <2>1. CASE EndProcesses /\ UNCHANGED enrolled
             /\ (hist' = NewBoot \/ hist' = [NewBoot EXCEPT !.incidents = @ + 1])
    <3>1. hist'.off = hist.off /\ hist'.overlap = hist.overlap
      BY <2>1 DEF NewBoot, TypeInv, IsHist
    <3>2. ~proc'.off /\ proc'.stage \notin Replacing
      BY <2>1, NoProcIsProc DEF EndProcesses, Replacing
    <3>3. \A a \in Actors : setup'[a] = "none"
      BY <2>1 DEF EndProcesses
    <3> QED BY <2>1, <3>1, <3>2, <3>3, EndedOff
  <2>2. CASE Reboot /\ Booted
    <3>1. boot' # boot
      BY <2>2 DEF Booted, TypeInv
    <3> QED BY <2>1, <2>2, <3>1 DEF Reboot
  <2> QED BY <1>6, <2>1, <2>2 DEF FirmwareUpdate, PowerCycle
<1>7. CASE Kill
  <2>1. hist'.off = hist.off /\ hist'.overlap = hist.overlap
    BY <1>7 DEF Kill, Incident, TypeInv, IsHist
  <2>2. \A a \in Actors : setup'[a] \in {setup[a], "none"}
    BY <1>7 DEF Kill, TypeInv
  <2>3. UNCHANGED enrolled
    BY <1>7 DEF Kill, updateVars
  <2>4. UNCHANGED proc \/ (~proc'.off /\ proc'.stage \notin Replacing)
    BY <1>7, FinishOff DEF Kill
  <2> QED BY <2>1, <2>2, <2>3, <2>4, EndedOff
<1>8. ASSUME NEW a \in Actors, SettingUp(a) PROVE OffInv'
  BY <1>8, SetupOff
<1>9. CASE Proceed
  BY <1>1, <1>3, <1>5, <1>6, <1>9, ProceedUnset
<1> QED BY <1>1, <1>2, <1>4, <1>6, <1>7, <1>8, <1>9, BeginUnset, EnvironmentUnset
        DEF Next, Environment

LEMMA OffInit == Init => OffInv
<1>1. ASSUME Init PROVE OffInv
  <2>1. ~proc.off /\ proc.stage \notin Replacing
    BY <1>1, NoProcIsProc DEF Init, Replacing
  <2>2. \A a \in Actors : setup[a] = "none"
    BY <1>1 DEF Init
  <2>3. hist.off = ~enrolled
    BY <1>1 DEF Init
  <2> QED BY <2>1, <2>2, <2>3 DEF OffInv, OffKnown, Enabling
<1> QED BY <1>1

\* A release that was fetched has a checksum.
Fetched == {"decide", "download", "replace", "unpack"}

ReleaseInv == latest # 0 /\ (proc.stage \in Fetched => proc.checksum # 0)

LEMMA ReleaseKept == TypeInv /\ ReleaseInv /\ [Next]_vars => ReleaseInv'
<1> SUFFICES ASSUME TypeInv, ReleaseInv, [Next]_vars PROVE ReleaseInv'
  OBVIOUS
<1>1. latest' # 0
  <2>1. CASE Publish
    BY <2>1 DEF Publish, TypeInv
  <2>2. CASE UNCHANGED latest
    BY <2>2 DEF ReleaseInv
  <2> QED BY <2>1, <2>2
          DEF Next, Proceed, Check, Install, Environment, SettingUp, vars, updateVars,
              TimerCheck, FollowupCheck, RebootUnitFires, InstallLatest, UserCommand, UserSetup,
              UsePrinter, LeavePrinter, FirmwareUpdate, Drift, Kill, PowerCycle, Recover,
              VerifyReboot, PendingReboot, SettleActivation, FetchChecksum, Decide, Reconcile,
              Download, ReplaceBundle, UnpackBundle, RecordRelease, AfterCheck, Commit, Optimize,
              BeginSetup, EndSetup, ActivateSources, ArmFollowup, Reschedule, Remove, Perform,
              Reboot, WriteState, InstallUnits, Enroll, Unenroll, RemoveUnits, RemoveState
<1> DEFINE Same == proc'.stage = proc.stage /\ proc'.checksum = proc.checksum
           Apart == proc'.stage \notin Fetched
           Onward == proc.stage \in Fetched /\ proc'.checksum = proc.checksum
<1>2. ASSUME NEW kind, Begin(kind, "verify") PROVE Apart
  BY <1>2 DEF Begin, NoProc, Fetched
<1>3. Finish => Apart
  BY NoProcIsProc DEF Finish, Fetched
<1>4. ASSUME NEW stage \in Stages, Goto(stage)
      PROVE proc'.stage = stage /\ proc'.checksum = proc.checksum
  BY <1>4 DEF Goto, TypeInv, IsProc
<1>5. CASE TimerCheck \/ FollowupCheck \/ \E kind \in {"check", "install", "uninstall"} : UserCommand(kind)
  <2>1. Apart \/ UNCHANGED proc
    BY <1>2, <1>5 DEF TimerCheck, FollowupCheck, UserCommand
  <2> QED BY <1>1, <2>1 DEF ReleaseInv
<1>6. CASE InstallLatest \/ RebootUnitFires
  <2>1. Apart \/ UNCHANGED proc
    BY <1>6 DEF InstallLatest, RebootUnitFires, NoProc, Fetched
  <2> QED BY <1>1, <2>1 DEF ReleaseInv
<1>7. CASE VerifyReboot \/ PendingReboot \/ SettleActivation \/ Reconcile \/ UnpackBundle
           \/ RecordRelease \/ AfterCheck
  <2>1. Apart
    BY <1>3, <1>4, <1>7 DEF VerifyReboot, PendingReboot, SettleActivation, Reconcile, UnpackBundle,
                            RecordRelease, AfterCheck, Stages, Fetched
  <2> QED BY <1>1, <2>1 DEF ReleaseInv
<1>8. CASE FetchChecksum
  <2>1. CASE proc' = [proc EXCEPT !.stage = "decide", !.checksum = latest]
    <3>1. proc'.checksum = latest
      BY <2>1 DEF TypeInv, IsProc
    <3> QED BY <1>1, <3>1 DEF ReleaseInv
  <2>2. CASE Goto("after")
    BY <1>1, <1>4, <2>2 DEF ReleaseInv, Stages, Fetched
  <2> QED BY <1>8, <2>1, <2>2 DEF FetchChecksum
<1>9. CASE Decide \/ Download \/ ReplaceBundle
  <2>1. Apart \/ Onward
    BY <1>3, <1>4, <1>9 DEF Decide, Download, ReplaceBundle, At, Stages, Fetched
  <2> QED BY <1>1, <2>1 DEF ReleaseInv
<1>10. CASE Commit \/ Optimize \/ EndSetup \/ ActivateSources \/ ArmFollowup \/ Reschedule \/ Remove
  <2>1. Apart
    BY <1>3, <1>4, <1>10 DEF Commit, Optimize, EndSetup, ActivateSources, ArmFollowup, Reschedule,
                             Remove, Stages, Fetched
  <2> QED BY <1>1, <2>1 DEF ReleaseInv
<1>11. CASE BeginSetup \/ Perform
  <2>1. Apart
    BY <1>3, <1>11 DEF BeginSetup, Perform, TypeInv, IsProc, Fetched
  <2> QED BY <1>1, <2>1 DEF ReleaseInv
<1>12. CASE UserSetup
  <2>1. Same
    BY <1>12 DEF UserSetup, TypeInv, IsProc
  <2> QED BY <1>1, <2>1 DEF ReleaseInv
<1>13. CASE Reboot \/ FirmwareUpdate \/ PowerCycle
  <2>1. Apart
    BY <1>3, <1>13 DEF Reboot, FirmwareUpdate, PowerCycle, EndProcesses, Finish
  <2> QED BY <1>1, <2>1 DEF ReleaseInv
<1>14. CASE Kill
  <2>1. Apart \/ UNCHANGED proc
    BY <1>3, <1>14 DEF Kill
  <2> QED BY <1>1, <2>1 DEF ReleaseInv
<1>15. CASE UNCHANGED vars \/ Publish \/ UsePrinter \/ LeavePrinter \/ Drift \/ Recover
            \/ \E a \in Actors : SettingUp(a)
  <2>1. UNCHANGED proc
    BY <1>15 DEF vars, Publish, UsePrinter, LeavePrinter, Drift, Recover, SettingUp, WriteState,
                 InstallUnits, Enroll, Unenroll, RemoveUnits, RemoveState
  <2> QED BY <1>1, <2>1 DEF ReleaseInv
<1> QED BY <1>5, <1>6, <1>7, <1>8, <1>9, <1>10, <1>11, <1>12, <1>13, <1>14, <1>15
        DEF Next, Proceed, Check, Install, Environment

\* The bundle directory disappears in no other step.
LEMMA BundleRemoved ==
    ASSUME TypeInv, ReleaseInv, [Next]_vars, bundle # 0, bundle' = 0 PROVE ReplaceBundle
<1>1. CASE InstallLatest
  BY <1>1 DEF InstallLatest, ReleaseInv
<1>2. CASE UnpackBundle
  BY <1>2 DEF UnpackBundle, At, ReleaseInv, Fetched
<1>3. CASE UNCHANGED bundle
  BY <1>3
<1>4. ReplaceBundle \/ InstallLatest \/ UnpackBundle \/ UNCHANGED bundle
  BY DEF Next, Proceed, Check, Install, Environment, SettingUp, vars, updateVars,
         TimerCheck, FollowupCheck, RebootUnitFires, UserCommand, UserSetup, Publish, UsePrinter,
         LeavePrinter, FirmwareUpdate, Drift, Kill, PowerCycle, Recover, VerifyReboot, PendingReboot,
         SettleActivation, FetchChecksum, Decide, Reconcile, Download, RecordRelease, AfterCheck,
         Commit, Optimize, BeginSetup, EndSetup, ActivateSources, ArmFollowup, Reschedule, Remove,
         Perform, Reboot, WriteState, InstallUnits, Enroll, Unenroll, RemoveUnits, RemoveState
<1> QED BY <1>1, <1>2, <1>3, <1>4

\* A check that began after updates were turned off replaces no bundle, unless
\* two commands turned them on and off at the same time.
THEOREM DisabledStaysOff == Spec => DisabledInstallsNothing
<1>1. Init => TypeInv /\ OffInv /\ ReleaseInv
  BY OffInit, TypesInit DEF Init, ReleaseInv, NoProc, Fetched
<1>2. TypeInv /\ OffInv /\ ReleaseInv /\ [Next]_vars => (TypeInv /\ OffInv /\ ReleaseInv)'
  BY TypesKept, OffKept, ReleaseKept
<1>3. TypeInv /\ OffInv /\ ReleaseInv /\ [Next]_vars =>
         [(bundle # 0 /\ bundle' = 0) => ~proc.off \/ hist.overlap]_vars
  <2> SUFFICES ASSUME TypeInv, OffInv, ReleaseInv, [Next]_vars, bundle # 0, bundle' = 0
               PROVE  ~proc.off \/ hist.overlap
    OBVIOUS
  <2>1. proc.stage = "replace"
    BY BundleRemoved DEF ReplaceBundle, At
  <2> QED BY <2>1 DEF OffInv, OffKnown, Replacing
<1> QED BY <1>1, <1>2, <1>3, PTL DEF Spec, DisabledInstallsNothing
=============================================================================
