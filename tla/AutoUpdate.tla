----------------------------- MODULE AutoUpdate -----------------------------
(***************************************************************************)
(* auto_update.py and the commands of cli.py around it: the hourly check,   *)
(* the installer it runs as a child, manual installs and uninstalls, the    *)
(* scheduled reboot, and the turning on and off of automatic updates.       *)
(*                                                                         *)
(* A release is a number; its checksum is that number, and 0 is none.  The  *)
(* installer's own writes are InstallLifecycle's: here an install commits   *)
(* in one step or fails, with or without a recovery sentinel.               *)
(*                                                                         *)
(* proc holds the advisory lock.  Turning updates on and off is the work of *)
(* setup: of the installer in proc, or of the user's own command, which     *)
(* takes no lock.                                                          *)
(***************************************************************************)
EXTENDS HostReboot

CONSTANTS
    MaxReleases,   \* releases published
    MaxBoots,      \* boots of the host
    MaxCommands,   \* commands of the user
    MaxFaults,     \* steps that fail
    MaxPrints,     \* prints and other uses of the printer
    MaxIncidents   \* firmware updates by QIDI and killed installers

ASSUME BoundsAreNaturals ==
    {MaxReleases, MaxBoots, MaxCommands, MaxFaults, MaxPrints, MaxIncidents} \subseteq Nat

VARIABLES
    latest,      \* the newest published release
    bundle,      \* the release in the bundle directory, or 0
    installed,   \* the release whose package is in place and undrifted, or 0
    stored,      \* latest_checksum of the update state
    enrolled,    \* the enrolment file
    units,       \* the systemd units of the hourly check
    followup,    \* the follow-up check of an update is armed
    activation,  \* the Klipper restart marker
    blocked,     \* the recovery sentinel
    proc,        \* the command that holds the lock
    setup,       \* stage of turning updates on or off
    hist         \* counters, and what the properties refer to

updateVars == <<latest, bundle, installed, stored, enrolled, units, followup, activation,
                blocked>>
vars == <<rebootVars, updateVars, proc, setup, hist>>

Kinds == {"none", "check", "install", "uninstall", "reboot"}
Stages == {"idle", "verify", "pending", "activation", "fetch", "decide", "reconcile",
           "download", "replace", "unpack", "child", "commit", "optimize", "setup",
           "settingUp", "activate", "followup", "record", "after", "remove", "reschedule",
           "perform", "rebooting"}
Activations == {"none", "pending", "drifted"}
Actors == {"installer", "user"}
SetupStages == {"none", "state", "units", "enroll", "unenroll", "remove", "forget"}

NoProc == [kind |-> "none", stage |-> "idle", checksum |-> 0, idleness |-> "printer",
           off |-> FALSE, prints |-> 0]

\* A printer with release 1, its host changes in place, updates on or off.
Init ==
    /\ RebootInit
    /\ host = HostChanges
    /\ latest = 1 /\ bundle = 1 /\ installed = 1
    /\ \E on \in BOOLEAN : enrolled = on /\ units = on /\ stored = IF on THEN 1 ELSE 0
    /\ followup = FALSE
    /\ activation = "none"
    /\ blocked = FALSE
    /\ proc = NoProc
    /\ setup = [a \in Actors |-> "none"]
    /\ hist = [commands |-> 0, faults |-> 0, prints |-> 0, incidents |-> 0,
               changed |-> FALSE, repaired |-> FALSE, off |-> ~enrolled, overlap |-> FALSE]
-----------------------------------------------------------------------------
Finish == proc' = NoProc
Goto(stage) == proc' = [proc EXCEPT !.stage = stage]
At(stage) == proc.stage = stage

\* Whether the installer is the child of a check.
IsChild == proc.kind = "check"

Fault ==
    /\ hist.faults < MaxFaults
    /\ hist' = [hist EXCEPT !.faults = @ + 1]

Begin(kind, stage) ==
    /\ proc = NoProc
    /\ ~blocked
    /\ bundle # 0
    /\ proc' = [NoProc EXCEPT !.kind = kind, !.stage = stage, !.off = hist.off]

\* The hourly timer, the follow-up of an update.
TimerCheck ==
    /\ units
    /\ Begin("check", "verify")
    /\ UNCHANGED <<rebootVars, updateVars, setup, hist>>

FollowupCheck ==
    /\ followup
    /\ followup' = FALSE
    /\ IF proc = NoProc /\ ~blocked /\ bundle # 0 THEN Begin("check", "verify")
                                                  ELSE UNCHANGED proc
    /\ UNCHANGED <<rebootVars, latest, bundle, installed, stored, enrolled, units, activation,
                   blocked, setup, hist>>

Command ==
    /\ hist.commands < MaxCommands
    /\ hist' = [hist EXCEPT !.commands = @ + 1]

\* install-latest.sh replaces the bundle before install.sh asks for the lock.
InstallLatest ==
    /\ Command
    /\ bundle' = latest
    /\ proc' = IF proc = NoProc /\ ~blocked
               THEN [NoProc EXCEPT !.kind = "install", !.stage = "verify", !.off = hist.off]
               ELSE proc
    /\ UNCHANGED <<rebootVars, latest, installed, stored, enrolled, units, followup, activation,
                   blocked, setup>>

\* A user runs install.sh, uninstall or auto-update.sh --run.
UserCommand(kind) ==
    /\ Begin(kind, "verify")
    /\ Command
    /\ UNCHANGED <<rebootVars, updateVars, setup>>

\* The reboot unit runs complete-host-reboot, once; the lock may be taken.
RebootUnitFires ==
    /\ scheduled # "none"
    /\ scheduled' = "none"
    /\ IF proc = NoProc /\ ~blocked /\ bundle # 0
       THEN proc' = [NoProc EXCEPT !.kind = "reboot", !.stage = "verify",
                                   !.idleness = scheduled, !.off = hist.off]
       ELSE UNCHANGED proc
    /\ UNCHANGED <<boot, marker, recommended, host, printer, updateVars, setup, hist>>
-----------------------------------------------------------------------------
\* _verify_completed_host_reboot at the start of every command, the child
\* installer included.
VerifyReboot ==
    /\ At("verify") \/ At("child")
    /\ IF VerificationFails
       THEN Finish /\ UNCHANGED marker
       ELSE /\ marker' = VerifiedMarker
            /\ Goto(IF At("child") \/ proc.kind = "install" THEN "commit"
                    ELSE IF proc.kind = "check" THEN "pending"
                    ELSE IF proc.kind = "uninstall" THEN "remove" ELSE "perform")
    /\ UNCHANGED <<boot, recommended, scheduled, host, printer, updateVars, setup, hist>>

\* _auto_reboot_release_committed.
ReleaseCommitted ==
    /\ marker # NoMarker
    /\ marker.source = "auto_update_child" =>
          /\ marker.before # 0
          /\ stored \notin {0, marker.before}

\* A check with a reboot pending schedules it, for which sudo may fail, and
\* does nothing else.
PendingReboot ==
    /\ At("pending")
    /\ \/ /\ ReleaseCommitted /\ Repaired
          /\ Finish
          /\ \/ Schedule("klipper") /\ UNCHANGED hist
             \/ Fault /\ UNCHANGED scheduled
       \/ /\ ~(ReleaseCommitted /\ Repaired)
          /\ Goto("activation")
          /\ UNCHANGED <<scheduled, hist>>
    /\ UNCHANGED <<boot, marker, recommended, host, printer, updateVars, setup>>

\* A check settles a pending restart of Klipper before anything else, and ends
\* if it cannot.
SettleActivation ==
    /\ At("activation")
    /\ \/ /\ activation = "none" \/ (activation = "pending" /\ PrinterAllows("printer"))
          /\ activation' = "none"
          /\ Goto("fetch")
          /\ UNCHANGED hist
       \/ /\ activation = "drifted" \/ (activation = "pending" /\ ~PrinterAllows("printer"))
          /\ Finish
          /\ UNCHANGED <<activation, hist>>
       \/ /\ activation = "pending"
          /\ Fault
          /\ Finish
          /\ UNCHANGED activation
    /\ UNCHANGED <<rebootVars, latest, bundle, installed, stored, enrolled, units, followup,
                   blocked, setup>>

FetchChecksum ==
    /\ At("fetch")
    /\ \/ /\ proc' = [proc EXCEPT !.stage = "decide", !.checksum = latest]
          /\ UNCHANGED hist
       \/ Fault /\ Goto("after")
    /\ UNCHANGED <<rebootVars, updateVars, setup>>

\* Faulty variant of Drifted: only a missing ledger counts.
LedgerMissing == installed = 0

\* _installation_requires_reconciliation.
Drifted == installed # bundle

\* Current, busy, not enrolled, or an update; a check that cannot tell whether
\* the installation drifted fails.
Decide ==
    /\ At("decide")
    /\ LET known == enrolled /\ stored = proc.checksum IN
       \/ /\ known /\ ~Drifted
          /\ Goto(IF PrinterAllows("printer") THEN "reconcile" ELSE "after")
          /\ UNCHANGED <<stored, hist>>
       \/ /\ ~known \/ Drifted
          /\ IF ~PrinterAllows("printer") THEN Goto("after") /\ UNCHANGED stored
             ELSE IF ~enrolled THEN Goto("after") /\ stored' = proc.checksum
             ELSE Goto("download") /\ UNCHANGED stored
          /\ UNCHANGED hist
       \/ /\ known /\ Fault
          /\ Finish
          /\ UNCHANGED stored
    /\ UNCHANGED <<rebootVars, latest, bundle, installed, enrolled, units, followup, activation,
                   blocked, setup>>

\* Host changes of a step of proc; changed and repaired remember, for the
\* properties, those of this boot.
HostChangesBy(source, before) ==
    /\ ApplyHostChanges(source, before)
    /\ hist' = [hist EXCEPT !.changed = @ \/ host # HostChanges, !.repaired = @ \/ ~Repaired]

\* maybe_reconcile_system_optimizations of a check that is already current.
Reconcile ==
    /\ At("reconcile")
    /\ Goto("after")
    /\ \/ PrinterAllows("printer") /\ HostChangesBy("auto_update_reconcile", 0)
       \/ ~PrinterAllows("printer") /\ UNCHANGED <<host, marker, recommended, hist>>
       \/ Fault /\ UNCHANGED <<host, marker, recommended>>
    /\ UNCHANGED <<boot, scheduled, printer, updateVars, setup>>
-----------------------------------------------------------------------------
\* _run_latest_installer.

\* The archive is the newest one by now; it must have the fetched checksum.
Download ==
    /\ At("download")
    /\ \/ /\ IF latest = proc.checksum THEN Goto("replace") ELSE Finish
          /\ UNCHANGED hist
       \/ Fault /\ Finish
    /\ UNCHANGED <<rebootVars, updateVars, setup>>

\* rmtree of the bundle ...
ReplaceBundle ==
    /\ At("replace")
    /\ bundle' = 0
    /\ Goto("unpack")
    /\ UNCHANGED <<rebootVars, latest, installed, stored, enrolled, units, followup, activation,
                   blocked, setup, hist>>

\* ... and the move of the new one.
UnpackBundle ==
    /\ At("unpack")
    /\ \/ bundle' = proc.checksum /\ Goto("child") /\ UNCHANGED hist
       \/ Fault /\ Finish /\ UNCHANGED bundle
    /\ UNCHANGED <<rebootVars, latest, installed, stored, enrolled, units, followup, activation,
                   blocked, setup>>

\* After the child returned 0.
RecordRelease ==
    /\ At("record")
    /\ stored' = proc.checksum
    /\ Goto("after")
    /\ UNCHANGED <<rebootVars, latest, bundle, installed, enrolled, units, followup, activation,
                   blocked, setup, hist>>

\* What a check does last: verify again, then schedule what is pending.
AfterCheck ==
    /\ At("after")
    /\ Finish
    /\ \/ /\ VerificationFails
          /\ UNCHANGED <<marker, scheduled, recommended, hist>>
       \/ /\ ~VerificationFails
          /\ marker' = VerifiedMarker
          /\ IF marker' = NoMarker
             THEN ScheduleRecommended("klipper")
             ELSE /\ IF ReleaseCommitted /\ Repaired THEN Schedule("klipper")
                                                     ELSE UNCHANGED scheduled
                  /\ UNCHANGED recommended
          /\ UNCHANGED hist
       \/ /\ Fault
          /\ marker' = IF VerificationFails THEN marker ELSE VerifiedMarker
          /\ UNCHANGED <<scheduled, recommended>>
    /\ UNCHANGED <<boot, host, printer, updateVars, setup>>
-----------------------------------------------------------------------------
\* run_install, by a user or as the child of a check.

Commit ==
    /\ At("commit")
    /\ \/ /\ PrinterAllows("printer")
          /\ installed' = bundle
          /\ activation' \in {activation, "pending"}
          /\ activation' # "drifted"
          /\ Goto("optimize")
          /\ UNCHANGED <<blocked, hist>>
       \/ /\ ~PrinterAllows("printer")
          /\ Finish
          /\ UNCHANGED <<installed, activation, blocked, hist>>
       \/ /\ Fault
          /\ Finish
          /\ blocked' \in BOOLEAN
          /\ UNCHANGED <<installed, activation>>
    /\ UNCHANGED <<rebootVars, latest, bundle, stored, enrolled, units, followup, setup>>

Optimize ==
    /\ At("optimize")
    /\ Goto("setup")
    /\ \/ IF IsChild THEN HostChangesBy("auto_update_child", stored)
                     ELSE HostChangesBy("interactive_install", 0)
       \/ Fault /\ UNCHANGED <<host, marker, recommended>>
    /\ UNCHANGED <<boot, scheduled, printer, updateVars, setup>>

\* overlap and off are history: two of these ran at once; the last to end or
\* to begin was a disable that has ended.
BeginSettingUp(a, stage) ==
    /\ setup' = [setup EXCEPT ![a] = stage]
    /\ hist' = [hist EXCEPT
                  !.overlap = @ \/ (stage # "none" /\ \E b \in Actors \ {a} : setup[b] # "none"),
                  !.off = @ /\ stage # "state"]

\* Repair of configured updates, or the question to turn them on; an uninstall
\* turns them off.
BeginSetup ==
    /\ At("setup")
    /\ \E stage \in IF proc.kind = "uninstall"
                    THEN {IF units \/ enrolled THEN "unenroll" ELSE "none"}
                    ELSE IF units THEN {"state"}
                    ELSE IF IsChild THEN {"none"} ELSE {"none", "state"} :
          /\ BeginSettingUp("installer", stage)
          /\ proc' = [proc EXCEPT !.stage = "settingUp", !.off = @ /\ stage # "state"]
    /\ UNCHANGED <<rebootVars, updateVars>>

EndSetup ==
    /\ At("settingUp")
    /\ setup["installer"] = "none"
    /\ Goto("activate")
    /\ UNCHANGED <<rebootVars, updateVars, setup, hist>>

\* maybe_restart_pending_service_if_idle: deferred while the printer is in use;
\* a failure ends the child only.
ActivateSources ==
    /\ At("activate")
    /\ LET next == IF IsChild THEN "followup" ELSE "reschedule"
       IN  \/ /\ Goto(next)
              /\ activation' = IF activation = "pending" /\ PrinterAllows("printer")
                               THEN "none" ELSE activation
              /\ UNCHANGED hist
           \/ /\ activation = "pending"
              /\ Fault
              /\ IF IsChild THEN Finish ELSE Goto(next)
              /\ UNCHANGED activation
    /\ UNCHANGED <<rebootVars, latest, bundle, installed, stored, enrolled, units, followup,
                   blocked, setup>>

\* arm_auto_update_reboot_followup.
ArmFollowup ==
    /\ At("followup")
    /\ Goto("record")
    /\ \/ followup' = (followup \/ marker.source = "auto_update_child") /\ UNCHANGED hist
       \/ Fault /\ UNCHANGED followup
    /\ UNCHANGED <<rebootVars, latest, bundle, installed, stored, enrolled, units, activation,
                   blocked, setup>>

\* The end of main for install and uninstall; an uninstall reboots only when
\* told to, and without sudo nobody does.  The lock is released before, which
\* no step here could tell.
Reschedule ==
    /\ At("reschedule")
    /\ Finish
    /\ \/ /\ IF marker # NoMarker
             THEN /\ \/ marker.boot = boot /\ Repaired /\ Schedule("printer")
                     \/ /\ proc.kind = "uninstall" \/ marker.boot # boot \/ ~Repaired
                        /\ UNCHANGED scheduled
                  /\ UNCHANGED recommended
             ELSE IF proc.kind = "install" THEN ScheduleRecommended("printer")
             ELSE UNCHANGED <<scheduled, recommended>>
          /\ UNCHANGED hist
       \/ /\ IF marker # NoMarker THEN marker.boot = boot /\ Repaired
                                  ELSE proc.kind = "install" /\ RebootRecommended
          /\ Fault
          /\ UNCHANGED <<scheduled, recommended>>
    /\ UNCHANGED <<boot, marker, host, printer, updateVars, setup>>

\* An uninstall restores the files and, unless told not to, the host; with
\* nothing installed it refuses or goes on to the updates.
Remove ==
    /\ At("remove")
    /\ \/ /\ PrinterAllows("printer")
          /\ installed' = 0
          /\ activation # "drifted"
          /\ activation' \in {activation, "pending"}
          /\ \/ host' = {} /\ marker' = (IF Repaired THEN NoMarker ELSE marker)
             \/ UNCHANGED <<host, marker>>
          /\ Goto("setup")
          /\ UNCHANGED <<blocked, hist>>
       \/ /\ ~PrinterAllows("printer")
          /\ Finish
          /\ UNCHANGED <<installed, activation, host, marker, blocked, hist>>
       \/ /\ installed = 0
          /\ Goto("setup") \/ Finish
          /\ UNCHANGED <<installed, activation, host, marker, blocked, hist>>
       \/ /\ Fault
          /\ Finish
          /\ blocked' \in BOOLEAN
          /\ UNCHANGED <<installed, activation, host, marker>>
    /\ UNCHANGED <<boot, recommended, scheduled, printer, latest, bundle, stored, enrolled, units,
                   followup, setup>>
-----------------------------------------------------------------------------
\* complete-host-reboot.

\* Faulty variant of Perform: the printer is not asked again.
PerformUnasked ==
    /\ At("perform")
    /\ recommended' = IF marker = NoMarker THEN CurrentRecommendation ELSE recommended
    /\ IF boot < MaxBoots /\ IF marker = NoMarker THEN RebootRecommended
                                                 ELSE marker.boot = boot /\ Repaired
       THEN proc' = [proc EXCEPT !.stage = "rebooting", !.prints = hist.prints]
       ELSE Finish
    /\ UNCHANGED <<boot, marker, scheduled, host, printer, updateVars, setup, hist>>

\* For the marker, or else for a recommendation; the last boot of the bound
\* is not left.
Perform ==
    /\ At("perform")
    /\ recommended' = IF marker = NoMarker THEN CurrentRecommendation ELSE recommended
    /\ IF /\ boot < MaxBoots
          /\ IF marker = NoMarker THEN RebootRecommended
                                  ELSE marker.boot = boot /\ Repaired
          /\ PrinterAllows(proc.idleness)
       THEN proc' = [proc EXCEPT !.stage = "rebooting", !.prints = hist.prints]
       ELSE Finish
    /\ UNCHANGED <<boot, marker, scheduled, host, printer, updateVars, setup, hist>>

\* A boot ends every process.
EndProcesses ==
    /\ proc' = NoProc
    /\ setup' = [a \in Actors |-> "none"]
    /\ followup' = FALSE

\* No host change was made in a new boot.
NewBoot == [hist EXCEPT !.changed = FALSE, !.repaired = FALSE]

Reboot ==
    /\ At("rebooting")
    /\ \/ Booted /\ EndProcesses /\ hist' = NewBoot
       \/ Fault /\ Finish /\ UNCHANGED <<boot, scheduled, printer, setup, followup>>
    /\ UNCHANGED <<marker, recommended, host, latest, bundle, installed, stored, enrolled, units,
                   activation, blocked>>
-----------------------------------------------------------------------------
\* enable_auto_updates and disable_auto_updates, by actor a.

SetupStep(a, from, to) ==
    /\ setup[a] = from
    /\ setup' = [setup EXCEPT ![a] = to]

\* The release recorded is the newest published one, when it can be fetched.
WriteState(a) ==
    /\ SetupStep(a, "state", "units")
    /\ \/ stored' = latest /\ UNCHANGED hist
       \/ Fault /\ UNCHANGED stored
    /\ UNCHANGED <<rebootVars, latest, bundle, installed, enrolled, units, followup, activation,
                   blocked, proc>>

InstallUnits(a) ==
    /\ \/ SetupStep(a, "units", "enroll") /\ units' = TRUE /\ UNCHANGED hist
       \/ SetupStep(a, "units", "none") /\ Fault /\ units' \in {units, TRUE}
    /\ UNCHANGED <<rebootVars, latest, bundle, installed, stored, enrolled, followup, activation,
                   blocked, proc>>

Enroll(a) ==
    /\ SetupStep(a, "enroll", "none")
    /\ enrolled' = TRUE
    /\ UNCHANGED <<rebootVars, latest, bundle, installed, stored, units, followup, activation,
                   blocked, proc, hist>>

\* Faulty variant of Unenroll: sudo is asked for first.
UnenrollAfterSudo(a) ==
    /\ \/ /\ SetupStep(a, "unenroll", "forget")
          /\ enrolled' = FALSE /\ units' = FALSE
          /\ UNCHANGED hist
       \/ /\ SetupStep(a, "unenroll", "none")
          /\ hist.faults < MaxFaults
          /\ hist' = [hist EXCEPT !.faults = @ + 1, !.off = TRUE]
          /\ UNCHANGED <<enrolled, units>>
    /\ UNCHANGED <<rebootVars, latest, bundle, installed, stored, followup, activation, blocked,
                   proc>>

Unenroll(a) ==
    /\ SetupStep(a, "unenroll", "remove")
    /\ enrolled' = FALSE
    /\ UNCHANGED <<rebootVars, latest, bundle, installed, stored, units, followup, activation,
                   blocked, proc, hist>>

\* Without sudo the command ends here; commands that fail are ignored.
RemoveUnits(a) ==
    /\ \/ SetupStep(a, "remove", "forget") /\ units' = FALSE /\ UNCHANGED hist
       \/ /\ hist.faults < MaxFaults
          /\ \/ /\ SetupStep(a, "remove", "none")
                /\ hist' = [hist EXCEPT !.faults = @ + 1, !.off = TRUE]
             \/ /\ SetupStep(a, "remove", "forget")
                /\ hist' = [hist EXCEPT !.faults = @ + 1]
          /\ UNCHANGED units
    /\ UNCHANGED <<rebootVars, latest, bundle, installed, stored, enrolled, followup, activation,
                   blocked, proc>>

RemoveState(a) ==
    /\ SetupStep(a, "forget", "none")
    /\ stored' = 0
    /\ hist' = [hist EXCEPT !.off = TRUE]
    /\ UNCHANGED <<rebootVars, latest, bundle, installed, enrolled, units, followup, activation,
                   blocked, proc>>

\* auto-update.sh --enable-systemd or --disable-systemd.
UserSetup ==
    /\ setup["user"] = "none"
    /\ hist.commands < MaxCommands
    /\ \E stage \in {"state", "unenroll"} :
          /\ setup' = [setup EXCEPT !["user"] = stage]
          /\ hist' = [hist EXCEPT !.commands = @ + 1,
                                  !.overlap = @ \/ setup["installer"] # "none",
                                  !.off = @ /\ stage # "state"]
          /\ proc' = [proc EXCEPT !.off = @ /\ stage # "state"]
    /\ UNCHANGED <<rebootVars, updateVars>>
-----------------------------------------------------------------------------
\* The world around.

Publish ==
    /\ latest < MaxReleases
    /\ latest' = latest + 1
    /\ UNCHANGED <<rebootVars, bundle, installed, stored, enrolled, units, followup, activation,
                   blocked, proc, setup, hist>>

UsePrinter ==
    /\ printer = "idle"
    /\ hist.prints < MaxPrints
    /\ printer' \in PrinterStates \ {"idle"}
    /\ hist' = [hist EXCEPT !.prints = @ + 1]
    /\ UNCHANGED <<boot, marker, recommended, scheduled, host, updateVars, proc, setup>>

LeavePrinter ==
    /\ printer # "idle"
    /\ printer' = "idle"
    /\ UNCHANGED <<boot, marker, recommended, scheduled, host, updateVars, proc, setup, hist>>

Incident ==
    /\ hist.incidents < MaxIncidents
    /\ hist' = [hist EXCEPT !.incidents = @ + 1]

\* A firmware update cleans the configuration, replaces system files and boots.
FirmwareUpdate ==
    /\ boot < MaxBoots
    /\ hist.incidents < MaxIncidents
    /\ installed' = 0
    /\ stored' = 0
    /\ host' = {}
    /\ units' \in {FALSE, units}
    /\ activation' = IF activation = "none" THEN "none" ELSE "drifted"
    /\ Booted
    /\ EndProcesses
    /\ hist' = [NewBoot EXCEPT !.incidents = @ + 1]
    /\ UNCHANGED <<marker, recommended, latest, bundle, enrolled, blocked>>

\* Somebody changes an installed file.
Drift ==
    /\ Incident
    /\ installed # 0
    /\ installed' = 0
    /\ UNCHANGED <<rebootVars, latest, bundle, stored, enrolled, units, followup, activation,
                   blocked, proc, setup>>

\* The installer, or the user's own command, is killed.
Kill ==
    /\ Incident
    /\ \/ /\ proc # NoProc
          /\ Finish
          /\ setup' = [setup EXCEPT !["installer"] = "none"]
       \/ /\ setup["user"] # "none"
          /\ setup' = [setup EXCEPT !["user"] = "none"]
          /\ UNCHANGED proc
    /\ UNCHANGED <<rebootVars, updateVars>>

PowerCycle ==
    /\ boot < MaxBoots
    /\ Booted
    /\ EndProcesses
    /\ hist' = NewBoot
    /\ UNCHANGED <<marker, recommended, host, latest, bundle, installed, stored, enrolled, units,
                   activation, blocked>>

\* A user recovers and clears the sentinel.
Recover ==
    /\ blocked
    /\ proc = NoProc
    /\ Command
    /\ blocked' = FALSE
    /\ UNCHANGED <<rebootVars, latest, bundle, installed, stored, enrolled, units, followup,
                   activation, proc, setup>>
-----------------------------------------------------------------------------
Check ==
    \/ PendingReboot \/ SettleActivation \/ FetchChecksum \/ Decide \/ Reconcile
    \/ Download \/ ReplaceBundle \/ UnpackBundle \/ RecordRelease \/ AfterCheck

Install ==
    Commit \/ Optimize \/ BeginSetup \/ EndSetup \/ ActivateSources \/ ArmFollowup \/ Reschedule

Proceed == VerifyReboot \/ Check \/ Install \/ Remove \/ Perform \/ Reboot

SettingUp(a) ==
    \/ WriteState(a) \/ InstallUnits(a) \/ Enroll(a)
    \/ Unenroll(a) \/ RemoveUnits(a) \/ RemoveState(a)

Environment ==
    \/ InstallLatest
    \/ \E kind \in {"check", "install", "uninstall"} : UserCommand(kind)
    \/ UserSetup \/ Publish \/ UsePrinter \/ LeavePrinter \/ FirmwareUpdate \/ Drift \/ Kill
    \/ PowerCycle \/ Recover

Next ==
    \/ Proceed \/ TimerCheck \/ FollowupCheck \/ RebootUnitFires \/ Environment
    \/ \E a \in Actors : SettingUp(a)

Spec == Init /\ [][Next]_vars

\* Processes that are not killed go on, systemd fires its timers, and the
\* printer is left idle again and again.  The reboot unit, 10 s after it was
\* scheduled, does not always meet another hourly check.
FairSpec ==
    /\ Spec
    /\ WF_vars(Proceed)
    /\ \A a \in Actors : WF_vars(SettingUp(a))
    /\ WF_vars(TimerCheck)
    /\ WF_vars(FollowupCheck)
    /\ SF_vars(proc = NoProc /\ RebootUnitFires)
    /\ WF_vars(LeavePrinter)
=============================================================================
