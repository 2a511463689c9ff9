-------------------------- MODULE InstallLifecycle --------------------------
(***************************************************************************)
(* The lifecycle commands of the installer -- install, uninstall,           *)
(* restore-backup and clear-recovery-sentinel -- over one printer's files,  *)
(* its backup archives, its recovery sentinel and its Klipper process.      *)
(*                                                                         *)
(* One command holds the advisory lock at a time, so run describes it and   *)
(* its stages; a user, a crash of the installer and Klipper itself          *)
(* interleave with the stages.  A stage works through the paths in          *)
(* run.left, one file write a step.                                         *)
(***************************************************************************)
EXTENDS PackageFiles, RollbackJournal

CONSTANTS
    Retain,        \* INSTALLER_BACKUP_RETENTION
    InitialPackages, \* what an earlier life of the printer left: "stock", "legacy"
    MaxRuns,       \* commands started
    MaxFaults,     \* failures of the installer's steps, Ctrl-C included
    MaxCrashes,    \* times the installer is killed
    MaxEdits,      \* edits by a user or another tool
    MaxRestarts,   \* Klipper restarts the installer did not ask for
    MaxPrints      \* prints started

ASSUME BoundsAreNumbers ==
    /\ Retain \in Nat \ {0}
    /\ {MaxRuns, MaxFaults, MaxCrashes, MaxEdits, MaxRestarts, MaxPrints} \subseteq Nat
    /\ InitialPackages \subseteq {"stock", "legacy"}

VARIABLES
    disk,      \* content of every path
    backups,   \* the archives kept, numbered as they were made
    sentinel,  \* serial of the archive the recovery sentinel records, or 0
    klipper,   \* the Klipper process
    run,       \* the lifecycle command that holds the lock
    hist       \* what happened so far, for the bounds and the properties

vars == <<disk, backups, sentinel, klipper, run, hist>>

Ops == {"none", "install", "uninstall", "restore"}
Stages == {"idle", "reset", "resetTree", "resetConfig", "plan", "backup", "track",
           "marker", "sources", "extras", "tree", "check", "config", "postflight",
           "state", "optimize", "swapOut", "swapIn", "verify", "activate", "pending",
           "restarting", "rollback"}

\* Stages after the command's last configuration write.
Committed == {"optimize", "activate", "pending", "restarting"}

\* "crash": killed in a rollback or not ("rollback"); "interrupt": Ctrl-C in the
\* legacy reset; "restart": Klipper restarted while a command was half done;
\* "overwritten": a rollback failed while an earlier one's sentinel was there.
Incidents == {"crash", "rollback", "interrupt", "restart", "overwritten"}

IdleRun ==
    [op |-> "none", stage |-> "idle", left |-> {}, journal |-> EmptyJournal,
     pre |-> NoFiles, post |-> NoFiles, kept |-> {}, apply |-> {}, retained |-> {},
     archive |-> 0, pid |-> 0, halted |-> FALSE, edited |-> {}, before |-> NoFiles]

Init ==
    /\ \E package \in InitialPackages :
          disk = [p \in Paths |->
                    CASE p \in Sources -> "stock"
                      [] p \in ConfigFiles -> IF package = "legacy"
                                              THEN InstallContent(StockContent(p))
                                              ELSE StockContent(p)
                      [] p \in TreeFiles /\ package = "legacy" -> "user"
                      [] OTHER -> Absent]
    /\ backups = {}
    /\ sentinel = 0
    /\ klipper = [pid |-> 1, up |-> TRUE, printing |-> FALSE,
                  loaded |-> [s \in Sources |-> "stock"]]
    /\ run = IdleRun
    /\ hist = [runs |-> 0, faults |-> 0, crashes |-> 0, archives |-> 0, edits |-> 0, restarts |-> 0, prints |-> 0,
               touched |-> {}, incidents |-> {}]
-----------------------------------------------------------------------------
\* Steps a command takes.

Goto(stage, left) == run' = [run EXCEPT !.stage = stage, !.left = left]

\* After the write of p, the next stage once nothing is left in this one.
Wrote(p, stage, left) ==
    run' = [run EXCEPT !.journal = NoteWrite(@),
                       !.left = IF @ = {p} THEN left ELSE @ \ {p},
                       !.stage = IF run.left = {p} THEN stage ELSE @]

\* Faulty variant of Raise: nothing is undone.
RaiseWithoutRollback == run' = IdleRun

\* An exception: rolled back if the journal noted a write, else just raised.
Raise ==
    run' = IF run.journal.writes
           THEN [run EXCEPT !.stage = "rollback", !.left = {}]
           ELSE IdleRun

Finish == run' = IdleRun

\* The command still has to write p in this stage.
Writing(op, stage, p) == run.op = op /\ run.stage = stage /\ p \in run.left

\* Faulty variant of Archive: it lists files that do not exist.
ArchiveOfEveryPath(d, srcs) ==
    [id |-> hist.archives + 1,
     config |-> [p \in ConfigTree |-> d[p]],
     sources |-> [s \in srcs |-> d[s]]]

Archive(d, srcs) ==
    [id |-> hist.archives + 1,
     config |-> [p \in {q \in ConfigTree : d[q] # Absent} |-> d[p]],
     sources |-> [s \in srcs |-> d[s]]]

\* Faulty variant of Pruned: it keeps the oldest archives.
OldestKept(archives) ==
    {a \in archives : Cardinality({b \in archives : b.id < a.id}) < Retain}

\* prune_installer_backups keeps the newest archives.
Pruned(archives) ==
    {a \in archives : Cardinality({b \in archives : b.id > a.id}) < Retain}

\* An archive a restore accepts: its external entries are complete and known.
Restorable(archive) ==
    /\ DOMAIN archive.sources = Sources
    /\ \A s \in Sources : archive.sources[s] \in {"stock", "patched"}

Archived(archive, p) ==
    IF p \in DOMAIN archive.config THEN archive.config[p] ELSE Absent

MatchesArchive(d, archive) ==
    /\ \A p \in ConfigTree : d[p] = Archived(archive, p)
    /\ \A s \in DOMAIN archive.sources : d[s] = archive.sources[s]

Start(op, stage) ==
    /\ run.stage = "idle"
    /\ hist.runs < MaxRuns
    /\ hist' = [hist EXCEPT !.runs = @ + 1]
    /\ run' = [IdleRun EXCEPT !.op = op, !.stage = stage]
    /\ UNCHANGED <<disk, backups, sentinel, klipper>>

\* install and uninstall refuse to start behind a recovery sentinel or while
\* the printer is not idle.
StartInstall ==
    /\ sentinel = 0
    /\ ~klipper.printing
    /\ Start("install", IF LegacyManualInstall(disk) THEN "reset" ELSE "plan")

StartUninstall ==
    /\ sentinel = 0
    /\ ~klipper.printing
    /\ disk[StateFile] # Absent
    /\ Start("uninstall", "plan")
-----------------------------------------------------------------------------
\* maybe_reset_legacy_manual_install: archive the configuration, remove the
\* tree and put the bundled stock configuration in place.

BackupLegacyConfig ==
    /\ run.stage = "reset"
    /\ IF ConfigPresent(disk)
       THEN /\ backups' = backups \cup {Archive(disk, {})}
            /\ hist' = [hist EXCEPT !.archives = @ + 1]
            /\ run' = [run EXCEPT !.stage = "resetTree",
                                  !.left = {t \in TreeFiles : disk[t] # Absent},
                                  !.journal = TrackTree(EmptyJournal, disk, TreeFiles),
                                  !.archive = Archive(disk, {}).id,
                                  !.before = disk]
       ELSE Finish /\ UNCHANGED <<backups, hist>>
    /\ UNCHANGED <<disk, sentinel, klipper>>

RemoveLegacyTree(t) ==
    /\ Writing("install", "resetTree", t)
    /\ disk' = [disk EXCEPT ![t] = Absent]
    /\ Wrote(t, "resetConfig", ConfigFiles)
    /\ UNCHANGED <<backups, sentinel, klipper, hist>>

SkipLegacyTree ==
    /\ run.stage = "resetTree"
    /\ run.left = {}
    /\ Goto("resetConfig", ConfigFiles)
    /\ UNCHANGED <<disk, backups, sentinel, klipper, hist>>

WriteStockConfig(f) ==
    /\ Writing("install", "resetConfig", f)
    /\ disk' = [disk EXCEPT ![f] = StockContent(f)]
    /\ run' = IF run.left = {f}
              THEN [IdleRun EXCEPT !.op = "install", !.stage = "plan"]
              ELSE [run EXCEPT !.left = @ \ {f},
                               !.journal = IF disk[f] = StockContent(f)
                                           THEN TrackFiles(@, disk, {f})
                                           ELSE NoteWrite(TrackFiles(@, disk, {f}))]
    /\ UNCHANGED <<backups, sentinel, klipper, hist>>

\* Ctrl-C while the stock configuration is being restored: the handler there
\* catches Exception only, so nothing is put back and nothing is recorded.
InterruptReset ==
    /\ run.stage \in {"resetTree", "resetConfig"}
    /\ hist.faults < MaxFaults
    /\ hist' = [hist EXCEPT !.faults = @ + 1, !.incidents = @ \cup {"interrupt"}]
    /\ Finish
    /\ UNCHANGED <<disk, backups, sentinel, klipper>>
-----------------------------------------------------------------------------
\* Planning, archiving and tracking, which write none of the printer's files.

\* Preflight, classification and the composed files of an install.
PlanInstall ==
    /\ run.op = "install" /\ run.stage = "plan"
    /\ InstallPreflight(disk)
    /\ LET applied == {s \in Sources : disk[s] = "stock"}
           prior == IF disk[StateFile] = Absent THEN {} ELSE disk[StateFile].retained
       IN  run' = [run EXCEPT
             !.stage = "backup",
             !.pre = [f \in ConfigFiles |-> disk[f]],
             !.post = [f \in ConfigFiles |-> InstallContent(disk[f])],
             !.kept = {i \in Options : ClassifyInstall(ItemValue(disk, i)) = "user_modified"},
             !.apply = applied,
             !.retained = applied \cup prior]
    /\ UNCHANGED <<disk, backups, sentinel, klipper, hist>>

PlanUninstall ==
    /\ run.op = "uninstall" /\ run.stage = "plan"
    /\ UninstallPreflight(disk)
    /\ run' = [run EXCEPT
         !.stage = "backup",
         !.pre = [f \in ConfigFiles |-> disk[f]],
         !.post = [f \in ConfigFiles |-> UninstallContent(disk[f])],
         !.kept = {i \in Options \cup Sections :
                     ClassifyUninstall(ItemValue(disk, i)) = "user_modified"},
         !.retained = disk[StateFile].retained]
    /\ UNCHANGED <<disk, backups, sentinel, klipper, hist>>

\* A failed preflight, before any write.
Refuse ==
    /\ run.stage = "plan"
    /\ ~(IF run.op = "install" THEN InstallPreflight(disk) ELSE UninstallPreflight(disk))
    /\ Finish
    /\ UNCHANGED <<disk, backups, sentinel, klipper, hist>>

\* Faulty variant of CreateBackup: the Klipper sources are not archived.
BackupWithoutSources ==
    /\ run.stage = "backup"
    /\ LET new == Archive(disk, {})
       IN  /\ backups' = Pruned(backups \cup {new})
           /\ run' = [run EXCEPT !.stage = "track", !.archive = new.id]
    /\ hist' = [hist EXCEPT !.archives = @ + 1]
    /\ UNCHANGED <<disk, sentinel, klipper>>

\* create_config_backup and prune_installer_backups.
CreateBackup ==
    /\ run.stage = "backup"
    /\ LET new == Archive(disk, IF run.op = "install" THEN Sources ELSE run.retained)
       IN  /\ backups' = Pruned(backups \cup {new})
           /\ run' = [run EXCEPT !.stage = "track", !.archive = new.id]
    /\ hist' = [hist EXCEPT !.archives = @ + 1]
    /\ UNCHANGED <<disk, sentinel, klipper>>

\* Faulty variant of Track: extra modules are installed with sources only.
TrackExtrasWithSources ==
    /\ run.stage = "track"
    /\ LET touched == TrackFiles(EmptyJournal, disk, ConfigFiles \cup {StateFile})
           srcs == IF run.op = "install" THEN Sources ELSE run.retained
           journal == TrackFiles(TrackTree(touched, disk, TreeFiles), disk, srcs)
           apply == IF run.op = "install" THEN run.apply
                    ELSE {s \in run.retained : disk[s] # "stock"}
       IN  run' = [run EXCEPT
             !.journal = journal,
             !.apply = apply,
             !.before = disk,
             !.halted = run.op = "install" /\ ~klipper.up,
             !.stage = IF apply # {} THEN "marker"
                       ELSE IF run.op = "install" THEN "tree" ELSE "check",
             !.left = IF apply # {} THEN {RestartMarker}
                      ELSE IF run.op = "install" THEN TreeFiles ELSE {}]
    /\ UNCHANGED <<disk, backups, sentinel, klipper, hist>>

\* The journal's preimages; an uninstall decides here which sources to restore.
\* An install may note writes already here, for saved variables and directories.
Track ==
    /\ run.stage = "track"
    /\ LET touched == TrackFiles(EmptyJournal, disk, ConfigFiles \cup {StateFile})
           srcs == IF run.op = "install" THEN Sources ELSE run.retained
           journal == IF run.op = "install"
                      THEN TrackFiles(TrackTree(touched, disk, TreeFiles), disk, srcs)
                      ELSE TrackTree(TrackFiles(touched, disk, srcs), disk, TreeFiles)
           apply == IF run.op = "install" THEN run.apply
                    ELSE {s \in run.retained : disk[s] # "stock"}
       IN  \E j \in {journal} \cup (IF run.op = "install" THEN {NoteWrite(journal)} ELSE {}) :
             run' = [run EXCEPT
               !.journal = j,
               !.apply = apply,
               !.before = disk,
               !.halted = run.op = "install" /\ ~klipper.up,
               !.stage = IF apply # {} THEN "marker"
                         ELSE IF run.op = "install" THEN "extras" ELSE "check",
               !.left = IF apply # {} THEN {RestartMarker}
                        ELSE IF run.op = "install" THEN Extras ELSE {}]
    /\ UNCHANGED <<disk, backups, sentinel, klipper, hist>>
-----------------------------------------------------------------------------
\* The writes of install and uninstall, in the order of their stages.

Marker(targets, pid) == [pid |-> pid, targets |-> targets]

\* Faulty variant of WriteMarker: a rollback does not know of the marker.
WriteMarkerUntracked ==
    /\ run.op \in {"install", "uninstall"}
    /\ Writing(run.op, "marker", RestartMarker)
    /\ LET content == IF run.op = "install" THEN "patched" ELSE "stock"
       IN  disk' = [disk EXCEPT ![RestartMarker] =
                       Marker([s \in run.apply |-> content], klipper.pid)]
    /\ run' = [run EXCEPT !.journal = NoteWrite(@), !.stage = "sources", !.left = run.apply]
    /\ UNCHANGED <<backups, sentinel, klipper, hist>>

\* write_restart_marker, before the first source is replaced.
WriteMarker ==
    /\ run.op \in {"install", "uninstall"}
    /\ Writing(run.op, "marker", RestartMarker)
    /\ LET content == IF run.op = "install" THEN "patched" ELSE "stock"
       IN  disk' = [disk EXCEPT ![RestartMarker] =
                       Marker([s \in run.apply |-> content], klipper.pid)]
    /\ run' = [run EXCEPT !.journal = NoteWrite(TrackFiles(@, disk, {RestartMarker})),
                          !.stage = "sources",
                          !.left = run.apply]
    /\ UNCHANGED <<backups, sentinel, klipper, hist>>

DeploySource(s) ==
    /\ Writing("install", "sources", s)
    /\ disk' = [disk EXCEPT ![s] = "patched"]
    /\ Wrote(s, "extras", Extras)
    /\ UNCHANGED <<backups, sentinel, klipper, hist>>

\* restore_source_patch; a source that is neither raises.
RestoreSource(s) ==
    /\ Writing("uninstall", "sources", s)
    /\ IF disk[s] = "other"
       THEN Raise /\ UNCHANGED disk
       ELSE /\ disk' = [disk EXCEPT ![s] = "stock"]
            /\ Wrote(s, "check", {})
    /\ UNCHANGED <<backups, sentinel, klipper, hist>>

\* Faulty variant of InstallExtra: the module is written without a preimage.
InstallExtraUntracked(x) ==
    /\ Writing("install", "extras", x)
    /\ disk' = [disk EXCEPT ![x] = "packaged"]
    /\ run' = [run EXCEPT
         !.journal = NoteWrite(@),
         !.left = IF @ = {x} THEN TreeFiles ELSE @ \ {x},
         !.stage = IF run.left = {x} THEN "tree" ELSE @]
    /\ UNCHANGED <<backups, sentinel, klipper, hist>>

\* install_extra_module: an unchanged module is neither tracked nor written.
InstallExtra(x) ==
    /\ Writing("install", "extras", x)
    /\ disk' = [disk EXCEPT ![x] = "packaged"]
    /\ run' = [run EXCEPT
         !.journal = IF disk[x] = "packaged" THEN @
                     ELSE NoteWrite(TrackFiles(@, disk, {x})),
         !.left = IF @ = {x} THEN TreeFiles ELSE @ \ {x},
         !.stage = IF run.left = {x} THEN "tree" ELSE @]
    /\ UNCHANGED <<backups, sentinel, klipper, hist>>

\* remove_extra_module: a modified module stays; a removed one is not tracked.
RemoveExtra(x) ==
    /\ Writing("uninstall", "extras", x)
    /\ disk' = [disk EXCEPT ![x] = IF @ = "packaged" THEN Absent ELSE @]
    /\ run' = [run EXCEPT
         !.journal = IF disk[x] = "packaged" THEN NoteWrite(@) ELSE @,
         !.left = IF @ = {x} THEN TreeFiles ELSE @ \ {x},
         !.stage = IF run.left = {x} THEN "tree" ELSE @]
    /\ UNCHANGED <<backups, sentinel, klipper, hist>>

\* mirror_tree.
MirrorFile(t) ==
    /\ Writing("install", "tree", t)
    /\ disk' = [disk EXCEPT ![t] = "packaged"]
    /\ IF disk[t] = "packaged"
       THEN Goto(IF run.left = {t} THEN "check" ELSE "tree", run.left \ {t})
       ELSE Wrote(t, "check", {})
    /\ UNCHANGED <<backups, sentinel, klipper, hist>>

\* remove_tree removes every file, a drifted one too.
RemoveTreeFile(t) ==
    /\ Writing("uninstall", "tree", t)
    /\ disk' = [disk EXCEPT ![t] = Absent]
    /\ Wrote(t, "postflight", {})
    /\ UNCHANGED <<backups, sentinel, klipper, hist>>

Changed == {f \in ConfigFiles : run.pre[f] # run.post[f]}

AfterConfig == IF run.op = "install" THEN "postflight" ELSE "extras"
LeftAfterConfig == IF run.op = "install" THEN {} ELSE Extras

\* Faulty variant of CheckPreimages: a stale preimage is not noticed.
SkipPreimageCheck ==
    /\ run.stage = "check"
    /\ IF Changed = {} THEN Goto(AfterConfig, LeftAfterConfig) ELSE Goto("config", Changed)
    /\ UNCHANGED <<disk, backups, sentinel, klipper, hist>>

\* apply_file_change_plan, first loop: every preimage is still the planned one.
CheckPreimages ==
    /\ run.stage = "check"
    /\ IF \A f \in Changed : disk[f] = run.pre[f]
       THEN IF Changed = {} THEN Goto(AfterConfig, LeftAfterConfig)
                            ELSE Goto("config", Changed)
       ELSE Raise
    /\ UNCHANGED <<disk, backups, sentinel, klipper, hist>>

\* apply_file_change_plan, second loop.
WriteConfig(f) ==
    /\ run.stage = "config" /\ f \in run.left
    /\ disk' = [disk EXCEPT ![f] = run.post[f]]
    /\ Wrote(f, AfterConfig, LeftAfterConfig)
    /\ UNCHANGED <<backups, sentinel, klipper, hist>>

Postflight ==
    /\ run.stage = "postflight"
    /\ IF IF run.op = "install" THEN InstallPostflight(disk, run.kept)
                                ELSE UninstallPostflight(disk, run.kept, run.retained)
       THEN Goto("state", {StateFile})
       ELSE Raise
    /\ UNCHANGED <<disk, backups, sentinel, klipper, hist>>

\* write_installed_state, after which the command may still fail.
WriteState ==
    /\ Writing("install", "state", StateFile)
    /\ disk' = [disk EXCEPT ![StateFile] = [retained |-> run.retained]]
    /\ Wrote(StateFile, "state", {})
    /\ UNCHANGED <<backups, sentinel, klipper, hist>>

\* delete_state_file.  (restore_system_optimizations comes before it: the host's
\* files are SystemOptimizations', and its failure is one before this step.)
DeleteState ==
    /\ Writing("uninstall", "state", StateFile)
    /\ disk' = [disk EXCEPT ![StateFile] = Absent]
    /\ Wrote(StateFile, "state", {})
    /\ UNCHANGED <<backups, sentinel, klipper, hist>>

\* An install finalises the migration of a legacy ledger and commits its journal;
\* an uninstall deletes the marker of unverified saved variables.  A failure
\* before this step is done rolls everything back.
Commit ==
    /\ run.op \in {"install", "uninstall"} /\ run.stage = "state" /\ run.left = {}
    /\ Goto(IF run.op = "install" THEN "optimize" ELSE "activate", {})
    /\ UNCHANGED <<disk, backups, sentinel, klipper, hist>>

\* maybe_apply_system_optimizations, after the commit.
Optimize ==
    /\ run.stage = "optimize"
    /\ Goto("activate", {})
    /\ UNCHANGED <<disk, backups, sentinel, klipper, hist>>
-----------------------------------------------------------------------------
\* restore-backup, which a recovery sentinel does not block.

ArchiveOf(id) == CHOOSE archive \in backups : archive.id = id

Archives == {archive.id : archive \in backups}

\* Selection, validation of the archive and of the live sources, idle check,
\* Klipper's process identity, then the preimages.
StartRestore(id) ==
    /\ Restorable(ArchiveOf(id))
    /\ \A s \in Sources : disk[s] # "other"
    /\ ~klipper.printing
    /\ run.stage = "idle"
    /\ hist.runs < MaxRuns
    /\ hist' = [hist EXCEPT !.runs = @ + 1]
    /\ run' = [IdleRun EXCEPT
         !.op = "restore", !.stage = "swapOut", !.archive = id, !.pid = klipper.pid,
         !.before = disk,
         !.journal = NoteWrite(TrackFiles(TrackFiles(TrackTree(EmptyJournal, disk, ConfigTree),
                                                     disk, {RestartMarker}),
                                          disk, Sources))]
    /\ UNCHANGED <<disk, backups, sentinel, klipper>>

\* restore_staged_snapshot_tree renames the live tree aside ...
SwapOut ==
    /\ run.stage = "swapOut"
    /\ disk' = [p \in Paths |-> IF p \in ConfigTree THEN Absent ELSE disk[p]]
    /\ Goto("swapIn", {})
    /\ UNCHANGED <<backups, sentinel, klipper, hist>>

\* ... and the staged one into its place.  (When that fails the old tree is
\* renamed back; the rollback that follows rewrites it in either case.)
SwapIn ==
    /\ run.stage = "swapIn"
    /\ disk' = [p \in Paths |-> IF p \in ConfigTree
                                THEN Archived(ArchiveOf(run.archive), p) ELSE disk[p]]
    /\ Goto("verify", {})
    /\ UNCHANGED <<backups, sentinel, klipper, hist>>

VerifyRestore ==
    /\ run.stage = "verify"
    /\ IF \A p \in ConfigTree : disk[p] = Archived(ArchiveOf(run.archive), p)
       THEN Goto("marker", {RestartMarker})
       ELSE Raise
    /\ UNCHANGED <<disk, backups, sentinel, klipper, hist>>

WriteRestoreMarker ==
    /\ Writing("restore", "marker", RestartMarker)
    /\ disk' = [disk EXCEPT ![RestartMarker] =
                   Marker(ArchiveOf(run.archive).sources, run.pid)]
    /\ Goto("sources", Sources)
    /\ UNCHANGED <<backups, sentinel, klipper, hist>>

\* restore_external_backup_entries.
RestoreArchivedSource(s) ==
    /\ Writing("restore", "sources", s)
    /\ disk' = [disk EXCEPT ![s] = ArchiveOf(run.archive).sources[s]]
    /\ Wrote(s, "activate", {})
    /\ UNCHANGED <<backups, sentinel, klipper, hist>>

\* clear_recovery_sentinel: the recorded archive is still there, is complete,
\* and the printer's files are the archived ones.
ClearSentinel ==
    /\ run.stage = "idle"
    /\ sentinel \in Archives
    /\ DOMAIN ArchiveOf(sentinel).sources = Sources
    /\ MatchesArchive(disk, ArchiveOf(sentinel))
    /\ sentinel' = 0
    /\ UNCHANGED <<disk, backups, klipper, run, hist>>
-----------------------------------------------------------------------------
\* Activation of replaced sources: a restart of the Klipper process.

Sourced(d) == [s \in Sources |-> d[s]]

Restarted(d) ==
    [pid |-> klipper.pid + 1, up |-> Startable(d), printing |-> FALSE, loaded |-> Sourced(d)]

\* With a marker, install and uninstall go on if the printer is idle and end
\* here if it prints or its state is unknown; restore asks the user instead.
\* An install that found Klipper halted restarts it without asking either.
\* Without a marker the user may have the configuration reloaded, which keeps
\* the process and the sources it has loaded.
Activate ==
    /\ run.stage = "activate"
    /\ \/ /\ run.halted \/ disk[RestartMarker] # Absent
          /\ run.op = "restore" \/ run.halted \/ ~klipper.printing
          /\ run' = [run EXCEPT !.stage = "pending", !.pid = klipper.pid]
          /\ UNCHANGED klipper
       \/ /\ ~run.halted
          /\ Finish
          /\ UNCHANGED klipper
       \/ /\ ~run.halted /\ run.op # "restore" /\ disk[RestartMarker] = Absent
          /\ klipper' = [klipper EXCEPT !.up = Startable(disk), !.printing = FALSE]
          /\ Finish
    /\ UNCHANGED <<disk, backups, sentinel, hist>>

Drifted(d) == \E s \in DOMAIN d[RestartMarker].targets : d[s] # d[RestartMarker].targets[s]

OldPid == IF disk[RestartMarker] = Absent THEN run.pid ELSE disk[RestartMarker].pid

Replaced == klipper.up /\ klipper.pid # OldPid

\* Faulty variant of RestartPending: the marker goes before the restart is known
\* to have succeeded.
RestartUnmarked ==
    /\ run.stage = "pending"
    /\ IF disk[RestartMarker] # Absent /\ Drifted(disk)
       THEN Finish /\ UNCHANGED <<disk, klipper>>
       ELSE /\ disk' = [disk EXCEPT ![RestartMarker] = Absent]
            /\ \/ klipper' = Restarted(disk) /\ Goto("restarting", {})
               \/ UNCHANGED klipper /\ Finish
    /\ UNCHANGED <<backups, sentinel, hist>>

\* restart_pending: a drifted target ends it, a process replaced since the
\* marker was written settles it, else Moonraker is asked for a restart.
RestartPending ==
    /\ run.stage = "pending"
    /\ IF disk[RestartMarker] # Absent /\ Drifted(disk)
       THEN Finish /\ UNCHANGED <<disk, klipper>>
       ELSE IF disk[RestartMarker] # Absent /\ Replaced
       THEN /\ disk' = [disk EXCEPT ![RestartMarker] = Absent]
            /\ Finish
            /\ UNCHANGED klipper
       ELSE /\ klipper' = Restarted(disk)
            /\ Goto("restarting", {})
            /\ UNCHANGED disk
    /\ UNCHANGED <<backups, sentinel, hist>>

\* Faulty variant of AwaitKlipper: it polls without a limit.
AwaitKlipperForever ==
    /\ run.stage = "restarting"
    /\ Finish
    /\ Replaced /\ disk' = [disk EXCEPT ![RestartMarker] = Absent]
    /\ UNCHANGED <<backups, sentinel, klipper, hist>>

\* _restart_service_until_ready: the new process answers ready, or the attempts
\* run out and the marker stays.
AwaitKlipper ==
    /\ run.stage = "restarting"
    /\ Finish
    /\ \/ Replaced /\ disk' = [disk EXCEPT ![RestartMarker] = Absent]
       \/ UNCHANGED disk
    /\ UNCHANGED <<backups, sentinel, klipper, hist>>
-----------------------------------------------------------------------------
\* Failures of a command and its rollback.

RollbackStep(p) ==
    /\ run.stage = "rollback"
    /\ p \in NextToRestore(run.journal)
    /\ disk' = [disk EXCEPT ![p] = run.journal.snap[p]]
    /\ run' = [run EXCEPT !.journal = Restored(@, p)]
    /\ UNCHANGED <<backups, sentinel, klipper, hist>>

RollbackDone ==
    /\ run.stage = "rollback"
    /\ run.journal.todo = {}
    /\ Finish
    /\ UNCHANGED <<disk, backups, sentinel, klipper, hist>>

Fault ==
    /\ hist.faults < MaxFaults
    /\ hist' = [hist EXCEPT !.faults = @ + 1]

\* Faulty variant of RollbackFails: no sentinel is written.
RollbackFailsSilently ==
    /\ run.stage = "rollback"
    /\ run.journal.todo # {}
    /\ Fault
    /\ Finish
    /\ UNCHANGED <<disk, backups, sentinel, klipper>>

\* rollback_or_raise: the first path that cannot be restored ends the rollback
\* and is recorded with the command's archive.
RollbackFails ==
    /\ run.stage = "rollback"
    /\ run.journal.todo # {}
    /\ hist.faults < MaxFaults
    /\ hist' = [hist EXCEPT !.faults = @ + 1,
                            !.incidents = IF sentinel = 0 THEN @ ELSE @ \cup {"overwritten"}]
    /\ sentinel' = run.archive
    /\ Finish
    /\ UNCHANGED <<disk, backups, klipper>>

\* Any step of a command can raise (I/O error, Moonraker unreachable, Ctrl-C).
Fail ==
    /\ run.stage \notin {"idle", "rollback"}
    /\ Fault
    /\ IF run.stage \in Committed THEN Finish ELSE Raise
    /\ UNCHANGED <<disk, backups, sentinel, klipper>>

\* The installer is killed or the printer loses power: nothing is undone.
Crash ==
    /\ run.stage # "idle"
    /\ hist.crashes < MaxCrashes
    /\ hist' = [hist EXCEPT !.crashes = @ + 1,
                            !.incidents = @ \cup {IF run.stage = "rollback" THEN "rollback"
                                                  ELSE "crash"}]
    /\ Finish
    /\ UNCHANGED <<disk, backups, sentinel, klipper>>
-----------------------------------------------------------------------------
\* What happens around a command.

\* What somebody else changed: values and files, and the whole configuration
\* file when it is changed between the archive and the journal.
Theirs(paths, items) == items \cup (IF run.stage = "track" THEN paths ELSE {})

Edit(paths, items) ==
    /\ hist.edits < MaxEdits
    /\ hist' = [hist EXCEPT !.edits = @ + 1, !.touched = @ \cup Theirs(paths, items)]
    /\ run' = IF run.before = NoFiles THEN run ELSE [run EXCEPT !.edited = @ \cup paths]
    /\ UNCHANGED <<backups, sentinel, klipper>>

\* A user changes an item of a configuration file.
EditConfig(i, v) ==
    /\ disk[FileOf[i]] # Absent
    /\ v # ItemValue(disk, i)
    /\ i = IncludeLine => v # "user"
    /\ disk' = [disk EXCEPT ![FileOf[i]][i] = v]
    /\ Edit({FileOf[i]}, {i})

\* A user changes a file the package owns, or another tool a Klipper source.
EditOwned(p) ==
    /\ disk[p] \notin {Absent, "user", "other"}
    /\ disk' = [disk EXCEPT ![p] = IF p \in Sources THEN "other" ELSE "user"]
    /\ Edit({p}, {p})

\* Klipper restarts for a reason of its own.
KlipperRestart ==
    /\ hist.restarts < MaxRestarts
    /\ klipper' = Restarted(disk)
    /\ hist' = [hist EXCEPT !.restarts = @ + 1,
                            !.incidents = IF run.journal.writes /\ run.stage \notin Committed
                                          THEN @ \cup {"restart"} ELSE @]
    /\ UNCHANGED <<disk, backups, sentinel, run>>

StartPrint ==
    /\ klipper.up /\ ~klipper.printing
    /\ hist.prints < MaxPrints
    /\ klipper' = [klipper EXCEPT !.printing = TRUE]
    /\ hist' = [hist EXCEPT !.prints = @ + 1]
    /\ UNCHANGED <<disk, backups, sentinel, run>>

EndPrint ==
    /\ klipper.printing
    /\ klipper' = [klipper EXCEPT !.printing = FALSE]
    /\ UNCHANGED <<disk, backups, sentinel, run, hist>>
-----------------------------------------------------------------------------
Reset ==
    \/ BackupLegacyConfig \/ SkipLegacyTree
    \/ \E t \in TreeFiles : RemoveLegacyTree(t)
    \/ \E f \in ConfigFiles : WriteStockConfig(f)

Prepare == PlanInstall \/ PlanUninstall \/ Refuse \/ CreateBackup \/ Track

Write ==
    \/ WriteMarker \/ CheckPreimages \/ Postflight \/ WriteState \/ DeleteState \/ Commit
    \/ Optimize
    \/ \E s \in Sources : DeploySource(s) \/ RestoreSource(s)
    \/ \E x \in Extras : InstallExtra(x) \/ RemoveExtra(x)
    \/ \E t \in TreeFiles : MirrorFile(t) \/ RemoveTreeFile(t)
    \/ \E f \in ConfigFiles : WriteConfig(f)

Restore ==
    \/ SwapOut \/ SwapIn \/ VerifyRestore \/ WriteRestoreMarker
    \/ \E s \in Sources : RestoreArchivedSource(s)

Activation == Activate \/ RestartPending \/ AwaitKlipper

Rollback == RollbackDone \/ \E p \in Paths : RollbackStep(p)

\* What the command that holds the lock does of itself.
Proceed == Reset \/ Prepare \/ Write \/ Restore \/ Activation \/ Rollback

Commands ==
    \/ StartInstall \/ StartUninstall \/ ClearSentinel
    \/ \E id \in Archives : StartRestore(id)

Faults == Fail \/ RollbackFails \/ InterruptReset \/ Crash

Environment ==
    \/ KlipperRestart \/ StartPrint \/ EndPrint
    \/ \E i \in Items, v \in Values : EditConfig(i, v)
    \/ \E p \in TreeFiles \cup Extras \cup Sources : EditOwned(p)

Next == Commands \/ Proceed \/ Faults \/ Environment

Spec == Init /\ [][Next]_vars

\* The installer is one process: unless it is killed it takes its next step.
FairSpec == Spec /\ WF_vars(Proceed)
=============================================================================
