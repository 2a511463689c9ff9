# A verified model of the Valve Oil installer

Valve Oil (`tltg-optimized-macros`) optimizes a QIDI Max 4: it replaces some of
Klipper's own Python sources, adds modules, mirrors a tree of macros into the
printer's configuration, patches the vendor configuration, tunes the host and
keeps itself up to date.  All of that happens on a live printer whose files
belong to the vendor and whose values belong to the user, so the program's hard
part is not what it writes but what is true when a write is the last one that
happened.

This directory holds TLA+ modules translated from that program, TLC
configurations that check them on small printers, and proofs, checked by TLAPS,
that hold for a printer of any size.

## 1. Inventory

The code is under `src/installer/runtime` unless another directory is named.

| Component | State it keeps | Operations | Modelled |
|---|---|---|---|
| Lifecycle commands: `cli.py`, `runner.py`, `uninstall.py`, `restore_helper.py`, `preflight.py`, `postflight.py`, `legacy_manual_install.py`, `interaction.py`, `locking.py`, `safety.py` | the advisory lock; the ledger `config/tltg_optimized_state.yaml` | install, uninstall, restore-backup, clear-recovery-sentinel, reset of a legacy manual install | yes, see 6 for what is left out |
| Rollback journal: `rollback.py` | preimages of files and trees in memory; the recovery sentinel on disk | track, note a write, commit, roll back, clear the sentinel | yes |
| Configuration transaction: `config_transaction.py`, `patches.py`, `klipper_cfg.py` | planned preimages and contents | classify, compose, check preimages, write | yes, parsing abstracted |
| Backups: `backup.py` | zip archives, at most `INSTALLER_BACKUP_RETENTION` | create, prune, validate, swap in | yes |
| Klipper sources, extras and tree: `source_patches.py`, `mirror.py`, `state_file.py` | files of Klipper and of the managed tree | classify, deploy, restore, install, remove, mirror | yes |
| Activation: `process_restart.py` | the restart marker with the targets' checksums and the old process | write marker, restart pending, await the new process | yes |
| Automatic updates: `auto_update.py`, `release/install-latest.sh` | enrolment file, last checksum, systemd units, the bundle | enable, repair, disable, check, run the child installer | yes, the installer's own writes as one step |
| Host reboot: `host_reboot.py` | reboot marker with the boot id, recommendation | write, schedule, perform, verify | yes |
| System optimizations: `system_optimizations.py`, `zram_swap.py`, `fluidd_build.py`, `moonraker_speedups.py`, `remote_screen.py` | a ledger of host changes with their preimages and outcomes; a journal of the transaction under way | apply, roll back, recover, reconcile, retire, restore | yes, one operation of each kind |
| Firmware: `box_firmware.py`, `thr_firmware.py`, `src/scripts/flash_*_firmware.py` | pending records, backups of a Box, the transfer of a client and the session of a board | flash, restore, verify, rescue | yes, images as packets |
| Saved variables: `box_enablement.py`, `klipper/tltg/save_variables_fast.py` | the variables in Klipper and in its file, the marker of values to verify, the last observed Box count | keep, repair, reconcile, verify, save | yes |
| Box feed motion: `klipper/tltg/box_feed_motion.py` | settings among the saved variables, observed vendor arguments, cached status | set, reset, clear, lay over a load or an unload | yes |
| Box filament: `klipper/tltg/box_flow_recovery.py`, `box_loaded_slot.py`, `box_slot_jog.py` | QIDI's current flow, the slot at the hub, the loaded slot | load, unload, eject, tool change, jog, retry, resume, stop | partly, see 6 |
| Other Klipper extras: the rest of `src/installer/klipper/tltg` | counters of monitors; a thread that writes the configuration | report, guard, replace single functions | no |
| Homing and probing: `src/installer/klipper/qidi` | none of its own | motion of one move | no: real-time arithmetic of vendor code |
| Manifest, compatibility, path safety: `manifest.py`, `compatibility.py`, `models.py`, `path_safety.py`, `fs_atomic.py` | none | parse, refuse | no: pure input checks; one atomic file write is one step |
| Messages: `reporter.py`, `messages.py`, `errors.py`, `demo.py` | none | text | no |
| Macros, stock configuration, `vendor` | data and third-party code | - | no |

**How they interact.**  `cli.py` takes the advisory lock and calls one command.
A command plans (it reads the vendor files, the sources and the ledger), makes
an archive, prunes old ones, fills a `RollbackJournal` with preimages and then
writes: restart marker, Klipper sources, extra modules, managed tree, vendor
configuration, ledger -- an uninstall in an order of its own, and the ledger
last.  An exception before `journal.commit` rolls the journal back; a rollback
that fails writes a recovery sentinel naming the archive, behind which install
and uninstall refuse to start.  After the commit the command saves variables
through Moonraker and Klipper, applies the system optimizations under their own
ledger and journal, and activates: the marker on disk and Moonraker's answers
decide whether Klipper's process must be replaced, and after that whether the
variables are still there.  `auto_update.py` runs the same installer as a child
under its own lock, hourly, and a transient systemd unit of `host_reboot.py`
comes back to take that lock and reboot.  Turning updates on or off and
`install-latest.sh`, which replaces the bundle, take no lock.  The firmware
tools share only their pending records with the installer: while one is there,
install and uninstall refuse.  The modules in `klipper/tltg` run inside Klipper,
read the variables the installer saves, and wrap QIDI's compiled Box modules.

**What is hard here.**  Nothing locks out a user's editor, another tool or
Klipper itself, which read and write the same files between two steps.  The
installer can raise at every step (I/O, Moonraker, Ctrl-C) and can be killed at
every step.  The journal lives in memory, the marker, ledger, archives and
sentinel on disk: what a kill leaves is only what was already written.  The
plan is made before a confirmation by the user and is stale by the time it is
executed.  Retention deletes archives other state still names.  A request
that timed out at the installer may still run in Klipper.  A board's bootloader
acknowledges, repeats and expires by its own clock.  A G-code command holds a
lock that its own side effects may need.

**What makes each component correct.**

* Lifecycle: the ledger tells the truth between commands; a command changes the
  package in one visible step or not at all; it ends; an install repairs what a
  killed one left; the user's values survive.
* Journal: whatever was written, a rollback that reports success leaves every
  path as the command found it.
* Backups: everything a command overwrites is in its archive first, and the
  archive a sentinel names is not pruned.
* Activation: a source that was replaced is loaded, or a marker says it is not.
* Automatic updates: an update that failed is tried again until the newest
  release is installed; a disabled updater installs nothing, even if its timer
  survived.
* Host reboot: the host is rebooted only for changes of the current boot and
  only while the printer allows it; the marker goes only after the boot it asked
  for.
* Optimizations: what was changed on the host can be undone after any failure,
  nginx never serves what is not there, and a user's files are left alone.
* Firmware: an acknowledged image is whole, a board that holds none is on
  record, services come back only on whole boards -- of a rescue, on the
  Box it rescued.
* Saved variables: an operator's value is not replaced unasked, and a value lost
  with the power is noticed.
* Feed motion: what runs can run, whatever was saved.
* Filament: every command returns, no flow is left running by nobody, and the
  slot pulled back is the one whose filament is at the hub.

## 2. Modules and the code they model

| Module | Models |
|---|---|
| `PackageFiles` | the paths, what each can hold, the classification of values and sources, preflight and postflight as predicates of the disk |
| `RollbackJournal` | the journal as a value: tracking, noting writes, the order of restoration |
| `InstallLifecycle` | the commands over disk, archives, sentinel, Klipper's process: one action per write, check or decision, failures, kills and what users do meanwhile |
| `PackageTransaction` | the abstract promise: one command at a time changes the package in one step, or leaves it, or blocks |
| `LifecycleProperties` | its properties and the refinement mapping |
| `HostReboot` | the reboot marker, the recommendation, the scheduled unit, what a boot keeps and loses |
| `AutoUpdate` | the hourly check step by step, its child installer, manual commands, turning updates on and off without a lock, the reboot unit, firmware updates and kills |
| `UpdateProperties` | the properties of the two |
| `SystemOptimizations` | the ledger, the journal and the host: applying, recording, rolling back, recovering, reconciling, restoring, deferred restarts of services |
| `HostProperties` | its properties |
| `FirmwareTransfer` | the bootloader with its session, write pointer and resets, the lossy link, the Box client and both THR clients |
| `FirmwareOperation` | the commands around transfers: services, pending records, snapshots, readback, rescue |
| `FirmwareProperties` | the properties of the two |
| `FeedProfiles` | the arithmetic of load and unload profiles, as pure operators |
| `BoxFeedMotion` | the settings and the commands, wrappers and cached status that use them |
| `MotionProperties` | the properties of the two |
| `BoxFilament` | filament, hub record, flow, G-code lock, web stop, and the commands that move filament |
| `FilamentProperties` | its properties |
| `SavedVariables` | the variables in Klipper and on disk, the queue of requests, installs and hourly checks |
| `VariableProperties` | its properties |
| `MCInstallLifecycle`, `MCSystemOptimizations`, `MCFirmware`, `MCBoxFeedMotion`, `MCBoxFilament`, `MCSavedVariables` | small instances for TLC |
| `LifecycleProofs`, `LedgerProofs`, `UpdateProofs`, `HostProofs`, `FirmwareProofs`, `MotionProofs`, `FilamentProofs`, `VariableProofs` | the theorems of section 4, one module per component and two for the lifecycle |

`PROJECT.json` maps every definition to the lines it stands for.

**Lifecycle.**  `disk` gives each path its content or `Absent`.  A vendor
configuration file is a function from its managed items (an option the manifest
sets, a section it deletes, the include line) to `"expected"` (stock),
`"desired"` (the package's) or `"user"`: exactly what `patches.py`
distinguishes.  A Klipper source is `"stock"`, `"patched"` or `"other"`, as its
checksum says; a file of the tree or an extra module is `"packaged"` or
`"user"`; the ledger holds which originals it retains; the marker holds target
contents and a process id.  `backups` is the set of archives, numbered as they
were made.  `sentinel` is the archive a failed rollback names, or 0.  `klipper`
is the process: its identity, whether it is up, whether it prints, and the
sources it has loaded.  `run` is the command that holds the lock: its stage,
the paths it has still to write there, its journal and its plan.  `hist` counts
what the bounds limit and records, for the properties only, what others touched
and which incidents happened; `run.before` and `run.edited` are history too,
and no guard of a command reads them.  An edit touches an item or a file; one
that comes between a command's archive and its journal touches the whole
configuration file, because there the archive and the command's own preimage
differ (`Theirs`).

A stage is a region of the code between two observable points; a
loop over files is one action per file, since each file is one atomic rename.
`Fail` can follow any step and stands for every exception, `Raise` for the
`except BaseException` of `_execute_install` and `_execute_uninstall`,
`Crash` for a kill, `Edit*`, `KlipperRestart`, `StartPrint` and `EndPrint` for
the world.  The answers of the user to the questions of `interaction.py` are
disjuncts.  Saved variables and new directories are not `disk`'s, but writing
them notes a write, so that a later failure rolls back: `Track` may note one.
The ledger's write does not commit an install: `Commit` is a step of its own
after it, and between the two a failure still rolls everything back; an
uninstall likewise has the marker of unverified variables to delete.  The
host's files, which it restores before that, are `SystemOptimizations`', so
here that restoration is one more way to fail (`DeleteState`).

**Updates.**  `AutoUpdate` stands one level above: a release is a number, which
is also its checksum, and 0 is none; `bundle`, `installed`, `stored` (the
recorded checksum), `enrolled` and `units` are what is on the disk, `proc` is
the command that holds the lock, and `setup` the steps of turning updates on or
off, by the installer or by the user's own command, which takes no lock.  An
install is the one visible step `Commit` that `PackageTransaction` promises, or
fails, with or without a sentinel.  Scheduling a reboot fails without sudo, and
a check that cannot tell whether the installation drifted fails too.  `boot`,
`marker`, `recommended` and `scheduled` are `HostReboot`'s; a boot keeps the
first three and loses the last, with every process.

**Host changes.**  `host[o]` is what is at the place of operation `o`: stock, a
release of the package, a user's edit, or half of an operation.  `ledger.pre`
holds preimages and `ledger.out` the outcomes by which a file counts as
unchanged.  The operations differ in how they are undone, and the constants name
the kinds: `Rockchip` (commands over the root file system, with a journal that
waits for the ledger), `Guarded` files (restored only when they match their
outcome), the `Packaged` Fluidd build (replaced by two renames, hence `aside`)
and the `Site` that serves it, and `Bundles` that are retired when another
Fluidd is served.  The order of application and the sorted order in which a
journal is read back are both the code's.

**Firmware.**  A board has a bootloader build, a flash of `Pages` packets and a
session: mode, write pointer, last packet and quiet time.  A tick is about two
seconds; the deadlines of the clients and of the bootloader are constants in
ticks, in the order of the code's.  What the link loses is a packet or its
reply.  A client that waits for a reset counts from the last packet it sent.
`FirmwareOperation` has one action per durable write of `box_firmware.py` and
`thr_firmware.py`; the order of record, service stop, snapshot, transfer,
readback, clearing and service start is the code's.

**Saved variables.**  A value is abstracted to what the code tells apart (see
the module's head).  `command.todo` lists the steps left; each saving step
detects, reads again, sends one request after the other and waits.  The two
motion speeds are lowered as a pair, present values and all, when both are what
an earlier release saved; every other unattended save takes only what is
missing.  A request that times out stays in `queue` and remembers what it was
decided for.  A check may find the printer busy, or its state unknown (`Busy`):
it then skips the reconciliation and makes no repairs.  `disk` trails `live`,
because `save_variables_fast.py` renames without flushing.  `promised` is
history.

**Feed motion and filament.**  Commands run inside Klipper one at a time.  A
command of `BoxFeedMotion` saves its settings one by one, and each save may
fail.  In `BoxFilament`, `at` is how far a slot's filament reaches -- inlet,
hub, toolhead -- which is all the sensors say; `loose` is a broken-off piece.  A
motion of a command ends with a record, or without one when a shutdown, an
exception or QIDI's taking of the motor (`MotorTaken`) ends it.  A hand may
insert filament at any time but between a command's decision to pull a slot and
the pull, which the code takes in one go.  QIDI's flow controller is compiled
code and is modelled from how these modules use it and from
`openspec/observations/qidi-box`.

Some operators are faulty variants (named as such in their comments) and used
by no specification: each is what a plausible mistake in its action would be,
and shows that a property notices.

## 3. Runs

| Run | Instance | Shows |
|---|---|---|
| `lifecycle_faults` | stock printer, three commands, two failures (a failing rollback is one), one edit at any moment | `TypeOK`, `RollbackInv`, `WholePackage` (the ledger tells the truth), `SentinelRecovers`, `WritesAreArchived`, `RollbackRestores`, `UserValuesKept` |
| `transaction` | two sources, three commands, two failures, a print and a restart nobody asked for | `ImplementsTransaction`: the commands implement `PackageTransaction` |
| `lifecycle_crashes` | stock printer or legacy manual install, three commands, one kill, one failure, one print, with fairness | `ActivationNeverLost`, `InstallRepairs`, and `CommandsEnd`: a command that is not killed ends |
| `updates` | two releases, three boots, one command, one failing step, one use of the printer, one incident, with fairness | `PendingKept`, `RebootNeeded`, `RebootsIdle`, `DisabledInstallsNothing`, and `UpdatesArrive`: whatever delays it, the newest release is installed |
| `host_changes` | one operation of each kind, three releases, four events, with fairness | `Undoable`, `RockchipRecorded`, `SiteNeedsBuild`, `EditsSurvive`, `RollbackWhole`, `ServicesLoad`, `UninstallRestores`, `FirstPreimagesKept`, `CommandsEnd` |
| `firmware` | a toolhead of either build or an unknown one, a Box, four events, with fairness | `DoneMeansWhole`, `NothingMisplaced`, `UnverifiedIsRecorded`, `ServicesComeBack`, `StartsOnWholeBoards` (an install or a restore starts services only on whole boards, a successful rescue only on the Box it rescued), `OperationEnds` |
| `feed_motion` | two slots, values at and beyond the limits, three commands or hand-made saves of up to two settings | `FeasibleMotion`, `ServedIsCurrent`, `ChangesKeepRunning` |
| `box_filament` | two slots, six events, with fairness | `NothingLeftRunning`, `CommandsReturn`, `RightSlotNamed` |
| `saved_variables` | a fresh printer or one with an earlier release, three events, with fairness | `LossesStopUpdates`, `OperatorValuesKept`, and `ToolsMapped`: every tool of an attached Box gets its mapping |
| `release_skipped` | one command that turns updates on after a release was published | `EveryReleaseArrives` violated: finding 1 |
| `stale_outcome` | the instance of `host_changes` | `UninstallLeavesNothing` violated: finding 2 |
| `record_stuck` | the instance of `firmware` | `RecordCanBeRescued` violated: finding 3 |

`PROJECT.json` names for each property a mutation of a mapped definition that
breaks it under the run's own configuration.

Distinct states: `lifecycle_faults` 554 thousand, `transaction` 541,
`lifecycle_crashes` 187, `updates` 510, `host_changes` 344, `firmware` 602,
`feed_motion` 34, `box_filament` 271, `saved_variables` 1682; one to three
minutes at most.

**Bounds.**  In the lifecycle runs two vendor files are needed for a
configuration half written, one option, one section and the include line for
the three kinds of items, placed in both files as the manifest places them.  One
source, module and tree file suffice where order between files of one kind does
not matter; `transaction` has two sources because a marker's targets can drift
one at a time.  Three commands give every pair of commands a third that meets
what they left, and make the third archive that `Retain = 2` prunes.  (The code
retains more; what matters is that pruning happens and that it happens while an
older archive is still named.)  Two failures give a failure and a failing
rollback.  Every bound is a constant and a guard of the action it limits.

In `updates`, three boots are the change, the boot that forgets it and one that
a stale recommendation would cause; a pending reboot in the last boot is
excluded from the liveness property (`OutOfBoots`).  One failing step, one
incident and one command meet each other at every point of a check, and the
checks themselves are not bounded.

`MaxEvents` bounds together what happens to a component from outside: in
`host_changes` commands, failures, kills and edits (four: an install, an update
that fails, a failing compensation, an uninstall); in `firmware` commands,
failing steps, lost packets and outages, kills and power cycles (four: two
operations with a disturbance each, or three disturbances of one); in
`box_filament` commands, prints, hands, shutdowns and failures (six: a load, a
tool change, a jog, a failure, a shutdown and the command that meets what they
left); in `saved_variables` installs, uninstalls, saves of others, timeouts,
kills, halts, power cuts and checks that find the printer busy (three: an
install and two disturbances, or three disturbances of the checks, which are not
bounded).  `Releases = 3` gives a release that is neither the first nor the
present one.  `Pages = 2` gives a first packet, which the bootloader treats
differently, and a last one; `Session = 3`, `Hold = 6`, `Startup = 3`, `Exit =
1` and `Slack = 1` keep the code's order: a recovering client holds on to a
packet (120 s) for longer than a session, its end and its slack together, and a
slow clock is a smaller error than a startup.  `MaxChanges = 2` lets a command
half fail.  `Lengths = {}` in `saved_variables` leaves out the settings without
a rule of their own, since the two speeds have both: they are saved with the
others where all are missing, and lowered as a pair where both are an earlier
release's.  The two modes of saving are told apart by what was found
(`Lowering`), so the run has requests of each, and a fresh printer as well as
one with an earlier release's pair to begin with; the proofs have any set.

`CHECK_DEADLOCK FALSE` where commands are bounded or nobody is obliged to give
one: once the bounds are used up, and on an idle printer, nothing happens.
`feed_motion` needs no such exception, since the vendor's motions go on.

**Fairness.**  `InstallLifecycle`'s `FairSpec` has `WF_vars(Proceed)`: the
installer is one process, and unless it is killed it takes its next step.  Every
wait of the code has a limit (the polls of `_restart_service_until_ready`, the
timeouts of its requests), and a limit that runs out is a step of `Proceed`.
Nothing is assumed of users, prints or Klipper.  `SystemOptimizations` assumes
the same of its command (`WF_vars(Command)`).

`AutoUpdate`'s has weak fairness of the running command, of each
setup, of the timer (systemd fires it hourly, `OnUnitActiveSec`) and of
`LeavePrinter` (a print ends), and strong fairness of the reboot unit finding
the lock free: it fires 10 s after a check scheduled it as its last step, and
the next check is an hour away, so it cannot meet one every time.  Without that
assumption TLC shows the reboot lost for ever in favour of checks which find it
pending and do nothing else (`cli.py:202`).

`FirmwareOperation`'s is `WF_vars(Step) /\ WF_vars(BoardTick)`: an operation
goes on by itself, since each wait of a client has a deadline, and a board's
clock runs; nothing is assumed of the link.  `BoxFilament`'s is weak fairness of
a command's next part and of the end of a motion (a motion has a limit of
length), and strong fairness of the web stop's heater script getting the G-code
lock, which Klipper's reactor grants in turn.  `SavedVariables`' is weak
fairness of the timer, of the running command and of Klipper executing what it
was sent; `ToolsMapped` speaks only of a Klipper that stays up, and checks that
find the printer busy are among the bounded events: no print lasts for ever.

**Exclusions stated in the properties.**  `WholePackage` says nothing after a
kill or a Ctrl-C in the legacy reset, where the code has no undo, and nothing of
items somebody else edited.  `WritesAreArchived` excludes what was edited since
the command's archive was made: an edit before the journal is filled is in the
journal and not in the archive, and a second one that takes it back leaves an
archive that differs from both.  `SentinelRecovers` is about printers that were
never killed in a command: what a kill leaves can look like a legacy
installation, and the reset of one makes an archive without sources (section 5).
`ActivationNeverLost` excludes a kill inside a rollback (the marker is removed
before the sources are restored, `rollback.py:148`), a restart of Klipper
between marker and sources (`process_restart.py:160` compares process ids) and a
second failed rollback, which overwrites the sentinel of the first (section 5).
`RollbackRestores` excludes files edited since the command began and the extras
of an uninstall. `UserValuesKept` excludes files edited after the journal was
filled: there the code's check is by preimage and the rollback wins.

`DisabledInstallsNothing` excludes an enabling and a disabling that overlap
(`hist.overlap`): neither takes the lock, and a repair by the child installer
enrols again after the user's command has ended (`auto_update.py:185`).
`UpdatesArrive` excludes the states whose errors ask for the user (`Stuck`: a
marker whose repair is gone, a drifted restart marker, a sentinel, a missing
bundle), and a release recorded but not installed (`Skipped`, finding 1).

`Undoable` speaks of histories without a kill: between an operation and the
write of the ledger only the Rockchip operation has a journal of its own
(`RockchipRecorded`, which excludes a retirement, because that deletes the
journal).  It speaks of bundle files only while nothing failed and nobody edited
anything: after a failed update the outcome on record is not what is on the
disk, so a retirement takes a patched bundle file for a user's, or for the
vendor's, and drops its preimage.  An uninstall gives up preimages it was not
asked to use and those of files somebody changed.  `RollbackWhole` excludes
retired bundle files, which a rollback does not patch again.
`FirstPreimagesKept` excludes the ledger a failed compensation writes, which
takes the present transaction's preimages over the first ones.  `ServicesLoad`
excludes a restart that was lost with a kill or failed: the code drops those
behind it.

`DoneMeansWhole` is not promised by the client of the THR's first build, whose
waits may outlast a session, nor after a rejection that came in the gap between
expiry and reset; the readback that follows finds both.  `StartsOnWholeBoards`
speaks of a rescue only when it succeeds, and then only of the Box it rescued
(`SeenRunning`): one that fails before it records anything, or that is aimed at
another Box than the recorded one, starts the services again over a Box that is
not whole (section 5).  `ChangesKeepRunning`
does not speak of a command that only clears a slot's overrides, which the code
does not check.  `RightSlotNamed` excludes motions that ended unrecorded (a
shutdown or an exception) and broken filament, which fools the inlets.
`OperatorValuesKept` excludes values that came after the installer's last
reading, and those it asked for.  `LossesStopUpdates` excludes a kill between
commit and record, and an install begun over another one's pending restart:
`promised` holds only what an install went on to record.

## 4. Proofs

The theorems hold for every value of the constants that satisfies the
assumptions of the modules (the kinds of paths are disjoint, `Absent` is no
content, bounds are natural numbers, and so on).  TLC checked each inductive
invariant as an invariant of a run before it was proved.

**Lifecycle** (`LifecycleProofs`, `LedgerProofs`).

* `TypesInvariant`: `Spec => []TypeInv`; `TypeCorrect`: `Spec => []TypeOK`.
  `TypeOK` alone is not inductive: a restore reads an archive by number, an
  uninstall reads a ledger, and a command writes `run.post[f]`.  `StagesOK` adds
  what the stages rely on: the archive of a restore is still there and
  complete, an uninstall that plans has its ledger, a planned command covers
  every vendor file.  One lemma per action; lemmas on `TrackFiles`,
  `TrackTree`, `Archive` and `ClassifyInstall` carry the data.
* `RollbackInvariant`: `Spec => []RollbackInv`, and from it `RollbackComplete`:
  `Spec => RollbackRestores`.  The invariant says that in every writing stage
  (1) each tracked preimage is what the command found, (2) each path that is
  *not* waiting to be restored is as the command found it, (3) the stage's
  future writes are already tracked, and (4) before the first such stage the
  journal has noted no write, so that an exception which is *not* rolled back
  has nothing to undo.  A writing step tracks what it changes and keeps (1) and
  (2); a rollback step restores one path of `todo` and removes it; when `todo`
  is empty, (2) is the property.  The invariant has the same two exemptions as
  the property.
* `ArchivesInvariant`: `Spec => []ArchiveInv`, and from it `WrittenIsArchived`:
  `Spec => []WritesAreArchived`.  The property speaks of changed paths only;
  `ArchiveInv` says why a path that is not yet changed is safe too: from the
  moment the journal is filled the command's archive holds what the command
  found (`OwnArchive`), and a source outside it is not written.  `Numbered` --
  archive numbers are unique and below the counter -- makes `ArchiveOf`
  meaningful and shows that retention never prunes the archive just made
  (`NewestStays`).
* `TruthInvariant`: `Spec => []TruthInv`, and from it `LedgerIsTrue`:
  `Spec => []WholePackage`.  The property is about idle moments; what makes it
  inductive is where the truth is in between.  `TrueOf(p, c, l, others)` says
  that content `c` of path `p` is what ledger `l` says.  In the stages before
  the first write and after the last, the files agree with the ledger on the
  disk (`SettledInv`).  While a command writes, its *preimages* agree with the
  ledger it found, and so does every path that no rollback will restore
  (`KeptInv`); before it writes the ledger, postflight has shown that the files
  agree with the *next* one (`NextInv`), for which the plan must have left to
  the user only what is the user's and retained every source (`DecidedInv`).
  Between that write and the commit the ledger on the disk is the next one
  already (`WrittenInv`), while a failure still brings the found one back.
  A restore brings a ledger together with the files it is true of, so every
  archive agrees with the ledger inside it (`ArchivesInv`, `RestoredInv`).
* `SentinelIsUsable`: `Spec => [](hist.crashes = 0 => SentinelRecovers)`.
  `SentinelInv` adds that every command that may still fail has an archive of all
  sources: an install takes them all, an uninstall those the ledger retains,
  which `DecidedInv` makes all of them.

* `ActivationIsNotLost`: `Spec => []ActivationNeverLost`.  `Covered` is the
  property with what is in between: Klipper has loaded the sources on the disk,
  or those the sentinel's archive will bring back, or there is a marker of the
  process that runs.  While a command writes (`MarkerInv`), the files it *found*
  are covered, and either the marker is there or the sources are as found; a
  rollback may remove the marker first, because Klipper then runs what the
  rollback puts back, and of a restore, whose files Klipper never ran, it puts
  the sources back before the marker (`MarkerLastInv`, from the order of the
  journal).  A rollback that fails halfway leaves a source either as Klipper
  has it or in the archive of the sentinel it writes (`OwnArchive`).

* `UserValuesAreKept`: `Spec => UserValuesKept`.  A plan changes no value of the
  user and adds none (`PlanInv`); a file about to be written is the planned one,
  because the preimages were checked after the plan, unless it was edited since
  (`CheckedInv`); and no value of the user appeared since the command began but
  in an edited file (`FoundInv`), so that a rollback, which puts back what the
  command found, takes none away.

* `InstallIsRepaired`: `Spec => InstallRepairs`, on any printer and through any
  kills.  Postflight is what finds a half-done package, but the ledger is
  written a step later, and it does not look at the extra modules: `ReadyInv`
  carries what it saw to that write, and the modules from their stage on.
  Postflight spares the items the plan left to the user; `PlainInv` says that
  without an edit there are none, since every content comes from the disk, a
  plan, a preimage, an archive or the bundle, and none of these made up a user's
  value (`Contents`, `Preimages`, `Plans`: the three lemmas on where contents
  come from).
* `TransactionIsImplemented`: `Spec => ImplementsTransaction`, the refinement of
  `PackageTransaction`.  `Moves` sorts what a command does into what an observer
  can see: it goes on, gives up before it wrote, ends its rollback, fails in it,
  commits, or tidies up after the commit.  While it goes on, the mapped version
  is the one it found (`Version`), a stutter; a start is `Begin`.  A command
  that gives up has written nothing (`UnwrittenInv`), one whose rollback is
  complete has put everything back (`RollbackInv`): `Abort`.  At a commit the
  version is whole: of an install by `ReadyInv`, of an uninstall because it
  retained every source (`DecidedInv`), of a restore because its archive is true
  (`ArchivesInv`, `RestoredInv`).  A rollback that fails records an archive, so
  the printer is blocked (`FailureIsRecorded`), and what clears a sentinel
  matches a true archive. The theorem assumes `MaxEdits = 0`, `MaxCrashes = 0`
  and a stock printer, as the abstract specification does: an edited file is no
  package's, and a killed command leaves half of one, for which `InstallRepairs`
  is the promise. Commands, failures, prints, restarts, files and sources are
  arbitrary.

* `CommandsOnlyAdvance`: `Spec => OnlyForward`, and `CommandsNeverStuck`:
  `Spec => []NeverStuck`, the two halves of why `CommandsEnd` holds, for any
  files and bounds.  `Course` lists the stages of each command in their order.
  Every step of a command goes to a later stage, into the rollback, to its end,
  or leaves its stage -- or the rollback -- with strictly fewer files; no
  failure, edit, print or restart takes it back.  And in every state of a command
  the guard of one of its own steps holds: a stage that goes through files still
  has one of its own (`CourseInv`), and a rollback with paths to restore has a
  next one, the one of the highest rank (`HighestRank`, by the well-founded
  order of the naturals).  `Steppable` writes those guards out; on the instances
  of the runs TLC finds it equal to `ENABLED Proceed`.  What is left to TLC is
  the step from these two, with weak fairness, to the leads-to.

`TruthInvariant`, `LedgerIsTrue` and `SentinelIsUsable` assume `InitialPackages
\subseteq {"stock"}`: a legacy installation has the package's files and no
ledger from the start, which is what `WholePackage` denies.  The reset of one is
in the theorems all the same, when somebody writes its include line into a stock
printer.

**Updates and reboots** (`UpdateProofs`).  Every step is first shown to be one
of a few kinds (`AllSteps`): quiet about boots and host, a verification, a change
of the host, or a new boot.  Three invariants follow, each with its own pass
over these kinds, over the types (`UpdateTypes`):

* `RebootInv` (`PendingAlwaysKept`, `RebootsNeeded`): no marker or
  recommendation is of a later boot, and one of *this* boot, or a reboot about
  to happen, comes from a change made in it.  `PendingKept` needs the first part,
  because a verification deletes a marker by comparing boots.
* `LookInv` (`RebootsFindIdle`): from the last look at the printer to the
  reboot, either the printer still allows it or a use began meanwhile, which
  the history counts.
* `OffInv` (`DisabledStaysOff`): unless an enabling and a disabling overlapped,
  a disabling that ended left no enrolment and nobody who is about to enrol, and
  no check that began afterwards is on its way to the bundle.  `ReleaseInv`
  (a fetched release has a checksum) tells such a check from one that replaces
  nothing.

**Feed motion** (`MotionProofs`).

* `MotionIsFeasible`: `FeasibleMotion` holds in *every* state, because it is
  the profiles' own checks that keep it (`LoadProfileFeasible`,
  `UnloadProfileFeasible`): whatever is saved, what passes `LoadFits` has a
  first stage long enough for its speed (`CeilingCovers` is where the rounding
  up is needed), a second long enough for both changes of speed, and a
  third that makes up for what the fast stages lost.
* `StatusIsCurrent`: each step that changes settings or observed arguments
  drops the cache.
* `ChangesAreSafe`: an accepted global change was checked with the overrides of
  every slot that ran, so a slot that ran still runs (`AcceptedKeepsRunning`).

**Saved variables** (`VariableProofs`), from the one invariant
`TypeInv /\ PlansInv /\ LossesInv /\ RequestsInv`:

* `OperatorValuesAreKept`.  The property is about a request when Klipper runs
  it, which may be long after its command gave up; `RequestsInv` therefore
  carries what was decided from the detection through the second reading into
  every request in the queue: one nobody was asked for replaces, if the value
  is still the one read, only a replaceable one.
* `LossesAlwaysStopUpdates`.  `LossesInv` says that everything promised is
  expected once recorded and not loaded while no restart is pending, and that a
  check past its verification has nothing promised left.  It needs to know
  where in its sequence of steps a command is, whatever failed: `PlansInv` says
  that what is left of a command is the rest of one of four plans.

**Host changes** (`HostProofs`).  `BookInv` (`HostTypes`) holds the types and
what each stage of a command works on: the phases of install, uninstall,
recovery and undoing, and the position in `Order` or `Sorted`.  On it rest:

* `FirstPreimages`: `Spec => FirstPreimagesKept`; the one write of a ledger that
  could replace a preimage is the commit, and what it adds is new.
* `EditsAreKept`: `Spec => []EditsSurvive`.  `WholeInv` says that a user's file
  or half a change is never a preimage, `IdleInv` that a user's file is never
  the one in hand: a guard that was passed on the content it replaced stays true
  until the write.
* `ChangesCanBeUndone`, `RockchipSurvivesKills`: `Undoable` and
  `RockchipRecorded`.  `JournalInv` says what the journal file holds in each
  phase; `RecordInv` follows a preimage from its capture through the command's
  memory, the ledger, a failed compensation and the recovery of the next command
  (`AnchorInv`, `HeldInv`), and shows that without failures nobody meets an
  outcome that is not on the disk (`CleanInv`).  Kills and failures are told
  apart there by which of the two places outlives them.
* `RollbackRestores`: `Spec => []RollbackWhole`; what was captured is as found,
  or still to be undone, directories between their two renames included
  (`RollbackInv`).
* `ServicesAreFresh`: `Spec => []ServicesLoad`; a service that does not run what
  is on the disk is due for a restart, or its file is in hand, or it is still to
  be undone (`LoadedInv`).
* `SiteKeepsItsBuild`: `Spec => []SiteNeedsBuild`.  `ServedInv`: while the site
  is switched, the build is there or between its two renames (`Moving`), and
  every set of preimages, the ledger's, the journal's and the one in memory, is
  one that can be put back without separating the two (`Agreeable`).  A journal
  is put back entry by entry, so that `SwitchedBack` and `SiteIsUndoneFirst` say
  that the site went back before the build does.
* `UninstallIsComplete`: `BuildStays => (Spec => []UninstallRestores)`, written
  as `ASSUME ... PROVE`.  `Tidy`: in a clean run what is on record of an
  operation is the vendor's content and what lies in its place is the vendor's
  or what the record says; what is not on record was never touched.  `BuildFits`
  keeps the outcome of the site from being replaced by "unknown", which an
  uninstall would take for a file of somebody else.  The hypothesis `BuildStays`
  (no release drops the build that an earlier one brought) is needed: without it
  TLC finds an update that skips the site, records its outcome as unknown, and
  an uninstall that leaves nginx switched and the build with it.

**Firmware** (`FirmwareProofs`), for any number of boards and pages.

* `FirmwareTypes`; `ServicesAndRecords`: `Spec => []ServiceInv`, and from it
  `UnverifiedAreRecorded`, `ServicesAreRestored` and `StartsAreSafe`.  One
  operation owns the one pending record; what it recorded is what ran before
  the first operation, whoever started it; a board that is not whole is covered
  (`RecordInv`), a board in data mode counted as not whole because its first
  page goes when the session expires.
* `SessionsAgree`: `Spec => []SessionInv`, and from it `NothingIsMisplaced`.  A
  client's index is the board's write pointer or one behind it, and a client that
  lost its session sends `start` only once the board has certainly been reset:
  the invariant is an inequality between the ticks the client has waited and
  those the board has been quiet.
* `AcknowledgedIsWhole`: `Spec => []DoneMeansWhole`.  `ContentInv`: below the
  write pointer of a session its client trusts lies the image, and a recovering
  client trusts a session only while it has heard of it more lately than the
  session can last.

**Filament** (`FilamentProofs`), for any number of slots: `FilamentTypes`;
`NothingIsLeftRunning` from `FlowInv` (a flow runs under the command that runs
it, and a nozzle hot for nothing is about to be cooled); `RightSlotIsNamed` from
`HubInv` (one filament fits past the hub, the record names its slot, and so does
a command about to pull it back, whatever was inserted meanwhile).

**Assumptions on the constants.**  Beyond types and disjointness they are facts
of the code.  `Slack <= Exit`: a bootloader clock at the slowest rate the client
allows for lengthens a session by 1.1 s, less than the delay of its exit; the
client's wait for the reset is computed from that.  `Order` applies no operation
twice and `Sorted` names each of them (`_selected_operation_ids`); the bundle
files are guarded files none of which is the site or restarts a service
(`FLUIDD_BUNDLE_OPERATIONS`, all with `restart_service=None`); neither the build
nor the site is optional (`OPTIONAL_OPERATIONS`). `BuildComesFirst`, which
`SiteKeepsItsBuild` alone uses, says that the build comes before the site in
both orders: in the code by the order in which `_selected_operation_ids` lists
them ("nginx switches to the package Fluidd only after it is installed") and by
the names `fluidd_build` and `remote_screen_nginx`, since the journal's keys are
written sorted; with the names the other way round TLC finds a rollback that
takes the build from under nginx.  A printer has finitely many slots.

**Only model-checked.**  `CommandsEnd` (of two components), `UpdatesArrive`,
`OperationEnds`, `CommandsReturn` and `ToolsMapped` are liveness under fairness
and need `ENABLED`, which is out of the prover's reach; of the first, for the
lifecycle commands, the safety part is proved (`CommandsOnlyAdvance`,
`CommandsNeverStuck`).  No module uses a
recursive operator.

## 5. Where code and documents disagree

Shown by a run:

1. `auto_update.py:155` (`release_skipped`) -- turning updates on, or repairing
   them, records the newest published checksum although an older release is
   installed; checks then find the release current and never install it, against
   `docs/install.md:85`.
2. `system_optimizations.py:1806` (`stale_outcome`) -- a rolled-back update
   stores the outcomes of the operations it undid, so a file it put back counts
   as changed by somebody ever after and the uninstall leaves it patched, against
   `docs/install.md:111`.
3. `box_firmware.py:186` (`record_stuck`) -- a Box operation killed before its
   first snapshot, on a printer without an earlier backup, leaves a record that
   blocks everything and asks for a rescue that refuses with "No earlier
   backup", against `safety.py:29-30`.

The models reach these too; a property excludes each of them, or a hazard in
`PROJECT.json` records it:

* `uninstall.py:438` -- `remove_extra_module` deletes modules without tracking
  them.  A later failure rolls back the configuration that names them, and
  Klipper cannot load it; `openspec/specs/installer-lifecycle/spec.md:90` asks
  for restored preimages or a recovery blocker.
* `rollback.py:145` -- an edit noticed by the preimage check is overwritten by
  the rollback the check triggers, when it came after the tracking; `spec.md:97`
  asks for rejection *before overwriting*.
* `rollback.py:194` -- a rollback that fails overwrites the sentinel an earlier
  one left.  When an uninstall failed between removing its marker and putting a
  source back, and a `restore-backup` of an older archive then fails before it
  writes anything, the sentinel names that archive; `clear-recovery-sentinel`
  accepts it when the files are the archived ones, and nobody is told that
  Klipper still runs other sources.
* `legacy_manual_install.py:145` -- the archive of the legacy reset has no
  external manifest, so the sentinel it leaves can be neither cleared nor
  restored from, which is what `reporter.py:805` tells the user to do.
* `source_patches.py:143` -- a kill between deployment and ledger makes the
  next install believe the source was never stock; the uninstall then leaves
  it, against `docs/install.md:111`.
* `mirror.py:194` -- an uninstall removes the whole managed tree, changed files
  included, against `docs/install.md:111`.
* `cli.py:519` -- a reboot recorded by an update never counts as committed when
  no checksum was on record before it (a firmware update cleans it), or the same
  one as after (a reconciliation); no check schedules that reboot, against
  `spec.md:746-749` and `docs/install.md:51`.
* `system_optimizations.py:1799` -- the ledger a failed compensation leaves takes
  this transaction's preimages over the first ones, against `spec.md:191`.
* `box_firmware.py:273` -- a rescue that fails before it sets `pending`
  (stopping a service, writing its record), or that rescues another Box than the
  recorded one, goes on to the restoration at 318-334 and starts the services
  while the recorded Box is not whole; `firmware/BOX_FIRMWARE.md:33` says that
  Klipper stays stopped.
* `box_feed_motion.py:600` -- clearing one of a slot's overrides is not checked
  and can turn a slot that ran into one that falls back to the vendor's motion.
* `box_enablement.py:512` -- motion defaults are posted one by one and taken for
  present as soon as one is; an interruption leaves a set no later install
  completes, against the comment at lines 129-130.
* `auto_update.py:254` -- an operator's change of a value that still awaits
  verification is indistinguishable from a loss and stops every later check.

## 6. Not modelled

* Lifecycle: the migration of ledgers of older releases and dry runs.
* Updates: the texts of the systemd units, the members of an archive, sudo
  passwords, dry runs, and the recovery of an interrupted optimization before a
  check.
* Host changes: the listing of a dry run, the migration and validation of
  ledgers, and what the files contain.
* Firmware: snapshots of flash as data, the discovery of USB paths, and clocks
  finer than a tick.
* Saved variables: names and values that the fast module leaves to QIDI's own
  handler, and how a Box is detected.
* Feed motion: the code computes in floating point with a tolerance; the model
  compares whole numbers by multiplying both sides with twice the acceleration,
  so that a profile off by less than the tolerance is the one difference.
* Filament: one slot moves at a time, so what is inserted during a motion stays
  at its inlet, and a hand does not act between a command's decision to pull a
  slot and the pull; one filament at a time is past the hub;
  the motions of one step of QIDI's flow are one motion; the external spool is
  not moved, QIDI's slot states and the parks that `box_eject.py` drops are left
  out.  The flow controller itself is external and as good as what is known of
  it.
* `background_save_config.py` (a writer thread with a join before each later
  save), `box_filament_guard.py`, the monitors of the Box link and of Klipper's
  health, and fixes of single QIDI functions: each is a condition or a report,
  and shares no protocol state with the modules above.
* Messages, layout and parsing everywhere.  Components marked "no" in the
  inventory have no state whose order of changes matters.

## 7. Plan

Done: the lifecycle with its abstract specification, updates and reboots, host
changes, firmware, saved variables, feed motion and filament; the proofs of
section 4.  What is left, in this order:

1. `BackgroundSaveConfig`: the writer thread, its wait and a restart, beside
   QIDI's own save.
