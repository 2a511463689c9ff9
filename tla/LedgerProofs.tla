---------------------------- MODULE LedgerProofs ----------------------------
(***************************************************************************)
(* A command archives what it is going to write and keeps the user's        *)
(* values, the ledger tells the truth about the printer, what a recovery    *)
(* sentinel names can be restored, Klipper runs the sources on the disk or  *)
(* a marker says that it does not, an install repairs what it finds and the *)
(* commands implement PackageTransaction.                                   *)
(***************************************************************************)
EXTENDS LifecycleProofs, FiniteSetTheorems

-----------------------------------------------------------------------------
\* The archives.

LEMMA ArchiveIs ==
    ASSUME Numbered, NEW a \in backups
    PROVE  ArchiveOf(a.id) = a
  <1>1. \E b \in backups : b.id = a.id
    OBVIOUS
  <1>2. ArchiveOf(a.id) \in backups /\ ArchiveOf(a.id).id = a.id
    BY <1>1, ArchiveChosen
  <1> QED
    BY <1>2 DEF Numbered

LEMMA SameArchives ==
    ASSUME Numbered, UNCHANGED backups, hist'.archives = hist.archives
    PROVE  Numbered' /\ Archives' = Archives /\ \A id : ArchiveOf(id)' = ArchiveOf(id)
  BY DEF Numbered, Archives, ArchiveOf

\* A new archive has the greatest number, holds what is on the disk, and is kept.
LEMMA NewArchive ==
    ASSUME TypeOK, Numbered, NEW srcs \in SUBSET Sources,
           NEW new, new = Archive(disk, srcs),
           hist'.archives = hist.archives + 1,
           backups' \subseteq backups \cup {new}, new \in backups',
           run'.archive = new.id
    PROVE  /\ Numbered' /\ run'.archive \in Archives' /\ ArchiveOf(run.archive)' = new
           /\ DOMAIN new.sources = srcs
           /\ \A p \in ConfigTree : Archived(new, p) = disk[p]
           /\ \A s \in srcs : new.sources[s] = disk[s]
  <1>1. /\ new.id = hist.archives + 1 /\ DOMAIN new.sources = srcs
        /\ new.config = [p \in {q \in ConfigTree : disk[q] # Absent} |-> disk[p]]
        /\ \A s \in srcs : new.sources[s] = disk[s]
    BY DEF Archive
  <1>2. \A p \in ConfigTree : Archived(new, p) = disk[p]
    BY <1>1 DEF Archived
  <1>3. hist.archives \in Nat
    BY DEF TypeOK, IsHist
  <1>4. Numbered'
    <2>1. \A a \in backups' : a \in backups \/ a = new
      OBVIOUS
    <2>2. \A a \in backups : a.id \in 1..hist.archives
      BY DEF Numbered
    <2>3. \A a \in backups' : a.id \in 1..(hist.archives + 1)
      BY <1>1, <1>3, <2>1, <2>2
    <2>4. \A a \in backups, b \in backups : a.id = b.id => a = b
      BY DEF Numbered
    <2>5. \A a \in backups : a.id # new.id
      BY <1>1, <1>3, <2>2
    <2> QED
      BY <2>1, <2>3, <2>4, <2>5 DEF Numbered
  <1>5. ArchiveOf(run.archive)' = new
    <2>1. \E a \in backups' : a.id = new.id
      OBVIOUS
    <2>2. (CHOOSE a \in backups' : a.id = new.id) \in backups'
          /\ (CHOOSE a \in backups' : a.id = new.id).id = new.id
      BY <2>1
    <2> QED
      BY <1>4, <2>2 DEF ArchiveOf, Numbered
  <1>6. run'.archive \in Archives'
    BY DEF Archives
  <1> QED
    BY <1>1, <1>2, <1>4, <1>5, <1>6

\* Nothing holds of a command that has not archived yet.
LEMMA BeforeArchive ==
    ASSUME Numbered', run'.before = NoFiles, run'.stage \in Unguarded \ {"track"}
    PROVE  ArchiveInv'
  BY DEF ArchiveInv

LEMMA FinishArchives ==
    ASSUME Numbered', Finish
    PROVE  ArchiveInv'
  BY BeforeArchive, IdleRunFields, StageSets DEF Finish

\* A step of a command that has its archive and goes on.
LEMMA ArchiveStep ==
    ASSUME TypeInv, ArchiveInv, UNCHANGED backups, hist'.archives = hist.archives,
           hist.touched \subseteq hist'.touched,
           run'.op = run.op, run'.before = run.before, run'.archive = run.archive,
           run.edited \subseteq run'.edited,
           run.stage \notin Unguarded, run'.stage \notin Unguarded,
           run'.stage \in {"marker", "sources"} =>
              run.stage \in {"marker", "sources"} /\ run'.apply = run.apply,
           run.op # "restore" => \A s \in Sources :
              \/ disk'[s] = disk[s]
              \/ disk'[s] = run.before[s]
              \/ s \in DOMAIN ArchiveOf(run.archive).sources \cup run'.edited \cup hist'.touched
    PROVE  ArchiveInv'
  <1>1. Numbered' /\ Archives' = Archives /\ ArchiveOf(run.archive)' = ArchiveOf(run.archive)
    BY SameArchives DEF ArchiveInv, ArchiveOf
  <1>2. ASSUME run.op \in {"install", "uninstall"} PROVE OwnArchive'
    <2> DEFINE archive == ArchiveOf(run.archive)
    <2>0. OwnArchive /\ run.stage # "track" /\ run'.stage # "track"
      BY <1>2, StageSets DEF ArchiveInv
    <2>1. HoldsFiles(archive, run'.before, run'.edited \cup hist'.touched)
      BY <2>0 DEF OwnArchive, HoldsFiles
    <2>2. \A s \in Sources \ (DOMAIN archive.sources \cup run'.edited \cup hist'.touched) :
             disk'[s] = run'.before[s]
      BY <1>2, <2>0 DEF OwnArchive
    <2>3. run'.stage \in {"marker", "sources"} =>
             (IF run'.op = "install" THEN Sources ELSE run'.apply) \subseteq DOMAIN archive.sources
      BY <2>0 DEF OwnArchive
    <2>4. run'.archive \in Archives'
      BY <1>1, <2>0 DEF OwnArchive
    <2>5. ArchiveOf(run.archive)' = archive
      BY <1>1
    <2> HIDE DEF archive
    <2> QED
      BY <2>0, <2>1, <2>2, <2>3, <2>4, <2>5 DEF OwnArchive
  <1> QED
    BY <1>1, <1>2 DEF ArchiveInv
-----------------------------------------------------------------------------
\* WritesAreArchived, step by step.

\* An exception keeps the archive for the rollback or ends the command.
LEMMA RaiseArchives ==
    ASSUME TypeInv, RollbackInv, ArchiveInv, Raise, UNCHANGED <<disk, backups>>,
           hist'.archives = hist.archives, hist.touched \subseteq hist'.touched
    PROVE  ArchiveInv'
  <1>0. IsRun(run) /\ Numbered'
    BY SameArchives DEF TypeInv, TypeOK, ArchiveInv
  <1>1. CASE ~run.journal.writes
    BY <1>0, <1>1, FinishArchives DEF Raise, Finish
  <1>2. CASE run.journal.writes
    <2>1. /\ run'.op = run.op /\ run'.before = run.before /\ run'.archive = run.archive
          /\ run'.edited = run.edited /\ run'.stage = "rollback"
      BY <1>0, <1>2 DEF Raise, IsRun
    <2>2. run.stage \notin Unguarded
      BY <1>2 DEF RollbackInv
    <2> QED
      BY <2>1, <2>2, StageSets, ArchiveStep
  <1> QED
    BY <1>1, <1>2

LEMMA ArchiveFields ==
    ASSUME NEW s, NEW l, NEW p, IsRun(run), Goto(s, l) \/ Wrote(p, s, l)
    PROVE  /\ run'.archive = run.archive /\ run'.op = run.op /\ run'.before = run.before
           /\ run'.edited = run.edited /\ run'.apply = run.apply
           /\ run'.stage \in {run.stage, s}
  BY DEF Goto, Wrote, IsRun

\* A step of a command that leaves the sources as they are.
LEMMA GoesArchives ==
    ASSUME TypeInv, ArchiveInv, NEW s, NEW l, NEW p, Goto(s, l) \/ Wrote(p, s, l),
           UNCHANGED <<backups, hist>>, run.stage \notin Unguarded, s \notin Unguarded,
           s \notin {"marker", "sources"} \/ run.op = "restore",
           run.op # "restore" => \A q \in Sources : disk'[q] = disk[q]
    PROVE  ArchiveInv'
  <1>1. IsRun(run)
    BY DEF TypeInv, TypeOK
  <1>2. /\ run'.archive = run.archive /\ run'.op = run.op /\ run'.before = run.before
        /\ run'.edited = run.edited /\ run'.apply = run.apply
        /\ run'.stage \in {run.stage, s}
    BY <1>1, ArchiveFields
  <1>3. CASE run.op = "restore"
    <2>1. Numbered'
      BY SameArchives DEF ArchiveInv
    <2> QED
      BY <1>2, <1>3, <2>1 DEF ArchiveInv
  <1>4. CASE run.op # "restore"
    BY <1>2, <1>4, ArchiveStep
  <1> QED
    BY <1>3, <1>4

LEMMA CommandArchives ==
    ASSUME TypeInv, ArchiveInv, Commands
    PROVE  ArchiveInv'
  <1>0. IsHist(hist)
    BY DEF TypeInv, TypeOK
  <1>1. ASSUME NEW op, NEW stage \in {"plan", "reset"}, Start(op, stage) PROVE ArchiveInv'
    <2>1. run'.stage = stage /\ run'.before = NoFiles
      BY <1>1 DEF Start, IdleRun
    <2>2. UNCHANGED backups /\ hist'.archives = hist.archives
      BY <1>0, <1>1 DEF Start, IsHist
    <2> QED
      BY <2>1, <2>2, SameArchives, BeforeArchive, StageSets DEF ArchiveInv
  <1>2. ASSUME StartInstall \/ StartUninstall PROVE ArchiveInv'
    BY <1>1, <1>2 DEF StartInstall, StartUninstall
  <1>3. ASSUME ClearSentinel PROVE ArchiveInv'
    BY <1>3 DEF ClearSentinel, ArchiveInv, Numbered, OwnArchive, ArchiveOf, Archives
  <1>4. ASSUME NEW id \in Archives, StartRestore(id) PROVE ArchiveInv'
    <2>1. run'.op = "restore" /\ run'.stage = "swapOut"
      BY <1>4 DEF StartRestore, IdleRun
    <2>2. UNCHANGED backups /\ hist'.archives = hist.archives
      BY <1>0, <1>4 DEF StartRestore, IsHist
    <2> QED
      BY <2>1, <2>2, SameArchives, StageSets DEF ArchiveInv
  <1> QED
    BY <1>2, <1>3, <1>4 DEF Commands

LEMMA ResetArchives ==
    ASSUME TypeInv, RollbackInv, ArchiveInv, Reset
    PROVE  ArchiveInv'
  <1>0. WellFormed(disk) /\ IsRun(run) /\ IsHist(hist)
    BY DEF TypeInv, TypeOK
  <1>1. ASSUME BackupLegacyConfig PROVE ArchiveInv'
    <2>1. CASE ~ConfigPresent(disk)
      BY <1>1, <2>1, SameArchives, FinishArchives DEF BackupLegacyConfig, ArchiveInv
    <2>2. CASE ConfigPresent(disk)
      <3> DEFINE l == {t \in TreeFiles : disk[t] # Absent}
                 j == TrackTree(EmptyJournal, disk, TreeFiles)
                 new == Archive(disk, {})
                 i == new.id
      <3>1. run' = [run EXCEPT !.stage = "resetTree", !.left = l, !.journal = j,
                               !.archive = i, !.before = disk] /\ UNCHANGED disk
            /\ backups' = backups \cup {new} /\ hist' = [hist EXCEPT !.archives = @ + 1]
        BY <1>1, <2>2 DEF BackupLegacyConfig
      <3>2. hist'.archives = hist.archives + 1 /\ hist'.touched = hist.touched
        BY <1>0, <3>1 DEF IsHist
      <3> HIDE DEF l, j, new, i
      <3>4. run'.stage = "resetTree" /\ run'.before = disk /\ run'.archive = i
        BY <1>0, <3>1 DEF IsRun
      <3>5. /\ Numbered' /\ run'.archive \in Archives' /\ ArchiveOf(run.archive)' = new
            /\ DOMAIN new.sources = {}
            /\ \A p \in ConfigTree : Archived(new, p) = disk[p]
        BY <3>1, <3>2, <3>4, NewArchive DEF TypeInv, ArchiveInv, new, i
      <3>6. OwnArchive'
        BY <3>1, <3>4, <3>5, StageSets DEF OwnArchive, HoldsFiles
      <3> QED
        BY <3>4, <3>5, <3>6, StageSets DEF ArchiveInv
    <2> QED
      BY <2>1, <2>2
  <1>2. ASSUME SkipLegacyTree PROVE ArchiveInv'
    BY <1>2, StageSets, GoesArchives DEF SkipLegacyTree
  <1>3. ASSUME NEW t \in TreeFiles, RemoveLegacyTree(t) PROVE ArchiveInv'
    <2>1. \A q \in Sources : disk'[q] = disk[q]
      BY <1>0, <1>3, PathsAreDistinct DEF RemoveLegacyTree, WellFormed, Paths
    <2> QED
      BY <1>3, <2>1, StageSets, GoesArchives DEF RemoveLegacyTree, Writing
  <1>4. ASSUME NEW f \in ConfigFiles, WriteStockConfig(f) PROVE ArchiveInv'
    <2>0. Numbered'
      BY <1>4, SameArchives DEF WriteStockConfig, ArchiveInv
    <2>1. CASE run.left = {f}
      <3>1. run'.stage = "plan" /\ run'.before = NoFiles
        BY <1>4, <2>1 DEF WriteStockConfig, IdleRun
      <3> QED
        BY <2>0, <3>1, BeforeArchive, StageSets
    <2>2. CASE run.left # {f}
      <3> DEFINE j == IF disk[f] = StockContent(f) THEN TrackFiles(run.journal, disk, {f})
                      ELSE NoteWrite(TrackFiles(run.journal, disk, {f}))
      <3>1. run' = [run EXCEPT !.left = @ \ {f}, !.journal = j]
        BY <1>4, <2>2 DEF WriteStockConfig
      <3> HIDE DEF j
      <3>2. /\ run'.stage = run.stage /\ run'.op = run.op /\ run'.before = run.before
            /\ run'.edited = run.edited /\ run'.archive = run.archive /\ run.stage = "resetConfig"
        BY <1>0, <1>4, <3>1 DEF IsRun, WriteStockConfig, Writing
      <3>3. \A q \in Sources : disk'[q] = disk[q]
        BY <1>0, <1>4, PathsAreDistinct DEF WriteStockConfig, WellFormed, Paths
      <3> QED
        BY <1>4, <3>2, <3>3, StageSets, ArchiveStep DEF WriteStockConfig
    <2> QED
      BY <2>1, <2>2
  <1> QED
    BY <1>1, <1>2, <1>3, <1>4 DEF Reset

\* The archive that is new when older ones are pruned stays.
LEMMA NewestStays ==
    ASSUME TypeOK, Numbered, NEW new, new.id = hist.archives + 1
    PROVE  new \in Pruned(backups \cup {new}) /\ Pruned(backups \cup {new}) \subseteq backups \cup {new}
  <1>1. hist.archives \in Nat
    BY DEF TypeOK, IsHist
  <1> DEFINE newer == {b \in backups \cup {new} : b.id > new.id}
  <1>2. newer = {}
    BY <1>1 DEF Numbered
  <1> HIDE DEF newer
  <1>3. Cardinality(newer) < Retain
    BY <1>2, FS_EmptySet, BoundsAreNumbers
  <1> QED
    BY <1>3 DEF Pruned, newer

LEMMA PrepareArchives ==
    ASSUME TypeInv, RollbackInv, ArchiveInv, Prepare
    PROVE  ArchiveInv'
  <1>0. WellFormed(disk) /\ IsRun(run) /\ IsHist(hist)
    BY DEF TypeInv, TypeOK
  <1>1. ASSUME PlanInstall \/ PlanUninstall PROVE ArchiveInv'
    <2>1. /\ run'.stage = "backup" /\ run'.before = run.before /\ run.stage = "plan"
          /\ UNCHANGED <<backups, hist>>
      BY <1>0, <1>1 DEF PlanInstall, PlanUninstall, IsRun
    <2>2. Numbered'
      BY <2>1, SameArchives DEF ArchiveInv
    <2> QED
      BY <2>1, <2>2, BeforeArchive, StageSets DEF ArchiveInv
  <1>2. ASSUME Refuse PROVE ArchiveInv'
    BY <1>2, SameArchives, FinishArchives DEF Refuse, ArchiveInv
  <1>3. ASSUME CreateBackup PROVE ArchiveInv'
    <2> DEFINE srcs == IF run.op = "install" THEN Sources ELSE run.retained
               new == Archive(disk, srcs)
               i == new.id
    <2>1. srcs \in SUBSET Sources
      BY <1>0 DEF IsRun
    <2>2. /\ run.stage = "backup" /\ backups' = Pruned(backups \cup {new})
          /\ run' = [run EXCEPT !.stage = "track", !.archive = i]
          /\ hist' = [hist EXCEPT !.archives = @ + 1] /\ UNCHANGED disk
      BY <1>3 DEF CreateBackup
    <2>3. hist'.archives = hist.archives + 1 /\ hist'.touched = hist.touched
      BY <1>0, <2>2 DEF IsHist
    <2>4. i = hist.archives + 1
      BY DEF Archive
    <2> HIDE DEF srcs
    <2>5. new \in backups' /\ backups' \subseteq backups \cup {new}
      BY <2>2, <2>4, NewestStays DEF TypeInv, ArchiveInv
    <2> HIDE DEF new, i
    <2>7. /\ run'.stage = "track" /\ run'.archive = i /\ run'.op = run.op
          /\ run'.before = run.before /\ run'.retained = run.retained
      BY <1>0, <2>2 DEF IsRun
    <2>8. /\ Numbered' /\ run'.archive \in Archives' /\ ArchiveOf(run.archive)' = new
          /\ DOMAIN new.sources = srcs
          /\ \A p \in ConfigTree : Archived(new, p) = disk[p]
          /\ \A s \in srcs : new.sources[s] = disk[s]
      BY <2>1, <2>3, <2>5, <2>7, NewArchive DEF TypeInv, ArchiveInv, new, i
    <2>9. OwnArchive'
      BY <2>2, <2>7, <2>8 DEF OwnArchive, HoldsFiles, srcs
    <2> QED
      BY <2>2, <2>7, <2>8, <2>9, StageSets DEF ArchiveInv
  <1>4. ASSUME Track PROVE ArchiveInv'
    <2> DEFINE touched == TrackFiles(EmptyJournal, disk, ConfigFiles \cup {StateFile})
               srcs == IF run.op = "install" THEN Sources ELSE run.retained
               journal == IF run.op = "install"
                          THEN TrackFiles(TrackTree(touched, disk, TreeFiles), disk, srcs)
                          ELSE TrackTree(TrackFiles(touched, disk, srcs), disk, TreeFiles)
               apply == IF run.op = "install" THEN run.apply
                        ELSE {s \in run.retained : disk[s] # "stock"}
               halted == run.op = "install" /\ ~klipper.up
               stage == IF apply # {} THEN "marker"
                        ELSE IF run.op = "install" THEN "extras" ELSE "check"
               left == IF apply # {} THEN {RestartMarker}
                       ELSE IF run.op = "install" THEN Extras ELSE {}
    <2>1. PICK j \in {journal, NoteWrite(journal)} :
            /\ run' = [run EXCEPT !.journal = j, !.apply = apply, !.before = disk,
                                  !.halted = halted, !.stage = stage, !.left = left]
            /\ UNCHANGED <<disk, backups, hist>> /\ run.stage = "track"
      BY <1>4 DEF Track
    <2>2. stage \in {"marker", "extras", "check"}
      OBVIOUS
    <2>3. (IF run.op = "install" THEN Sources ELSE apply) \subseteq srcs
      OBVIOUS
    <2>4. Numbered' /\ Archives' = Archives /\ ArchiveOf(run.archive)' = ArchiveOf(run'.archive)
      BY <2>1, SameArchives DEF ArchiveInv, ArchiveOf
    <2> HIDE DEF journal, apply, halted, stage, left
    <2>5. /\ run'.stage = stage /\ run'.before = disk /\ run'.archive = run.archive
          /\ run'.op = run.op /\ run'.apply = apply
      BY <1>0, <2>1 DEF IsRun
    <2>6. ASSUME run.op \in {"install", "uninstall"} PROVE OwnArchive'
      <3>1. OwnArchive
        BY <2>1, <2>6, StageSets DEF ArchiveInv
      <3> QED
        BY <2>1, <2>2, <2>3, <2>4, <2>5, <3>1 DEF OwnArchive, HoldsFiles
    <2> QED
      BY <2>2, <2>4, <2>5, <2>6, StageSets DEF ArchiveInv
  <1> QED
    BY <1>1, <1>2, <1>3, <1>4 DEF Prepare

LEMMA WriteArchives ==
    ASSUME TypeInv, RollbackInv, ArchiveInv, Write
    PROVE  ArchiveInv'
  <1> USE StageSets
  <1>0. WellFormed(disk) /\ IsRun(run) /\ IsHist(hist)
    BY DEF TypeInv, TypeOK
  <1>1. ASSUME WriteMarker PROVE ArchiveInv'
    <2> DEFINE j == NoteWrite(TrackFiles(run.journal, disk, {RestartMarker}))
    <2>1. run' = [run EXCEPT !.journal = j, !.stage = "sources", !.left = run.apply]
          /\ run.stage = "marker" /\ UNCHANGED <<backups, hist>>
      BY <1>0, <1>1 DEF WriteMarker, Writing, IsRun
    <2> HIDE DEF j
    <2>2. /\ run'.stage = "sources" /\ run'.op = run.op /\ run'.before = run.before
          /\ run'.edited = run.edited /\ run'.archive = run.archive /\ run'.apply = run.apply
      BY <1>0, <2>1 DEF IsRun
    <2>3. \A q \in Sources : disk'[q] = disk[q]
      BY <1>0, <1>1, PathsAreDistinct DEF WriteMarker, WellFormed, Paths
    <2> QED
      BY <2>1, <2>2, <2>3, ArchiveStep
  <1>2. ASSUME NEW s \in Sources, NEW t \in Stages, NEW l, Wrote(s, t, l),
               t \notin Unguarded \cup {"marker", "sources"},
               run.stage = "sources", run.op \in {"install", "uninstall"},
               s \in run.left, UNCHANGED <<backups, hist>>,
               \A q \in Paths : disk'[q] # disk[q] => q = s
        PROVE  ArchiveInv'
    <2>1. /\ run'.op = run.op /\ run'.before = run.before /\ run'.archive = run.archive
          /\ run'.edited = run.edited /\ run'.apply = run.apply
          /\ run'.stage \in {run.stage, t}
      BY <1>0, <1>2, ArchiveFields
    <2>2. OwnArchive
      BY <1>2 DEF ArchiveInv
    <2>3. s \in DOMAIN ArchiveOf(run.archive).sources
      BY <1>2, <2>2 DEF OwnArchive, RollbackInv
    <2> QED
      BY <1>2, <2>1, <2>3, StagesAndPaths, ArchiveStep
  <1>3. ASSUME NEW s \in Sources, DeploySource(s) PROVE ArchiveInv'
    <2>1. \A q \in Paths : disk'[q] # disk[q] => q = s
      BY <1>0, <1>3, OneChanges DEF DeploySource
    <2> QED
      BY <1>2, <1>3, <2>1, StagesAndPaths DEF DeploySource, Writing
  <1>4. ASSUME NEW s \in Sources, RestoreSource(s) PROVE ArchiveInv'
    <2>1. CASE disk[s] = "other"
      BY <1>4, <2>1, RaiseArchives DEF RestoreSource
    <2>2. CASE disk[s] # "other"
      <3>1. disk' = [disk EXCEPT ![s] = "stock"]
        BY <1>4, <2>2 DEF RestoreSource
      <3>2. \A q \in Paths : disk'[q] # disk[q] => q = s
        BY <1>0, <3>1, OneChanges
      <3> QED
        BY <1>2, <1>4, <2>2, <3>2, StagesAndPaths DEF RestoreSource, Writing
    <2> QED
      BY <2>1, <2>2
  <1>5. ASSUME NEW x \in Extras, InstallExtra(x) \/ RemoveExtra(x) PROVE ArchiveInv'
    <2> DEFINE j == IF InstallExtra(x)
                    THEN IF disk[x] = "packaged" THEN run.journal
                         ELSE NoteWrite(TrackFiles(run.journal, disk, {x}))
                    ELSE IF disk[x] = "packaged" THEN NoteWrite(run.journal) ELSE run.journal
               left == IF run.left = {x} THEN TreeFiles ELSE run.left \ {x}
               stage == IF run.left = {x} THEN "tree" ELSE run.stage
    <2>1. run' = [run EXCEPT !.journal = j, !.left = left, !.stage = stage]
          /\ run.stage = "extras" /\ UNCHANGED <<backups, hist>>
      BY <1>0, <1>5 DEF InstallExtra, RemoveExtra, Writing, IsRun
    <2>2. stage \in {"extras", "tree"}
      BY <2>1
    <2> HIDE DEF j, left, stage
    <2>3. /\ run'.stage = stage /\ run'.op = run.op /\ run'.before = run.before
          /\ run'.edited = run.edited /\ run'.archive = run.archive /\ run'.apply = run.apply
      BY <1>0, <2>1 DEF IsRun
    <2>4. \A q \in Sources : disk'[q] = disk[q]
      BY <1>0, <1>5, PathsAreDistinct DEF InstallExtra, RemoveExtra, WellFormed, Paths
    <2> QED
      BY <2>1, <2>2, <2>3, <2>4, ArchiveStep
  <1>6. ASSUME NEW t \in TreeFiles, MirrorFile(t) \/ RemoveTreeFile(t) PROVE ArchiveInv'
    <2>1. \A q \in Sources : disk'[q] = disk[q]
      BY <1>0, <1>6, PathsAreDistinct DEF MirrorFile, RemoveTreeFile, WellFormed, Paths
    <2>2. run.stage = "tree" /\ UNCHANGED <<backups, hist>>
      BY <1>6 DEF MirrorFile, RemoveTreeFile, Writing
    <2>3. \/ \E l : Goto("check", l) \/ Goto("tree", l)
          \/ Wrote(t, "check", {}) \/ Wrote(t, "postflight", {})
      BY <1>6 DEF MirrorFile, RemoveTreeFile
    <2> QED
      BY <2>1, <2>2, <2>3, GoesArchives
  <1>7. ASSUME CheckPreimages PROVE ArchiveInv'
    <2>1. CASE Raise
      BY <1>7, <2>1, RaiseArchives DEF CheckPreimages
    <2>2. CASE Goto(AfterConfig, LeftAfterConfig) \/ Goto("config", Changed)
      BY <1>7, <2>2, AfterConfigStage, GoesArchives DEF CheckPreimages
    <2> QED
      BY <1>7, <2>1, <2>2 DEF CheckPreimages
  <1>8. ASSUME NEW f \in ConfigFiles, WriteConfig(f) PROVE ArchiveInv'
    <2>1. \A q \in Sources : disk'[q] = disk[q]
      BY <1>0, <1>8, PathsAreDistinct DEF WriteConfig, WellFormed, Paths
    <2> QED
      BY <1>8, <2>1, AfterConfigStage, GoesArchives DEF WriteConfig
  <1>9. ASSUME Postflight PROVE ArchiveInv'
    <2>1. CASE Raise
      BY <1>9, <2>1, RaiseArchives DEF Postflight
    <2>2. CASE Goto("state", {StateFile})
      BY <1>9, <2>2, GoesArchives DEF Postflight
    <2> QED
      BY <1>9, <2>1, <2>2 DEF Postflight
  <1>10. ASSUME WriteState \/ DeleteState \/ Commit \/ Optimize PROVE ArchiveInv'
    <2>1. \A q \in Sources : disk'[q] = disk[q]
      BY <1>0, <1>10, PathsAreDistinct
         DEF WriteState, DeleteState, Commit, Optimize, WellFormed, Paths
    <2>2. /\ run.stage \in {"state", "optimize"} /\ UNCHANGED <<backups, hist>>
          /\ \/ Goto("optimize", {}) \/ Goto("activate", {})
             \/ Wrote(StateFile, "state", {})
      BY <1>10 DEF WriteState, DeleteState, Commit, Optimize, Writing
    <2> QED
      BY <2>1, <2>2, StageSets, GoesArchives
  <1> QED
    BY <1>1, <1>3, <1>4, <1>5, <1>6, <1>7, <1>8, <1>9, <1>10 DEF Write

LEMMA RestoreArchives ==
    ASSUME TypeInv, RollbackInv, ArchiveInv, Restore
    PROVE  ArchiveInv'
  <1> USE StageSets
  <1>1. run.op = "restore" /\ run.stage \notin Unguarded /\ UNCHANGED <<backups, hist>>
    BY DEF Restore, SwapOut, SwapIn, VerifyRestore, WriteRestoreMarker, RestoreArchivedSource,
           Writing, TypeInv, StagesOK
  <1>2. CASE Raise
    BY <1>1, <1>2, SameArchives, FinishArchives
       DEF Raise, Finish, ArchiveInv, TypeInv, TypeOK, IsRun
  <1>3. CASE ~Raise
    <2>1. \/ \E s \in {"swapIn", "verify", "marker", "sources"} : \E l : Goto(s, l)
          \/ \E p : Wrote(p, "activate", {})
      BY <1>3 DEF Restore, SwapOut, SwapIn, VerifyRestore, WriteRestoreMarker, RestoreArchivedSource
    <2> QED
      BY <1>1, <2>1, GoesArchives, SMTT(30)
  <1> QED
    BY <1>2, <1>3

LEMMA ActivationArchives ==
    ASSUME TypeInv, RollbackInv, ArchiveInv, Activation
    PROVE  ArchiveInv'
  <1> USE StageSets
  <1>0. WellFormed(disk) /\ IsRun(run) /\ Numbered'
    BY SameArchives DEF TypeInv, TypeOK, ArchiveInv, Activation, Activate, RestartPending, AwaitKlipper
  <1>1. UNCHANGED <<backups, hist>> /\ run.stage \notin Unguarded
    BY DEF Activation, Activate, RestartPending, AwaitKlipper
  <1>2. CASE Finish
    BY <1>0, <1>2, FinishArchives
  <1>3. CASE ~Finish
    <2>1. /\ run'.op = run.op /\ run'.before = run.before /\ run'.archive = run.archive
          /\ run'.edited = run.edited /\ run'.stage \in {"pending", "restarting"}
          /\ UNCHANGED disk
      BY <1>0, <1>3 DEF Activation, Activate, RestartPending, AwaitKlipper, Goto, IsRun
    <2> QED
      BY <1>1, <2>1, ArchiveStep
  <1> QED
    BY <1>2, <1>3

LEMMA RollbackArchives ==
    ASSUME TypeInv, RollbackInv, ArchiveInv, Rollback
    PROVE  ArchiveInv'
  <1> USE StageSets
  <1>0. WellFormed(disk) /\ IsRun(run) /\ IsJournal(run.journal)
    BY DEF TypeInv, TypeOK, IsRun
  <1>1. ASSUME RollbackDone PROVE ArchiveInv'
    BY <1>1, SameArchives, FinishArchives DEF RollbackDone, ArchiveInv
  <1>2. ASSUME NEW p \in Paths, RollbackStep(p) PROVE ArchiveInv'
    <2>1. /\ run'.stage = "rollback" /\ run.stage = "rollback" /\ run'.op = run.op
          /\ run'.before = run.before /\ run'.archive = run.archive /\ run'.edited = run.edited
          /\ UNCHANGED <<backups, hist>>
      BY <1>0, <1>2 DEF RollbackStep, IsRun
    <2>2. p \in Tracked(run.journal)
      BY <1>0, <1>2 DEF RollbackStep, NextToRestore, IsJournal
    <2>3. \A s \in Sources : disk'[s] = disk[s] \/ disk'[s] = run.before[s] \/ s \in run'.edited
      <3>1. \A s \in Sources : s \in Exempt => s \in run.edited
        BY PathsAreDistinct DEF Exempt
      <3>2. disk' = [disk EXCEPT ![p] = run.journal.snap[p]]
        BY <1>2 DEF RollbackStep
      <3>3. p \in Exempt \/ run.journal.snap[p] = run.before[p]
        BY <2>1, <2>2 DEF RollbackInv, Recoverable
      <3> QED
        BY <1>0, <2>1, <3>1, <3>2, <3>3, StagesAndPaths DEF WellFormed
    <2> QED
      BY <2>1, <2>3, ArchiveStep
  <1> QED
    BY <1>1, <1>2 DEF Rollback

LEMMA FaultArchives ==
    ASSUME TypeInv, RollbackInv, ArchiveInv, Faults
    PROVE  ArchiveInv'
  <1>0. IsHist(hist)
    BY DEF TypeInv, TypeOK
  <1>1. UNCHANGED <<disk, backups>> /\ hist'.archives = hist.archives
        /\ hist'.touched = hist.touched
    BY <1>0 DEF Faults, Fail, RollbackFails, InterruptReset, Crash, Fault, IsHist
  <1>2. Finish \/ Raise
    BY DEF Faults, Fail, RollbackFails, InterruptReset, Crash
  <1> QED
    BY <1>1, <1>2, SameArchives, FinishArchives, RaiseArchives DEF ArchiveInv

LEMMA EnvironmentArchives ==
    ASSUME TypeInv, RollbackInv, ArchiveInv, Environment
    PROVE  ArchiveInv'
  <1> USE StageSets
  <1>0. WellFormed(disk) /\ IsRun(run) /\ IsHist(hist)
    BY DEF TypeInv, TypeOK
  <1>1. ASSUME NEW p, NEW i, Edit({p}, {i}), p \in Sources => i = p,
               \A q \in Paths : disk'[q] # disk[q] => q = p
        PROVE  ArchiveInv'
    <2> DEFINE edited == IF run.before = NoFiles THEN run.edited ELSE run.edited \cup {p}
               touched == hist.touched \cup Theirs({p}, {i})
    <2>1. run' = [run EXCEPT !.edited = edited] /\ UNCHANGED backups
      BY <1>0, <1>1 DEF Edit, IsRun
    <2>2. hist' = [hist EXCEPT !.edits = @ + 1, !.touched = touched]
      BY <1>1 DEF Edit
    <2> HIDE DEF edited, touched
    <2>3. /\ run'.stage = run.stage /\ run'.op = run.op /\ run'.before = run.before
          /\ run'.apply = run.apply /\ run'.archive = run.archive /\ run'.edited = edited
          /\ run'.retained = run.retained
      BY <1>0, <2>1 DEF IsRun
    <2>4. hist'.archives = hist.archives /\ hist'.touched = touched
      BY <1>0, <2>2 DEF IsHist
    <2>5. /\ Numbered' /\ Archives' = Archives /\ ArchiveOf(run.archive)' = ArchiveOf(run.archive)
      BY <2>1, <2>3, <2>4, SameArchives DEF ArchiveInv, ArchiveOf
    <2>6. CASE run.stage \in Unguarded \ {"track"}
      BY <2>3, <2>5, <2>6, BeforeArchive DEF ArchiveInv
    <2>7. CASE run.stage = "track"
      <3>1. run.before = NoFiles
        BY <2>7 DEF ArchiveInv
      <3>2. hist.touched \cup {p} \subseteq touched
        BY <2>7 DEF touched, Theirs
      <3>3. ASSUME run.op \in {"install", "uninstall"} PROVE OwnArchive'
        <4>1. OwnArchive
          BY <2>7, <3>3 DEF ArchiveInv
        <4>2. \A q \in ConfigTree \cup Sources : q \notin touched => disk'[q] = disk[q]
          BY <1>1, <3>2 DEF Paths
        <4>3. DOMAIN ArchiveOf(run.archive).sources \subseteq Sources
          BY <1>0, <2>7, <4>1 DEF OwnArchive, IsRun
        <4>4. HoldsFiles(ArchiveOf(run.archive), disk', touched)
          BY <2>7, <3>2, <4>1, <4>2, <4>3 DEF OwnArchive, HoldsFiles
        <4> QED
          BY <2>3, <2>4, <2>5, <2>7, <4>1, <4>4 DEF OwnArchive
      <3> QED
        BY <2>3, <2>5, <2>7, <3>1, <3>3 DEF ArchiveInv
    <2>8. CASE run.stage \notin Unguarded
      <3>1. hist.touched \subseteq touched /\ i \in touched
        BY DEF touched, Theirs
      <3>2. \A s \in Sources : disk'[s] = disk[s] \/ s \in touched
        BY <1>1, <3>1 DEF Paths
      <3>3. run.edited \subseteq edited
        BY DEF edited
      <3> QED
        BY <2>1, <2>3, <2>4, <2>8, <3>1, <3>2, <3>3, ArchiveStep
    <2> QED
      BY <2>6, <2>7, <2>8
  <1>2. ASSUME NEW i \in Items, NEW v \in Values, EditConfig(i, v) PROVE ArchiveInv'
    <2>1. \A q \in Paths : disk'[q] # disk[q] => q = FileOf[i]
      BY <1>0, <1>2 DEF EditConfig, WellFormed
    <2>2. FileOf[i] \notin Sources
      BY ItemsAreDistinct, PathsAreDistinct
    <2> QED
      BY <1>1, <1>2, <2>1, <2>2 DEF EditConfig
  <1>3. ASSUME NEW p \in TreeFiles \cup Extras \cup Sources, EditOwned(p) PROVE ArchiveInv'
    <2>1. \A q \in Paths : disk'[q] # disk[q] => q = p
      BY <1>0, <1>3, OneChanges DEF EditOwned
    <2> QED
      BY <1>1, <1>3, <2>1 DEF EditOwned
  <1>4. ASSUME UNCHANGED <<disk, backups, run>>, hist'.archives = hist.archives,
               hist'.touched = hist.touched
        PROVE  ArchiveInv'
    BY <1>4 DEF ArchiveInv, Numbered, OwnArchive, Archives, ArchiveOf
  <1>5. ASSUME KlipperRestart \/ StartPrint \/ EndPrint PROVE ArchiveInv'
    BY <1>0, <1>4, <1>5 DEF KlipperRestart, StartPrint, EndPrint, IsHist
  <1> QED
    BY <1>2, <1>3, <1>5 DEF Environment

\* ArchiveInv is inductive, relative to the types and to RollbackInv.
LEMMA StepArchives == TypeInv /\ RollbackInv /\ ArchiveInv /\ [Next]_vars => ArchiveInv'
  <1>1. ArchiveInv /\ UNCHANGED vars => ArchiveInv'
    BY DEF vars, ArchiveInv, Numbered, OwnArchive, Archives, ArchiveOf
  <1> QED
    BY <1>1, CommandArchives, ResetArchives, PrepareArchives, WriteArchives, RestoreArchives,
       ActivationArchives, RollbackArchives, FaultArchives, EnvironmentArchives DEF Next, Proceed

LEMMA InitArchives == Init => ArchiveInv
  BY IdleRunFields, StageSets DEF Init, ArchiveInv, Numbered

\* What a command is about to change is in its archive from the moment it can
\* write, the archive is kept, and a source outside it is not written.
THEOREM ArchivesInvariant == Spec => []ArchiveInv
  <1>1. Init => TypeInv /\ RollbackInv /\ ArchiveInv
    BY InitTypes, InitRollback, InitArchives
  <1>2. (TypeInv /\ RollbackInv /\ ArchiveInv) /\ [Next]_vars
          => (TypeInv /\ RollbackInv /\ ArchiveInv)'
    BY StepTypes, StepRollback, StepArchives
  <1> QED
    BY <1>1, <1>2, PTL DEF Spec

\* At every moment of an install or uninstall each configuration file and source
\* that differs from what the command found is in its archive as it was found,
\* so that a printer whose installer was killed can be brought back.
THEOREM WrittenIsArchived == Spec => []WritesAreArchived
  <1>1. ASSUME ArchiveInv PROVE WritesAreArchived
    <2> SUFFICES ASSUME run.op \in {"install", "uninstall"}, run.before # NoFiles,
                        NEW p \in (ConfigTree \cup Sources) \ (run.edited \cup hist.touched),
                        disk[p] # run.before[p]
                 PROVE  /\ run.archive \in Archives
                        /\ LET archive == ArchiveOf(run.archive)
                           IN  IF p \in Sources
                               THEN p \in DOMAIN archive.sources /\ run.before[p] = archive.sources[p]
                               ELSE run.before[p] = Archived(archive, p)
      BY DEF WritesAreArchived
    <2>1. OwnArchive /\ run.stage # "track"
      BY <1>1, StageSets DEF ArchiveInv
    <2> QED
      BY <2>1 DEF OwnArchive, HoldsFiles
  <1> QED
    BY <1>1, ArchivesInvariant, PTL

-----------------------------------------------------------------------------
\* Files that agree with a ledger.

\* What somebody else changed only grows, and asks for less.
LEMMA TruthGrows ==
    ASSUME NEW p, NEW c, NEW l, NEW others, NEW more, others \subseteq more,
           TrueOf(p, c, l, others)
    PROVE  TrueOf(p, c, l, more)
  BY DEF TrueOf

LEMMA RecordedPaths ==
    /\ Recorded \subseteq Paths /\ StateFile \in Recorded /\ StateFile \in ConfigTree
    /\ ConfigTree \subseteq Recorded /\ Sources \subseteq Recorded
    /\ TreeFiles \subseteq ConfigTree /\ ConfigFiles \subseteq ConfigTree
    /\ RestartMarker \notin Recorded /\ Extras \cap Recorded = {}
    /\ Recorded = ConfigFiles \cup TreeFiles \cup {StateFile} \cup Sources
  BY PathsAreDistinct DEF Recorded, Paths, ConfigTree

\* Files that all agree with a ledger l have l for their ledger.
LEMMA TruthfulIs ==
    ASSUME NEW d, NEW l, NEW others, \A p \in Recorded : TrueOf(p, d[p], l, others)
    PROVE  d[StateFile] = l /\ Truthful(d, others)
  <1>1. d[StateFile] = l
    BY RecordedPaths DEF TrueOf
  <1> QED
    BY <1>1 DEF Truthful

\* Files that are as they were stay true.
LEMMA SameTruth ==
    ASSUME NEW d, NEW e, NEW others, NEW more, others \subseteq more,
           \A p \in Recorded : e[p] = d[p], Truthful(d, others)
    PROVE  Truthful(e, more)
  BY TruthGrows, RecordedPaths DEF Truthful

LEMMA ArchiveGrows ==
    ASSUME NEW a, NEW others, NEW more, others \subseteq more, TruthfulArchive(a, others)
    PROVE  TruthfulArchive(a, more)
  BY TruthGrows DEF TruthfulArchive

\* An archive of true files is true.
LEMMA ArchiveOfTruth ==
    ASSUME NEW a, NEW others, Truthful(disk, others), DOMAIN a.sources \subseteq Sources,
           \A p \in ConfigTree : Archived(a, p) = disk[p],
           \A s \in DOMAIN a.sources : a.sources[s] = disk[s]
    PROVE  TruthfulArchive(a, others)
  <1>1. ArchivedState(a) = disk[StateFile]
    BY RecordedPaths DEF ArchivedState
  <1> QED
    BY <1>1, RecordedPaths DEF Truthful, TruthfulArchive

\* Files that match an archive of every source are as true as it is.
LEMMA RestoredTruth ==
    ASSUME NEW a, NEW others, TruthfulArchive(a, others), DOMAIN a.sources = Sources,
           \A p \in ConfigTree : disk[p] = Archived(a, p),
           \A s \in Sources : disk[s] = a.sources[s]
    PROVE  Truthful(disk, others)
  <1>1. ArchivedState(a) = disk[StateFile]
    BY RecordedPaths DEF ArchivedState
  <1> QED
    BY <1>1 DEF Truthful, TruthfulArchive, Recorded

LEMMA SettledStages ==
    /\ Settled = {"idle", "reset", "plan", "backup", "track", "resetTree", "resetConfig",
                  "optimize", "activate", "pending", "restarting"}
    /\ Decided = {"backup", "track", "marker", "sources", "extras", "tree", "check", "config",
                  "postflight", "state"}
    /\ ResetStages = {"reset", "resetTree", "resetConfig"}
    /\ Stages = Settled \cup Guarded
  BY StageSets DEF Settled, Decided, ResetStages, Stages
-----------------------------------------------------------------------------
\* One command at a time, and none but a restore while recovery is due.

LEMMA SameCommand ==
    ASSUME TypeInv, Proceed \/ Faults \/ Environment
    PROVE  /\ Finish \/ run'.op = run.op
           /\ Environment => run'.stage = run.stage
           /\ ~Environment => run.stage # "idle"
           /\ sentinel' = sentinel \/ Finish
  <1>0. IsRun(run)
    BY DEF TypeInv, TypeOK
  <1>1. ASSUME NEW s, NEW l, NEW p, Goto(s, l) \/ Wrote(p, s, l) PROVE run'.op = run.op
    BY <1>0, <1>1, ArchiveFields
  <1>2. Raise => Finish \/ run'.op = run.op
    BY <1>0 DEF Raise, Finish, IsRun
  <1>3. ASSUME Reset
        PROVE  (Finish \/ run'.op = run.op) /\ run.stage # "idle" /\ sentinel' = sentinel
    <2>1. run.stage # "idle" /\ sentinel' = sentinel
      BY <1>3 DEF Reset, BackupLegacyConfig, SkipLegacyTree, RemoveLegacyTree, WriteStockConfig, Writing
    <2>2. BackupLegacyConfig => Finish \/ run'.op = run.op
      BY <1>0 DEF BackupLegacyConfig, IsRun
    <2>3. ASSUME NEW f, WriteStockConfig(f) PROVE run'.op = run.op
      BY <1>0, <2>3 DEF WriteStockConfig, Writing, IsRun, IdleRun
    <2> QED
      BY <1>1, <1>3, <2>1, <2>2, <2>3 DEF Reset, SkipLegacyTree, RemoveLegacyTree
  <1>4. ASSUME Prepare
        PROVE  (Finish \/ run'.op = run.op) /\ run.stage # "idle" /\ sentinel' = sentinel
    <2>1. run.stage # "idle" /\ sentinel' = sentinel
      BY <1>4 DEF Prepare, PlanInstall, PlanUninstall, Refuse, CreateBackup, Track
    <2>2. PlanInstall \/ PlanUninstall => run'.op = run.op
      BY <1>0 DEF PlanInstall, PlanUninstall, IsRun
    <2>3. CreateBackup \/ Track => run'.op = run.op
      BY <1>0 DEF CreateBackup, Track, IsRun
    <2> QED
      BY <1>4, <2>1, <2>2, <2>3 DEF Prepare, Refuse
  <1>5. ASSUME Write
        PROVE  (Finish \/ run'.op = run.op) /\ run.stage # "idle" /\ sentinel' = sentinel
    <2>1. run.stage # "idle" /\ sentinel' = sentinel
      BY <1>5 DEF Write, WriteMarker, CheckPreimages, Postflight, WriteState, DeleteState, Commit,
                  Optimize, DeploySource, RestoreSource, InstallExtra, RemoveExtra, MirrorFile,
                  RemoveTreeFile, WriteConfig, Writing
    <2>2. ASSUME WriteMarker \/ \E x \in Extras : InstallExtra(x) \/ RemoveExtra(x)
          PROVE  run'.op = run.op
      BY <1>0, <2>2 DEF WriteMarker, InstallExtra, RemoveExtra, IsRun
    <2> QED
      BY <1>1, <1>2, <1>5, <2>1, <2>2
         DEF Write, CheckPreimages, Postflight, WriteState, DeleteState, Commit, Optimize,
             DeploySource, RestoreSource, MirrorFile, RemoveTreeFile, WriteConfig
  <1>6. ASSUME Restore
        PROVE  (Finish \/ run'.op = run.op) /\ run.stage # "idle" /\ sentinel' = sentinel
    <2>1. run.stage # "idle" /\ sentinel' = sentinel
      BY <1>6 DEF Restore, SwapOut, SwapIn, VerifyRestore, WriteRestoreMarker,
                  RestoreArchivedSource, Writing
    <2> QED
      BY <1>1, <1>2, <1>6, <2>1 DEF Restore, SwapOut, SwapIn, VerifyRestore, WriteRestoreMarker,
         RestoreArchivedSource
  <1>7. ASSUME Activation \/ Rollback
        PROVE  (Finish \/ run'.op = run.op) /\ run.stage # "idle" /\ sentinel' = sentinel
    BY <1>0, <1>1, <1>7 DEF Activation, Activate, RestartPending, AwaitKlipper, Rollback,
                            RollbackDone, RollbackStep, IsRun
  <1>8. ASSUME Faults
        PROVE  /\ Finish \/ run'.op = run.op
               /\ run.stage # "idle"
               /\ sentinel' = sentinel \/ Finish
    BY <1>2, <1>8 DEF Faults, Fail, RollbackFails, InterruptReset, Crash
  <1>9. ASSUME Environment
        PROVE  run'.op = run.op /\ run'.stage = run.stage /\ sentinel' = sentinel
    BY <1>0, <1>9 DEF Environment, EditConfig, EditOwned, Edit, KlipperRestart, StartPrint,
                      EndPrint, IsRun
  <1> QED
    BY <1>3, <1>4, <1>5, <1>6, <1>7, <1>8, <1>9 DEF Proceed

LEMMA StepUnblocked ==
    ASSUME TypeInv, UnblockedInv, Next
    PROVE  UnblockedInv'
  <1>1. ASSUME Commands PROVE UnblockedInv'
    <2>1. ASSUME NEW op \in {"install", "uninstall"}, NEW stage, Start(op, stage), sentinel = 0
          PROVE  UnblockedInv'
      BY <2>1 DEF Start, UnblockedInv, IdleRun
    <2>2. ASSUME ClearSentinel PROVE UnblockedInv'
      BY <2>2 DEF ClearSentinel, UnblockedInv
    <2>3. ASSUME NEW id, StartRestore(id) PROVE UnblockedInv'
      BY <2>3 DEF StartRestore, UnblockedInv, IdleRun
    <2> QED
      BY <1>1, <2>1, <2>2, <2>3 DEF Commands, StartInstall, StartUninstall
  <1>2. ASSUME Finish PROVE UnblockedInv'
    BY <1>2, IdleRunFields DEF Finish, UnblockedInv
  <1>3. ASSUME Proceed \/ Faults \/ Environment PROVE UnblockedInv'
    BY <1>2, <1>3, SameCommand DEF UnblockedInv
  <1> QED
    BY <1>1, <1>3 DEF Next

\* Only an install or an uninstall resets, prepares or writes.
LEMMA NoRestore ==
    ASSUME TypeInv, Reset \/ Prepare \/ Write
    PROVE  run.op # "restore" /\ run.stage \notin {"idle", "rollback"}
  BY DEF TypeInv, StagesOK, RestoreStages, Reset, BackupLegacyConfig, SkipLegacyTree,
         RemoveLegacyTree, WriteStockConfig, Prepare, PlanInstall, PlanUninstall, Refuse,
         CreateBackup, Track, Write, WriteMarker, CheckPreimages, Postflight, WriteState,
         DeleteState, Commit, Optimize, DeploySource, RestoreSource, InstallExtra, RemoveExtra,
         MirrorFile, RemoveTreeFile, WriteConfig, Writing

\* What follows a commit stays after it.
LEMMA ActivationGoes ==
    ASSUME IsRun(run), Activation
    PROVE  Finish \/ run'.stage \in Committed
  <1>1. Activate => Finish \/ run'.stage \in Committed
    BY DEF Activate, IsRun, Committed
  <1>2. RestartPending => Finish \/ run'.stage \in Committed
    BY GotoFields DEF RestartPending, Committed
  <1> QED
    BY <1>1, <1>2 DEF Activation, AwaitKlipper

\* What was ever touched or befell stays so, and only two steps archive.
LEMMA Forward ==
    ASSUME TypeInv, Next
    PROVE  /\ hist.touched \subseteq hist'.touched
           /\ hist.incidents \subseteq hist'.incidents /\ (Calm' => Calm)
           /\ UNCHANGED backups \/ BackupLegacyConfig \/ CreateBackup
           /\ ~Environment => hist'.touched = hist.touched
  <1>0. IsHist(hist)
    BY DEF TypeInv, TypeOK
  <1>1. ASSUME hist' = hist \/ hist' = [hist EXCEPT !.archives = @ + 1]
               \/ hist' = [hist EXCEPT !.runs = @ + 1]
               \/ hist' = [hist EXCEPT !.faults = @ + 1]
        PROVE  hist'.touched = hist.touched /\ hist'.incidents = hist.incidents
    BY <1>0, <1>1 DEF IsHist
  <1>2. ASSUME Commands
        PROVE  UNCHANGED backups /\ (hist' = hist \/ hist' = [hist EXCEPT !.runs = @ + 1])
    BY <1>2 DEF Commands, StartInstall, StartUninstall, Start, ClearSentinel, StartRestore
  <1>3. ASSUME Proceed
        PROVE  /\ UNCHANGED backups \/ BackupLegacyConfig \/ CreateBackup
               /\ hist' = hist \/ hist' = [hist EXCEPT !.archives = @ + 1]
    <2>1. ASSUME Reset \/ Prepare
          PROVE  /\ UNCHANGED backups \/ BackupLegacyConfig \/ CreateBackup
                 /\ hist' = hist \/ hist' = [hist EXCEPT !.archives = @ + 1]
      BY <2>1 DEF Reset, BackupLegacyConfig, SkipLegacyTree, RemoveLegacyTree, WriteStockConfig,
                  Prepare, PlanInstall, PlanUninstall, Refuse, CreateBackup, Track
    <2>2. ASSUME Write PROVE UNCHANGED <<backups, hist>>
      BY <2>2 DEF Write, WriteMarker, CheckPreimages, Postflight, WriteState, DeleteState, Commit,
                  Optimize, DeploySource, RestoreSource, InstallExtra, RemoveExtra, MirrorFile,
                  RemoveTreeFile, WriteConfig
    <2>3. ASSUME Restore \/ Activation \/ Rollback PROVE UNCHANGED <<backups, hist>>
      BY <2>3 DEF Restore, SwapOut, SwapIn, VerifyRestore, WriteRestoreMarker,
                  RestoreArchivedSource, Activation, Activate, RestartPending, AwaitKlipper,
                  Rollback, RollbackDone, RollbackStep
    <2> QED
      BY <1>3, <2>1, <2>2, <2>3 DEF Proceed
  <1>4. ASSUME Faults
        PROVE  /\ UNCHANGED backups /\ hist'.touched = hist.touched
               /\ hist.incidents \subseteq hist'.incidents
    <2>1. ASSUME RollbackFails
          PROVE  /\ UNCHANGED backups /\ hist'.touched = hist.touched
                 /\ hist.incidents \subseteq hist'.incidents
      BY <1>0, <2>1, RollbackFailsNotes DEF RollbackFails
    <2>2. ASSUME Fail \/ InterruptReset \/ Crash
          PROVE  /\ UNCHANGED backups /\ hist'.touched = hist.touched
                 /\ hist.incidents \subseteq hist'.incidents
      <3>1. Fail => hist' = [hist EXCEPT !.faults = @ + 1]
        BY DEF Fail, Fault
      <3>2. InterruptReset \/ Crash
               => hist'.touched = hist.touched /\ hist.incidents \subseteq hist'.incidents
        BY <1>0 DEF InterruptReset, Crash, IsHist
      <3> QED
        BY <1>1, <2>2, <3>1, <3>2 DEF Fail, InterruptReset, Crash
    <2> QED
      BY <1>4, <2>1, <2>2 DEF Faults
  <1>5. ASSUME Environment
        PROVE  /\ UNCHANGED backups /\ hist.touched \subseteq hist'.touched
               /\ hist.incidents \subseteq hist'.incidents
    <2>1. ASSUME NEW paths, NEW items, Edit(paths, items)
          PROVE  /\ UNCHANGED backups /\ hist.touched \subseteq hist'.touched
                 /\ hist'.incidents = hist.incidents
      BY <1>0, <2>1 DEF Edit, IsHist
    <2>2. ASSUME KlipperRestart
          PROVE  /\ UNCHANGED backups /\ hist'.touched = hist.touched
                 /\ hist.incidents \subseteq hist'.incidents
      BY <1>0, <2>2 DEF KlipperRestart, IsHist
    <2>3. ASSUME StartPrint \/ EndPrint
          PROVE  /\ UNCHANGED backups /\ hist'.touched = hist.touched
                 /\ hist'.incidents = hist.incidents
      BY <1>0, <2>3 DEF StartPrint, EndPrint, IsHist
    <2> QED
      BY <1>5, <2>1, <2>2, <2>3 DEF Environment, EditConfig, EditOwned
  <1> QED
    BY <1>1, <1>2, <1>3, <1>4, <1>5 DEF Next, Calm

\* A restore notes its write at the start, and no step takes that back.
LEMMA StepNoted ==
    ASSUME TypeInv, NotedInv, Next
    PROVE  NotedInv'
  <1> USE StageSets
  <1>0. IsRun(run)
    BY DEF TypeInv, TypeOK
  <1>1. ASSUME Finish PROVE NotedInv'
    BY <1>1, IdleRunFields DEF Finish, NotedInv
  <1>2. ASSUME Commands PROVE NotedInv'
    <2>1. ASSUME NEW op \in {"install", "uninstall"}, NEW stage, Start(op, stage) PROVE NotedInv'
      BY <2>1 DEF Start, NotedInv, IdleRun
    <2>2. ASSUME ClearSentinel PROVE NotedInv'
      BY <2>2 DEF ClearSentinel, NotedInv
    <2>3. ASSUME NEW id, StartRestore(id) PROVE NotedInv'
      BY <2>3, RestoreIsFresh DEF NotedInv
    <2> QED
      BY <1>2, <2>1, <2>2, <2>3 DEF Commands, StartInstall, StartUninstall
  <1>3. ASSUME Reset \/ Prepare \/ Write PROVE NotedInv'
    BY <1>1, <1>3, NoRestore, SameCommand DEF NotedInv, Proceed
  <1>4. ASSUME NEW s, NEW l, NEW p, Goto(s, l) \/ Wrote(p, s, l), run.stage \in Guarded
        PROVE  NotedInv'
    <2>1. CASE Goto(s, l)
      BY <1>0, <1>4, <2>1, GotoFields DEF NotedInv
    <2>2. CASE Wrote(p, s, l)
      <3> DEFINE j == NoteWrite(run.journal)
      <3>1. j.writes
        BY <1>0 DEF NoteWrite, IsRun, IsJournal
      <3>2. run'.journal = j
        BY <1>0, <2>2 DEF Wrote, IsRun
      <3> QED
        BY <3>1, <3>2 DEF NotedInv
    <2> QED
      BY <1>4, <2>1, <2>2
  <1>5. ASSUME Raise PROVE NotedInv'
    <2>1. run.journal.writes => run'.journal.writes
      BY <1>0, <1>5 DEF Raise, IsRun
    <2>2. CASE run.journal.writes
      BY <2>1, <2>2 DEF NotedInv
    <2>3. CASE ~run.journal.writes
      BY <1>1, <1>5, <2>3 DEF Raise, Finish
    <2> QED
      BY <2>2, <2>3
  <1>6. ASSUME Restore PROVE NotedInv'
    BY <1>4, <1>5, <1>6 DEF Restore, SwapOut, SwapIn, VerifyRestore, WriteRestoreMarker,
         RestoreArchivedSource, Writing
  <1>7. ASSUME Activation PROVE NotedInv'
    <2>1. Finish \/ run'.stage \in Committed
      BY <1>0, <1>7, ActivationGoes
    <2> QED
      BY <1>1, <2>1 DEF NotedInv
  <1>8. ASSUME Rollback PROVE NotedInv'
    <2>1. ASSUME NEW p, RollbackStep(p) PROVE NotedInv'
      <3>1. run'.op = run.op /\ run'.journal.writes = run.journal.writes /\ run.stage = "rollback"
        BY <1>0, <2>1 DEF RollbackStep, Restored, IsRun, IsJournal
      <3> QED
        BY <3>1 DEF NotedInv
    <2> QED
      BY <1>1, <1>8, <2>1 DEF Rollback, RollbackDone
  <1>9. ASSUME Faults PROVE NotedInv'
    BY <1>1, <1>5, <1>9 DEF Faults, Fail, RollbackFails, InterruptReset, Crash
  <1>10. ASSUME Environment PROVE NotedInv'
    <2>1. /\ run'.op = run.op /\ run'.stage = run.stage
          /\ run'.journal = run.journal
      BY <1>0, <1>10 DEF Environment, EditConfig, EditOwned, Edit, KlipperRestart, StartPrint,
                        EndPrint, IsRun
    <2> QED
      BY <2>1 DEF NotedInv
  <1> QED
    BY <1>2, <1>3, <1>6, <1>7, <1>8, <1>9, <1>10 DEF Next, Proceed

\* No other step enters the legacy reset.
LEMMA NoReset ==
    ASSUME TypeInv, Prepare \/ Write \/ Restore \/ Activation \/ Rollback \/ Faults
    PROVE  run'.stage \notin ResetStages
  <1> USE DEF ResetStages
  <1>0. IsRun(run)
    BY DEF TypeInv, TypeOK
  <1>1. ASSUME NEW s, NEW l, NEW p, Goto(s, l) \/ Wrote(p, s, l)
        PROVE  run'.stage \in {run.stage, s}
    BY <1>0, <1>1, ArchiveFields
  <1>2. Finish \/ Raise => run'.stage \notin ResetStages
    BY <1>0, IdleRunFields DEF Finish, Raise, IsRun
  <1>3. ASSUME Prepare PROVE run'.stage \notin ResetStages
    <2>1. PlanInstall \/ PlanUninstall \/ CreateBackup => run'.stage \in {"backup", "track"}
      BY <1>0 DEF PlanInstall, PlanUninstall, CreateBackup, IsRun
    <2>2. Track => run'.stage \in {"marker", "extras", "check"}
      BY <1>0 DEF Track, IsRun
    <2> QED
      BY <1>2, <1>3, <2>1, <2>2 DEF Prepare, Refuse
  <1>4. ASSUME Write PROVE run'.stage \notin ResetStages
    <2>1. run.stage \notin ResetStages
      BY <1>4 DEF Write, WriteMarker, CheckPreimages, Postflight, WriteState, DeleteState, Commit,
                  Optimize, DeploySource, RestoreSource, InstallExtra, RemoveExtra, MirrorFile,
                  RemoveTreeFile, WriteConfig, Writing
    <2>2. ASSUME WriteMarker \/ \E x \in Extras : InstallExtra(x) \/ RemoveExtra(x)
          PROVE  run'.stage \in {"sources", "tree", run.stage}
      BY <1>0, <2>2 DEF WriteMarker, InstallExtra, RemoveExtra, IsRun
    <2>3. ASSUME WriteState \/ DeleteState \/ Commit \/ Optimize \/ CheckPreimages \/ Postflight
          PROVE  run'.stage \notin ResetStages
      <3>1. CASE WriteState \/ DeleteState
        <4>1. Wrote(StateFile, "state", {})
          BY <3>1 DEF WriteState, DeleteState
        <4>2. run'.stage \in {run.stage, "state"}
          BY <1>1, <4>1
        <4> QED
          BY <2>1, <4>2
      <3>2. CASE Commit \/ Optimize
        BY <1>0, <3>2, GotoFields DEF Commit, Optimize
      <3>3. CASE CheckPreimages \/ Postflight
        BY <1>0, <1>2, <3>3, AfterConfigStage, GotoFields DEF CheckPreimages, Postflight
      <3> QED
        BY <2>3, <3>1, <3>2, <3>3
    <2>4. ASSUME NEW p, DeploySource(p) \/ RestoreSource(p) \/ MirrorFile(p)
                        \/ RemoveTreeFile(p) \/ WriteConfig(p)
          PROVE  run'.stage \notin ResetStages
      BY <1>1, <1>2, <2>1, <2>4, AfterConfigStage, SMTT(30)
         DEF DeploySource, RestoreSource, MirrorFile, RemoveTreeFile, WriteConfig
    <2> QED
      BY <1>4, <2>1, <2>2, <2>3, <2>4 DEF Write
  <1>5. ASSUME Restore PROVE run'.stage \notin ResetStages
    <2>1. run.stage \notin ResetStages
      BY <1>5 DEF Restore, SwapOut, SwapIn, VerifyRestore, WriteRestoreMarker,
                  RestoreArchivedSource, Writing
    <2> QED
      BY <1>1, <1>2, <1>5, <2>1 DEF Restore, SwapOut, SwapIn, VerifyRestore, WriteRestoreMarker,
         RestoreArchivedSource
  <1>6. ASSUME Activation \/ Rollback PROVE run'.stage \notin ResetStages
    <2>1. ASSUME Activate PROVE Finish \/ run'.stage = "pending"
      BY <1>0, <2>1 DEF Activate, IsRun
    <2>2. ASSUME RestartPending \/ AwaitKlipper PROVE Finish \/ Goto("restarting", {})
      BY <2>2 DEF RestartPending, AwaitKlipper
    <2>3. ASSUME Rollback PROVE Finish \/ run'.stage = "rollback"
      BY <1>0, <2>3 DEF Rollback, RollbackDone, RollbackStep, IsRun
    <2> QED
      BY <1>0, <1>2, <1>6, <2>1, <2>2, <2>3, GotoFields DEF Activation
  <1>7. ASSUME Faults PROVE run'.stage \notin ResetStages
    BY <1>2, <1>7 DEF Faults, Fail, RollbackFails, InterruptReset, Crash
  <1> QED
    BY <1>3, <1>4, <1>5, <1>6, <1>7

\* A printer whose files agree with no ledger looks like a legacy installation
\* only with an include line somebody wrote.
LEMMA LegacyIsTouched ==
    ASSUME Truthful(disk, hist.touched), LegacyManualInstall(disk)
    PROVE  disk[StateFile] = Absent /\ IncludeLine \in hist.touched
  <1>1. disk[StateFile] = Absent
    BY DEF LegacyManualInstall
  <1>2. \A t \in TreeFiles : disk[t] = Absent
    BY <1>1, RecordedPaths DEF Truthful, TrueOf
  <1>3. ItemValue(disk, IncludeLine) = "desired"
    BY <1>2 DEF LegacyManualInstall
  <1>4. FileOf[IncludeLine] \in ConfigFiles /\ IncludeLine \in ItemsOf(FileOf[IncludeLine])
    BY ItemsAreDistinct DEF Items, ItemsOf
  <1>5. IncludeLine \notin hist.touched => ItemValue(disk, IncludeLine) = "expected"
    BY <1>1, <1>4, RecordedPaths DEF Truthful, TrueOf, ItemValue
  <1> QED
    BY <1>1, <1>3, <1>5

LEMMA StepReset ==
    ASSUME TypeInv, ResetInv, SettledInv, Next
    PROVE  ResetInv'
  <1> USE SettledStages
  <1>0. WellFormed(disk) /\ IsRun(run)
    BY DEF TypeInv, TypeOK
  <1>1. hist.touched \subseteq hist'.touched /\ (Calm' => Calm)
    BY Forward
  <1>2. ASSUME run.stage \in ResetStages, disk'[StateFile] = disk[StateFile] PROVE ResetInv'
    BY <1>1, <1>2 DEF ResetInv
  <1>3. ASSUME run'.stage \notin ResetStages PROVE ResetInv'
    BY <1>3 DEF ResetInv
  <1>4. ASSUME Commands PROVE ResetInv'
    <2>1. CASE StartInstall
      <3>1. UNCHANGED disk /\ run'.stage = IF LegacyManualInstall(disk) THEN "reset" ELSE "plan"
        BY <2>1 DEF StartInstall, Start, IdleRun
      <3>2. Calm => Truthful(disk, hist.touched)
        BY <2>1 DEF StartInstall, Start, SettledInv, Sound
      <3>3. LegacyManualInstall(disk) => disk[StateFile] = Absent
        BY DEF LegacyManualInstall
      <3> QED
        BY <1>1, <3>1, <3>2, <3>3, LegacyIsTouched DEF ResetInv
    <2>2. CASE ~StartInstall
      <3>1. run'.stage \in {"idle", "plan", "swapOut"}
        BY <1>4, <2>2 DEF Commands, StartUninstall, Start, ClearSentinel, StartRestore, IdleRun
      <3> QED
        BY <1>3, <3>1
    <2> QED
      BY <2>1, <2>2
  <1>5. ASSUME Reset PROVE ResetInv'
    <2>1. run.stage \in ResetStages
      BY <1>5 DEF Reset, BackupLegacyConfig, SkipLegacyTree, RemoveLegacyTree, WriteStockConfig, Writing
    <2>2. disk'[StateFile] = disk[StateFile]
      BY <1>0, <1>5, PathsAreDistinct
         DEF Reset, BackupLegacyConfig, SkipLegacyTree, RemoveLegacyTree, WriteStockConfig,
             WellFormed, Paths, ConfigTree
    <2> QED
      BY <1>2, <2>1, <2>2
  <1>6. ASSUME Environment PROVE ResetInv'
    <2>1. run'.stage = run.stage
      BY <1>6, SameCommand
    <2>2. disk'[StateFile] = disk[StateFile]
      <3>1. ASSUME NEW i \in Items, NEW v, EditConfig(i, v) PROVE disk'[StateFile] = disk[StateFile]
        BY <1>0, <3>1, ItemsAreDistinct, PathsAreDistinct DEF EditConfig, WellFormed
      <3>2. ASSUME NEW p \in TreeFiles \cup Extras \cup Sources, EditOwned(p)
            PROVE  disk'[StateFile] = disk[StateFile]
        BY <1>0, <3>2, PathsAreDistinct DEF EditOwned, WellFormed
      <3> QED
        BY <1>6, <3>1, <3>2 DEF Environment, KlipperRestart, StartPrint, EndPrint
    <2> QED
      BY <1>2, <1>3, <2>1, <2>2
  <1> QED
    BY <1>3, <1>4, <1>5, <1>6, NoReset DEF Next, Proceed

\* What is archived is on the disk while the ledger is true of it.
LEMMA StepArchivesTrue ==
    ASSUME TypeInv, UnblockedInv, ArchivesInv, SettledInv, Next
    PROVE  ArchivesInv'
  <1> SUFFICES ASSUME Calm', NEW a \in backups' PROVE TruthfulArchive(a, hist'.touched)
    BY DEF ArchivesInv
  <1>1. hist.touched \subseteq hist'.touched /\ Calm
    BY Forward
  <1>2. \A b \in backups : TruthfulArchive(b, hist'.touched)
    BY <1>1, ArchiveGrows DEF ArchivesInv
  <1>3. ASSUME NEW srcs \in SUBSET Sources, a = Archive(disk, srcs),
               run.stage \in {"reset", "backup"}
        PROVE  TruthfulArchive(a, hist'.touched)
    <2>1. run.op # "restore"
      BY <1>3 DEF TypeInv, StagesOK, RestoreStages
    <2>2. Truthful(disk, hist.touched)
      BY <1>1, <1>3, <2>1, SettledStages DEF SettledInv, Sound, UnblockedInv
    <2>3. /\ DOMAIN a.sources = srcs
          /\ a.config = [p \in {q \in ConfigTree : disk[q] # Absent} |-> disk[p]]
          /\ \A s \in srcs : a.sources[s] = disk[s]
      BY <1>3 DEF Archive
    <2>4. \A p \in ConfigTree : Archived(a, p) = disk[p]
      BY <2>3 DEF Archived
    <2> QED
      BY <1>1, <2>2, <2>3, <2>4, ArchiveOfTruth, ArchiveGrows
  <1>4. CASE BackupLegacyConfig
    BY <1>2, <1>3, <1>4 DEF BackupLegacyConfig
  <1>5. CASE CreateBackup
    <2> DEFINE srcs == IF run.op = "install" THEN Sources ELSE run.retained
    <2>1. srcs \in SUBSET Sources
      BY DEF TypeInv, TypeOK, IsRun
    <2>2. a \in backups \/ a = Archive(disk, srcs)
      BY <1>5 DEF CreateBackup, Pruned
    <2> QED
      BY <1>2, <1>3, <1>5, <2>1, <2>2 DEF CreateBackup
  <1> QED
    BY <1>2, <1>4, <1>5, Forward
-----------------------------------------------------------------------------
\* Where the ledger is true: general steps.

\* A step to a stage without a journal to roll back.
LEMMA SettledTruth ==
    ASSUME run'.stage \in Unguarded \cup Committed,
           Sound' => Truthful(disk', hist'.touched), DecidedInv'
    PROVE  LedgerInv'
  BY StageSets DEF LedgerInv, SettledInv, KeptInv, NextInv, RestoredInv

LEMMA FinishTruth ==
    ASSUME Finish, Sound' => Truthful(disk', hist'.touched)
    PROVE  LedgerInv'
  <1>1. run'.stage = "idle"
    BY IdleRunFields DEF Finish
  <1>2. DecidedInv'
    BY <1>1, SettledStages DEF DecidedInv
  <1> QED
    BY <1>1, <1>2, StageSets, SettledTruth

\* A step of a writing stage that changes tracked paths only and tracks more of
\* them as it finds them.
LEMMA GuardedTruth ==
    ASSUME RollbackInv, LedgerInv,
           run.stage \in Guarded \ {"rollback"}, run'.stage \in Guarded \ {"rollback"},
           UNCHANGED <<sentinel, hist>>,
           run'.op = run.op, run'.before = run.before, run'.kept = run.kept,
           run'.retained = run.retained,
           NEW ps,
           Tracked(run'.journal) = Tracked(run.journal) \cup ps,
           \A p \in Tracked(run.journal) : run'.journal.snap[p] = run.journal.snap[p],
           \A p \in ps \ Tracked(run.journal) : run'.journal.snap[p] = disk[p],
           run'.journal.todo = run.journal.todo \cup (ps \ Tracked(run.journal)),
           \A p \in Recorded : disk'[p] # disk[p] => p \in Tracked(run.journal) \cup ps,
           ~run'.journal.writes =>
              ~run.journal.writes /\ \A p \in Recorded : disk'[p] = disk[p],
           Sound /\ run'.stage \in Settled => Truthful(disk', hist.touched),
           run.op # "restore" /\ run'.stage \in Decided => run.stage \in Decided,
           NextInv', RestoredInv'
    PROVE  LedgerInv'
  <1>1. run.journal.todo = Tracked(run.journal) /\ (Sound' <=> Sound)
        /\ hist'.touched = hist.touched
    BY DEF RollbackInv, Sound, Calm
  <1>2. SettledInv'
    BY <1>1 DEF SettledInv
  <1>3. DecidedInv'
    BY <1>1 DEF DecidedInv, LedgerInv
  <1>4. KeptInv'
    <2> SUFFICES ASSUME Sound
                 PROVE  /\ \A p \in Recorded :
                            /\ p \in Tracked(run'.journal) =>
                                  TrueOf(p, run'.journal.snap[p], run.before[StateFile], hist.touched)
                            /\ p \notin run'.journal.todo =>
                                  TrueOf(p, disk'[p], run.before[StateFile], hist.touched)
                        /\ ~run'.journal.writes => Truthful(disk', hist.touched)
      BY <1>1 DEF KeptInv
    <2>1. \A p \in Recorded :
             /\ p \in Tracked(run.journal) =>
                   TrueOf(p, run.journal.snap[p], run.before[StateFile], hist.touched)
             /\ p \notin Tracked(run.journal) =>
                   TrueOf(p, disk[p], run.before[StateFile], hist.touched)
      BY <1>1 DEF KeptInv, LedgerInv
    <2>2. ~run.journal.writes => Truthful(disk, hist.touched)
      BY DEF KeptInv, LedgerInv
    <2>3. ASSUME NEW p \in Recorded
          PROVE  /\ p \in Tracked(run'.journal) =>
                       TrueOf(p, run'.journal.snap[p], run.before[StateFile], hist.touched)
                 /\ p \notin run'.journal.todo =>
                       TrueOf(p, disk'[p], run.before[StateFile], hist.touched)
      BY <1>1, <2>1, <2>3
    <2>4. ~run'.journal.writes => Truthful(disk', hist.touched)
      BY <2>2, SameTruth
    <2> QED
      BY <2>3, <2>4
  <1> QED
    BY <1>2, <1>3, <1>4 DEF LedgerInv

\* The same, for a step that tracks nothing.
LEMMA UntrackingTruth ==
    ASSUME RollbackInv, LedgerInv,
           run.stage \in Guarded \ {"rollback"}, run'.stage \in Guarded \ {"rollback"},
           UNCHANGED <<sentinel, hist>>,
           run'.op = run.op, run'.before = run.before, run'.kept = run.kept,
           run'.retained = run.retained,
           run'.journal.snap = run.journal.snap, run'.journal.todo = run.journal.todo,
           \A p \in Recorded : disk'[p] # disk[p] => p \in Tracked(run.journal),
           ~run'.journal.writes =>
              ~run.journal.writes /\ \A p \in Recorded : disk'[p] = disk[p],
           Sound /\ run'.stage \in Settled => Truthful(disk', hist.touched),
           run.op # "restore" /\ run'.stage \in Decided => run.stage \in Decided,
           NextInv', RestoredInv'
    PROVE  LedgerInv'
  <1>1. Tracked(run'.journal) = Tracked(run.journal) \cup {}
    BY DEF Tracked
  <1> QED
    BY <1>1, GuardedTruth

LEMMA TruthFields ==
    ASSUME NEW s, NEW l, NEW p, IsRun(run), Goto(s, l) \/ Wrote(p, s, l)
    PROVE  /\ run'.op = run.op /\ run'.before = run.before /\ run'.kept = run.kept
           /\ run'.retained = run.retained /\ run'.archive = run.archive
           /\ run'.stage \in {run.stage, s}
           /\ run'.journal.snap = run.journal.snap /\ run'.journal.todo = run.journal.todo
           /\ run.journal.writes => run'.journal.writes
           /\ Wrote(p, s, l) => run'.journal.writes
  <1>1. ASSUME Goto(s, l)
        PROVE  /\ run'.op = run.op /\ run'.before = run.before /\ run'.kept = run.kept
               /\ run'.retained = run.retained /\ run'.archive = run.archive
               /\ run'.stage = s /\ run'.journal = run.journal
    BY <1>1 DEF Goto, IsRun
  <1>2. ASSUME Wrote(p, s, l)
        PROVE  /\ run'.op = run.op /\ run'.before = run.before /\ run'.kept = run.kept
               /\ run'.retained = run.retained /\ run'.archive = run.archive
               /\ run'.stage \in {run.stage, s}
               /\ run'.journal.snap = run.journal.snap /\ run'.journal.todo = run.journal.todo
               /\ run'.journal.writes
    <2> DEFINE j == NoteWrite(run.journal)
               left == IF run.left = {p} THEN l ELSE run.left \ {p}
               stage == IF run.left = {p} THEN s ELSE run.stage
    <2>1. run' = [run EXCEPT !.journal = j, !.left = left, !.stage = stage]
      BY <1>2 DEF Wrote, IsRun
    <2>2. j.snap = run.journal.snap /\ j.todo = run.journal.todo /\ j.writes
      BY DEF NoteWrite, IsJournal, IsRun
    <2>3. stage \in {run.stage, s}
      OBVIOUS
    <2> HIDE DEF j, left, stage
    <2> QED
      BY <2>1, <2>2, <2>3 DEF IsRun
  <1> QED
    BY <1>1, <1>2

\* A command reaches the last of its stages with the ledger still to be written,
\* and leaves nothing to write there but with the ledger on the disk.
LEMMA StepWritten ==
    ASSUME TypeInv, WrittenInv, Next
    PROVE  WrittenInv'
  <1>0. IsRun(run) /\ WellFormed(disk)
    BY DEF TypeInv, TypeOK
  <1>1. ASSUME run'.stage # "state" PROVE WrittenInv'
    BY <1>1 DEF WrittenInv
  <1>2. ASSUME NEW s, NEW l, NEW p, Goto(s, l) \/ Wrote(p, s, l)
        PROVE  run'.stage \in {run.stage, s}
    BY <1>0, <1>2, ArchiveFields
  <1>3. Finish \/ Raise => run'.stage # "state"
    BY <1>0, IdleRunFields DEF Finish, Raise, IsRun
  <1>4. ASSUME Commands PROVE WrittenInv'
    <2>1. Commands => UNCHANGED <<disk, run>> \/ run'.stage \in {"reset", "plan", "swapOut"}
      BY DEF Commands, StartInstall, StartUninstall, Start, StartRestore, ClearSentinel, IdleRun
    <2> QED
      BY <1>1, <1>4, <2>1 DEF WrittenInv, NextLedger
  <1>5. ASSUME Reset PROVE WrittenInv'
    <2>1. BackupLegacyConfig => run'.stage # "state"
      BY <1>0, <1>3 DEF BackupLegacyConfig, IsRun
    <2>2. ASSUME NEW f, WriteStockConfig(f) PROVE run'.stage # "state"
      BY <1>0, <2>2 DEF WriteStockConfig, Writing, IsRun, IdleRun
    <2>3. ASSUME NEW t, RemoveLegacyTree(t) PROVE run'.stage # "state"
      BY <1>2, <2>3 DEF RemoveLegacyTree, Writing
    <2>4. SkipLegacyTree => run'.stage # "state"
      BY <1>0, GotoFields DEF SkipLegacyTree
    <2> QED
      BY <1>1, <1>5, <2>1, <2>2, <2>3, <2>4 DEF Reset
  <1>6. ASSUME Prepare PROVE WrittenInv'
    <2>1. PlanInstall \/ PlanUninstall \/ CreateBackup => run'.stage \in {"backup", "track"}
      BY <1>0 DEF PlanInstall, PlanUninstall, CreateBackup, IsRun
    <2>2. Track => run'.stage \in {"marker", "extras", "check"}
      BY <1>0 DEF Track, IsRun
    <2> QED
      BY <1>1, <1>3, <1>6, <2>1, <2>2 DEF Prepare, Refuse
  <1>7. ASSUME Write PROVE WrittenInv'
    <2>1. ASSUME WriteMarker \/ \E x \in Extras : InstallExtra(x) \/ RemoveExtra(x)
          PROVE  run'.stage # "state"
      BY <1>0, <2>1 DEF WriteMarker, InstallExtra, RemoveExtra, Writing, IsRun
    <2>2. ASSUME NEW p, DeploySource(p) \/ RestoreSource(p) \/ MirrorFile(p)
                        \/ RemoveTreeFile(p) \/ WriteConfig(p)
          PROVE  run'.stage # "state"
      <3>1. CASE DeploySource(p)
        BY <1>2, <3>1 DEF DeploySource, Writing
      <3>2. CASE RestoreSource(p)
        BY <1>2, <1>3, <3>2 DEF RestoreSource, Writing
      <3>3. CASE MirrorFile(p)
        <4>1. CASE Wrote(p, "check", {})
          BY <1>2, <3>3, <4>1 DEF MirrorFile, Writing
        <4>2. CASE Goto(IF run.left = {p} THEN "check" ELSE "tree", run.left \ {p})
          BY <1>0, <4>2, GotoFields
        <4> QED
          BY <3>3, <4>1, <4>2 DEF MirrorFile
      <3>4. CASE RemoveTreeFile(p)
        BY <1>2, <3>4 DEF RemoveTreeFile, Writing
      <3>5. CASE WriteConfig(p)
        BY <1>2, <3>5, AfterConfigStage DEF WriteConfig
      <3> QED
        BY <2>2, <3>1, <3>2, <3>3, <3>4, <3>5
    <2>3. Commit \/ Optimize \/ CheckPreimages => run'.stage # "state"
      BY <1>0, <1>3, AfterConfigStage, GotoFields DEF Commit, Optimize, CheckPreimages
    <2>4. ASSUME Postflight PROVE WrittenInv'
      <3>1. CASE Goto("state", {StateFile})
        BY <1>0, <3>1, GotoFields DEF WrittenInv
      <3>2. CASE Raise
        BY <1>1, <1>3, <3>2
      <3> QED
        BY <2>4, <3>1, <3>2 DEF Postflight
    <2>5. ASSUME WriteState \/ DeleteState PROVE WrittenInv'
      <3>1. disk'[StateFile] = NextLedger /\ Wrote(StateFile, "state", {})
        BY <1>0, <2>5, StagesAndPaths DEF WriteState, DeleteState, Writing, NextLedger, WellFormed
      <3>2. run'.op = run.op /\ run'.retained = run.retained
        BY <1>0, <3>1, TruthFields
      <3> QED
        BY <3>1, <3>2 DEF WrittenInv, NextLedger
    <2> QED
      BY <1>1, <1>7, <2>1, <2>2, <2>3, <2>4, <2>5 DEF Write
  <1>8. ASSUME Restore PROVE WrittenInv'
    <2>1. SwapOut \/ SwapIn \/ VerifyRestore \/ WriteRestoreMarker => run'.stage # "state"
      BY <1>0, <1>3, GotoFields DEF SwapOut, SwapIn, VerifyRestore, WriteRestoreMarker
    <2>2. ASSUME NEW s, RestoreArchivedSource(s) PROVE run'.stage # "state"
      BY <1>2, <2>2 DEF RestoreArchivedSource, Writing
    <2> QED
      BY <1>1, <1>8, <2>1, <2>2 DEF Restore
  <1>9. ASSUME Activation PROVE WrittenInv'
    BY <1>0, <1>1, <1>3, <1>9, ActivationGoes, StageSets
  <1>10. ASSUME Rollback PROVE WrittenInv'
    <2>1. ASSUME NEW p, RollbackStep(p) PROVE run'.stage = "rollback"
      BY <1>0, <2>1 DEF RollbackStep, IsRun
    <2> QED
      BY <1>1, <1>3, <1>10, <2>1 DEF Rollback, RollbackDone
  <1>11. ASSUME Faults PROVE WrittenInv'
    BY <1>1, <1>3, <1>11 DEF Faults, Fail, RollbackFails, InterruptReset, Crash
  <1>12. ASSUME Environment PROVE WrittenInv'
    <2>1. /\ run'.stage = run.stage /\ run'.left = run.left /\ run'.op = run.op
          /\ run'.retained = run.retained
      BY <1>0, <1>12 DEF Environment, EditConfig, EditOwned, Edit, KlipperRestart, StartPrint,
                         EndPrint, IsRun
    <2>2. disk'[StateFile] = disk[StateFile]
      <3>1. ASSUME NEW i \in Items, NEW v, EditConfig(i, v) PROVE disk'[StateFile] = disk[StateFile]
        <4>1. FileOf[i] # StateFile
          BY ItemsAreDistinct, PathsAreDistinct
        <4> QED
          BY <1>0, <3>1, <4>1, StagesAndPaths DEF EditConfig, WellFormed
      <3>2. ASSUME NEW p \in TreeFiles \cup Extras \cup Sources, EditOwned(p)
            PROVE  disk'[StateFile] = disk[StateFile]
        <4>1. p # StateFile
          BY PathsAreDistinct
        <4> QED
          BY <1>0, <3>2, <4>1, StagesAndPaths DEF EditOwned, WellFormed
      <3> QED
        BY <1>12, <3>1, <3>2 DEF Environment, KlipperRestart, StartPrint, EndPrint
    <2> QED
      BY <2>1, <2>2 DEF WrittenInv, NextLedger
  <1> QED
    BY <1>4, <1>5, <1>6, <1>7, <1>8, <1>9, <1>10, <1>11, <1>12 DEF Next, Proceed

\* A step of an install or uninstall between its first write and postflight.
LEMMA GoesTruth ==
    ASSUME TypeInv, RollbackInv, LedgerInv, NEW s, NEW l, NEW p,
           \/ Goto(s, l) /\ \A q \in Recorded : disk'[q] = disk[q]
           \/ Wrote(p, s, l),
           UNCHANGED <<sentinel, hist>>, run.op # "restore",
           run.stage \in Guarded \cap Decided, s \in (Guarded \cap Decided) \ {"state"},
           run.stage # "state",
           \A q \in Recorded : disk'[q] # disk[q] => q \in Tracked(run.journal)
    PROVE  LedgerInv'
  <1>1. IsRun(run)
    BY DEF TypeInv, TypeOK
  <1>2. /\ run'.op = run.op /\ run'.before = run.before /\ run'.kept = run.kept
        /\ run'.retained = run.retained /\ run'.archive = run.archive
        /\ run'.stage \in {run.stage, s}
        /\ run'.journal.snap = run.journal.snap /\ run'.journal.todo = run.journal.todo
        /\ run.journal.writes => run'.journal.writes
        /\ Wrote(p, s, l) => run'.journal.writes
    BY <1>1, TruthFields
  <1>3. NextInv' /\ RestoredInv'
    BY <1>2 DEF NextInv, RestoredInv
  <1> QED
    BY <1>2, <1>3, SettledStages, StageSets, UntrackingTruth

\* An exception keeps what a rollback needs, or ends a command that wrote
\* nothing.
LEMMA RaiseTruth ==
    ASSUME TypeInv, RollbackInv, LedgerInv, Raise, UNCHANGED <<disk, sentinel>>,
           hist'.touched = hist.touched, hist'.incidents = hist.incidents,
           run.stage \notin Committed \cup {"rollback"}
    PROVE  LedgerInv'
  <1>0. IsRun(run) /\ (Sound' <=> Sound)
    BY DEF TypeInv, TypeOK, Sound, Calm
  <1>1. CASE ~run.journal.writes
    <2>1. Sound => Truthful(disk, hist.touched)
      BY <1>0, <1>1, SettledStages DEF LedgerInv, SettledInv, KeptInv, IsRun
    <2> QED
      BY <1>0, <1>1, <2>1, FinishTruth DEF Raise, Finish
  <1>2. CASE run.journal.writes
    <2>1. run.stage \in Guarded
      BY <1>0, <1>2 DEF RollbackInv, IsRun, Guarded
    <2>2. /\ run'.stage = "rollback" /\ run'.journal = run.journal /\ run'.before = run.before
          /\ run'.op = run.op
      BY <1>0, <1>2 DEF Raise, IsRun
    <2>3. KeptInv'
      BY <1>0, <2>1, <2>2 DEF LedgerInv, KeptInv
    <2> QED
      BY <2>2, <2>3, SettledStages DEF LedgerInv, SettledInv, DecidedInv, NextInv, RestoredInv
  <1> QED
    BY <1>1, <1>2
-----------------------------------------------------------------------------
\* Where the ledger is true: the steps.

LEMMA CommandTruth ==
    ASSUME TypeInv, RollbackInv, ArchiveInv, TruthInv, Commands
    PROVE  LedgerInv'
  <1>0. WellFormed(disk) /\ IsHist(hist) /\ LedgerInv
    BY DEF TypeInv, TypeOK, TruthInv
  <1>1. ASSUME NEW op, NEW stage \in {"plan", "reset"}, Start(op, stage) PROVE LedgerInv'
    <2>1. run'.stage = stage /\ run.stage = "idle" /\ UNCHANGED <<disk, sentinel>>
      BY <1>1 DEF Start, IdleRun
    <2>2. hist'.touched = hist.touched /\ hist'.incidents = hist.incidents
      BY <1>0, <1>1 DEF Start, IsHist
    <2>3. Sound' => Truthful(disk', hist'.touched)
      BY <1>0, <2>1, <2>2, SettledStages DEF LedgerInv, SettledInv, Sound, Calm
    <2>4. DecidedInv'
      BY <2>1, SettledStages DEF DecidedInv
    <2> QED
      BY <2>1, <2>3, <2>4, StageSets, SettledTruth
  <1>2. ASSUME ClearSentinel PROVE LedgerInv'
    <2> DEFINE a == ArchiveOf(sentinel)
    <2>1. /\ run.stage = "idle" /\ UNCHANGED <<disk, run, hist>>
          /\ sentinel \in Archives
          /\ DOMAIN a.sources = Sources /\ MatchesArchive(disk, a)
      BY <1>2 DEF ClearSentinel
    <2>2. a \in backups
      BY <2>1, ArchiveChosen DEF Archives
    <2>3. Calm => TruthfulArchive(a, hist.touched)
      BY <2>2 DEF TruthInv, ArchivesInv
    <2>4. Calm => Truthful(disk, hist.touched)
      BY <2>1, <2>3, RestoredTruth DEF MatchesArchive
    <2>5. DecidedInv'
      BY <2>1, SettledStages DEF DecidedInv
    <2> QED
      BY <2>1, <2>4, <2>5, StageSets, SettledTruth DEF Sound, Calm
  <1>3. ASSUME NEW id \in Archives, StartRestore(id) PROVE LedgerInv'
    <2>1. /\ run'.journal.todo = Tracked(run'.journal) /\ run'.journal.writes
          /\ \A p \in Tracked(run'.journal) : run'.journal.snap[p] = disk[p]
          /\ Tracked(run'.journal) = ConfigTree \cup {RestartMarker} \cup Sources
      BY <1>3, RestoreIsFresh
    <2>2. /\ run'.stage = "swapOut" /\ run'.op = "restore" /\ run'.before = disk
          /\ run.stage = "idle" /\ UNCHANGED <<disk, sentinel>>
      BY <1>3 DEF StartRestore, IdleRun
    <2>3. hist'.touched = hist.touched /\ hist'.incidents = hist.incidents
      BY <1>0, <1>3 DEF StartRestore, IsHist
    <2>4. Sound' => Truthful(disk, hist.touched)
      BY <1>0, <2>2, <2>3, SettledStages DEF LedgerInv, SettledInv, Sound, Calm
    <2>5. KeptInv'
      BY <2>1, <2>2, <2>3, <2>4 DEF KeptInv, Recorded, Truthful
    <2> QED
      BY <2>2, <2>5, SettledStages DEF LedgerInv, SettledInv, DecidedInv, NextInv, RestoredInv
  <1> QED
    BY <1>1, <1>2, <1>3 DEF Commands, StartInstall, StartUninstall

LEMMA ResetTruth ==
    ASSUME TypeInv, RollbackInv, TruthInv, Reset
    PROVE  LedgerInv'
  <1>0. WellFormed(disk) /\ IsHist(hist) /\ IsRun(run) /\ LedgerInv
    BY DEF TypeInv, TypeOK, TruthInv
  <1>1. run.stage \in ResetStages /\ sentinel' = sentinel
    BY DEF Reset, BackupLegacyConfig, SkipLegacyTree, RemoveLegacyTree, WriteStockConfig, Writing,
           ResetStages
  <1>2. disk[StateFile] = Absent
    BY <1>1 DEF TruthInv, ResetInv
  <1>3. Sound => Truthful(disk, hist.touched)
    BY <1>0, <1>1, SettledStages DEF LedgerInv, SettledInv
  <1>4. ASSUME BackupLegacyConfig PROVE LedgerInv'
    <2>1. CASE ~ConfigPresent(disk)
      BY <1>3, <1>4, <2>1, FinishTruth DEF BackupLegacyConfig, Sound, Calm
    <2>2. CASE ConfigPresent(disk)
      <3> DEFINE l == {t \in TreeFiles : disk[t] # Absent}
                 j == TrackTree(EmptyJournal, disk, TreeFiles)
                 i == Archive(disk, {}).id
      <3>1. run' = [run EXCEPT !.stage = "resetTree", !.left = l, !.journal = j,
                               !.archive = i, !.before = disk] /\ UNCHANGED disk
            /\ hist' = [hist EXCEPT !.archives = @ + 1]
        BY <1>4, <2>2 DEF BackupLegacyConfig
      <3>2. Fresh(j, disk) /\ Tracked(j) = TreeFiles
        BY <1>0, FirstTree, StagesAndPaths
      <3>3. hist'.touched = hist.touched /\ hist'.incidents = hist.incidents
        BY <1>0, <3>1 DEF IsHist
      <3> HIDE DEF l, j, i
      <3>4. run'.stage = "resetTree" /\ run'.journal = j /\ run'.before = disk
        BY <1>0, <3>1 DEF IsRun
      <3>5. Sound' => Truthful(disk', hist'.touched)
        BY <1>1, <1>3, <3>1, <3>3 DEF Sound, Calm
      <3>6. KeptInv'
        BY <3>1, <3>2, <3>4, <3>5 DEF Fresh, KeptInv, Truthful
      <3> QED
        BY <3>4, <3>5, <3>6, SettledStages DEF LedgerInv, SettledInv, DecidedInv, NextInv, RestoredInv
    <2> QED
      BY <2>1, <2>2
  <1>5. ASSUME SkipLegacyTree PROVE LedgerInv'
    <2>1. Goto("resetConfig", ConfigFiles) /\ UNCHANGED <<disk, sentinel, hist>>
          /\ run.stage = "resetTree"
      BY <1>5 DEF SkipLegacyTree
    <2>2. /\ run'.op = run.op /\ run'.before = run.before /\ run'.kept = run.kept
          /\ run'.retained = run.retained /\ run'.stage = "resetConfig"
          /\ run'.journal = run.journal
      BY <1>0, <2>1 DEF Goto, IsRun
    <2>3. NextInv' /\ RestoredInv'
      BY <2>2 DEF NextInv, RestoredInv
    <2> QED
      BY <1>0, <1>3, <2>1, <2>2, <2>3, StageSets, SettledStages, UntrackingTruth
  <1>6. ASSUME NEW t \in TreeFiles, RemoveLegacyTree(t) PROVE LedgerInv'
    <2>1. t \in Tracked(run.journal) /\ run.stage = "resetTree"
      BY <1>6 DEF RemoveLegacyTree, Writing, RollbackInv, MustBeTracked
    <2>2. disk' = [disk EXCEPT ![t] = Absent] /\ Wrote(t, "resetConfig", ConfigFiles)
          /\ UNCHANGED <<sentinel, hist>>
      BY <1>6 DEF RemoveLegacyTree
    <2>3. \A p \in Paths : disk'[p] # disk[p] => p = t
      BY <1>0, <2>2 DEF WellFormed
    <2>4. t \in Paths /\ disk'[t] = Absent
      BY <1>0, <2>2, StagesAndPaths DEF WellFormed
    <2>5. Sound => Truthful(disk', hist.touched)
      <3> SUFFICES ASSUME Sound, NEW p \in Recorded
                   PROVE  TrueOf(p, disk'[p], disk'[StateFile], hist.touched)
        BY DEF Truthful
      <3>1. disk'[StateFile] = Absent
        BY <1>2, <2>3, RecordedPaths, PathsAreDistinct
      <3>2. CASE p # t
        BY <1>2, <1>3, <2>3, <3>1, <3>2, RecordedPaths DEF Truthful
      <3>3. CASE p = t
        BY <2>4, <3>1, <3>3, PathsAreDistinct DEF TrueOf
      <3> QED
        BY <3>2, <3>3
    <2>6. /\ run'.op = run.op /\ run'.before = run.before /\ run'.kept = run.kept
          /\ run'.retained = run.retained
          /\ run'.stage \in {run.stage, "resetConfig"}
          /\ run'.journal.snap = run.journal.snap /\ run'.journal.todo = run.journal.todo
          /\ run'.journal.writes
      BY <1>0, <2>2, TruthFields
    <2>7. NextInv' /\ RestoredInv'
      BY <2>1, <2>6 DEF NextInv, RestoredInv
    <2> QED
      BY <1>0, <2>1, <2>2, <2>3, <2>5, <2>6, <2>7, StageSets, SettledStages, RecordedPaths,
         UntrackingTruth
  <1>7. ASSUME NEW f \in ConfigFiles, WriteStockConfig(f) PROVE LedgerInv'
    <2>1. disk' = [disk EXCEPT ![f] = StockContent(f)] /\ run.stage = "resetConfig"
          /\ UNCHANGED <<sentinel, hist>> /\ run.op = "install"
      BY <1>7 DEF WriteStockConfig, Writing
    <2>2. \A p \in Paths : disk'[p] # disk[p] => p = f
      BY <1>0, <2>1 DEF WellFormed
    <2>3. f \in Paths /\ disk'[f] = StockContent(f)
      BY <1>0, <2>1, StagesAndPaths DEF WellFormed
    <2>4. Sound => Truthful(disk', hist.touched)
      <3> SUFFICES ASSUME Sound, NEW p \in Recorded
                   PROVE  TrueOf(p, disk'[p], disk'[StateFile], hist.touched)
        BY DEF Truthful
      <3>1. disk'[StateFile] = Absent
        BY <1>2, <2>2, RecordedPaths, PathsAreDistinct
      <3>2. CASE p # f
        BY <1>2, <1>3, <2>2, <3>1, <3>2, RecordedPaths DEF Truthful
      <3>3. CASE p = f
        <4>1. StockContent(f) # Absent
          BY AbsentIsNoContent, PlannedContent, HeldConfig, <2>3, PathsAreDistinct
             DEF StockContent, Values, ContentOf
        <4>2. \A i \in ItemsOf(f) : StockContent(f)[i] = "expected"
          BY DEF StockContent
        <4> QED
          BY <2>3, <3>1, <3>3, <4>1, <4>2, PathsAreDistinct DEF TrueOf
      <3> QED
        BY <3>2, <3>3
    <2>5. CASE run.left = {f}
      <3>1. run'.stage = "plan"
        BY <1>7, <2>5 DEF WriteStockConfig, IdleRun
      <3>2. DecidedInv'
        BY <3>1, SettledStages DEF DecidedInv
      <3> QED
        BY <2>1, <2>4, <3>1, <3>2, StageSets, SettledTruth DEF Sound, Calm
    <2>6. CASE run.left # {f}
      <3> DEFINE k == TrackFiles(run.journal, disk, {f})
                 j == IF disk[f] = StockContent(f) THEN k ELSE NoteWrite(k)
      <3>1. /\ IsJournal(k) /\ Tracked(k) = Tracked(run.journal) \cup {f}
            /\ \A p \in Tracked(run.journal) : k.snap[p] = run.journal.snap[p]
            /\ \A p \in {f} \ Tracked(run.journal) : k.snap[p] = disk[p]
            /\ k.todo = run.journal.todo \cup ({f} \ Tracked(run.journal))
            /\ k.writes = run.journal.writes
        BY <1>0, TrackedFiles, HeldConfig DEF IsRun
      <3> HIDE DEF k
      <3>2. /\ j.snap = k.snap /\ j.todo = k.todo /\ Tracked(j) = Tracked(k)
            /\ ~j.writes => ~k.writes /\ disk[f] = StockContent(f)
        BY <3>1, JournalSteps DEF Tracked
      <3> HIDE DEF j
      <3>3. run' = [run EXCEPT !.left = @ \ {f}, !.journal = j]
        BY <1>7, <2>6 DEF WriteStockConfig, j, k
      <3>4. /\ run'.stage = run.stage /\ run'.op = run.op /\ run'.before = run.before
            /\ run'.kept = run.kept /\ run'.retained = run.retained /\ run'.journal = j
        BY <1>0, <3>3 DEF IsRun
      <3>5. NextInv' /\ RestoredInv'
        BY <2>1, <3>4 DEF NextInv, RestoredInv
      <3>6. ~j.writes => \A p \in Recorded : disk'[p] = disk[p]
        BY <2>2, <2>3, <3>2, RecordedPaths
      <3>7. /\ Tracked(j) = Tracked(run.journal) \cup {f}
            /\ \A p \in Tracked(run.journal) : j.snap[p] = run.journal.snap[p]
            /\ \A p \in {f} \ Tracked(run.journal) : j.snap[p] = disk[p]
            /\ j.todo = run.journal.todo \cup ({f} \ Tracked(run.journal))
        BY <3>1, <3>2
      <3>8. ~j.writes => ~run.journal.writes /\ \A p \in Recorded : disk'[p] = disk[p]
        BY <3>1, <3>2, <3>6
      <3>9. \A p \in Recorded : disk'[p] # disk[p] => p \in Tracked(run.journal) \cup {f}
        BY <2>2, RecordedPaths
      <3>10. /\ run.stage \in Guarded \ {"rollback"} /\ run'.stage \in Guarded \ {"rollback"}
             /\ run'.stage \notin Decided /\ (Sound => Truthful(disk', hist.touched))
        BY <2>1, <2>4, <3>4, StageSets, SettledStages
      <3> QED
        BY <1>0, <2>1, <3>4, <3>5, <3>7, <3>8, <3>9, <3>10, GuardedTruth
    <2> QED
      BY <2>5, <2>6
  <1> QED
    BY <1>4, <1>5, <1>6, <1>7 DEF Reset

\* What a true configuration file holds: what the ledger says, or what somebody
\* else put there.
LEMMA TrueItem ==
    ASSUME Truthful(disk, hist.touched), NEW i \in Items
    PROVE  \/ i \in hist.touched
           \/ ItemValue(disk, i) = IF disk[StateFile] = Absent THEN "expected" ELSE "desired"
  <1>1. FileOf[i] \in ConfigFiles /\ i \in ItemsOf(FileOf[i])
    BY ItemsAreDistinct DEF ItemsOf
  <1> QED
    BY <1>1, RecordedPaths DEF Truthful, TrueOf, ItemValue

LEMMA PrepareTruth ==
    ASSUME TypeInv, RollbackInv, TruthInv, Prepare
    PROVE  LedgerInv'
  <1>0. WellFormed(disk) /\ IsHist(hist) /\ IsRun(run) /\ LedgerInv
    BY DEF TypeInv, TypeOK, TruthInv
  <1>1. run.stage \in {"plan", "backup", "track"} /\ UNCHANGED <<disk, sentinel>>
    BY DEF Prepare, PlanInstall, PlanUninstall, Refuse, CreateBackup, Track
  <1>2. hist'.touched = hist.touched /\ hist'.incidents = hist.incidents
    BY <1>0 DEF Prepare, PlanInstall, PlanUninstall, Refuse, CreateBackup, Track, IsHist
  <1>3. Sound' <=> Sound
    BY <1>1, <1>2 DEF Sound, Calm
  <1>4. Sound => Truthful(disk, hist.touched)
    BY <1>0, <1>1, SettledStages DEF LedgerInv, SettledInv
  <1>5. ASSUME PlanInstall PROVE LedgerInv'
    <2> DEFINE applied == {s \in Sources : disk[s] = "stock"}
               prior == IF disk[StateFile] = Absent THEN {} ELSE disk[StateFile].retained
               pre == [f \in ConfigFiles |-> disk[f]]
               post == [f \in ConfigFiles |-> InstallContent(disk[f])]
               kept == {i \in Options : ClassifyInstall(ItemValue(disk, i)) = "user_modified"}
               retained == applied \cup prior
    <2>1. run' = [run EXCEPT !.stage = "backup", !.pre = pre, !.post = post, !.kept = kept,
                             !.apply = applied, !.retained = retained]
          /\ InstallPreflight(disk)
      BY <1>5 DEF PlanInstall
    <2>2. Sound => kept \subseteq hist.touched
      <3> SUFFICES ASSUME Sound, NEW i \in kept PROVE i \in hist.touched
        OBVIOUS
      <3>1. i \in Items /\ ItemValue(disk, i) \notin {"expected", "desired"}
        BY DEF Items, ClassifyInstall
      <3> QED
        BY <1>4, <3>1, TrueItem
    <2>3. Sound => retained = Sources
      <3>1. CASE disk[StateFile] = Absent
        BY <1>4, <2>1, <3>1, RecordedPaths DEF Truthful, TrueOf, InstallPreflight
      <3>2. CASE disk[StateFile] # Absent
        BY <1>4, <3>2, RecordedPaths DEF Truthful, TrueOf
      <3> QED
        BY <3>1, <3>2
    <2> HIDE DEF applied, prior, pre, post, kept, retained
    <2>4. run'.stage = "backup" /\ run'.kept = kept /\ run'.retained = retained
      BY <1>0, <2>1 DEF IsRun
    <2>5. DecidedInv'
      BY <1>2, <1>3, <2>2, <2>3, <2>4 DEF DecidedInv
    <2> QED
      BY <1>1, <1>2, <1>3, <1>4, <2>4, <2>5, StageSets, SettledTruth
  <1>6. ASSUME PlanUninstall PROVE LedgerInv'
    <2> DEFINE pre == [f \in ConfigFiles |-> disk[f]]
               post == [f \in ConfigFiles |-> UninstallContent(disk[f])]
               kept == {i \in Options \cup Sections :
                          ClassifyUninstall(ItemValue(disk, i)) = "user_modified"}
               retained == disk[StateFile].retained
    <2>1. run' = [run EXCEPT !.stage = "backup", !.pre = pre, !.post = post, !.kept = kept,
                             !.retained = retained]
          /\ run.op = "uninstall" /\ run.stage = "plan"
      BY <1>6 DEF PlanUninstall
    <2>2. Sound => kept \subseteq hist.touched
      <3> SUFFICES ASSUME Sound, NEW i \in kept PROVE i \in hist.touched
        OBVIOUS
      <3>1. i \in Items /\ ItemValue(disk, i) \notin {"expected", "desired"}
        BY DEF Items, ClassifyUninstall
      <3> QED
        BY <1>4, <3>1, TrueItem
    <2>3. Sound => retained = Sources
      <3>1. disk[StateFile] # Absent
        BY <2>1 DEF TypeInv, StagesOK
      <3> QED
        BY <1>4, <3>1, RecordedPaths DEF Truthful, TrueOf
    <2> HIDE DEF pre, post, kept, retained
    <2>4. run'.stage = "backup" /\ run'.kept = kept /\ run'.retained = retained
      BY <1>0, <2>1 DEF IsRun
    <2>5. DecidedInv'
      BY <1>2, <1>3, <2>2, <2>3, <2>4 DEF DecidedInv
    <2> QED
      BY <1>1, <1>2, <1>3, <1>4, <2>4, <2>5, StageSets, SettledTruth
  <1>7. ASSUME Refuse PROVE LedgerInv'
    BY <1>1, <1>2, <1>3, <1>4, <1>7, FinishTruth DEF Refuse
  <1>8. ASSUME CreateBackup PROVE LedgerInv'
    <2>1. /\ run'.stage = "track" /\ run.stage = "backup" /\ run'.op = run.op
          /\ run'.kept = run.kept /\ run'.retained = run.retained
      BY <1>0, <1>8 DEF CreateBackup, IsRun
    <2>2. DecidedInv'
      BY <1>0, <1>2, <1>3, <2>1, SettledStages DEF DecidedInv, LedgerInv
    <2> QED
      BY <1>1, <1>2, <1>3, <1>4, <2>1, <2>2, StageSets, SettledTruth
  <1>9. ASSUME Track PROVE LedgerInv'
    <2>1. Fresh(run'.journal, disk)
      BY <1>9, TrackIsFresh
    <2>2. /\ run'.op = run.op /\ run'.kept = run.kept /\ run'.retained = run.retained
          /\ run'.before = disk /\ run'.stage \in {"marker", "extras", "check"}
          /\ run.stage = "track"
      BY <1>0, <1>9 DEF Track, IsRun
    <2>3. run.op # "restore"
      BY <1>9, NoRestore DEF Prepare
    <2>4. DecidedInv'
      BY <1>0, <1>2, <1>3, <2>2, SettledStages DEF DecidedInv, LedgerInv
    <2>5. KeptInv'
      BY <1>1, <1>2, <1>3, <1>4, <2>1, <2>2 DEF KeptInv, Fresh, Truthful
    <2> QED
      BY <2>2, <2>3, <2>4, <2>5, SettledStages DEF LedgerInv, SettledInv, NextInv, RestoredInv
  <1> QED
    BY <1>5, <1>6, <1>7, <1>8, <1>9 DEF Prepare

\* What a writing stage of an install or uninstall has tracked.
LEMMA WritesTracked ==
    ASSUME RollbackInv, run.stage \in Guarded \ {"resetTree", "resetConfig", "rollback"}
    PROVE  /\ ConfigTree \subseteq Tracked(run.journal)
           /\ run.op \in {"install", "restore"} => Sources \subseteq Tracked(run.journal)
           /\ (run.op = "uninstall" /\ run.stage = "sources") =>
                 run.left \subseteq Tracked(run.journal)
  BY StageSets DEF RollbackInv, MustBeTracked

\* A command that has recorded the ledger, or that there is none, commits: it
\* is true.
LEMMA CommitTruth ==
    ASSUME TypeInv, LedgerInv, run.stage = "state", run.op # "restore",
           disk[StateFile] = NextLedger,
           run'.stage \in Committed, UNCHANGED <<disk, sentinel, hist>>
    PROVE  LedgerInv'
  <1>1. disk' = disk /\ disk[StateFile] = NextLedger
    OBVIOUS
  <1>2. ASSUME Sound PROVE Truthful(disk', hist.touched)
    <2> SUFFICES ASSUME NEW p \in Recorded PROVE TrueOf(p, disk'[p], NextLedger, hist.touched)
      BY <1>1 DEF Truthful
    <2>1. CASE p # StateFile
      BY <1>1, <1>2, <2>1, RecordedPaths DEF LedgerInv, NextInv
    <2>2. CASE p = StateFile
      <3>1. run.retained = Sources
        BY <1>2, SettledStages DEF LedgerInv, DecidedInv
      <3>2. NextLedger # Absent => NextLedger.retained = Sources
        BY <3>1 DEF NextLedger
      <3> QED
        BY <1>1, <2>2, <3>2, PathsAreDistinct DEF TrueOf
    <2> QED
      BY <2>1, <2>2
  <1>3. DecidedInv'
    BY StageSets, SettledStages DEF DecidedInv
  <1> QED
    BY <1>2, <1>3, SettledTruth DEF Sound, Calm

LEMMA WriteTruth ==
    ASSUME TypeInv, RollbackInv, TruthInv, Write
    PROVE  LedgerInv'
  <1> USE StagesAndPaths
  <1>0. WellFormed(disk) /\ IsRun(run) /\ IsJournal(run.journal) /\ LedgerInv
        /\ run.op # "restore"
    BY NoRestore DEF TypeInv, TypeOK, TruthInv, IsRun
  <1>1. ASSUME NEW j, NEW x \in {RestartMarker} \cup Extras, NEW a, NEW l, NEW s,
               IsJournal(j), Tracked(j) = Tracked(run.journal) \cup a,
               a \subseteq {x},
               \A p \in Tracked(run.journal) : j.snap[p] = run.journal.snap[p],
               \A p \in a \ Tracked(run.journal) : j.snap[p] = disk[p],
               j.todo = run.journal.todo \cup (a \ Tracked(run.journal)),
               ~j.writes => ~run.journal.writes,
               run' = [run EXCEPT !.journal = j, !.left = l, !.stage = s],
               \A p \in Paths : disk'[p] # disk[p] => p = x,
               run.stage \in {"marker", "extras"}, s \in {"sources", "extras", "tree"},
               UNCHANGED <<sentinel, hist>>
        PROVE  LedgerInv'
    <2>1. /\ run'.journal = j /\ run'.stage = s /\ run'.op = run.op /\ run'.before = run.before
          /\ run'.kept = run.kept /\ run'.retained = run.retained
      BY <1>0, <1>1 DEF IsRun
    <2>2. \A p \in Recorded : disk'[p] = disk[p]
      BY <1>1, RecordedPaths
    <2>3. /\ run.stage \in Guarded \ {"rollback"} /\ run'.stage \in Guarded \ {"rollback"}
          /\ run.stage \in Decided /\ run'.stage \notin Settled
      BY <1>1, <2>1, StageSets, SettledStages
    <2>4. NextInv' /\ RestoredInv'
      BY <1>0, <1>1, <2>1 DEF NextInv, RestoredInv
    <2> QED
      BY <1>0, <1>1, <2>1, <2>2, <2>3, <2>4, GuardedTruth
  <1>2. ASSUME WriteMarker PROVE LedgerInv'
    <2> DEFINE k == TrackFiles(run.journal, disk, {RestartMarker})
               j == NoteWrite(k)
    <2>1. run' = [run EXCEPT !.journal = j, !.left = run.apply, !.stage = "sources"]
          /\ run.stage = "marker" /\ UNCHANGED <<sentinel, hist>>
      BY <1>0, <1>2 DEF WriteMarker, Writing, IsRun
    <2>2. /\ IsJournal(k) /\ Tracked(k) = Tracked(run.journal) \cup {RestartMarker}
          /\ \A p \in Tracked(run.journal) : k.snap[p] = run.journal.snap[p]
          /\ \A p \in {RestartMarker} \ Tracked(run.journal) : k.snap[p] = disk[p]
          /\ k.todo = run.journal.todo \cup ({RestartMarker} \ Tracked(run.journal))
      BY <1>0, TrackedFiles, HeldMarker
    <2> HIDE DEF k
    <2>3. IsJournal(j) /\ j.snap = k.snap /\ j.todo = k.todo /\ j.writes /\ Tracked(j) = Tracked(k)
      BY <2>2, JournalSteps DEF Tracked
    <2> HIDE DEF j
    <2>4. \A p \in Paths : disk'[p] # disk[p] => p = RestartMarker
      BY <1>0, <1>2, OneChanges DEF WriteMarker
    <2>5. /\ Tracked(j) = Tracked(run.journal) \cup {RestartMarker}
          /\ \A p \in Tracked(run.journal) : j.snap[p] = run.journal.snap[p]
          /\ \A p \in {RestartMarker} \ Tracked(run.journal) : j.snap[p] = disk[p]
          /\ j.todo = run.journal.todo \cup ({RestartMarker} \ Tracked(run.journal))
      BY <2>2, <2>3
    <2> QED
      BY <1>1, <2>1, <2>3, <2>4, <2>5
  <1>3. ASSUME NEW x \in Extras, InstallExtra(x) PROVE LedgerInv'
    <2> DEFINE k == TrackFiles(run.journal, disk, {x})
               j == IF disk[x] = "packaged" THEN run.journal ELSE NoteWrite(k)
               a == IF disk[x] = "packaged" THEN {} ELSE {x}
               left == IF run.left = {x} THEN TreeFiles ELSE run.left \ {x}
               stage == IF run.left = {x} THEN "tree" ELSE run.stage
    <2>1. run' = [run EXCEPT !.journal = j, !.left = left, !.stage = stage]
          /\ run.stage = "extras" /\ UNCHANGED <<sentinel, hist>>
      BY <1>0, <1>3 DEF InstallExtra, Writing, IsRun
    <2>2. /\ IsJournal(k) /\ Tracked(k) = Tracked(run.journal) \cup {x}
          /\ \A p \in Tracked(run.journal) : k.snap[p] = run.journal.snap[p]
          /\ \A p \in {x} \ Tracked(run.journal) : k.snap[p] = disk[p]
          /\ k.todo = run.journal.todo \cup ({x} \ Tracked(run.journal))
      BY <1>0, TrackedFiles
    <2> HIDE DEF k
    <2>3. /\ IsJournal(NoteWrite(k)) /\ NoteWrite(k).snap = k.snap /\ NoteWrite(k).todo = k.todo
          /\ NoteWrite(k).writes /\ Tracked(NoteWrite(k)) = Tracked(k)
      BY <2>2, JournalSteps DEF Tracked
    <2>4. /\ IsJournal(j) /\ Tracked(j) = Tracked(run.journal) \cup a /\ a \subseteq {x}
          /\ \A p \in Tracked(run.journal) : j.snap[p] = run.journal.snap[p]
          /\ \A p \in a \ Tracked(run.journal) : j.snap[p] = disk[p]
          /\ j.todo = run.journal.todo \cup (a \ Tracked(run.journal))
          /\ (~j.writes => ~run.journal.writes)
      BY <1>0, <2>2, <2>3
    <2>5. stage \in {"extras", "tree"}
      BY <2>1
    <2>6. \A p \in Paths : disk'[p] # disk[p] => p = x
      BY <1>0, <1>3, OneChanges DEF InstallExtra
    <2> HIDE DEF j, a, left, stage
    <2> QED
      BY <1>1, <2>1, <2>4, <2>5, <2>6
  <1>4. ASSUME NEW x \in Extras, RemoveExtra(x) PROVE LedgerInv'
    <2> DEFINE j == IF disk[x] = "packaged" THEN NoteWrite(run.journal) ELSE run.journal
               left == IF run.left = {x} THEN TreeFiles ELSE run.left \ {x}
               stage == IF run.left = {x} THEN "tree" ELSE run.stage
    <2>1. run' = [run EXCEPT !.journal = j, !.left = left, !.stage = stage]
          /\ run.stage = "extras" /\ UNCHANGED <<sentinel, hist>>
      BY <1>0, <1>4 DEF RemoveExtra, Writing, IsRun
    <2>2. /\ IsJournal(j) /\ j.snap = run.journal.snap /\ j.todo = run.journal.todo
          /\ (~j.writes => ~run.journal.writes)
      BY <1>0 DEF NoteWrite, IsJournal, Tracked
    <2>3. stage \in {"extras", "tree"}
      BY <2>1
    <2>4. \A p \in Paths : disk'[p] # disk[p] => p = x
      BY <1>0, <1>4, OneChanges DEF RemoveExtra
    <2> DEFINE none == {}
    <2>5. Tracked(j) = Tracked(run.journal) \cup none
      BY <2>2 DEF Tracked
    <2> HIDE DEF j, left, stage
    <2>6. /\ \A p \in Tracked(run.journal) : j.snap[p] = run.journal.snap[p]
          /\ j.todo = run.journal.todo \cup (none \ Tracked(run.journal))
      BY <2>2
    <2>7. none \subseteq {x} /\ \A p \in none \ Tracked(run.journal) : j.snap[p] = disk[p]
      OBVIOUS
    <2> HIDE DEF none
    <2> QED
      BY <1>1, <2>1, <2>2, <2>3, <2>4, <2>5, <2>6, <2>7
  <1>5. ASSUME NEW s, NEW l, NEW p \in Paths,
               \/ Goto(s, l) /\ \A q \in Recorded : disk'[q] = disk[q]
               \/ Wrote(p, s, l),
               UNCHANGED <<sentinel, hist>>,
               run.stage \in (Guarded \cap Decided) \ {"state"},
               s \in (Guarded \cap Decided) \ {"state"},
               \A q \in Paths : disk'[q] # disk[q] => q = p,
               p \in Tracked(run.journal)
        PROVE  LedgerInv'
    <2>1. \A q \in Recorded : disk'[q] # disk[q] => q \in Tracked(run.journal)
      BY <1>5, RecordedPaths
    <2> QED
      BY <1>0, <1>5, <2>1, GoesTruth
  <1>6. ASSUME Raise, UNCHANGED <<disk, sentinel, hist>>,
               run.stage \in (Guarded \cap Decided) PROVE LedgerInv'
    BY <1>0, <1>6, StageSets, SettledStages, RaiseTruth
  <1>7. (Guarded \cap Decided) = {"marker", "sources", "extras", "tree", "check", "config",
                                  "postflight", "state"}
    BY StageSets, SettledStages
  <1>8. ASSUME NEW s \in Sources, DeploySource(s) \/ RestoreSource(s) PROVE LedgerInv'
    <2>1. run.stage = "sources" /\ s \in run.left /\ UNCHANGED <<sentinel, hist>>
          /\ run.op \in {"install", "uninstall"}
      BY <1>8 DEF DeploySource, RestoreSource, Writing
    <2>2. s \in Tracked(run.journal)
      BY <1>8, <2>1, StageSets, WritesTracked
    <2>3. CASE Raise /\ UNCHANGED disk
      BY <1>6, <1>7, <2>1, <2>3
    <2>4. CASE ~(Raise /\ UNCHANGED disk)
      <3>1. \A q \in Paths : disk'[q] # disk[q] => q = s
        <4>1. disk' = [disk EXCEPT ![s] = "patched"] \/ disk' = [disk EXCEPT ![s] = "stock"]
          BY <1>8, <2>4 DEF DeploySource, RestoreSource
        <4> QED
          BY <1>0, <4>1 DEF WellFormed
      <3>2. Wrote(s, "extras", Extras) \/ Wrote(s, "check", {})
        BY <1>8, <2>4 DEF DeploySource, RestoreSource
      <3> QED
        BY <1>5, <1>7, <2>1, <2>2, <3>1, <3>2
    <2> QED
      BY <2>3, <2>4
  <1>9. ASSUME NEW t \in TreeFiles, MirrorFile(t) PROVE LedgerInv'
    <2>1. run.stage = "tree" /\ UNCHANGED <<sentinel, hist>>
      BY <1>9 DEF MirrorFile, Writing
    <2>2. t \in Tracked(run.journal) /\ t \in Paths
      BY <2>1, StageSets, WritesTracked, RecordedPaths
    <2>3. \A q \in Paths : disk'[q] # disk[q] => q = t
      BY <1>0, <1>9, OneChanges DEF MirrorFile
    <2>4. CASE disk[t] = "packaged"
      <3>1. \A q \in Recorded : disk'[q] = disk[q]
        BY <1>0, <1>9, <2>4, RecordedPaths DEF MirrorFile, WellFormed, IsFiles
      <3>2. \/ Goto("check", run.left \ {t})
            \/ Goto("tree", run.left \ {t})
        BY <1>9, <2>4 DEF MirrorFile
      <3> QED
        BY <1>5, <1>7, <2>1, <2>2, <2>3, <3>1, <3>2
    <2>5. CASE disk[t] # "packaged"
      <3>1. Wrote(t, "check", {})
        BY <1>9, <2>5 DEF MirrorFile
      <3> QED
        BY <1>5, <1>7, <2>1, <2>2, <2>3, <3>1
    <2> QED
      BY <2>4, <2>5
  <1>10. ASSUME NEW t \in TreeFiles, RemoveTreeFile(t) PROVE LedgerInv'
    <2>1. run.stage = "tree" /\ UNCHANGED <<sentinel, hist>> /\ Wrote(t, "postflight", {})
      BY <1>10 DEF RemoveTreeFile, Writing
    <2>2. t \in Tracked(run.journal) /\ t \in Paths
      BY <2>1, StageSets, WritesTracked, RecordedPaths
    <2>3. \A q \in Paths : disk'[q] # disk[q] => q = t
      BY <1>0, <1>10, OneChanges DEF RemoveTreeFile
    <2> QED
      BY <1>5, <1>7, <2>1, <2>2, <2>3
  <1>11. ASSUME NEW f \in ConfigFiles, WriteConfig(f) PROVE LedgerInv'
    <2>1. run.stage = "config" /\ UNCHANGED <<sentinel, hist>>
          /\ Wrote(f, AfterConfig, LeftAfterConfig)
      BY <1>11 DEF WriteConfig
    <2>2. f \in Tracked(run.journal) /\ f \in Paths
      BY <2>1, StageSets, WritesTracked, RecordedPaths
    <2>3. \A q \in Paths : disk'[q] # disk[q] => q = f
      BY <1>0, <1>11, OneChanges DEF WriteConfig
    <2> QED
      BY <1>5, <1>7, <2>1, <2>2, <2>3, AfterConfigStage
  <1>12. ASSUME CheckPreimages PROVE LedgerInv'
    <2>1. run.stage = "check" /\ UNCHANGED <<disk, sentinel, hist>>
      BY <1>12 DEF CheckPreimages
    <2>2. CASE Raise
      BY <1>6, <1>7, <2>1, <2>2
    <2>3. CASE Goto(AfterConfig, LeftAfterConfig) \/ Goto("config", Changed)
      <3>1. StateFile \in Tracked(run.journal) /\ StateFile \in Paths
        BY <2>1, StageSets, WritesTracked, RecordedPaths
      <3> QED
        BY <1>5, <1>7, <2>1, <2>3, <3>1, AfterConfigStage
    <2> QED
      BY <1>12, <2>2, <2>3 DEF CheckPreimages
  <1>13. ASSUME Postflight PROVE LedgerInv'
    <2>1. run.stage = "postflight" /\ UNCHANGED <<disk, sentinel, hist>>
      BY <1>13 DEF Postflight
    <2>2. CASE Raise
      BY <1>6, <1>7, <2>1, <2>2
    <2>3. CASE ~Raise
      <3>1. /\ Goto("state", {StateFile})
            /\ IF run.op = "install" THEN InstallPostflight(disk, run.kept)
                                     ELSE UninstallPostflight(disk, run.kept, run.retained)
        BY <1>13, <2>3 DEF Postflight
      <3>2. /\ run'.op = run.op /\ run'.before = run.before /\ run'.kept = run.kept
            /\ run'.retained = run.retained /\ run'.stage = "state" /\ run'.journal = run.journal
        BY <1>0, <3>1 DEF Goto, IsRun
      <3>3. ASSUME Sound, NEW p \in Recorded \ {StateFile}
            PROVE  TrueOf(p, disk[p], NextLedger, hist.touched)
        <4>1. run.kept \subseteq hist.touched /\ run.retained = Sources
          BY <1>0, <2>1, <3>3, SettledStages DEF LedgerInv, DecidedInv
        <4>2. NextLedger = Absent <=> run.op # "install"
          <5>1. [retained |-> run.retained] \in StateContents
            BY <1>0 DEF StateContents, IsRun
          <5>2. Absent \notin StateContents
            BY AbsentIsNoContent, HeldState, PathsAreDistinct DEF ContentOf, Paths, ConfigTree
          <5> QED
            BY <5>1, <5>2 DEF NextLedger
        <4>3. ASSUME p \in ConfigFiles
              PROVE  /\ disk[p] # Absent
                     /\ \A i \in ItemsOf(p) \ hist.touched :
                          disk[p][i] = IF NextLedger = Absent THEN "expected" ELSE "desired"
          <5>1. \A i \in ItemsOf(p) : i \in Items /\ ItemValue(disk, i) = disk[p][i]
            BY DEF ItemsOf, ItemValue
          <5> QED
            BY <3>1, <4>1, <4>2, <4>3, <5>1 DEF InstallPostflight, UninstallPostflight, ConfigPresent
        <4>4. p \in TreeFiles => (disk[p] = Absent <=> NextLedger = Absent)
          <5>1. p \in TreeFiles => "packaged" # Absent
            BY AbsentIsNoContent, PathsAreDistinct DEF ContentOf, OwnedContents, Paths, ConfigTree
          <5> QED
            BY <3>1, <4>2, <5>1 DEF InstallPostflight, UninstallPostflight
        <4>5. p \in Sources => disk[p] = IF NextLedger = Absent THEN "stock" ELSE "patched"
          BY <3>1, <4>1, <4>2 DEF InstallPostflight, UninstallPostflight
        <4> QED
          BY <3>3, <4>3, <4>4, <4>5 DEF TrueOf
      <3>4. NextInv'
        BY <2>1, <3>2, <3>3 DEF NextInv, Sound, Calm, NextLedger
      <3>5. RestoredInv'
        BY <3>2 DEF RestoredInv
      <3> QED
        BY <1>0, <2>1, <3>2, <3>4, <3>5, StageSets, SettledStages, UntrackingTruth
    <2> QED
      BY <2>2, <2>3
  <1>14. ASSUME WriteState \/ DeleteState PROVE LedgerInv'
    <2>1. /\ run.stage = "state" /\ disk' = [disk EXCEPT ![StateFile] = NextLedger]
          /\ Wrote(StateFile, "state", {}) /\ UNCHANGED <<sentinel, hist>>
      BY <1>14 DEF WriteState, DeleteState, Writing, NextLedger
    <2>2. /\ run'.op = run.op /\ run'.before = run.before /\ run'.kept = run.kept
          /\ run'.retained = run.retained /\ run'.stage = "state"
          /\ run'.journal.snap = run.journal.snap /\ run'.journal.todo = run.journal.todo
          /\ run'.journal.writes
      BY <1>0, <2>1, TruthFields
    <2>3. \A p \in Paths \ {StateFile} : disk'[p] = disk[p]
      BY <1>0, <2>1 DEF WellFormed
    <2>4. \A p \in Recorded : disk'[p] # disk[p] => p \in Tracked(run.journal)
      BY <2>1, <2>3, StageSets, WritesTracked, RecordedPaths, <1>0 DEF TruthInv, ConfigTree
    <2>5. NextInv'
      BY <1>0, <2>1, <2>2, <2>3, RecordedPaths DEF LedgerInv, NextInv, NextLedger, Sound, Calm
    <2>6. RestoredInv'
      BY <2>2 DEF RestoredInv
    <2> QED
      BY <1>0, <2>1, <2>2, <2>4, <2>5, <2>6, StageSets, SettledStages, UntrackingTruth
  <1>16. ASSUME Commit PROVE LedgerInv'
    <2>1. /\ run.stage = "state" /\ run.left = {} /\ UNCHANGED <<disk, sentinel, hist>>
          /\ Goto("optimize", {}) \/ Goto("activate", {})
      BY <1>16 DEF Commit
    <2>2. run'.stage \in {"optimize", "activate"}
      BY <1>0, <2>1, GotoFields
    <2>3. disk[StateFile] = NextLedger
      BY <2>1 DEF TruthInv, WrittenInv
    <2> QED
      BY <1>0, <2>1, <2>2, <2>3, StageSets, CommitTruth
  <1>15. ASSUME Optimize PROVE LedgerInv'
    <2>1. run.stage = "optimize" /\ run'.stage = "activate" /\ UNCHANGED <<disk, sentinel, hist>>
      BY <1>0, <1>15, GotoFields DEF Optimize
    <2>2. Sound => Truthful(disk, hist.touched)
      BY <1>0, <2>1, SettledStages DEF LedgerInv, SettledInv
    <2>3. DecidedInv'
      BY <2>1, SettledStages DEF DecidedInv
    <2> QED
      BY <2>1, <2>2, <2>3, StageSets, SettledTruth DEF Sound, Calm
  <1> QED
    BY <1>2, <1>3, <1>4, <1>8, <1>9, <1>10, <1>11, <1>12, <1>13, <1>14, <1>15, <1>16 DEF Write

\* The archive of a restore is kept, and true while no command was killed.
LEMMA RestoresTruth ==
    ASSUME TypeInv, TruthInv, run.op = "restore"
    PROVE  /\ ArchiveOf(run.archive) \in backups
           /\ DOMAIN ArchiveOf(run.archive).sources = Sources
           /\ Calm => TruthfulArchive(ArchiveOf(run.archive), hist.touched)
  <1>1. ArchiveOf(run.archive) \in backups
    BY ArchiveChosen DEF TypeInv, StagesOK
  <1> QED
    BY <1>1 DEF TypeInv, StagesOK, Restorable, TruthInv, ArchivesInv

LEMMA RestoreTruth ==
    ASSUME TypeInv, RollbackInv, TruthInv, Restore
    PROVE  LedgerInv'
  <1> USE StagesAndPaths
  <1>0. WellFormed(disk) /\ IsRun(run) /\ LedgerInv
    BY DEF TypeInv, TypeOK, TruthInv
  <1>1. /\ run.op = "restore" /\ UNCHANGED <<backups, sentinel, hist>>
        /\ run.stage \in {"swapOut", "swapIn", "verify", "marker", "sources"}
    BY DEF Restore, SwapOut, SwapIn, VerifyRestore, WriteRestoreMarker, RestoreArchivedSource,
           Writing, TypeInv, StagesOK
  <1>2. run.journal.writes
    BY <1>1, StageSets DEF TruthInv, NotedInv
  <1>3. /\ ConfigTree \cup Sources \subseteq Tracked(run.journal)
        /\ ArchiveOf(run.archive)' = ArchiveOf(run.archive) \/ run'.archive # run.archive
    BY <1>1, StageSets, WritesTracked DEF ArchiveOf
  <1>4. ASSUME NEW s, NEW l, NEW p, Goto(s, l) \/ Wrote(p, s, l),
               s \in {"swapIn", "verify", "marker", "sources"},
               \A q \in Recorded : disk'[q] # disk[q] => q \in ConfigTree \cup Sources,
               RestoredInv'
        PROVE  LedgerInv'
    <2>1. /\ run'.op = run.op /\ run'.before = run.before /\ run'.kept = run.kept
          /\ run'.retained = run.retained
          /\ run'.stage \in {run.stage, s}
          /\ run'.journal.snap = run.journal.snap /\ run'.journal.todo = run.journal.todo
          /\ run'.journal.writes
      BY <1>0, <1>2, <1>4, TruthFields
    <2>2. NextInv'
      BY <1>1, <1>4, <2>1 DEF NextInv
    <2>3. /\ run.stage \in Guarded \ {"rollback"} /\ run'.stage \in Guarded \ {"rollback"}
          /\ run'.stage \notin Settled
      BY <1>1, <1>4, <2>1, StageSets, SettledStages
    <2> QED
      BY <1>0, <1>1, <1>3, <1>4, <2>1, <2>2, <2>3, UntrackingTruth
  <1>5. ASSUME SwapOut \/ SwapIn PROVE LedgerInv'
    <2>1. Goto("swapIn", {}) \/ Goto("verify", {})
      BY <1>5 DEF SwapOut, SwapIn
    <2>2. \A q \in Recorded : disk'[q] # disk[q] => q \in ConfigTree \cup Sources
      BY DEF Recorded
    <2>3. RestoredInv'
      BY <1>0, <2>1, GotoFields DEF RestoredInv
    <2> QED
      BY <1>4, <2>1, <2>2, <2>3
  <1>6. ASSUME VerifyRestore PROVE LedgerInv'
    <2>1. run.stage = "verify" /\ UNCHANGED <<disk, backups, sentinel, hist>>
      BY <1>6 DEF VerifyRestore
    <2>2. CASE Raise
      BY <1>0, <2>1, <2>2, StageSets, RaiseTruth
    <2>3. CASE ~Raise
      <3>1. /\ Goto("marker", {RestartMarker})
            /\ \A p \in ConfigTree : disk[p] = Archived(ArchiveOf(run.archive), p)
        BY <1>6, <2>3 DEF VerifyRestore
      <3>2. run'.stage = "marker" /\ run'.archive = run.archive
        BY <1>0, <3>1 DEF Goto, IsRun
      <3>3. ArchiveOf(run.archive)' = ArchiveOf(run.archive)
        BY <1>3, <3>2
      <3>4. RestoredInv'
        BY <1>1, <2>1, <3>1, <3>2, <3>3, RestoresTruth DEF RestoredInv, TruthfulArchive, Calm
      <3> QED
        BY <1>4, <2>1, <3>1, <3>4
    <2> QED
      BY <2>2, <2>3
  <1>7. ASSUME WriteRestoreMarker PROVE LedgerInv'
    <2>1. run.stage = "marker" /\ Goto("sources", Sources)
      BY <1>7 DEF WriteRestoreMarker, Writing
    <2>2. \A q \in Recorded : disk'[q] = disk[q]
      BY <1>0, <1>7, RecordedPaths DEF WriteRestoreMarker, WellFormed
    <2>3. run'.stage = "sources" /\ run'.left = Sources /\ run'.archive = run.archive
          /\ run'.op = run.op
      BY <1>0, <2>1 DEF Goto, IsRun
    <2>4. ArchiveOf(run.archive)' = ArchiveOf(run.archive)
      BY <1>3, <2>3
    <2>5. RestoredInv'
      BY <1>0, <1>1, <2>1, <2>2, <2>3, <2>4, RecordedPaths DEF RestoredInv, LedgerInv, Calm
    <2> QED
      BY <1>4, <2>1, <2>2, <2>5
  <1>8. ASSUME NEW s \in Sources, RestoreArchivedSource(s) PROVE LedgerInv'
    <2> DEFINE a == ArchiveOf(run.archive)
               ledger == ArchivedState(a)
    <2>1. /\ run.stage = "sources" /\ Wrote(s, "activate", {}) /\ s \in run.left
          /\ disk' = [disk EXCEPT ![s] = a.sources[s]]
      BY <1>8 DEF RestoreArchivedSource, Writing
    <2>2. disk'[s] = a.sources[s] /\ \A q \in Paths \ {s} : disk'[q] = disk[q]
      BY <1>0, <2>1 DEF WellFormed
    <2>3. /\ run'.archive = run.archive /\ run'.op = run.op
          /\ run'.stage = IF run.left = {s} THEN "activate" ELSE run.stage
          /\ run'.left = IF run.left = {s} THEN {} ELSE run.left \ {s}
      BY <1>0, <2>1, ArchiveFields, WroteFields
    <2>4. ArchiveOf(run.archive)' = a
      BY <1>3, <2>3
    <2>5. ASSUME Calm
          PROVE  /\ \A p \in ConfigTree : TrueOf(p, disk'[p], ledger, hist.touched)
                 /\ run.left \subseteq Sources
                 /\ \A q \in Sources \ (run.left \ {s}) : TrueOf(q, disk'[q], ledger, hist.touched)
      <3>1. TrueOf(s, a.sources[s], ledger, hist.touched)
        BY <1>1, <2>5, RestoresTruth DEF TruthfulArchive
      <3>2. /\ \A p \in ConfigTree : TrueOf(p, disk[p], ledger, hist.touched)
            /\ run.left \subseteq Sources
            /\ \A q \in Sources \ run.left : TrueOf(q, disk[q], ledger, hist.touched)
        BY <1>0, <1>1, <2>1, <2>5 DEF LedgerInv, RestoredInv
      <3>3. s \notin ConfigTree /\ ConfigTree \subseteq Paths
        BY PathsAreDistinct DEF ConfigTree, Paths
      <3> QED
        BY <2>2, <3>1, <3>2, <3>3
    <2> HIDE DEF a, ledger
    <2>6. CASE run.left = {s}
      <3>1. run'.stage = "activate"
        BY <2>3, <2>6
      <3>2. Calm => Truthful(disk', hist.touched)
        <4>1. ASSUME Calm PROVE \A p \in Recorded : TrueOf(p, disk'[p], ledger, hist.touched)
          BY <2>5, <2>6, <4>1 DEF Recorded
        <4> QED
          BY <4>1, TruthfulIs
      <3>3. DecidedInv'
        BY <3>1, SettledStages DEF DecidedInv
      <3> QED
        BY <1>1, <3>1, <3>2, <3>3, StageSets, SettledTruth DEF Sound, Calm
    <2>7. CASE run.left # {s}
      <3>1. RestoredInv'
        BY <1>1, <2>1, <2>3, <2>4, <2>5, <2>7 DEF RestoredInv, Calm, ledger
      <3>2. \A q \in Recorded : disk'[q] # disk[q] => q \in ConfigTree \cup Sources
        BY DEF Recorded
      <3>3. /\ run'.before = run.before /\ run'.kept = run.kept
            /\ run'.retained = run.retained
            /\ run'.journal.snap = run.journal.snap /\ run'.journal.todo = run.journal.todo
            /\ run'.journal.writes
        BY <1>0, <2>1, TruthFields
      <3>4. NextInv'
        BY <2>1, <2>3, <2>7 DEF NextInv
      <3>5. /\ run.stage \in Guarded \ {"rollback"} /\ run'.stage \in Guarded \ {"rollback"}
            /\ run'.stage \notin Settled
        BY <2>1, <2>3, <2>7, StageSets, SettledStages
      <3> QED
        BY <1>0, <1>1, <1>3, <2>3, <3>1, <3>2, <3>3, <3>4, <3>5, UntrackingTruth
    <2> QED
      BY <2>6, <2>7
  <1> QED
    BY <1>5, <1>6, <1>7, <1>8 DEF Restore

LEMMA ActivationTruth ==
    ASSUME TypeInv, TruthInv, Activation
    PROVE  LedgerInv'
  <1>0. WellFormed(disk) /\ IsRun(run) /\ LedgerInv
    BY DEF TypeInv, TypeOK, TruthInv
  <1>1. run.stage \in Committed /\ UNCHANGED <<sentinel, hist>>
    BY StageSets DEF Activation, Activate, RestartPending, AwaitKlipper
  <1>2. \A p \in Recorded : disk'[p] = disk[p]
    BY <1>0, RecordedPaths DEF Activation, Activate, RestartPending, AwaitKlipper, WellFormed
  <1>3. Sound' => Truthful(disk', hist'.touched)
    BY <1>0, <1>1, <1>2, SameTruth DEF LedgerInv, SettledInv, Settled, Sound, Calm
  <1>4. CASE Finish
    BY <1>3, <1>4, FinishTruth
  <1>5. CASE ~Finish
    <2>1. run'.stage \in {"pending", "restarting"}
      <3>1. Activate => run'.stage = "pending"
        BY <1>0, <1>5 DEF Activate, IsRun
      <3>2. RestartPending \/ AwaitKlipper => Goto("restarting", {})
        BY <1>5 DEF RestartPending, AwaitKlipper
      <3> QED
        BY <1>0, <3>1, <3>2, GotoFields DEF Activation
    <2>2. DecidedInv'
      BY <2>1, SettledStages DEF DecidedInv
    <2> QED
      BY <1>3, <2>1, <2>2, StageSets, SettledTruth
  <1> QED
    BY <1>4, <1>5

LEMMA RollbackTruth ==
    ASSUME TypeInv, TruthInv, Rollback
    PROVE  LedgerInv'
  <1>0. WellFormed(disk) /\ IsRun(run) /\ IsJournal(run.journal) /\ LedgerInv
    BY DEF TypeInv, TypeOK, TruthInv, IsRun
  <1>1. run.stage = "rollback" /\ UNCHANGED <<sentinel, hist>>
    BY DEF Rollback, RollbackDone, RollbackStep
  <1>2. ASSUME RollbackDone PROVE LedgerInv'
    <2>1. ASSUME Sound
          PROVE  \A p \in Recorded : TrueOf(p, disk[p], run.before[StateFile], hist.touched)
      BY <1>0, <1>1, <1>2, <2>1, StageSets DEF RollbackDone, LedgerInv, KeptInv
    <2>2. Sound => Truthful(disk, hist.touched)
      BY <2>1, TruthfulIs
    <2> QED
      BY <1>1, <1>2, <2>2, FinishTruth DEF RollbackDone, Sound, Calm
  <1>3. ASSUME NEW p \in Paths, RollbackStep(p) PROVE LedgerInv'
    <2> DEFINE j == Restored(run.journal, p)
    <2>1. p \in Tracked(run.journal)
      BY <1>0, <1>3 DEF RollbackStep, NextToRestore, IsJournal
    <2>2. j.snap = run.journal.snap /\ j.todo = run.journal.todo \ {p}
      BY <1>0, <2>1, JournalSteps
    <2>3. /\ run'.stage = "rollback" /\ run'.journal = j
          /\ run'.before = run.before /\ run'.op = run.op
      BY <1>0, <1>3 DEF RollbackStep, IsRun
    <2> HIDE DEF j
    <2>4. disk'[p] = run.journal.snap[p] /\ \A q \in Paths \ {p} : disk'[q] = disk[q]
      BY <1>0, <1>3 DEF RollbackStep, WellFormed
    <2>5. KeptInv'
      <3> SUFFICES ASSUME Sound, NEW q \in Recorded
                   PROVE  /\ q \in Tracked(run.journal) =>
                                TrueOf(q, run.journal.snap[q], run.before[StateFile], hist.touched)
                          /\ q \notin run.journal.todo \ {p} =>
                                TrueOf(q, disk'[q], run.before[StateFile], hist.touched)
        BY <1>1, <2>2, <2>3 DEF KeptInv, Sound, Calm, Tracked
      <3>1. /\ q \in Tracked(run.journal) =>
                  TrueOf(q, run.journal.snap[q], run.before[StateFile], hist.touched)
            /\ q \notin run.journal.todo =>
                  TrueOf(q, disk[q], run.before[StateFile], hist.touched)
        BY <1>0, <1>1, StageSets DEF LedgerInv, KeptInv
      <3> QED
        BY <2>1, <2>4, <3>1, RecordedPaths
    <2> QED
      BY <2>3, <2>5, SettledStages DEF LedgerInv, SettledInv, DecidedInv, NextInv, RestoredInv
  <1> QED
    BY <1>2, <1>3 DEF Rollback

\* A rollback that fails records an archive.
LEMMA FailureIsRecorded ==
    ASSUME TypeInv, ArchiveInv, UnblockedInv, run.stage = "rollback"
    PROVE  run.archive # 0 /\ run.archive \in Archives
  <1>1. run.op \in {"install", "uninstall", "restore"}
    BY DEF UnblockedInv, TypeInv, TypeOK, IsRun, Ops
  <1>2. run.archive \in Archives
    <2>1. CASE run.op = "restore"
      BY <2>1 DEF TypeInv, StagesOK, Archives
    <2>2. CASE run.op # "restore"
      BY <1>1, <2>2, StageSets DEF ArchiveInv, OwnArchive
    <2> QED
      BY <2>1, <2>2
  <1>3. \A a \in backups : a.id # 0
    BY DEF TypeInv, TypeOK, IsArchive
  <1> QED
    BY <1>2, <1>3 DEF Archives

LEMMA FaultTruth ==
    ASSUME TypeInv, RollbackInv, ArchiveInv, TruthInv, Faults
    PROVE  LedgerInv'
  <1>0. IsHist(hist) /\ LedgerInv
    BY DEF TypeInv, TypeOK, TruthInv
  <1>1. ASSUME Fail PROVE LedgerInv'
    <2>1. /\ hist'.touched = hist.touched /\ hist'.incidents = hist.incidents
          /\ UNCHANGED <<disk, sentinel>> /\ run.stage \notin {"idle", "rollback"}
      BY <1>0, <1>1 DEF Fail, Fault, IsHist
    <2>2. CASE run.stage \in Committed
      <3>1. Sound => Truthful(disk, hist.touched)
        BY <1>0, <2>2 DEF LedgerInv, SettledInv, Settled
      <3> QED
        BY <1>1, <2>1, <2>2, <3>1, FinishTruth DEF Fail, Sound, Calm
    <2>3. CASE run.stage \notin Committed
      BY <1>0, <1>1, <2>1, <2>3, RaiseTruth DEF Fail
    <2> QED
      BY <2>2, <2>3
  <1>2. ASSUME RollbackFails PROVE LedgerInv'
    <2>1. sentinel' # 0
      BY <1>2, FailureIsRecorded DEF RollbackFails, TruthInv
    <2> QED
      BY <1>2, <2>1, FinishTruth DEF RollbackFails, Sound
  <1>3. ASSUME InterruptReset \/ Crash PROVE LedgerInv'
    <2>1. ~Calm'
      <3>1. hist'.incidents \cap {"crash", "rollback", "interrupt"} # {}
        <4>1. ASSUME NEW faults, NEW crashes, NEW x,
                     \/ hist' = [hist EXCEPT !.faults = faults, !.incidents = @ \cup {x}]
                     \/ hist' = [hist EXCEPT !.crashes = crashes, !.incidents = @ \cup {x}]
              PROVE  x \in hist'.incidents
          BY <1>0, <4>1 DEF IsHist
        <4>2. InterruptReset => "interrupt" \in hist'.incidents
          BY <4>1 DEF InterruptReset
        <4>3. Crash => "rollback" \in hist'.incidents \/ "crash" \in hist'.incidents
          BY <4>1 DEF Crash
        <4> QED
          BY <1>3, <4>2, <4>3
      <3> QED
        BY <3>1 DEF Calm
    <2> QED
      BY <1>3, <2>1, FinishTruth DEF InterruptReset, Crash, Sound
  <1> QED
    BY <1>1, <1>2, <1>3 DEF Faults

\* An edit, or a step that changes nothing of a command, leaves what is true so.
LEMMA EditTruth ==
    ASSUME TypeInv, TruthInv, UNCHANGED <<backups, sentinel>>,
           hist.touched \subseteq hist'.touched, Calm' => Calm,
           run'.stage = run.stage, run'.op = run.op, run'.archive = run.archive,
           run'.journal = run.journal, run'.before = run.before, run'.kept = run.kept,
           run'.retained = run.retained, run'.left = run.left,
           disk'[StateFile] = disk[StateFile],
           \A p \in Recorded : \A l : TrueOf(p, disk[p], l, hist.touched)
                                        => TrueOf(p, disk'[p], l, hist'.touched)
    PROVE  LedgerInv'
  <1>0. (Sound' => Sound) /\ LedgerInv
    BY DEF Sound, TruthInv
  <1>1. Truthful(disk, hist.touched) => Truthful(disk', hist'.touched)
    BY DEF Truthful
  <1>2. SettledInv'
    BY <1>0, <1>1 DEF LedgerInv, SettledInv
  <1>3. KeptInv'
    BY <1>0, <1>1, TruthGrows DEF LedgerInv, KeptInv
  <1>4. DecidedInv'
    BY <1>0 DEF LedgerInv, DecidedInv
  <1>5. NextInv'
    <2>1. NextLedger' = NextLedger
      BY DEF NextLedger
    <2> QED
      BY <1>0, <2>1 DEF LedgerInv, NextInv
  <1>6. RestoredInv'
    <2>1. ArchiveOf(run.archive)' = ArchiveOf(run.archive)
      BY DEF ArchiveOf
    <2> QED
      BY <1>0, <2>1, RecordedPaths DEF LedgerInv, RestoredInv
  <1> QED
    BY <1>2, <1>3, <1>4, <1>5, <1>6 DEF LedgerInv

LEMMA EnvironmentTruth ==
    ASSUME TypeInv, TruthInv, Environment
    PROVE  LedgerInv'
  <1>0. WellFormed(disk) /\ IsRun(run) /\ IsHist(hist)
    BY DEF TypeInv, TypeOK
  <1>1. hist.touched \subseteq hist'.touched /\ (Calm' => Calm)
    BY Forward DEF Next
  <1>2. UNCHANGED <<backups, sentinel>>
    BY DEF Environment, EditConfig, EditOwned, Edit, KlipperRestart, StartPrint, EndPrint
  <1>3. /\ run'.stage = run.stage /\ run'.op = run.op /\ run'.archive = run.archive
        /\ run'.journal = run.journal /\ run'.before = run.before /\ run'.kept = run.kept
        /\ run'.retained = run.retained /\ run'.left = run.left
    <2>1. run' = run \/ \E edited : run' = [run EXCEPT !.edited = edited]
      BY DEF Environment, EditConfig, EditOwned, Edit, KlipperRestart, StartPrint, EndPrint
    <2> QED
      BY <1>0, <2>1 DEF IsRun
  <1>4. ASSUME NEW q \in Paths \ {StateFile}, NEW i,
               i \in hist'.touched, \A p \in Paths \ {q} : disk'[p] = disk[p],
               \A l : TrueOf(q, disk[q], l, hist.touched) => TrueOf(q, disk'[q], l, hist'.touched)
        PROVE  LedgerInv'
    <2>1. disk'[StateFile] = disk[StateFile]
      BY <1>4, RecordedPaths
    <2>2. ASSUME NEW p \in Recorded, NEW l, TrueOf(p, disk[p], l, hist.touched)
          PROVE  TrueOf(p, disk'[p], l, hist'.touched)
      <3>1. CASE p = q
        BY <1>4, <2>2, <3>1
      <3>2. CASE p # q
        BY <1>1, <1>4, <2>2, <3>2, TruthGrows, RecordedPaths
      <3> QED
        BY <3>1, <3>2
    <2> QED
      BY <1>1, <1>2, <1>3, <2>1, <2>2, EditTruth
  <1>5. ASSUME NEW i \in Items, NEW v \in Values, EditConfig(i, v) PROVE LedgerInv'
    <2> DEFINE f == FileOf[i]
    <2>1. f \in ConfigFiles /\ f \in Paths \ {StateFile}
      BY ItemsAreDistinct, PathsAreDistinct, StagesAndPaths
    <2>2. disk[f] \in [ItemsOf(f) -> Values] /\ disk[f] # Absent
      BY <1>0, <1>5, <2>1, HeldConfig DEF EditConfig, WellFormed, IsFiles
    <2>3. /\ disk'[f] = [disk[f] EXCEPT ![i] = v]
          /\ \A p \in Paths \ {f} : disk'[p] = disk[p]
      BY <1>0, <1>5, <2>1 DEF EditConfig, WellFormed
    <2>4. i \in hist'.touched
      <3>1. hist' = [hist EXCEPT !.edits = @ + 1, !.touched = @ \cup Theirs({f}, {i})]
        BY <1>5 DEF EditConfig, Edit
      <3> QED
        BY <1>0, <3>1 DEF IsHist, Theirs
    <2>5. disk'[f] # Absent
      <3>1. disk'[f] \in [ItemsOf(f) -> Values]
        BY <2>2, <2>3
      <3> QED
        BY <2>1, <3>1, AbsentIsNoContent, PathsAreDistinct DEF ContentOf
    <2>6. \A j \in ItemsOf(f) \ hist'.touched : disk'[f][j] = disk[f][j]
      BY <2>2, <2>3, <2>4
    <2>7. ASSUME NEW l, TrueOf(f, disk[f], l, hist.touched)
          PROVE  TrueOf(f, disk'[f], l, hist'.touched)
      BY <1>1, <2>1, <2>5, <2>6, <2>7, PathsAreDistinct DEF TrueOf
    <2> QED
      BY <1>4, <2>1, <2>3, <2>4, <2>7
  <1>6. ASSUME NEW q \in TreeFiles \cup Extras \cup Sources, EditOwned(q) PROVE LedgerInv'
    <2> DEFINE c == IF q \in Sources THEN "other" ELSE "user"
    <2>1. q \in Paths \ {StateFile}
      BY StagesAndPaths, PathsAreDistinct
    <2>2. /\ disk'[q] = c /\ \A p \in Paths \ {q} : disk'[p] = disk[p]
          /\ disk[q] # Absent
      BY <1>0, <1>6, <2>1 DEF EditOwned, WellFormed
    <2>3. q \in hist'.touched
      <3>1. hist' = [hist EXCEPT !.edits = @ + 1, !.touched = @ \cup Theirs({q}, {q})]
        BY <1>6 DEF EditOwned, Edit
      <3> QED
        BY <1>0, <3>1 DEF IsHist, Theirs
    <2>4. q \in TreeFiles => c # Absent
      BY AbsentIsNoContent, PathsAreDistinct DEF ContentOf, OwnedContents, Paths, ConfigTree
    <2>5. ASSUME NEW l, TrueOf(q, disk[q], l, hist.touched)
          PROVE  TrueOf(q, disk'[q], l, hist'.touched)
      BY <2>2, <2>3, <2>4, <2>5, PathsAreDistinct DEF TrueOf
    <2> QED
      BY <1>4, <2>1, <2>2, <2>3, <2>5
  <1>7. ASSUME KlipperRestart \/ StartPrint \/ EndPrint PROVE LedgerInv'
    <2>1. UNCHANGED disk
      BY <1>7 DEF KlipperRestart, StartPrint, EndPrint
    <2> QED
      BY <1>1, <1>2, <1>3, <2>1, TruthGrows, EditTruth
  <1> QED
    BY <1>5, <1>6, <1>7 DEF Environment

\* TruthInv is inductive, relative to the types, RollbackInv and ArchiveInv.
LEMMA StepTruth ==
    TypeInv /\ RollbackInv /\ ArchiveInv /\ TruthInv /\ [Next]_vars => TruthInv'
  <1>1. TruthInv /\ UNCHANGED vars => TruthInv'
    BY DEF vars, TruthInv, UnblockedInv, NotedInv, ResetInv, ArchivesInv, LedgerInv, SettledInv,
           KeptInv, DecidedInv, NextInv, RestoredInv, WrittenInv, Calm, Sound, NextLedger, ArchiveOf
  <1>2. ASSUME TypeInv, RollbackInv, ArchiveInv, TruthInv, Next PROVE TruthInv'
    <2>1. /\ UnblockedInv /\ NotedInv /\ WrittenInv /\ ResetInv /\ ArchivesInv /\ SettledInv
      BY <1>2 DEF TruthInv, LedgerInv
    <2>2. UnblockedInv' /\ NotedInv' /\ WrittenInv' /\ ResetInv' /\ ArchivesInv'
      BY <1>2, <2>1, StepUnblocked, StepNoted, StepWritten, StepReset, StepArchivesTrue
    <2>3. LedgerInv'
      BY <1>2, CommandTruth, ResetTruth, PrepareTruth, WriteTruth, RestoreTruth, ActivationTruth,
         RollbackTruth, FaultTruth, EnvironmentTruth DEF Next, Proceed
    <2> QED
      BY <2>2, <2>3 DEF TruthInv
  <1> QED
    BY <1>1, <1>2

\* A printer that starts with no package has no ledger and nothing of one.
LEMMA InitTruth ==
    ASSUME InitialPackages \subseteq {"stock"}
    PROVE  Init => TruthInv
  <1> SUFFICES ASSUME Init PROVE TruthInv
    OBVIOUS
  <1>1. run.stage = "idle" /\ run.op = "none" /\ backups = {} /\ hist.touched = {}
    BY IdleRunFields DEF Init
  <1>2. Truthful(disk, hist.touched)
    <2>1. disk = [p \in Paths |->
                    CASE p \in Sources -> "stock"
                      [] p \in ConfigFiles -> StockContent(p)
                      [] p \in TreeFiles /\ FALSE -> "user"
                      [] OTHER -> Absent]
      BY DEF Init
    <2>2. ASSUME NEW p \in Recorded PROVE TrueOf(p, disk[p], Absent, hist.touched)
      <3>1. CASE p \in Sources
        <4>1. disk[p] = "stock"
          BY <2>1, <3>1, StagesAndPaths, PathsAreDistinct
        <4> QED
          BY <3>1, <4>1, PathsAreDistinct DEF TrueOf
      <3>2. CASE p \in ConfigFiles
        <4>1. disk[p] = StockContent(p)
          BY <2>1, <3>2, StagesAndPaths, PathsAreDistinct
        <4>2. StockContent(p) # Absent
          <5>1. StockContent(p) \in [ItemsOf(p) -> Values]
            BY DEF StockContent, Values
          <5> QED
            BY <3>2, <5>1, AbsentIsNoContent, StagesAndPaths, PathsAreDistinct DEF ContentOf
        <4>3. \A i \in ItemsOf(p) : StockContent(p)[i] = "expected"
          BY DEF StockContent
        <4> QED
          BY <3>2, <4>1, <4>2, <4>3, PathsAreDistinct DEF TrueOf
      <3>3. CASE p \in TreeFiles \cup {StateFile}
        <4>1. disk[p] = Absent
          BY <2>1, <3>3, StagesAndPaths, PathsAreDistinct
        <4> QED
          BY <3>3, <4>1, PathsAreDistinct DEF TrueOf
      <3> QED
        BY <3>1, <3>2, <3>3, RecordedPaths
    <2> QED
      BY <2>2, TruthfulIs
  <1> QED
    BY <1>1, <1>2, SettledStages, StageSets
       DEF TruthInv, UnblockedInv, NotedInv, WrittenInv, ResetInv, ArchivesInv, LedgerInv,
           SettledInv, KeptInv, DecidedInv, NextInv, RestoredInv

\* Whatever is installed, uninstalled or restored, fails, or is edited by others,
\* the ledger of a printer that started without the package agrees with its
\* files, and so does every archive, as long as nobody kills a command.
THEOREM TruthInvariant ==
    ASSUME InitialPackages \subseteq {"stock"}
    PROVE  Spec => []TruthInv
  <1>1. Init => TypeInv /\ RollbackInv /\ ArchiveInv /\ TruthInv
    BY InitTypes, InitRollback, InitArchives, InitTruth
  <1>2. (TypeInv /\ RollbackInv /\ ArchiveInv /\ TruthInv) /\ [Next]_vars
          => (TypeInv /\ RollbackInv /\ ArchiveInv /\ TruthInv)'
    BY StepTypes, StepRollback, StepArchives, StepTruth
  <1> QED
    BY <1>1, <1>2, PTL DEF Spec

\* Between commands, when nobody killed one and no recovery is due, the ledger
\* tells the truth about the printer.
THEOREM LedgerIsTrue ==
    ASSUME InitialPackages \subseteq {"stock"}
    PROVE  Spec => []WholePackage
  <1>1. ASSUME TruthInv PROVE WholePackage
    <2> SUFFICES ASSUME run.stage = "idle", sentinel = 0, hist.incidents \subseteq {"restart", "overwritten"}
                 PROVE  LET installed == disk[StateFile] # Absent
                        IN  /\ \A t \in TreeFiles : (disk[t] # Absent) = installed
                            /\ \A s \in Sources \ hist.touched :
                                  disk[s] = IF installed THEN "patched" ELSE "stock"
                            /\ ConfigPresent(disk)
                            /\ \A i \in Items \ hist.touched :
                                  ItemValue(disk, i) = IF installed THEN "desired" ELSE "expected"
      BY DEF WholePackage
    <2>1. Truthful(disk, hist.touched)
      BY <1>1, SettledStages DEF TruthInv, LedgerInv, SettledInv, Sound, Calm
    <2>2. \A t \in TreeFiles : (disk[t] # Absent) = (disk[StateFile] # Absent)
      BY <2>1, RecordedPaths DEF Truthful, TrueOf
    <2>3. \A s \in Sources \ hist.touched :
             disk[s] = IF disk[StateFile] # Absent THEN "patched" ELSE "stock"
      BY <2>1, RecordedPaths DEF Truthful, TrueOf
    <2>4. \A i \in Items \ hist.touched :
             ItemValue(disk, i) = IF disk[StateFile] # Absent THEN "desired" ELSE "expected"
      BY <2>1, TrueItem
    <2>5. ConfigPresent(disk)
      BY <2>1, RecordedPaths DEF Truthful, TrueOf, ConfigPresent
    <2> QED
      BY <2>2, <2>3, <2>4, <2>5
  <1> QED
    BY <1>1, TruthInvariant, PTL
-----------------------------------------------------------------------------
\* SentinelRecovers.

\* An install or uninstall enters its writing stages with the archive it made.
LEMMA Enters ==
    ASSUME TypeInv, RollbackInv, Next, run'.stage \in Guarded, run'.op # "restore"
    PROVE  \/ BackupLegacyConfig
           \/ Track
           \/ run.stage \in Guarded /\ run'.archive = run.archive /\ run'.op = run.op
  <1> USE StageSets
  <1> DEFINE Goes == run.stage \in Guarded /\ run'.archive = run.archive /\ run'.op = run.op
  <1>0. IsRun(run)
    BY DEF TypeInv, TypeOK
  <1>1. ~Finish
    BY IdleRunFields DEF Finish
  <1>2. ASSUME NEW s, NEW l, NEW p, Goto(s, l) \/ Wrote(p, s, l), run.stage \in Guarded PROVE Goes
    BY <1>0, <1>2, ArchiveFields
  <1>3. ASSUME Raise PROVE Goes \/ run.stage \in Committed
    <2>1. run.journal.writes
      BY <1>1, <1>3 DEF Raise, Finish
    <2>2. run.stage \in Guarded \cup Committed
      BY <1>0, <2>1, SettledStages DEF RollbackInv, IsRun, Settled
    <2> QED
      BY <1>0, <1>3, <2>1, <2>2 DEF Raise, IsRun
  <1>4. ASSUME Commands PROVE run'.stage \in {"plan", "reset", run.stage} \/ run'.op = "restore"
    BY <1>4 DEF Commands, StartInstall, StartUninstall, Start, StartRestore, ClearSentinel, IdleRun
  <1>5. ASSUME Commands PROVE Goes
    <2>1. run.stage = "idle"
      BY <1>5 DEF Commands, StartInstall, StartUninstall, Start, StartRestore, ClearSentinel
    <2> QED
      BY <1>4, <1>5, <2>1
  <1>6. ASSUME Reset PROVE BackupLegacyConfig \/ Goes
    <2>1. ASSUME NEW f, WriteStockConfig(f) PROVE Goes
      <3>1. run.left # {f}
        BY <2>1 DEF WriteStockConfig, IdleRun
      <3>2. \E j : run' = [run EXCEPT !.left = @ \ {f}, !.journal = j]
        BY <2>1, <3>1 DEF WriteStockConfig
      <3>3. run.stage = "resetConfig"
        BY <2>1 DEF WriteStockConfig, Writing
      <3> QED
        BY <1>0, <3>2, <3>3 DEF IsRun
    <2> QED
      BY <1>2, <1>6, <2>1 DEF Reset, SkipLegacyTree, RemoveLegacyTree, Writing
  <1>7. ASSUME Prepare PROVE Track
    <2>1. ASSUME PlanInstall \/ PlanUninstall \/ CreateBackup PROVE run'.stage \in {"backup", "track"}
      BY <1>0, <2>1 DEF PlanInstall, PlanUninstall, CreateBackup, IsRun
    <2> QED
      BY <1>1, <1>7, <2>1 DEF Prepare, Refuse
  <1>8. ASSUME Write PROVE Goes
    <2>1. run.stage \in Guarded \cup {"optimize"}
      BY <1>8 DEF Write, WriteMarker, CheckPreimages, Postflight, WriteState, DeleteState, Commit,
                  Optimize, DeploySource, RestoreSource, InstallExtra, RemoveExtra, MirrorFile,
                  RemoveTreeFile, WriteConfig, Writing
    <2>2. ASSUME WriteMarker \/ \E x \in Extras : InstallExtra(x) \/ RemoveExtra(x)
          PROVE  Goes
      <3>1. WriteMarker => Goes
        BY <1>0 DEF WriteMarker, Writing, IsRun
      <3>2. ASSUME NEW x \in Extras, InstallExtra(x) \/ RemoveExtra(x) PROVE Goes
        BY <1>0, <3>2 DEF InstallExtra, RemoveExtra, Writing, IsRun
      <3> QED
        BY <2>2, <3>1, <3>2
    <2>3. ~(Commit \/ Optimize)
      BY <1>0, GotoFields DEF Commit, Optimize
    <2>4. ASSUME WriteState \/ DeleteState \/ CheckPreimages \/ Postflight PROVE Goes
      BY <1>2, <1>3, <2>1, <2>4 DEF CheckPreimages, Postflight, WriteState, DeleteState, Writing
    <2>5. ASSUME NEW p, DeploySource(p) \/ RestoreSource(p) \/ MirrorFile(p)
                        \/ RemoveTreeFile(p) \/ WriteConfig(p)
          PROVE  Goes
      BY <1>2, <1>3, <2>5
         DEF DeploySource, RestoreSource, MirrorFile, RemoveTreeFile, WriteConfig, Writing
    <2> QED
      BY <1>8, <2>2, <2>3, <2>4, <2>5 DEF Write
  <1>9. ASSUME Restore PROVE FALSE
    <2>1. run.op = "restore"
      BY <1>9 DEF Restore, SwapOut, SwapIn, VerifyRestore, WriteRestoreMarker,
                  RestoreArchivedSource, Writing, TypeInv, StagesOK
    <2> QED
      BY <1>1, <1>9, <2>1, SameCommand DEF Proceed
  <1>10. ASSUME Activation PROVE FALSE
    <2>1. Finish \/ run'.stage \in {"pending", "restarting"}
      <3>1. Activate => Finish \/ run'.stage = "pending"
        BY <1>0 DEF Activate, IsRun
      <3>2. RestartPending \/ AwaitKlipper => Finish \/ Goto("restarting", {})
        BY DEF RestartPending, AwaitKlipper
      <3> QED
        BY <1>0, <1>10, <3>1, <3>2, GotoFields DEF Activation
    <2> QED
      BY <1>1, <2>1
  <1>11. ASSUME Rollback PROVE Goes
    BY <1>0, <1>1, <1>11 DEF Rollback, RollbackDone, RollbackStep, IsRun
  <1>12. ASSUME Faults PROVE Goes
    BY <1>1, <1>3, <1>12 DEF Faults, Fail, RollbackFails, InterruptReset, Crash
  <1>13. ASSUME Environment PROVE Goes
    BY <1>0, <1>13 DEF Environment, EditConfig, EditOwned, Edit, KlipperRestart, StartPrint,
                       EndPrint, IsRun
  <1> QED
    BY <1>5, <1>6, <1>7, <1>8, <1>9, <1>10, <1>11, <1>12, <1>13 DEF Next, Proceed

\* Only a kill, or an interrupted legacy reset, leaves a printer in between.
LEMMA StaysCalm ==
    ASSUME TypeInv, Next, ~Crash
    PROVE  hist'.crashes = hist.crashes /\ (InterruptReset \/ (Calm => Calm'))
  <1> DEFINE Quiet == hist'.crashes = hist.crashes /\ (Calm => Calm')
  <1>0. IsHist(hist)
    BY DEF TypeInv, TypeOK
  <1>1. ASSUME NEW r, hist' = hist \/ hist' = [hist EXCEPT !.archives = r]
               \/ hist' = [hist EXCEPT !.runs = r] \/ hist' = [hist EXCEPT !.faults = r]
               \/ hist' = [hist EXCEPT !.prints = r]
        PROVE  Quiet
    BY <1>0, <1>1 DEF IsHist, Calm
  <1> HIDE DEF Quiet
  <1>2. Commands => Quiet
    BY <1>1 DEF Commands, StartInstall, StartUninstall, Start, ClearSentinel, StartRestore
  <1>3. Proceed => Quiet
    <2>1. Reset \/ Prepare => Quiet
      BY <1>1 DEF Reset, BackupLegacyConfig, SkipLegacyTree, RemoveLegacyTree, WriteStockConfig,
                  Prepare, PlanInstall, PlanUninstall, Refuse, CreateBackup, Track
    <2>2. Write => Quiet
      BY <1>1 DEF Write, WriteMarker, CheckPreimages, Postflight, WriteState, DeleteState, Commit,
                  Optimize, DeploySource, RestoreSource, InstallExtra, RemoveExtra, MirrorFile,
                  RemoveTreeFile, WriteConfig
    <2>3. Restore \/ Activation \/ Rollback => Quiet
      BY <1>1 DEF Restore, SwapOut, SwapIn, VerifyRestore, WriteRestoreMarker,
                  RestoreArchivedSource, Activation, Activate, RestartPending, AwaitKlipper,
                  Rollback, RollbackDone, RollbackStep
    <2> QED
      BY <2>1, <2>2, <2>3 DEF Proceed
  <1>4. Fail \/ RollbackFails => Quiet
    <2>1. RollbackFails => Quiet
      BY <1>0, RollbackFailsNotes DEF Calm, Quiet
    <2> QED
      BY <1>1, <2>1 DEF Fail, Fault
  <1>5. Environment => Quiet
    <2>1. ASSUME NEW paths, NEW items, Edit(paths, items) PROVE Quiet
      BY <1>0, <2>1 DEF Edit, IsHist, Calm, Quiet
    <2>2. KlipperRestart => Quiet
      <3>1. ASSUME KlipperRestart
            PROVE  /\ hist'.crashes = hist.crashes
                   /\ hist'.incidents = hist.incidents \/ hist'.incidents = hist.incidents \cup {"restart"}
        BY <1>0, <3>1 DEF KlipperRestart, IsHist
      <3> QED
        BY <3>1 DEF Calm, Quiet
    <2> QED
      BY <1>1, <2>1, <2>2 DEF Environment, EditConfig, EditOwned, StartPrint, EndPrint
  <1>6. InterruptReset => hist'.crashes = hist.crashes
    BY <1>0 DEF InterruptReset, IsHist
  <1> QED
    BY <1>2, <1>3, <1>4, <1>5, <1>6 DEF Next, Faults, Quiet

LEMMA SentinelMoves ==
    ASSUME TypeInv, Next
    PROVE  sentinel' \in {0, sentinel} \/ RollbackFails
  <1>1. Commands => sentinel' \in {0, sentinel}
    BY DEF Commands, StartInstall, StartUninstall, Start, ClearSentinel, StartRestore
  <1>2. Reset \/ Prepare => sentinel' = sentinel
    BY DEF Reset, BackupLegacyConfig, SkipLegacyTree, RemoveLegacyTree, WriteStockConfig,
           Prepare, PlanInstall, PlanUninstall, Refuse, CreateBackup, Track
  <1>3. Write => sentinel' = sentinel
    BY DEF Write, WriteMarker, CheckPreimages, Postflight, WriteState, DeleteState, Commit,
           Optimize, DeploySource, RestoreSource, InstallExtra, RemoveExtra, MirrorFile,
           RemoveTreeFile, WriteConfig
  <1>4. Restore \/ Activation \/ Rollback => sentinel' = sentinel
    BY DEF Restore, SwapOut, SwapIn, VerifyRestore, WriteRestoreMarker,
           RestoreArchivedSource, Activation, Activate, RestartPending, AwaitKlipper,
           Rollback, RollbackDone, RollbackStep
  <1>5. Fail \/ InterruptReset \/ Crash \/ Environment => sentinel' = sentinel
    BY DEF Fail, InterruptReset, Crash, Environment, EditConfig, EditOwned, Edit,
           KlipperRestart, StartPrint, EndPrint
  <1> QED
    BY <1>1, <1>2, <1>3, <1>4, <1>5 DEF Next, Proceed, Faults

\* What a command that begins to write has in its archive.
LEMMA StepSentinel ==
    ASSUME TypeInv, RollbackInv, ArchiveInv, TruthInv, SentinelInv, ArchiveInv', TruthInv',
           Next
    PROVE  SentinelInv'
  <1>0. IsHist(hist) /\ IsRun(run)
    BY DEF TypeInv, TypeOK
  <1> SUFFICES ASSUME hist'.crashes = 0 PROVE SentinelInv'
    BY DEF SentinelInv
  <1>1. ~Crash
    <2>1. ASSUME Crash PROVE hist'.crashes = hist.crashes + 1 /\ hist.crashes \in Nat
      <3>1. \E i : hist' = [hist EXCEPT !.crashes = @ + 1, !.incidents = i]
        BY <2>1 DEF Crash
      <3> QED
        BY <1>0, <3>1 DEF IsHist
    <2> QED
      BY <2>1
  <1>2. hist.crashes = 0 /\ (InterruptReset \/ (Calm => Calm'))
    BY <1>1, StaysCalm
  <1>3. hist.touched \subseteq hist'.touched
    BY Forward
  <1>4. ~Calm' => IncludeLine \in hist'.touched
    <2>1. ASSUME InterruptReset, Calm PROVE IncludeLine \in hist.touched
      BY <2>1, StageSets DEF InterruptReset, TruthInv, ResetInv, ResetStages
    <2> QED
      BY <1>2, <1>3, <2>1 DEF SentinelInv
  <1> SUFFICES ASSUME IncludeLine \notin hist'.touched
               PROVE  /\ sentinel' # 0 =>
                            /\ sentinel' \in Archives'
                            /\ DOMAIN ArchiveOf(sentinel)'.sources = Sources
                      /\ (run'.op \in {"install", "uninstall"} /\ run'.stage \in Guarded) =>
                            DOMAIN ArchiveOf(run.archive)'.sources = Sources
    BY <1>4 DEF SentinelInv
  <1>5. IncludeLine \notin hist.touched /\ Calm
    BY <1>2, <1>3 DEF SentinelInv
  <1>6. /\ sentinel # 0 => sentinel \in Archives /\ DOMAIN ArchiveOf(sentinel).sources = Sources
        /\ (run.op \in {"install", "uninstall"} /\ run.stage \in Guarded) =>
              DOMAIN ArchiveOf(run.archive).sources = Sources
    BY <1>2, <1>5 DEF SentinelInv
  <1>7. run.stage \notin ResetStages
    BY <1>5 DEF TruthInv, ResetInv
  <1>8. ~BackupLegacyConfig
    BY <1>7, SettledStages DEF BackupLegacyConfig
  <1>9. CASE CreateBackup
    <2>1. run.stage = "backup" /\ run'.stage = "track" /\ sentinel' = sentinel
      BY <1>0, <1>9 DEF CreateBackup, IsRun
    <2>2. run.op # "restore"
      BY <1>9, NoRestore DEF Prepare
    <2>3. sentinel = 0
      BY <2>1, <2>2 DEF TruthInv, UnblockedInv
    <2> QED
      BY <2>1, <2>3, StageSets
  <1>10. CASE UNCHANGED backups
    <2>1. Archives' = Archives /\ \A id : ArchiveOf(id)' = ArchiveOf(id)
      BY <1>10 DEF Archives, ArchiveOf
    <2>4. /\ ArchiveOf(sentinel)' = ArchiveOf(sentinel')
          /\ ArchiveOf(run.archive)' = ArchiveOf(run'.archive)
      BY <1>10 DEF ArchiveOf
    <2>2. ASSUME sentinel' # 0
          PROVE  sentinel' \in Archives' /\ DOMAIN ArchiveOf(sentinel)'.sources = Sources
      <3>1. CASE sentinel' \in {0, sentinel}
        BY <1>6, <2>1, <2>2, <2>4, <3>1
      <3>2. CASE RollbackFails
        <4>1. run.archive \in Archives
          BY <3>2, FailureIsRecorded DEF RollbackFails, TruthInv
        <4>2. run.op # "restore" => DOMAIN ArchiveOf(run.archive).sources = Sources
          BY <1>0, <1>6, <3>2, StageSets DEF RollbackFails, IsRun, Ops, TruthInv, UnblockedInv
        <4>3. run.op = "restore" => DOMAIN ArchiveOf(run.archive).sources = Sources
          BY RestoresTruth
        <4> QED
          BY <2>1, <2>4, <3>2, <4>1, <4>2, <4>3 DEF RollbackFails
      <3> QED
        BY <3>1, <3>2, SentinelMoves
    <2>3. ASSUME run'.op \in {"install", "uninstall"}, run'.stage \in Guarded
          PROVE  DOMAIN ArchiveOf(run.archive)'.sources = Sources
      <3>1. CASE run.stage \in Guarded /\ run'.archive = run.archive /\ run'.op = run.op
        BY <1>6, <2>1, <2>3, <2>4, <3>1
      <3>2. CASE Track
        <4>1. run.stage = "track" /\ run.op \in {"install", "uninstall"}
              /\ run'.archive = run.archive
          BY <1>0, <3>2, NoRestore DEF Track, Prepare, IsRun, Ops, TruthInv, UnblockedInv
        <4>2. DOMAIN ArchiveOf(run.archive).sources = IF run.op = "install" THEN Sources ELSE run.retained
          BY <4>1 DEF ArchiveInv, OwnArchive, Unguarded
        <4>3. run.retained = Sources
          BY <1>5, <4>1, SettledStages DEF TruthInv, LedgerInv, DecidedInv, Sound, UnblockedInv
        <4> QED
          BY <2>1, <2>4, <4>1, <4>2, <4>3
      <3> QED
        BY <1>8, <2>3, <3>1, <3>2, Enters
    <2> QED
      BY <2>2, <2>3
  <1> QED
    BY <1>8, <1>9, <1>10, Forward

LEMMA InitSentinel == Init => SentinelInv
  BY IdleRunFields, StageSets DEF Init, SentinelInv, Calm

\* Until the installer is killed, the archive a recovery sentinel names is kept,
\* complete and of known sources, on a printer with no hand-written include
\* line: restore-backup accepts it.
THEOREM SentinelIsUsable ==
    ASSUME InitialPackages \subseteq {"stock"}
    PROVE  Spec => [](hist.crashes = 0 => SentinelRecovers)
  <1>1. Init => TypeInv /\ RollbackInv /\ ArchiveInv /\ TruthInv /\ SentinelInv
    BY InitTypes, InitRollback, InitArchives, InitTruth, InitSentinel
  <1>2. TypeInv /\ RollbackInv /\ ArchiveInv /\ TruthInv /\ SentinelInv /\ [Next]_vars
          => (TypeInv /\ RollbackInv /\ ArchiveInv /\ TruthInv /\ SentinelInv)'
    <2> SUFFICES ASSUME TypeInv, RollbackInv, ArchiveInv, TruthInv, SentinelInv, [Next]_vars
                 PROVE  (TypeInv /\ RollbackInv /\ ArchiveInv /\ TruthInv /\ SentinelInv)'
      OBVIOUS
    <2>1. (TypeInv /\ RollbackInv /\ ArchiveInv /\ TruthInv)'
      BY StepTypes, StepRollback, StepArchives, StepTruth
    <2>2. CASE UNCHANGED vars
      <3>1. SentinelInv'
        BY <2>2 DEF vars, SentinelInv, Calm, Archives, ArchiveOf
      <3> QED
        BY <2>1, <3>1
    <2> QED
      BY <2>1, <2>2, StepSentinel
  <1>3. TypeInv /\ ArchiveInv /\ TruthInv /\ SentinelInv => (hist.crashes = 0 => SentinelRecovers)
    <2> SUFFICES ASSUME TypeInv, ArchiveInv, TruthInv, SentinelInv, hist.crashes = 0,
                        sentinel # 0, IncludeLine \notin hist.touched
                 PROVE  /\ sentinel \in Archives
                        /\ DOMAIN ArchiveOf(sentinel).sources = Sources
                        /\ \A s \in Sources \ hist.touched : ArchiveOf(sentinel).sources[s] # "other"
      BY DEF SentinelRecovers
    <2>1. /\ Calm /\ sentinel \in Archives
          /\ DOMAIN ArchiveOf(sentinel).sources = Sources
      BY DEF SentinelInv
    <2>2. ArchiveOf(sentinel) \in backups
      <3>1. PICK a \in backups : a.id = sentinel
        BY <2>1 DEF Archives
      <3> QED
        BY <3>1, ArchiveIs DEF ArchiveInv
    <2>3. TruthfulArchive(ArchiveOf(sentinel), hist.touched)
      BY <2>1, <2>2 DEF TruthInv, ArchivesInv
    <2> QED
      BY <2>1, <2>3 DEF TruthfulArchive, TrueOf
  <1> QED
    BY <1>1, <1>2, <1>3, PTL DEF Spec
-----------------------------------------------------------------------------
\* ActivationNeverLost.

\* A step that leaves alone what Klipper loads, what it has loaded, the marker
\* and the sentinel; a source somebody else changes is theirs from then on.
Quiet ==
    /\ disk'[RestartMarker] = disk[RestartMarker]
    /\ \A s \in Sources \ hist'.touched : disk'[s] = disk[s]
    /\ klipper'.pid = klipper.pid /\ klipper'.loaded = klipper.loaded
    /\ sentinel' = sentinel

LEMMA OtherPath ==
    ASSUME TypeInv, NEW p \in ConfigTree \cup Extras, NEW c, disk' = [disk EXCEPT ![p] = c],
           UNCHANGED <<klipper, sentinel>>
    PROVE  Quiet
  <1>1. p \notin Sources \cup {RestartMarker}
    BY PathsAreDistinct DEF ConfigTree
  <1> QED
    BY <1>1 DEF Quiet, TypeInv, TypeOK, WellFormed, Paths

\* The archive of a recovery that is due stays what it is.
LEMMA SameRecovery ==
    ASSUME TypeInv, UnblockedInv, Next, sentinel' = sentinel
    PROVE  \A s : Recovered(s)' = Recovered(s)
  <1>1. CASE UNCHANGED backups
    <2>1. ArchiveOf(sentinel)' = ArchiveOf(sentinel)
      BY <1>1 DEF ArchiveOf
    <2> QED
      BY <2>1 DEF Recovered
  <1>2. CASE BackupLegacyConfig \/ CreateBackup
    <2>1. sentinel = 0
      BY <1>2, NoRestore DEF UnblockedInv, Reset, Prepare
    <2> QED
      BY <2>1 DEF Recovered
  <1> QED
    BY <1>1, <1>2, Forward

LEMMA QuietCovers ==
    ASSUME TypeInv, UnblockedInv, Next, Quiet
    PROVE  /\ Marked(disk) => Marked(disk)'
           /\ Covered(disk) => Covered(disk)'
           /\ run'.before = run.before =>
                 (AsFound => AsFound') /\ (Covered(run.before) => Covered(run.before)')
           /\ run'.before = disk => AsFound' /\ (Covered(disk) => Covered(run.before)')
  <1>1. hist.touched \subseteq hist'.touched
    BY Forward
  <1>2. \A s : Recovered(s)' = Recovered(s)
    BY SameRecovery DEF Quiet
  <1>3. Marked(disk) => Marked(disk)'
    BY DEF Marked, Quiet
  <1>4. Covered(disk) => Covered(disk)'
    BY <1>1, <1>2, <1>3 DEF Covered, Quiet
  <1>5. ASSUME run'.before = run.before
        PROVE  (AsFound => AsFound') /\ (Covered(run.before) => Covered(run.before)')
    BY <1>1, <1>2, <1>5 DEF Covered, Marked, AsFound, Quiet
  <1>6. ASSUME run'.before = disk
        PROVE  AsFound' /\ (Covered(disk) => Covered(run.before)')
    BY <1>1, <1>2, <1>6 DEF Covered, Marked, AsFound, Quiet
  <1> QED
    BY <1>3, <1>4, <1>5, <1>6

\* A command that has not begun a rollback, or has completed it, can end here.
LEMMA CoveredNow ==
    ASSUME ActivationInv, Undisturbed, run.stage = "rollback" => AsFound
    PROVE  Covered(disk)
  <1>1. CASE run.stage \notin Guarded
    BY <1>1 DEF ActivationInv
  <1>2. CASE run.stage \in Guarded
    <2>1. Covered(run.before) /\ (Marked(disk) \/ AsFound)
      BY <1>2 DEF ActivationInv, MarkerInv
    <2> QED
      BY <2>1 DEF Covered, Marked, AsFound
  <1> QED
    BY <1>1, <1>2

\* A quiet step out of, or outside, the writing stages.
LEMMA QuietLeaves ==
    ASSUME TypeInv, UnblockedInv, ActivationInv, Next, Quiet,
           run'.stage \notin Guarded, run.stage = "rollback" => AsFound
    PROVE  ActivationInv'
  <1> SUFFICES ASSUME Undisturbed' PROVE Covered(disk)'
    BY DEF ActivationInv
  <1>1. Undisturbed
    BY Forward DEF Undisturbed
  <1> QED
    BY <1>1, CoveredNow, QuietCovers

\* A quiet step into the writing stages.
LEMMA QuietEnters ==
    ASSUME TypeInv, UnblockedInv, ActivationInv, Next, Quiet,
           run.stage \notin Guarded, run'.stage \notin {"sources", "rollback"},
           run'.before = disk, run'.op = "restore" => run'.pid = klipper.pid
    PROVE  ActivationInv'
  <1> SUFFICES ASSUME Undisturbed', run'.stage \in Guarded PROVE MarkerInv'
    BY QuietLeaves, StageSets DEF ActivationInv
  <1>1. Undisturbed
    BY Forward DEF Undisturbed
  <1>2. AsFound' /\ Covered(run.before)'
    BY <1>1, QuietCovers DEF ActivationInv
  <1> QED
    BY <1>2 DEF MarkerInv, Quiet

\* A quiet step from one writing stage to another.
LEMMA QuietStays ==
    ASSUME TypeInv, UnblockedInv, ActivationInv, Next, Quiet,
           run.stage \in Guarded, run'.stage \in Guarded,
           run.stage = "rollback" => run'.stage = "rollback",
           run'.stage = "sources" => run.stage = "sources",
           run'.before = run.before, run'.op = run.op, run'.pid = run.pid,
           run.journal.writes => run'.journal.writes,
           run'.stage = "rollback" => run.stage = "rollback" \/ run'.journal.writes
    PROVE  ActivationInv'
  <1> SUFFICES ASSUME Undisturbed' PROVE MarkerInv'
    BY DEF ActivationInv
  <1>1. Undisturbed
    BY Forward DEF Undisturbed
  <1>2. MarkerInv
    BY <1>1 DEF ActivationInv
  <1>3. /\ Marked(disk) => Marked(disk)'
        /\ AsFound => AsFound'
        /\ Covered(run.before) => Covered(run.before)'
    BY QuietCovers
  <1>4. disk[RestartMarker] = run.before[RestartMarker]
          => disk'[RestartMarker] = run'.before[RestartMarker]
    BY DEF Quiet
  <1>5. AsFound => disk[RestartMarker] = run.before[RestartMarker]
    BY DEF AsFound
  <1>6. /\ Covered(run.before)'
        /\ (run.op = "restore" => run.pid = klipper.pid)'
    BY <1>2, <1>3 DEF MarkerInv, Quiet
  <1>7. /\ (run.stage = "sources" => Marked(disk))'
        /\ (run.stage \in {"sources", "rollback"} => run.journal.writes)'
        /\ (~run.journal.writes => AsFound)'
    BY <1>2, <1>3 DEF MarkerInv
  <1>8. CASE run'.stage # "rollback"
    <2>1. (Marked(disk) \/ AsFound)'
      BY <1>2, <1>3, <1>8 DEF MarkerInv
    <2> QED
      BY <1>6, <1>7, <1>8, <2>1 DEF MarkerInv
  <1>9. CASE run'.stage = "rollback"
    <2>1. \/ Marked(disk)
          \/ disk[RestartMarker] = run.before[RestartMarker] /\ (run.op = "restore" => AsFound)
      BY <1>2, <1>5 DEF MarkerInv
    <2>2. \/ Marked(disk)'
          \/ /\ disk'[RestartMarker] = run'.before[RestartMarker]
             /\ run'.op = "restore" => AsFound'
      BY <1>3, <1>4, <2>1
    <2> QED
      BY <1>6, <1>7, <1>9, <2>2 DEF MarkerInv
  <1> QED
    BY <1>8, <1>9

LEMMA QuietFinish ==
    ASSUME TypeInv, UnblockedInv, ActivationInv, Next, Quiet, Finish,
           run.stage = "rollback" => AsFound
    PROVE  ActivationInv'
  BY IdleRunFields, StageSets, QuietLeaves DEF Finish

\* An exception in a stage before the last configuration write.
LEMMA QuietRaise ==
    ASSUME TypeInv, RollbackInv, UnblockedInv, ActivationInv, Next, Quiet, Raise,
           run.stage \notin Committed \cup {"rollback"}
    PROVE  ActivationInv'
  <1>0. IsRun(run)
    BY DEF TypeInv, TypeOK
  <1>1. CASE ~run.journal.writes
    BY <1>1, QuietFinish DEF Raise, Finish
  <1>2. CASE run.journal.writes
    <2>1. run.stage \in Guarded
      BY <1>0, <1>2, SettledStages, StageSets DEF RollbackInv, IsRun, Settled
    <2>2. /\ run'.stage = "rollback" /\ run'.before = run.before /\ run'.op = run.op
          /\ run'.pid = run.pid /\ run'.journal = run.journal
      BY <1>0, <1>2 DEF Raise, IsRun
    <2> QED
      BY <1>2, <2>1, <2>2, StageSets, QuietStays
  <1> QED
    BY <1>1, <1>2

\* A step of a command between two stages, or within one.
LEMMA QuietGoes ==
    ASSUME TypeInv, UnblockedInv, ActivationInv, Next, Quiet,
           NEW s, NEW l, NEW p, Goto(s, l) \/ Wrote(p, s, l),
           s \notin {"sources", "rollback"}, run.stage # "rollback",
           run.stage \in Guarded \/ s \notin Guarded
    PROVE  ActivationInv'
  <1>0. IsRun(run)
    BY DEF TypeInv, TypeOK
  <1>1. /\ run'.op = run.op /\ run'.before = run.before /\ run'.stage \in {run.stage, s}
        /\ run.journal.writes => run'.journal.writes
    BY <1>0, TruthFields
  <1>2. run'.pid = run.pid
    BY <1>0 DEF Goto, Wrote, IsRun
  <1>3. CASE run'.stage \notin Guarded
    BY <1>3, QuietLeaves
  <1>4. CASE run.stage \in Guarded /\ run'.stage \in Guarded
    BY <1>1, <1>2, <1>4, QuietStays
  <1> QED
    BY <1>1, <1>3, <1>4

LEMMA ResetActivation ==
    ASSUME TypeInv, RollbackInv, UnblockedInv, ActivationInv, Next, Reset
    PROVE  ActivationInv'
  <1> USE StageSets
  <1>0. IsRun(run)
    BY DEF TypeInv, TypeOK
  <1>1. ASSUME BackupLegacyConfig PROVE ActivationInv'
    <2>1. Quiet
      BY <1>1 DEF BackupLegacyConfig, Quiet
    <2>2. CASE ConfigPresent(disk)
      <3>1. run'.stage = "resetTree" /\ run'.before = disk /\ run'.op = run.op
        BY <1>0, <1>1, <2>2 DEF BackupLegacyConfig, IsRun
      <3>2. run.stage = "reset" /\ run.op # "restore"
        BY <1>1, NoRestore DEF BackupLegacyConfig, Reset
      <3> QED
        BY <2>1, <3>1, <3>2, QuietEnters
    <2>3. CASE ~ConfigPresent(disk)
      BY <1>1, <2>1, <2>3, QuietFinish DEF BackupLegacyConfig
    <2> QED
      BY <2>2, <2>3
  <1>2. ASSUME NEW t \in TreeFiles, RemoveLegacyTree(t) PROVE ActivationInv'
    <2>1. Quiet
      BY <1>2, OtherPath, RecordedPaths DEF RemoveLegacyTree
    <2> QED
      BY <1>2, <2>1, QuietGoes DEF RemoveLegacyTree, Writing
  <1>3. ASSUME SkipLegacyTree PROVE ActivationInv'
    <2>1. Quiet /\ run.stage = "resetTree" /\ Goto("resetConfig", ConfigFiles)
      BY <1>3 DEF SkipLegacyTree, Quiet
    <2> QED
      BY <2>1, QuietGoes
  <1>4. ASSUME NEW f \in ConfigFiles, WriteStockConfig(f) PROVE ActivationInv'
    <2>1. Quiet
      BY <1>4, OtherPath, RecordedPaths DEF WriteStockConfig
    <2>2. CASE run.left = {f}
      <3>1. run'.stage = "plan" /\ run.stage = "resetConfig"
        BY <1>4, <2>2 DEF WriteStockConfig, Writing, IdleRun
      <3> QED
        BY <2>1, <3>1, QuietLeaves
    <2>3. CASE run.left # {f}
      <3> DEFINE k == TrackFiles(run.journal, disk, {f})
                 j == IF disk[f] = StockContent(f) THEN k ELSE NoteWrite(k)
      <3>1. run' = [run EXCEPT !.left = @ \ {f}, !.journal = j]
        BY <1>4, <2>3 DEF WriteStockConfig
      <3>2. k.writes = run.journal.writes /\ (run.journal.writes => NoteWrite(k).writes)
        BY DEF TrackFiles, NoteWrite
      <3>3. run.journal.writes => j.writes
        BY <3>2
      <3> HIDE DEF j
      <3>4. /\ run'.stage = run.stage /\ run'.before = run.before /\ run'.op = run.op
            /\ run'.pid = run.pid /\ run'.journal = j /\ run.stage = "resetConfig"
        BY <1>0, <1>4, <3>1 DEF IsRun, WriteStockConfig, Writing
      <3> QED
        BY <2>1, <3>3, <3>4, QuietStays
    <2> QED
      BY <2>2, <2>3
  <1> QED
    BY <1>1, <1>2, <1>3, <1>4 DEF Reset

LEMMA PrepareActivation ==
    ASSUME TypeInv, RollbackInv, UnblockedInv, ActivationInv, Next, Prepare
    PROVE  ActivationInv'
  <1> USE StageSets
  <1>0. IsRun(run) /\ Quiet
    BY DEF TypeInv, TypeOK, Quiet, Prepare, PlanInstall, PlanUninstall, Refuse, CreateBackup, Track
  <1>1. ASSUME PlanInstall \/ PlanUninstall \/ CreateBackup PROVE ActivationInv'
    <2>1. run'.stage \in {"backup", "track"} /\ run.stage # "rollback"
      BY <1>0, <1>1 DEF PlanInstall, PlanUninstall, CreateBackup, IsRun
    <2> QED
      BY <1>0, <2>1, QuietLeaves
  <1>2. ASSUME Refuse PROVE ActivationInv'
    BY <1>0, <1>2, QuietFinish DEF Refuse
  <1>3. ASSUME Track PROVE ActivationInv'
    <2>1. run'.stage \in {"marker", "extras", "check"} /\ run'.before = disk /\ run'.op = run.op
      BY <1>0, <1>3 DEF Track, IsRun
    <2>2. run.stage = "track" /\ run.op # "restore"
      BY <1>3, NoRestore DEF Track, Prepare
    <2> QED
      BY <1>0, <2>1, <2>2, QuietEnters
  <1> QED
    BY <1>1, <1>2, <1>3 DEF Prepare

LEMMA MarkerIsThere ==
    ASSUME NEW srcs \in SUBSET Sources, NEW targets \in [srcs -> SourceContents], NEW pid \in Nat
    PROVE  Marker(targets, pid) # Absent /\ Marker(targets, pid).pid = pid
  <1>1. targets \in PartialFunctions(Sources, SourceContents)
    BY DEF PartialFunctions
  <1>2. Marker(targets, pid) \in MarkerContents
    BY <1>1 DEF Marker, MarkerContents
  <1>3. RestartMarker \in Paths /\ MarkerContents = ContentOf(RestartMarker)
    BY PathsAreDistinct DEF ContentOf, Paths, ConfigTree
  <1> QED
    BY <1>2, <1>3, AbsentIsNoContent DEF Marker

\* A write under a marker of the process that runs.
LEMMA MarkedStays ==
    ASSUME TypeInv, UnblockedInv, ActivationInv, Next,
           UNCHANGED <<klipper, sentinel>>, run.stage \in Guarded, run'.before = run.before,
           run'.op = "restore" => run.op = "restore" /\ run'.pid = run.pid,
           Undisturbed' => Marked(disk)' /\ run'.journal.writes
    PROVE  ActivationInv'
  <1> SUFFICES ASSUME Undisturbed'
               PROVE  IF run'.stage \in Guarded THEN MarkerInv' ELSE Covered(disk)'
    BY DEF ActivationInv
  <1>1. Undisturbed
    BY Forward DEF Undisturbed
  <1>2. Covered(run.before) /\ (run.op = "restore" => run.pid = klipper.pid)
    BY <1>1 DEF ActivationInv, MarkerInv
  <1>3. hist.touched \subseteq hist'.touched /\ \A s : Recovered(s)' = Recovered(s)
    BY Forward, SameRecovery
  <1>4. Covered(run.before)'
    BY <1>2, <1>3 DEF Covered, Marked
  <1>5. (run.op = "restore" => run.pid = klipper.pid)'
    BY <1>2
  <1>6. MarkerInv'
    BY <1>4, <1>5 DEF MarkerInv
  <1> QED
    BY <1>6 DEF Covered

\* A replaced source is replaced under the marker.
LEMMA SourceWritten ==
    ASSUME TypeInv, UnblockedInv, ActivationInv, Next, UNCHANGED <<klipper, sentinel>>,
           run.stage = "sources", NEW s \in Sources, NEW c, disk' = [disk EXCEPT ![s] = c],
           NEW stage, NEW l, Wrote(s, stage, l)
    PROVE  ActivationInv'
  <1>0. IsRun(run) /\ WellFormed(disk)
    BY DEF TypeInv, TypeOK
  <1>1. /\ run'.op = run.op /\ run'.before = run.before /\ run'.journal.writes
        /\ run'.pid = run.pid
    <2>1. run'.pid = run.pid
      BY <1>0 DEF Wrote, IsRun
    <2> QED
      BY <1>0, <2>1, TruthFields
  <1>2. ASSUME Undisturbed' PROVE Marked(disk)'
    <2>1. Undisturbed
      BY <1>2, Forward DEF Undisturbed
    <2>2. Marked(disk)
      BY <2>1, StageSets DEF ActivationInv, MarkerInv
    <2>3. disk'[RestartMarker] = disk[RestartMarker]
      BY <1>0, PathsAreDistinct DEF WellFormed, Paths
    <2> QED
      BY <2>2, <2>3 DEF Marked
  <1> QED
    BY <1>1, <1>2, StageSets, MarkedStays

LEMMA WriteActivation ==
    ASSUME TypeInv, RollbackInv, UnblockedInv, ActivationInv, Next, Write
    PROVE  ActivationInv'
  <1> USE StageSets, AfterConfigStage, RecordedPaths
  <1>0. IsRun(run) /\ WellFormed(disk) /\ IsKlipper(klipper)
    BY DEF TypeInv, TypeOK
  <1>1. ASSUME WriteMarker PROVE ActivationInv'
    <2> DEFINE content == IF run.op = "install" THEN "patched" ELSE "stock"
               targets == [s \in run.apply |-> content]
               k == TrackFiles(run.journal, disk, {RestartMarker})
               j == NoteWrite(k)
    <2>1. targets \in [run.apply -> SourceContents] /\ run.apply \in SUBSET Sources
      BY <1>0 DEF IsRun, SourceContents
    <2>2. disk' = [disk EXCEPT ![RestartMarker] = Marker(targets, klipper.pid)]
      BY <1>1 DEF WriteMarker
    <2>3. j.writes
      BY DEF TrackFiles, NoteWrite
    <2>4. run' = [run EXCEPT !.journal = j, !.stage = "sources", !.left = run.apply]
      BY <1>1 DEF WriteMarker
    <2> HIDE DEF targets, j
    <2>5. klipper.pid \in Nat /\ RestartMarker \in Paths
      BY <1>0, HeldMarker DEF IsKlipper
    <2>6. disk'[RestartMarker] = Marker(targets, klipper.pid) /\ UNCHANGED <<klipper, sentinel>>
      BY <1>0, <1>1, <2>2, <2>5 DEF WellFormed, WriteMarker
    <2>7. Marked(disk)'
      BY <2>1, <2>5, <2>6, MarkerIsThere DEF Marked
    <2>8. run'.journal = j /\ run'.before = run.before /\ run'.op = run.op /\ run'.pid = run.pid
      BY <1>0, <2>4 DEF IsRun
    <2>9. run.stage \in Guarded
      BY <1>1 DEF WriteMarker, Writing
    <2> QED
      BY <2>3, <2>6, <2>7, <2>8, <2>9, MarkedStays
  <1>2. ASSUME NEW s \in Sources, DeploySource(s) PROVE ActivationInv'
    BY <1>2, SourceWritten DEF DeploySource, Writing
  <1>3. ASSUME NEW s \in Sources, RestoreSource(s) PROVE ActivationInv'
    <2>1. CASE disk[s] = "other"
      <3>1. Quiet /\ Raise /\ run.stage = "sources"
        BY <1>3, <2>1 DEF RestoreSource, Quiet, Writing
      <3> QED
        BY <3>1, QuietRaise
    <2>2. CASE disk[s] # "other"
      BY <1>3, <2>2, SourceWritten DEF RestoreSource, Writing
    <2> QED
      BY <2>1, <2>2
  <1>4. ASSUME NEW x \in Extras, InstallExtra(x) \/ RemoveExtra(x) PROVE ActivationInv'
    <2>1. Quiet /\ run.stage = "extras"
      BY <1>4, OtherPath DEF InstallExtra, RemoveExtra, Writing
    <2> DEFINE k == TrackFiles(run.journal, disk, {x})
               j == IF InstallExtra(x)
                    THEN IF disk[x] = "packaged" THEN run.journal ELSE NoteWrite(k)
                    ELSE IF disk[x] = "packaged" THEN NoteWrite(run.journal) ELSE run.journal
               left == IF run.left = {x} THEN TreeFiles ELSE run.left \ {x}
               stage == IF run.left = {x} THEN "tree" ELSE run.stage
    <2>2. run' = [run EXCEPT !.journal = j, !.left = left, !.stage = stage]
      BY <1>0, <1>4 DEF InstallExtra, RemoveExtra, IsRun
    <2>3. k.writes = run.journal.writes
      BY DEF TrackFiles
    <2>4. run.journal.writes => j.writes
      BY <1>0, <2>3 DEF NoteWrite, IsRun, IsJournal
    <2>5. stage \in {"tree", "extras"}
      BY <2>1
    <2> HIDE DEF j, left, stage
    <2>6. /\ run'.journal = j /\ run'.before = run.before /\ run'.op = run.op
          /\ run'.pid = run.pid /\ run'.stage = stage
      BY <1>0, <2>2 DEF IsRun
    <2> QED
      BY <2>1, <2>4, <2>5, <2>6, QuietStays
  <1>5. ASSUME NEW t \in TreeFiles, MirrorFile(t) PROVE ActivationInv'
    <2>1. Quiet /\ run.stage = "tree"
      BY <1>5, OtherPath DEF MirrorFile, Writing
    <2>2. CASE disk[t] = "packaged"
      <3>1. ASSUME NEW s \in {"tree", "check"}, Goto(s, run.left \ {t}) PROVE ActivationInv'
        BY <2>1, <3>1, QuietGoes
      <3> QED
        BY <1>5, <2>2, <3>1 DEF MirrorFile
    <2>3. CASE disk[t] # "packaged"
      BY <1>5, <2>1, <2>3, QuietGoes DEF MirrorFile
    <2> QED
      BY <2>2, <2>3
  <1>6. ASSUME NEW t \in TreeFiles, RemoveTreeFile(t) PROVE ActivationInv'
    <2>1. Quiet /\ run.stage = "tree"
      BY <1>6, OtherPath DEF RemoveTreeFile, Writing
    <2> QED
      BY <1>6, <2>1, QuietGoes DEF RemoveTreeFile
  <1>7. ASSUME NEW f \in ConfigFiles, WriteConfig(f) PROVE ActivationInv'
    <2>1. Quiet /\ run.stage = "config"
      BY <1>7, OtherPath DEF WriteConfig
    <2> QED
      BY <1>7, <2>1, QuietGoes DEF WriteConfig
  <1>8. ASSUME CheckPreimages \/ Postflight PROVE ActivationInv'
    <2>1. Quiet /\ run.stage \in {"check", "postflight"}
      BY <1>8 DEF CheckPreimages, Postflight, Quiet
    <2>2. CASE Raise
      BY <2>1, <2>2, QuietRaise
    <2>3. ASSUME NEW s \in {"postflight", "extras", "config", "state"}, NEW l, Goto(s, l)
          PROVE  ActivationInv'
      BY <2>1, <2>3, QuietGoes
    <2> QED
      BY <1>8, <2>2, <2>3 DEF CheckPreimages, Postflight
  <1>9. ASSUME WriteState \/ DeleteState PROVE ActivationInv'
    <2>1. Quiet /\ run.stage = "state"
      BY <1>9, OtherPath DEF WriteState, DeleteState, Writing
    <2> QED
      BY <1>9, <2>1, StageSets, QuietGoes DEF WriteState, DeleteState
  <1>10. ASSUME Commit \/ Optimize PROVE ActivationInv'
    <2>1. Quiet /\ run.stage \in {"state", "optimize"}
      BY <1>10 DEF Commit, Optimize, Quiet
    <2>2. Goto("optimize", {}) \/ Goto("activate", {})
      BY <1>10 DEF Commit, Optimize
    <2> QED
      BY <1>10, <2>1, <2>2, StageSets, QuietGoes
  <1> QED
    BY <1>1, <1>2, <1>3, <1>4, <1>5, <1>6, <1>7, <1>8, <1>9, <1>10 DEF Write

\* Only an edit adds to what others edited ...
LEMMA EditedMoves ==
    ASSUME TypeInv, Next
    PROVE  Environment \/ run'.edited \in {run.edited, {}}
  <1> DEFINE Kept == run'.edited \in {run.edited, {}}
  <1>0. IsRun(run)
    BY DEF TypeInv, TypeOK
  <1>1. ASSUME Finish PROVE Kept
    BY <1>1, IdleRunFields DEF Finish
  <1>2. ASSUME NEW s, NEW l, NEW p, Goto(s, l) \/ Wrote(p, s, l) PROVE Kept
    BY <1>0, <1>2, ArchiveFields
  <1>3. ASSUME Raise PROVE Kept
    BY <1>0, <1>1, <1>3 DEF Raise, Finish, IsRun
  <1>4. ASSUME Commands PROVE Kept
    BY <1>0, <1>4
       DEF Commands, StartInstall, StartUninstall, Start, ClearSentinel, StartRestore, IdleRun
  <1>5. ASSUME Reset PROVE Kept
    <2>1. ASSUME BackupLegacyConfig \/ \E f \in ConfigFiles : WriteStockConfig(f) PROVE Kept
      BY <1>0, <1>1, <2>1 DEF BackupLegacyConfig, WriteStockConfig, IdleRun, IsRun
    <2> QED
      BY <1>2, <1>5, <2>1 DEF Reset, SkipLegacyTree, RemoveLegacyTree
  <1>6. ASSUME Prepare PROVE Kept
    <2>1. ASSUME PlanInstall \/ PlanUninstall \/ CreateBackup \/ Track
          PROVE  run'.edited = run.edited
      <3>1. PlanInstall \/ PlanUninstall => run'.edited = run.edited
        BY <1>0 DEF PlanInstall, PlanUninstall, IsRun
      <3>2. CreateBackup \/ Track => run'.edited = run.edited
        BY <1>0 DEF CreateBackup, Track, IsRun
      <3> QED
        BY <2>1, <3>1, <3>2
    <2> QED
      BY <1>1, <1>6, <2>1 DEF Prepare, Refuse
  <1>7. ASSUME Write PROVE Kept
    <2>1. ASSUME WriteMarker \/ \E x \in Extras : InstallExtra(x) \/ RemoveExtra(x)
          PROVE  Kept
      BY <1>0, <2>1 DEF WriteMarker, InstallExtra, RemoveExtra, IsRun
    <2> QED
      BY <1>2, <1>3, <1>7, <2>1
         DEF Write, CheckPreimages, Postflight, WriteState, DeleteState, Commit, Optimize,
             DeploySource, RestoreSource, MirrorFile, RemoveTreeFile, WriteConfig
  <1>8. ASSUME Restore \/ Activation \/ Rollback PROVE Kept
    <2>1. ASSUME Activate \/ \E p \in Paths : RollbackStep(p) PROVE Kept
      BY <1>0, <1>1, <2>1 DEF Activate, RollbackStep, IsRun
    <2> QED
      BY <1>1, <1>2, <1>3, <1>8, <2>1
         DEF Restore, SwapOut, SwapIn, VerifyRestore, WriteRestoreMarker, RestoreArchivedSource,
             Activation, RestartPending, AwaitKlipper, Rollback, RollbackDone
  <1>9. ASSUME Faults PROVE Kept
    BY <1>1, <1>3, <1>9 DEF Faults, Fail, RollbackFails, InterruptReset, Crash
  <1> QED
    BY <1>4, <1>5, <1>6, <1>7, <1>8, <1>9 DEF Next, Proceed

\* ... and a source they edit is theirs.
LEMMA StepEdited ==
    ASSUME TypeInv, EditedInv, Next
    PROVE  EditedInv'
  <1>0. IsRun(run) /\ IsHist(hist) /\ hist.touched \subseteq hist'.touched
    BY Forward DEF TypeInv, TypeOK
  <1>1. ASSUME run'.edited \in {run.edited, {}} PROVE EditedInv'
    BY <1>0, <1>1 DEF EditedInv
  <1>2. ASSUME Environment PROVE EditedInv'
    <2>1. ASSUME NEW p \in Paths \ {RestartMarker}, NEW items, Edit({p}, items),
                 p \in Sources => p \in items
          PROVE  EditedInv'
      <3> DEFINE edited == IF run.before = NoFiles THEN run.edited ELSE run.edited \cup {p}
      <3>1. run' = [run EXCEPT !.edited = edited]
        BY <1>0, <2>1 DEF Edit, IsRun
      <3>2. run'.edited = edited
        BY <1>0, <3>1 DEF IsRun
      <3>3. items \subseteq hist'.touched
        BY <1>0, <2>1 DEF Edit, Theirs, IsHist
      <3> QED
        BY <1>0, <2>1, <3>2, <3>3 DEF EditedInv
    <2>2. ASSUME NEW i \in Items, NEW v \in Values, EditConfig(i, v) PROVE EditedInv'
      BY <2>1, <2>2, ItemsAreDistinct, PathsAreDistinct DEF EditConfig, Paths, ConfigTree
    <2>3. ASSUME NEW p \in TreeFiles \cup Extras \cup Sources, EditOwned(p) PROVE EditedInv'
      BY <2>1, <2>3, PathsAreDistinct DEF EditOwned, Paths, ConfigTree
    <2> QED
      BY <1>0, <1>1, <1>2, <2>2, <2>3 DEF Environment, KlipperRestart, StartPrint, EndPrint
  <1> QED
    BY <1>1, <1>2, EditedMoves

\* A restore tracks the marker before the sources, and nothing after them.
LEMMA StepMarkerLast ==
    ASSUME TypeInv, MarkerLastInv, Next
    PROVE  MarkerLastInv'
  <1>0. IsRun(run)
    BY DEF TypeInv, TypeOK
  <1>1. ASSUME run'.op # "restore" PROVE MarkerLastInv'
    BY <1>1 DEF MarkerLastInv
  <1>2. ASSUME run.op = "restore", run.stage \in Guarded, run'.journal.trees = run.journal.trees,
               run'.journal.rank = run.journal.rank
        PROVE  MarkerLastInv'
    BY <1>2 DEF MarkerLastInv
  <1>3. ASSUME Finish PROVE MarkerLastInv'
    BY <1>1, <1>3, IdleRunFields DEF Finish
  <1>4. ASSUME NEW s, NEW l, NEW p, Goto(s, l) \/ Wrote(p, s, l), run.op = "restore",
               run.stage \in Guarded
        PROVE  MarkerLastInv'
    <2>1. run'.journal \in {run.journal, NoteWrite(run.journal)}
      BY <1>0, <1>4 DEF Goto, Wrote, IsRun
    <2>2. /\ NoteWrite(run.journal).trees = run.journal.trees
          /\ NoteWrite(run.journal).rank = run.journal.rank
      BY <1>0 DEF NoteWrite, IsRun, IsJournal
    <2> QED
      BY <1>2, <1>4, <2>1, <2>2
  <1>5. ASSUME Raise, run.op = "restore", run.stage \in Guarded PROVE MarkerLastInv'
    BY <1>2, <1>3, <1>4, <1>5 DEF Raise, Finish, Goto
  <1>6. ASSUME Commands PROVE MarkerLastInv'
    <2>1. ASSUME NEW op \in {"install", "uninstall"}, NEW stage, Start(op, stage)
          PROVE  MarkerLastInv'
      BY <1>1, <2>1 DEF Start, IdleRun
    <2>2. ASSUME ClearSentinel PROVE MarkerLastInv'
      BY <2>2, StageSets DEF ClearSentinel, MarkerLastInv
    <2>3. ASSUME NEW id, StartRestore(id) PROVE MarkerLastInv'
      <3> DEFINE a == TrackTree(EmptyJournal, disk, ConfigTree)
                 b == TrackFiles(a, disk, {RestartMarker})
                 j == TrackFiles(b, disk, Sources)
                 k == NoteWrite(j)
      <3>1. run' = [IdleRun EXCEPT !.op = "restore", !.stage = "swapOut", !.archive = id,
                                   !.pid = klipper.pid, !.before = disk, !.journal = k]
        BY <2>3 DEF StartRestore
      <3>2. run'.journal = k
        BY <3>1 DEF IdleRun
      <3>3. /\ a.trees \subseteq ConfigTree /\ DOMAIN a.rank = ConfigTree /\ a.ranks = 1
        BY SMTT(30) DEF TrackTree, TrackFiles, EmptyJournal, Extended, NoFiles
      <3> HIDE DEF a
      <3>4. /\ b.trees = a.trees /\ b.ranks = 2 /\ DOMAIN b.rank = ConfigTree \cup {RestartMarker}
            /\ b.rank[RestartMarker] = 2
        BY <3>3, PathsAreDistinct DEF TrackFiles, Extended, ConfigTree
      <3> HIDE DEF b
      <3>5. /\ k.trees = a.trees /\ k.rank[RestartMarker] = 2
            /\ \A s \in Sources : k.rank[s] = 3
        BY <3>4, PathsAreDistinct DEF TrackFiles, Extended, NoteWrite, ConfigTree
      <3>6. (Sources \cup {RestartMarker}) \cap ConfigTree = {}
        BY PathsAreDistinct DEF ConfigTree
      <3> HIDE DEF k
      <3> QED
        BY <3>2, <3>3, <3>5, <3>6 DEF MarkerLastInv
    <2> QED
      BY <1>6, <2>1, <2>2, <2>3 DEF Commands, StartInstall, StartUninstall
  <1>7. ASSUME Reset \/ Prepare \/ Write PROVE MarkerLastInv'
    BY <1>1, <1>3, <1>7, NoRestore, SameCommand DEF Proceed
  <1>8. ASSUME Restore PROVE MarkerLastInv'
    <2>1. run.op = "restore" /\ run.stage \in Guarded
      BY <1>8, StageSets DEF Restore, SwapOut, SwapIn, VerifyRestore, WriteRestoreMarker,
         RestoreArchivedSource, Writing, TypeInv, StagesOK
    <2> QED
      BY <1>4, <1>5, <1>8, <2>1 DEF Restore, SwapOut, SwapIn, VerifyRestore, WriteRestoreMarker,
         RestoreArchivedSource
  <1>9. ASSUME Activation PROVE MarkerLastInv'
    <2>1. Finish \/ run'.stage \in Committed
      BY <1>0, <1>9, ActivationGoes
    <2> QED
      BY <1>3, <2>1, StageSets DEF MarkerLastInv
  <1>10. ASSUME Rollback PROVE MarkerLastInv'
    <2>1. ASSUME NEW p, RollbackStep(p) PROVE MarkerLastInv'
      <3>1. /\ run'.journal.trees = run.journal.trees /\ run'.journal.rank = run.journal.rank
            /\ run'.op = run.op /\ run.stage = "rollback"
        BY <1>0, <2>1 DEF RollbackStep, Restored, IsRun, IsJournal
      <3> QED
        BY <1>1, <1>2, <3>1, StageSets
    <2> QED
      BY <1>3, <1>10, <2>1 DEF Rollback, RollbackDone
  <1>11. ASSUME Faults PROVE MarkerLastInv'
    <2>1. ASSUME Fail, ~Finish PROVE MarkerLastInv'
      <3>1. Raise /\ run.stage \notin Committed /\ run'.op = run.op
            /\ run'.journal = run.journal
        BY <1>0, <2>1 DEF Fail, Raise, Finish, IsRun
      <3>2. run.op = "restore" => run.stage \in Guarded
        BY <3>1, <2>1, StageSets DEF TypeInv, StagesOK, RestoreStages, Fail
      <3> QED
        BY <1>1, <1>2, <3>1, <3>2
    <2> QED
      BY <1>3, <1>11, <2>1 DEF Faults, RollbackFails, InterruptReset, Crash
  <1>12. ASSUME Environment PROVE MarkerLastInv'
    <2>1. run'.op = run.op /\ run'.stage = run.stage /\ run'.journal = run.journal
      BY <1>0, <1>12 DEF Environment, EditConfig, EditOwned, Edit, KlipperRestart, StartPrint,
                        EndPrint, IsRun
    <2> QED
      BY <2>1 DEF MarkerLastInv
  <1> QED
    BY <1>6, <1>7, <1>8, <1>9, <1>10, <1>11, <1>12 DEF Next, Proceed

LEMMA CommandActivation ==
    ASSUME TypeInv, ArchiveInv, UnblockedInv, ActivationInv, Next, Commands
    PROVE  ActivationInv'
  <1> USE StageSets
  <1>1. ASSUME NEW op, NEW stage \in {"reset", "plan"}, Start(op, stage) PROVE ActivationInv'
    <2>1. Quiet /\ run'.stage = stage /\ run.stage = "idle"
      BY <1>1 DEF Start, Quiet, IdleRun
    <2> QED
      BY <2>1, QuietLeaves
  <1>2. ASSUME NEW id, StartRestore(id) PROVE ActivationInv'
    <2>1. /\ Quiet /\ run'.stage = "swapOut" /\ run'.before = disk /\ run'.pid = klipper.pid
          /\ run.stage = "idle"
      BY <1>2 DEF StartRestore, Quiet, IdleRun
    <2> QED
      BY <2>1, QuietEnters
  <1>3. ASSUME ClearSentinel PROVE ActivationInv'
    <2> SUFFICES ASSUME Undisturbed' PROVE Covered(disk)'
      BY <1>3 DEF ClearSentinel, ActivationInv
    <2>1. Undisturbed /\ run.stage \notin Guarded
      BY <1>3 DEF ClearSentinel, Undisturbed
    <2>2. Covered(disk)
      BY <2>1 DEF ActivationInv
    <2>3. \A s \in Sources : Recovered(s) \subseteq {disk[s]}
      BY <1>3 DEF ClearSentinel, MatchesArchive, Recovered
    <2> QED
      BY <1>3, <2>2, <2>3 DEF ClearSentinel, Covered, Marked
  <1> QED
    BY <1>1, <1>2, <1>3 DEF Commands, StartInstall, StartUninstall

LEMMA RestoreActivation ==
    ASSUME TypeInv, RollbackInv, UnblockedInv, NotedInv, ActivationInv, Next, Restore
    PROVE  ActivationInv'
  <1> USE StageSets, RecordedPaths
  <1>0. IsRun(run) /\ WellFormed(disk)
    BY DEF TypeInv, TypeOK
  <1>1. ASSUME SwapOut \/ SwapIn PROVE ActivationInv'
    <2>1. (Sources \cup {RestartMarker}) \cap ConfigTree = {}
      BY PathsAreDistinct DEF ConfigTree
    <2>2. Quiet /\ run.stage \in {"swapOut", "swapIn"}
      BY <1>1, <2>1, StagesAndPaths DEF SwapOut, SwapIn, Quiet
    <2>3. ASSUME NEW s \in {"swapIn", "verify"}, Goto(s, {}) PROVE ActivationInv'
      BY <2>2, <2>3, QuietGoes
    <2> QED
      BY <1>1, <2>3 DEF SwapOut, SwapIn
  <1>2. ASSUME VerifyRestore PROVE ActivationInv'
    <2>1. Quiet /\ run.stage = "verify"
      BY <1>2 DEF VerifyRestore, Quiet
    <2>2. CASE Raise
      BY <2>1, <2>2, QuietRaise
    <2>3. CASE Goto("marker", {RestartMarker})
      BY <2>1, <2>3, QuietGoes
    <2> QED
      BY <1>2, <2>2, <2>3 DEF VerifyRestore
  <1>3. ASSUME WriteRestoreMarker PROVE ActivationInv'
    <2>1. run.op = "restore" /\ run.stage = "marker" /\ run.journal.writes
      BY <1>3 DEF WriteRestoreMarker, Writing, NotedInv
    <2>2. /\ run'.stage = "sources" /\ run'.op = run.op /\ run'.before = run.before
          /\ run'.journal = run.journal /\ run'.pid = run.pid
      BY <1>0, <1>3 DEF WriteRestoreMarker, Goto, IsRun
    <2>3. ArchiveOf(run.archive).sources \in [Sources -> SourceContents] /\ run.pid \in Nat
      BY <1>0, <2>1, RestoredArchive DEF IsRun
    <2>4. disk'[RestartMarker] = Marker(ArchiveOf(run.archive).sources, run.pid)
      BY <1>0, <1>3, HeldMarker DEF WriteRestoreMarker, WellFormed
    <2>5. disk'[RestartMarker] # Absent /\ disk'[RestartMarker].pid = run.pid
      BY <2>3, <2>4, MarkerIsThere
    <2>6. ASSUME Undisturbed' PROVE Marked(disk)'
      <3>1. run.pid = klipper.pid
        BY <2>1, <2>6, Forward DEF Undisturbed, ActivationInv, MarkerInv
      <3> QED
        BY <1>3, <2>5, <3>1 DEF WriteRestoreMarker, Marked
    <2> QED
      BY <1>3, <2>1, <2>2, <2>6, MarkedStays DEF WriteRestoreMarker
  <1>4. ASSUME NEW s \in Sources, RestoreArchivedSource(s) PROVE ActivationInv'
    BY <1>4, SourceWritten DEF RestoreArchivedSource, Writing
  <1> QED
    BY <1>1, <1>2, <1>3, <1>4 DEF Restore

\* A marker goes when the process it was written for is gone.
LEMMA ActivationActivation ==
    ASSUME TypeInv, UnblockedInv, ActivationInv, Next, Activation
    PROVE  ActivationInv'
  <1> USE StageSets
  <1>0. IsRun(run) /\ WellFormed(disk) /\ IsKlipper(klipper)
    BY DEF TypeInv, TypeOK
  <1>1. run.stage \in {"activate", "pending", "restarting"}
    BY DEF Activation, Activate, RestartPending, AwaitKlipper
  <1>2. run'.stage \notin Guarded
    <2>1. Finish \/ run'.stage \in Committed
      BY <1>0, GotoFields DEF Activation, Activate, RestartPending, AwaitKlipper, IsRun
    <2> QED
      BY <2>1, IdleRunFields DEF Finish
  <1>3. ASSUME Quiet PROVE ActivationInv'
    BY <1>1, <1>2, <1>3, QuietLeaves
  <1>4. ASSUME disk' = [disk EXCEPT ![RestartMarker] = Absent], Replaced,
               UNCHANGED <<klipper, sentinel>>
        PROVE  ActivationInv'
    <2> SUFFICES ASSUME Undisturbed' PROVE Covered(disk)'
      BY <1>2 DEF ActivationInv
    <2>1. Covered(disk)
      BY <1>1, Forward DEF Undisturbed, ActivationInv
    <2>2. ~Marked(disk)
      BY <1>4 DEF Replaced, OldPid, Marked
    <2>3. \A s \in Sources : disk'[s] = disk[s]
      BY <1>0, <1>4, PathsAreDistinct DEF WellFormed, Paths
    <2>4. hist.touched \subseteq hist'.touched /\ \A s : Recovered(s)' = Recovered(s)
      BY <1>4, Forward, SameRecovery
    <2> QED
      BY <1>4, <2>1, <2>2, <2>3, <2>4 DEF Covered
  <1>5. ASSUME klipper' = Restarted(disk), UNCHANGED disk PROVE ActivationInv'
    <2>1. \A s \in Sources : klipper'.loaded[s] = disk'[s]
      BY <1>5 DEF Restarted, Sourced
    <2> QED
      BY <1>2, <2>1 DEF ActivationInv, Covered
  <1>6. ASSUME Activate PROVE ActivationInv'
    <2>1. klipper'.pid = klipper.pid /\ klipper'.loaded = klipper.loaded
      BY <1>0, <1>6 DEF Activate, IsKlipper
    <2> QED
      BY <1>3, <1>6, <2>1 DEF Activate, Quiet
  <1>7. ASSUME RestartPending PROVE ActivationInv'
    <2>1. ASSUME UNCHANGED <<disk, klipper>> PROVE Quiet
      BY <1>7, <2>1 DEF RestartPending, Quiet
    <2> QED
      BY <1>3, <1>4, <1>5, <1>7, <2>1 DEF RestartPending
  <1>8. ASSUME AwaitKlipper PROVE ActivationInv'
    <2>1. ASSUME UNCHANGED disk PROVE Quiet
      BY <1>8, <2>1 DEF AwaitKlipper, Quiet
    <2> QED
      BY <1>3, <1>4, <1>8, <2>1 DEF AwaitKlipper
  <1> QED
    BY <1>6, <1>7, <1>8 DEF Activation

\* What a rollback puts back of the sources and the marker is what it found.
LEMMA Exempted ==
    ASSUME EditedInv
    PROVE  \A p \in (Sources \ hist.touched) \cup {RestartMarker} : p \in Paths \ Exempt
  BY PathsAreDistinct DEF EditedInv, Exempt, Paths

LEMMA RollbackActivation ==
    ASSUME TypeInv, RollbackInv, UnblockedInv, EditedInv, MarkerLastInv, ActivationInv, Next,
           Rollback
    PROVE  ActivationInv'
  <1> USE StageSets
  <1>0. IsRun(run) /\ WellFormed(disk) /\ IsJournal(run.journal)
    BY DEF TypeInv, TypeOK, IsRun
  <1>1. run.stage = "rollback"
    BY DEF Rollback, RollbackDone, RollbackStep
  <1>2. \A p \in (Sources \ hist.touched) \cup {RestartMarker} : Recoverable(p)
    BY <1>1, Exempted DEF RollbackInv
  <1>3. ASSUME RollbackDone PROVE ActivationInv'
    <2>1. AsFound
      BY <1>2, <1>3 DEF RollbackDone, Recoverable, AsFound
    <2>2. Quiet /\ Finish
      BY <1>3 DEF RollbackDone, Quiet
    <2> QED
      BY <2>1, <2>2, QuietFinish
  <1>4. ASSUME NEW p \in Paths, RollbackStep(p) PROVE ActivationInv'
    <2>1. /\ run'.before = run.before /\ run'.op = run.op /\ run'.pid = run.pid
          /\ run'.journal.writes = run.journal.writes /\ run'.stage = "rollback"
      BY <1>0, <1>4 DEF RollbackStep, Restored, IsRun, IsJournal
    <2>2. p \in run.journal.todo /\ p \in Tracked(run.journal)
      BY <1>0, <1>4 DEF RollbackStep, NextToRestore, IsJournal
    <2>3. disk' = [disk EXCEPT ![p] = run.journal.snap[p]] /\ UNCHANGED <<klipper, sentinel, hist>>
      BY <1>4 DEF RollbackStep
    <2>4. \A q \in Paths : disk'[q] = IF q = p THEN run.journal.snap[p] ELSE disk[q]
      BY <1>0, <2>3 DEF WellFormed
    <2>5. Sources \subseteq Paths /\ RestartMarker \in Paths \ Sources
      BY PathsAreDistinct DEF Paths
    <2>6. CASE p \notin Sources \cup {RestartMarker}
      <3>1. Quiet
        BY <2>3, <2>4, <2>5, <2>6 DEF Quiet
      <3> QED
        BY <1>1, <2>1, <3>1, QuietStays
    <2>7. CASE p \in Sources \cup {RestartMarker}
      <3> SUFFICES ASSUME Undisturbed' PROVE MarkerInv'
        BY <2>1 DEF ActivationInv
      <3>1. MarkerInv
        BY <1>1, <2>3 DEF Undisturbed, ActivationInv
      <3>2. Covered(run.before)'
        <4>1. ArchiveOf(sentinel)' = ArchiveOf(sentinel)
          BY <1>4 DEF RollbackStep, ArchiveOf
        <4> QED
          BY <2>1, <2>3, <3>1, <4>1 DEF MarkerInv, Covered, Marked, Recovered
      <3>3. run'.journal.writes /\ (run.op = "restore" => run.pid = klipper.pid)'
        BY <1>1, <2>1, <2>3, <3>1 DEF MarkerInv
      <3>4. run.journal.snap[p] = run.before[p] \/ p \in hist.touched
        BY <1>2, <2>2, <2>7 DEF Recoverable
      <3>5. CASE p \in Sources
        <4>1. disk'[RestartMarker] = disk[RestartMarker]
          BY <2>4, <2>5, <3>5
        <4>2. AsFound => AsFound'
          BY <2>1, <2>3, <2>4, <2>5, <3>4, <4>1 DEF AsFound
        <4>3. \/ Marked(disk)'
              \/ (disk[RestartMarker] = run.before[RestartMarker])' /\ (run.op = "restore" => AsFound)'
          BY <1>1, <2>1, <2>3, <3>1, <4>1, <4>2 DEF MarkerInv, Marked
        <4> QED
          BY <2>1, <3>2, <3>3, <4>3 DEF MarkerInv
      <3>6. CASE p = RestartMarker
        <4>1. disk'[RestartMarker] = run'.before[RestartMarker]
          BY <1>2, <2>1, <2>2, <2>4, <2>5, <3>6 DEF Recoverable
        <4>2. ASSUME run.op = "restore" PROVE AsFound'
          <5>1. run.journal.todo \cap Sources = {}
            <6>1. run.journal.todo \cap run.journal.trees = {}
              BY <1>1, <1>4, <3>6, <4>2 DEF RollbackStep, NextToRestore, MarkerLastInv
            <6>2. \A q \in run.journal.todo : run.journal.rank[q] <= run.journal.rank[RestartMarker]
              BY <1>4, <3>6, <6>1 DEF RollbackStep, NextToRestore
            <6>3. \A q \in Tracked(run.journal) : run.journal.rank[q] \in Nat
              BY <1>0 DEF IsJournal
            <6>4. run.journal.todo \subseteq Tracked(run.journal)
              BY <1>0 DEF IsJournal
            <6> QED
              BY <1>1, <2>2, <3>6, <4>2, <6>2, <6>3, <6>4 DEF MarkerLastInv
          <5>2. \A s \in Sources \ hist.touched : disk'[s] = run'.before[s]
            BY <1>2, <2>1, <2>4, <2>5, <3>6, <5>1 DEF Recoverable
          <5> QED
            BY <2>3, <4>1, <5>2 DEF AsFound
        <4> QED
          BY <2>1, <3>2, <3>3, <4>1, <4>2 DEF MarkerInv
      <3> QED
        BY <2>7, <3>5, <3>6
    <2> QED
      BY <2>6, <2>7
  <1> QED
    BY <1>3, <1>4 DEF Rollback

\* A rollback that fails leaves the marker, or sources that Klipper has loaded
\* or the sentinel's archive holds.
LEMMA FailureCovers ==
    ASSUME TypeInv, RollbackInv, ArchiveInv, UnblockedInv, EditedInv, ActivationInv, Next,
           RollbackFails
    PROVE  ActivationInv'
  <1> USE StageSets
  <1>0. IsRun(run) /\ WellFormed(disk) /\ IsHist(hist)
    BY DEF TypeInv, TypeOK
  <1>1. run'.stage = "idle" /\ run.stage = "rollback" /\ UNCHANGED <<disk, backups, klipper>>
    BY IdleRunFields DEF RollbackFails, Finish
  <1> SUFFICES ASSUME Undisturbed' PROVE Covered(disk)'
    BY <1>1 DEF ActivationInv
  <1>2. hist'.touched = hist.touched /\ Undisturbed
    BY Forward DEF Undisturbed, RollbackFails, Environment, EditConfig, EditOwned, Edit,
                   KlipperRestart, StartPrint, EndPrint
  <1>3. sentinel = 0
    <2>1. ASSUME sentinel # 0 PROVE FALSE
      <3>1. "overwritten" \in hist'.incidents
        BY <1>0, <2>1, RollbackFailsNotes
      <3> QED
        BY <3>1 DEF Undisturbed
    <2> QED
      BY <2>1
  <1>4. MarkerInv
    BY <1>1, <1>2 DEF ActivationInv
  <1>5. CASE Marked(disk)
    BY <1>1, <1>5 DEF Covered, Marked
  <1>6. CASE ~Marked(disk)
    <2>1. /\ disk[RestartMarker] = run.before[RestartMarker]
          /\ run.op = "restore" => AsFound
          /\ Covered(run.before)
      BY <1>1, <1>4, <1>6 DEF MarkerInv
    <2>2. \A s \in Sources \ hist.touched : klipper.loaded[s] = run.before[s]
      BY <1>3, <1>6, <2>1 DEF Covered, Marked, Recovered
    <2>3. CASE run.op = "restore"
      BY <1>1, <1>2, <2>1, <2>2, <2>3 DEF AsFound, Covered
    <2>4. CASE run.op # "restore"
      <3>1. run.op \in {"install", "uninstall"}
        BY <1>0, <1>1, <2>4 DEF UnblockedInv, IsRun, Ops
      <3>2. OwnArchive
        BY <1>1, <3>1 DEF ArchiveInv
      <3>3. run.archive # 0 /\ sentinel' = run.archive
        BY <1>1, FailureIsRecorded DEF RollbackFails
      <3>4. ArchiveOf(sentinel)' = ArchiveOf(run.archive)
        BY <1>1, <3>3 DEF ArchiveOf
      <3> DEFINE archive == ArchiveOf(run.archive)
      <3>5. ASSUME NEW s \in Sources \ hist.touched
            PROVE  klipper'.loaded[s] \in {disk'[s]} \cup Recovered(s)'
        <4>1. s \notin run.edited \cup hist.touched
          BY <3>5 DEF EditedInv
        <4>2. CASE s \in DOMAIN archive.sources
          <5>1. archive.sources[s] = run.before[s]
            BY <1>1, <3>2, <4>1, <4>2 DEF OwnArchive, HoldsFiles
          <5>2. Recovered(s)' = {archive.sources[s]}
            BY <3>3, <3>4, <4>2 DEF Recovered
          <5> QED
            BY <1>1, <2>2, <5>1, <5>2
        <4>3. CASE s \notin DOMAIN archive.sources
          <5>1. disk[s] = run.before[s]
            BY <1>1, <3>2, <4>1, <4>3 DEF OwnArchive
          <5> QED
            BY <1>1, <2>2, <5>1
        <4> QED
          BY <4>2, <4>3
      <3> QED
        BY <1>2, <3>5 DEF Covered
    <2> QED
      BY <2>3, <2>4
  <1> QED
    BY <1>5, <1>6

LEMMA FaultActivation ==
    ASSUME TypeInv, RollbackInv, ArchiveInv, UnblockedInv, EditedInv, ActivationInv, Next, Faults
    PROVE  ActivationInv'
  <1> USE StageSets
  <1>0. IsHist(hist)
    BY DEF TypeInv, TypeOK
  <1>1. ASSUME Fail PROVE ActivationInv'
    <2>1. Quiet /\ run.stage # "rollback"
      BY <1>1 DEF Fail, Quiet
    <2> QED
      BY <1>1, <2>1, QuietFinish, QuietRaise DEF Fail
  <1>2. ASSUME InterruptReset PROVE ActivationInv'
    <2>1. Quiet /\ run.stage # "rollback" /\ Finish
      BY <1>2 DEF InterruptReset, Quiet
    <2> QED
      BY <2>1, QuietFinish
  <1>3. ASSUME Crash PROVE ActivationInv'
    <2>1. Quiet /\ Finish
      BY <1>3 DEF Crash, Quiet
    <2>2. CASE run.stage # "rollback"
      BY <2>1, <2>2, QuietFinish
    <2>3. CASE run.stage = "rollback"
      <3>1. hist' = [hist EXCEPT !.crashes = @ + 1, !.incidents = @ \cup {"rollback"}]
        BY <1>3, <2>3 DEF Crash
      <3>2. ~Undisturbed'
        BY <1>0, <3>1 DEF IsHist, Undisturbed
      <3> QED
        BY <3>2 DEF ActivationInv
    <2> QED
      BY <2>2, <2>3
  <1> QED
    BY <1>1, <1>2, <1>3, FailureCovers DEF Faults

LEMMA EnvironmentActivation ==
    ASSUME TypeInv, UnblockedInv, NotedInv, ActivationInv, Next, Environment
    PROVE  ActivationInv'
  <1> USE StageSets
  <1>0. IsRun(run) /\ WellFormed(disk) /\ IsHist(hist) /\ IsKlipper(klipper)
    BY DEF TypeInv, TypeOK
  <1>1. /\ run'.op = run.op /\ run'.stage = run.stage /\ run'.journal = run.journal
        /\ run'.before = run.before /\ run'.pid = run.pid
    BY <1>0 DEF Environment, EditConfig, EditOwned, Edit, KlipperRestart, StartPrint, EndPrint, IsRun
  <1>2. ASSUME Quiet PROVE ActivationInv'
    <2>1. CASE run.stage \in Guarded
      BY <1>1, <1>2, <2>1, QuietStays
    <2>2. CASE run.stage \notin Guarded
      BY <1>1, <1>2, <2>2, QuietLeaves
    <2> QED
      BY <2>1, <2>2
  <1>3. ASSUME NEW i \in Items, NEW v \in Values, EditConfig(i, v) PROVE ActivationInv'
    <2>1. FileOf[i] \in ConfigTree \cup Extras
      BY ItemsAreDistinct DEF ConfigTree
    <2>2. \E c : disk' = [disk EXCEPT ![FileOf[i]] = c]
      BY <1>0, <1>3, <2>1 DEF EditConfig
    <2>3. Quiet
      BY <1>3, <2>1, <2>2, OtherPath DEF EditConfig, Edit
    <2> QED
      BY <1>2, <2>3
  <1>4. ASSUME NEW p \in TreeFiles \cup Extras \cup Sources, EditOwned(p) PROVE ActivationInv'
    <2>1. p # RestartMarker /\ RestartMarker \in Paths /\ Sources \subseteq Paths
      BY PathsAreDistinct DEF Paths
    <2>2. p \in hist'.touched
      BY <1>0, <1>4 DEF EditOwned, Edit, Theirs, IsHist
    <2>3. \A q \in Paths : q # p => disk'[q] = disk[q]
      BY <1>0, <1>4 DEF EditOwned, WellFormed
    <2>4. Quiet
      BY <1>4, <2>1, <2>2, <2>3 DEF EditOwned, Edit, Quiet
    <2> QED
      BY <1>2, <2>4
  <1>5. ASSUME StartPrint \/ EndPrint PROVE ActivationInv'
    <2>1. Quiet
      BY <1>0, <1>5 DEF StartPrint, EndPrint, IsKlipper, Quiet
    <2> QED
      BY <1>2, <2>1
  <1>6. ASSUME KlipperRestart PROVE ActivationInv'
    <2> SUFFICES ASSUME Undisturbed'
                 PROVE  IF run'.stage \in Guarded THEN MarkerInv' ELSE Covered(disk)'
      BY DEF ActivationInv
    <2>1. \A s \in Sources : klipper'.loaded[s] = disk[s]
      BY <1>6 DEF KlipperRestart, Restarted, Sourced
    <2>2. UNCHANGED <<disk, run>> /\ hist.touched \subseteq hist'.touched /\ Undisturbed
      BY <1>6, Forward DEF KlipperRestart, Undisturbed
    <2>3. Covered(disk)'
      BY <2>1, <2>2 DEF Covered
    <2>4. CASE run.stage \in Guarded
      <3>1. ~run.journal.writes
        <4>1. ASSUME run.journal.writes PROVE FALSE
          <5>1. hist' = [hist EXCEPT !.restarts = @ + 1, !.incidents = @ \cup {"restart"}]
            BY <1>6, <2>4, <4>1 DEF KlipperRestart
          <5> QED
            BY <1>0, <5>1 DEF IsHist, Undisturbed
        <4> QED
          BY <4>1
      <3>2. AsFound /\ run.stage \notin {"sources", "rollback"}
        BY <2>2, <2>4, <3>1 DEF ActivationInv, MarkerInv
      <3>3. run.op # "restore"
        BY <2>4, <3>1 DEF NotedInv
      <3>4. AsFound' /\ Covered(run.before)'
        BY <2>1, <2>2, <3>2 DEF AsFound, Covered
      <3> QED
        BY <2>2, <2>4, <3>2, <3>3, <3>4 DEF MarkerInv
    <2>5. CASE run.stage \notin Guarded
      BY <2>2, <2>3, <2>5
    <2> QED
      BY <2>4, <2>5
  <1> QED
    BY <1>3, <1>4, <1>5, <1>6 DEF Environment

LEMMA StepLoaded ==
    ASSUME TypeInv, RollbackInv, ArchiveInv, UnblockedInv, NotedInv, LoadedInv, Next
    PROVE  LoadedInv'
  <1>1. EditedInv' /\ MarkerLastInv'
    BY StepEdited, StepMarkerLast DEF LoadedInv
  <1>2. ActivationInv'
    BY CommandActivation, ResetActivation, PrepareActivation, WriteActivation, RestoreActivation,
       ActivationActivation, RollbackActivation, FaultActivation, EnvironmentActivation
       DEF LoadedInv, Next, Proceed
  <1> QED
    BY <1>1, <1>2 DEF LoadedInv

LEMMA InitLoaded == Init => LoadedInv /\ UnblockedInv /\ NotedInv
  <1> SUFFICES ASSUME Init PROVE LoadedInv /\ UnblockedInv /\ NotedInv
    OBVIOUS
  <1> USE StageSets
  <1>1. run.stage = "idle" /\ run.op = "none" /\ run.edited = {}
    BY IdleRunFields DEF Init
  <1>2. \A s \in Sources : klipper.loaded[s] = disk[s]
    BY PathsAreDistinct DEF Init, Paths, ConfigTree
  <1>3. Covered(disk)
    BY <1>2 DEF Covered
  <1> QED
    BY <1>1, <1>3
       DEF LoadedInv, EditedInv, MarkerLastInv, ActivationInv, UnblockedInv, NotedInv

\* Between commands, with no recovery due and no marker, Klipper has loaded the
\* sources on the disk, somebody else's aside, unless the installer was killed
\* inside a rollback, Klipper restarted by itself while a command was half
\* done, or a failed rollback overwrote the sentinel of an earlier command.
THEOREM ActivationIsNotLost == Spec => []ActivationNeverLost
  <1> DEFINE Inv == TypeInv /\ RollbackInv /\ ArchiveInv /\ UnblockedInv /\ NotedInv /\ LoadedInv
  <1>1. Init => Inv
    BY InitTypes, InitRollback, InitArchives, InitLoaded
  <1>2. Inv /\ [Next]_vars => Inv'
    <2> SUFFICES ASSUME Inv, [Next]_vars PROVE Inv'
      OBVIOUS
    <2>1. (TypeInv /\ RollbackInv /\ ArchiveInv)'
      BY StepTypes, StepRollback, StepArchives
    <2>2. CASE Next
      BY <2>1, <2>2, StepUnblocked, StepNoted, StepLoaded
    <2>3. CASE UNCHANGED vars
      <3>1. UnblockedInv' /\ NotedInv'
        BY <2>3 DEF vars, UnblockedInv, NotedInv
      <3>2. EditedInv' /\ MarkerLastInv'
        BY <2>3 DEF vars, LoadedInv, EditedInv, MarkerLastInv
      <3>3. ActivationInv'
        BY <2>3 DEF vars, LoadedInv, ActivationInv, Undisturbed, MarkerInv, Covered, Marked,
                    AsFound, Recovered, ArchiveOf
      <3> QED
        BY <2>1, <3>1, <3>2, <3>3 DEF LoadedInv
    <2> QED
      BY <2>2, <2>3
  <1>3. Inv => ActivationNeverLost
    <2> SUFFICES ASSUME ActivationInv, Undisturbed, run.stage = "idle", sentinel = 0,
                        disk[RestartMarker] = Absent
                 PROVE  \A s \in Sources \ hist.touched : klipper.loaded[s] = disk[s]
      BY DEF LoadedInv, ActivationNeverLost, Activated, Undisturbed
    <2> QED
      BY StageSets DEF ActivationInv, Covered, Marked, Recovered
  <1> QED
    BY <1>1, <1>2, <1>3, PTL DEF Spec

-----------------------------------------------------------------------------
\* UserValuesKept.

\* A composed file has the user's values of the file it was composed from, and
\* no others.
LEMMA ComposedUsers ==
    ASSUME NEW f \in ConfigFiles, NEW c \in [ItemsOf(f) -> Values],
           NEW i \in ItemsOf(f) \ {IncludeLine}
    PROVE  /\ InstallContent(c)[i] = "user" <=> c[i] = "user"
           /\ UninstallContent(c)[i] = "user" <=> c[i] = "user"
  BY DEF InstallContent, UninstallContent, ClassifyInstall, ClassifyUninstall, Values

LEMMA PlannedStages ==
    /\ Planned = {"backup", "track", "marker", "sources", "extras", "tree", "check", "config"}
    /\ RestoreStages = {"swapOut", "swapIn", "verify", "marker", "sources", "activate", "pending",
                        "restarting", "rollback"}
    /\ ConfigFiles \subseteq Paths /\ Exempt \cap ConfigFiles \subseteq run.edited
  BY PathsAreDistinct DEF Planned, RestoreStages, Exempt, Paths, ConfigTree

\* A step that neither plans nor checks and writes no configuration file but
\* those others edited.
LEMMA UserStays ==
    ASSUME UserInv, run'.op = run.op, run'.pre = run.pre, run'.post = run.post,
           run'.before = run.before, run.edited \subseteq run'.edited,
           \A f \in ConfigFiles \ run'.edited : disk'[f] = disk[f],
           run'.stage \in Planned => run.stage \in Planned,
           run'.stage \in Guarded => run.stage \in Guarded,
           run'.stage = "config" => run.stage = "config" /\ run'.left \subseteq run.left
    PROVE  UserInv'
  <1>1. PlanInv'
    BY DEF UserInv, PlanInv, NoNewUser
  <1>2. CheckedInv'
    BY DEF UserInv, CheckedInv
  <1>3. FoundInv'
    BY DEF UserInv, FoundInv, NoNewUser
  <1> QED
    BY <1>1, <1>2, <1>3 DEF UserInv

\* Outside the stages of a plan and of writes there is nothing to keep.
LEMMA UserIdle ==
    ASSUME run'.op = "restore" \/ run'.stage \notin Planned \cup Guarded, run'.stage # "config"
    PROVE  UserInv'
  BY DEF UserInv, PlanInv, CheckedInv, FoundInv

LEMMA UserFinish == Finish => UserInv'
  BY IdleRunFields, StageSets, PlannedStages, UserIdle DEF Finish

LEMMA UserFields ==
    ASSUME NEW s, NEW l, NEW p, IsRun(run), Goto(s, l) \/ Wrote(p, s, l)
    PROVE  /\ run'.op = run.op /\ run'.pre = run.pre /\ run'.post = run.post
           /\ run'.before = run.before /\ run'.edited = run.edited
           /\ run'.stage \in {run.stage, s}
  BY DEF Goto, Wrote, IsRun

LEMMA UserGoes ==
    ASSUME TypeInv, UserInv, NEW s, NEW l, NEW p, Goto(s, l) \/ Wrote(p, s, l),
           \A f \in ConfigFiles : disk'[f] = disk[f],
           run.stage # "config", s # "config",
           s \in Planned => run.stage \in Planned, s \in Guarded => run.stage \in Guarded
    PROVE  UserInv'
  <1>1. IsRun(run)
    BY DEF TypeInv, TypeOK
  <1> QED
    BY <1>1, UserFields, UserStays

LEMMA UserRaise ==
    ASSUME TypeInv, RollbackInv, UserInv, Raise, UNCHANGED disk,
           run.stage \notin Committed \cup {"rollback"}
    PROVE  UserInv'
  <1>0. IsRun(run)
    BY DEF TypeInv, TypeOK
  <1>1. CASE ~run.journal.writes
    BY <1>1, UserFinish DEF Raise, Finish
  <1>2. CASE run.journal.writes
    <2>1. run.stage \in Guarded
      BY <1>0, <1>2, SettledStages, StageSets DEF RollbackInv, IsRun, Settled
    <2>2. /\ run'.stage = "rollback" /\ run'.before = run.before /\ run'.op = run.op
          /\ run'.pre = run.pre /\ run'.post = run.post /\ run'.edited = run.edited
      BY <1>0, <1>2 DEF Raise, IsRun
    <2> QED
      BY <2>1, <2>2, PlannedStages, UserStays
  <1> QED
    BY <1>1, <1>2

\* What a command writes over a configuration file that it found as planned.
LEMMA ResetUsers ==
    ASSUME TypeInv, UserInv, Reset
    PROVE  UserInv'
  <1> USE StageSets, PlannedStages
  <1>0. IsRun(run) /\ WellFormed(disk)
    BY DEF TypeInv, TypeOK
  <1>1. ASSUME BackupLegacyConfig PROVE UserInv'
    <2>1. CASE ConfigPresent(disk)
      <3>1. run'.stage = "resetTree" /\ run'.before = disk /\ disk' = disk
        BY <1>0, <1>1, <2>1 DEF BackupLegacyConfig, IsRun
      <3> QED
        BY <3>1 DEF UserInv, PlanInv, CheckedInv, FoundInv, NoNewUser
    <2>2. CASE ~ConfigPresent(disk)
      BY <1>1, <2>2, UserFinish DEF BackupLegacyConfig
    <2> QED
      BY <2>1, <2>2
  <1>2. ASSUME NEW t \in TreeFiles, RemoveLegacyTree(t) PROVE UserInv'
    <2>1. \A f \in ConfigFiles : disk'[f] = disk[f]
      BY <1>0, <1>2, PathsAreDistinct DEF RemoveLegacyTree, WellFormed
    <2> QED
      BY <1>2, <2>1, UserGoes DEF RemoveLegacyTree, Writing
  <1>3. ASSUME SkipLegacyTree PROVE UserInv'
    <2>1. run.stage = "resetTree" /\ disk' = disk /\ Goto("resetConfig", ConfigFiles)
      BY <1>3 DEF SkipLegacyTree
    <2> QED
      BY <2>1, UserGoes
  <1>4. ASSUME NEW g \in ConfigFiles, WriteStockConfig(g) PROVE UserInv'
    <2>1. run.stage = "resetConfig"
      BY <1>4 DEF WriteStockConfig, Writing
    <2>2. CASE run.left = {g}
      <3>1. run'.stage = "plan"
        BY <1>4, <2>2 DEF WriteStockConfig, IdleRun
      <3> QED
        BY <3>1, UserIdle
    <2>3. CASE run.left # {g}
      <3>1. \E j : run' = [run EXCEPT !.left = @ \ {g}, !.journal = j]
        BY <1>4, <2>3 DEF WriteStockConfig
      <3>2. /\ run'.stage = "resetConfig" /\ run'.before = run.before /\ run'.op = run.op
            /\ run'.edited = run.edited
        BY <1>0, <2>1, <3>1 DEF IsRun
      <3>3. \A f \in ConfigFiles : disk'[f] = IF f = g THEN StockContent(f) ELSE disk[f]
        BY <1>0, <1>4 DEF WriteStockConfig, WellFormed
      <3>4. ASSUME NEW f \in ConfigFiles \ run.edited, NoNewUser(f, run.before, disk)
            PROVE  NoNewUser(f, run'.before, disk')
        BY <3>2, <3>3, <3>4 DEF NoNewUser, StockContent
      <3>5. FoundInv'
        BY <2>1, <3>2, <3>4 DEF UserInv, FoundInv
      <3> QED
        BY <3>2, <3>5 DEF UserInv, PlanInv, CheckedInv
    <2> QED
      BY <2>2, <2>3
  <1> QED
    BY <1>1, <1>2, <1>3, <1>4 DEF Reset

\* The plan of an install or an uninstall.
LEMMA PlannedUsers ==
    ASSUME TypeInv, ConfigPresent(disk), NEW pre, NEW post,
           pre = [f \in ConfigFiles |-> disk[f]],
           \/ post = [f \in ConfigFiles |-> InstallContent(disk[f])]
           \/ post = [f \in ConfigFiles |-> UninstallContent(disk[f])],
           run'.stage = "backup", run'.pre = pre, run'.post = post
    PROVE  UserInv'
  <1> USE StageSets, PlannedStages
  <1>0. WellFormed(disk)
    BY DEF TypeInv, TypeOK
  <1>1. ASSUME NEW f \in ConfigFiles
        PROVE  /\ disk[f] \in [ItemsOf(f) -> Values]
               /\ pre[f] = disk[f] /\ pre[f] # Absent
               /\ post[f] \in [ItemsOf(f) -> Values] /\ post[f] # Absent
    <2>1. disk[f] \in [ItemsOf(f) -> Values] /\ disk[f] # Absent /\ f \in Paths
      BY <1>0, <1>1, HeldConfig DEF WellFormed, IsFiles, ConfigPresent
    <2>2. /\ InstallContent(disk[f]) \in [ItemsOf(f) -> Values]
          /\ UninstallContent(disk[f]) \in [ItemsOf(f) -> Values]
      BY <2>1, PlannedContent
    <2>3. ContentOf(f) = [ItemsOf(f) -> Values]
      BY PathsAreDistinct DEF ContentOf
    <2> QED
      BY <2>1, <2>2, <2>3, AbsentIsNoContent
  <1>2. ASSUME NEW f \in ConfigFiles, NEW i \in ItemsOf(f) \ {IncludeLine}
        PROVE  post[f][i] = "user" <=> pre[f][i] = "user"
    BY <1>1, <1>2, ComposedUsers
  <1>3. \A f \in ConfigFiles : NoNewUser(f, pre, post) /\ NoNewUser(f, post, pre)
    BY <1>1, <1>2 DEF NoNewUser
  <1>4. DOMAIN pre = ConfigFiles
    OBVIOUS
  <1>5. PlanInv'
    BY <1>1, <1>3, <1>4 DEF PlanInv, NoNewUser
  <1> QED
    BY <1>5 DEF UserInv, CheckedInv, FoundInv

LEMMA PrepareUsers ==
    ASSUME TypeInv, UserInv, Prepare
    PROVE  UserInv'
  <1> USE StageSets, PlannedStages
  <1>0. IsRun(run) /\ WellFormed(disk)
    BY DEF TypeInv, TypeOK
  <1>1. ASSUME PlanInstall PROVE UserInv'
    <2>1. /\ run'.stage = "backup" /\ run'.pre = [f \in ConfigFiles |-> disk[f]]
          /\ run'.post = [f \in ConfigFiles |-> InstallContent(disk[f])]
      BY <1>0, <1>1 DEF PlanInstall, IsRun
    <2> QED
      BY <1>1, <2>1, PlannedUsers DEF PlanInstall, InstallPreflight
  <1>2. ASSUME PlanUninstall PROVE UserInv'
    <2>1. /\ run'.stage = "backup" /\ run'.pre = [f \in ConfigFiles |-> disk[f]]
          /\ run'.post = [f \in ConfigFiles |-> UninstallContent(disk[f])]
      BY <1>0, <1>2 DEF PlanUninstall, IsRun
    <2> QED
      BY <1>2, <2>1, PlannedUsers DEF PlanUninstall, UninstallPreflight
  <1>3. ASSUME Refuse PROVE UserInv'
    BY <1>3, UserFinish DEF Refuse
  <1>4. ASSUME CreateBackup PROVE UserInv'
    <2>1. /\ run'.stage = "track" /\ run'.pre = run.pre /\ run'.post = run.post
          /\ run'.op = run.op /\ run'.before = run.before /\ run'.edited = run.edited
      BY <1>0, <1>4 DEF CreateBackup, IsRun
    <2> QED
      BY <1>4, <2>1, UserStays DEF CreateBackup
  <1>5. ASSUME Track PROVE UserInv'
    <2>1. /\ run'.stage \in {"marker", "extras", "check"} /\ run'.pre = run.pre
          /\ run'.post = run.post /\ run'.op = run.op /\ run'.before = disk
      BY <1>0, <1>5 DEF Track, IsRun
    <2>2. run.stage = "track" /\ disk' = disk
      BY <1>5 DEF Track
    <2>3. PlanInv'
      BY <2>1, <2>2 DEF UserInv, PlanInv, NoNewUser
    <2>4. FoundInv' /\ CheckedInv'
      BY <2>1, <2>2 DEF FoundInv, NoNewUser, CheckedInv
    <2> QED
      BY <2>3, <2>4 DEF UserInv
  <1> QED
    BY <1>1, <1>2, <1>3, <1>4, <1>5 DEF Prepare

\* A planned file is written over what was planned for, or what others edited.
LEMMA ConfigUsers ==
    ASSUME TypeInv, UserInv, NEW g, WriteConfig(g)
    PROVE  /\ UserInv'
           /\ g \in ConfigFiles /\ disk' = [disk EXCEPT ![g] = run.post[g]]
  <1> USE StageSets, PlannedStages
  <1>0. IsRun(run) /\ WellFormed(disk)
    BY DEF TypeInv, TypeOK
  <1>1. /\ run.stage = "config" /\ g \in run.left /\ g \in ConfigFiles
        /\ disk' = [disk EXCEPT ![g] = run.post[g]]
        /\ g \notin run.edited => disk[g] = run.pre[g]
    BY DEF WriteConfig, UserInv, CheckedInv
  <1>2. run.op # "restore"
    BY <1>1 DEF TypeInv, StagesOK
  <1>3. Wrote(g, AfterConfig, LeftAfterConfig) /\ AfterConfig \in {"postflight", "extras"}
    BY AfterConfigStage DEF WriteConfig
  <1>4. /\ run'.op = run.op /\ run'.pre = run.pre /\ run'.post = run.post
        /\ run'.before = run.before /\ run'.edited = run.edited
    BY <1>0, <1>3, UserFields
  <1>5. /\ run'.stage = IF run.left = {g} THEN AfterConfig ELSE run.stage
        /\ run'.left = IF run.left = {g} THEN LeftAfterConfig ELSE run.left \ {g}
    BY <1>0, <1>3, WroteFields
  <1>6. \A f \in ConfigFiles : disk'[f] = IF f = g THEN run.post[g] ELSE disk[f]
    BY <1>0, <1>1 DEF WellFormed
  <1>7. NoNewUser(g, run.pre, run.post) /\ NoNewUser(g, run.post, run.pre)
    BY <1>1, <1>2 DEF UserInv, PlanInv
  <1>8. PlanInv'
    BY <1>1, <1>2, <1>4 DEF UserInv, PlanInv, NoNewUser
  <1>9. CheckedInv'
    BY <1>1, <1>3, <1>4, <1>5, <1>6 DEF UserInv, CheckedInv
  <1>10. ASSUME NEW f \in ConfigFiles \ run.edited
         PROVE  NoNewUser(f, run.before, disk')
    <2>1. NoNewUser(f, run.before, disk)
      BY <1>1, <1>2 DEF UserInv, FoundInv
    <2> QED
      BY <1>1, <1>6, <1>7, <2>1 DEF NoNewUser
  <1>11. FoundInv'
    BY <1>4, <1>10 DEF FoundInv, NoNewUser
  <1> QED
    BY <1>1, <1>8, <1>9, <1>11 DEF UserInv

LEMMA WriteUsers ==
    ASSUME TypeInv, RollbackInv, UserInv, Write
    PROVE  UserInv'
  <1> USE StageSets, PlannedStages, AfterConfigStage
  <1>0. IsRun(run) /\ WellFormed(disk)
    BY DEF TypeInv, TypeOK
  <1>1. ASSUME NEW p \in Paths \ ConfigFiles, NEW c, disk' = [disk EXCEPT ![p] = c]
        PROVE  \A f \in ConfigFiles : disk'[f] = disk[f]
    BY <1>0, <1>1 DEF WellFormed
  <1>2. (TreeFiles \cup Sources \cup Extras \cup {StateFile, RestartMarker}) \subseteq Paths \ ConfigFiles
    BY PathsAreDistinct DEF Paths, ConfigTree
  <1>3. ASSUME WriteMarker PROVE UserInv'
    <2>1. \A f \in ConfigFiles : disk'[f] = disk[f]
      BY <1>1, <1>2, <1>3 DEF WriteMarker
    <2>2. run.stage = "marker" /\ run'.stage = "sources"
      BY <1>0, <1>3 DEF WriteMarker, Writing, IsRun
    <2>3. /\ run'.pre = run.pre /\ run'.post = run.post /\ run'.op = run.op
          /\ run'.before = run.before /\ run'.edited = run.edited
      BY <1>0, <1>3 DEF WriteMarker, IsRun
    <2> QED
      BY <2>1, <2>2, <2>3, UserStays
  <1>4. ASSUME NEW s \in Sources, DeploySource(s) \/ RestoreSource(s) PROVE UserInv'
    <2>1. run.stage = "sources" /\ \A f \in ConfigFiles : disk'[f] = disk[f]
      BY <1>1, <1>2, <1>4 DEF DeploySource, RestoreSource, Writing
    <2>2. CASE Raise /\ UNCHANGED disk
      BY <2>1, <2>2, UserRaise
    <2>3. ASSUME NEW t \in {"extras", "check"}, NEW l, Wrote(s, t, l) PROVE UserInv'
      BY <2>1, <2>3, UserGoes
    <2> QED
      BY <1>4, <2>2, <2>3 DEF DeploySource, RestoreSource
  <1>5. ASSUME NEW x \in Extras, InstallExtra(x) \/ RemoveExtra(x) PROVE UserInv'
    <2>1. run.stage = "extras" /\ \A f \in ConfigFiles : disk'[f] = disk[f]
      BY <1>1, <1>2, <1>5 DEF InstallExtra, RemoveExtra, Writing
    <2>2. run'.stage \in {"tree", "extras"}
      BY <1>0, <1>5, <2>1 DEF InstallExtra, RemoveExtra, IsRun
    <2>3. /\ run'.pre = run.pre /\ run'.post = run.post /\ run'.op = run.op
          /\ run'.before = run.before /\ run'.edited = run.edited
      BY <1>0, <1>5 DEF InstallExtra, RemoveExtra, IsRun
    <2> QED
      BY <2>1, <2>2, <2>3, UserStays
  <1>6. ASSUME NEW t \in TreeFiles, MirrorFile(t) \/ RemoveTreeFile(t) PROVE UserInv'
    <2>1. run.stage = "tree" /\ \A f \in ConfigFiles : disk'[f] = disk[f]
      BY <1>1, <1>2, <1>6 DEF MirrorFile, RemoveTreeFile, Writing
    <2>2. ASSUME NEW s \in {"tree", "check", "postflight"}, NEW l, Goto(s, l) \/ Wrote(t, s, l)
          PROVE  UserInv'
      BY <2>1, <2>2, UserGoes
    <2> QED
      BY <1>6, <2>2 DEF MirrorFile, RemoveTreeFile
  <1>7. ASSUME CheckPreimages PROVE UserInv'
    <2>1. run.stage = "check" /\ UNCHANGED disk
      BY <1>7 DEF CheckPreimages
    <2>2. CASE Raise
      BY <2>1, <2>2, UserRaise
    <2>3. CASE Goto(AfterConfig, LeftAfterConfig)
      BY <2>1, <2>3, UserGoes
    <2>4. CASE Goto("config", Changed) /\ \A f \in Changed : disk[f] = run.pre[f]
      <3>1. /\ run'.op = run.op /\ run'.pre = run.pre /\ run'.post = run.post
            /\ run'.before = run.before /\ run'.edited = run.edited
            /\ run'.stage = "config" /\ run'.left = Changed
        BY <1>0, <2>4, UserFields, GotoFields
      <3>2. PlanInv' /\ FoundInv'
        BY <2>1, <3>1 DEF UserInv, PlanInv, FoundInv, NoNewUser
      <3>3. CheckedInv'
        BY <2>1, <2>4, <3>1 DEF CheckedInv, Changed
      <3> QED
        BY <3>2, <3>3 DEF UserInv
    <2> QED
      BY <1>7, <2>2, <2>3, <2>4 DEF CheckPreimages
  <1>8. ASSUME Postflight PROVE UserInv'
    <2>1. run.stage = "postflight" /\ UNCHANGED disk
      BY <1>8 DEF Postflight
    <2>2. CASE Raise
      BY <2>1, <2>2, UserRaise
    <2>3. ASSUME NEW s \in {"state"}, NEW l, Goto(s, l) PROVE UserInv'
      BY <2>1, <2>3, UserGoes
    <2> QED
      BY <1>8, <2>2, <2>3 DEF Postflight
  <1>9. ASSUME Commit \/ Optimize PROVE UserInv'
    <2>1. run'.stage \in {"optimize", "activate"}
      BY <1>0, <1>9, GotoFields DEF Commit, Optimize
    <2> QED
      BY <2>1, UserIdle
  <1>10. ASSUME WriteState \/ DeleteState PROVE UserInv'
    <2>1. run.stage = "state" /\ Wrote(StateFile, "state", {})
      BY <1>10 DEF WriteState, DeleteState, Writing
    <2>2. \A f \in ConfigFiles : disk'[f] = disk[f]
      BY <1>0, <1>10, StagesAndPaths, PathsAreDistinct DEF WriteState, DeleteState, WellFormed
    <2> QED
      BY <2>1, <2>2, PlannedStages, StageSets, UserGoes
  <1> QED
    BY <1>3, <1>4, <1>5, <1>6, <1>7, <1>8, <1>9, <1>10, ConfigUsers DEF Write

LEMMA RestUsers ==
    ASSUME TypeInv, UserInv, Commands \/ Restore \/ Activation
    PROVE  UserInv'
  <1> USE StageSets, PlannedStages
  <1>0. IsRun(run)
    BY DEF TypeInv, TypeOK
  <1>1. ASSUME Commands PROVE UserInv'
    <2>1. ASSUME NEW op, NEW stage \in {"reset", "plan"}, Start(op, stage) PROVE UserInv'
      <3>1. run'.stage = stage
        BY <2>1 DEF Start, IdleRun
      <3> QED
        BY <3>1, UserIdle
    <2>2. ASSUME NEW id, StartRestore(id) PROVE UserInv'
      <3>1. run'.op = "restore" /\ run'.stage = "swapOut"
        BY <2>2 DEF StartRestore, IdleRun
      <3> QED
        BY <3>1, UserIdle
    <2>3. ASSUME ClearSentinel PROVE UserInv'
      BY <2>3, UserIdle DEF ClearSentinel
    <2> QED
      BY <1>1, <2>1, <2>2, <2>3 DEF Commands, StartInstall, StartUninstall
  <1>2. ASSUME Restore PROVE UserInv'
    <2>1. run.op = "restore" /\ run.stage # "config"
      BY <1>2 DEF Restore, SwapOut, SwapIn, VerifyRestore, WriteRestoreMarker,
                  RestoreArchivedSource, Writing, TypeInv, StagesOK
    <2>2. ASSUME NEW s \in Stages \ {"config"}, NEW l, NEW p, Goto(s, l) \/ Wrote(p, s, l)
          PROVE  UserInv'
      <3>1. run'.op = "restore" /\ run'.stage # "config"
        BY <1>0, <2>1, <2>2, UserFields
      <3> QED
        BY <3>1, UserIdle
    <2>3. ASSUME Raise PROVE UserInv'
      <3>1. CASE run.journal.writes
        BY <2>2, <2>3, <3>1 DEF Raise, Goto, Stages
      <3>2. CASE ~run.journal.writes
        BY <2>3, <3>2, UserFinish DEF Raise, Finish
      <3> QED
        BY <3>1, <3>2
    <2> QED
      BY <1>2, <2>2, <2>3
         DEF Restore, SwapOut, SwapIn, VerifyRestore, WriteRestoreMarker, RestoreArchivedSource,
             Stages
  <1>3. ASSUME Activation PROVE UserInv'
    <2>1. Finish \/ run'.stage \in Committed
      BY <1>0, <1>3, GotoFields DEF Activation, Activate, RestartPending, AwaitKlipper, IsRun
    <2>2. run'.stage \in Committed => run'.stage \notin Planned \cup Guarded
      OBVIOUS
    <2> QED
      BY <2>1, <2>2, UserFinish, UserIdle
  <1> QED
    BY <1>1, <1>2, <1>3

\* A rollback puts back what the command found.
LEMMA RollbackUsers ==
    ASSUME TypeInv, RollbackInv, UserInv, NEW p, RollbackStep(p)
    PROVE  /\ UserInv'
           /\ \A f \in ConfigFiles \ run.edited : disk'[f] \in {disk[f], run.before[f]}
  <1> USE StageSets, PlannedStages
  <1>0. IsRun(run) /\ WellFormed(disk) /\ IsJournal(run.journal)
    BY DEF TypeInv, TypeOK, IsRun
  <1>1. /\ run.stage = "rollback" /\ run'.stage = "rollback" /\ run'.before = run.before
        /\ run'.op = run.op /\ run'.edited = run.edited
    BY <1>0 DEF RollbackStep, IsRun
  <1>2. p \in Tracked(run.journal) /\ disk' = [disk EXCEPT ![p] = run.journal.snap[p]]
    BY <1>0 DEF RollbackStep, NextToRestore, IsJournal
  <1>3. ASSUME NEW f \in ConfigFiles \ run.edited PROVE disk'[f] \in {disk[f], run.before[f]}
    <2>1. Recoverable(f)
      BY <1>1, <1>3 DEF RollbackInv
    <2> QED
      BY <1>0, <1>2, <2>1 DEF Recoverable, WellFormed
  <1>4. FoundInv'
    BY <1>1, <1>3 DEF UserInv, FoundInv, NoNewUser
  <1> QED
    BY <1>1, <1>3, <1>4 DEF UserInv, PlanInv, CheckedInv

LEMMA StepUser ==
    ASSUME TypeInv, RollbackInv, UserInv, Next
    PROVE  UserInv'
  <1> USE StageSets, PlannedStages
  <1>0. IsRun(run) /\ WellFormed(disk)
    BY DEF TypeInv, TypeOK
  <1>1. ASSUME Rollback PROVE UserInv'
    BY <1>1, RollbackUsers, UserFinish DEF Rollback, RollbackDone
  <1>2. ASSUME Faults PROVE UserInv'
    BY <1>2, UserFinish, UserRaise DEF Faults, Fail, RollbackFails, InterruptReset, Crash
  <1>3. ASSUME Environment PROVE UserInv'
    <2>1. /\ run'.stage = run.stage /\ run'.pre = run.pre /\ run'.post = run.post
          /\ run'.op = run.op /\ run'.before = run.before /\ run'.left = run.left
      BY <1>0, <1>3 DEF Environment, EditConfig, EditOwned, Edit, KlipperRestart, StartPrint,
                        EndPrint, IsRun
    <2>2. ASSUME NEW p, NEW items, Edit({p}, items), \A q \in Paths : disk'[q] # disk[q] => q = p
          PROVE  UserInv'
      <3> DEFINE edited == IF run.before = NoFiles THEN run.edited ELSE run.edited \cup {p}
      <3>1. run' = [run EXCEPT !.edited = edited]
        BY <1>0, <2>2 DEF Edit, IsRun
      <3>2. run'.edited = edited
        BY <1>0, <3>1 DEF IsRun
      <3>3. CASE run.before = NoFiles
        <4>1. run.stage \notin Guarded
          BY <3>3 DEF RollbackInv
        <4> QED
          BY <2>1, <4>1 DEF UserInv, PlanInv, CheckedInv, FoundInv, NoNewUser
      <3>4. CASE run.before # NoFiles
        <4>1. \A f \in ConfigFiles \ run'.edited : disk'[f] = disk[f]
          BY <2>2, <3>2, <3>4
        <4> QED
          BY <2>1, <3>2, <3>4, <4>1, UserStays
      <3> QED
        BY <3>3, <3>4
    <2>3. ASSUME NEW i \in Items, NEW v \in Values, EditConfig(i, v) PROVE UserInv'
      <3>1. \A q \in Paths : disk'[q] # disk[q] => q = FileOf[i]
        BY <1>0, <2>3 DEF EditConfig, WellFormed
      <3> QED
        BY <2>2, <2>3, <3>1 DEF EditConfig
    <2>4. ASSUME NEW p \in TreeFiles \cup Extras \cup Sources, EditOwned(p) PROVE UserInv'
      <3>1. \A q \in Paths : disk'[q] # disk[q] => q = p
        BY <1>0, <2>4, OneChanges DEF EditOwned
      <3> QED
        BY <2>2, <2>4, <3>1 DEF EditOwned
    <2>5. ASSUME UNCHANGED <<disk, run>> PROVE UserInv'
      BY <2>1, <2>5, UserStays
    <2> QED
      BY <1>3, <2>3, <2>4, <2>5 DEF Environment, KlipperRestart, StartPrint, EndPrint
  <1> QED
    BY <1>1, <1>2, <1>3, ResetUsers, PrepareUsers, WriteUsers, RestUsers DEF Next, Proceed

\* Of the steps of an install or an uninstall, outside a legacy reset, two write
\* a configuration file.
LEMMA ConfigWriters ==
    ASSUME TypeInv, Next, run.op \in {"install", "uninstall"}, run.stage \notin ResetStages,
           hist'.edits = hist.edits
    PROVE  \/ \E f \in ConfigFiles : WriteConfig(f)
           \/ \E p \in Paths : RollbackStep(p)
           \/ \A f \in ConfigFiles : disk'[f] = disk[f]
  <1> DEFINE Same == \A f \in ConfigFiles : disk'[f] = disk[f]
  <1> USE StageSets, PlannedStages
  <1>0. IsRun(run) /\ WellFormed(disk) /\ IsHist(hist)
    BY DEF TypeInv, TypeOK
  <1>1. ASSUME NEW p \in TreeFiles \cup Sources \cup Extras \cup {StateFile, RestartMarker}, NEW c,
               disk' = [disk EXCEPT ![p] = c]
        PROVE  Same
    BY <1>0, <1>1, PathsAreDistinct DEF WellFormed, Paths, ConfigTree
  <1>2. Commands => Same
    BY DEF Commands, StartInstall, StartUninstall, Start, StartRestore, ClearSentinel
  <1>3. ~Reset
    BY DEF Reset, BackupLegacyConfig, SkipLegacyTree, RemoveLegacyTree, WriteStockConfig, Writing,
           ResetStages
  <1>4. Prepare => Same
    BY DEF Prepare, PlanInstall, PlanUninstall, Refuse, CreateBackup, Track
  <1>5. Write => Same \/ \E f \in ConfigFiles : WriteConfig(f)
    <2>1. ASSUME WriteMarker \/ WriteState \/ DeleteState PROVE Same
      BY <1>1, <2>1 DEF WriteMarker, WriteState, DeleteState
    <2>2. ASSUME NEW s \in Sources, DeploySource(s) \/ RestoreSource(s) PROVE Same
      BY <1>1, <2>2 DEF DeploySource, RestoreSource
    <2>3. ASSUME NEW x \in Extras, InstallExtra(x) \/ RemoveExtra(x) PROVE Same
      BY <1>1, <2>3 DEF InstallExtra, RemoveExtra
    <2>4. ASSUME NEW t \in TreeFiles, MirrorFile(t) \/ RemoveTreeFile(t) PROVE Same
      BY <1>1, <2>4 DEF MirrorFile, RemoveTreeFile
    <2>5. CheckPreimages \/ Postflight \/ Commit \/ Optimize => Same
      BY DEF CheckPreimages, Postflight, Commit, Optimize
    <2> QED
      BY <2>1, <2>2, <2>3, <2>4, <2>5 DEF Write
  <1>6. ~Restore
    BY DEF Restore, SwapOut, SwapIn, VerifyRestore, WriteRestoreMarker, RestoreArchivedSource,
           Writing, TypeInv, StagesOK
  <1>7. Activation => Same
    <2>1. ASSUME RestartPending \/ AwaitKlipper PROVE Same
      BY <1>1, <2>1 DEF RestartPending, AwaitKlipper
    <2> QED
      BY <2>1 DEF Activation, Activate
  <1>8. Rollback => Same \/ \E p \in Paths : RollbackStep(p)
    BY DEF Rollback, RollbackDone
  <1>9. Faults => Same
    BY DEF Faults, Fail, RollbackFails, InterruptReset, Crash
  <1>10. Environment => Same
    <2>1. ASSUME NEW paths, NEW items, Edit(paths, items) PROVE FALSE
      <3>1. hist'.edits = hist.edits + 1 /\ hist.edits \in Nat
        BY <1>0, <2>1 DEF Edit, IsHist
      <3> QED
        BY <3>1
    <2> QED
      BY <2>1 DEF Environment, EditConfig, EditOwned, KlipperRestart, StartPrint, EndPrint
  <1> QED
    BY <1>2, <1>3, <1>4, <1>5, <1>6, <1>7, <1>8, <1>9, <1>10 DEF Next, Proceed

LEMMA InitUser == Init => UserInv
  BY IdleRunFields, StageSets, PlannedStages DEF Init, UserInv, PlanInv, CheckedInv, FoundInv

\* No step of an install or uninstall, its rollback included, replaces a value
\* the user chose, in a file nobody edited since the journal was filled.
THEOREM UserValuesAreKept == Spec => UserValuesKept
  <1> DEFINE Inv == TypeInv /\ RollbackInv /\ UserInv
             Kept == (run.op \in {"install", "uninstall"} /\ run.stage \notin ResetStages
                      /\ hist'.edits = hist.edits) =>
                        \A i \in Options \cup Sections :
                           (/\ FileOf[i] \notin run.edited
                            /\ disk[FileOf[i]] # Absent
                            /\ ItemValue(disk, i) = "user") => ItemValue(disk', i) = "user"
  <1>1. Init => Inv
    BY InitTypes, InitRollback, InitUser
  <1>2. Inv /\ [Next]_vars => Inv'
    <2>1. UserInv /\ UNCHANGED vars => UserInv'
      BY DEF vars, UserInv, PlanInv, CheckedInv, FoundInv, NoNewUser
    <2> QED
      BY <2>1, StepTypes, StepRollback, StepUser
  <1>3. Inv /\ Next => Kept
    <2> SUFFICES ASSUME Inv, Next, run.op \in {"install", "uninstall"},
                        run.stage \notin ResetStages, hist'.edits = hist.edits,
                        NEW i \in Options \cup Sections, FileOf[i] \notin run.edited,
                        disk[FileOf[i]] # Absent, ItemValue(disk, i) = "user"
                 PROVE  ItemValue(disk', i) = "user"
      OBVIOUS
    <2>1. FileOf[i] \in ConfigFiles /\ i \in ItemsOf(FileOf[i]) \ {IncludeLine}
      BY ItemsAreDistinct DEF Items, ItemsOf
    <2>2. ASSUME NEW g, WriteConfig(g) PROVE ItemValue(disk', i) = "user"
      <3>1. /\ g \in ConfigFiles /\ run.post[g] = disk'[g]
            /\ \A f \in ConfigFiles \ {g} : disk'[f] = disk[f]
        BY <2>2, ConfigUsers, PlannedStages DEF TypeInv, TypeOK, WellFormed
      <3>2. g = FileOf[i] => disk[g] = run.pre[g] /\ NoNewUser(g, run.post, run.pre)
        BY <2>1, <2>2, <3>1, PlannedStages DEF WriteConfig, UserInv, CheckedInv, PlanInv
      <3> QED
        BY <2>1, <3>1, <3>2 DEF NoNewUser, ItemValue
    <2>3. ASSUME NEW p, RollbackStep(p) PROVE ItemValue(disk', i) = "user"
      <3>1. NoNewUser(FileOf[i], run.before, disk)
        BY <2>1, <2>3, StageSets DEF RollbackStep, UserInv, FoundInv
      <3>2. run.before[FileOf[i]][i] = "user"
        BY <2>1, <3>1 DEF NoNewUser, ItemValue
      <3>3. disk'[FileOf[i]] \in {disk[FileOf[i]], run.before[FileOf[i]]}
        BY <2>1, <2>3, RollbackUsers
      <3> QED
        BY <3>2, <3>3 DEF ItemValue
    <2>4. CASE \A f \in ConfigFiles : disk'[f] = disk[f]
      BY <2>1, <2>4 DEF ItemValue
    <2> QED
      BY <2>2, <2>3, <2>4, ConfigWriters
  <1>4. UserValuesKept <=> [][Kept]_vars
    BY PTL DEF UserValuesKept
  <1> HIDE DEF Kept, Inv
  <1>5. Inv /\ [Next]_vars => [Kept]_vars
    BY <1>3
  <1> QED
    BY <1>1, <1>2, <1>4, <1>5, PTL DEF Spec
-----------------------------------------------------------------------------
\* The package as a whole.

\* A preimage in the journal is one that was there, or what is on the disk.
LEMMA Preimages ==
    ASSUME TypeInv, Next, NEW p \in Tracked(run'.journal)
    PROVE  \/ p \in Tracked(run.journal) /\ run'.journal.snap[p] = run.journal.snap[p]
           \/ run'.journal.snap[p] = disk[p]
  <1> DEFINE Same == run'.journal.snap = run.journal.snap
             Goal == \/ p \in Tracked(run.journal) /\ run'.journal.snap[p] = run.journal.snap[p]
                     \/ run'.journal.snap[p] = disk[p]
  <1>0. IsRun(run) /\ WellFormed(disk) /\ IsJournal(run.journal)
    BY DEF TypeInv, TypeOK, IsRun
  <1>1. Same => Goal
    BY DEF Tracked
  <1>2. run'.journal = EmptyJournal => Goal
    BY EmptyIsJournal
  <1>3. Finish => Goal
    BY <1>2, IdleRunFields DEF Finish
  <1>4. ASSUME NEW s, NEW l, NEW q, Goto(s, l) \/ Wrote(q, s, l) PROVE Same
    BY <1>0, <1>4, GotoFields, WroteFields
  <1>5. Raise => Same \/ Finish
    BY <1>0 DEF Raise, Finish, IsRun
  <1>6. ASSUME NEW ps \in SUBSET Paths, NEW j, j = TrackFiles(run.journal, disk, ps),
               run'.journal = j \/ run'.journal = NoteWrite(j)
        PROVE  Goal
    <2>1. /\ IsJournal(j) /\ Tracked(j) = Tracked(run.journal) \cup ps
          /\ \A q \in Tracked(run.journal) : j.snap[q] = run.journal.snap[q]
          /\ \A q \in ps \ Tracked(run.journal) : j.snap[q] = disk[q]
      BY <1>0, <1>6, TrackedFiles
    <2>2. run'.journal.snap = j.snap
      BY <1>6, <2>1 DEF NoteWrite, IsJournal
    <2>3. p \in Tracked(j)
      BY <2>2 DEF Tracked
    <2> QED
      BY <2>1, <2>2, <2>3
  <1> HIDE DEF Same, Goal
  <1>7. Commands => Goal
    <2>1. ASSUME NEW op, NEW stage, Start(op, stage) PROVE Goal
      <3>1. run'.journal = EmptyJournal
        BY <2>1 DEF Start, IdleRun
      <3> QED
        BY <3>1, <1>2
    <2>2. ASSUME NEW id, StartRestore(id) PROVE Goal
      BY <2>2, RestoreIsFresh DEF Goal
    <2>3. ClearSentinel => Goal
      BY <1>1 DEF ClearSentinel, Same
    <2> QED
      BY <2>1, <2>2, <2>3 DEF Commands, StartInstall, StartUninstall
  <1>8. Reset => Goal
    <2>1. BackupLegacyConfig => Goal
      <3>1. CASE BackupLegacyConfig /\ ConfigPresent(disk)
        <4>1. run'.journal = TrackTree(EmptyJournal, disk, TreeFiles)
          BY <1>0, <3>1 DEF BackupLegacyConfig, IsRun
        <4>2. Fresh(run'.journal, disk)
          BY <1>0, <4>1, FirstTree, StagesAndPaths
        <4> QED
          BY <4>2 DEF Fresh, Goal
      <3> QED
        BY <1>3, <3>1 DEF BackupLegacyConfig
    <2>2. ASSUME NEW f \in ConfigFiles, WriteStockConfig(f) PROVE Goal
      <3>1. CASE run.left = {f}
        <4>1. run'.journal = EmptyJournal
          BY <2>2, <3>1 DEF WriteStockConfig, IdleRun
        <4> QED
          BY <4>1, <1>2
      <3>2. CASE run.left # {f}
        <4>1. LET j == TrackFiles(run.journal, disk, {f})
              IN  run'.journal = j \/ run'.journal = NoteWrite(j)
          BY <1>0, <2>2, <3>2 DEF WriteStockConfig, IsRun
        <4> QED
          BY <1>6, <4>1, StagesAndPaths
      <3> QED
        BY <3>1, <3>2
    <2> QED
      BY <1>1, <1>4, <2>1, <2>2 DEF Reset, RemoveLegacyTree, SkipLegacyTree
  <1>9. Prepare => Goal
    <2>1. PlanInstall \/ PlanUninstall \/ CreateBackup => Same
      BY <1>0 DEF PlanInstall, PlanUninstall, CreateBackup, IsRun, Same
    <2>2. Track => Goal
      BY TrackIsFresh DEF Fresh, Goal
    <2> QED
      BY <1>1, <1>3, <2>1, <2>2 DEF Prepare, Refuse
  <1>10. Write => Goal
    <2>1. WriteMarker => Goal
      <3>1. WriteMarker => run'.journal = NoteWrite(TrackFiles(run.journal, disk, {RestartMarker}))
        BY <1>0 DEF WriteMarker, IsRun
      <3> QED
        BY <1>6, <3>1, StagesAndPaths
    <2>2. ASSUME NEW x \in Extras, InstallExtra(x) PROVE Goal
      <3>1. \/ run'.journal = run.journal
            \/ run'.journal = NoteWrite(TrackFiles(run.journal, disk, {x}))
        BY <1>0, <2>2 DEF InstallExtra, IsRun
      <3> QED
        BY <1>1, <1>6, <3>1, StagesAndPaths DEF Same
    <2>3. ASSUME NEW x \in Extras, RemoveExtra(x) PROVE Goal
      <3>1. run'.journal = run.journal \/ run'.journal = NoteWrite(run.journal)
        BY <1>0, <2>3 DEF RemoveExtra, IsRun
      <3> QED
        BY <1>0, <1>1, <3>1 DEF Same, NoteWrite, IsJournal
    <2>4. CheckPreimages \/ Postflight \/ WriteState \/ DeleteState \/ Commit \/ Optimize => Goal
      BY <1>1, <1>3, <1>4, <1>5
         DEF CheckPreimages, Postflight, WriteState, DeleteState, Commit, Optimize
    <2>5. ASSUME NEW q, DeploySource(q) \/ RestoreSource(q) \/ MirrorFile(q) \/ RemoveTreeFile(q)
                        \/ WriteConfig(q)
          PROVE  Goal
      BY <1>1, <1>3, <1>4, <1>5, <2>5
         DEF DeploySource, RestoreSource, MirrorFile, RemoveTreeFile, WriteConfig
    <2> QED
      BY <2>1, <2>2, <2>3, <2>4, <2>5 DEF Write
  <1>11. Restore => Goal
    BY <1>1, <1>3, <1>4, <1>5 DEF Restore, SwapOut, SwapIn, VerifyRestore, WriteRestoreMarker,
                                  RestoreArchivedSource
  <1>12. Activation => Goal
    <2>1. ASSUME Activate PROVE Same \/ Finish
      BY <1>0, <2>1 DEF Activate, IsRun, Same
    <2> QED
      BY <1>1, <1>3, <1>4, <2>1 DEF Activation, RestartPending, AwaitKlipper
  <1>13. Rollback => Goal
    <2>1. ASSUME NEW q, RollbackStep(q) PROVE Same
      BY <1>0, <2>1 DEF RollbackStep, Restored, IsRun, IsJournal, Same
    <2> QED
      BY <1>1, <1>3, <2>1 DEF Rollback, RollbackDone
  <1>14. Faults => Goal
    BY <1>1, <1>3, <1>5 DEF Faults, Fail, RollbackFails, InterruptReset, Crash
  <1>15. Environment => Goal
    <2>1. Environment => Same
      BY <1>0 DEF Environment, EditConfig, EditOwned, Edit, KlipperRestart, StartPrint, EndPrint,
                  IsRun, Same
    <2> QED
      BY <1>1, <2>1
  <1> QED
    BY <1>7, <1>8, <1>9, <1>10, <1>11, <1>12, <1>13, <1>14, <1>15 DEF Next, Proceed, Goal

\* Only the two plans compose files and decide what to leave to the user.
LEMMA Plans ==
    ASSUME TypeInv, Next, ~PlanInstall, ~PlanUninstall, run'.op # "restore",
           run'.stage \in Decided
    PROVE  /\ run.op = run'.op /\ run.stage \in Decided /\ run'.kept = run.kept
           /\ run'.stage \in Planned => run.stage \in Planned /\ run'.post = run.post
  <1> DEFINE Fields == /\ run'.op = run.op /\ run'.kept = run.kept /\ run'.post = run.post
             Goal == /\ run.op = run'.op /\ run.stage \in Decided /\ run'.kept = run.kept
                     /\ run'.stage \in Planned => run.stage \in Planned /\ run'.post = run.post
  <1> USE SettledStages, PlannedStages, StageSets
  <1>0. IsRun(run)
    BY DEF TypeInv, TypeOK
  <1>1. ~Finish
    BY IdleRunFields DEF Finish
  <1>2. ASSUME NEW s, NEW l, NEW q, Goto(s, l) \/ Wrote(q, s, l)
        PROVE  Fields /\ run'.stage \in {run.stage, s}
    BY <1>0, <1>2 DEF Goto, Wrote, IsRun
  <1>3. ~Raise
    <2>1. Raise => Finish \/ run'.stage = "rollback"
      BY <1>0 DEF Raise, Finish, IsRun
    <2> QED
      BY <1>1, <2>1
  <1>4. ASSUME run.stage \in Planned, Fields PROVE Goal
    BY <1>4
  <1>5. Commands => Goal
    <2>1. ASSUME NEW op, NEW stage \in {"reset", "plan"}, Start(op, stage) PROVE FALSE
      <3>1. run'.stage = stage
        BY <2>1 DEF Start, IdleRun
      <3> QED
        BY <3>1
    <2>2. ASSUME NEW id, StartRestore(id) PROVE FALSE
      <3>1. run'.op = "restore"
        BY <2>2 DEF StartRestore, IdleRun
      <3> QED
        BY <3>1
    <2>3. ClearSentinel => Goal
      BY DEF ClearSentinel
    <2> QED
      BY <2>1, <2>2, <2>3 DEF Commands, StartInstall, StartUninstall
  <1>6. ~Reset
    <2>1. ASSUME BackupLegacyConfig PROVE FALSE
      <3>1. Finish \/ run'.stage = "resetTree"
        BY <1>0, <2>1 DEF BackupLegacyConfig, IsRun
      <3> QED
        BY <1>1, <3>1
    <2>2. ASSUME NEW t, RemoveLegacyTree(t) PROVE FALSE
      BY <1>2, <2>2 DEF RemoveLegacyTree, Writing
    <2>3. ASSUME NEW f, WriteStockConfig(f) PROVE FALSE
      <3>1. run'.stage \in {"plan", "resetConfig"}
        BY <1>0, <2>3 DEF WriteStockConfig, Writing, IsRun, IdleRun
      <3> QED
        BY <3>1
    <2>4. ASSUME SkipLegacyTree PROVE FALSE
      BY <1>0, <2>4, GotoFields DEF SkipLegacyTree
    <2> QED
      BY <2>1, <2>2, <2>3, <2>4 DEF Reset
  <1>7. Prepare => Goal
    <2>1. CreateBackup \/ Track => Fields /\ run.stage \in Planned
      BY <1>0, ZenonT(30) DEF CreateBackup, Track, IsRun
    <2> QED
      BY <1>1, <1>4, <2>1 DEF Prepare, Refuse
  <1>8. Write => Goal
    <2>1. WriteMarker => Fields /\ run.stage \in Planned
      BY <1>0 DEF WriteMarker, Writing, IsRun
    <2>2. ASSUME NEW x, InstallExtra(x) \/ RemoveExtra(x) PROVE Fields /\ run.stage \in Planned
      BY <1>0, <2>2 DEF InstallExtra, RemoveExtra, Writing, IsRun
    <2>3. ASSUME NEW s, DeploySource(s) \/ RestoreSource(s) \/ MirrorFile(s) \/ RemoveTreeFile(s)
                        \/ WriteConfig(s)
          PROVE  Fields /\ run.stage \in Planned
      <3>1. run.stage \in Planned
        BY <2>3 DEF DeploySource, RestoreSource, MirrorFile, RemoveTreeFile, WriteConfig, Writing
      <3> QED
        BY <1>2, <1>3, <2>3, <3>1
           DEF DeploySource, RestoreSource, MirrorFile, RemoveTreeFile, WriteConfig
    <2>4. CheckPreimages => Fields /\ run.stage \in Planned
      BY <1>2, <1>3 DEF CheckPreimages
    <2>5. ASSUME Postflight PROVE Goal
      <3>1. Goto("state", {StateFile}) /\ run.stage = "postflight"
        BY <1>3, <2>5 DEF Postflight
      <3>2. Fields /\ run'.stage = "state"
        BY <1>0, <1>2, <3>1, GotoFields
      <3> QED
        BY <3>1, <3>2
    <2>6. ~(Commit \/ Optimize)
      BY <1>0, GotoFields DEF Commit, Optimize
    <2>7. ASSUME WriteState \/ DeleteState PROVE Goal
      <3>1. run.stage = "state" /\ Wrote(StateFile, "state", {})
        BY <2>7 DEF WriteState, DeleteState, Writing
      <3>2. Fields /\ run'.stage = "state"
        BY <1>2, <3>1
      <3> QED
        BY <3>1, <3>2
    <2> QED
      BY <1>4, <2>1, <2>2, <2>3, <2>4, <2>5, <2>6, <2>7 DEF Write
  <1>9. ~Restore
    BY <1>0, <1>1, SameCommand DEF TypeInv, StagesOK, Restore, SwapOut, SwapIn, VerifyRestore,
       WriteRestoreMarker, RestoreArchivedSource, Writing, Proceed
  <1>10. ~Activation
    <2>1. Activate \/ RestartPending \/ AwaitKlipper => Finish \/ run'.stage \in Committed
      BY <1>0, GotoFields DEF Activate, RestartPending, AwaitKlipper, IsRun
    <2> QED
      BY <1>1, <2>1 DEF Activation
  <1>11. ~Rollback
    <2>1. ASSUME NEW q, RollbackStep(q) PROVE run'.stage = "rollback"
      BY <1>0, <2>1 DEF RollbackStep, IsRun
    <2> QED
      BY <1>1, <2>1 DEF Rollback, RollbackDone
  <1>12. ~Faults
    BY <1>1, <1>3 DEF Faults, Fail, RollbackFails, InterruptReset, Crash
  <1>13. Environment => Goal
    <2>1. Environment => Fields /\ run'.stage = run.stage
      BY <1>0, ZenonT(30) DEF Environment, EditConfig, EditOwned, Edit, KlipperRestart, StartPrint,
                            EndPrint, IsRun
    <2> QED
      BY <2>1
  <1> QED
    BY <1>5, <1>6, <1>7, <1>8, <1>9, <1>10, <1>11, <1>12, <1>13 DEF Next, Proceed

\* Where what a step writes to the configuration comes from.
LEMMA Contents ==
    ASSUME TypeInv, Next, hist'.edits = hist.edits, NEW p \in ConfigTree \ {StateFile}
    PROVE  \/ disk'[p] \in {disk[p], Absent}
           \/ p \in TreeFiles /\ disk'[p] = "packaged"
           \/ p \in ConfigFiles /\ disk'[p] = StockContent(p)
           \/ /\ p \in ConfigFiles /\ run.op # "restore" /\ run.stage \in Planned
              /\ disk'[p] = run.post[p]
           \/ p \in Tracked(run.journal) /\ disk'[p] = run.journal.snap[p]
           \/ \E a \in backups : disk'[p] = Archived(a, p)
  <1> DEFINE Goal == \/ disk'[p] \in {disk[p], Absent}
                     \/ p \in TreeFiles /\ disk'[p] = "packaged"
                     \/ p \in ConfigFiles /\ disk'[p] = StockContent(p)
                     \/ /\ p \in ConfigFiles /\ run.op # "restore" /\ run.stage \in Planned
                        /\ disk'[p] = run.post[p]
                     \/ p \in Tracked(run.journal) /\ disk'[p] = run.journal.snap[p]
                     \/ \E a \in backups : disk'[p] = Archived(a, p)
  <1> USE PlannedStages
  <1>0. WellFormed(disk) /\ IsHist(hist) /\ IsRun(run) /\ p \in Paths
    BY DEF TypeInv, TypeOK, Paths
  <1>1. ASSUME NEW q, NEW c, disk' = [disk EXCEPT ![q] = c]
        PROVE  disk'[p] = IF q = p THEN c ELSE disk[p]
    BY <1>0, <1>1 DEF WellFormed
  <1>2. p \notin Sources \cup Extras \cup {RestartMarker, StateFile}
    BY PathsAreDistinct DEF ConfigTree
  <1>3. UNCHANGED disk => Goal
    OBVIOUS
  <1>4. Commands \/ Prepare \/ Faults => UNCHANGED disk
    BY DEF Commands, StartInstall, StartUninstall, Start, StartRestore, ClearSentinel,
           Prepare, PlanInstall, PlanUninstall, Refuse, CreateBackup, Track,
           Faults, Fail, RollbackFails, InterruptReset, Crash
  <1>5. Reset => Goal
    <2>1. ASSUME NEW t \in TreeFiles, RemoveLegacyTree(t) PROVE Goal
      BY <1>1, <2>1 DEF RemoveLegacyTree
    <2>2. ASSUME NEW f \in ConfigFiles, WriteStockConfig(f) PROVE Goal
      BY <1>1, <2>2 DEF WriteStockConfig
    <2> QED
      BY <2>1, <2>2 DEF Reset, BackupLegacyConfig, SkipLegacyTree
  <1>6. Write => Goal
    <2>1. WriteMarker \/ WriteState \/ DeleteState => Goal
      BY <1>1, <1>2 DEF WriteMarker, WriteState, DeleteState
    <2>2. ASSUME NEW s \in Sources, DeploySource(s) \/ RestoreSource(s) PROVE Goal
      BY <1>1, <1>2, <2>2 DEF DeploySource, RestoreSource
    <2>3. ASSUME NEW x \in Extras, InstallExtra(x) PROVE Goal
      BY <1>1, <1>2, <2>3 DEF InstallExtra
    <2>4. ASSUME NEW x \in Extras, RemoveExtra(x) PROVE Goal
      BY <1>1, <1>2, <2>4 DEF RemoveExtra
    <2>5. ASSUME NEW t \in TreeFiles, MirrorFile(t) \/ RemoveTreeFile(t) PROVE Goal
      BY <1>1, <2>5 DEF MirrorFile, RemoveTreeFile
    <2>6. ASSUME NEW f \in ConfigFiles, WriteConfig(f) PROVE Goal
      BY <1>1, <2>6 DEF WriteConfig, TypeInv, StagesOK
    <2>7. CheckPreimages \/ Postflight \/ Commit \/ Optimize => Goal
      BY DEF CheckPreimages, Postflight, Commit, Optimize
    <2> QED
      BY <2>1, <2>2, <2>3, <2>4, <2>5, <2>6, <2>7 DEF Write
  <1>7. Restore => Goal
    <2>1. SwapOut => Goal
      BY <1>0 DEF SwapOut
    <2>2. ASSUME SwapIn PROVE Goal
      <3>1. run.op = "restore"
        BY <2>2 DEF SwapIn, TypeInv, StagesOK
      <3>2. ArchiveOf(run.archive) \in backups
        BY <3>1, ArchiveChosen DEF TypeInv, StagesOK
      <3> QED
        BY <1>0, <2>2, <3>2 DEF SwapIn
    <2>3. VerifyRestore => Goal
      BY DEF VerifyRestore
    <2>4. WriteRestoreMarker => Goal
      BY <1>1, <1>2 DEF WriteRestoreMarker
    <2>5. ASSUME NEW s \in Sources, RestoreArchivedSource(s) PROVE Goal
      BY <1>1, <1>2, <2>5 DEF RestoreArchivedSource
    <2> QED
      BY <2>1, <2>2, <2>3, <2>4, <2>5 DEF Restore
  <1>8. Activation => Goal
    <2>1. Activation => UNCHANGED disk \/ \E c : disk' = [disk EXCEPT ![RestartMarker] = c]
      BY DEF Activation, Activate, RestartPending, AwaitKlipper
    <2> QED
      BY <1>1, <1>2, <2>1
  <1>9. Rollback => Goal
    <2>1. ASSUME NEW q \in Paths, RollbackStep(q) PROVE Goal
      <3>1. q \in Tracked(run.journal)
        BY <1>0, <2>1 DEF RollbackStep, NextToRestore, IsJournal, IsRun
      <3> QED
        BY <1>1, <2>1, <3>1 DEF RollbackStep
    <2> QED
      BY <2>1 DEF Rollback, RollbackDone
  <1>10. Environment => UNCHANGED disk
    <2>1. ASSUME NEW paths, NEW items, Edit(paths, items) PROVE FALSE
      <3>1. hist'.edits = hist.edits + 1 /\ hist.edits \in Nat
        BY <1>0, <2>1 DEF Edit, IsHist
      <3> QED
        BY <3>1
    <2> QED
      BY <2>1 DEF Environment, EditConfig, EditOwned, KlipperRestart, StartPrint, EndPrint
  <1> QED
    BY <1>3, <1>4, <1>5, <1>6, <1>7, <1>8, <1>9, <1>10 DEF Next, Proceed

\* While nobody edits, nothing is counted as somebody else's.
LEMMA Unedited ==
    ASSUME TypeInv, Next, hist'.edits = 0
    PROVE  /\ hist.edits = 0 /\ hist'.touched = hist.touched
           /\ run'.edited \in {run.edited, {}}
  <1> DEFINE Same == hist'.edits = hist.edits
  <1>0. IsHist(hist) /\ IsRun(run) /\ hist.edits \in Nat
    BY DEF TypeInv, TypeOK, IsHist
  <1>1. ASSUME NEW r, \/ hist' = hist \/ hist' = [hist EXCEPT !.archives = r]
                      \/ hist' = [hist EXCEPT !.runs = r] \/ hist' = [hist EXCEPT !.faults = r]
                      \/ hist' = [hist EXCEPT !.prints = r]
        PROVE  Same
    BY <1>0, <1>1 DEF IsHist
  <1>2. Commands => Same
    BY <1>1 DEF Commands, StartInstall, StartUninstall, Start, ClearSentinel, StartRestore
  <1>3. Reset \/ Prepare => Same
    BY <1>1 DEF Reset, BackupLegacyConfig, SkipLegacyTree, RemoveLegacyTree, WriteStockConfig,
                Prepare, PlanInstall, PlanUninstall, Refuse, CreateBackup, Track
  <1>4. Write => Same
    BY <1>1 DEF Write, WriteMarker, CheckPreimages, Postflight, WriteState, DeleteState, Commit,
                Optimize, DeploySource, RestoreSource, InstallExtra, RemoveExtra, MirrorFile,
                RemoveTreeFile, WriteConfig
  <1>5. Restore \/ Activation \/ Rollback => Same
    BY <1>1 DEF Restore, SwapOut, SwapIn, VerifyRestore, WriteRestoreMarker,
                RestoreArchivedSource, Activation, Activate, RestartPending, AwaitKlipper,
                Rollback, RollbackDone, RollbackStep
  <1>6. Faults => Same
    <2>1. Fail => Same
      BY <1>1 DEF Fail, Fault
    <2>2. InterruptReset \/ Crash => Same
      BY <1>0 DEF InterruptReset, Crash, IsHist
    <2>3. RollbackFails => Same
      BY <1>0 DEF RollbackFails, IsHist
    <2> QED
      BY <2>1, <2>2, <2>3 DEF Faults
  <1>7. ASSUME Environment PROVE hist'.edits = hist.edits /\ hist'.touched = hist.touched /\ run' = run
    <2>1. ASSUME NEW paths, NEW items, Edit(paths, items) PROVE FALSE
      <3>1. hist'.edits = hist.edits + 1
        BY <1>0, <2>1 DEF Edit, IsHist
      <3> QED
        BY <1>0, <3>1
    <2>2. KlipperRestart => hist'.edits = hist.edits /\ hist'.touched = hist.touched
      BY <1>0 DEF KlipperRestart, IsHist
    <2>3. StartPrint \/ EndPrint => hist'.edits = hist.edits /\ hist'.touched = hist.touched
      BY <1>0 DEF StartPrint, EndPrint, IsHist
    <2> QED
      BY <1>7, <2>1, <2>2, <2>3
         DEF Environment, EditConfig, EditOwned, KlipperRestart, StartPrint, EndPrint
  <1>8. hist.edits = 0
    BY <1>2, <1>3, <1>4, <1>5, <1>6, <1>7 DEF Next, Proceed
  <1>9. hist'.touched = hist.touched
    BY <1>7, Forward
  <1>10. run'.edited \in {run.edited, {}}
    BY <1>0, <1>7, EditedMoves
  <1> QED
    BY <1>8, <1>9, <1>10

LEMMA PlainContents ==
    /\ \A p \in ConfigTree : PlainContent(p, Absent)
    /\ \A c : PlainContent(StateFile, c)
    /\ \A t \in TreeFiles : PlainContent(t, "packaged")
    /\ \A f \in ConfigFiles : PlainContent(f, StockContent(f))
  <1>1. \A t \in TreeFiles : t \in Paths /\ ContentOf(t) = {"packaged", "user"}
    BY PathsAreDistinct DEF Paths, ConfigTree, ContentOf, OwnedContents
  <1>2. \A t \in TreeFiles : Absent # "user"
    BY <1>1, AbsentIsNoContent
  <1> QED
    BY <1>2, PathsAreDistinct DEF PlainContent, StockContent

\* Without a user's value the composed files have none and nothing is spared.
LEMMA PlainPlan ==
    ASSUME TypeInv, Next, PlainInv, hist.edits = 0, PlanInstall \/ PlanUninstall
    PROVE  /\ \A f \in ConfigFiles : PlainContent(f, run'.post[f])
           /\ run'.kept = {}
  <1>0. WellFormed(disk) /\ IsRun(run) /\ ConfigPresent(disk)
    BY DEF TypeInv, TypeOK, PlanInstall, PlanUninstall, InstallPreflight, UninstallPreflight
  <1>1. ASSUME NEW f \in ConfigFiles
        PROVE  /\ disk[f] \in [ItemsOf(f) -> Values]
               /\ \A i \in ItemsOf(f) : disk[f][i] \in {"expected", "desired"}
    <2>1. disk[f] \in [ItemsOf(f) -> Values] /\ disk[f] # Absent
      BY <1>0, <1>1, HeldConfig DEF WellFormed, IsFiles, ConfigPresent, Paths, ConfigTree
    <2>2. PlainContent(f, disk[f])
      BY <1>1 DEF PlainInv, ConfigTree
    <2> QED
      BY <1>1, <2>1, <2>2 DEF PlainContent, Values
  <1>2. ASSUME NEW i \in Items
        PROVE  ItemValue(disk, i) \in {"expected", "desired"}
    BY <1>1, ItemsAreDistinct DEF ItemValue, ItemsOf
  <1>3. ASSUME PlanInstall
        PROVE  /\ run'.post = [f \in ConfigFiles |-> InstallContent(disk[f])]
               /\ run'.kept = {i \in Options : ClassifyInstall(ItemValue(disk, i)) = "user_modified"}
    BY <1>0, <1>3 DEF PlanInstall, IsRun
  <1>4. ASSUME PlanUninstall
        PROVE  /\ run'.post = [f \in ConfigFiles |-> UninstallContent(disk[f])]
               /\ run'.kept = {i \in Options \cup Sections :
                                 ClassifyUninstall(ItemValue(disk, i)) = "user_modified"}
    BY <1>0, <1>4 DEF PlanUninstall, IsRun
  <1>5. run'.kept = {}
    <2>1. \A i \in Items : /\ ClassifyInstall(ItemValue(disk, i)) # "user_modified"
                           /\ ClassifyUninstall(ItemValue(disk, i)) # "user_modified"
      BY <1>2 DEF ClassifyInstall, ClassifyUninstall
    <2>2. Options \cup Sections \subseteq Items
      BY DEF Items
    <2> QED
      BY <1>3, <1>4, <2>1, <2>2
  <1>6. ASSUME NEW f \in ConfigFiles PROVE PlainContent(f, run'.post[f])
    <2>1. \A i \in ItemsOf(f) : /\ InstallContent(disk[f])[i] # "user"
                                /\ UninstallContent(disk[f])[i] # "user"
      BY <1>1, <1>6 DEF InstallContent, UninstallContent
    <2>2. run'.post[f] \in {InstallContent(disk[f]), UninstallContent(disk[f])}
      BY <1>3, <1>4, <1>6
    <2> QED
      BY <1>6, <2>1, <2>2, PathsAreDistinct DEF PlainContent
  <1> QED
    BY <1>5, <1>6

LEMMA StepPlain ==
    ASSUME TypeInv, PlainInv, Next
    PROVE  PlainInv'
  <1> SUFFICES ASSUME hist'.edits = 0
               PROVE  /\ hist'.touched = {} /\ run'.edited = {}
                      /\ \A p \in ConfigTree : PlainContent(p, disk'[p])
                      /\ \A p \in ConfigTree \cap Tracked(run'.journal) :
                            PlainContent(p, run'.journal.snap[p])
                      /\ \A a \in backups' : \A p \in ConfigTree : PlainContent(p, Archived(a, p))
                      /\ (run'.op # "restore" /\ run'.stage \in Planned) =>
                            \A f \in ConfigFiles : PlainContent(f, run'.post[f])
                      /\ (run'.op # "restore" /\ run'.stage \in Decided) => run'.kept = {}
    BY DEF PlainInv, PlainContent, Tracked, Archived
  <1>1. hist.edits = 0 /\ hist'.touched = hist.touched /\ run'.edited \in {run.edited, {}}
    BY Unedited
  <1>2. /\ hist.touched = {} /\ run.edited = {}
        /\ \A p \in ConfigTree : PlainContent(p, disk[p])
        /\ \A p \in ConfigTree \cap Tracked(run.journal) : PlainContent(p, run.journal.snap[p])
        /\ \A a \in backups : \A p \in ConfigTree : PlainContent(p, Archived(a, p))
        /\ (run.op # "restore" /\ run.stage \in Planned) =>
              \A f \in ConfigFiles : PlainContent(f, run.post[f])
        /\ (run.op # "restore" /\ run.stage \in Decided) => run.kept = {}
    BY <1>1 DEF PlainInv
  <1>3. ASSUME NEW p \in ConfigTree PROVE PlainContent(p, disk'[p])
    <2>1. CASE p = StateFile
      BY <2>1, PlainContents
    <2>2. CASE p # StateFile
      BY <1>1, <1>2, <1>3, <2>2, Contents, PlainContents
    <2> QED
      BY <2>1, <2>2
  <1>4. ASSUME NEW p \in ConfigTree \cap Tracked(run'.journal)
        PROVE  PlainContent(p, run'.journal.snap[p])
    BY <1>2, <1>4, Preimages
  <1>5. ASSUME NEW a \in backups', NEW p \in ConfigTree PROVE PlainContent(p, Archived(a, p))
    <2>1. CASE a \in backups
      BY <1>2, <1>5, <2>1
    <2>2. CASE a \notin backups
      <3>1. BackupLegacyConfig \/ CreateBackup
        BY <1>5, <2>2, Forward
      <3>2. \E srcs : a = Archive(disk, srcs)
        BY <1>5, <2>2, <3>1 DEF BackupLegacyConfig, CreateBackup, Pruned
      <3>3. Archived(a, p) = disk[p]
        BY <1>5, <3>2 DEF Archive, Archived
      <3> QED
        BY <1>2, <1>5, <3>3
    <2> QED
      BY <2>1, <2>2
  <1>6. CASE PlanInstall \/ PlanUninstall
    BY <1>1, <1>2, <1>3, <1>4, <1>5, <1>6, PlainPlan
  <1>7. CASE ~PlanInstall /\ ~PlanUninstall
    <2>1. (run'.op # "restore" /\ run'.stage \in Decided) => run'.kept = {}
      BY <1>2, <1>7, Plans
    <2>2. (run'.op # "restore" /\ run'.stage \in Planned)
             => \A f \in ConfigFiles : PlainContent(f, run'.post[f])
      <3>1. Planned \subseteq Decided
        BY SettledStages, PlannedStages
      <3> QED
        BY <1>2, <1>7, <3>1, Plans
    <2> QED
      BY <1>1, <1>2, <1>3, <1>4, <1>5, <2>1, <2>2
  <1> QED
    BY <1>6, <1>7

\* A step that neither notes a write nor raises leaves what is recorded as found.
LEMMA StepUnwritten ==
    ASSUME TypeInv, RollbackInv, NotedInv, UnwrittenInv, Next
    PROVE  UnwrittenInv'
  <1> USE StageSets, StagesAndPaths, RecordedPaths
  <1>0. IsRun(run) /\ WellFormed(disk) /\ IsJournal(run.journal)
    BY DEF TypeInv, TypeOK, IsRun
  <1>1. run'.stage \notin Guarded => UnwrittenInv'
    BY DEF UnwrittenInv
  <1>2. run'.journal.writes => UnwrittenInv'
    BY DEF UnwrittenInv
  <1>3. ASSUME run.stage \in Guarded, run'.stage # "rollback",
               run'.journal.writes = run.journal.writes, run'.before = run.before,
               run.edited \subseteq run'.edited,
               \A p \in Recorded \ run'.edited : disk'[p] = disk[p]
        PROVE  UnwrittenInv'
    BY <1>3 DEF UnwrittenInv
  <1>4. ASSUME NEW s, NEW l, Goto(s, l), run.stage \in Guarded, s # "rollback", UNCHANGED disk
        PROVE  UnwrittenInv'
    BY <1>0, <1>3, <1>4, GotoFields
  <1>5. \A j : IsJournal(j) => NoteWrite(j).writes
    BY DEF NoteWrite, IsJournal
  <1>6. ASSUME NEW s, NEW l, NEW p, Wrote(p, s, l) PROVE UnwrittenInv'
    <2>1. run'.journal = NoteWrite(run.journal)
      BY <1>0, <1>6 DEF Wrote, IsRun
    <2> QED
      BY <1>0, <1>2, <1>5, <2>1
  <1>7. Finish => UnwrittenInv'
    BY <1>1, IdleRunFields DEF Finish
  <1>8. Raise => UnwrittenInv'
    <2>1. (Raise /\ run.journal.writes) => run'.journal = run.journal
      BY <1>0 DEF Raise, IsRun
    <2> QED
      BY <1>2, <1>7, <2>1 DEF Raise, Finish
  <1>9. ASSUME NEW p \in Paths, NEW c, disk' = [disk EXCEPT ![p] = c], p \notin Recorded \/ c = disk[p]
        PROVE  \A q \in Recorded : disk'[q] = disk[q]
    BY <1>0, <1>9 DEF WellFormed
  <1>10. Commands => UnwrittenInv'
    <2>1. ASSUME NEW op, NEW stage \in {"reset", "plan"}, Start(op, stage) PROVE UnwrittenInv'
      <3>1. run'.stage = stage
        BY <2>1 DEF Start, IdleRun
      <3> QED
        BY <3>1, <1>1
    <2>2. ASSUME NEW id, StartRestore(id) PROVE UnwrittenInv'
      BY <1>2, <2>2, RestoreIsFresh
    <2>3. ClearSentinel => UnwrittenInv'
      BY DEF ClearSentinel, UnwrittenInv
    <2> QED
      BY <2>1, <2>2, <2>3 DEF Commands, StartInstall, StartUninstall
  <1>11. Reset => UnwrittenInv'
    <2>1. ASSUME BackupLegacyConfig PROVE UnwrittenInv'
      <3>1. Finish \/ (run'.stage = "resetTree" /\ run'.before = disk /\ disk' = disk)
        BY <1>0, <2>1 DEF BackupLegacyConfig, IsRun
      <3> QED
        BY <1>7, <3>1 DEF UnwrittenInv
    <2>2. ASSUME NEW f \in ConfigFiles, WriteStockConfig(f) PROVE UnwrittenInv'
      <3>1. CASE run.left = {f}
        <4>1. run'.stage = "plan"
          BY <2>2, <3>1 DEF WriteStockConfig, IdleRun
        <4> QED
          BY <4>1, <1>1
      <3>2. CASE run.left # {f}
        <4> DEFINE j == TrackFiles(run.journal, disk, {f})
                   k == IF disk[f] = StockContent(f) THEN j ELSE NoteWrite(j)
        <4>1. run' = [run EXCEPT !.left = run.left \ {f}, !.journal = k]
          BY <1>0, <2>2, <3>2 DEF WriteStockConfig, IsRun
        <4>2. IsJournal(j) /\ j.writes = run.journal.writes
          BY <1>0, TrackedFiles
        <4> HIDE DEF j
        <4>3. /\ run'.stage = run.stage /\ run'.before = run.before /\ run'.edited = run.edited
              /\ run'.journal = k
          BY <1>0, <4>1 DEF IsRun
        <4>4. CASE disk[f] # StockContent(f)
          BY <1>2, <1>5, <4>2, <4>3, <4>4
        <4>5. CASE disk[f] = StockContent(f)
          <5>1. \A q \in Recorded : disk'[q] = disk[q]
            BY <1>9, <2>2, <4>5 DEF WriteStockConfig
          <5>2. run.stage = "resetConfig"
            BY <2>2 DEF WriteStockConfig, Writing
          <5> QED
            BY <1>3, <4>2, <4>3, <4>5, <5>1, <5>2
        <4> QED
          BY <4>4, <4>5
      <3> QED
        BY <3>1, <3>2
    <2>3. ASSUME SkipLegacyTree PROVE UnwrittenInv'
      BY <1>4, <2>3 DEF SkipLegacyTree
    <2> QED
      BY <1>6, <2>1, <2>2, <2>3 DEF Reset, RemoveLegacyTree
  <1>12. Prepare => UnwrittenInv'
    <2>1. PlanInstall \/ PlanUninstall => run'.stage = "backup"
      BY <1>0 DEF PlanInstall, PlanUninstall, IsRun
    <2>2. CreateBackup => run'.stage = "track"
      BY <1>0 DEF CreateBackup, IsRun
    <2>3. Track => run'.stage # "rollback" /\ run'.before = disk /\ disk' = disk
      BY <1>0 DEF Track, IsRun
    <2>4. Track => UnwrittenInv'
      BY <2>3 DEF UnwrittenInv
    <2> QED
      BY <1>1, <1>7, <2>1, <2>2, <2>4 DEF Prepare, Refuse
  <1>13. Write => UnwrittenInv'
    <2>1. WriteMarker => UnwrittenInv'
      <3> DEFINE j == TrackFiles(run.journal, disk, {RestartMarker})
      <3>1. IsJournal(j)
        BY <1>0, TrackedFiles
      <3>2. WriteMarker => run'.journal = NoteWrite(j)
        BY <1>0 DEF WriteMarker, IsRun
      <3> QED
        BY <1>2, <1>5, <3>1, <3>2
    <2>2. ASSUME NEW x \in Extras, InstallExtra(x) \/ RemoveExtra(x) PROVE UnwrittenInv'
      <3>1. \A q \in Recorded : disk'[q] = disk[q]
        BY <1>9, <2>2 DEF InstallExtra, RemoveExtra
      <3>2. /\ run.stage = "extras" /\ run'.stage \in {"extras", "tree"}
            /\ run'.before = run.before /\ run'.edited = run.edited
        BY <1>0, <2>2 DEF InstallExtra, RemoveExtra, Writing, IsRun
      <3>3. run'.journal = run.journal \/ run'.journal.writes
        <4> DEFINE j == TrackFiles(run.journal, disk, {x})
        <4>1. IsJournal(j)
          BY <1>0, TrackedFiles
        <4>2. run'.journal \in {run.journal, NoteWrite(run.journal), NoteWrite(j)}
          BY <1>0, <2>2 DEF InstallExtra, RemoveExtra, IsRun
        <4> QED
          BY <1>0, <1>5, <4>1, <4>2
      <3> QED
        BY <1>2, <1>3, <3>1, <3>2, <3>3
    <2>3. ASSUME NEW t \in TreeFiles, MirrorFile(t) PROVE UnwrittenInv'
      <3>1. CASE disk[t] = "packaged"
        <4>1. /\ run.stage = "tree"
              /\ Goto(IF run.left = {t} THEN "check" ELSE "tree", run.left \ {t})
          BY <2>3, <3>1 DEF MirrorFile, Writing
        <4>2. UNCHANGED disk
          BY <1>0, <2>3, <3>1 DEF MirrorFile, WellFormed, IsFiles
        <4> QED
          BY <1>4, <4>1, <4>2
      <3> QED
        BY <1>6, <2>3, <3>1 DEF MirrorFile
    <2>4. CheckPreimages => UnwrittenInv'
      <3>1. AfterConfig # "rollback"
        BY AfterConfigStage
      <3> QED
        BY <1>4, <1>8, <3>1 DEF CheckPreimages
    <2>5. Postflight => UnwrittenInv'
      BY <1>4, <1>8 DEF Postflight
    <2>6. Commit \/ Optimize => UnwrittenInv'
      BY <1>0, <1>1, GotoFields DEF Commit, Optimize
    <2>8. WriteState \/ DeleteState => UnwrittenInv'
      BY <1>6 DEF WriteState, DeleteState
    <2>7. ASSUME NEW p, DeploySource(p) \/ RestoreSource(p) \/ RemoveTreeFile(p) \/ WriteConfig(p)
          PROVE  UnwrittenInv'
      BY <1>6, <1>8, <2>7 DEF DeploySource, RestoreSource, RemoveTreeFile, WriteConfig
    <2> QED
      BY <2>1, <2>2, <2>3, <2>4, <2>5, <2>6, <2>7, <2>8 DEF Write
  <1>14. ASSUME Restore PROVE UnwrittenInv'
    <2>1. run.op = "restore" /\ run.stage \in Guarded
      BY <1>14 DEF Restore, SwapOut, SwapIn, VerifyRestore, WriteRestoreMarker,
                  RestoreArchivedSource, Writing, TypeInv, StagesOK
    <2>2. run.journal.writes
      BY <2>1 DEF NotedInv
    <2>3. ASSUME NEW s, NEW l, Goto(s, l) PROVE UnwrittenInv'
      BY <1>0, <1>2, <2>2, <2>3, GotoFields
    <2> QED
      BY <1>6, <1>8, <1>14, <2>3
         DEF Restore, SwapOut, SwapIn, VerifyRestore, WriteRestoreMarker, RestoreArchivedSource
  <1>15. Activation => UnwrittenInv'
    BY <1>0, <1>1, <1>7, ActivationGoes
  <1>16. Rollback => UnwrittenInv'
    <2>1. ASSUME NEW p, RollbackStep(p) PROVE UnwrittenInv'
      <3>1. run.journal.writes
        BY <2>1 DEF RollbackStep, UnwrittenInv
      <3>2. run'.journal.writes = run.journal.writes
        BY <1>0, <2>1 DEF RollbackStep, Restored, IsRun, IsJournal
      <3> QED
        BY <1>2, <3>1, <3>2
    <2> QED
      BY <1>7, <2>1 DEF Rollback, RollbackDone
  <1>17. Faults => UnwrittenInv'
    BY <1>7, <1>8 DEF Faults, Fail, RollbackFails, InterruptReset, Crash
  <1>18. ASSUME Environment PROVE UnwrittenInv'
    <2>1. ASSUME NEW p, NEW items, Edit({p}, items), \A q \in Paths : disk'[q] # disk[q] => q = p
          PROVE  UnwrittenInv'
      <3>1. CASE run.before = NoFiles
        <4>1. run' = run /\ run.stage \notin Guarded
          BY <2>1, <3>1 DEF Edit, RollbackInv
        <4> QED
          BY <4>1, <1>1
      <3>2. CASE run.before # NoFiles
        <4>1. /\ run'.stage = run.stage /\ run'.journal = run.journal /\ run'.before = run.before
              /\ run'.edited = run.edited \cup {p}
          BY <1>0, <2>1, <3>2 DEF Edit, IsRun
        <4> QED
          BY <2>1, <4>1 DEF UnwrittenInv
      <3> QED
        BY <3>1, <3>2
    <2>2. ASSUME NEW i \in Items, NEW v \in Values, EditConfig(i, v) PROVE UnwrittenInv'
      <3>1. \A q \in Paths : disk'[q] # disk[q] => q = FileOf[i]
        BY <1>0, <2>2 DEF EditConfig, WellFormed
      <3> QED
        BY <2>1, <2>2, <3>1 DEF EditConfig
    <2>3. ASSUME NEW p \in TreeFiles \cup Extras \cup Sources, EditOwned(p) PROVE UnwrittenInv'
      <3>1. \A q \in Paths : disk'[q] # disk[q] => q = p
        BY <1>0, <2>3, OneChanges DEF EditOwned
      <3> QED
        BY <2>1, <2>3, <3>1 DEF EditOwned
    <2>4. UNCHANGED <<disk, run>> => UnwrittenInv'
      BY DEF UnwrittenInv
    <2> QED
      BY <1>18, <2>2, <2>3, <2>4 DEF Environment, KlipperRestart, StartPrint, EndPrint
  <1> QED
    BY <1>10, <1>11, <1>12, <1>13, <1>14, <1>15, <1>16, <1>17, <1>18 DEF Next, Proceed

\* An edit of others makes no file absent.
LEMMA EditedIsThere ==
    ASSUME TypeInv, Environment, NEW p \in Paths, disk[p] # Absent
    PROVE  disk'[p] # Absent
  <1>0. WellFormed(disk)
    BY DEF TypeInv, TypeOK
  <1>1. ASSUME NEW i \in Items, NEW v \in Values, EditConfig(i, v) PROVE disk'[p] # Absent
    <2> DEFINE f == FileOf[i]
    <2>1. f \in ConfigFiles /\ f \in Paths
      BY ItemsAreDistinct DEF Paths, ConfigTree
    <2>2. disk[f] \in [ItemsOf(f) -> Values] /\ disk[f] # Absent
      BY <1>0, <1>1, <2>1, HeldConfig DEF WellFormed, IsFiles, EditConfig
    <2>3. disk' = [disk EXCEPT ![f] = [disk[f] EXCEPT ![i] = v]]
      BY <1>1 DEF EditConfig
    <2>4. [disk[f] EXCEPT ![i] = v] \in ContentOf(f)
      BY <2>1, <2>2, PathsAreDistinct DEF ContentOf
    <2> QED
      BY <1>0, <2>1, <2>3, <2>4, AbsentIsNoContent DEF WellFormed
  <1>2. ASSUME NEW q \in TreeFiles \cup Extras \cup Sources, EditOwned(q) PROVE disk'[p] # Absent
    <2>1. q \in Paths /\ (IF q \in Sources THEN "other" ELSE "user") \in ContentOf(q)
      BY PathsAreDistinct DEF Paths, ConfigTree, ContentOf, OwnedContents, SourceContents
    <2>2. disk' = [disk EXCEPT ![q] = IF q \in Sources THEN "other" ELSE "user"]
      BY <1>2 DEF EditOwned
    <2> QED
      BY <1>0, <2>1, <2>2, AbsentIsNoContent DEF WellFormed
  <1> QED
    BY <1>1, <1>2 DEF Environment, KlipperRestart, StartPrint, EndPrint

LEMMA StepReady ==
    ASSUME TypeInv, PlainInv, ReadyInv, Next
    PROVE  ReadyInv'
  <1> DEFINE Late == {"extras", "tree", "check", "config", "postflight", "state"}
             After == {"tree", "check", "config", "postflight", "state"}
  <1> USE StagesAndPaths
  <1>0. IsRun(run) /\ WellFormed(disk) /\ IsHist(hist)
    BY DEF TypeInv, TypeOK
  <1>1. run'.stage \notin Late => ReadyInv'
    BY DEF ReadyInv
  <1>2. ASSUME run'.stage # "state", run'.op # "install" PROVE ReadyInv'
    BY <1>2 DEF ReadyInv
  <1>3. ASSUME run'.stage = "extras", run'.left = Extras PROVE ReadyInv'
    BY <1>3 DEF ReadyInv
  <1>4. ASSUME run'.stage \in After \ {"state"}, \A x \in Extras : disk'[x] # Absent PROVE ReadyInv'
    BY <1>4 DEF ReadyInv
  <1>5. Finish => ReadyInv'
    BY <1>1, IdleRunFields DEF Finish
  <1>6. Raise => ReadyInv'
    <2>1. Raise => Finish \/ run'.stage = "rollback"
      BY <1>0 DEF Raise, Finish, IsRun
    <2> QED
      BY <1>1, <1>5, <2>1
  <1>7. ASSUME NEW s, NEW l, NEW p, Goto(s, l) \/ Wrote(p, s, l)
        PROVE  run'.op = run.op /\ run'.stage \in {run.stage, s}
    BY <1>0, <1>7, ArchiveFields
  <1>8. ASSUME NEW p \in Paths \ Extras, NEW c, disk' = [disk EXCEPT ![p] = c]
        PROVE  \A x \in Extras : disk'[x] = disk[x]
    BY <1>0, <1>8 DEF WellFormed
  <1>9. (TreeFiles \cup Sources \cup ConfigFiles \cup {StateFile, RestartMarker}) \subseteq Paths \ Extras
    BY PathsAreDistinct DEF Paths, ConfigTree
  <1>10. Commands => ReadyInv'
    <2>1. ASSUME NEW op, NEW stage \in {"reset", "plan"}, Start(op, stage) PROVE ReadyInv'
      <3>1. run'.stage = stage
        BY <2>1 DEF Start, IdleRun
      <3> QED
        BY <3>1, <1>1
    <2>2. ASSUME NEW id, StartRestore(id) PROVE ReadyInv'
      <3>1. run'.stage = "swapOut"
        BY <2>2 DEF StartRestore, IdleRun
      <3> QED
        BY <3>1, <1>1
    <2>3. ClearSentinel => ReadyInv'
      BY DEF ClearSentinel, ReadyInv
    <2> QED
      BY <2>1, <2>2, <2>3 DEF Commands, StartInstall, StartUninstall
  <1>11. Reset => ReadyInv'
    <2>1. BackupLegacyConfig => Finish \/ run'.stage = "resetTree"
      BY <1>0 DEF BackupLegacyConfig, IsRun
    <2>2. ASSUME NEW f, WriteStockConfig(f) PROVE run'.stage \in {"plan", "resetConfig"}
      BY <1>0, <2>2 DEF WriteStockConfig, Writing, IsRun, IdleRun
    <2>3. ASSUME NEW q, RemoveLegacyTree(q) PROVE run'.stage \in {"resetTree", "resetConfig"}
      BY <1>7, <2>3 DEF RemoveLegacyTree, Writing
    <2>4. SkipLegacyTree => run'.stage = "resetConfig"
      BY <1>0, GotoFields DEF SkipLegacyTree
    <2> QED
      BY <1>1, <1>5, <2>1, <2>2, <2>3, <2>4 DEF Reset
  <1>12. Prepare => ReadyInv'
    <2>1. PlanInstall \/ PlanUninstall => run'.stage = "backup"
      BY <1>0 DEF PlanInstall, PlanUninstall, IsRun
    <2>2. CreateBackup => run'.stage = "track"
      BY <1>0 DEF CreateBackup, IsRun
    <2>3. ASSUME Track PROVE ReadyInv'
      <3>1. /\ run'.op = run.op /\ run'.stage \in {"marker", "extras", "check"}
            /\ run.op = "install" => /\ run'.stage # "check"
                                     /\ run'.stage = "extras" => run'.left = Extras
        BY <1>0, <2>3 DEF Track, IsRun
      <3> QED
        BY <1>1, <1>2, <1>3, <3>1
    <2> QED
      BY <1>1, <1>5, <2>1, <2>2, <2>3 DEF Prepare, Refuse
  <1>13. Write => ReadyInv'
    <2>1. WriteMarker => ReadyInv'
      <3>1. WriteMarker => run'.stage = "sources"
        BY <1>0 DEF WriteMarker, IsRun
      <3> QED
        BY <1>1, <3>1
    <2>2. ASSUME NEW s, DeploySource(s) PROVE ReadyInv'
      <3>1. /\ run'.stage \in {"sources", "extras"}
            /\ run'.stage = "extras" => run'.left = Extras
        BY <1>0, <2>2, WroteFields DEF DeploySource, Writing
      <3> QED
        BY <1>1, <1>3, <3>1
    <2>3. ASSUME NEW s, RestoreSource(s) \/ RemoveTreeFile(s) PROVE ReadyInv'
      <3>1. Raise \/ (run'.op = "uninstall" /\ run'.stage # "state")
        BY <1>7, <2>3 DEF RestoreSource, RemoveTreeFile, Writing
      <3> QED
        BY <1>2, <1>6, <3>1
    <2>4. ASSUME NEW x \in Extras, InstallExtra(x) PROVE ReadyInv'
      <3>1. /\ run.op = "install" /\ run.stage = "extras" /\ run'.op = "install"
            /\ run'.stage = IF run.left = {x} THEN "tree" ELSE "extras"
            /\ run'.left = IF run.left = {x} THEN TreeFiles ELSE run.left \ {x}
        BY <1>0, <2>4 DEF InstallExtra, Writing, IsRun
      <3>2. \A y \in Extras : disk'[y] = IF y = x THEN "packaged" ELSE disk[y]
        BY <1>0, <2>4 DEF InstallExtra, WellFormed
      <3>3. "packaged" # Absent
        <4>1. x \in Paths /\ "packaged" \in ContentOf(x)
          BY PathsAreDistinct DEF Paths, ConfigTree, ContentOf, OwnedContents
        <4> QED
          BY <4>1, AbsentIsNoContent
      <3>4. \A y \in Extras \ run.left : disk[y] # Absent
        BY <3>1 DEF ReadyInv
      <3>5. CASE run.left = {x}
        BY <1>4, <3>1, <3>2, <3>3, <3>4, <3>5
      <3>6. CASE run.left # {x}
        BY <3>1, <3>2, <3>3, <3>4, <3>6 DEF ReadyInv
      <3> QED
        BY <3>5, <3>6
    <2>5. ASSUME NEW x, RemoveExtra(x) PROVE ReadyInv'
      <3>1. run'.op = "uninstall" /\ run'.stage # "state"
        BY <1>0, <2>5 DEF RemoveExtra, Writing, IsRun
      <3> QED
        BY <1>2, <3>1
    <2>6. ASSUME NEW t \in TreeFiles, MirrorFile(t) PROVE ReadyInv'
      <3>1. /\ run.op = "install" /\ run.stage = "tree"
            /\ \A x \in Extras : disk'[x] = disk[x]
        BY <1>8, <1>9, <2>6 DEF MirrorFile, Writing
      <3>2. run'.stage \in {"tree", "check"}
        BY <1>7, <2>6, <3>1 DEF MirrorFile
      <3>3. \A x \in Extras : disk[x] # Absent
        BY <3>1 DEF ReadyInv
      <3> QED
        BY <1>4, <3>1, <3>2, <3>3
    <2>7. ASSUME CheckPreimages \/ \E f \in ConfigFiles : WriteConfig(f) PROVE ReadyInv'
      <3>1. run.stage \in {"check", "config"} /\ \A x \in Extras : disk'[x] = disk[x]
        BY <1>8, <1>9, <2>7 DEF CheckPreimages, WriteConfig
      <3>2. Raise \/ (run'.op = run.op /\ run'.stage \in {AfterConfig, "config"})
        <4>1. CheckPreimages => Raise \/ (run'.op = run.op /\ run'.stage \in {AfterConfig, "config"})
          BY <1>0, GotoFields DEF CheckPreimages
        <4>2. ASSUME NEW f, WriteConfig(f), ~Raise
              PROVE  run'.op = run.op /\ run'.stage \in {AfterConfig, "config"}
          <5>1. run.stage = "config" /\ Wrote(f, AfterConfig, LeftAfterConfig)
            BY <4>2 DEF WriteConfig
          <5> QED
            BY <1>7, <5>1
        <4> QED
          BY <2>7, <4>1, <4>2
      <3>3. CASE run.op = "install"
        <4>1. AfterConfig = "postflight"
          BY <3>3 DEF AfterConfig
        <4>2. \A x \in Extras : disk[x] # Absent
          BY <3>1, <3>3 DEF ReadyInv
        <4> QED
          BY <1>4, <1>6, <3>1, <3>2, <4>1, <4>2
      <3>4. CASE run.op # "install"
        <4>1. AfterConfig # "state"
          BY AfterConfigStage
        <4> QED
          BY <1>2, <1>6, <3>2, <3>4, <4>1
      <3> QED
        BY <3>3, <3>4
    <2>8. ASSUME Postflight PROVE ReadyInv'
      <3>1. CASE Raise
        BY <1>6, <3>1
      <3>2. CASE ~Raise
        <4>1. /\ run.stage = "postflight" /\ Goto("state", {StateFile}) /\ UNCHANGED <<disk, hist>>
              /\ IF run.op = "install" THEN InstallPostflight(disk, run.kept)
                                       ELSE UninstallPostflight(disk, run.kept, run.retained)
          BY <2>8, <3>2 DEF Postflight
        <4>2. run'.op = run.op /\ run'.stage = "state" /\ run'.retained = run.retained
          BY <1>0, <4>1 DEF Goto, IsRun
        <4>3. hist.edits = 0 => run.kept = {}
          <5>1. run.op # "restore"
            BY <4>1 DEF TypeInv, StagesOK, RestoreStages
          <5> QED
            BY <4>1, <5>1, SettledStages DEF PlainInv
        <4>4. run.op = "install" => ConfigPresent(disk) /\ \A x \in Extras : disk[x] # Absent
          BY <4>1 DEF ReadyInv, InstallPostflight
        <4>5. hist.edits = 0 => IF run.op = "install" THEN InstallPostflight(disk, {})
                                ELSE UninstallPostflight(disk, {}, run.retained)
          BY <4>1, <4>3
        <4> QED
          BY <4>1, <4>2, <4>4, <4>5 DEF ReadyInv
      <3> QED
        BY <3>1, <3>2
    <2>9. Commit \/ Optimize => ReadyInv'
      BY <1>0, <1>1, GotoFields DEF Commit, Optimize
    <2>10. ASSUME WriteState \/ DeleteState PROVE ReadyInv'
      <3>1. /\ run.stage = "state" /\ Wrote(StateFile, "state", {}) /\ UNCHANGED hist
            /\ \E c : disk' = [disk EXCEPT ![StateFile] = c]
        BY <2>10 DEF WriteState, DeleteState, Writing
      <3>2. run'.op = run.op /\ run'.stage = "state" /\ run'.retained = run.retained
        BY <1>0, <3>1, TruthFields
      <3>3. /\ \A p \in ConfigFiles \cup TreeFiles \cup Sources \cup Extras : disk'[p] = disk[p]
            /\ \A i \in Items : ItemValue(disk', i) = ItemValue(disk, i)
        <4>1. \A p \in ConfigFiles \cup TreeFiles \cup Sources \cup Extras : disk'[p] = disk[p]
          BY <1>0, <3>1, PathsAreDistinct DEF WellFormed, Paths, ConfigTree
        <4>2. \A i \in Items : FileOf[i] \in ConfigFiles
          BY ItemsAreDistinct
        <4> QED
          BY <4>1, <4>2 DEF ItemValue
      <3>4. ConfigPresent(disk') <=> ConfigPresent(disk)
        BY <3>3 DEF ConfigPresent
      <3>5. /\ InstallPostflight(disk, {}) => InstallPostflight(disk', {})
            /\ UninstallPostflight(disk, {}, run.retained)
                  => UninstallPostflight(disk', {}, run.retained)
        BY <1>0, <3>3, <3>4, ItemsAreDistinct DEF InstallPostflight, UninstallPostflight, IsRun
      <3> QED
        BY <3>1, <3>2, <3>3, <3>4, <3>5 DEF ReadyInv
    <2> QED
      BY <2>1, <2>2, <2>3, <2>4, <2>5, <2>6, <2>7, <2>8, <2>9, <2>10 DEF Write
  <1>14. Restore => ReadyInv'
    <2>1. ASSUME Restore PROVE run.stage \notin Late
      BY <2>1 DEF Restore, SwapOut, SwapIn, VerifyRestore, WriteRestoreMarker,
                  RestoreArchivedSource, Writing
    <2>2. ASSUME Restore PROVE Raise \/ run'.stage \in {run.stage, "swapIn", "verify", "marker",
                                                       "sources", "activate"}
      BY <1>7, <2>2 DEF Restore, SwapOut, SwapIn, VerifyRestore, WriteRestoreMarker,
                        RestoreArchivedSource
    <2> QED
      BY <1>1, <1>6, <2>1, <2>2
  <1>15. Activation => ReadyInv'
    BY <1>0, <1>1, <1>5, ActivationGoes, StageSets
  <1>16. Rollback => ReadyInv'
    <2>1. ASSUME NEW p, RollbackStep(p) PROVE run'.stage = "rollback"
      BY <1>0, <2>1 DEF RollbackStep, IsRun
    <2> QED
      BY <1>1, <1>5, <2>1 DEF Rollback, RollbackDone
  <1>17. Faults => ReadyInv'
    BY <1>5, <1>6 DEF Faults, Fail, RollbackFails, InterruptReset, Crash
  <1>18. ASSUME Environment PROVE ReadyInv'
    <2>1. run'.op = run.op /\ run'.stage = run.stage /\ run'.left = run.left /\ run'.retained = run.retained
      <3>1. run' = run \/ \E edited : run' = [run EXCEPT !.edited = edited]
        BY <1>18 DEF Environment, EditConfig, EditOwned, Edit, KlipperRestart, StartPrint, EndPrint
      <3> QED
        BY <1>0, <3>1 DEF IsRun
    <2>2. hist'.edits = 0 => hist.edits = 0 /\ UNCHANGED disk
      <3>1. ASSUME NEW paths, NEW items, Edit(paths, items) PROVE hist'.edits # 0
        <4>1. hist'.edits = hist.edits + 1 /\ hist.edits \in Nat
          BY <1>0, <3>1 DEF Edit, IsHist
        <4> QED
          BY <4>1
      <3>2. KlipperRestart \/ StartPrint \/ EndPrint => hist'.edits = hist.edits /\ UNCHANGED disk
        BY <1>0 DEF KlipperRestart, StartPrint, EndPrint, IsHist
      <3> QED
        BY <1>18, <3>1, <3>2 DEF Environment, EditConfig, EditOwned
    <2>3. \A p \in Paths : disk[p] # Absent => disk'[p] # Absent
      BY <1>18, EditedIsThere
    <2>4. /\ \A x \in Extras : disk[x] # Absent => disk'[x] # Absent
          /\ ConfigPresent(disk) => ConfigPresent(disk')
      BY <2>3 DEF ConfigPresent, Paths, ConfigTree
    <2> QED
      BY <2>1, <2>2, <2>4 DEF ReadyInv
  <1> QED
    BY <1>10, <1>11, <1>12, <1>13, <1>14, <1>15, <1>16, <1>17, <1>18 DEF Next, Proceed

LEMMA StepPackage ==
    ASSUME TypeInv, RollbackInv, NotedInv, PackageInv, [Next]_vars
    PROVE  PackageInv'
  <1>1. CASE Next
    BY <1>1, StepPlain, StepUnwritten, StepReady DEF PackageInv
  <1>2. CASE UNCHANGED vars
    <2>1. PlainInv'
      BY <1>2 DEF vars, PackageInv, PlainInv, PlainContent, Tracked, Archived
    <2>2. UnwrittenInv'
      BY <1>2 DEF vars, PackageInv, UnwrittenInv
    <2>3. ReadyInv'
      BY <1>2 DEF vars, PackageInv, ReadyInv, InstallPostflight, UninstallPostflight,
                  ConfigPresent, ItemValue
    <2> QED
      BY <2>1, <2>2, <2>3 DEF PackageInv
  <1> QED
    BY <1>1, <1>2

LEMMA InitPackage == Init => PackageInv
  <1> SUFFICES ASSUME Init PROVE PackageInv
    OBVIOUS
  <1> USE SettledStages, PlannedStages, StageSets
  <1>1. /\ run.stage = "idle" /\ run.op = "none" /\ run.edited = {}
        /\ run.journal = EmptyJournal /\ hist.touched = {} /\ backups = {}
    BY IdleRunFields DEF Init, IdleRun
  <1>2. ASSUME NEW p \in ConfigTree PROVE PlainContent(p, disk[p])
    <2>1. PICK package \in InitialPackages :
            disk = [q \in Paths |->
                      CASE q \in Sources -> "stock"
                        [] q \in ConfigFiles -> IF package = "legacy"
                                                THEN InstallContent(StockContent(q))
                                                ELSE StockContent(q)
                        [] q \in TreeFiles /\ package = "legacy" -> "user"
                        [] OTHER -> Absent]
      BY DEF Init
    <2>2. p \in Paths /\ p \notin Sources
      BY <1>2, PathsAreDistinct DEF Paths, ConfigTree
    <2>3. CASE p \in ConfigFiles
      <3>1. disk[p] = IF package = "legacy" THEN InstallContent(StockContent(p)) ELSE StockContent(p)
        <4>1. CASE package = "legacy"
          BY <2>1, <2>2, <2>3, <4>1, PathsAreDistinct
        <4>2. CASE package # "legacy"
          BY <2>1, <2>2, <2>3, <4>2
        <4> QED
          BY <4>1, <4>2
      <3>2. \A i \in ItemsOf(p) : /\ InstallContent(StockContent(p))[i] # "user"
                                  /\ StockContent(p)[i] # "user"
        BY DEF InstallContent, StockContent, ClassifyInstall
      <3> QED
        BY <2>3, <3>1, <3>2, PathsAreDistinct DEF PlainContent
    <2>4. CASE p \notin ConfigFiles
      <3>1. disk[p] = IF p \in TreeFiles /\ package = "legacy" THEN "user" ELSE Absent
        BY <2>1, <2>2, <2>4
      <3>2. PlainContent(p, Absent)
        BY <1>2, PlainContents
      <3> QED
        BY <2>1, <2>4, <3>1, <3>2 DEF PlainContent
    <2> QED
      BY <2>3, <2>4
  <1>3. Tracked(run.journal) = {}
    BY <1>1, EmptyIsJournal
  <1> QED
    BY <1>1, <1>2, <1>3 DEF PackageInv, PlainInv, UnwrittenInv, ReadyInv

\* What a command does of itself, seen from outside: it goes on, gives up
\* before it wrote, ends its rollback, fails in it, commits, or tidies up.
LEMMA Moves ==
    ASSUME TypeInv, RollbackInv, Proceed \/ Fail \/ RollbackFails, run.stage \notin ResetStages
    PROVE  \/ Commit \/ RollbackDone \/ RollbackFails
           \/ \E s \in Sources : RestoreArchivedSource(s) /\ run.left = {s}
           \/ /\ run.stage \in Committed /\ run'.stage \in Committed \cup {"idle"}
              /\ \A p \in Recorded : disk'[p] = disk[p]
              /\ UNCHANGED sentinel
           \/ /\ Uncommitted /\ Finish /\ ~run.journal.writes
              /\ UNCHANGED <<disk, sentinel>>
           \/ /\ Uncommitted /\ Uncommitted' /\ run'.op = run.op
              /\ run.stage \in Guarded => run'.before = run.before
              /\ run.stage \notin Guarded => UNCHANGED disk /\ run'.before \in {run.before, disk}
              /\ UNCHANGED sentinel
  <1> DEFINE Tidies == /\ run.stage \in Committed /\ run'.stage \in Committed \cup {"idle"}
                       /\ \A p \in Recorded : disk'[p] = disk[p]
                       /\ UNCHANGED sentinel
             GivesUp == /\ Uncommitted /\ Finish /\ ~run.journal.writes
                        /\ UNCHANGED <<disk, sentinel>>
             GoesOn == /\ Uncommitted /\ Uncommitted' /\ run'.op = run.op
                       /\ run.stage \in Guarded => run'.before = run.before
                       /\ run.stage \notin Guarded => UNCHANGED disk /\ run'.before \in {run.before, disk}
                       /\ UNCHANGED sentinel
  <1> USE StageSets, SettledStages
  <1>0. IsRun(run) /\ WellFormed(disk)
    BY DEF TypeInv, TypeOK
  <1>1. ASSUME NEW s, NEW l, NEW p, Goto(s, l) \/ Wrote(p, s, l), run.stage \in Guarded,
               s \notin Committed \cup {"idle"}, UNCHANGED sentinel
        PROVE  GoesOn
    BY <1>0, <1>1, GotoFields, WroteFields DEF Uncommitted
  <1>2. ASSUME Raise, run.stage \notin Committed \cup {"idle"}, UNCHANGED <<disk, sentinel>>
        PROVE  GivesUp \/ GoesOn
    <2>1. CASE ~run.journal.writes
      BY <1>2, <2>1 DEF Raise, Finish, Uncommitted
    <2>2. CASE run.journal.writes
      <3>1. run'.stage = "rollback" /\ run'.op = run.op /\ run'.before = run.before
        BY <1>0, <1>2, <2>2 DEF Raise, IsRun
      <3> QED
        BY <1>2, <3>1 DEF Uncommitted
    <2> QED
      BY <2>1, <2>2
  <1> HIDE DEF GivesUp, GoesOn, Tidies
  <1>3. ~Reset
    BY DEF Reset, BackupLegacyConfig, SkipLegacyTree, RemoveLegacyTree, WriteStockConfig, Writing
  <1>4. ASSUME Prepare PROVE GivesUp \/ GoesOn
    <2>1. Refuse => GivesUp
      BY DEF Refuse, GivesUp, RollbackInv, Uncommitted
    <2>2. PlanInstall \/ PlanUninstall => GoesOn
      BY <1>0, ZenonT(30) DEF PlanInstall, PlanUninstall, IsRun, GoesOn, Uncommitted
    <2>3. CreateBackup => GoesOn
      BY <1>0 DEF CreateBackup, IsRun, GoesOn, Uncommitted
    <2>4. Track => GoesOn
      BY <1>0 DEF Track, IsRun, GoesOn, Uncommitted
    <2> QED
      BY <1>4, <2>1, <2>2, <2>3, <2>4 DEF Prepare
  <1>5. ASSUME Write PROVE Commit \/ Tidies \/ GivesUp \/ GoesOn
    <2>1. WriteMarker => GoesOn
      BY <1>0 DEF WriteMarker, Writing, IsRun, GoesOn, Uncommitted
    <2>2. ASSUME NEW x, InstallExtra(x) \/ RemoveExtra(x) PROVE GoesOn
      BY <1>0, <2>2, ZenonT(30) DEF InstallExtra, RemoveExtra, Writing, IsRun, GoesOn, Uncommitted
    <2>3. ASSUME NEW p, DeploySource(p) \/ RestoreSource(p) \/ MirrorFile(p) \/ RemoveTreeFile(p)
          PROVE  GivesUp \/ GoesOn
      <3>1. DeploySource(p) \/ RemoveTreeFile(p) => GoesOn
        BY <1>1 DEF DeploySource, RemoveTreeFile, Writing
      <3>2. RestoreSource(p) => GivesUp \/ GoesOn
        <4>1. CASE RestoreSource(p) /\ disk[p] = "other"
          BY <1>2, <4>1 DEF RestoreSource, Writing
        <4>2. CASE RestoreSource(p) /\ disk[p] # "other"
          BY <1>1, <4>2 DEF RestoreSource, Writing
        <4> QED
          BY <4>1, <4>2
      <3>3. ASSUME MirrorFile(p) PROVE GoesOn
        <4>1. /\ run.stage = "tree" /\ UNCHANGED sentinel
              /\ \E s \in {"check", "tree"} : \E l : Goto(s, l) \/ Wrote(p, s, l)
          BY <3>3 DEF MirrorFile, Writing
        <4> QED
          BY <1>1, <4>1
      <3> QED
        BY <2>3, <3>1, <3>2, <3>3
    <2>4. ASSUME NEW f, WriteConfig(f) PROVE GoesOn
      BY <1>1, <2>4, AfterConfigStage DEF WriteConfig
    <2>5. CheckPreimages \/ Postflight => GivesUp \/ GoesOn
      BY <1>1, <1>2, AfterConfigStage, SMTT(30) DEF CheckPreimages, Postflight
    <2>6. Optimize => Tidies
      BY <1>0, GotoFields DEF Optimize, Tidies
    <2>7. WriteState \/ DeleteState => GoesOn
      BY <1>1 DEF WriteState, DeleteState, Writing
    <2> QED
      BY <1>5, <2>1, <2>2, <2>3, <2>4, <2>5, <2>6, <2>7 DEF Write
  <1>6. ASSUME Restore
        PROVE  GivesUp \/ GoesOn \/ \E s \in Sources : RestoreArchivedSource(s) /\ run.left = {s}
    <2>1. SwapOut \/ SwapIn \/ VerifyRestore \/ WriteRestoreMarker => GivesUp \/ GoesOn
      <3>1. SwapOut => GoesOn
        BY <1>1, SMTT(30) DEF SwapOut
      <3>2. SwapIn => GoesOn
        BY <1>1 DEF SwapIn
      <3>3. VerifyRestore => GivesUp \/ GoesOn
        <4>1. VerifyRestore => run.stage = "verify" /\ UNCHANGED <<disk, sentinel>>
                               /\ (Goto("marker", {RestartMarker}) \/ Raise)
          BY DEF VerifyRestore
        <4>2. (VerifyRestore /\ Raise) => GivesUp \/ GoesOn
          BY <1>2, <4>1
        <4>3. (VerifyRestore /\ Goto("marker", {RestartMarker})) => GoesOn
          BY <1>1, <4>1
        <4> QED
          BY <4>1, <4>2, <4>3
      <3>4. WriteRestoreMarker => GoesOn
        BY <1>1 DEF WriteRestoreMarker, Writing
      <3> QED
        BY <3>1, <3>2, <3>3, <3>4
    <2>2. ASSUME NEW s, RestoreArchivedSource(s), run.left # {s} PROVE GoesOn
      <3>1. Wrote(s, run.stage, {}) /\ run.stage = "sources" /\ UNCHANGED sentinel
        BY <2>2 DEF RestoreArchivedSource, Writing, Wrote
      <3> QED
        BY <1>1, <3>1
    <2> QED
      BY <1>6, <2>1, <2>2 DEF Restore
  <1>7. ASSUME Activation PROVE Tidies
    <2>1. run.stage \in Committed /\ UNCHANGED sentinel
      BY <1>7 DEF Activation, Activate, RestartPending, AwaitKlipper
    <2>2. run'.stage \in Committed \cup {"idle"}
      BY <1>0, <1>7, ActivationGoes, IdleRunFields DEF Finish
    <2>3. UNCHANGED disk \/ disk' = [disk EXCEPT ![RestartMarker] = Absent]
      BY <1>7 DEF Activation, Activate, RestartPending, AwaitKlipper
    <2>4. \A p \in Recorded : disk'[p] = disk[p]
      BY <1>0, <2>3, RecordedPaths DEF WellFormed
    <2> QED
      BY <2>1, <2>2, <2>4 DEF Tidies
  <1>8. ASSUME Rollback PROVE RollbackDone \/ GoesOn
    <2>1. ASSUME NEW p, RollbackStep(p) PROVE GoesOn
      BY <1>0, <2>1 DEF RollbackStep, IsRun, GoesOn, Uncommitted
    <2> QED
      BY <1>8, <2>1 DEF Rollback
  <1>9. ASSUME Fail PROVE Tidies \/ GivesUp \/ GoesOn
    <2>1. CASE run.stage \in Committed
      BY <1>9, <2>1, IdleRunFields DEF Fail, Finish, Tidies
    <2>2. CASE run.stage \notin Committed
      BY <1>2, <1>9, <2>2 DEF Fail
    <2> QED
      BY <2>1, <2>2
  <1> QED
    BY <1>3, <1>4, <1>5, <1>6, <1>7, <1>8, <1>9 DEF Proceed, Tidies, GivesUp, GoesOn

\* What the ledger's last word makes of the files.
LEMMA InstalledAtCommit ==
    ASSUME TypeInv, WrittenInv, PackageInv, Commit, run.op = "install"
    PROVE  Startable(disk') /\ (hist.edits = 0 => VersionOf(disk') = "installed")
  <1>0. WellFormed(disk) /\ IsRun(run)
    BY DEF TypeInv, TypeOK
  <1>1. run.stage = "state" /\ run.left = {} /\ disk' = disk
    BY DEF Commit
  <1>2. disk[StateFile] = [retained |-> run.retained]
    BY <1>1 DEF WrittenInv, NextLedger
  <1>3. ConfigPresent(disk) /\ \A x \in Extras : disk[x] # Absent
    BY <1>1 DEF PackageInv, ReadyInv
  <1>4. disk[StateFile] # Absent
    <2>1. [retained |-> run.retained] \in ContentOf(StateFile) /\ StateFile \in Paths
      BY <1>0, PathsAreDistinct DEF ContentOf, StateContents, IsRun, Paths, ConfigTree
    <2> QED
      BY <1>2, <2>1, AbsentIsNoContent
  <1>5. ASSUME hist.edits = 0 PROVE VersionOf(disk) = "installed"
    <2>1. InstallPostflight(disk, {})
      BY <1>1, <1>5 DEF PackageInv, ReadyInv
    <2> QED
      BY <1>3, <1>4, <2>1 DEF InstallPostflight, VersionOf
  <1> QED
    BY <1>1, <1>3, <1>5 DEF Startable

\* An install that commits leaves a configuration Klipper can load and, if
\* nobody edited a file, the whole package, whatever was half done before.
THEOREM InstallIsRepaired == Spec => InstallRepairs
  <1> DEFINE Inv == TypeInv /\ RollbackInv /\ NotedInv /\ WrittenInv /\ PackageInv
             Repairs == (run.op = "install" /\ run.stage = "state" /\ run'.stage = "optimize") =>
                           /\ Startable(disk')
                           /\ hist.edits = 0 => VersionOf(disk') = "installed"
  <1>1. Init => Inv
    <2>1. Init => WrittenInv
      BY IdleRunFields DEF Init, WrittenInv
    <2> QED
      BY <2>1, InitTypes, InitRollback, InitLoaded, InitPackage
  <1>2. Inv /\ [Next]_vars => Inv'
    <2>1. NotedInv /\ WrittenInv /\ UNCHANGED vars => NotedInv' /\ WrittenInv'
      BY DEF vars, NotedInv, WrittenInv, NextLedger
    <2> QED
      BY <2>1, StepTypes, StepRollback, StepNoted, StepWritten, StepPackage
  <1>3. Inv /\ Next => Repairs
    <2> SUFFICES ASSUME Inv, Next, run.op = "install", run.stage = "state", run'.stage = "optimize"
                 PROVE  Startable(disk') /\ (hist.edits = 0 => VersionOf(disk') = "installed")
      OBVIOUS
    <2> USE StageSets, SettledStages
    <2>1. ~Finish
      BY IdleRunFields DEF Finish
    <2>2. ~Commands
      BY DEF Commands, StartInstall, StartUninstall, Start, StartRestore, ClearSentinel
    <2>3. ~Environment
      BY SameCommand
    <2>4. ~(InterruptReset \/ Crash)
      BY <2>1 DEF InterruptReset, Crash
    <2>5. Proceed \/ Fail \/ RollbackFails
      BY <2>2, <2>3, <2>4 DEF Next, Faults
    <2>6. ~(RollbackDone \/ RollbackFails)
      BY DEF RollbackDone, RollbackFails
    <2>7. \A s : ~RestoreArchivedSource(s)
      BY DEF RestoreArchivedSource, Writing
    <2>8. Commit
      BY <2>1, <2>5, <2>6, <2>7, Moves DEF Uncommitted
    <2> QED
      BY <2>8, InstalledAtCommit
  <1>4. InstallRepairs <=> [][Repairs]_vars
    BY PTL DEF InstallRepairs
  <1> HIDE DEF Repairs, Inv
  <1>5. Inv /\ [Next]_vars => [Repairs]_vars
    BY <1>3
  <1> QED
    BY <1>1, <1>2, <1>4, <1>5, PTL DEF Spec
-----------------------------------------------------------------------------
\* ImplementsTransaction.

\* Nobody edited a file and no command was killed.
Alone == hist.edits = 0 /\ hist.crashes = 0 /\ Calm

WholeInv == TypeInv /\ RollbackInv /\ ArchiveInv /\ TruthInv /\ PackageInv /\ Alone

LEMMA AloneIs ==
    ASSUME WholeInv
    PROVE  hist.touched = {} /\ run.edited = {} /\ run.stage \notin ResetStages
  BY DEF WholeInv, Alone, PackageInv, PlainInv, TruthInv, ResetInv

LEMMA StepAlone ==
    ASSUME MaxEdits = 0, MaxCrashes = 0, WholeInv, Next
    PROVE  Alone' /\ ~Crash /\ ~InterruptReset /\ (Environment => UNCHANGED <<disk, run, sentinel>>)
  <1>0. IsHist(hist) /\ TypeInv /\ Alone
    BY DEF WholeInv, TypeInv, TypeOK
  <1>1. ~Crash
    BY <1>0 DEF Crash, Alone
  <1>2. ~InterruptReset
    BY AloneIs DEF InterruptReset, ResetStages
  <1>3. \A paths, items : ~Edit(paths, items)
    BY <1>0 DEF Edit, Alone
  <1>4. Environment => UNCHANGED <<disk, run, sentinel>> /\ hist'.edits = hist.edits
    <2>1. KlipperRestart \/ StartPrint \/ EndPrint => hist'.edits = hist.edits
      BY <1>0 DEF KlipperRestart, StartPrint, EndPrint, IsHist
    <2> QED
      BY <1>3, <2>1
         DEF Environment, EditConfig, EditOwned, KlipperRestart, StartPrint, EndPrint
  <1>5. hist'.edits = 0
    <2>1. \E r : \/ hist' = hist \/ hist' = [hist EXCEPT !.archives = r]
                 \/ hist' = [hist EXCEPT !.runs = r] \/ hist' = [hist EXCEPT !.faults = r]
                 \/ hist' = [hist EXCEPT !.faults = r, !.incidents = hist'.incidents]
                 \/ Environment
      <3>1. Commands => hist' \in {hist, [hist EXCEPT !.runs = @ + 1]}
        BY DEF Commands, StartInstall, StartUninstall, Start, ClearSentinel, StartRestore
      <3>2. Reset \/ Prepare => hist' \in {hist, [hist EXCEPT !.archives = @ + 1]}
        BY DEF Reset, BackupLegacyConfig, SkipLegacyTree, RemoveLegacyTree, WriteStockConfig,
               Prepare, PlanInstall, PlanUninstall, Refuse, CreateBackup, Track
      <3>3. Write => hist' = hist
        BY DEF Write, WriteMarker, CheckPreimages, Postflight, WriteState, DeleteState, Commit,
               Optimize, DeploySource, RestoreSource, InstallExtra, RemoveExtra, MirrorFile,
               RemoveTreeFile, WriteConfig
      <3>4. Restore \/ Activation \/ Rollback => hist' = hist
        BY DEF Restore, SwapOut, SwapIn, VerifyRestore, WriteRestoreMarker,
               RestoreArchivedSource, Activation, Activate, RestartPending, AwaitKlipper,
               Rollback, RollbackDone, RollbackStep
      <3>5. Fail => hist' = [hist EXCEPT !.faults = @ + 1]
        BY DEF Fail, Fault
      <3>6. ASSUME RollbackFails
            PROVE  hist' = [hist EXCEPT !.faults = hist.faults + 1, !.incidents = hist'.incidents]
        BY <1>0, <3>6 DEF RollbackFails, IsHist
      <3> QED
        BY <1>1, <1>2, <3>1, <3>2, <3>3, <3>4, <3>5, <3>6 DEF Next, Proceed, Faults
    <2> QED
      BY <1>0, <1>4, <2>1 DEF Alone, IsHist
  <1> QED
    BY <1>0, <1>1, <1>2, <1>4, <1>5, StaysCalm DEF Alone

\* The version is what the ledger, the tree, the sources and the configuration say.
LEMMA SameVersion ==
    ASSUME NEW d, NEW e, \A p \in Recorded : d[p] = e[p]
    PROVE  VersionOf(d) = VersionOf(e)
  <1>1. \A i \in Items : ItemValue(d, i) = ItemValue(e, i)
    BY RecordedPaths, ItemsAreDistinct DEF ItemValue
  <1>2. ConfigPresent(d) <=> ConfigPresent(e)
    BY RecordedPaths DEF ConfigPresent
  <1>3. /\ \A t \in TreeFiles : d[t] = e[t]
        /\ \A s \in Sources : d[s] = e[s]
        /\ d[StateFile] = e[StateFile]
    BY RecordedPaths
  <1> QED
    BY <1>1, <1>2, <1>3 DEF VersionOf

\* True files nobody else wrote are a whole package or none.
LEMMA TrueVersion ==
    ASSUME "legacy" \notin InitialPackages, NEW d, WellFormed(d), Truthful(d, {}),
           \A p \in ConfigTree : PlainContent(p, d[p])
    PROVE  VersionOf(d) \in {"stock", "installed"}
  <1> DEFINE l == d[StateFile]
  <1>1. /\ \A t \in TreeFiles : d[t] = Absent <=> l = Absent
        /\ \A s \in Sources : d[s] = IF l = Absent THEN "stock" ELSE "patched"
        /\ ConfigPresent(d)
    BY RecordedPaths DEF Truthful, TrueOf, ConfigPresent
  <1>2. ASSUME NEW i \in Items PROVE ItemValue(d, i) = IF l = Absent THEN "expected" ELSE "desired"
    <2>1. FileOf[i] \in ConfigFiles /\ i \in ItemsOf(FileOf[i])
      BY ItemsAreDistinct DEF ItemsOf
    <2> QED
      BY <2>1, RecordedPaths DEF Truthful, TrueOf, ItemValue
  <1>3. \A t \in TreeFiles : d[t] \in {"packaged", Absent}
    <2>1. \A t \in TreeFiles : d[t] \in {"packaged", "user", Absent}
      BY HeldTree, RecordedPaths DEF WellFormed, IsFiles, OwnedContents
    <2> QED
      BY <2>1, RecordedPaths DEF PlainContent
  <1>4. CASE l = Absent
    BY <1>1, <1>2, <1>4 DEF VersionOf
  <1>5. CASE l # Absent
    <2>1. \A t \in TreeFiles : d[t] = "packaged"
      BY <1>1, <1>3, <1>5
    <2> QED
      BY <1>1, <1>2, <1>5, <2>1 DEF VersionOf
  <1> QED
    BY <1>4, <1>5

\* A command that wrote nothing, or whose rollback is complete, leaves the
\* package it found.
LEMMA UnwrittenVersion ==
    ASSUME WholeInv, Uncommitted,
           ~run.journal.writes \/ (run.stage = "rollback" /\ run.journal.todo = {})
    PROVE  Version = VersionOf(disk)
  <1> USE StageSets, SettledStages
  <1>0. run.edited = {} /\ TypeInv /\ RollbackInv
    BY AloneIs DEF WholeInv
  <1>1. CASE run.stage \notin Guarded
    <2>1. run.stage \in Unguarded
      BY <1>0, <1>1 DEF Uncommitted, TypeInv, TypeOK, IsRun, Settled, Stages
    <2> QED
      BY <2>1 DEF Version, WholeInv, ArchiveInv
  <1>2. CASE run.stage \in Guarded
    <2>1. \A p \in Recorded : disk[p] = run.before[p]
      <3>1. CASE ~run.journal.writes
        BY <1>0, <1>2, <3>1 DEF WholeInv, PackageInv, UnwrittenInv
      <3>2. CASE run.stage = "rollback" /\ run.journal.todo = {}
        <4>1. \A p \in Recorded : p \in Paths \ Exempt
          BY <1>0, RecordedPaths DEF Exempt
        <4> QED
          BY <1>0, <1>2, <3>2, <4>1 DEF RollbackInv, Recoverable
      <3> QED
        BY <3>1, <3>2
    <2> QED
      BY <2>1, SameVersion DEF Version
  <1> QED
    BY <1>1, <1>2

\* The commit of an uninstall, and the last write of a restore.
LEMMA StockAtCommit ==
    ASSUME WholeInv, Commit, run.op = "uninstall"
    PROVE  VersionOf(disk') = "stock"
  <1>0. run.stage = "state" /\ run.left = {} /\ disk' = disk
    BY DEF Commit
  <1>1. disk[StateFile] = Absent
    BY <1>0 DEF WholeInv, TruthInv, WrittenInv, NextLedger
  <1>2. UninstallPostflight(disk, {}, run.retained)
    BY <1>0 DEF WholeInv, Alone, PackageInv, ReadyInv
  <1>3. run.retained = Sources
    <2>1. sentinel = 0 /\ Calm
      BY <1>0 DEF WholeInv, TruthInv, UnblockedInv, Alone
    <2> QED
      BY <1>0, <2>1, SettledStages DEF WholeInv, TruthInv, LedgerInv, DecidedInv, Sound
  <1> QED
    BY <1>0, <1>1, <1>2, <1>3 DEF UninstallPostflight, VersionOf

LEMMA RestoredAtCommit ==
    ASSUME "legacy" \notin InitialPackages, WholeInv, TypeInv', PackageInv', hist'.edits = 0,
           NEW s \in Sources, RestoreArchivedSource(s), run.left = {s}
    PROVE  VersionOf(disk') \in {"stock", "installed"}
  <1> DEFINE a == ArchiveOf(run.archive)
             l == ArchivedState(a)
  <1>0. /\ WellFormed(disk) /\ run.op = "restore" /\ run.stage = "sources"
        /\ hist.touched = {} /\ Calm
    BY AloneIs DEF WholeInv, Alone, TypeInv, TypeOK, RestoreArchivedSource, Writing
  <1>1. \A p \in Paths : disk'[p] = IF p = s THEN a.sources[s] ELSE disk[p]
    BY <1>0, RecordedPaths DEF RestoreArchivedSource, WellFormed
  <1>2. /\ \A p \in ConfigTree : TrueOf(p, disk[p], l, {})
        /\ \A q \in Sources \ {s} : TrueOf(q, disk[q], l, {})
    BY <1>0 DEF WholeInv, TruthInv, LedgerInv, RestoredInv
  <1>3. TrueOf(s, a.sources[s], l, {})
    <2>1. a \in backups /\ DOMAIN a.sources = Sources
      BY <1>0, ArchiveChosen DEF WholeInv, TypeInv, StagesOK, Restorable
    <2> QED
      BY <1>0, <2>1 DEF WholeInv, TruthInv, ArchivesInv, TruthfulArchive
  <1>4. \A p \in Recorded : TrueOf(p, disk'[p], l, {})
    <2>1. s \notin ConfigTree
      BY PathsAreDistinct DEF ConfigTree
    <2> QED
      BY <1>1, <1>2, <1>3, <2>1, RecordedPaths DEF Recorded
  <1>5. Truthful(disk', {})
    BY <1>4, TruthfulIs
  <1>6. \A p \in ConfigTree : PlainContent(p, disk'[p])
    BY DEF PackageInv, PlainInv, PlainContent
  <1> QED
    BY <1>5, <1>6, TrueVersion DEF TypeInv, TypeOK

LEMMA CommandsImplement ==
    ASSUME "legacy" \notin InitialPackages, WholeInv, WholeInv', Commands
    PROVE  Transaction!Next
  <1> USE StageSets
  <1>1. run.stage = "idle"
    BY DEF Commands, StartInstall, StartUninstall, Start, StartRestore, ClearSentinel
  <1>2. UnderWay = "none" /\ Version = VersionOf(disk)
    BY <1>1 DEF UnderWay, Version, Uncommitted
  <1>3. ASSUME NEW op \in {"install", "uninstall"}, NEW stage \in {"reset", "plan"},
               Start(op, stage), sentinel = 0
        PROVE  Transaction!Begin(op)
    <2>1. run'.op = op /\ run'.stage = stage /\ run'.before = NoFiles /\ UNCHANGED <<disk, sentinel>>
      BY <1>3 DEF Start, IdleRun
    <2>2. UnderWay' = op /\ Version' = VersionOf(disk)
      BY <2>1 DEF UnderWay, Version, Uncommitted
    <2> QED
      BY <1>2, <1>3, <2>1, <2>2 DEF Transaction!Begin, Blocked
  <1>4. ASSUME NEW id, StartRestore(id) PROVE Transaction!Begin("restore")
    <2>1. run'.op = "restore" /\ run'.stage = "swapOut" /\ run'.before = disk /\ UNCHANGED <<disk, sentinel>>
      BY <1>4 DEF StartRestore, IdleRun
    <2>2. UnderWay' = "restore" /\ Version' = VersionOf(disk)
      BY <2>1 DEF UnderWay, Version, Uncommitted
    <2> QED
      BY <1>2, <2>1, <2>2 DEF Transaction!Begin, Blocked
  <1>5. ASSUME ClearSentinel PROVE Transaction!Unblock
    <2> DEFINE a == ArchiveOf(sentinel)
    <2>1. TypeOK /\ hist.touched = {} /\ Calm
      BY AloneIs DEF WholeInv, Alone, TypeInv
    <2>2. sentinel # 0
      BY <1>5, <2>1 DEF ClearSentinel, Archives, TypeOK, IsArchive
    <2>3. a \in backups
      BY <1>5, <2>1, ArchiveChosen DEF ClearSentinel, Archives
    <2>4. Truthful(disk, {})
      <3>1. TruthfulArchive(a, {})
        BY <2>1, <2>3 DEF WholeInv, TruthInv, ArchivesInv
      <3> QED
        BY <1>5, <3>1, RestoredTruth DEF ClearSentinel, MatchesArchive
    <2>5. \A p \in ConfigTree : PlainContent(p, disk[p])
      BY DEF WholeInv, Alone, PackageInv, PlainInv
    <2>6. VersionOf(disk) \in {"stock", "installed"}
      BY <2>1, <2>4, <2>5, TrueVersion DEF TypeOK
    <2>7. UNCHANGED <<disk, run>> /\ sentinel' = 0
      BY <1>5 DEF ClearSentinel
    <2>8. UnderWay' = UnderWay /\ Version' = Version
      BY <2>7 DEF UnderWay, Version, Uncommitted
    <2> QED
      BY <1>2, <2>2, <2>6, <2>7, <2>8
         DEF Transaction!Unblock, Transaction!Versions, Blocked
  <1> QED
    BY <1>3, <1>4, <1>5 DEF Commands, StartInstall, StartUninstall, Transaction!Next

LEMMA ProceedImplements ==
    ASSUME "legacy" \notin InitialPackages, WholeInv, WholeInv', Proceed \/ Fail \/ RollbackFails
    PROVE  Transaction!Next \/ UNCHANGED <<Version, UnderWay, Blocked>>
  <1> USE StageSets, SettledStages
  <1>0. /\ TypeInv /\ RollbackInv /\ TypeInv' /\ PackageInv /\ PackageInv'
        /\ run.stage \notin ResetStages /\ hist.edits = 0 /\ hist'.edits = 0
    BY AloneIs DEF WholeInv, Alone
  <1>1. ASSUME Uncommitted
        PROVE  UnderWay = run.op /\ run.op \in {"install", "uninstall", "restore"}
    BY <1>0, <1>1 DEF UnderWay, Uncommitted, WholeInv, TruthInv, UnblockedInv, TypeInv, TypeOK,
                     IsRun, Ops
  <1>2. ASSUME ~Uncommitted' PROVE UnderWay' = "none" /\ Version' = VersionOf(disk')
    BY <1>2 DEF UnderWay, Version, Uncommitted
  <1>3. Finish => ~Uncommitted'
    BY IdleRunFields DEF Finish, Uncommitted
  <1>4. ASSUME Uncommitted, Finish, UNCHANGED <<disk, sentinel>>, Version = VersionOf(disk)
        PROVE  Transaction!Abort
    BY <1>1, <1>2, <1>3, <1>4 DEF Transaction!Abort, Blocked
  <1>5. ASSUME Uncommitted, ~Uncommitted', UNCHANGED sentinel,
               VersionOf(disk') \in {"stock", "installed"},
               run.op = "install" => VersionOf(disk') = "installed",
               run.op = "uninstall" => VersionOf(disk') = "stock"
        PROVE  Transaction!Commit
    BY <1>1, <1>2, <1>5 DEF Transaction!Commit, Transaction!Versions, Blocked
  <1>6. CASE Commit
    <2>1. Uncommitted /\ ~Uncommitted' /\ UNCHANGED sentinel
      BY <1>0, <1>6, GotoFields DEF Commit, Uncommitted, TypeInv, TypeOK
    <2>2. CASE run.op = "install"
      BY <1>0, <1>5, <1>6, <2>1, <2>2, InstalledAtCommit DEF WholeInv, TruthInv, Transaction!Next
    <2>3. CASE run.op = "uninstall"
      BY <1>5, <1>6, <2>1, <2>3, StockAtCommit DEF Transaction!Next
    <2> QED
      BY <1>6, <2>2, <2>3 DEF Commit
  <1>8. ASSUME NEW s \in Sources, RestoreArchivedSource(s), run.left = {s}
        PROVE  Transaction!Next
    <2>1. Wrote(s, "activate", {}) /\ run.op = "restore" /\ run.stage = "sources" /\ UNCHANGED sentinel
      BY <1>8 DEF RestoreArchivedSource, Writing
    <2>2. Uncommitted /\ ~Uncommitted'
      BY <1>0, <1>8, <2>1, WroteFields DEF Uncommitted, TypeInv, TypeOK
    <2> QED
      BY <1>0, <1>5, <1>8, <2>1, <2>2, RestoredAtCommit DEF Transaction!Next
  <1>9. CASE RollbackDone
    <2>1. Uncommitted /\ Finish /\ UNCHANGED <<disk, sentinel>>
      BY <1>9 DEF RollbackDone, Uncommitted
    <2>2. Version = VersionOf(disk)
      BY <1>9, <2>1, UnwrittenVersion DEF RollbackDone
    <2> QED
      BY <1>4, <2>1, <2>2 DEF Transaction!Next
  <1>10. CASE RollbackFails
    <2>1. Uncommitted /\ Finish /\ sentinel' = run.archive /\ run.stage = "rollback"
      BY <1>10 DEF RollbackFails, Uncommitted
    <2>2. sentinel' # 0
      BY <2>1, FailureIsRecorded DEF WholeInv, TruthInv
    <2>3. VersionOf(disk') \in {"stock", "installed", "mixed"}
      BY DEF VersionOf
    <2>4. Transaction!Block
      BY <1>1, <1>2, <1>3, <2>1, <2>2, <2>3 DEF Transaction!Block, Transaction!Versions, Blocked
    <2> QED
      BY <2>4 DEF Transaction!Next
  <1>11. ASSUME run.stage \in Committed, run'.stage \in Committed \cup {"idle"},
                \A p \in Recorded : disk'[p] = disk[p], UNCHANGED sentinel
         PROVE  UNCHANGED <<Version, UnderWay, Blocked>>
    <2>1. ~Uncommitted /\ ~Uncommitted'
      BY <1>11 DEF Uncommitted
    <2>2. VersionOf(disk') = VersionOf(disk)
      BY <1>11, SameVersion
    <2> QED
      BY <1>11, <2>1, <2>2 DEF Version, UnderWay, Blocked
  <1>12. ASSUME Uncommitted, Finish, ~run.journal.writes, UNCHANGED <<disk, sentinel>>
         PROVE  Transaction!Next
    BY <1>4, <1>12, UnwrittenVersion DEF Transaction!Next
  <1>13. ASSUME Uncommitted, Uncommitted', run'.op = run.op,
                run.stage \in Guarded => run'.before = run.before,
                run.stage \notin Guarded => UNCHANGED disk /\ run'.before \in {run.before, disk},
                UNCHANGED sentinel
         PROVE  UNCHANGED <<Version, UnderWay, Blocked>>
    <2>1. UnderWay' = UnderWay /\ Blocked' = Blocked
      BY <1>13 DEF UnderWay, Blocked
    <2>2. CASE run.stage \in Guarded
      <3>1. run.before # NoFiles /\ run'.before = run.before
        BY <1>0, <1>13, <2>2 DEF RollbackInv
      <3> QED
        BY <1>13, <2>1, <3>1 DEF Version
    <2>3. CASE run.stage \notin Guarded
      <3>1. run.before = NoFiles
        BY <1>0, <1>13, <2>3 DEF Uncommitted, WholeInv, ArchiveInv, TypeInv, TypeOK, IsRun, Stages
      <3> QED
        BY <1>13, <2>1, <2>3, <3>1 DEF Version
    <2> QED
      BY <2>2, <2>3
  <1> QED
    BY <1>0, <1>6, <1>8, <1>9, <1>10, <1>11, <1>12, <1>13, Moves

\* From stock, with nobody else writing and no kill, every step of the commands
\* is a step of the package's transaction, or none: install, uninstall and
\* restore change the package at their commit, leave it as it was when they
\* fail, and block all but a restore when they cannot undo what they did.
THEOREM TransactionIsImplemented ==
    ASSUME MaxEdits = 0, MaxCrashes = 0, InitialPackages \subseteq {"stock"}
    PROVE  Spec => ImplementsTransaction
  <1> USE StageSets
  <1>1. Init => WholeInv /\ Transaction!Init
    <2> SUFFICES ASSUME Init PROVE WholeInv /\ Transaction!Init
      OBVIOUS
    <2>1. TypeInv /\ RollbackInv /\ ArchiveInv /\ TruthInv /\ PackageInv
      BY InitTypes, InitRollback, InitArchives, InitTruth, InitPackage
    <2>2. /\ run.stage = "idle" /\ run.before = NoFiles /\ sentinel = 0
          /\ hist.touched = {} /\ hist.incidents = {} /\ hist.edits = 0 /\ hist.crashes = 0
      BY DEF Init, IdleRun
    <2>3. WholeInv
      BY <2>1, <2>2 DEF WholeInv, Alone, Calm
    <2>4. VersionOf(disk) = "stock"
      <3>1. /\ \A p \in TreeFiles \cup {StateFile} : disk[p] = Absent
            /\ \A f \in ConfigFiles : disk[f] = StockContent(f)
            /\ \A s \in Sources : disk[s] = "stock"
        BY RecordedPaths, PathsAreDistinct DEF Init
      <3>2. ConfigPresent(disk)
        BY <2>1, <2>2, SettledStages, RecordedPaths
           DEF TruthInv, LedgerInv, SettledInv, Sound, Calm, Truthful, TrueOf, ConfigPresent
      <3>3. \A i \in Items : ItemValue(disk, i) = "expected"
        BY <3>1, ItemsAreDistinct DEF ItemValue, StockContent, ItemsOf
      <3> QED
        BY <3>1, <3>2, <3>3 DEF VersionOf
    <2> QED
      BY <2>2, <2>3, <2>4 DEF Transaction!Init, Version, UnderWay, Blocked, Uncommitted
  <1>2. WholeInv /\ [Next]_vars => WholeInv'
    <2> SUFFICES ASSUME WholeInv, [Next]_vars PROVE WholeInv'
      OBVIOUS
    <2>1. (TypeInv /\ RollbackInv /\ ArchiveInv /\ TruthInv /\ PackageInv)'
      BY StepTypes, StepRollback, StepArchives, StepTruth, StepPackage DEF WholeInv, TruthInv
    <2>2. Alone'
      <3>1. UNCHANGED vars => Alone'
        BY DEF vars, WholeInv, Alone, Calm
      <3> QED
        BY <3>1, StepAlone
    <2> QED
      BY <2>1, <2>2 DEF WholeInv
  <1>3. WholeInv /\ WholeInv' /\ [Next]_vars => [Transaction!Next]_(Transaction!vars)
    <2> SUFFICES ASSUME WholeInv, WholeInv', [Next]_vars
                 PROVE  Transaction!Next \/ UNCHANGED <<Version, UnderWay, Blocked>>
      BY DEF Transaction!vars
    <2>1. "legacy" \notin InitialPackages
      OBVIOUS
    <2>2. CASE UNCHANGED vars
      BY <2>2 DEF vars, Version, UnderWay, Blocked, Uncommitted
    <2>3. CASE Commands
      BY <2>1, <2>3, CommandsImplement
    <2>4. CASE Proceed \/ Fail \/ RollbackFails
      BY <2>1, <2>4, ProceedImplements
    <2>5. CASE Next /\ Environment
      <3>1. UNCHANGED <<disk, run, sentinel>>
        BY <2>5, StepAlone
      <3> QED
        BY <3>1 DEF Version, UnderWay, Blocked, Uncommitted
    <2> QED
      BY <2>2, <2>3, <2>4, <2>5, StepAlone DEF Next, Faults
  <1> QED
    BY <1>1, <1>2, <1>3, PTL DEF Spec, ImplementsTransaction, Transaction!Spec
=============================================================================
