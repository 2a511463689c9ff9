--------------------------- MODULE LifecycleProofs ---------------------------
(***************************************************************************)
(* Type correctness of InstallLifecycle, and that a rollback that ends      *)
(* without a failure has restored every file the command found, for every   *)
(* value of the constants.                                                 *)
(***************************************************************************)
EXTENDS LifecycleProperties, WellFoundedInduction, TLAPS

-----------------------------------------------------------------------------
\* Lemmas about the files of the printer.

\* Writing one path with a content of its kind keeps the files well formed.
LEMMA WriteOne ==
    ASSUME NEW d, WellFormed(d), NEW p \in Paths, NEW c \in Held(p)
    PROVE  WellFormed([d EXCEPT ![p] = c])
  BY DEF WellFormed, IsFiles

LEMMA HeldConfig ==
    ASSUME NEW f \in ConfigFiles
    PROVE  f \in Paths /\ Held(f) = [ItemsOf(f) -> Values] \cup {Absent}
  BY PathsAreDistinct DEF Held, ContentOf, Paths, ConfigTree

LEMMA HeldTree ==
    ASSUME NEW t \in TreeFiles \cup Extras
    PROVE  t \in Paths /\ Held(t) = {"packaged", "user", Absent}
  BY PathsAreDistinct DEF Held, ContentOf, Paths, ConfigTree, OwnedContents

LEMMA HeldSource ==
    ASSUME NEW s \in Sources
    PROVE  s \in Paths /\ Held(s) = SourceContents
  BY PathsAreDistinct DEF Held, ContentOf, Paths, ConfigTree

LEMMA HeldState ==
    StateFile \in Paths /\ Held(StateFile) = StateContents \cup {Absent}
  BY PathsAreDistinct DEF Held, ContentOf, Paths, ConfigTree

LEMMA HeldMarker ==
    RestartMarker \in Paths /\ Held(RestartMarker) = MarkerContents \cup {Absent}
  BY PathsAreDistinct DEF Held, ContentOf, Paths, ConfigTree

\* A planned configuration file is a configuration file.
LEMMA PlannedContent ==
    ASSUME NEW f \in ConfigFiles, NEW c \in [ItemsOf(f) -> Values]
    PROVE  /\ InstallContent(c) \in [ItemsOf(f) -> Values]
           /\ UninstallContent(c) \in [ItemsOf(f) -> Values]
  BY DEF InstallContent, UninstallContent, Values

\* The preimages of a journal are of their kind, and are those it had or those
\* on the disk.
LEMMA TrackedFiles ==
    ASSUME NEW j, IsJournal(j), NEW d, WellFormed(d), NEW ps \in SUBSET Paths
    PROVE  /\ IsJournal(TrackFiles(j, d, ps))
           /\ Tracked(TrackFiles(j, d, ps)) = Tracked(j) \cup ps
           /\ \A p \in Tracked(j) : TrackFiles(j, d, ps).snap[p] = j.snap[p]
           /\ \A p \in ps \ Tracked(j) : TrackFiles(j, d, ps).snap[p] = d[p]
           /\ TrackFiles(j, d, ps).todo = j.todo \cup (ps \ Tracked(j))
           /\ TrackFiles(j, d, ps).writes = j.writes
  <1> DEFINE k == TrackFiles(j, d, ps)
             snap == Extended(j.snap, [p \in ps |-> d[p]])
             rank == Extended(j.rank, [p \in ps |-> j.ranks + 1])
  <1>1. k = [trees |-> j.trees, snap |-> snap, rank |-> rank, ranks |-> j.ranks + 1,
             todo |-> j.todo \cup (ps \ Tracked(j)), writes |-> j.writes]
    BY DEF TrackFiles
  <1>2. snap = [p \in Tracked(j) \cup ps |-> IF p \in Tracked(j) THEN j.snap[p] ELSE d[p]]
    BY DEF Tracked, Extended
  <1>3. rank = [p \in Tracked(j) \cup ps |-> IF p \in Tracked(j) THEN j.rank[p]
                                             ELSE j.ranks + 1]
    BY DEF IsJournal, Extended
  <1>4. IsFiles(snap) /\ DOMAIN snap = Tracked(j) \cup ps
    BY <1>2, ZenonT(30) DEF IsJournal, IsFiles, WellFormed, Tracked
  <1>5. rank \in [Tracked(j) \cup ps -> 1..(j.ranks + 1)] /\ j.ranks + 1 \in Nat
    <2>1. j.rank \in [Tracked(j) -> 1..j.ranks] /\ j.ranks \in Nat
      BY DEF IsJournal
    <2>2. \A p \in Tracked(j) : j.rank[p] \in 1..(j.ranks + 1)
      BY <2>1
    <2> QED
      BY <1>3, <2>1, <2>2
  <1> HIDE DEF k, snap, rank
  <1>6. /\ k.trees = j.trees /\ k.snap = snap /\ k.rank = rank /\ k.ranks = j.ranks + 1
        /\ k.todo = j.todo \cup (ps \ Tracked(j)) /\ k.writes = j.writes
    BY <1>1
  <1>7. IsJournal(k)
    BY <1>1, <1>4, <1>5, <1>6 DEF IsJournal, Tracked
  <1> QED
    BY <1>2, <1>4, <1>6, <1>7 DEF k, Tracked

LEMMA MoreTrees ==
    ASSUME NEW k, IsJournal(k), NEW ts \in SUBSET Tracked(k)
    PROVE  /\ IsJournal([k EXCEPT !.trees = ts])
           /\ Tracked([k EXCEPT !.trees = ts]) = Tracked(k)
           /\ [k EXCEPT !.trees = ts].snap = k.snap
           /\ [k EXCEPT !.trees = ts].todo = k.todo
           /\ [k EXCEPT !.trees = ts].writes = k.writes
  BY DEF IsJournal, Tracked, IsFiles

LEMMA TrackedTree ==
    ASSUME NEW j, IsJournal(j), NEW d, WellFormed(d), NEW ps \in SUBSET Paths
    PROVE  /\ IsJournal(TrackTree(j, d, ps))
           /\ Tracked(TrackTree(j, d, ps)) = Tracked(j) \cup ps
           /\ \A p \in Tracked(j) : TrackTree(j, d, ps).snap[p] = j.snap[p]
           /\ \A p \in ps \ Tracked(j) : TrackTree(j, d, ps).snap[p] = d[p]
           /\ TrackTree(j, d, ps).todo = j.todo \cup (ps \ Tracked(j))
           /\ TrackTree(j, d, ps).writes = j.writes
  <1> DEFINE k == TrackFiles(j, d, ps)
  <1>1. /\ IsJournal(k) /\ Tracked(k) = Tracked(j) \cup ps
        /\ k.todo = j.todo \cup (ps \ Tracked(j)) /\ k.writes = j.writes
        /\ \A p \in Tracked(j) : k.snap[p] = j.snap[p]
        /\ \A p \in ps \ Tracked(j) : k.snap[p] = d[p]
    BY TrackedFiles
  <1>2. k.trees = j.trees
    BY DEF TrackFiles
  <1> HIDE DEF k
  <1>3. TrackTree(j, d, ps) = [k EXCEPT !.trees = @ \cup (ps \ Tracked(j))]
    BY DEF TrackTree, k
  <1>4. TrackTree(j, d, ps) = [k EXCEPT !.trees = j.trees \cup (ps \ Tracked(j))]
    BY <1>2, <1>3
  <1>5. j.trees \cup (ps \ Tracked(j)) \in SUBSET Tracked(k)
    BY <1>1 DEF IsJournal
  <1> QED
    BY <1>1, <1>4, <1>5, MoreTrees

\* Noting a write and restoring one path keep the preimages.
LEMMA JournalSteps ==
    ASSUME NEW j, IsJournal(j), NEW p \in Tracked(j)
    PROVE  /\ IsJournal(NoteWrite(j)) /\ IsJournal(Restored(j, p))
           /\ NoteWrite(j).snap = j.snap /\ NoteWrite(j).todo = j.todo /\ NoteWrite(j).writes
           /\ Restored(j, p).snap = j.snap /\ Restored(j, p).todo = j.todo \ {p}
           /\ Restored(j, p).writes = j.writes
  BY DEF IsJournal, Tracked, NoteWrite, Restored

\* A write may be noted before any path is tracked.

LEMMA NotedJournal ==
    ASSUME NEW j, IsJournal(j)
    PROVE  /\ IsJournal(NoteWrite(j)) /\ NoteWrite(j).writes
           /\ NoteWrite(j).snap = j.snap /\ NoteWrite(j).todo = j.todo
  BY DEF IsJournal, Tracked, NoteWrite

LEMMA EmptyIsJournal ==
    /\ IsJournal(EmptyJournal) /\ Tracked(EmptyJournal) = {} /\ EmptyJournal.todo = {}
    /\ EmptyJournal.writes = FALSE
  <1>1. /\ EmptyJournal.trees = {} /\ EmptyJournal.snap = NoFiles /\ EmptyJournal.rank = NoFiles
        /\ EmptyJournal.ranks = 0 /\ EmptyJournal.todo = {} /\ EmptyJournal.writes = FALSE
    BY DEF EmptyJournal
  <1>2. DOMAIN NoFiles = {} /\ NoFiles = [p \in DOMAIN NoFiles |-> NoFiles[p]]
    BY DEF NoFiles
  <1>3. NoFiles \in [{} -> 1..0]
    BY DEF NoFiles
  <1>4. IsFiles(NoFiles)
    BY <1>2 DEF IsFiles
  <1> QED
    BY <1>1, <1>2, <1>3, <1>4 DEF IsJournal, Tracked, EmptyJournal

LEMMA IdleIsRun == IsRun(IdleRun)
  <1>1. IsFiles(NoFiles)
    BY DEF IsFiles, NoFiles
  <1> QED
    BY <1>1, EmptyIsJournal DEF IsRun, IdleRun, Ops, Stages

LEMMA RunGoes ==
    ASSUME NEW r, IsRun(r), NEW s \in Stages, NEW l \in SUBSET Paths, NEW j, IsJournal(j)
    PROVE  /\ IsRun([r EXCEPT !.stage = s, !.left = l])
           /\ IsRun([r EXCEPT !.journal = j, !.left = l, !.stage = s])
           /\ IsRun([r EXCEPT !.journal = j])
  BY DEF IsRun

LEMMA NoFilesAreFiles == IsFiles(NoFiles)
  BY DEF IsFiles, NoFiles

LEMMA StockIsContent ==
    ASSUME NEW f \in ConfigFiles
    PROVE  StockContent(f) \in Held(f) /\ InstallContent(StockContent(f)) \in Held(f)
  <1>1. StockContent(f) \in [ItemsOf(f) -> Values]
    BY DEF StockContent, Values
  <1> QED
    BY <1>1, PlannedContent, HeldConfig

\* The archive of some files holds contents of their kind.
LEMMA ArchiveTyped ==
    ASSUME TypeOK, NEW srcs \in SUBSET Sources
    PROVE  IsArchive(Archive(disk, srcs)) /\ Archive(disk, srcs).id \in Nat
  <1> DEFINE config == [p \in {q \in ConfigTree : disk[q] # Absent} |-> disk[p]]
             sources == [s \in srcs |-> disk[s]]
  <1>1. IsFiles(config) /\ DOMAIN config \subseteq ConfigTree
        /\ \A p \in DOMAIN config : config[p] # Absent
    BY DEF TypeOK, WellFormed, IsFiles, Paths
  <1>2. IsFiles(sources) /\ DOMAIN sources \subseteq Sources
    BY DEF TypeOK, WellFormed, IsFiles, Paths
  <1>3. hist.archives + 1 \in Nat \ {0}
    BY DEF TypeOK, IsHist
  <1>4. Archive(disk, srcs) = [id |-> hist.archives + 1, config |-> config, sources |-> sources]
    BY DEF Archive
  <1> HIDE DEF config, sources
  <1> QED
    BY <1>1, <1>2, <1>3, <1>4 DEF IsArchive

\* Selecting an archive that exists selects it.
LEMMA ArchiveChosen ==
    ASSUME NEW id, \E a \in backups : a.id = id
    PROVE  ArchiveOf(id) \in backups /\ ArchiveOf(id).id = id
  BY DEF ArchiveOf
-----------------------------------------------------------------------------
\* The initial state.

LEMMA InitTypes == Init => TypeInv
  <1> SUFFICES ASSUME Init PROVE TypeInv
    OBVIOUS
  <1>1. WellFormed(disk)
    <2>1. PICK package \in InitialPackages :
             disk = [p \in Paths |->
                       CASE p \in Sources -> "stock"
                         [] p \in ConfigFiles -> IF package = "legacy"
                                                 THEN InstallContent(StockContent(p))
                                                 ELSE StockContent(p)
                         [] p \in TreeFiles /\ package = "legacy" -> "user"
                         [] OTHER -> Absent]
      BY DEF Init
    <2>2. \A p \in Sources : disk[p] \in Held(p)
      BY <2>1, HeldSource, PathsAreDistinct DEF SourceContents
    <2>3. \A p \in ConfigFiles : disk[p] \in Held(p)
      BY <2>1, StockIsContent, PathsAreDistinct DEF Paths, ConfigTree
    <2>4. \A p \in TreeFiles : disk[p] \in Held(p)
      BY <2>1, HeldTree, PathsAreDistinct
    <2>5. \A p \in Extras : disk[p] \in Held(p)
      BY <2>1, HeldTree, PathsAreDistinct
    <2>6. disk[StateFile] \in Held(StateFile) /\ disk[RestartMarker] \in Held(RestartMarker)
      BY <2>1, HeldState, HeldMarker, PathsAreDistinct
    <2>7. disk = [p \in DOMAIN disk |-> disk[p]] /\ DOMAIN disk = Paths
      BY <2>1
    <2> QED
      BY <2>2, <2>3, <2>4, <2>5, <2>6, <2>7 DEF WellFormed, IsFiles, Paths, ConfigTree
  <1>2. IsKlipper(klipper) /\ IsHist(hist) /\ sentinel \in Nat /\ backups = {}
    BY DEF Init, IsKlipper, IsHist, SourceContents
  <1>3. run = IdleRun /\ run.op = "none" /\ run.stage = "idle"
    BY DEF Init, IdleRun
  <1> QED
    BY <1>1, <1>2, <1>3, IdleIsRun DEF TypeInv, TypeOK, StagesOK, Planned
-----------------------------------------------------------------------------
\* The steps.  A step that leaves the files, the archives and the Klipper
\* process alone has to keep run well typed only.

LEMMA IdleRunFields ==
    /\ IdleRun.op = "none" /\ IdleRun.stage = "idle" /\ IdleRun.before = NoFiles
    /\ IdleRun.journal = EmptyJournal /\ IdleRun.edited = {} /\ IdleRun.left = {}
  BY DEF IdleRun

\* A command that ends leaves nothing to be kept of it.
LEMMA FinishTypes ==
    ASSUME TypeInv, Finish, WellFormed(disk'), \A a \in backups' : IsArchive(a),
           sentinel' \in Nat, IsKlipper(klipper'), IsHist(hist')
    PROVE  TypeInv'
  BY IdleIsRun, IdleRunFields DEF TypeInv, TypeOK, StagesOK, Finish, Planned

\* A command that goes on, with the archives as they were.
LEMMA GoesTypes ==
    ASSUME TypeInv, IsRun(run'), run'.op = run.op, run'.archive = run.archive,
           run'.post = run.post,
           run.op = "restore" => run'.stage \in RestoreStages,
           run.op # "restore" /\ run'.stage \in Planned => run.stage \in Planned,
           run'.stage # "plan",
           run.op # "restore" => run'.stage \notin {"swapOut", "swapIn", "verify"},
           WellFormed(disk'), UNCHANGED <<backups, sentinel, klipper>>, IsHist(hist')
    PROVE  TypeInv'
  <1>1. ArchiveOf(run.archive)' = ArchiveOf(run.archive)
    BY DEF ArchiveOf
  <1> QED
    BY <1>1 DEF TypeInv, TypeOK, StagesOK, Restorable

\* A write in a stage leads to the same stage or to the next one.
LEMMA WroteTypes ==
    ASSUME NEW p, NEW s \in Stages, NEW l \in SUBSET Paths, IsRun(run), Wrote(p, s, l)
    PROVE  /\ IsRun(run') /\ run'.op = run.op /\ run'.archive = run.archive
           /\ run'.post = run.post /\ run'.stage \in {run.stage, s}
  <1> DEFINE j == NoteWrite(run.journal)
             left == IF run.left = {p} THEN l ELSE run.left \ {p}
             stage == IF run.left = {p} THEN s ELSE run.stage
  <1>1. run' = [run EXCEPT !.journal = j, !.left = left, !.stage = stage]
    BY DEF Wrote, IsRun
  <1>2. IsJournal(j)
    BY DEF NoteWrite, IsJournal, IsRun, Tracked
  <1>3. left \in SUBSET Paths /\ stage \in Stages /\ stage \in {run.stage, s}
    BY DEF IsRun
  <1> HIDE DEF j, left, stage
  <1>4. run'.op = run.op /\ run'.archive = run.archive
           /\ run'.post = run.post /\ run'.stage = stage
    BY <1>1 DEF IsRun
  <1> QED
    BY <1>1, <1>2, <1>3, <1>4, RunGoes

LEMMA StageNames ==
    /\ RestoreStages \subseteq Stages /\ Committed \subseteq Stages
    /\ Planned \subseteq Stages
  BY DEF RestoreStages, Committed, Planned, Stages

LEMMA ResetTypes ==
    ASSUME TypeInv, Reset
    PROVE  TypeInv'
  <1> USE DEF RestoreStages, Planned
  <1>1. ASSUME BackupLegacyConfig PROVE TypeInv'
    <2>1. CASE ~ConfigPresent(disk)
      BY <1>1, <2>1, FinishTypes DEF BackupLegacyConfig, TypeInv, TypeOK
    <2>2. CASE ConfigPresent(disk)
      <3>1. IsArchive(Archive(disk, {})) /\ Archive(disk, {}).id \in Nat
        BY ArchiveTyped DEF TypeInv
      <3>2. IsJournal(TrackTree(EmptyJournal, disk, TreeFiles))
        BY EmptyIsJournal, TrackedTree DEF TypeInv, TypeOK, Paths, ConfigTree
      <3>3. IsRun(run') /\ run'.op = run.op /\ run'.stage = "resetTree"
        <4> DEFINE l == {t \in TreeFiles : disk[t] # Absent}
                   j == TrackTree(EmptyJournal, disk, TreeFiles)
                   i == Archive(disk, {}).id
        <4>1. run' = [run EXCEPT !.stage = "resetTree", !.left = l, !.journal = j,
                                 !.archive = i, !.before = disk]
          BY <1>1, <2>2 DEF BackupLegacyConfig
        <4>2. l \in SUBSET Paths /\ IsJournal(j) /\ i \in Nat /\ "resetTree" \in Stages
          BY <3>1, <3>2 DEF Paths, ConfigTree, Stages
        <4> HIDE DEF l, j, i
        <4> QED
          BY <4>1, <4>2 DEF TypeInv, TypeOK, IsRun
      <3>4. run.op # "restore"
        BY <1>1 DEF BackupLegacyConfig, TypeInv, StagesOK
      <3>5. IsHist(hist')
        BY <1>1, <2>2 DEF BackupLegacyConfig, TypeInv, TypeOK, IsHist
      <3> QED
        BY <1>1, <2>2, <3>1, <3>3, <3>4, <3>5 DEF BackupLegacyConfig, TypeInv, TypeOK, StagesOK
    <2> QED
      BY <2>1, <2>2
  <1>2. ASSUME SkipLegacyTree PROVE TypeInv'
    <2>1. IsRun(run') /\ run'.op = run.op /\ run'.archive = run.archive /\ run'.post = run.post
          /\ run'.stage = "resetConfig"
      BY <1>2 DEF SkipLegacyTree, Goto, TypeInv, TypeOK, IsRun, Stages, Paths, ConfigTree
    <2>2. run.op # "restore"
      BY <1>2 DEF SkipLegacyTree, TypeInv, StagesOK
    <2> QED
      BY <1>2, <2>1, <2>2, GoesTypes DEF SkipLegacyTree, TypeInv, TypeOK
  <1>3. ASSUME NEW t \in TreeFiles, RemoveLegacyTree(t) PROVE TypeInv'
    <2>1. WellFormed(disk')
      BY <1>3, HeldTree, WriteOne DEF RemoveLegacyTree, TypeInv, TypeOK
    <2>2. IsRun(run') /\ run'.op = run.op /\ run'.archive = run.archive /\ run'.post = run.post
          /\ run'.stage \in {"resetTree", "resetConfig"}
      BY <1>3, WroteTypes DEF RemoveLegacyTree, Writing, TypeInv, TypeOK, Stages, Paths, ConfigTree
    <2> QED
      BY <1>3, <2>1, <2>2, GoesTypes DEF RemoveLegacyTree, Writing, TypeInv, TypeOK
  <1>4. ASSUME NEW f \in ConfigFiles, WriteStockConfig(f) PROVE TypeInv'
    <2>1. WellFormed(disk')
      BY <1>4, HeldConfig, StockIsContent, WriteOne DEF WriteStockConfig, TypeInv, TypeOK
    <2>2. CASE run.left = {f}
      <3>1. IsRun(run') /\ run'.op = "install" /\ run'.stage = "plan"
        BY <1>4, <2>2, IdleIsRun DEF WriteStockConfig, IsRun, Ops, Stages
      <3> QED
        BY <1>4, <2>1, <2>2, <3>1 DEF WriteStockConfig, TypeInv, TypeOK, StagesOK
    <2>3. CASE run.left # {f}
      <3> DEFINE j == IF disk[f] = StockContent(f) THEN TrackFiles(run.journal, disk, {f})
                      ELSE NoteWrite(TrackFiles(run.journal, disk, {f}))
      <3>1. IsJournal(TrackFiles(run.journal, disk, {f})) /\ f \in Tracked(TrackFiles(run.journal, disk, {f}))
        BY TrackedFiles, HeldConfig DEF TypeInv, TypeOK, IsRun
      <3>2. IsJournal(j)
        BY <3>1, JournalSteps
      <3> HIDE DEF j
      <3>3. run' = [run EXCEPT !.left = @ \ {f}, !.journal = j]
        BY <1>4, <2>3 DEF WriteStockConfig, j
      <3>4. IsRun(run') /\ run'.op = run.op /\ run'.archive = run.archive
            /\ run'.post = run.post /\ run'.stage = run.stage
        BY <3>2, <3>3 DEF TypeInv, TypeOK, IsRun
      <3> QED
        BY <1>4, <2>1, <3>4, GoesTypes DEF WriteStockConfig, Writing, TypeInv, TypeOK
    <2> QED
      BY <2>2, <2>3
  <1> QED
    BY <1>1, <1>2, <1>3, <1>4 DEF Reset

\* The configuration a command composes covers the vendor files.
LEMMA ComposedFiles ==
    ASSUME WellFormed(disk), ConfigPresent(disk)
    PROVE  /\ IsFiles([f \in ConfigFiles |-> disk[f]])
           /\ IsFiles([f \in ConfigFiles |-> InstallContent(disk[f])])
           /\ IsFiles([f \in ConfigFiles |-> UninstallContent(disk[f])])
  <1>1. \A f \in ConfigFiles : disk[f] \in [ItemsOf(f) -> Values]
    BY HeldConfig DEF WellFormed, IsFiles, ConfigPresent
  <1>2. \A f \in ConfigFiles : /\ InstallContent(disk[f]) \in Held(f)
                               /\ UninstallContent(disk[f]) \in Held(f)
                               /\ disk[f] \in Held(f) /\ f \in Paths
    BY <1>1, PlannedContent, HeldConfig
  <1> QED
    BY <1>2 DEF IsFiles

\* The preimages a command fills its journal with, all of them or some.
LEMMA TrackJournals ==
    ASSUME WellFormed(disk), NEW srcs \in SUBSET Sources
    PROVE  /\ IsJournal(TrackFiles(TrackTree(TrackFiles(EmptyJournal, disk, ConfigFiles \cup {StateFile}),
                                             disk, TreeFiles), disk, srcs))
           /\ IsJournal(TrackTree(TrackFiles(TrackFiles(EmptyJournal, disk, ConfigFiles \cup {StateFile}),
                                             disk, srcs), disk, TreeFiles))
  <1>1. /\ ConfigFiles \cup {StateFile} \in SUBSET Paths /\ TreeFiles \in SUBSET Paths
        /\ srcs \in SUBSET Paths
    BY DEF Paths, ConfigTree
  <1> DEFINE j == TrackFiles(EmptyJournal, disk, ConfigFiles \cup {StateFile})
  <1>2. IsJournal(j)
    BY <1>1, EmptyIsJournal, TrackedFiles
  <1> HIDE DEF j
  <1>3. IsJournal(TrackTree(j, disk, TreeFiles)) /\ IsJournal(TrackFiles(j, disk, srcs))
    BY <1>1, <1>2, TrackedFiles, TrackedTree
  <1>4. /\ IsJournal(TrackFiles(TrackTree(j, disk, TreeFiles), disk, srcs))
        /\ IsJournal(TrackTree(TrackFiles(j, disk, srcs), disk, TreeFiles))
    BY <1>1, <1>3, TrackedFiles, TrackedTree
  <1> QED
    BY <1>4 DEF j

LEMMA PrepareTypes ==
    ASSUME TypeInv, Prepare
    PROVE  TypeInv'
  <1> USE DEF Planned
  <1>1. ASSUME PlanInstall PROVE TypeInv'
    <2> DEFINE applied == {s \in Sources : disk[s] = "stock"}
               prior == IF disk[StateFile] = Absent THEN {} ELSE disk[StateFile].retained
               pre == [f \in ConfigFiles |-> disk[f]]
               post == [f \in ConfigFiles |-> InstallContent(disk[f])]
               kept == {i \in Options : ClassifyInstall(ItemValue(disk, i)) = "user_modified"}
    <2>1. run' = [run EXCEPT !.stage = "backup", !.pre = pre, !.post = post, !.kept = kept,
                             !.apply = applied, !.retained = applied \cup prior]
      BY <1>1 DEF PlanInstall
    <2>2. prior \in SUBSET Sources
      <3>1. disk[StateFile] \in StateContents \cup {Absent}
        BY HeldState DEF TypeInv, TypeOK, WellFormed, IsFiles
      <3> QED
        BY <3>1 DEF StateContents
    <2>3. /\ applied \in SUBSET Sources /\ kept \in SUBSET Items
          /\ IsFiles(pre) /\ IsFiles(post) /\ DOMAIN post = ConfigFiles
      BY <1>1, ComposedFiles DEF PlanInstall, InstallPreflight, TypeInv, TypeOK, Items
    <2>4. applied \cup prior \in SUBSET Sources /\ "backup" \in Stages
      BY <2>2, <2>3 DEF Stages
    <2> HIDE DEF applied, prior, pre, post, kept
    <2>5. IsRun(run') /\ run'.op = run.op /\ run'.stage = "backup" /\ run'.post = post
      BY <2>1, <2>3, <2>4 DEF TypeInv, TypeOK, IsRun
    <2> QED
      BY <1>1, <2>3, <2>5 DEF PlanInstall, TypeInv, TypeOK, StagesOK
  <1>2. ASSUME PlanUninstall PROVE TypeInv'
    <2> DEFINE pre == [f \in ConfigFiles |-> disk[f]]
               post == [f \in ConfigFiles |-> UninstallContent(disk[f])]
               kept == {i \in Options \cup Sections :
                          ClassifyUninstall(ItemValue(disk, i)) = "user_modified"}
               retained == disk[StateFile].retained
    <2>1. run' = [run EXCEPT !.stage = "backup", !.pre = pre, !.post = post, !.kept = kept,
                             !.retained = retained]
      BY <1>2 DEF PlanUninstall
    <2>2. retained \in SUBSET Sources
      <3>1. disk[StateFile] \in StateContents
        BY <1>2, HeldState DEF PlanUninstall, TypeInv, TypeOK, StagesOK, WellFormed, IsFiles
      <3> QED
        BY <3>1 DEF StateContents
    <2>3. /\ kept \in SUBSET Items /\ "backup" \in Stages
          /\ IsFiles(pre) /\ IsFiles(post) /\ DOMAIN post = ConfigFiles
      BY <1>2, ComposedFiles DEF PlanUninstall, UninstallPreflight, TypeInv, TypeOK, Items, Stages
    <2> HIDE DEF pre, post, kept, retained
    <2>4. IsRun(run') /\ run'.op = run.op /\ run'.stage = "backup" /\ run'.post = post
      BY <2>1, <2>2, <2>3 DEF TypeInv, TypeOK, IsRun
    <2> QED
      BY <1>2, <2>3, <2>4 DEF PlanUninstall, TypeInv, TypeOK, StagesOK
  <1>3. ASSUME Refuse PROVE TypeInv'
    BY <1>3, FinishTypes DEF Refuse, TypeInv, TypeOK
  <1>4. ASSUME CreateBackup PROVE TypeInv'
    <2> DEFINE srcs == IF run.op = "install" THEN Sources ELSE run.retained
               new == Archive(disk, srcs)
               i == new.id
    <2>1. IsArchive(new) /\ i \in Nat
      BY ArchiveTyped DEF TypeInv, TypeOK, IsRun
    <2> HIDE DEF srcs
    <2>2. run' = [run EXCEPT !.stage = "track", !.archive = i]
          /\ backups' \subseteq backups \cup {new}
      BY <1>4 DEF CreateBackup, Pruned, srcs
    <2> HIDE DEF new, i
    <2>3. IsRun(run') /\ run'.op = run.op /\ run'.stage = "track" /\ run'.post = run.post
      BY <2>1, <2>2 DEF TypeInv, TypeOK, IsRun, Stages
    <2>4. run.op # "restore" /\ IsHist(hist')
      BY <1>4 DEF CreateBackup, TypeInv, TypeOK, StagesOK, RestoreStages, IsHist
    <2> QED
      BY <1>4, <2>1, <2>2, <2>3, <2>4 DEF CreateBackup, TypeInv, TypeOK, StagesOK
  <1>5. ASSUME Track PROVE TypeInv'
    <2> DEFINE touched == TrackFiles(EmptyJournal, disk, ConfigFiles \cup {StateFile})
               srcs == IF run.op = "install" THEN Sources ELSE run.retained
               journal == IF run.op = "install"
                          THEN TrackFiles(TrackTree(touched, disk, TreeFiles), disk, srcs)
                          ELSE TrackTree(TrackFiles(touched, disk, srcs), disk, TreeFiles)
               apply == IF run.op = "install" THEN run.apply
                        ELSE {s \in run.retained : disk[s] # "stock"}
               halted == run.op = "install" /\ ~klipper.up
               stage == IF apply # {} THEN "marker"
                        ELSE IF run.op = "install" THEN "extras" ELSE "check"
               left == IF apply # {} THEN {RestartMarker}
                       ELSE IF run.op = "install" THEN Extras ELSE {}
    <2>1. PICK j \in {journal, NoteWrite(journal)} :
            run' = [run EXCEPT !.journal = j, !.apply = apply, !.before = disk,
                               !.halted = halted, !.stage = stage, !.left = left]
      BY <1>5 DEF Track
    <2>2. srcs \in SUBSET Sources
      BY DEF TypeInv, TypeOK, IsRun
    <2>3. IsJournal(j)
      <3>1. IsJournal(journal)
        BY <2>2, TrackJournals DEF TypeInv, TypeOK
      <3> HIDE DEF journal
      <3> QED
        BY <2>1, <3>1, NotedJournal
    <2>4. apply \in SUBSET Sources /\ halted \in BOOLEAN
      BY DEF TypeInv, TypeOK, IsRun
    <2>5. stage \in Stages /\ stage \in Planned /\ left \in SUBSET Paths
      BY DEF Stages, Paths
    <2> HIDE DEF journal, apply, halted, stage, left
    <2>6. IsRun(run') /\ run'.op = run.op /\ run'.stage = stage /\ run'.post = run.post
      BY <2>1, <2>3, <2>4, <2>5 DEF TypeInv, TypeOK, IsRun
    <2>7. run.op # "restore" /\ run'.stage # "plan" /\ run.stage = "track"
      BY <1>5, <2>5, <2>6 DEF Track, TypeInv, StagesOK, RestoreStages
    <2> QED
      BY <1>5, <2>6, <2>7 DEF Track, TypeInv, TypeOK, StagesOK
  <1> QED
    BY <1>1, <1>2, <1>3, <1>4, <1>5 DEF Prepare

\* Going to a stage keeps the rest of the command.
LEMMA GotoTypes ==
    ASSUME NEW s \in Stages, NEW l \in SUBSET Paths, IsRun(run), Goto(s, l)
    PROVE  /\ IsRun(run') /\ run'.op = run.op /\ run'.archive = run.archive
           /\ run'.post = run.post /\ run'.stage = s
  BY DEF Goto, IsRun

\* An exception ends the command or starts its rollback.
LEMMA RaiseTypes ==
    ASSUME TypeInv, Raise, UNCHANGED <<disk, backups, sentinel, klipper>>, IsHist(hist')
    PROVE  TypeInv'
  <1>1. CASE ~run.journal.writes
    BY <1>1, FinishTypes DEF Raise, Finish, TypeInv, TypeOK
  <1>2. CASE run.journal.writes
    <2>1. Goto("rollback", {})
      BY <1>2 DEF Raise, Goto
    <2>2. /\ IsRun(run') /\ run'.op = run.op /\ run'.archive = run.archive
          /\ run'.post = run.post /\ run'.stage = "rollback"
      BY <2>1, GotoTypes DEF Stages, TypeInv, TypeOK
    <2> QED
      BY <2>2, GoesTypes DEF TypeInv, TypeOK, RestoreStages, Planned
  <1> QED
    BY <1>1, <1>2

LEMMA MarkerTyped ==
    ASSUME NEW srcs \in SUBSET Sources, NEW targets \in [srcs -> SourceContents], NEW pid \in Nat
    PROVE  Marker(targets, pid) \in Held(RestartMarker)
  <1>1. targets \in PartialFunctions(Sources, SourceContents)
    BY DEF PartialFunctions
  <1> QED
    BY <1>1, HeldMarker DEF Marker, MarkerContents

LEMMA AfterConfigStage ==
    AfterConfig \in {"postflight", "extras"} /\ LeftAfterConfig \in SUBSET Paths
  BY DEF AfterConfig, LeftAfterConfig, Paths

\* The stages and the items left that the writes go to.
LEMMA StagesAndPaths ==
    /\ {"marker", "sources", "extras", "tree", "check", "config", "postflight", "state",
        "optimize", "activate", "pending", "restarting", "rollback", "swapIn",
        "verify"} \subseteq Stages
    /\ Sources \in SUBSET Paths /\ Extras \in SUBSET Paths /\ TreeFiles \in SUBSET Paths
    /\ ConfigFiles \in SUBSET Paths /\ {StateFile, RestartMarker} \in SUBSET Paths
  BY DEF Stages, Paths, ConfigTree

LEMMA WriteTypes ==
    ASSUME TypeInv, Write
    PROVE  TypeInv'
  <1> USE StagesAndPaths
  <1>0. WellFormed(disk) /\ IsRun(run) /\ IsHist(hist)
    BY DEF TypeInv, TypeOK
  <1>1. ASSUME WriteMarker PROVE TypeInv'
    <2> DEFINE content == IF run.op = "install" THEN "patched" ELSE "stock"
               targets == [s \in run.apply |-> content]
               j == NoteWrite(TrackFiles(run.journal, disk, {RestartMarker}))
    <2>1. targets \in [run.apply -> SourceContents] /\ run.apply \in SUBSET Sources
      BY <1>0 DEF IsRun, SourceContents
    <2>2. WellFormed(disk')
      BY <1>0, <1>1, <2>1, MarkerTyped, HeldMarker, WriteOne
         DEF WriteMarker, TypeInv, TypeOK, IsKlipper
    <2>3. IsJournal(TrackFiles(run.journal, disk, {RestartMarker}))
          /\ RestartMarker \in Tracked(TrackFiles(run.journal, disk, {RestartMarker}))
      BY <1>0, TrackedFiles DEF IsRun
    <2>4. IsJournal(j)
      BY <2>3, JournalSteps
    <2>5. run' = [run EXCEPT !.journal = j, !.stage = "sources", !.left = run.apply]
      BY <1>0, <1>1 DEF WriteMarker, IsRun
    <2> HIDE DEF j
    <2>6. /\ IsRun(run') /\ run'.op = run.op /\ run'.archive = run.archive
          /\ run'.post = run.post /\ run'.stage = "sources"
      BY <1>0, <2>4, <2>5 DEF IsRun
    <2> QED
      BY <1>0, <1>1, <2>2, <2>6, GoesTypes DEF WriteMarker, Writing, Planned
  <1>2. ASSUME NEW s \in Sources, DeploySource(s) PROVE TypeInv'
    <2>1. WellFormed(disk')
      BY <1>0, <1>2, HeldSource, WriteOne DEF DeploySource, SourceContents
    <2> QED
      BY <1>0, <1>2, <2>1, WroteTypes, GoesTypes DEF DeploySource, Writing, Planned
  <1>3. ASSUME NEW s \in Sources, RestoreSource(s) PROVE TypeInv'
    <2>1. CASE disk[s] = "other"
      BY <1>0, <1>3, <2>1, RaiseTypes DEF RestoreSource
    <2>2. CASE disk[s] # "other"
      <3>1. WellFormed(disk')
        BY <1>0, <1>3, <2>2, HeldSource, WriteOne DEF RestoreSource, SourceContents
      <3> QED
        BY <1>0, <1>3, <2>2, <3>1, WroteTypes, GoesTypes DEF RestoreSource, Writing, Planned
    <2> QED
      BY <2>1, <2>2
  <1>4. ASSUME NEW x \in Extras, InstallExtra(x) \/ RemoveExtra(x) PROVE TypeInv'
    <2> DEFINE j == IF InstallExtra(x)
                    THEN IF disk[x] = "packaged" THEN run.journal
                         ELSE NoteWrite(TrackFiles(run.journal, disk, {x}))
                    ELSE IF disk[x] = "packaged" THEN NoteWrite(run.journal) ELSE run.journal
               left == IF run.left = {x} THEN TreeFiles ELSE run.left \ {x}
               stage == IF run.left = {x} THEN "tree" ELSE run.stage
    <2>1. WellFormed(disk')
      <3>1. disk[x] \in {"packaged", "user", Absent}
        BY <1>0, HeldTree DEF WellFormed, IsFiles
      <3> QED
        BY <1>0, <1>4, <3>1, HeldTree, WriteOne DEF InstallExtra, RemoveExtra
    <2>2. IsJournal(j)
      <3>1. IsJournal(TrackFiles(run.journal, disk, {x}))
            /\ x \in Tracked(TrackFiles(run.journal, disk, {x}))
        BY <1>0, TrackedFiles DEF IsRun
      <3>2. IsJournal(NoteWrite(TrackFiles(run.journal, disk, {x})))
        BY <3>1, JournalSteps
      <3>3. IsJournal(NoteWrite(run.journal)) /\ IsJournal(run.journal)
        BY <1>0 DEF NoteWrite, IsJournal, IsRun, Tracked
      <3> QED
        BY <3>2, <3>3
    <2>3. run' = [run EXCEPT !.journal = j, !.left = left, !.stage = stage]
          /\ run.op \in {"install", "uninstall"} /\ run.stage = "extras"
          /\ UNCHANGED <<backups, sentinel, klipper, hist>>
      BY <1>0, <1>4 DEF InstallExtra, RemoveExtra, Writing, IsRun
    <2>4. left \in SUBSET Paths /\ stage \in Stages /\ stage \in {run.stage, "tree"}
      BY <1>0 DEF IsRun
    <2> HIDE DEF j, left, stage
    <2>5. /\ IsRun(run') /\ run'.op = run.op /\ run'.archive = run.archive
          /\ run'.post = run.post /\ run'.stage = stage
      BY <1>0, <2>2, <2>3, <2>4 DEF IsRun
    <2> QED
      BY <1>0, <2>1, <2>3, <2>4, <2>5, GoesTypes DEF Planned
  <1>5. ASSUME NEW t \in TreeFiles, MirrorFile(t) PROVE TypeInv'
    <2>1. WellFormed(disk')
      BY <1>0, <1>5, HeldTree, WriteOne DEF MirrorFile
    <2>2. /\ IsRun(run') /\ run'.op = run.op /\ run'.archive = run.archive
          /\ run'.post = run.post /\ run'.stage \in {"tree", "check"}
      <3>1. run.left \in SUBSET Paths
        BY <1>0 DEF IsRun
      <3> QED
        BY <1>0, <1>5, <3>1, WroteTypes, GotoTypes DEF MirrorFile, Writing
    <2> QED
      BY <1>0, <1>5, <2>1, <2>2, GoesTypes DEF MirrorFile, Writing, Planned
  <1>6. ASSUME NEW t \in TreeFiles, RemoveTreeFile(t) PROVE TypeInv'
    <2>1. WellFormed(disk')
      BY <1>0, <1>6, HeldTree, WriteOne DEF RemoveTreeFile
    <2> QED
      BY <1>0, <1>6, <2>1, WroteTypes, GoesTypes DEF RemoveTreeFile, Writing, Planned
  <1>7. ASSUME CheckPreimages PROVE TypeInv'
    <2>0. Changed \in SUBSET Paths
      BY DEF Changed
    <2>1. CASE Raise
      BY <1>0, <1>7, <2>1, RaiseTypes DEF CheckPreimages
    <2>2. CASE Goto(AfterConfig, LeftAfterConfig)
      <3>1. /\ IsRun(run') /\ run'.op = run.op /\ run'.archive = run.archive
            /\ run'.post = run.post /\ run'.stage = AfterConfig
        BY <1>0, <2>2, GotoTypes, AfterConfigStage
      <3> QED
        BY <1>0, <1>7, <3>1, AfterConfigStage, GoesTypes
           DEF CheckPreimages, Planned, TypeInv, StagesOK, RestoreStages
    <2>3. CASE Goto("config", Changed)
      BY <1>0, <1>7, <2>0, <2>3, GotoTypes, GoesTypes
         DEF CheckPreimages, Planned, TypeInv, StagesOK, RestoreStages
    <2> QED
      BY <1>7, <2>1, <2>2, <2>3 DEF CheckPreimages
  <1>8. ASSUME NEW f \in ConfigFiles, WriteConfig(f) PROVE TypeInv'
    <2>1. run.op # "restore" /\ run.stage = "config"
      BY <1>8 DEF WriteConfig, TypeInv, StagesOK, RestoreStages
    <2>2. run.post[f] \in Held(f)
      BY <1>0, <2>1 DEF TypeInv, StagesOK, Planned, IsRun, IsFiles
    <2>3. WellFormed(disk')
      BY <1>0, <1>8, <2>2, HeldConfig, WriteOne DEF WriteConfig
    <2>4. /\ IsRun(run') /\ run'.op = run.op /\ run'.archive = run.archive
          /\ run'.post = run.post /\ run'.stage \in {"config", "postflight", "extras"}
      BY <1>0, <1>8, <2>1, AfterConfigStage, WroteTypes DEF WriteConfig
    <2> QED
      BY <1>0, <1>8, <2>1, <2>3, <2>4, GoesTypes DEF WriteConfig, Planned
  <1>9. ASSUME Postflight PROVE TypeInv'
    <2>1. CASE Raise
      BY <1>0, <1>9, <2>1, RaiseTypes DEF Postflight
    <2>2. CASE Goto("state", {StateFile})
      BY <1>0, <1>9, <2>2, GotoTypes, GoesTypes
         DEF Postflight, Planned, TypeInv, StagesOK, RestoreStages
    <2> QED
      BY <1>9, <2>1, <2>2 DEF Postflight
  <1>10. ASSUME WriteState PROVE TypeInv'
    <2>1. [retained |-> run.retained] \in Held(StateFile)
      BY <1>0, HeldState DEF StateContents, IsRun
    <2>2. WellFormed(disk')
      BY <1>0, <1>10, <2>1, HeldState, WriteOne DEF WriteState
    <2> QED
      BY <1>0, <1>10, <2>2, WroteTypes, GoesTypes DEF WriteState, Writing, Planned
  <1>11. ASSUME DeleteState PROVE TypeInv'
    <2>1. WellFormed(disk')
      BY <1>0, <1>11, HeldState, WriteOne DEF DeleteState
    <2> QED
      BY <1>0, <1>11, <2>1, WroteTypes, GoesTypes DEF DeleteState, Writing, Planned
  <1>12. ASSUME Optimize PROVE TypeInv'
    BY <1>0, <1>12, GotoTypes, GoesTypes
       DEF Optimize, Planned, TypeInv, StagesOK, RestoreStages
  <1>13. ASSUME Commit PROVE TypeInv'
    <2> DEFINE s == IF run.op = "install" THEN "optimize" ELSE "activate"
    <2>1. s \in Stages /\ s \notin Planned /\ s \notin {"plan", "swapOut", "swapIn", "verify"}
      BY DEF Stages, Planned
    <2>2. Goto(s, {}) /\ run.op # "restore" /\ UNCHANGED <<disk, backups, sentinel, klipper, hist>>
      BY <1>13 DEF Commit
    <2> HIDE DEF s
    <2> QED
      BY <1>0, <2>1, <2>2, GotoTypes, GoesTypes
  <1> QED
    BY <1>1, <1>2, <1>3, <1>4, <1>5, <1>6, <1>7, <1>8, <1>9, <1>10, <1>11, <1>12, <1>13 DEF Write

LEMMA CommandTypes ==
    ASSUME TypeInv, Commands
    PROVE  TypeInv'
  <1>0. WellFormed(disk) /\ IsRun(run) /\ IsHist(hist)
    BY DEF TypeInv, TypeOK
  <1>1. ASSUME NEW op \in {"install", "uninstall"}, NEW stage \in {"plan", "reset"},
               op = "uninstall" /\ stage = "plan" => disk[StateFile] # Absent, Start(op, stage)
        PROVE  TypeInv'
    <2>1. run' = [IdleRun EXCEPT !.op = op, !.stage = stage]
      BY <1>1 DEF Start
    <2>2. IsRun(run') /\ run'.op = op /\ run'.stage = stage
      BY <2>1, IdleIsRun, ZenonT(30) DEF IsRun, Ops, Stages
    <2>3. IsHist(hist')
      BY <1>1 DEF Start, TypeInv, TypeOK, IsHist
    <2> QED
      BY <1>0, <1>1, <2>2, <2>3 DEF Start, TypeInv, TypeOK, StagesOK, Planned
  <1>2. ASSUME StartInstall PROVE TypeInv'
    BY <1>1, <1>2 DEF StartInstall
  <1>3. ASSUME StartUninstall PROVE TypeInv'
    BY <1>1, <1>3 DEF StartUninstall
  <1>4. ASSUME ClearSentinel PROVE TypeInv'
    BY <1>4 DEF ClearSentinel, TypeInv, TypeOK, StagesOK, Restorable, ArchiveOf
  <1>5. ASSUME NEW id \in Archives, StartRestore(id) PROVE TypeInv'
    <2> DEFINE j == TrackFiles(TrackFiles(TrackTree(EmptyJournal, disk, ConfigTree),
                                          disk, {RestartMarker}), disk, Sources)
               k == NoteWrite(j)
    <2>1. IsJournal(k)
      <3>1. IsJournal(TrackTree(EmptyJournal, disk, ConfigTree))
        BY <1>0, EmptyIsJournal, TrackedTree DEF Paths
      <3>2. IsJournal(TrackFiles(TrackTree(EmptyJournal, disk, ConfigTree), disk, {RestartMarker}))
        BY <1>0, <3>1, TrackedFiles, StagesAndPaths
      <3>3. IsJournal(j)
        BY <1>0, <3>2, TrackedFiles, StagesAndPaths
      <3> HIDE DEF j
      <3> QED
        BY <3>3 DEF NoteWrite, IsJournal, Tracked
    <2>2. \E a \in backups : a.id = id
      BY DEF Archives
    <2>3. id \in Nat
      BY <2>2 DEF TypeInv, TypeOK, IsArchive
    <2>4. run' = [IdleRun EXCEPT !.op = "restore", !.stage = "swapOut", !.archive = id,
                                 !.pid = klipper.pid, !.before = disk, !.journal = k]
      BY <1>5 DEF StartRestore
    <2>5. klipper.pid \in Nat
      BY DEF TypeInv, TypeOK, IsKlipper
    <2> HIDE DEF k
    <2>6. IsRun(run') /\ run'.op = "restore" /\ run'.stage = "swapOut" /\ run'.archive = id
      BY <1>0, <2>1, <2>3, <2>4, <2>5, IdleIsRun DEF IsRun, Ops, Stages
    <2>7. ArchiveOf(run.archive)' = ArchiveOf(id)
      BY <1>5, <2>6 DEF StartRestore, ArchiveOf
    <2>8. IsHist(hist')
      BY <1>5 DEF StartRestore, TypeInv, TypeOK, IsHist
    <2> QED
      BY <1>5, <2>2, <2>6, <2>7, <2>8
         DEF StartRestore, TypeInv, TypeOK, StagesOK, RestoreStages, Restorable
  <1> QED
    BY <1>2, <1>3, <1>4, <1>5 DEF Commands

\* What an archive holds for a path is a content of the path's kind.
LEMMA ArchivedIsHeld ==
    ASSUME NEW a, IsArchive(a), NEW p \in ConfigTree
    PROVE  p \in Paths /\ Archived(a, p) \in Held(p)
  <1>1. p \in Paths /\ Absent \in Held(p)
    BY PathsAreDistinct DEF Paths, Held, ConfigTree
  <1> QED
    BY <1>1 DEF Archived, IsArchive, IsFiles

\* A restore's archive.
LEMMA RestoredArchive ==
    ASSUME TypeInv, run.op = "restore"
    PROVE  /\ IsArchive(ArchiveOf(run.archive))
           /\ ArchiveOf(run.archive).sources \in [Sources -> SourceContents]
  <1>1. ArchiveOf(run.archive) \in backups
    BY ArchiveChosen DEF TypeInv, StagesOK
  <1>2. IsArchive(ArchiveOf(run.archive)) /\ Restorable(ArchiveOf(run.archive))
    BY <1>1 DEF TypeInv, TypeOK, StagesOK
  <1> QED
    BY <1>2 DEF IsArchive, Restorable, IsFiles, SourceContents

LEMMA RestoreTypes ==
    ASSUME TypeInv, Restore
    PROVE  TypeInv'
  <1> USE StagesAndPaths
  <1>0. WellFormed(disk) /\ IsRun(run) /\ IsHist(hist)
    BY DEF TypeInv, TypeOK
  <1>1. ASSUME SwapOut PROVE TypeInv'
    <2>1. WellFormed(disk')
      <3>1. \A p \in ConfigTree : Absent \in Held(p)
        BY PathsAreDistinct DEF Held, ConfigTree
      <3> QED
        BY <1>0, <1>1, <3>1 DEF SwapOut, WellFormed, IsFiles
    <2> QED
      BY <1>0, <1>1, <2>1, GotoTypes, GoesTypes
         DEF SwapOut, Planned, TypeInv, StagesOK, RestoreStages
  <1>2. ASSUME SwapIn PROVE TypeInv'
    <2>1. run.op = "restore"
      BY <1>2 DEF SwapIn, TypeInv, StagesOK
    <2>2. WellFormed(disk')
      BY <1>0, <1>2, <2>1, RestoredArchive, ArchivedIsHeld DEF SwapIn, WellFormed, IsFiles
    <2> QED
      BY <1>0, <1>2, <2>1, <2>2, GotoTypes, GoesTypes DEF SwapIn, Planned, RestoreStages
  <1>3. ASSUME VerifyRestore PROVE TypeInv'
    <2>1. CASE Raise
      BY <1>0, <1>3, <2>1, RaiseTypes DEF VerifyRestore
    <2>2. CASE Goto("marker", {RestartMarker})
      BY <1>0, <1>3, <2>2, GotoTypes, GoesTypes DEF VerifyRestore, Planned, RestoreStages,
         TypeInv, StagesOK
    <2> QED
      BY <1>3, <2>1, <2>2 DEF VerifyRestore
  <1>4. ASSUME WriteRestoreMarker PROVE TypeInv'
    <2>1. WellFormed(disk')
      BY <1>0, <1>4, RestoredArchive, MarkerTyped, HeldMarker, WriteOne
         DEF WriteRestoreMarker, Writing, IsRun
    <2> QED
      BY <1>0, <1>4, <2>1, GotoTypes, GoesTypes
         DEF WriteRestoreMarker, Writing, Planned, RestoreStages
  <1>5. ASSUME NEW s \in Sources, RestoreArchivedSource(s) PROVE TypeInv'
    <2>1. WellFormed(disk')
      BY <1>0, <1>5, RestoredArchive, HeldSource, WriteOne
         DEF RestoreArchivedSource, Writing
    <2> QED
      BY <1>0, <1>5, <2>1, WroteTypes, GoesTypes
         DEF RestoreArchivedSource, Writing, Planned, RestoreStages
  <1> QED
    BY <1>1, <1>2, <1>3, <1>4, <1>5 DEF Restore

\* Klipper after a restart.
LEMMA RestartedTyped ==
    ASSUME TypeInv
    PROVE  IsKlipper(Restarted(disk))
  <1>1. Sourced(disk) \in [Sources -> SourceContents]
    BY HeldSource DEF Sourced, TypeInv, TypeOK, WellFormed, IsFiles
  <1>2. Startable(disk) \in BOOLEAN
    BY DEF Startable
  <1>3. klipper.pid + 1 \in Nat
    BY DEF TypeInv, TypeOK, IsKlipper
  <1> QED
    BY <1>1, <1>2, <1>3 DEF Restarted, IsKlipper

LEMMA ActivationTypes ==
    ASSUME TypeInv, Activation
    PROVE  TypeInv'
  <1> USE StagesAndPaths
  <1>0. /\ WellFormed(disk) /\ IsRun(run) /\ IsHist(hist) /\ IsKlipper(klipper)
        /\ sentinel \in Nat /\ \A a \in backups : IsArchive(a)
    BY DEF TypeInv, TypeOK
  <1>1. WellFormed([disk EXCEPT ![RestartMarker] = Absent])
    BY <1>0, HeldMarker, WriteOne
  <1>2. ASSUME Activate PROVE TypeInv'
    <2>1. IsKlipper([klipper EXCEPT !.up = Startable(disk), !.printing = FALSE])
      BY <1>0 DEF IsKlipper, Startable
    <2>2. CASE run' = [run EXCEPT !.stage = "pending", !.pid = klipper.pid]
               /\ UNCHANGED klipper
      <3>1. /\ IsRun(run') /\ run'.op = run.op /\ run'.archive = run.archive
            /\ run'.post = run.post /\ run'.stage = "pending"
        BY <1>0, <2>2 DEF IsRun, IsKlipper
      <3> QED
        BY <1>0, <1>2, <2>2, <3>1, GoesTypes DEF Activate, Planned, RestoreStages
    <2>3. CASE Finish
      BY <1>0, <1>2, <2>1, <2>3, FinishTypes DEF Activate
    <2> QED
      BY <1>2, <2>2, <2>3 DEF Activate
  <1>3. ASSUME RestartPending PROVE TypeInv'
    <2>1. CASE Finish
      BY <1>0, <1>1, <1>3, <2>1, RestartedTyped, FinishTypes DEF RestartPending
    <2>2. CASE Goto("restarting", {}) /\ klipper' = Restarted(disk)
      <3>1. /\ IsRun(run') /\ run'.op = run.op /\ run'.archive = run.archive
            /\ run'.post = run.post /\ run'.stage = "restarting"
        BY <1>0, <2>2, GotoTypes
      <3>2. IsKlipper(klipper')
        BY <2>2, RestartedTyped
      <3>3. UNCHANGED <<backups, sentinel, hist>> /\ WellFormed(disk')
        BY <1>0, <1>1, <1>3 DEF RestartPending
      <3>4. ArchiveOf(run.archive)' = ArchiveOf(run.archive)
        BY <3>1, <3>3 DEF ArchiveOf
      <3> QED
        BY <1>0, <3>1, <3>2, <3>3, <3>4
           DEF TypeInv, TypeOK, StagesOK, Planned, RestoreStages, Restorable
    <2> QED
      BY <1>3, <2>1, <2>2 DEF RestartPending
  <1>4. ASSUME AwaitKlipper PROVE TypeInv'
    BY <1>0, <1>1, <1>4, FinishTypes DEF AwaitKlipper
  <1> QED
    BY <1>2, <1>3, <1>4 DEF Activation

LEMMA RollbackTypes ==
    ASSUME TypeInv, Rollback
    PROVE  TypeInv'
  <1>0. WellFormed(disk) /\ IsRun(run) /\ IsHist(hist) /\ IsJournal(run.journal)
    BY DEF TypeInv, TypeOK, IsRun
  <1>1. ASSUME RollbackDone PROVE TypeInv'
    BY <1>1, FinishTypes DEF RollbackDone, TypeInv, TypeOK
  <1>2. ASSUME NEW p \in Paths, RollbackStep(p) PROVE TypeInv'
    <2>1. p \in Tracked(run.journal)
      BY <1>0, <1>2 DEF RollbackStep, NextToRestore, IsJournal
    <2>2. WellFormed(disk')
      BY <1>0, <1>2, <2>1, WriteOne DEF RollbackStep, IsJournal, IsFiles, Tracked
    <2>3. IsJournal(Restored(run.journal, p))
      BY <1>0, <2>1, JournalSteps
    <2>4. /\ IsRun(run') /\ run'.op = run.op /\ run'.archive = run.archive
          /\ run'.post = run.post /\ run'.stage = "rollback"
      BY <1>0, <1>2, <2>3 DEF RollbackStep, IsRun
    <2> QED
      BY <1>0, <1>2, <2>2, <2>4, GoesTypes DEF RollbackStep, Planned, RestoreStages
  <1> QED
    BY <1>1, <1>2 DEF Rollback

\* What the steps count and note.
LEMMA CountedHist ==
    ASSUME NEW h, IsHist(h), NEW n \in Nat, NEW i \in SUBSET Incidents,
           NEW ts \in SUBSET (Items \cup Paths)
    PROVE  /\ IsHist([h EXCEPT !.faults = n, !.incidents = i])
           /\ IsHist([h EXCEPT !.crashes = n, !.incidents = i])
           /\ IsHist([h EXCEPT !.restarts = n, !.incidents = i])
           /\ IsHist([h EXCEPT !.edits = n, !.touched = ts])
  BY DEF IsHist

LEMMA RollbackFailsNotes ==
    ASSUME IsHist(hist), RollbackFails
    PROVE  /\ IsHist(hist') /\ hist'.faults = hist.faults + 1 /\ hist'.crashes = hist.crashes
           /\ hist'.archives = hist.archives /\ hist'.touched = hist.touched
           /\ hist.incidents \subseteq hist'.incidents
           /\ hist'.incidents \subseteq hist.incidents \cup {"overwritten"}
           /\ sentinel # 0 => "overwritten" \in hist'.incidents
  <1> DEFINE incidents == IF sentinel = 0 THEN hist.incidents ELSE hist.incidents \cup {"overwritten"}
  <1>1. hist' = [hist EXCEPT !.faults = hist.faults + 1, !.incidents = incidents]
    BY DEF RollbackFails
  <1>2. incidents \in SUBSET Incidents /\ hist.faults + 1 \in Nat
    BY DEF IsHist, Incidents
  <1>3. hist.incidents \subseteq incidents /\ incidents \subseteq hist.incidents \cup {"overwritten"}
    OBVIOUS
  <1>4. sentinel # 0 => "overwritten" \in incidents
    OBVIOUS
  <1> HIDE DEF incidents
  <1>5. IsHist(hist')
    BY <1>1, <1>2, CountedHist
  <1> QED
    BY <1>1, <1>3, <1>4, <1>5 DEF IsHist

LEMMA FaultTypes ==
    ASSUME TypeInv, Faults
    PROVE  TypeInv'
  <1>0. IsHist(hist) /\ IsRun(run)
    BY DEF TypeInv, TypeOK
  <1>1. ASSUME Fail PROVE TypeInv'
    <2>1. IsHist(hist')
      BY <1>0, <1>1 DEF Fail, Fault, IsHist
    <2> QED
      BY <1>1, <2>1, RaiseTypes, FinishTypes DEF Fail, TypeInv, TypeOK
  <1>2. ASSUME RollbackFails PROVE TypeInv'
    <2>1. IsHist(hist') /\ run.archive \in Nat
      BY <1>0, <1>2, RollbackFailsNotes DEF IsRun
    <2> QED
      BY <1>2, <2>1, FinishTypes DEF RollbackFails, TypeInv, TypeOK
  <1>3. ASSUME InterruptReset PROVE TypeInv'
    <2> DEFINE incidents == hist.incidents \cup {"interrupt"}
    <2>1. IsHist(hist')
      <3>0. hist.faults + 1 \in Nat
        BY <1>0 DEF IsHist
      <3>1. hist' = [hist EXCEPT !.faults = hist.faults + 1, !.incidents = incidents]
        BY <1>3 DEF InterruptReset
      <3>2. incidents \in SUBSET Incidents
        BY <1>0 DEF IsHist, Incidents
      <3> HIDE DEF incidents
      <3> QED
        BY <1>0, <3>0, <3>1, <3>2, CountedHist
    <2> QED
      BY <1>3, <2>1, FinishTypes DEF InterruptReset, TypeInv, TypeOK
  <1>4. ASSUME Crash PROVE TypeInv'
    <2> DEFINE incidents == hist.incidents \cup {IF run.stage = "rollback" THEN "rollback"
                                                 ELSE "crash"}
    <2>1. IsHist(hist')
      <3>0. hist.crashes + 1 \in Nat
        BY <1>0 DEF IsHist
      <3>1. hist' = [hist EXCEPT !.crashes = hist.crashes + 1, !.incidents = incidents]
        BY <1>4 DEF Crash
      <3>2. incidents \in SUBSET Incidents
        BY <1>0 DEF IsHist, Incidents
      <3> HIDE DEF incidents
      <3> QED
        BY <1>0, <3>0, <3>1, <3>2, CountedHist
    <2> QED
      BY <1>4, <2>1, FinishTypes DEF Crash, TypeInv, TypeOK
  <1> QED
    BY <1>1, <1>2, <1>3, <1>4 DEF Faults

LEMMA EnvironmentTypes ==
    ASSUME TypeInv, Environment
    PROVE  TypeInv'
  <1>0. /\ WellFormed(disk) /\ IsRun(run) /\ IsHist(hist) /\ IsKlipper(klipper)
        /\ sentinel \in Nat /\ \A a \in backups : IsArchive(a)
    BY DEF TypeInv, TypeOK
  <1>1. ASSUME NEW paths \in SUBSET Paths, NEW items \in SUBSET (Items \cup Paths),
               Edit(paths, items), WellFormed(disk'),
               disk'[StateFile] = disk[StateFile]
        PROVE  TypeInv'
    <2> DEFINE edited == IF run.before = NoFiles THEN run.edited ELSE run.edited \cup paths
               touched == hist.touched \cup Theirs(paths, items)
    <2>1. hist.edits + 1 \in Nat /\ touched \in SUBSET (Items \cup Paths)
          /\ edited \in SUBSET Paths
      BY <1>0 DEF IsHist, IsRun, Theirs
    <2>2. hist' = [hist EXCEPT !.edits = hist.edits + 1, !.touched = touched]
      BY <1>1 DEF Edit
    <2>3. run' = [run EXCEPT !.edited = edited]
      BY <1>0, <1>1 DEF Edit, IsRun
    <2> HIDE DEF edited, touched
    <2>4. IsHist(hist')
      BY <1>0, <2>1, <2>2, CountedHist
    <2>5. /\ IsRun(run') /\ run'.op = run.op /\ run'.archive = run.archive
          /\ run'.post = run.post /\ run'.stage = run.stage
      BY <1>0, <2>1, <2>3 DEF IsRun
    <2>6. UNCHANGED <<backups, sentinel, klipper>>
      BY <1>1 DEF Edit
    <2>7. ArchiveOf(run.archive)' = ArchiveOf(run.archive)
      BY <2>5, <2>6 DEF ArchiveOf
    <2> QED
      BY <1>0, <1>1, <2>4, <2>5, <2>6, <2>7 DEF TypeInv, TypeOK, StagesOK, Restorable
  <1>2. ASSUME NEW i \in Items, NEW v \in Values, EditConfig(i, v) PROVE TypeInv'
    <2> DEFINE f == FileOf[i]
               c == [disk[f] EXCEPT ![i] = v]
    <2>1. f \in ConfigFiles
      BY ItemsAreDistinct
    <2>2. f \in Paths /\ c \in Held(f) /\ f # StateFile /\ {f} \in SUBSET Paths
      <3>1. disk[f] \in [ItemsOf(f) -> Values]
        BY <1>0, <1>2, <2>1, HeldConfig DEF EditConfig, WellFormed, IsFiles
      <3> QED
        BY <2>1, <3>1, HeldConfig, PathsAreDistinct
    <2>3. disk' = [disk EXCEPT ![f] = c]
      BY <1>2 DEF EditConfig
    <2>4. Edit({f}, {i}) /\ {i} \in SUBSET (Items \cup Paths)
      BY <1>2 DEF EditConfig
    <2> HIDE DEF f, c
    <2>5. WellFormed(disk') /\ disk'[StateFile] = disk[StateFile]
      <3>1. WellFormed(disk')
        BY <1>0, <2>2, <2>3, WriteOne
      <3>2. disk'[StateFile] = disk[StateFile]
        BY <1>0, <2>2, <2>3, HeldState DEF WellFormed
      <3> QED
        BY <3>1, <3>2
    <2> QED
      BY <1>1, <2>2, <2>4, <2>5
  <1>3. ASSUME NEW p \in TreeFiles \cup Extras \cup Sources, EditOwned(p) PROVE TypeInv'
    <2> DEFINE c == IF p \in Sources THEN "other" ELSE "user"
    <2>1. p \in Paths /\ c \in Held(p) /\ p # StateFile /\ {p} \in SUBSET (Items \cup Paths)
      BY HeldTree, HeldSource, PathsAreDistinct DEF SourceContents
    <2>2. disk' = [disk EXCEPT ![p] = c] /\ Edit({p}, {p})
      BY <1>3 DEF EditOwned
    <2> HIDE DEF c
    <2>3. WellFormed(disk') /\ disk'[StateFile] = disk[StateFile]
      <3>1. WellFormed(disk')
        BY <1>0, <2>1, <2>2, WriteOne
      <3>2. disk'[StateFile] = disk[StateFile]
        BY <1>0, <2>1, <2>2, HeldState DEF WellFormed
      <3> QED
        BY <3>1, <3>2
    <2> QED
      BY <1>1, <2>1, <2>2, <2>3
  <1>4. ASSUME UNCHANGED <<disk, backups, sentinel, run>>, IsKlipper(klipper'), IsHist(hist')
        PROVE  TypeInv'
    BY <1>4 DEF TypeInv, TypeOK, StagesOK, ArchiveOf, Restorable
  <1>5. ASSUME KlipperRestart PROVE TypeInv'
    <2> DEFINE incidents == IF run.journal.writes /\ run.stage \notin Committed
                            THEN hist.incidents \cup {"restart"} ELSE hist.incidents
    <2>1. hist' = [hist EXCEPT !.restarts = hist.restarts + 1, !.incidents = incidents]
      BY <1>5 DEF KlipperRestart
    <2>2. hist.restarts + 1 \in Nat /\ incidents \in SUBSET Incidents
      BY <1>0 DEF IsHist, Incidents
    <2> HIDE DEF incidents
    <2>3. IsHist(hist')
      BY <1>0, <2>1, <2>2, CountedHist
    <2> QED
      BY <1>4, <1>5, <2>3, RestartedTyped DEF KlipperRestart
  <1>6. ASSUME StartPrint PROVE TypeInv'
    <2>1. IsKlipper(klipper')
      BY <1>0, <1>6 DEF StartPrint, IsKlipper
    <2>2. IsHist(hist')
      BY <1>0, <1>6 DEF StartPrint, IsHist
    <2> QED
      BY <1>4, <1>6, <2>1, <2>2 DEF StartPrint
  <1>7. ASSUME EndPrint PROVE TypeInv'
    BY <1>0, <1>4, <1>7 DEF EndPrint, IsKlipper
  <1> QED
    BY <1>2, <1>3, <1>5, <1>6, <1>7 DEF Environment

\* TypeInv is inductive.
LEMMA StepTypes == TypeInv /\ [Next]_vars => TypeInv'
  <1>1. TypeInv /\ UNCHANGED vars => TypeInv'
    BY DEF vars, TypeInv, TypeOK, StagesOK, ArchiveOf, Restorable
  <1> QED
    BY <1>1, CommandTypes, ResetTypes, PrepareTypes, WriteTypes, RestoreTypes,
       ActivationTypes, RollbackTypes, FaultTypes, EnvironmentTypes DEF Next, Proceed

\* Every state of the lifecycle is well typed and a command's stage has what it
\* relies on: the archive under a restore, the ledger under an uninstall.
THEOREM TypesInvariant == Spec => []TypeInv
  <1> QED
    BY InitTypes, StepTypes, PTL DEF Spec

\* Every path holds a content of its kind at every step, in a rollback too.
THEOREM TypeCorrect == Spec => []TypeOK
  <1>1. TypeInv => TypeOK
    BY DEF TypeInv
  <1> QED
    BY <1>1, TypesInvariant, PTL
-----------------------------------------------------------------------------
\* The rollback: RollbackInv is inductive, and RollbackRestores follows.

LEMMA StageSets ==
    /\ Guarded = {"resetTree", "resetConfig", "marker", "sources", "extras", "tree", "check",
                  "config", "postflight", "state", "swapOut", "swapIn", "verify", "rollback"}
    /\ Unguarded = {"idle", "reset", "plan", "backup", "track"}
    /\ Committed = {"optimize", "activate", "pending", "restarting"}
  BY DEF Guarded, Unguarded, Committed, Stages

\* Outside the stages that write, nothing has to hold but that nothing was
\* written.
LEMMA UnguardedStep ==
    ASSUME run'.stage \notin Guarded, run'.stage \in Unguarded => ~run'.journal.writes
    PROVE  RollbackInv'
  BY StageSets DEF RollbackInv, MustBeTracked

LEMMA FinishStep ==
    ASSUME Finish
    PROVE  RollbackInv'
  <1>1. run'.stage = "idle" /\ ~run'.journal.writes
    BY IdleRunFields, EmptyIsJournal DEF Finish
  <1> QED
    BY <1>1, StageSets, UnguardedStep

\* A step of a writing stage that changes tracked paths only and tracks more of
\* them as it finds them.
LEMMA GuardedStep ==
    ASSUME TypeInv, RollbackInv,
           run.stage \in Guarded \ {"rollback"}, run'.stage \in Guarded,
           run'.stage \in {"resetTree", "resetConfig"} <=>
              run.stage \in {"resetTree", "resetConfig"} /\ run'.stage # "rollback",
           run'.op = run.op, run'.before = run.before, run'.edited = run.edited,
           run'.apply = run.apply,
           (run.op = "uninstall" /\ run'.stage = "sources") => run'.left \subseteq run.apply,
           NEW ps,
           Tracked(run'.journal) = Tracked(run.journal) \cup ps,
           \A p \in Tracked(run.journal) : run'.journal.snap[p] = run.journal.snap[p],
           \A p \in ps \ Tracked(run.journal) : run'.journal.snap[p] = disk[p],
           run'.journal.todo = run.journal.todo \cup (ps \ Tracked(run.journal)),
           \A p \in Paths \ Exempt : disk'[p] # disk[p] => p \in Tracked(run.journal) \cup ps
    PROVE  RollbackInv'
  <1>1. Exempt' = Exempt
    BY DEF Exempt
  <1>2. run.journal.todo = Tracked(run.journal) /\ run'.journal.todo = Tracked(run'.journal)
        /\ run.before # NoFiles
    BY DEF RollbackInv
  <1>3. ASSUME NEW p \in Paths \ Exempt' PROVE Recoverable(p)'
    <2>1. Recoverable(p)
      BY <1>1, <1>3 DEF RollbackInv
    <2> QED
      BY <1>1, <1>2, <1>3, <2>1 DEF Recoverable
  <1>4. MustBeTracked' \subseteq Tracked(run.journal) \cup ps
    BY StageSets DEF RollbackInv, MustBeTracked
  <1> QED
    BY <1>2, <1>3, <1>4, StageSets DEF RollbackInv

\* The same, for a step that tracks nothing.
LEMMA UntrackingStep ==
    ASSUME TypeInv, RollbackInv,
           run.stage \in Guarded \ {"rollback"}, run'.stage \in Guarded,
           run'.stage \in {"resetTree", "resetConfig"} <=>
              run.stage \in {"resetTree", "resetConfig"} /\ run'.stage # "rollback",
           run'.op = run.op, run'.before = run.before, run'.edited = run.edited,
           run'.apply = run.apply,
           (run.op = "uninstall" /\ run'.stage = "sources") => run'.left \subseteq run.apply,
           run'.journal.snap = run.journal.snap, run'.journal.todo = run.journal.todo,
           \A p \in Paths \ Exempt : disk'[p] # disk[p] => p \in Tracked(run.journal)
    PROVE  RollbackInv'
  <1>1. Tracked(run'.journal) = Tracked(run.journal) \cup {}
    BY DEF Tracked
  <1> QED
    BY <1>1, GuardedStep

LEMMA GotoFields ==
    ASSUME NEW s, NEW l, IsRun(run), Goto(s, l)
    PROVE  /\ run'.stage = s /\ run'.left = l
           /\ run'.op = run.op /\ run'.before = run.before /\ run'.edited = run.edited
           /\ run'.apply = run.apply /\ run'.journal = run.journal
  BY DEF Goto, IsRun

LEMMA WroteFields ==
    ASSUME NEW p, NEW s, NEW l, IsRun(run), Wrote(p, s, l)
    PROVE  /\ run'.stage = IF run.left = {p} THEN s ELSE run.stage
           /\ run'.left = IF run.left = {p} THEN l ELSE run.left \ {p}
           /\ run'.op = run.op /\ run'.before = run.before /\ run'.edited = run.edited
           /\ run'.apply = run.apply
           /\ run'.journal.snap = run.journal.snap /\ run'.journal.todo = run.journal.todo
  <1> DEFINE j == NoteWrite(run.journal)
             left == IF run.left = {p} THEN l ELSE run.left \ {p}
             stage == IF run.left = {p} THEN s ELSE run.stage
  <1>1. run' = [run EXCEPT !.journal = j, !.left = left, !.stage = stage]
    BY DEF Wrote, IsRun
  <1>2. j.snap = run.journal.snap /\ j.todo = run.journal.todo
    BY DEF NoteWrite, IsJournal, IsRun
  <1> HIDE DEF j, left, stage
  <1>3. /\ run'.stage = stage /\ run'.left = left /\ run'.journal = j
        /\ run'.op = run.op /\ run'.before = run.before /\ run'.edited = run.edited
        /\ run'.apply = run.apply
    BY <1>1 DEF IsRun
  <1> QED
    BY <1>2, <1>3 DEF left, stage

\* An exception in a writing stage keeps the preimages for the rollback; in
\* another stage it ends the command.
LEMMA RaiseStep ==
    ASSUME TypeInv, RollbackInv, Raise, run.stage \notin Committed \cup {"rollback"},
           UNCHANGED disk
    PROVE  RollbackInv'
  <1>1. CASE ~run.journal.writes
    BY <1>1, FinishStep DEF Raise, Finish
  <1>2. CASE run.journal.writes
    <2>1. Goto("rollback", {}) /\ IsRun(run)
      BY <1>2 DEF Raise, Goto, TypeInv, TypeOK
    <2>2. run.stage \in Guarded
      BY <1>2, <2>1 DEF RollbackInv, Guarded, IsRun
    <2> QED
      BY <2>1, <2>2, GotoFields, StageSets, UntrackingStep
  <1> QED
    BY <1>1, <1>2
\* A journal of preimages that are all on the disk.
Fresh(j, d) ==
    /\ IsJournal(j) /\ j.todo = Tracked(j)
    /\ \A p \in Tracked(j) : j.snap[p] = d[p]

LEMMA EmptyIsFresh == ASSUME NEW d PROVE Fresh(EmptyJournal, d)
  BY EmptyIsJournal DEF Fresh

\* Tracking more on the same disk keeps it so.
LEMMA FreshTracking ==
    ASSUME NEW d, WellFormed(d), NEW j, Fresh(j, d), NEW ps \in SUBSET Paths
    PROVE  /\ Fresh(TrackFiles(j, d, ps), d) /\ Fresh(TrackTree(j, d, ps), d)
           /\ Tracked(TrackFiles(j, d, ps)) = Tracked(j) \cup ps
           /\ Tracked(TrackTree(j, d, ps)) = Tracked(j) \cup ps
  <1>0. IsJournal(j) /\ j.todo = Tracked(j) /\ \A p \in Tracked(j) : j.snap[p] = d[p]
    BY DEF Fresh
  <1>1. Fresh(TrackFiles(j, d, ps), d) /\ Tracked(TrackFiles(j, d, ps)) = Tracked(j) \cup ps
    <2> DEFINE k == TrackFiles(j, d, ps)
    <2>1. /\ IsJournal(k) /\ Tracked(k) = Tracked(j) \cup ps
          /\ \A p \in Tracked(j) : k.snap[p] = j.snap[p]
          /\ \A p \in ps \ Tracked(j) : k.snap[p] = d[p]
          /\ k.todo = j.todo \cup (ps \ Tracked(j))
      BY <1>0, TrackedFiles
    <2> HIDE DEF k
    <2>2. \A p \in Tracked(k) : k.snap[p] = d[p]
      BY <1>0, <2>1
    <2>3. k.todo = Tracked(k)
      BY <1>0, <2>1
    <2>4. Fresh(k, d) /\ Tracked(k) = Tracked(j) \cup ps
      BY <2>1, <2>2, <2>3 DEF Fresh
    <2> QED
      BY <2>4 DEF k
  <1>2. Fresh(TrackTree(j, d, ps), d) /\ Tracked(TrackTree(j, d, ps)) = Tracked(j) \cup ps
    <2> DEFINE k == TrackTree(j, d, ps)
    <2>1. /\ IsJournal(k) /\ Tracked(k) = Tracked(j) \cup ps
          /\ \A p \in Tracked(j) : k.snap[p] = j.snap[p]
          /\ \A p \in ps \ Tracked(j) : k.snap[p] = d[p]
          /\ k.todo = j.todo \cup (ps \ Tracked(j))
      BY <1>0, TrackedTree
    <2> HIDE DEF k
    <2>2. \A p \in Tracked(k) : k.snap[p] = d[p]
      BY <1>0, <2>1
    <2>3. k.todo = Tracked(k)
      BY <1>0, <2>1
    <2>4. Fresh(k, d) /\ Tracked(k) = Tracked(j) \cup ps
      BY <2>1, <2>2, <2>3 DEF Fresh
    <2> QED
      BY <2>4 DEF k
  <1> QED
    BY <1>1, <1>2

\* A journal that starts with a tree.
LEMMA FirstTree ==
    ASSUME NEW d, WellFormed(d), NEW ps \in SUBSET Paths
    PROVE  Fresh(TrackTree(EmptyJournal, d, ps), d) /\ Tracked(TrackTree(EmptyJournal, d, ps)) = ps
  <1>1. Fresh(EmptyJournal, d)
    BY EmptyIsFresh
  <1>2. /\ Fresh(TrackTree(EmptyJournal, d, ps), d)
        /\ Tracked(TrackTree(EmptyJournal, d, ps)) = Tracked(EmptyJournal) \cup ps
    BY <1>1, FreshTracking
  <1> QED
    BY <1>2, EmptyIsJournal
-----------------------------------------------------------------------------
\* The steps.

LEMMA ResetStep ==
    ASSUME TypeInv, RollbackInv, Reset
    PROVE  RollbackInv'
  <1>0. WellFormed(disk) /\ IsRun(run)
    BY DEF TypeInv, TypeOK
  <1>1. ASSUME BackupLegacyConfig PROVE RollbackInv'
    <2>1. CASE ~ConfigPresent(disk)
      BY <1>1, <2>1, FinishStep DEF BackupLegacyConfig
    <2>2. CASE ConfigPresent(disk)
      <3> DEFINE l == {t \in TreeFiles : disk[t] # Absent}
                 j == TrackTree(EmptyJournal, disk, TreeFiles)
                 i == Archive(disk, {}).id
      <3>1. run' = [run EXCEPT !.stage = "resetTree", !.left = l, !.journal = j,
                               !.archive = i, !.before = disk] /\ UNCHANGED disk
        BY <1>1, <2>2 DEF BackupLegacyConfig
      <3>2. Fresh(j, disk) /\ Tracked(j) = TreeFiles
        BY <1>0, FirstTree, StagesAndPaths
      <3>3. NoFiles # disk
        BY <1>0, HeldState DEF WellFormed, NoFiles
      <3> HIDE DEF l, j, i
      <3>4. run'.stage = "resetTree" /\ run'.journal = j /\ run'.before = disk
        BY <1>0, <3>1 DEF IsRun
      <3> QED
        BY <3>1, <3>2, <3>3, <3>4, StageSets DEF Fresh, RollbackInv, MustBeTracked, Recoverable
    <2> QED
      BY <2>1, <2>2
  <1>2. ASSUME SkipLegacyTree PROVE RollbackInv'
    BY <1>0, <1>2, GotoFields, StageSets, UntrackingStep DEF SkipLegacyTree
  <1>3. ASSUME NEW t \in TreeFiles, RemoveLegacyTree(t) PROVE RollbackInv'
    <2>1. t \in Tracked(run.journal) /\ run.stage = "resetTree"
      BY <1>3 DEF RemoveLegacyTree, Writing, RollbackInv, MustBeTracked
    <2>2. \A p \in Paths : disk'[p] # disk[p] => p = t
      BY <1>0, <1>3 DEF RemoveLegacyTree, WellFormed
    <2> QED
      BY <1>0, <1>3, <2>1, <2>2, WroteFields, StageSets, UntrackingStep, ZenonT(30)
         DEF RemoveLegacyTree, Writing
  <1>4. ASSUME NEW f \in ConfigFiles, WriteStockConfig(f) PROVE RollbackInv'
    <2>1. CASE run.left = {f}
      <3>1. run'.stage = "plan" /\ ~run'.journal.writes
        BY <1>4, <2>1, EmptyIsJournal DEF WriteStockConfig, IdleRun
      <3> QED
        BY <3>1, StageSets, UnguardedStep
    <2>2. CASE run.left # {f}
      <3> DEFINE k == TrackFiles(run.journal, disk, {f})
                 j == IF disk[f] = StockContent(f) THEN k ELSE NoteWrite(k)
      <3>1. /\ IsJournal(k) /\ Tracked(k) = Tracked(run.journal) \cup {f}
            /\ \A p \in Tracked(run.journal) : k.snap[p] = run.journal.snap[p]
            /\ \A p \in {f} \ Tracked(run.journal) : k.snap[p] = disk[p]
            /\ k.todo = run.journal.todo \cup ({f} \ Tracked(run.journal))
        BY <1>0, TrackedFiles, HeldConfig DEF IsRun
      <3> HIDE DEF k
      <3>2. j.snap = k.snap /\ j.todo = k.todo /\ Tracked(j) = Tracked(k)
        BY <3>1, JournalSteps DEF Tracked
      <3> HIDE DEF j
      <3>3. run' = [run EXCEPT !.left = @ \ {f}, !.journal = j]
        BY <1>4, <2>2 DEF WriteStockConfig, j, k
      <3>4. /\ run'.stage = run.stage /\ run'.op = run.op /\ run'.before = run.before
            /\ run'.edited = run.edited /\ run'.apply = run.apply /\ run'.journal = j
        BY <1>0, <3>3 DEF IsRun
      <3>5. \A p \in Paths : disk'[p] # disk[p] => p = f
        BY <1>0, <1>4 DEF WriteStockConfig, WellFormed
      <3>6. run.stage = "resetConfig"
        BY <1>4 DEF WriteStockConfig, Writing
      <3> QED
        BY <3>1, <3>2, <3>4, <3>5, <3>6, StageSets, GuardedStep
    <2> QED
      BY <2>1, <2>2
  <1> QED
    BY <1>1, <1>2, <1>3, <1>4 DEF Reset

\* The journal a command fills before it writes.
LEMMA TrackIsFresh ==
    ASSUME TypeInv, Track
    PROVE  /\ Fresh(run'.journal, disk)
           /\ Tracked(run'.journal)
                = ConfigTree \cup (IF run.op = "install" THEN Sources ELSE run.retained)
  <1>0. WellFormed(disk) /\ IsRun(run)
    BY DEF TypeInv, TypeOK
  <1> DEFINE touched == TrackFiles(EmptyJournal, disk, ConfigFiles \cup {StateFile})
             srcs == IF run.op = "install" THEN Sources ELSE run.retained
             journal == IF run.op = "install"
                        THEN TrackFiles(TrackTree(touched, disk, TreeFiles), disk, srcs)
                        ELSE TrackTree(TrackFiles(touched, disk, srcs), disk, TreeFiles)
             apply == IF run.op = "install" THEN run.apply
                      ELSE {s \in run.retained : disk[s] # "stock"}
             halted == run.op = "install" /\ ~klipper.up
             stage == IF apply # {} THEN "marker"
                      ELSE IF run.op = "install" THEN "extras" ELSE "check"
             left == IF apply # {} THEN {RestartMarker}
                     ELSE IF run.op = "install" THEN Extras ELSE {}
  <1>1. PICK j \in {journal, NoteWrite(journal)} :
          run' = [run EXCEPT !.journal = j, !.apply = apply, !.before = disk,
                             !.halted = halted, !.stage = stage, !.left = left]
    BY DEF Track
  <1>2. srcs \in SUBSET Sources /\ srcs \in SUBSET Paths
    BY <1>0, StagesAndPaths DEF IsRun
  <1>3. Fresh(touched, disk) /\ Tracked(touched) = ConfigFiles \cup {StateFile}
    BY <1>0, EmptyIsFresh, EmptyIsJournal, FreshTracking, StagesAndPaths
  <1>4. ConfigTree = ConfigFiles \cup TreeFiles \cup {StateFile}
    BY DEF ConfigTree
  <1> HIDE DEF touched, srcs
  <1>6. /\ Fresh(TrackTree(touched, disk, TreeFiles), disk)
        /\ Fresh(TrackFiles(touched, disk, srcs), disk)
        /\ Tracked(TrackTree(touched, disk, TreeFiles)) = Tracked(touched) \cup TreeFiles
        /\ Tracked(TrackFiles(touched, disk, srcs)) = Tracked(touched) \cup srcs
    BY <1>0, <1>2, <1>3, FreshTracking, StagesAndPaths
  <1>7. Fresh(journal, disk) /\ Tracked(journal) = ConfigTree \cup srcs
    <2>1. CASE run.op = "install"
      BY <1>0, <1>2, <1>3, <1>4, <1>6, <2>1, FreshTracking
    <2>2. CASE run.op # "install"
      BY <1>0, <1>3, <1>4, <1>6, <2>2, FreshTracking, StagesAndPaths
    <2> QED
      BY <2>1, <2>2
  <1> HIDE DEF journal, apply, halted, stage, left
  <1>8. run'.journal = j
    BY <1>0, <1>1 DEF IsRun
  <1>9. Fresh(j, disk) /\ Tracked(j) = Tracked(journal)
    BY <1>1, <1>7, NotedJournal DEF Fresh, Tracked
  <1> QED
    BY <1>7, <1>8, <1>9 DEF srcs

\* ... and the one of a restore, which notes a write at once.
LEMMA RestoreIsFresh ==
    ASSUME TypeInv, NEW id, StartRestore(id)
    PROVE  /\ run'.journal.todo = Tracked(run'.journal) /\ run'.journal.writes
           /\ \A p \in Tracked(run'.journal) : run'.journal.snap[p] = disk[p]
           /\ Tracked(run'.journal) = ConfigTree \cup {RestartMarker} \cup Sources
  <1>0. WellFormed(disk)
    BY DEF TypeInv, TypeOK
  <1> DEFINE a == TrackTree(EmptyJournal, disk, ConfigTree)
             b == TrackFiles(a, disk, {RestartMarker})
             j == TrackFiles(b, disk, Sources)
             k == NoteWrite(j)
  <1>1. run' = [IdleRun EXCEPT !.op = "restore", !.stage = "swapOut", !.archive = id,
                               !.pid = klipper.pid, !.before = disk, !.journal = k]
    BY DEF StartRestore
  <1> HIDE DEF a, b, j, k
  <1>2. Fresh(a, disk) /\ Tracked(a) = ConfigTree
    BY <1>0, FirstTree DEF a, Paths
  <1>3. Fresh(b, disk) /\ Tracked(b) = ConfigTree \cup {RestartMarker}
    BY <1>0, <1>2, FreshTracking, StagesAndPaths DEF b
  <1>4. Fresh(j, disk) /\ Tracked(j) = ConfigTree \cup {RestartMarker} \cup Sources
    BY <1>0, <1>3, FreshTracking, StagesAndPaths DEF j
  <1>5. k.snap = j.snap /\ k.todo = j.todo /\ Tracked(k) = Tracked(j) /\ k.writes
    BY <1>4 DEF Fresh, NoteWrite, IsJournal, Tracked, k
  <1>6. run'.journal = k
    BY <1>1 DEF IdleRun
  <1> QED
    BY <1>4, <1>5, <1>6 DEF Fresh

LEMMA PrepareStep ==
    ASSUME TypeInv, RollbackInv, Prepare
    PROVE  RollbackInv'
  <1>0. WellFormed(disk) /\ IsRun(run)
    BY DEF TypeInv, TypeOK
  <1>1. ASSUME PlanInstall \/ PlanUninstall \/ CreateBackup PROVE RollbackInv'
    <2>1. run.stage \in Unguarded /\ run'.stage \in Unguarded /\ run'.journal = run.journal
      BY <1>0, <1>1, StageSets, ZenonT(30) DEF PlanInstall, PlanUninstall, CreateBackup, IsRun
    <2> QED
      BY <2>1, StageSets, UnguardedStep DEF RollbackInv
  <1>2. ASSUME Refuse PROVE RollbackInv'
    BY <1>2, FinishStep DEF Refuse
  <1>3. ASSUME Track PROVE RollbackInv'
    <2> DEFINE touched == TrackFiles(EmptyJournal, disk, ConfigFiles \cup {StateFile})
               srcs == IF run.op = "install" THEN Sources ELSE run.retained
               journal == IF run.op = "install"
                          THEN TrackFiles(TrackTree(touched, disk, TreeFiles), disk, srcs)
                          ELSE TrackTree(TrackFiles(touched, disk, srcs), disk, TreeFiles)
               apply == IF run.op = "install" THEN run.apply
                        ELSE {s \in run.retained : disk[s] # "stock"}
               halted == run.op = "install" /\ ~klipper.up
               stage == IF apply # {} THEN "marker"
                        ELSE IF run.op = "install" THEN "extras" ELSE "check"
               left == IF apply # {} THEN {RestartMarker}
                       ELSE IF run.op = "install" THEN Extras ELSE {}
    <2>1. PICK j \in {journal, NoteWrite(journal)} :
            /\ run' = [run EXCEPT !.journal = j, !.apply = apply, !.before = disk,
                                  !.halted = halted, !.stage = stage, !.left = left]
            /\ UNCHANGED disk
      BY <1>3 DEF Track
    <2>2. srcs \in SUBSET Sources /\ srcs \in SUBSET Paths
      BY <1>0, StagesAndPaths DEF IsRun
    <2>4. stage \in {"marker", "extras", "check"}
      OBVIOUS
    <2>5. run.op # "install" => apply \subseteq srcs
      OBVIOUS
    <2>6. run.op = "restore" => FALSE
      BY <1>3 DEF Track, TypeInv, StagesOK, RestoreStages
    <2>7. run.op = "install" => srcs = Sources
      OBVIOUS
    <2>8. NoFiles # disk
      BY <1>0, HeldState DEF WellFormed, NoFiles
    <2>3. Fresh(run'.journal, disk) /\ Tracked(run'.journal) = ConfigTree \cup srcs
      BY <1>3, TrackIsFresh
    <2>9. /\ run'.stage = stage /\ run'.before = disk
          /\ run'.op = run.op /\ run'.apply = apply
      <3> HIDE DEF journal, apply, halted, stage, left
      <3> QED
        BY <1>0, <2>1 DEF IsRun
    <2> HIDE DEF journal, apply, stage, srcs
    <2>10. MustBeTracked' \subseteq Tracked(run'.journal)
      BY <2>3, <2>4, <2>5, <2>6, <2>7, <2>9, StageSets DEF MustBeTracked
    <2> QED
      BY <2>1, <2>3, <2>4, <2>8, <2>9, <2>10, StageSets DEF Fresh, RollbackInv, Recoverable
  <1> QED
    BY <1>1, <1>2, <1>3 DEF Prepare

\* A step that only goes on with the stages.
LEMMA GotoStep ==
    ASSUME TypeInv, RollbackInv, NEW s \in Stages, NEW l, Goto(s, l), UNCHANGED disk,
           run.stage \in Guarded \ {"rollback", "resetTree", "resetConfig"},
           s \notin {"sources", "resetTree", "resetConfig"} \cup Unguarded
    PROVE  RollbackInv'
  <1>0. IsRun(run)
    BY DEF TypeInv, TypeOK
  <1>1. CASE s \in Guarded
    BY <1>0, <1>1, GotoFields, StageSets, UntrackingStep
  <1>2. CASE s \notin Guarded
    BY <1>0, <1>2, GotoFields, UnguardedStep
  <1> QED
    BY <1>1, <1>2

\* A write of a tracked path, or of one that is exempt.
LEMMA WroteStep ==
    ASSUME TypeInv, RollbackInv, NEW p, NEW s \in Stages, NEW l, Wrote(p, s, l),
           run.stage \in Guarded \ {"rollback", "resetTree", "resetConfig"},
           s \notin {"sources", "resetTree", "resetConfig"} \cup Unguarded,
           p \in Tracked(run.journal) \cup Exempt,
           \A q \in Paths : disk'[q] # disk[q] => q = p
    PROVE  RollbackInv'
  <1>0. IsRun(run)
    BY DEF TypeInv, TypeOK
  <1>1. CASE run'.stage \in Guarded
    <2>1. (run.op = "uninstall" /\ run'.stage = "sources") => run'.left \subseteq run.apply
      BY <1>0, WroteFields, ZenonT(30) DEF RollbackInv
    <2> QED
      BY <1>0, <1>1, <2>1, WroteFields, StageSets, UntrackingStep
  <1>2. CASE run'.stage \notin Guarded
    <2>1. run'.stage \in {run.stage, s}
      BY <1>0, WroteFields
    <2>2. run'.stage \notin Unguarded
      BY <2>1, StageSets
    <2> QED
      BY <1>2, <2>2, UnguardedStep
  <1> QED
    BY <1>1, <1>2

\* A write of p changes p only.
LEMMA OneChanges ==
    ASSUME NEW d, WellFormed(d), NEW p, NEW c, NEW q \in Paths,
           [d EXCEPT ![p] = c][q] # d[q]
    PROVE  q = p
  BY DEF WellFormed

LEMMA WriteStep ==
    ASSUME TypeInv, RollbackInv, Write
    PROVE  RollbackInv'
  <1> USE StagesAndPaths
  <1>0. WellFormed(disk) /\ IsRun(run) /\ IsJournal(run.journal)
    BY DEF TypeInv, TypeOK, IsRun
  <1>1. ASSUME WriteMarker PROVE RollbackInv'
    <2> DEFINE k == TrackFiles(run.journal, disk, {RestartMarker})
               j == NoteWrite(k)
    <2>1. /\ IsJournal(k) /\ Tracked(k) = Tracked(run.journal) \cup {RestartMarker}
          /\ \A p \in Tracked(run.journal) : k.snap[p] = run.journal.snap[p]
          /\ \A p \in {RestartMarker} \ Tracked(run.journal) : k.snap[p] = disk[p]
          /\ k.todo = run.journal.todo \cup ({RestartMarker} \ Tracked(run.journal))
      BY <1>0, TrackedFiles
    <2> HIDE DEF k
    <2>2. j.snap = k.snap /\ j.todo = k.todo /\ Tracked(j) = Tracked(k)
      BY <2>1, JournalSteps DEF Tracked
    <2>3. run' = [run EXCEPT !.journal = j, !.stage = "sources", !.left = run.apply]
      BY <1>0, <1>1 DEF WriteMarker, IsRun, k
    <2> HIDE DEF j
    <2>4. /\ run'.stage = "sources" /\ run'.op = run.op /\ run'.before = run.before
          /\ run'.edited = run.edited /\ run'.apply = run.apply /\ run'.journal = j
          /\ run'.left = run.apply
      BY <1>0, <2>3 DEF IsRun
    <2>5. \A q \in Paths : disk'[q] # disk[q] => q = RestartMarker
      BY <1>0, <1>1, OneChanges DEF WriteMarker
    <2>6. run.stage = "marker"
      BY <1>1 DEF WriteMarker, Writing
    <2> QED
      BY <2>1, <2>2, <2>4, <2>5, <2>6, StageSets, GuardedStep
  <1>2. ASSUME NEW s \in Sources, DeploySource(s) PROVE RollbackInv'
    <2>1. s \in Tracked(run.journal) /\ run.stage = "sources"
      BY <1>2, StageSets DEF DeploySource, Writing, RollbackInv, MustBeTracked
    <2>2. \A q \in Paths : disk'[q] # disk[q] => q = s
      BY <1>0, <1>2, OneChanges DEF DeploySource
    <2> QED
      BY <1>2, <2>1, <2>2, StageSets, WroteStep DEF DeploySource
  <1>3. ASSUME NEW s \in Sources, RestoreSource(s) PROVE RollbackInv'
    <2>1. s \in Tracked(run.journal) /\ run.stage = "sources"
      BY <1>3, StageSets DEF RestoreSource, Writing, RollbackInv, MustBeTracked
    <2>2. CASE disk[s] = "other"
      BY <1>3, <2>1, <2>2, StageSets, RaiseStep DEF RestoreSource
    <2>3. CASE disk[s] # "other"
      <3>1. \A q \in Paths : disk'[q] # disk[q] => q = s
        <4>1. disk' = [disk EXCEPT ![s] = "stock"]
          BY <1>3, <2>3 DEF RestoreSource
        <4> QED
          BY <1>0, <4>1, OneChanges
      <3> QED
        BY <1>3, <2>1, <2>3, <3>1, StageSets, WroteStep DEF RestoreSource
    <2> QED
      BY <2>2, <2>3
  <1>4. ASSUME NEW x \in Extras, InstallExtra(x) PROVE RollbackInv'
    <2> DEFINE k == TrackFiles(run.journal, disk, {x})
               ps == IF disk[x] = "packaged" THEN {} ELSE {x}
               j == IF disk[x] = "packaged" THEN run.journal ELSE NoteWrite(k)
               left == IF run.left = {x} THEN TreeFiles ELSE run.left \ {x}
               stage == IF run.left = {x} THEN "tree" ELSE run.stage
    <2>1. /\ IsJournal(k) /\ Tracked(k) = Tracked(run.journal) \cup {x}
          /\ \A p \in Tracked(run.journal) : k.snap[p] = run.journal.snap[p]
          /\ \A p \in {x} \ Tracked(run.journal) : k.snap[p] = disk[p]
          /\ k.todo = run.journal.todo \cup ({x} \ Tracked(run.journal))
      BY <1>0, TrackedFiles
    <2> HIDE DEF k
    <2>2. NoteWrite(k).snap = k.snap /\ NoteWrite(k).todo = k.todo
      BY <2>1, JournalSteps
    <2>3. /\ Tracked(j) = Tracked(run.journal) \cup ps
          /\ \A p \in Tracked(run.journal) : j.snap[p] = run.journal.snap[p]
          /\ \A p \in ps \ Tracked(run.journal) : j.snap[p] = disk[p]
          /\ j.todo = run.journal.todo \cup (ps \ Tracked(run.journal))
      BY <2>1, <2>2 DEF Tracked
    <2>4. run' = [run EXCEPT !.journal = j, !.left = left, !.stage = stage]
          /\ run.stage = "extras"
      BY <1>0, <1>4 DEF InstallExtra, Writing, IsRun, k
    <2>5. \A q \in Paths : disk'[q] # disk[q] => q \in ps
      <3>1. \A q \in Paths : disk'[q] # disk[q] => q = x
        BY <1>0, <1>4, OneChanges DEF InstallExtra
      <3>2. disk'[x] = "packaged"
        BY <1>0, <1>4 DEF InstallExtra, WellFormed
      <3> QED
        BY <3>1, <3>2
    <2>6. stage \in {"extras", "tree"}
      BY <2>4
    <2> HIDE DEF j, ps, left, stage
    <2>7. /\ run'.stage = stage /\ run'.op = run.op /\ run'.before = run.before
          /\ run'.edited = run.edited /\ run'.apply = run.apply /\ run'.journal = j
      BY <1>0, <2>4 DEF IsRun
    <2> QED
      BY <2>3, <2>4, <2>5, <2>6, <2>7, StageSets, GuardedStep
  <1>5. ASSUME NEW x \in Extras, RemoveExtra(x) PROVE RollbackInv'
    <2> DEFINE j == IF disk[x] = "packaged" THEN NoteWrite(run.journal) ELSE run.journal
               left == IF run.left = {x} THEN TreeFiles ELSE run.left \ {x}
               stage == IF run.left = {x} THEN "tree" ELSE run.stage
    <2>1. j.snap = run.journal.snap /\ j.todo = run.journal.todo
      BY <1>0 DEF NoteWrite, IsJournal
    <2>2. run' = [run EXCEPT !.journal = j, !.left = left, !.stage = stage]
          /\ run.stage = "extras" /\ run.op = "uninstall"
      BY <1>0, <1>5 DEF RemoveExtra, Writing, IsRun
    <2>3. stage \in {"extras", "tree"}
      BY <2>2
    <2> HIDE DEF j, left, stage
    <2>4. /\ run'.stage = stage /\ run'.op = run.op /\ run'.before = run.before
          /\ run'.edited = run.edited /\ run'.apply = run.apply /\ run'.journal = j
      BY <1>0, <2>2 DEF IsRun
    <2>5. \A q \in Paths : disk'[q] # disk[q] => q \in Exempt
      BY <1>0, <1>5, <2>2, OneChanges DEF RemoveExtra, Exempt
    <2> QED
      BY <2>1, <2>2, <2>3, <2>4, <2>5, StageSets, UntrackingStep
  <1>6. ASSUME NEW t \in TreeFiles, MirrorFile(t) PROVE RollbackInv'
    <2>1. t \in Tracked(run.journal) /\ run.stage = "tree"
      BY <1>6, StageSets DEF MirrorFile, Writing, RollbackInv, MustBeTracked, ConfigTree
    <2>2. CASE disk[t] = "packaged"
      <3>1. UNCHANGED disk
        BY <1>0, <1>6, <2>2 DEF MirrorFile, WellFormed, IsFiles
      <3>2. \/ Goto("check", run.left \ {t})
            \/ Goto("tree", run.left \ {t})
        BY <1>6, <2>2 DEF MirrorFile
      <3> QED
        BY <2>1, <3>1, <3>2, StageSets, GotoStep
    <2>3. CASE disk[t] # "packaged"
      <3>1. \A q \in Paths : disk'[q] # disk[q] => q = t
        BY <1>0, <1>6, OneChanges DEF MirrorFile
      <3> QED
        BY <1>6, <2>1, <2>3, <3>1, StageSets, WroteStep DEF MirrorFile
    <2> QED
      BY <2>2, <2>3
  <1>7. ASSUME NEW t \in TreeFiles, RemoveTreeFile(t) PROVE RollbackInv'
    <2>1. t \in Tracked(run.journal) /\ run.stage = "tree"
      BY <1>7, StageSets DEF RemoveTreeFile, Writing, RollbackInv, MustBeTracked, ConfigTree
    <2>2. \A q \in Paths : disk'[q] # disk[q] => q = t
      BY <1>0, <1>7, OneChanges DEF RemoveTreeFile
    <2> QED
      BY <1>7, <2>1, <2>2, StageSets, WroteStep DEF RemoveTreeFile
  <1>8. ASSUME CheckPreimages PROVE RollbackInv'
    <2>1. run.stage = "check" /\ UNCHANGED disk
      BY <1>8 DEF CheckPreimages
    <2>2. CASE Raise
      BY <2>1, <2>2, StageSets, RaiseStep
    <2>3. CASE Goto(AfterConfig, LeftAfterConfig)
      BY <2>1, <2>3, AfterConfigStage, StageSets, GotoStep
    <2>4. CASE Goto("config", Changed)
      BY <2>1, <2>4, StageSets, GotoStep
    <2> QED
      BY <1>8, <2>2, <2>3, <2>4 DEF CheckPreimages
  <1>9. ASSUME NEW f \in ConfigFiles, WriteConfig(f) PROVE RollbackInv'
    <2>1. f \in Tracked(run.journal) /\ run.stage = "config"
      BY <1>9, StageSets DEF WriteConfig, RollbackInv, MustBeTracked, ConfigTree
    <2>2. \A q \in Paths : disk'[q] # disk[q] => q = f
      BY <1>0, <1>9, OneChanges DEF WriteConfig
    <2> QED
      BY <1>9, <2>1, <2>2, AfterConfigStage, StageSets, WroteStep DEF WriteConfig
  <1>10. ASSUME Postflight PROVE RollbackInv'
    <2>1. run.stage = "postflight" /\ UNCHANGED disk
      BY <1>10 DEF Postflight
    <2>2. CASE Raise
      BY <2>1, <2>2, StageSets, RaiseStep
    <2>3. CASE Goto("state", {StateFile})
      BY <2>1, <2>3, StageSets, GotoStep
    <2> QED
      BY <1>10, <2>2, <2>3 DEF Postflight
  <1>11. ASSUME Commit \/ Optimize PROVE RollbackInv'
    <2>1. run'.stage \in Committed
      BY <1>0, <1>11, GotoFields, StageSets DEF Commit, Optimize
    <2> QED
      BY <2>1, StageSets, UnguardedStep
  <1>12. ASSUME WriteState \/ DeleteState PROVE RollbackInv'
    <2>1. run.stage = "state" /\ Wrote(StateFile, "state", {})
      BY <1>12 DEF WriteState, DeleteState, Writing
    <2>2. StateFile \in Tracked(run.journal)
      BY <2>1, StageSets DEF RollbackInv, MustBeTracked, ConfigTree
    <2>3. \A q \in Paths : disk'[q] # disk[q] => q = StateFile
      <3>1. ASSUME WriteState PROVE \A q \in Paths : disk'[q] # disk[q] => q = StateFile
        BY <1>0, <3>1, OneChanges DEF WriteState
      <3>2. ASSUME DeleteState PROVE \A q \in Paths : disk'[q] # disk[q] => q = StateFile
        BY <1>0, <3>2, OneChanges DEF DeleteState
      <3> QED
        BY <1>12, <3>1, <3>2
    <2> QED
      BY <2>1, <2>2, <2>3, StageSets, WroteStep
  <1> QED
    BY <1>1, <1>2, <1>3, <1>4, <1>5, <1>6, <1>7, <1>8, <1>9, <1>10, <1>11, <1>12 DEF Write

LEMMA CommandStep ==
    ASSUME TypeInv, RollbackInv, Commands
    PROVE  RollbackInv'
  <1>0. WellFormed(disk)
    BY DEF TypeInv, TypeOK
  <1>1. ASSUME NEW op, NEW stage \in {"plan", "reset"}, Start(op, stage)
        PROVE  RollbackInv'
    <2>1. run'.stage = stage /\ run'.journal = EmptyJournal
      BY <1>1 DEF Start, IdleRun
    <2> QED
      BY <2>1, EmptyIsJournal, StageSets, UnguardedStep
  <1>2. ASSUME StartInstall \/ StartUninstall PROVE RollbackInv'
    BY <1>1, <1>2 DEF StartInstall, StartUninstall
  <1>3. ASSUME ClearSentinel PROVE RollbackInv'
    BY <1>3, StageSets DEF ClearSentinel, RollbackInv, MustBeTracked
  <1>4. ASSUME NEW id \in Archives, StartRestore(id) PROVE RollbackInv'
    <2>1. /\ run'.journal.todo = Tracked(run'.journal)
          /\ \A p \in Tracked(run'.journal) : run'.journal.snap[p] = disk[p]
          /\ Tracked(run'.journal) = ConfigTree \cup {RestartMarker} \cup Sources
      BY <1>4, RestoreIsFresh
    <2>2. /\ run'.stage = "swapOut" /\ run'.op = "restore" /\ run'.before = disk
          /\ UNCHANGED disk
      BY <1>4 DEF StartRestore, IdleRun
    <2>3. disk # NoFiles
      BY <1>0, HeldState DEF WellFormed, NoFiles
    <2>4. MustBeTracked' = ConfigTree \cup Sources \cup {RestartMarker}
      BY <2>2, StageSets DEF MustBeTracked
    <2>5. \A p \in Paths : Recoverable(p)'
      BY <2>1, <2>2 DEF Recoverable
    <2> QED
      BY <2>1, <2>2, <2>3, <2>4, <2>5, StageSets DEF RollbackInv
  <1> QED
    BY <1>2, <1>3, <1>4 DEF Commands

LEMMA RestoreStep ==
    ASSUME TypeInv, RollbackInv, Restore
    PROVE  RollbackInv'
  <1> USE StagesAndPaths
  <1>0. WellFormed(disk) /\ IsRun(run)
    BY DEF TypeInv, TypeOK
  <1>1. ASSUME SwapOut \/ SwapIn PROVE RollbackInv'
    <2>1. run.op = "restore" /\ run.stage \in {"swapOut", "swapIn"}
      BY <1>1 DEF SwapOut, SwapIn, TypeInv, StagesOK
    <2>2. ConfigTree \subseteq Tracked(run.journal)
      BY <2>1, StageSets DEF RollbackInv, MustBeTracked
    <2>3. \A p \in Paths : disk'[p] # disk[p] => p \in ConfigTree
      BY <1>1 DEF SwapOut, SwapIn
    <2>4. /\ run'.stage \in {"swapIn", "verify"}
          /\ run'.op = run.op /\ run'.before = run.before /\ run'.edited = run.edited
          /\ run'.apply = run.apply /\ run'.journal = run.journal
      BY <1>0, <1>1, GotoFields DEF SwapOut, SwapIn
    <2> QED
      BY <2>1, <2>2, <2>3, <2>4, StageSets, UntrackingStep
  <1>2. ASSUME VerifyRestore PROVE RollbackInv'
    <2>1. run.stage = "verify" /\ UNCHANGED disk
      BY <1>2 DEF VerifyRestore
    <2>2. CASE Raise
      BY <2>1, <2>2, StageSets, RaiseStep
    <2>3. CASE Goto("marker", {RestartMarker})
      BY <2>1, <2>3, StageSets, GotoStep
    <2> QED
      BY <1>2, <2>2, <2>3 DEF VerifyRestore
  <1>3. ASSUME WriteRestoreMarker PROVE RollbackInv'
    <2>1. run.op = "restore" /\ run.stage = "marker" /\ Goto("sources", Sources)
      BY <1>3 DEF WriteRestoreMarker, Writing
    <2>2. RestartMarker \in Tracked(run.journal)
      BY <2>1, StageSets DEF RollbackInv, MustBeTracked
    <2>3. \A q \in Paths : disk'[q] # disk[q] => q = RestartMarker
      BY <1>0, <1>3, OneChanges DEF WriteRestoreMarker
    <2> QED
      BY <1>0, <2>1, <2>2, <2>3, GotoFields, StageSets, UntrackingStep
  <1>4. ASSUME NEW s \in Sources, RestoreArchivedSource(s) PROVE RollbackInv'
    <2>1. run.op = "restore" /\ run.stage = "sources" /\ Wrote(s, "activate", {})
      BY <1>4 DEF RestoreArchivedSource, Writing
    <2>2. s \in Tracked(run.journal)
      BY <2>1, StageSets DEF RollbackInv, MustBeTracked
    <2>3. \A q \in Paths : disk'[q] # disk[q] => q = s
      BY <1>0, <1>4, OneChanges DEF RestoreArchivedSource
    <2> QED
      BY <2>1, <2>2, <2>3, StageSets, WroteStep
  <1> QED
    BY <1>1, <1>2, <1>3, <1>4 DEF Restore

LEMMA ActivationStep ==
    ASSUME TypeInv, RollbackInv, Activation
    PROVE  RollbackInv'
  <1>0. IsRun(run)
    BY DEF TypeInv, TypeOK
  <1>1. Finish \/ run'.stage \in Committed
    BY <1>0, GotoFields, StageSets
       DEF Activation, Activate, RestartPending, AwaitKlipper, IsRun
  <1> QED
    BY <1>1, FinishStep, StageSets, UnguardedStep

LEMMA RollbackKeeps ==
    ASSUME TypeInv, RollbackInv, Rollback
    PROVE  RollbackInv'
  <1>0. WellFormed(disk) /\ IsRun(run) /\ IsJournal(run.journal)
    BY DEF TypeInv, TypeOK, IsRun
  <1>1. ASSUME RollbackDone PROVE RollbackInv'
    BY <1>1, FinishStep DEF RollbackDone
  <1>2. ASSUME NEW p \in Paths, RollbackStep(p) PROVE RollbackInv'
    <2> DEFINE j == Restored(run.journal, p)
    <2>1. p \in Tracked(run.journal)
      BY <1>0, <1>2 DEF RollbackStep, NextToRestore, IsJournal
    <2>2. j.snap = run.journal.snap /\ j.todo = run.journal.todo \ {p}
      BY <1>0, <2>1, JournalSteps
    <2>3. /\ run'.stage = "rollback" /\ run.stage = "rollback" /\ run'.journal = j
          /\ run'.before = run.before /\ run'.op = run.op /\ run'.edited = run.edited
      BY <1>0, <1>2 DEF RollbackStep, IsRun
    <2> HIDE DEF j
    <2>4. disk' = [disk EXCEPT ![p] = run.journal.snap[p]]
      BY <1>2 DEF RollbackStep
    <2>5. ASSUME NEW q \in Paths \ Exempt' PROVE Recoverable(q)'
      <3>1. Recoverable(q)
        BY <2>3, <2>5, StageSets DEF RollbackInv, Exempt
      <3> QED
        BY <1>0, <2>1, <2>2, <2>3, <2>4, <3>1 DEF Recoverable, Tracked, WellFormed
    <2>6. run.before # NoFiles
      BY <2>3, StageSets DEF RollbackInv
    <2> QED
      BY <2>3, <2>5, <2>6, StageSets DEF RollbackInv, MustBeTracked
  <1> QED
    BY <1>1, <1>2 DEF Rollback

LEMMA FaultStep ==
    ASSUME TypeInv, RollbackInv, Faults
    PROVE  RollbackInv'
  <1>1. ASSUME Fail PROVE RollbackInv'
    BY <1>1, FinishStep, RaiseStep DEF Fail
  <1>2. ASSUME RollbackFails \/ InterruptReset \/ Crash PROVE RollbackInv'
    BY <1>2, FinishStep DEF RollbackFails, InterruptReset, Crash
  <1> QED
    BY <1>1, <1>2 DEF Faults

LEMMA EnvironmentStep ==
    ASSUME TypeInv, RollbackInv, Environment
    PROVE  RollbackInv'
  <1>0. WellFormed(disk) /\ IsRun(run)
    BY DEF TypeInv, TypeOK
  <1>1. ASSUME NEW p, NEW items, Edit({p}, items),
               \A q \in Paths : disk'[q] # disk[q] => q = p
        PROVE  RollbackInv'
    <2> DEFINE edited == IF run.before = NoFiles THEN run.edited ELSE run.edited \cup {p}
    <2>1. run' = [run EXCEPT !.edited = edited]
      BY <1>0, <1>1 DEF Edit, IsRun
    <2>2. /\ run'.stage = run.stage /\ run'.op = run.op /\ run'.before = run.before
          /\ run'.apply = run.apply /\ run'.journal = run.journal /\ run'.left = run.left
          /\ run'.edited = edited
      BY <1>0, <2>1 DEF IsRun
    <2>3. ASSUME run.before # NoFiles, run.stage \in Guarded, NEW q \in Paths \ Exempt'
          PROVE  Recoverable(q)'
      <3>1. Recoverable(q) /\ q # p
        BY <2>2, <2>3 DEF RollbackInv, Exempt
      <3> QED
        BY <1>1, <2>2, <2>3, <3>1 DEF Recoverable
    <2>4. MustBeTracked' = MustBeTracked
      BY <2>2 DEF MustBeTracked
    <2> HIDE DEF edited
    <2> QED
      BY <2>2, <2>3, <2>4 DEF RollbackInv
  <1>2. ASSUME NEW i \in Items, NEW v \in Values, EditConfig(i, v) PROVE RollbackInv'
    <2>1. \A q \in Paths : disk'[q] # disk[q] => q = FileOf[i]
      BY <1>0, <1>2 DEF EditConfig, WellFormed
    <2> QED
      BY <1>1, <1>2, <2>1 DEF EditConfig
  <1>3. ASSUME NEW p \in TreeFiles \cup Extras \cup Sources, EditOwned(p) PROVE RollbackInv'
    <2>1. \A q \in Paths : disk'[q] # disk[q] => q = p
      BY <1>0, <1>3, OneChanges DEF EditOwned
    <2> QED
      BY <1>1, <1>3, <2>1 DEF EditOwned
  <1>4. ASSUME UNCHANGED <<disk, run>> PROVE RollbackInv'
    BY <1>4 DEF RollbackInv, MustBeTracked, Recoverable, Exempt
  <1> QED
    BY <1>2, <1>3, <1>4 DEF Environment, KlipperRestart, StartPrint, EndPrint

\* RollbackInv is inductive, relative to the types.
LEMMA StepRollback == TypeInv /\ RollbackInv /\ [Next]_vars => RollbackInv'
  <1>1. RollbackInv /\ UNCHANGED vars => RollbackInv'
    BY DEF vars, RollbackInv, MustBeTracked, Recoverable, Exempt
  <1> QED
    BY <1>1, CommandStep, ResetStep, PrepareStep, WriteStep, RestoreStep,
       ActivationStep, RollbackKeeps, FaultStep, EnvironmentStep DEF Next, Proceed

LEMMA InitRollback == Init => RollbackInv
  BY IdleRunFields, EmptyIsJournal, StageSets
     DEF Init, RollbackInv, MustBeTracked

\* A rollback ends in one step only, when nothing is left to restore, unless it
\* fails or is killed.
LEMMA RollbackEnds ==
    ASSUME TypeInv, RollbackInv, Next,
           run.stage = "rollback", run'.stage = "idle", hist' = hist
    PROVE  \A p \in Paths \ Exempt : disk[p] = run.before[p]
  <1>0. IsRun(run) /\ IsHist(hist)
    BY DEF TypeInv, TypeOK
  <1>1. ~Commands
    BY DEF Commands, StartInstall, StartUninstall, Start, ClearSentinel, StartRestore
  <1>2. ~Reset /\ ~Prepare
    BY DEF Reset, BackupLegacyConfig, SkipLegacyTree, RemoveLegacyTree, WriteStockConfig, Writing,
           Prepare, PlanInstall, PlanUninstall, Refuse, CreateBackup, Track
  <1>3. ~Write
    BY DEF Write, WriteMarker, CheckPreimages, Postflight, WriteState, DeleteState, Commit,
           Optimize, DeploySource, RestoreSource, InstallExtra, RemoveExtra, MirrorFile,
           RemoveTreeFile, WriteConfig, Writing
  <1>4. ~Restore /\ ~Activation
    BY DEF Restore, SwapOut, SwapIn, VerifyRestore, WriteRestoreMarker, RestoreArchivedSource,
           Writing, Activation, Activate, RestartPending, AwaitKlipper
  <1>5. ~Environment
    <2>1. ASSUME Environment PROVE run'.stage = run.stage
      BY <1>0, <2>1 DEF Environment, EditConfig, EditOwned, Edit, KlipperRestart, StartPrint,
                        EndPrint, IsRun
    <2> QED
      BY <2>1
  <1>6. ~Faults
    <2>1. ASSUME Fault PROVE FALSE
      <3>1. hist'.faults = hist.faults + 1 /\ hist.faults \in Nat
        BY <1>0, <2>1 DEF Fault, IsHist
      <3> QED
        BY <3>1
    <2>2. ASSUME Crash PROVE FALSE
      <3>1. hist'.crashes = hist.crashes + 1 /\ hist.crashes \in Nat
        BY <1>0, <2>2 DEF Crash, IsHist
      <3> QED
        BY <3>1
    <2>3. ASSUME RollbackFails PROVE FALSE
      <3>1. hist'.faults = hist.faults + 1 /\ hist.faults \in Nat
        BY <1>0, <2>3, RollbackFailsNotes DEF IsHist
      <3> QED
        BY <3>1
    <2> QED
      BY <2>1, <2>2, <2>3 DEF Faults, Fail, InterruptReset
  <1>7. ASSUME NEW p \in Paths, RollbackStep(p) PROVE FALSE
    BY <1>0, <1>7 DEF RollbackStep, IsRun
  <1>8. RollbackDone
    BY <1>1, <1>2, <1>3, <1>4, <1>5, <1>6, <1>7 DEF Next, Proceed, Rollback
  <1> QED
    BY <1>8, StageSets DEF RollbackDone, RollbackInv, Recoverable

\* In every writing stage the journal's preimages are what the command found,
\* and every path the command may have changed is waiting to be restored.
THEOREM RollbackInvariant == Spec => []RollbackInv
  <1>1. Init => TypeInv /\ RollbackInv
    BY InitTypes, InitRollback
  <1>2. (TypeInv /\ RollbackInv) /\ [Next]_vars => (TypeInv /\ RollbackInv)'
    BY StepTypes, StepRollback
  <1> QED
    BY <1>1, <1>2, PTL DEF Spec

\* A rollback that ends without a failure leaves every path as the command found
\* it, the edits of others and the extra modules of an uninstall excepted.
THEOREM RollbackComplete == Spec => RollbackRestores
  <1> DEFINE Restores == (run.stage = "rollback" /\ run'.stage = "idle" /\ hist' = hist) =>
                            \A p \in Paths \ Exempt : disk[p] = run.before[p]
  <1>1. TypeInv /\ RollbackInv /\ [Next]_vars => [Restores]_vars
    BY RollbackEnds
  <1>2. RollbackRestores <=> [][Restores]_vars
    BY PTL DEF RollbackRestores
  <1> HIDE DEF Restores
  <1> QED
    BY <1>1, <1>2, TypesInvariant, RollbackInvariant, PTL DEF Spec
-----------------------------------------------------------------------------
\* The course of a command: it only goes forward, and always has a next step.

LEMMA Courses ==
    /\ Course("install") =
         <<"reset", "resetTree", "resetConfig", "plan", "backup", "track", "marker", "sources",
           "extras", "tree", "check", "config", "postflight", "state", "optimize",
           "activate", "pending", "restarting">>
    /\ Course("uninstall") =
         <<"plan", "backup", "track", "marker", "sources", "check", "config", "extras",
           "tree", "postflight", "state", "activate", "pending", "restarting">>
    /\ Course("restore") =
         <<"swapOut", "swapIn", "verify", "marker", "sources", "activate", "pending",
           "restarting">>
    /\ Course("none") = << >>
  BY DEF Course

LEMMA ComesAt ==
    ASSUME NEW op, NEW i \in DOMAIN Course(op), NEW j \in DOMAIN Course(op), i < j
    PROVE  Comes(op, Course(op)[i], Course(op)[j])
  BY DEF Comes

LEMMA InstallCourse ==
    LET Then(stage, later) == Comes("install", stage, later)
    IN  /\ Then("reset", "resetTree") /\ Then("resetTree", "resetConfig")
        /\ Then("resetConfig", "plan") /\ Then("plan", "backup") /\ Then("backup", "track")
        /\ Then("track", "marker") /\ Then("track", "extras") /\ Then("marker", "sources")
        /\ Then("sources", "extras") /\ Then("extras", "tree") /\ Then("tree", "check")
        /\ Then("check", "config") /\ Then("check", "postflight")
        /\ Then("config", "postflight") /\ Then("postflight", "state")
        /\ Then("state", "optimize") /\ Then("optimize", "activate")
        /\ Then("activate", "pending") /\ Then("pending", "restarting")
  <1> DEFINE c == Course("install")
  <1>0. c = <<"reset", "resetTree", "resetConfig", "plan", "backup", "track", "marker", "sources",
              "extras", "tree", "check", "config", "postflight", "state", "optimize",
              "activate", "pending", "restarting">>
    BY Courses
  <1> HIDE DEF c
  <1>1. /\ DOMAIN c = 1..18
        /\ c[1] = "reset" /\ c[2] = "resetTree" /\ c[3] = "resetConfig" /\ c[4] = "plan"
        /\ c[5] = "backup" /\ c[6] = "track" /\ c[7] = "marker" /\ c[8] = "sources"
        /\ c[9] = "extras" /\ c[10] = "tree" /\ c[11] = "check" /\ c[12] = "config"
        /\ c[13] = "postflight" /\ c[14] = "state" /\ c[15] = "optimize"
        /\ c[16] = "activate" /\ c[17] = "pending" /\ c[18] = "restarting"
    BY <1>0
  <1>2. ASSUME NEW i \in 1..18, NEW j \in 1..18, i < j PROVE Comes("install", c[i], c[j])
    BY <1>1, <1>2, ComesAt DEF c
  <1>3. /\ Comes("install", c[1], c[2]) /\ Comes("install", c[2], c[3])
        /\ Comes("install", c[3], c[4]) /\ Comes("install", c[4], c[5])
        /\ Comes("install", c[5], c[6]) /\ Comes("install", c[6], c[7])
        /\ Comes("install", c[6], c[9]) /\ Comes("install", c[7], c[8])
        /\ Comes("install", c[8], c[9]) /\ Comes("install", c[9], c[10])
        /\ Comes("install", c[10], c[11]) /\ Comes("install", c[11], c[12])
        /\ Comes("install", c[11], c[13]) /\ Comes("install", c[12], c[13])
        /\ Comes("install", c[13], c[14]) /\ Comes("install", c[14], c[15])
        /\ Comes("install", c[15], c[16]) /\ Comes("install", c[16], c[17])
        /\ Comes("install", c[17], c[18])
    BY <1>2
  <1> QED
    BY <1>1, <1>3

LEMMA UninstallCourse ==
    LET Then(stage, later) == Comes("uninstall", stage, later)
    IN  /\ Then("plan", "backup") /\ Then("backup", "track") /\ Then("track", "marker")
        /\ Then("track", "check") /\ Then("marker", "sources") /\ Then("sources", "check")
        /\ Then("check", "config") /\ Then("check", "extras") /\ Then("config", "extras")
        /\ Then("extras", "tree") /\ Then("tree", "postflight") /\ Then("postflight", "state")
        /\ Then("state", "activate") /\ Then("activate", "pending")
        /\ Then("pending", "restarting")
  <1> DEFINE c == Course("uninstall")
  <1>0. c = <<"plan", "backup", "track", "marker", "sources", "check", "config", "extras",
              "tree", "postflight", "state", "activate", "pending", "restarting">>
    BY Courses
  <1> HIDE DEF c
  <1>1. /\ DOMAIN c = 1..14
        /\ c[1] = "plan" /\ c[2] = "backup" /\ c[3] = "track" /\ c[4] = "marker"
        /\ c[5] = "sources" /\ c[6] = "check" /\ c[7] = "config" /\ c[8] = "extras"
        /\ c[9] = "tree" /\ c[10] = "postflight" /\ c[11] = "state" /\ c[12] = "activate"
        /\ c[13] = "pending" /\ c[14] = "restarting"
    BY <1>0
  <1>2. ASSUME NEW i \in 1..14, NEW j \in 1..14, i < j PROVE Comes("uninstall", c[i], c[j])
    BY <1>1, <1>2, ComesAt DEF c
  <1>3. /\ Comes("uninstall", c[1], c[2]) /\ Comes("uninstall", c[2], c[3])
        /\ Comes("uninstall", c[3], c[4]) /\ Comes("uninstall", c[3], c[6])
        /\ Comes("uninstall", c[4], c[5]) /\ Comes("uninstall", c[5], c[6])
        /\ Comes("uninstall", c[6], c[7]) /\ Comes("uninstall", c[6], c[8])
        /\ Comes("uninstall", c[7], c[8]) /\ Comes("uninstall", c[8], c[9])
        /\ Comes("uninstall", c[9], c[10]) /\ Comes("uninstall", c[10], c[11])
        /\ Comes("uninstall", c[11], c[12]) /\ Comes("uninstall", c[12], c[13])
        /\ Comes("uninstall", c[13], c[14])
    BY <1>2
  <1> QED
    BY <1>1, <1>3

LEMMA RestoreCourse ==
    LET Then(stage, later) == Comes("restore", stage, later)
    IN  /\ Then("swapOut", "swapIn") /\ Then("swapIn", "verify") /\ Then("verify", "marker")
        /\ Then("marker", "sources") /\ Then("sources", "activate")
        /\ Then("activate", "pending") /\ Then("pending", "restarting")
  <1> DEFINE c == Course("restore")
  <1>0. c = <<"swapOut", "swapIn", "verify", "marker", "sources", "activate", "pending",
              "restarting">>
    BY Courses
  <1> HIDE DEF c
  <1>1. /\ DOMAIN c = 1..8
        /\ c[1] = "swapOut" /\ c[2] = "swapIn" /\ c[3] = "verify" /\ c[4] = "marker"
        /\ c[5] = "sources" /\ c[6] = "activate" /\ c[7] = "pending" /\ c[8] = "restarting"
    BY <1>0
  <1>2. ASSUME NEW i \in 1..8, NEW j \in 1..8, i < j PROVE Comes("restore", c[i], c[j])
    BY <1>1, <1>2, ComesAt DEF c
  <1>3. /\ Comes("restore", c[1], c[2]) /\ Comes("restore", c[2], c[3])
        /\ Comes("restore", c[3], c[4]) /\ Comes("restore", c[4], c[5])
        /\ Comes("restore", c[5], c[6]) /\ Comes("restore", c[6], c[7])
        /\ Comes("restore", c[7], c[8])
    BY <1>2
  <1> QED
    BY <1>1, <1>3

\* Which commands go through a stage.
LEMMA StageOps ==
    ASSUME NEW op \in Ops, NEW stage \in StagesOf(op)
    PROVE  /\ stage \in {"reset", "resetTree", "resetConfig", "optimize"} => op = "install"
           /\ stage \in {"plan", "backup", "track", "extras", "tree", "check", "config",
                         "postflight", "state"} => op \in {"install", "uninstall"}
           /\ stage \in {"swapOut", "swapIn", "verify"} => op = "restore"
           /\ stage \notin {"idle", "rollback"} /\ op \in {"install", "uninstall", "restore"}
  <1>1. CASE op = "install"
    <2>1. \A i \in 1..18 : Course(op)[i] \notin {"swapOut", "swapIn", "verify", "idle", "rollback"}
      BY <1>1, Courses
    <2>2. DOMAIN Course(op) = 1..18
      BY <1>1, Courses
    <2> QED
      BY <1>1, <2>1, <2>2 DEF StagesOf
  <1>2. CASE op = "uninstall"
    <2>1. \A i \in 1..14 : Course(op)[i] \notin {"reset", "resetTree", "resetConfig", "optimize",
                                                "swapOut", "swapIn", "verify", "idle", "rollback"}
      BY <1>2, Courses
    <2>2. DOMAIN Course(op) = 1..14
      BY <1>2, Courses
    <2> QED
      BY <1>2, <2>1, <2>2 DEF StagesOf
  <1>3. CASE op = "restore"
    <2>1. \A i \in 1..8 : Course(op)[i] \in {"swapOut", "swapIn", "verify", "marker", "sources",
                                             "activate", "pending", "restarting"}
      BY <1>3, Courses
    <2>2. DOMAIN Course(op) = 1..8
      BY <1>3, Courses
    <2> QED
      BY <1>3, <2>1, <2>2 DEF StagesOf
  <1>4. CASE op = "none"
    <2>1. DOMAIN Course(op) = {}
      BY <1>4, Courses
    <2> QED
      BY <2>1 DEF StagesOf
  <1> QED
    BY <1>1, <1>2, <1>3, <1>4 DEF Ops

\* A stage a command goes on to is one of its stages.
LEMMA OnCourse ==
    ASSUME NEW op, NEW stage, NEW later, Comes(op, stage, later)
    PROVE  later \in StagesOf(op)
  BY DEF Comes, StagesOf

LEMMA WorkOfStages ==
    /\ \A t \in {"resetTree", "tree"} : WorkOf(t) = TreeFiles
    /\ \A t \in {"resetConfig", "config"} : WorkOf(t) = ConfigFiles
    /\ WorkOf("marker") = {RestartMarker} /\ WorkOf("sources") = Sources
    /\ WorkOf("extras") = Extras /\ WorkOf("state") = {StateFile}
    /\ \A t \in {"idle", "rollback", "reset", "plan", "backup", "track", "check", "postflight",
                 "optimize", "swapOut", "swapIn", "verify", "activate", "pending",
                 "restarting"} : WorkOf(t) = {}
  BY DEF WorkOf

LEMMA CourseEnds ==
    ASSUME Finish
    PROVE  Advances /\ CourseInv'
  BY IdleRunFields, WorkOfStages DEF Finish, Advances, CourseInv

\* A command that goes on to a later stage, with the work of that stage.
LEMMA CourseGoes ==
    ASSUME run'.op = run.op, Comes(run.op, run.stage, run'.stage),
           WorkOf(run'.stage) # {} =>
              /\ run'.left \subseteq WorkOf(run'.stage)
              /\ run'.stage \notin {"resetTree", "state"} => run'.left # {},
           run'.stage = "state" => run.op \in {"install", "uninstall"},
           (run'.stage = "marker" /\ run.op # "restore") => run'.apply # {}
    PROVE  Advances /\ CourseInv'
  BY OnCourse DEF Advances, CourseInv

\* One file of a stage is written: the stage goes on, or it was the last one.
LEMMA CourseWrote ==
    ASSUME CourseInv, NEW p \in run.left, NEW s, NEW l,
           run.stage \notin {"idle", "rollback", "marker"}, run'.op = run.op,
           run'.stage = IF run.left = {p} THEN s ELSE run.stage,
           run'.left = IF run.left = {p} THEN l ELSE run.left \ {p},
           Comes(run.op, run.stage, s),
           s # "marker", s # "state",
           WorkOf(s) # {} => l \subseteq WorkOf(s) /\ l # {}
    PROVE  Advances /\ CourseInv'
  <1>1. CASE run.left = {p}
    BY <1>1, CourseGoes
  <1>2. CASE run.left # {p}
    <2>1. run'.stage = run.stage /\ run'.left = run.left \ {p} /\ run'.left # {}
      BY <1>2
    <2>2. Remaining(run') = run'.left /\ Remaining(run) = run.left
      BY <2>1 DEF Remaining
    <2>3. Advances
      BY <2>1, <2>2 DEF Advances
    <2>4. CourseInv'
      BY <2>1 DEF CourseInv
    <2> QED
      BY <2>3, <2>4
  <1> QED
    BY <1>1, <1>2

LEMMA CourseRaises ==
    ASSUME IsRun(run), Raise, run.stage \notin {"idle", "rollback"}
    PROVE  Advances /\ CourseInv'
  <1>1. CASE ~run.journal.writes
    BY <1>1, CourseEnds DEF Raise, Finish
  <1>2. CASE run.journal.writes
    <2>0. Goto("rollback", {})
      BY <1>2 DEF Raise, Goto
    <2>1. run'.stage = "rollback" /\ run'.op = run.op
      BY <2>0, GotoFields
    <2>2. Advances
      BY <2>1 DEF Advances
    <2>3. CourseInv'
      BY <2>1, WorkOfStages DEF CourseInv
    <2> QED
      BY <2>2, <2>3
  <1> QED
    BY <1>1, <1>2

LEMMA CourseStays ==
    ASSUME CourseInv, run'.op = run.op, run'.stage = run.stage, run'.left = run.left,
           run'.journal.todo = run.journal.todo, run'.apply = run.apply
    PROVE  Stays /\ CourseInv'
  BY DEF Stays, Remaining, CourseInv

LEMMA ResetCourse ==
    ASSUME TypeInv, CourseInv, Reset
    PROVE  Advances /\ CourseInv'
  <1>0. IsRun(run)
    BY DEF TypeInv, TypeOK
  <1>a. run.stage \in {"reset", "resetTree", "resetConfig"} => run.op = "install"
    BY <1>0, StageOps DEF CourseInv, IsRun
  <1>1. ASSUME BackupLegacyConfig PROVE Advances /\ CourseInv'
    <2>1. CASE ~ConfigPresent(disk)
      BY <1>1, <2>1, CourseEnds DEF BackupLegacyConfig
    <2>2. CASE ConfigPresent(disk)
      <3> DEFINE l == {t \in TreeFiles : disk[t] # Absent}
                 j == TrackTree(EmptyJournal, disk, TreeFiles)
                 i == Archive(disk, {}).id
      <3>0. run' = [run EXCEPT !.stage = "resetTree", !.left = l, !.journal = j,
                               !.archive = i, !.before = disk]
        BY <1>1, <2>2 DEF BackupLegacyConfig
      <3>a. l \subseteq TreeFiles
        OBVIOUS
      <3> HIDE DEF l, j, i
      <3>1. run'.op = run.op /\ run'.stage = "resetTree" /\ run'.left = l
        BY <1>0, <3>0 DEF IsRun
      <3>2. run.stage = "reset" /\ run.op = "install"
        BY <1>1, <1>a DEF BackupLegacyConfig
      <3> QED
        BY <3>a, <3>1, <3>2, InstallCourse, WorkOfStages, CourseGoes
    <2> QED
      BY <2>1, <2>2
  <1>2. ASSUME SkipLegacyTree PROVE Advances /\ CourseInv'
    <2>1. run.stage = "resetTree" /\ run.op = "install" /\ Goto("resetConfig", ConfigFiles)
      BY <1>2, <1>a DEF SkipLegacyTree
    <2> QED
      BY <1>0, <2>1, GotoFields, InstallCourse, WorkOfStages, SomethingIsManaged, CourseGoes
  <1>3. ASSUME NEW t \in TreeFiles, RemoveLegacyTree(t) PROVE Advances /\ CourseInv'
    <2>1. run.stage = "resetTree" /\ run.op = "install" /\ t \in run.left
          /\ Wrote(t, "resetConfig", ConfigFiles)
      BY <1>3 DEF RemoveLegacyTree, Writing
    <2>2. /\ run'.stage = IF run.left = {t} THEN "resetConfig" ELSE run.stage
          /\ run'.left = IF run.left = {t} THEN ConfigFiles ELSE run.left \ {t}
          /\ run'.op = run.op
      BY <1>0, <2>1, WroteFields
    <2>3. Comes("install", "resetTree", "resetConfig")
      BY InstallCourse
    <2>4. WorkOf("resetConfig") = ConfigFiles /\ ConfigFiles # {}
      BY WorkOfStages, SomethingIsManaged
    <2> QED
      BY <2>1, <2>2, <2>3, <2>4, CourseWrote
  <1>4. ASSUME NEW f \in ConfigFiles, WriteStockConfig(f) PROVE Advances /\ CourseInv'
    <2>0. run.stage = "resetConfig" /\ run.op = "install" /\ f \in run.left
      BY <1>4 DEF WriteStockConfig, Writing
    <2>1. CASE run.left = {f}
      <3>1. run'.op = "install" /\ run'.stage = "plan"
        BY <1>4, <2>1 DEF WriteStockConfig, IdleRun
      <3> QED
        BY <2>0, <3>1, InstallCourse, WorkOfStages, CourseGoes
    <2>2. CASE run.left # {f}
      <3> DEFINE k == TrackFiles(run.journal, disk, {f})
                 j == IF disk[f] = StockContent(f) THEN k ELSE NoteWrite(k)
      <3>1. run' = [run EXCEPT !.left = @ \ {f}, !.journal = j]
        BY <1>4, <2>2 DEF WriteStockConfig
      <3> HIDE DEF j
      <3>2. run'.op = run.op /\ run'.stage = run.stage /\ run'.left = run.left \ {f}
        BY <1>0, <3>1 DEF IsRun
      <3> QED
        <4>1. Comes("install", "resetConfig", "plan")
          BY InstallCourse
        <4>2. WorkOf("plan") = {}
          BY WorkOfStages
        <4> QED
          BY <2>0, <2>2, <3>2, <4>1, <4>2, CourseWrote
    <2> QED
      BY <2>1, <2>2
  <1> QED
    BY <1>1, <1>2, <1>3, <1>4 DEF Reset

LEMMA PrepareCourse ==
    ASSUME TypeInv, CourseInv, Prepare
    PROVE  Advances /\ CourseInv'
  <1>0. IsRun(run)
    BY DEF TypeInv, TypeOK
  <1>a. run.stage \in {"plan", "backup", "track"} => run.op \in {"install", "uninstall"}
    BY <1>0, StageOps DEF CourseInv, IsRun
  <1>1. ASSUME PlanInstall PROVE Advances /\ CourseInv'
    <2>1. run.op = "install" /\ run.stage = "plan" /\ run'.op = run.op /\ run'.stage = "backup"
      BY <1>0, <1>1 DEF PlanInstall, IsRun
    <2> QED
      BY <2>1, InstallCourse, WorkOfStages, CourseGoes
  <1>2. ASSUME PlanUninstall PROVE Advances /\ CourseInv'
    <2>1. run.op = "uninstall" /\ run.stage = "plan" /\ run'.op = run.op /\ run'.stage = "backup"
      BY <1>0, <1>2 DEF PlanUninstall, IsRun
    <2> QED
      BY <2>1, UninstallCourse, WorkOfStages, CourseGoes
  <1>3. ASSUME Refuse PROVE Advances /\ CourseInv'
    BY <1>3, CourseEnds DEF Refuse
  <1>4. ASSUME CreateBackup PROVE Advances /\ CourseInv'
    <2>1. run.stage = "backup" /\ run'.op = run.op /\ run'.stage = "track"
      BY <1>0, <1>4 DEF CreateBackup, IsRun
    <2> QED
      BY <1>a, <2>1, InstallCourse, UninstallCourse, WorkOfStages, CourseGoes
  <1>5. ASSUME Track PROVE Advances /\ CourseInv'
    <2> DEFINE apply == IF run.op = "install" THEN run.apply
                        ELSE {s \in run.retained : disk[s] # "stock"}
    <2>1. /\ run.stage = "track" /\ run'.op = run.op /\ run'.apply = apply
          /\ run'.stage = IF apply # {} THEN "marker"
                          ELSE IF run.op = "install" THEN "extras" ELSE "check"
          /\ run'.left = IF apply # {} THEN {RestartMarker}
                         ELSE IF run.op = "install" THEN Extras ELSE {}
      BY <1>0, <1>5 DEF Track, IsRun
    <2> HIDE DEF apply
    <2>2. CASE apply # {}
      BY <1>a, <2>1, <2>2, InstallCourse, UninstallCourse, WorkOfStages, CourseGoes
    <2>3. CASE apply = {}
      BY <1>a, <2>1, <2>3, InstallCourse, UninstallCourse, WorkOfStages, SomethingIsManaged,
         CourseGoes
    <2> QED
      BY <2>2, <2>3
  <1> QED
    BY <1>1, <1>2, <1>3, <1>4, <1>5 DEF Prepare

LEMMA RestoreCourses ==
    ASSUME TypeInv, CourseInv, Restore
    PROVE  Advances /\ CourseInv'
  <1>0. IsRun(run)
    BY DEF TypeInv, TypeOK
  <1>a. run.stage \in {"swapOut", "swapIn", "verify"} => run.op = "restore"
    BY <1>0, StageOps DEF CourseInv, IsRun
  <1>1. ASSUME SwapOut PROVE Advances /\ CourseInv'
    <2>1. run.stage = "swapOut" /\ Goto("swapIn", {})
      BY <1>1 DEF SwapOut
    <2> QED
      BY <1>0, <1>a, <2>1, GotoFields, RestoreCourse, WorkOfStages, CourseGoes
  <1>2. ASSUME SwapIn PROVE Advances /\ CourseInv'
    <2>1. run.stage = "swapIn" /\ Goto("verify", {})
      BY <1>2 DEF SwapIn
    <2> QED
      BY <1>0, <1>a, <2>1, GotoFields, RestoreCourse, WorkOfStages, CourseGoes
  <1>3. ASSUME VerifyRestore PROVE Advances /\ CourseInv'
    <2>1. run.stage = "verify" /\ (Goto("marker", {RestartMarker}) \/ Raise)
      BY <1>3 DEF VerifyRestore
    <2>2. CASE Raise
      BY <1>0, <2>1, <2>2, CourseRaises
    <2>3. CASE Goto("marker", {RestartMarker})
      BY <1>0, <1>a, <2>1, <2>3, GotoFields, RestoreCourse, WorkOfStages, CourseGoes
    <2> QED
      BY <2>1, <2>2, <2>3
  <1>4. ASSUME WriteRestoreMarker PROVE Advances /\ CourseInv'
    <2>1. run.op = "restore" /\ run.stage = "marker" /\ Goto("sources", Sources)
      BY <1>4 DEF WriteRestoreMarker, Writing
    <2> QED
      BY <1>0, <2>1, GotoFields, RestoreCourse, WorkOfStages, SomethingIsManaged, CourseGoes
  <1>5. ASSUME NEW s \in Sources, RestoreArchivedSource(s) PROVE Advances /\ CourseInv'
    <2>1. /\ run.op = "restore" /\ run.stage = "sources" /\ s \in run.left
          /\ Wrote(s, "activate", {})
      BY <1>5 DEF RestoreArchivedSource, Writing
    <2>2. /\ run'.stage = IF run.left = {s} THEN "activate" ELSE run.stage
          /\ run'.left = IF run.left = {s} THEN {} ELSE run.left \ {s}
          /\ run'.op = run.op
      BY <1>0, <2>1, WroteFields
    <2>3. Comes("restore", "sources", "activate")
      BY RestoreCourse
    <2>4. WorkOf("activate") = {}
      BY WorkOfStages
    <2> QED
      BY <2>1, <2>2, <2>3, <2>4, CourseWrote
  <1> QED
    BY <1>1, <1>2, <1>3, <1>4, <1>5 DEF Restore

LEMMA ActivationCourse ==
    ASSUME TypeInv, CourseInv, Activation
    PROVE  Advances /\ CourseInv'
  <1>0. IsRun(run)
    BY DEF TypeInv, TypeOK
  <1>a. run.stage \in {"activate", "pending"} => run.op \in {"install", "uninstall", "restore"}
    BY <1>0, StageOps DEF CourseInv, IsRun
  <1>1. ASSUME Activate PROVE Advances /\ CourseInv'
    <2>1. CASE Finish
      BY <2>1, CourseEnds
    <2>2. CASE run' = [run EXCEPT !.stage = "pending", !.pid = klipper.pid]
      <3>1. run.stage = "activate" /\ run'.op = run.op /\ run'.stage = "pending"
        BY <1>0, <1>1, <2>2 DEF Activate, IsRun
      <3> QED
        BY <1>a, <3>1, InstallCourse, UninstallCourse, RestoreCourse, WorkOfStages, CourseGoes
    <2> QED
      BY <1>1, <2>1, <2>2 DEF Activate
  <1>2. ASSUME RestartPending PROVE Advances /\ CourseInv'
    <2>1. run.stage = "pending" /\ (Finish \/ Goto("restarting", {}))
      BY <1>2 DEF RestartPending
    <2>2. CASE Goto("restarting", {})
      BY <1>0, <1>a, <2>1, <2>2, GotoFields, InstallCourse, UninstallCourse, RestoreCourse,
         WorkOfStages, CourseGoes
    <2> QED
      BY <2>1, <2>2, CourseEnds
  <1>3. ASSUME AwaitKlipper PROVE Advances /\ CourseInv'
    BY <1>3, CourseEnds DEF AwaitKlipper
  <1> QED
    BY <1>1, <1>2, <1>3 DEF Activation

LEMMA WriteCourse ==
    ASSUME TypeInv, CourseInv, Write
    PROVE  Advances /\ CourseInv'
  <1>0. IsRun(run)
    BY DEF TypeInv, TypeOK
  <1>a. /\ run.stage \in {"extras", "tree", "check", "config", "postflight", "state"}
             => run.op \in {"install", "uninstall"}
        /\ run.stage = "optimize" => run.op = "install"
    BY <1>0, StageOps DEF CourseInv, IsRun
  <1>b. ASSUME run.op \in {"install", "uninstall"}, run.stage \in {"check", "config"}
        PROVE  /\ Comes(run.op, run.stage, AfterConfig)
               /\ AfterConfig # "marker" /\ AfterConfig # "state"
               /\ WorkOf(AfterConfig) # {} =>
                    LeftAfterConfig \subseteq WorkOf(AfterConfig) /\ LeftAfterConfig # {}
    BY <1>b, InstallCourse, UninstallCourse, WorkOfStages, SomethingIsManaged
       DEF AfterConfig, LeftAfterConfig
  <1>1. ASSUME WriteMarker PROVE Advances /\ CourseInv'
    <2> DEFINE j == NoteWrite(TrackFiles(run.journal, disk, {RestartMarker}))
    <2>1. /\ run.op \in {"install", "uninstall"} /\ run.stage = "marker"
          /\ run' = [run EXCEPT !.journal = j, !.stage = "sources", !.left = run.apply]
      BY <1>1 DEF WriteMarker, Writing
    <2> HIDE DEF j
    <2>2. run'.op = run.op /\ run'.stage = "sources" /\ run'.left = run.apply
      BY <1>0, <2>1 DEF IsRun
    <2>3. run.apply # {} /\ run.apply \subseteq Sources
      BY <1>0, <2>1 DEF CourseInv, IsRun
    <2> QED
      BY <2>1, <2>2, <2>3, InstallCourse, UninstallCourse, WorkOfStages, CourseGoes
  <1>2. ASSUME NEW s \in Sources, DeploySource(s) PROVE Advances /\ CourseInv'
    <2>1. /\ run.op = "install" /\ run.stage = "sources" /\ s \in run.left
          /\ Wrote(s, "extras", Extras)
      BY <1>2 DEF DeploySource, Writing
    <2>2. /\ run'.stage = IF run.left = {s} THEN "extras" ELSE run.stage
          /\ run'.left = IF run.left = {s} THEN Extras ELSE run.left \ {s}
          /\ run'.op = run.op
      BY <1>0, <2>1, WroteFields
    <2>3. Comes("install", "sources", "extras")
      BY InstallCourse
    <2>4. WorkOf("extras") = Extras /\ Extras # {}
      BY WorkOfStages, SomethingIsManaged
    <2> QED
      BY <2>1, <2>2, <2>3, <2>4, CourseWrote
  <1>3. ASSUME NEW s \in Sources, RestoreSource(s) PROVE Advances /\ CourseInv'
    <2>1. /\ run.op = "uninstall" /\ run.stage = "sources" /\ s \in run.left
          /\ Raise \/ Wrote(s, "check", {})
      BY <1>3 DEF RestoreSource, Writing
    <2>2. CASE Raise
      BY <1>0, <2>1, <2>2, CourseRaises
    <2>3. CASE Wrote(s, "check", {})
      <3>1. /\ run'.stage = IF run.left = {s} THEN "check" ELSE run.stage
            /\ run'.left = IF run.left = {s} THEN {} ELSE run.left \ {s}
            /\ run'.op = run.op
        BY <1>0, <2>3, WroteFields
      <3>2. Comes("uninstall", "sources", "check")
        BY UninstallCourse
      <3>3. WorkOf("check") = {}
        BY WorkOfStages
      <3> QED
        BY <2>1, <3>1, <3>2, <3>3, CourseWrote
    <2> QED
      BY <2>1, <2>2, <2>3
  <1>4. ASSUME NEW x \in Extras, InstallExtra(x) PROVE Advances /\ CourseInv'
    <2> DEFINE j == IF disk[x] = "packaged" THEN run.journal
                    ELSE NoteWrite(TrackFiles(run.journal, disk, {x}))
               left == IF run.left = {x} THEN TreeFiles ELSE run.left \ {x}
               stage == IF run.left = {x} THEN "tree" ELSE run.stage
    <2>1. run.op = "install" /\ run.stage = "extras" /\ x \in run.left
      BY <1>4 DEF InstallExtra, Writing
    <2>2. run' = [run EXCEPT !.journal = j, !.left = left, !.stage = stage]
      BY <1>0, <1>4 DEF InstallExtra, IsRun
    <2> HIDE DEF j, left, stage
    <2>3. run'.op = run.op /\ run'.stage = stage /\ run'.left = left
      BY <1>0, <2>2 DEF IsRun
    <2>4. Comes("install", "extras", "tree")
      BY InstallCourse
    <2>5. WorkOf("tree") = TreeFiles /\ TreeFiles # {}
      BY WorkOfStages, SomethingIsManaged
    <2> QED
      BY <2>1, <2>3, <2>4, <2>5, CourseWrote DEF stage, left
  <1>5. ASSUME NEW x \in Extras, RemoveExtra(x) PROVE Advances /\ CourseInv'
    <2> DEFINE j == IF disk[x] = "packaged" THEN NoteWrite(run.journal) ELSE run.journal
               left == IF run.left = {x} THEN TreeFiles ELSE run.left \ {x}
               stage == IF run.left = {x} THEN "tree" ELSE run.stage
    <2>1. run.op = "uninstall" /\ run.stage = "extras" /\ x \in run.left
      BY <1>5 DEF RemoveExtra, Writing
    <2>2. run' = [run EXCEPT !.journal = j, !.left = left, !.stage = stage]
      BY <1>0, <1>5 DEF RemoveExtra, IsRun
    <2> HIDE DEF j, left, stage
    <2>3. run'.op = run.op /\ run'.stage = stage /\ run'.left = left
      BY <1>0, <2>2 DEF IsRun
    <2>4. Comes("uninstall", "extras", "tree")
      BY UninstallCourse
    <2>5. WorkOf("tree") = TreeFiles /\ TreeFiles # {}
      BY WorkOfStages, SomethingIsManaged
    <2> QED
      BY <2>1, <2>3, <2>4, <2>5, CourseWrote DEF stage, left
  <1>6. ASSUME NEW t \in TreeFiles, MirrorFile(t) PROVE Advances /\ CourseInv'
    <2>1. run.op = "install" /\ run.stage = "tree" /\ t \in run.left
      BY <1>6 DEF MirrorFile, Writing
    <2>3. /\ run'.stage = IF run.left = {t} THEN "check" ELSE run.stage
          /\ run'.left = IF run.left = {t} THEN {} ELSE run.left \ {t}
          /\ run'.op = run.op
      <3>1. CASE Goto(IF run.left = {t} THEN "check" ELSE "tree", run.left \ {t})
        BY <1>0, <2>1, <3>1, GotoFields
      <3>2. CASE Wrote(t, "check", {})
        BY <1>0, <3>2, WroteFields
      <3> QED
        BY <1>6, <3>1, <3>2 DEF MirrorFile
    <2>4. Comes("install", "tree", "check")
      BY InstallCourse
    <2>5. WorkOf("check") = {}
      BY WorkOfStages
    <2> QED
      BY <2>1, <2>3, <2>4, <2>5, CourseWrote
  <1>7. ASSUME NEW t \in TreeFiles, RemoveTreeFile(t) PROVE Advances /\ CourseInv'
    <2>1. /\ run.op = "uninstall" /\ run.stage = "tree" /\ t \in run.left
          /\ Wrote(t, "postflight", {})
      BY <1>7 DEF RemoveTreeFile, Writing
    <2>2. /\ run'.stage = IF run.left = {t} THEN "postflight" ELSE run.stage
          /\ run'.left = IF run.left = {t} THEN {} ELSE run.left \ {t}
          /\ run'.op = run.op
      BY <1>0, <2>1, WroteFields
    <2>3. Comes("uninstall", "tree", "postflight")
      BY UninstallCourse
    <2>4. WorkOf("postflight") = {}
      BY WorkOfStages, SomethingIsManaged
    <2> QED
      BY <2>1, <2>2, <2>3, <2>4, CourseWrote
  <1>8. ASSUME CheckPreimages PROVE Advances /\ CourseInv'
    <2>1. /\ run.stage = "check" /\ run.op \in {"install", "uninstall"}
          /\ \/ Raise
             \/ Goto(AfterConfig, LeftAfterConfig)
             \/ Changed # {} /\ Goto("config", Changed)
      BY <1>a, <1>8 DEF CheckPreimages
    <2>2. CASE Raise
      BY <1>0, <2>1, <2>2, CourseRaises
    <2>3. CASE Goto(AfterConfig, LeftAfterConfig)
      <3>1. run'.op = run.op /\ run'.stage = AfterConfig /\ run'.left = LeftAfterConfig
        BY <1>0, <2>3, GotoFields
      <3> QED
        BY <1>b, <2>1, <3>1, CourseGoes
    <2>4. CASE Changed # {} /\ Goto("config", Changed)
      <3>1. run'.op = run.op /\ run'.stage = "config" /\ run'.left = Changed
        BY <1>0, <2>4, GotoFields
      <3>2. Changed \subseteq ConfigFiles /\ WorkOf("config") = ConfigFiles
        BY WorkOfStages DEF Changed
      <3>3. Comes(run.op, "check", "config")
        BY <2>1, InstallCourse, UninstallCourse
      <3> QED
        BY <2>1, <2>4, <3>1, <3>2, <3>3, CourseGoes
    <2> QED
      BY <2>1, <2>2, <2>3, <2>4
  <1>9. ASSUME NEW f \in ConfigFiles, WriteConfig(f) PROVE Advances /\ CourseInv'
    <2>1. /\ run.op \in {"install", "uninstall"} /\ run.stage = "config" /\ f \in run.left
          /\ Wrote(f, AfterConfig, LeftAfterConfig)
      BY <1>a, <1>9 DEF WriteConfig
    <2>2. /\ run'.stage = IF run.left = {f} THEN AfterConfig ELSE run.stage
          /\ run'.left = IF run.left = {f} THEN LeftAfterConfig ELSE run.left \ {f}
          /\ run'.op = run.op
      BY <1>0, <2>1, WroteFields
    <2> QED
      BY <1>b, <2>1, <2>2, CourseWrote
  <1>10. ASSUME Postflight PROVE Advances /\ CourseInv'
    <2>1. /\ run.stage = "postflight" /\ run.op \in {"install", "uninstall"}
          /\ Raise \/ Goto("state", {StateFile})
      BY <1>a, <1>10 DEF Postflight
    <2>2. CASE Raise
      BY <1>0, <2>1, <2>2, CourseRaises
    <2>3. CASE Goto("state", {StateFile})
      BY <1>0, <2>1, <2>3, GotoFields, InstallCourse, UninstallCourse, WorkOfStages, CourseGoes
    <2> QED
      BY <2>1, <2>2, <2>3
  <1>11. ASSUME WriteState \/ DeleteState PROVE Advances /\ CourseInv'
    <2>0. run.stage = "state" /\ StateFile \in run.left /\ Wrote(StateFile, "state", {})
      BY <1>11 DEF WriteState, DeleteState, Writing
    <2>1. /\ run.stage = "state" /\ StateFile \in run.left
          /\ run'.stage = "state" /\ run'.left = {} /\ run'.op = run.op
      <3>1. run.left = {StateFile}
        BY <2>0, WorkOfStages DEF CourseInv
      <3> QED
        BY <1>0, <2>0, <3>1, WroteFields
    <2>2. Advances
      BY <2>1 DEF Advances, Remaining
    <2>3. CourseInv'
      BY <2>1, WorkOfStages DEF CourseInv
    <2> QED
      BY <2>2, <2>3
  <1>12. ASSUME Commit PROVE Advances /\ CourseInv'
    <2>1. CASE run.op = "install"
      <3>1. run.stage = "state" /\ Goto("optimize", {})
        BY <1>12, <2>1 DEF Commit
      <3> QED
        BY <1>0, <2>1, <3>1, GotoFields, InstallCourse, WorkOfStages, CourseGoes
    <2>2. CASE run.op # "install"
      <3>1. run.op = "uninstall" /\ run.stage = "state" /\ Goto("activate", {})
        BY <1>12, <2>2 DEF Commit
      <3> QED
        BY <1>0, <3>1, GotoFields, UninstallCourse, WorkOfStages, CourseGoes
    <2> QED
      BY <2>1, <2>2
  <1>13. ASSUME Optimize PROVE Advances /\ CourseInv'
    <2>1. run.op = "install" /\ run.stage = "optimize" /\ Goto("activate", {})
      BY <1>a, <1>13 DEF Optimize
    <2> QED
      BY <1>0, <2>1, GotoFields, InstallCourse, WorkOfStages, CourseGoes
  <1> QED
    BY <1>1, <1>2, <1>3, <1>4, <1>5, <1>6, <1>7, <1>8, <1>9, <1>10, <1>11, <1>12, <1>13 DEF Write

LEMMA RollbackCourse ==
    ASSUME TypeInv, CourseInv, Rollback
    PROVE  Advances /\ CourseInv'
  <1>0. IsRun(run)
    BY DEF TypeInv, TypeOK
  <1>1. ASSUME RollbackDone PROVE Advances /\ CourseInv'
    BY <1>1, CourseEnds DEF RollbackDone
  <1>2. ASSUME NEW p \in Paths, RollbackStep(p) PROVE Advances /\ CourseInv'
    <2>1. run.stage = "rollback" /\ p \in run.journal.todo
      BY <1>2 DEF RollbackStep, NextToRestore
    <2>2. p \in Tracked(run.journal)
      BY <1>0, <2>1 DEF IsRun, IsJournal
    <2>3. Restored(run.journal, p).todo = run.journal.todo \ {p}
      BY <1>0, <2>2, JournalSteps DEF IsRun
    <2> DEFINE j == Restored(run.journal, p)
    <2>4. run' = [run EXCEPT !.journal = j]
      BY <1>2 DEF RollbackStep
    <2> HIDE DEF j
    <2>5. run'.op = run.op /\ run'.stage = run.stage /\ run'.journal = j
      BY <1>0, <2>4 DEF IsRun
    <2>6. Remaining(run') = run.journal.todo \ {p} /\ Remaining(run) = run.journal.todo
      BY <2>1, <2>3, <2>5 DEF Remaining, j
    <2>7. Advances
      BY <2>1, <2>5, <2>6 DEF Advances
    <2>8. CourseInv'
      BY <2>1, <2>5, WorkOfStages DEF CourseInv
    <2> QED
      BY <2>7, <2>8
  <1> QED
    BY <1>1, <1>2 DEF Rollback

LEMMA ProceedCourse ==
    ASSUME TypeInv, CourseInv, Proceed
    PROVE  Advances /\ CourseInv'
  BY ResetCourse, PrepareCourse, WriteCourse, RestoreCourses, ActivationCourse, RollbackCourse
     DEF Proceed

\* A command starts with the first stage of its course.
LEMMA CommandCourse ==
    ASSUME CourseInv, Commands
    PROVE  /\ CourseInv'
           /\ run.stage # "idle" => Stays
  <1>1. ASSUME NEW op, NEW stage, Start(op, stage),
               <<op, stage>> \in {<<"install", "reset">>, <<"install", "plan">>,
                                 <<"uninstall", "plan">>}
        PROVE  CourseInv' /\ run.stage = "idle"
    <2>1. run'.op = op /\ run'.stage = stage /\ run.stage = "idle"
      BY <1>1 DEF Start, IdleRun
    <2>2. WorkOf(stage) = {} /\ stage \notin {"marker", "state"}
      BY <1>1, WorkOfStages
    <2>3. stage \in StagesOf(op)
      <3>1. "reset" \in StagesOf("install")
        <4>1. 1 \in DOMAIN Course("install") /\ Course("install")[1] = "reset"
          BY Courses
        <4> QED
          BY <4>1 DEF StagesOf
      <3>2. "plan" \in StagesOf("install")
        BY InstallCourse, OnCourse
      <3>3. "plan" \in StagesOf("uninstall")
        <4>1. 1 \in DOMAIN Course("uninstall") /\ Course("uninstall")[1] = "plan"
          BY Courses
        <4> QED
          BY <4>1 DEF StagesOf
      <3> QED
        BY <1>1, <3>1, <3>2, <3>3
    <2> QED
      BY <2>1, <2>2, <2>3 DEF CourseInv
  <1>2. ASSUME NEW id, StartRestore(id) PROVE CourseInv' /\ run.stage = "idle"
    <2>1. run'.op = "restore" /\ run'.stage = "swapOut" /\ run.stage = "idle"
      BY <1>2 DEF StartRestore, IdleRun
    <2>2. "swapOut" \in StagesOf("restore")
      <3>1. 1 \in DOMAIN Course("restore") /\ Course("restore")[1] = "swapOut"
        BY Courses
      <3> QED
        BY <3>1 DEF StagesOf
    <2> QED
      BY <2>1, <2>2, WorkOfStages DEF CourseInv
  <1>3. ASSUME ClearSentinel PROVE CourseInv' /\ run.stage = "idle"
    BY <1>3 DEF ClearSentinel, CourseInv
  <1>4. ASSUME StartInstall PROVE CourseInv' /\ run.stage = "idle"
    <2>1. Start("install", "reset") \/ Start("install", "plan")
      BY <1>4 DEF StartInstall
    <2> QED
      BY <1>1, <2>1
  <1>5. ASSUME StartUninstall PROVE CourseInv' /\ run.stage = "idle"
    BY <1>1, <1>5 DEF StartUninstall
  <1> QED
    BY <1>2, <1>3, <1>4, <1>5 DEF Commands

LEMMA FaultCourse ==
    ASSUME TypeInv, CourseInv, Faults
    PROVE  Advances /\ CourseInv'
  <1>1. ASSUME Fail PROVE Advances /\ CourseInv'
    <2>1. IsRun(run) /\ run.stage \notin {"idle", "rollback"} /\ (Finish \/ Raise)
      BY <1>1 DEF Fail, TypeInv, TypeOK
    <2> QED
      BY <2>1, CourseEnds, CourseRaises
  <1>2. ASSUME RollbackFails \/ InterruptReset \/ Crash PROVE Advances /\ CourseInv'
    BY <1>2, CourseEnds DEF RollbackFails, InterruptReset, Crash
  <1> QED
    BY <1>1, <1>2 DEF Faults

LEMMA EnvironmentCourse ==
    ASSUME TypeInv, CourseInv, Environment
    PROVE  Stays /\ CourseInv'
  <1>0. IsRun(run)
    BY DEF TypeInv, TypeOK
  <1>1. ASSUME NEW paths, NEW items, Edit(paths, items) PROVE Stays /\ CourseInv'
    <2> DEFINE edited == IF run.before = NoFiles THEN run.edited ELSE run.edited \cup paths
    <2>1. run' = [run EXCEPT !.edited = edited]
      BY <1>0, <1>1 DEF Edit, IsRun
    <2> HIDE DEF edited
    <2>2. /\ run'.op = run.op /\ run'.stage = run.stage /\ run'.left = run.left
          /\ run'.journal = run.journal /\ run'.apply = run.apply
      BY <1>0, <2>1 DEF IsRun
    <2> QED
      BY <2>2, CourseStays
  <1>2. ASSUME run' = run PROVE Stays /\ CourseInv'
    BY <1>2, CourseStays
  <1> QED
    BY <1>1, <1>2 DEF Environment, EditConfig, EditOwned, KlipperRestart, StartPrint, EndPrint

LEMMA InitCourse == Init => CourseInv
  BY IdleRunFields, WorkOfStages DEF Init, CourseInv

\* CourseInv is inductive, and a step of the specification never takes a
\* command back.
LEMMA StepCourse ==
    ASSUME TypeInv, CourseInv, [Next]_vars
    PROVE  /\ CourseInv'
           /\ ~UNCHANGED vars => /\ Proceed => Advances
                                 /\ run.stage # "idle" => Advances \/ Stays
  <1>1. CASE UNCHANGED vars
    BY <1>1, CourseStays DEF vars
  <1>2. CASE Commands
    BY <1>2, CommandCourse, ProceedCourse
  <1>3. CASE Proceed
    BY <1>3, ProceedCourse
  <1>4. CASE Faults
    BY <1>4, FaultCourse
  <1>5. CASE Environment
    BY <1>5, EnvironmentCourse, ProceedCourse
  <1> QED
    BY <1>1, <1>2, <1>3, <1>4, <1>5 DEF Next

\* Each step of a command brings it nearer to its end, and no failure, edit or
\* restart of Klipper takes it back: a stage is never entered twice, and a stage
\* or a rollback goes through its files once.
THEOREM CommandsOnlyAdvance == Spec => OnlyForward
  <1>1. (TypeInv /\ CourseInv) /\ [Next]_vars
          => (TypeInv /\ CourseInv)'
    BY StepTypes, StepCourse
  <1>2. (TypeInv /\ CourseInv) /\ [Next]_vars
          => [/\ Proceed => Advances
              /\ run.stage # "idle" => Advances \/ Stays]_vars
    BY StepCourse
  <1>3. Init => TypeInv /\ CourseInv
    BY InitTypes, InitCourse
  <1> QED
    BY <1>1, <1>2, <1>3, PTL DEF Spec, OnlyForward

\* A set of paths with ranks has one of the highest rank.
LEMMA HighestRank ==
    ASSUME NEW n \in Nat, NEW S, S # {}, NEW rank, \A q \in S : rank[q] \in 1..n
    PROVE  \E p \in S : \A q \in S : rank[q] <= rank[p]
  <1> DEFINE T == {n - rank[q] : q \in S}
             R == {c \in Nat \X Nat : c[1] < c[2]}
  <1>0. \A q \in S : n - rank[q] \in Nat
    OBVIOUS
  <1>1. T \subseteq Nat /\ T # {}
    BY <1>0
  <1>2. IsWellFoundedOn(R, Nat)
    BY NatLessThanWellFounded DEF OpToRel
  <1>3. PICK x \in T : \A y \in T : ~ (<<y, x>> \in R)
    <2> HIDE DEF T, R
    <2> QED
      BY <1>1, <1>2, WFMin
  <1>4. PICK p \in S : x = n - rank[p]
    OBVIOUS
  <1>5. ASSUME NEW q \in S PROVE rank[q] <= rank[p]
    <2>1. n - rank[q] \in T /\ n - rank[q] \in Nat /\ n - rank[p] \in Nat
      BY <1>0
    <2>2. ~ (<<n - rank[q], n - rank[p]>> \in R)
      BY <1>3, <1>4, <2>1
    <2>3. ~ (n - rank[q] < n - rank[p])
      BY <2>1, <2>2
    <2> QED
      BY <2>3
  <1> QED
    BY <1>5

\* A rollback that is not done has a path it may restore next.
LEMMA SomethingToRestore ==
    ASSUME NEW j, IsJournal(j), j.todo # {}
    PROVE  NextToRestore(j) # {}
  <1>1. CASE j.todo \cap j.trees # {}
    BY <1>1 DEF NextToRestore
  <1>2. CASE j.todo \cap j.trees = {}
    <2>1. j.ranks \in Nat /\ \A q \in j.todo : j.rank[q] \in 1..j.ranks
      BY DEF IsJournal
    <2>2. PICK p \in j.todo : \A q \in j.todo : j.rank[q] <= j.rank[p]
      BY <2>1, HighestRank
    <2> QED
      BY <1>2, <2>2 DEF NextToRestore
  <1> QED
    BY <1>1, <1>2

\* What a command does next, in each of its stages.
LEMMA CourseNeverStuck ==
    ASSUME TypeInv, CourseInv
    PROVE  NeverStuck
  <1> SUFFICES ASSUME run.stage # "idle" PROVE Steppable
    BY DEF NeverStuck
  <1>0. IsRun(run)
    BY DEF TypeInv, TypeOK
  <1>1. CASE run.stage = "rollback"
    <2>1. run.journal.todo = {} \/ NextToRestore(run.journal) # {}
      BY <1>0, SomethingToRestore DEF IsRun
    <2> QED
      BY <1>1, <2>1 DEF Steppable
  <1>2. CASE run.stage \in StagesOf(run.op)
    <2>0. /\ run.op \in {"install", "uninstall", "restore"}
          /\ run.stage \in {"resetTree", "resetConfig"} => run.op = "install"
          /\ run.stage \in {"plan", "extras", "tree", "config", "state"} =>
               run.op \in {"install", "uninstall"}
      BY <1>0, <1>2, StageOps DEF IsRun
    <2>1. CASE WorkOf(run.stage) = {}
      <3>1. run.stage \notin {"resetTree", "tree", "resetConfig", "config", "marker", "sources",
                              "extras", "state"}
        BY <2>1, WorkOfStages, SomethingIsManaged
      <3> QED
        BY <1>0, <1>2, <2>0, <3>1, StageOps DEF Steppable, IsRun, Stages
    <2>2. CASE WorkOf(run.stage) # {}
      <3>1. CASE run.left = {}
        BY <2>2, <3>1 DEF CourseInv, Steppable
      <3>2. CASE run.left # {}
        <4>1. PICK p \in run.left : p \in WorkOf(run.stage)
          BY <2>2, <3>2 DEF CourseInv
        <4>2. p \in Paths
          BY <1>0, <4>1 DEF IsRun
        <4>3. run.stage \in {"resetTree", "tree", "resetConfig", "config", "marker", "sources",
                             "extras", "state"}
          BY <1>0, <2>2, WorkOfStages DEF IsRun, Stages
        <4> QED
          BY <2>0, <4>1, <4>2, <4>3, WorkOfStages DEF Steppable, Writing
      <3> QED
        BY <3>1, <3>2
    <2> QED
      BY <2>1, <2>2
  <1> QED
    BY <1>1, <1>2 DEF CourseInv

\* A command under way has a next step in every state: none waits for a
\* user, a print or Klipper, and no rollback is left without a path to restore.
THEOREM CommandsNeverStuck == Spec => []NeverStuck
  <1>1. (TypeInv /\ CourseInv) /\ [Next]_vars
          => (TypeInv /\ CourseInv)'
    BY StepTypes, StepCourse
  <1>2. Init => TypeInv /\ CourseInv
    BY InitTypes, InitCourse
  <1>3. TypeInv /\ CourseInv => NeverStuck
    BY CourseNeverStuck
  <1> QED
    BY <1>1, <1>2, <1>3, PTL DEF Spec

=============================================================================
