------------------------ MODULE LifecycleProperties ------------------------
(***************************************************************************)
(* What InstallLifecycle must satisfy, and what the repository's documents  *)
(* say of it that it does not.                                              *)
(***************************************************************************)
EXTENDS InstallLifecycle

IsJournal(j) ==
    /\ j \in [trees : SUBSET Paths, snap : {j.snap}, rank : {j.rank}, ranks : Nat,
              todo : SUBSET Paths, writes : BOOLEAN]
    /\ IsFiles(j.snap)
    /\ j.trees \subseteq Tracked(j) /\ j.todo \subseteq Tracked(j)
    /\ j.rank \in [Tracked(j) -> 1..j.ranks]

IsArchive(a) ==
    /\ a \in [id : Nat \ {0}, config : {a.config}, sources : {a.sources}]
    /\ IsFiles(a.config) /\ DOMAIN a.config \subseteq ConfigTree
    /\ IsFiles(a.sources) /\ DOMAIN a.sources \subseteq Sources
    /\ \A p \in DOMAIN a.config : a.config[p] # Absent

IsRun(r) ==
    /\ r \in [op : Ops, stage : Stages, left : SUBSET Paths, journal : {r.journal},
              pre : {r.pre}, post : {r.post}, kept : SUBSET Items, apply : SUBSET Sources,
              retained : SUBSET Sources, archive : Nat, pid : Nat, halted : BOOLEAN,
              edited : SUBSET Paths, before : {r.before}]
    /\ IsJournal(r.journal)
    /\ IsFiles(r.pre) /\ IsFiles(r.post)
    /\ r.before = NoFiles \/ WellFormed(r.before)

IsKlipper(k) ==
    k \in [pid : Nat, up : BOOLEAN, printing : BOOLEAN, loaded : [Sources -> SourceContents]]

IsHist(h) ==
    h \in [runs : Nat, faults : Nat, crashes : Nat, archives : Nat, edits : Nat,
           restarts : Nat, prints : Nat, touched : SUBSET (Items \cup Paths),
           incidents : SUBSET Incidents]

\* Types: every file holds a content of its kind, and so do the preimages of
\* the journal, the planned files and the archives.
TypeOK ==
    /\ WellFormed(disk)
    /\ \A a \in backups : IsArchive(a)
    /\ sentinel \in Nat
    /\ IsKlipper(klipper)
    /\ IsRun(run)
    /\ IsHist(hist)

-----------------------------------------------------------------------------
RestoreStages ==
    {"swapOut", "swapIn", "verify", "marker", "sources", "activate", "pending",
     "restarting", "rollback"}

Planned == {"backup", "track", "marker", "sources", "extras", "tree", "check", "config"}

\* What the stages of a command rely on: a restore's archive stays usable, an
\* uninstall has a ledger to read, the planned files cover every one of the
\* vendor configuration.
StagesOK ==
    /\ run.op = "restore" =>
         /\ run.stage \in RestoreStages
         /\ \E a \in backups : a.id = run.archive
         /\ Restorable(ArchiveOf(run.archive))
    /\ run.stage \in {"swapOut", "swapIn", "verify"} => run.op = "restore"
    /\ (run.op = "uninstall" /\ run.stage = "plan") => disk[StateFile] # Absent
    /\ (run.op # "restore" /\ run.stage \in Planned) => DOMAIN run.post = ConfigFiles

TypeInv == TypeOK /\ StagesOK

\* The package as PackageTransaction sees it: what the files amount to.
VersionOf(d) ==
    IF /\ d[StateFile] # Absent
       /\ \A t \in TreeFiles : d[t] = "packaged"
       /\ \A s \in Sources : d[s] = "patched"
       /\ ConfigPresent(d) /\ \A i \in Items : ItemValue(d, i) = "desired"
    THEN "installed"
    ELSE IF /\ \A t \in TreeFiles \cup {StateFile} : d[t] = Absent
            /\ \A s \in Sources : d[s] = "stock"
            /\ ConfigPresent(d) /\ \A i \in Items : ItemValue(d, i) = "expected"
    THEN "stock" ELSE "mixed"

\* Between commands, when nobody killed one and no recovery is due, the ledger
\* tells the truth about the printer: with it, the tree is there, the sources
\* are patched and every managed item is the package's; without it, none of
\* them is.  No vendor file of the configuration is missing (a restore swaps
\* them out).  Items and sources somebody else changed are theirs.
WholePackage ==
    (run.stage = "idle" /\ sentinel = 0 /\ hist.incidents \subseteq {"restart", "overwritten"}) =>
        LET installed == disk[StateFile] # Absent
        IN  /\ \A t \in TreeFiles : (disk[t] # Absent) = installed
            /\ \A s \in Sources \ hist.touched :
                  disk[s] = IF installed THEN "patched" ELSE "stock"
            /\ ConfigPresent(disk)
            /\ \A i \in Items \ hist.touched :
                  ItemValue(disk, i) = IF installed THEN "desired" ELSE "expected"

\* Files a rollback does not account for: the ones others edited meanwhile and
\* the extra modules an uninstall deletes.
Exempt == run.edited \cup (IF run.op = "uninstall" THEN Extras ELSE {})

\* A rollback that reports no failure has put back every file the command
\* found, whatever it had written, except what others edited meanwhile and the
\* extra modules an uninstall deletes.
RollbackRestores ==
    [][(run.stage = "rollback" /\ run'.stage = "idle" /\ hist' = hist) =>
          \A p \in Paths \ Exempt : disk[p] = run.before[p]]_vars

ResetStages == {"reset", "resetTree", "resetConfig"}

\* No step of an install or uninstall, its rollback included, replaces a value
\* the user chose, even one chosen after the plan was made and before the
\* journal was filled.
UserValuesKept ==
    [][(run.op \in {"install", "uninstall"} /\ run.stage \notin ResetStages
        /\ hist'.edits = hist.edits) =>
          \A i \in Options \cup Sections :
             (/\ FileOf[i] \notin run.edited
              /\ disk[FileOf[i]] # Absent
              /\ ItemValue(disk, i) = "user") => ItemValue(disk', i) = "user"]_vars

\* A source replaced on disk is either loaded by the running Klipper or a
\* marker says that a restart is due.
Activated ==
    (run.stage = "idle" /\ sentinel = 0 /\ disk[RestartMarker] = Absent) =>
        \A s \in Sources \ hist.touched : klipper.loaded[s] = disk[s]

\* ... unless the installer was killed inside a rollback, Klipper restarted by
\* itself while a command was half done, or a restore whose rollback failed too
\* overwrote the sentinel of an earlier command.
ActivationNeverLost ==
    hist.incidents \cap {"rollback", "restart", "overwritten"} = {} => Activated

\* While recovery is due, the archive the sentinel records is still kept, and
\* a restore from it is possible: it is complete and its sources are known.
\* (The archive of a legacy reset is not: see SentinelClearable.  A hand-added
\* include line is taken for a legacy installation.)
SentinelRecovers ==
    (sentinel # 0 /\ IncludeLine \notin hist.touched) =>
        /\ sentinel \in Archives
        /\ DOMAIN ArchiveOf(sentinel).sources = Sources
        /\ \A s \in Sources \ hist.touched : ArchiveOf(sentinel).sources[s] # "other"

\* At every moment of an install or uninstall, each configuration file and
\* source that differs from what the command found is in the command's archive
\* as it was found: killed here, the printer can be brought back.
WritesAreArchived ==
    (run.op \in {"install", "uninstall"} /\ run.before # NoFiles) =>
        \A p \in (ConfigTree \cup Sources) \ (run.edited \cup hist.touched) :
           disk[p] # run.before[p] =>
              /\ run.archive \in Archives
              /\ LET archive == ArchiveOf(run.archive)
                 IN  IF p \in Sources
                     THEN p \in DOMAIN archive.sources /\ run.before[p] = archive.sources[p]
                     ELSE run.before[p] = Archived(archive, p)

\* An install that ends well leaves a configuration that Klipper can load and,
\* if nobody edited a file, the whole package, whatever an earlier command that
\* was killed had left half done.
InstallRepairs ==
    [][(run.op = "install" /\ run.stage = "state" /\ run'.stage = "optimize") =>
          /\ Startable(disk')
          /\ hist.edits = 0 => VersionOf(disk') = "installed"]_vars

\* A command that is not killed ends.
CommandsEnd == run.stage # "idle" ~> run.stage = "idle"
-----------------------------------------------------------------------------
\* Why RollbackRestores holds, as an inductive invariant.

\* Stages in which a command writes, or undoes what it wrote.
Unguarded == {"idle", "reset", "plan", "backup", "track"}
Guarded == Stages \ (Unguarded \cup Committed)

\* What the journal must have tracked before the writes of a stage.
MustBeTracked ==
    IF run.stage \in {"resetTree", "resetConfig"} THEN TreeFiles
    ELSE IF run.stage \notin Guarded \ {"rollback"} THEN {}
    ELSE ConfigTree \cup (IF run.op \in {"install", "restore"} THEN Sources ELSE run.apply)
                    \cup (IF run.op = "restore" THEN {RestartMarker} ELSE {})

\* A tracked preimage is what the command found, and so is the content of
\* every path that is not waiting to be restored.
Recoverable(p) ==
    /\ p \in Tracked(run.journal) => run.journal.snap[p] = run.before[p]
    /\ p \notin run.journal.todo => disk[p] = run.before[p]

RollbackInv ==
    /\ run.stage \in Unguarded => ~run.journal.writes
    /\ run.stage \in Guarded =>
         /\ run.before # NoFiles
         /\ run.stage # "rollback" => run.journal.todo = Tracked(run.journal)
         /\ \A p \in Paths \ Exempt : Recoverable(p)
    /\ MustBeTracked \subseteq Tracked(run.journal)
    /\ (run.op = "uninstall" /\ run.stage = "sources") => run.left \subseteq run.apply
-----------------------------------------------------------------------------
\* Why WritesAreArchived holds, as an inductive invariant.

\* An archive holds d, as far as nobody else changed it.
HoldsFiles(archive, d, others) ==
    /\ \A p \in ConfigTree \ others : Archived(archive, p) = d[p]
    /\ \A s \in DOMAIN archive.sources \ others : archive.sources[s] = d[s]

\* Before the journal is filled the command's archive holds what is on the
\* disk, and from then on what the command found; a source it does not hold
\* is not written.
OwnArchive ==
    LET archive == ArchiveOf(run.archive)
        others == run.edited \cup hist.touched
    IN  /\ run.archive \in Archives
        /\ run.stage = "track" =>
             /\ HoldsFiles(archive, disk, hist.touched)
             /\ DOMAIN archive.sources = IF run.op = "install" THEN Sources ELSE run.retained
        /\ run.stage # "track" =>
             /\ HoldsFiles(archive, run.before, others)
             /\ \A s \in Sources \ (DOMAIN archive.sources \cup others) : disk[s] = run.before[s]
        /\ run.stage \in {"marker", "sources"} =>
             (IF run.op = "install" THEN Sources ELSE run.apply) \subseteq DOMAIN archive.sources

Numbered ==
    \A a \in backups : /\ a.id \in 1..hist.archives
                       /\ \A b \in backups : a.id = b.id => a = b

ArchiveInv ==
    /\ Numbered
    /\ run.stage \in Unguarded => run.before = NoFiles
    /\ (run.op \in {"install", "uninstall"} /\ run.stage \notin Unguarded \ {"track"}) =>
          OwnArchive
-----------------------------------------------------------------------------
\* Why WholePackage and SentinelRecovers hold, as inductive invariants.

\* No command was killed, or interrupted where the code has no undo.
Calm == hist.incidents \subseteq {"restart", "overwritten"}

Sound == Calm /\ sentinel = 0

\* The content c of p is what the ledger l says, or what its absence says;
\* others is what somebody else changed.
TrueOf(p, c, l, others) ==
    /\ p = StateFile => c = l /\ (l # Absent => l.retained = Sources)
    /\ p \in Sources =>
         /\ l = Absent => c # "patched"
         /\ p \notin others => c = IF l = Absent THEN "stock" ELSE "patched"
    /\ p \in TreeFiles => (c = Absent <=> l = Absent)
    /\ p \in ConfigFiles =>
         /\ c # Absent
         /\ \A i \in ItemsOf(p) \ others : c[i] = IF l = Absent THEN "expected" ELSE "desired"

Recorded == ConfigTree \cup Sources

Truthful(d, others) == \A p \in Recorded : TrueOf(p, d[p], d[StateFile], others)

ArchivedState(archive) == Archived(archive, StateFile)

TruthfulArchive(archive, others) ==
    /\ \A p \in ConfigTree :
          TrueOf(p, Archived(archive, p), ArchivedState(archive), others)
    /\ \A s \in DOMAIN archive.sources :
          TrueOf(s, archive.sources[s], ArchivedState(archive), others)

\* The ledger a command is about to write, or to delete.
NextLedger == IF run.op = "install" THEN [retained |-> run.retained] ELSE Absent

\* Stages in which the ledger on the disk is true of it, and stages in which
\* a command has decided what it will record.
Settled == Unguarded \cup Committed \cup {"resetTree", "resetConfig"}
Decided == {"backup", "track", "marker", "sources", "extras", "tree", "check", "config",
            "postflight", "state"}

\* install and uninstall run only while no recovery is due.
UnblockedInv ==
    run.stage # "idle" => run.op # "none" /\ (run.op # "restore" => sentinel = 0)

\* A restore notes its first write before it makes it.
NotedInv == (run.op = "restore" /\ run.stage \in Guarded) => run.journal.writes

\* A command that has only to commit has recorded its ledger.
WrittenInv ==
    (run.stage = "state" /\ run.left = {}) => disk[StateFile] = NextLedger

\* The legacy reset meets a printer without a ledger, and one with a ledger's
\* files only if somebody wrote the include line by hand.
ResetInv ==
    run.stage \in ResetStages => disk[StateFile] = Absent /\ (Calm => IncludeLine \in hist.touched)

ArchivesInv == Calm => \A a \in backups : TruthfulArchive(a, hist.touched)

SettledInv == (Sound /\ run.stage \in Settled) => Truthful(disk, hist.touched)

\* What a rollback will put back, and what it will leave, agrees with the
\* ledger the command found; without a write there is nothing to put back.
KeptInv ==
    (Sound /\ run.stage \in Guarded) =>
        /\ \A p \in Recorded :
              /\ p \in Tracked(run.journal) =>
                    TrueOf(p, run.journal.snap[p], run.before[StateFile], hist.touched)
              /\ p \notin run.journal.todo =>
                    TrueOf(p, disk[p], run.before[StateFile], hist.touched)
        /\ (run.stage # "rollback" /\ ~run.journal.writes) => Truthful(disk, hist.touched)

\* What a plan leaves to the user is the user's, and a ledger covers every source.
DecidedInv ==
    (Sound /\ run.op # "restore" /\ run.stage \in Decided) =>
        run.kept \subseteq hist.touched /\ run.retained = Sources

\* After postflight the files agree with the ledger that comes next.
NextInv ==
    (Sound /\ run.stage = "state") =>
        \A p \in Recorded \ {StateFile} : TrueOf(p, disk[p], NextLedger, hist.touched)

\* A restore brings back the ledger of its archive with the files it is true of.
RestoredInv ==
    (Calm /\ run.op = "restore" /\ run.stage \in {"marker", "sources"}) =>
        LET ledger == ArchivedState(ArchiveOf(run.archive))
        IN  /\ \A p \in ConfigTree : TrueOf(p, disk[p], ledger, hist.touched)
            /\ run.stage = "sources" =>
                  /\ run.left \subseteq Sources
                  /\ \A s \in Sources \ run.left : TrueOf(s, disk[s], ledger, hist.touched)

LedgerInv == SettledInv /\ KeptInv /\ DecidedInv /\ NextInv /\ RestoredInv

TruthInv == UnblockedInv /\ NotedInv /\ WrittenInv /\ ResetInv /\ ArchivesInv /\ LedgerInv

\* Until the installer is killed, a recovery sentinel names an archive that
\* covers every source, and so does a command that may have to write one.
SentinelInv ==
    hist.crashes = 0 =>
        /\ ~Calm => IncludeLine \in hist.touched
        /\ IncludeLine \notin hist.touched =>
             /\ sentinel # 0 => sentinel \in Archives /\ DOMAIN ArchiveOf(sentinel).sources = Sources
             /\ (run.op \in {"install", "uninstall"} /\ run.stage \in Guarded) =>
                   DOMAIN ArchiveOf(run.archive).sources = Sources
-----------------------------------------------------------------------------
\* Why ActivationNeverLost holds, as an inductive invariant.

Undisturbed == hist.incidents \cap {"rollback", "restart", "overwritten"} = {}

\* A marker written by, or for, the Klipper process that still runs.
Marked(d) == d[RestartMarker] # Absent /\ d[RestartMarker].pid = klipper.pid

\* What the files become once the recovery that is due is completed.
Recovered(s) ==
    LET archive == ArchiveOf(sentinel)
    IN  IF sentinel # 0 /\ s \in DOMAIN archive.sources THEN {archive.sources[s]} ELSE {}

\* Klipper has loaded the sources of d, or a marker says that it has not.
Covered(d) ==
    Marked(d) \/ \A s \in Sources \ hist.touched : klipper.loaded[s] \in {d[s]} \cup Recovered(s)

\* The command has not changed what Klipper loads, nor the marker.
AsFound ==
    /\ disk[RestartMarker] = run.before[RestartMarker]
    /\ \A s \in Sources \ hist.touched : disk[s] = run.before[s]

\* A command replaces sources under a marker of the running process, which no
\* rollback removes before it has put back what a restore replaced.
MarkerInv ==
    /\ Covered(run.before)
    /\ IF run.stage # "rollback" THEN Marked(disk) \/ AsFound
       ELSE \/ Marked(disk)
            \/ disk[RestartMarker] = run.before[RestartMarker] /\ (run.op = "restore" => AsFound)
    /\ run.stage = "sources" => Marked(disk)
    /\ run.stage \in {"sources", "rollback"} => run.journal.writes
    /\ ~run.journal.writes => AsFound
    /\ run.op = "restore" => run.pid = klipper.pid

ActivationInv ==
    Undisturbed => IF run.stage \in Guarded THEN MarkerInv ELSE Covered(disk)

\* A restore's rollback puts the marker back after the sources.
MarkerLastInv ==
    (run.op = "restore" /\ run.stage \in Guarded) =>
        /\ (Sources \cup {RestartMarker}) \cap run.journal.trees = {}
        /\ \A s \in Sources : run.journal.rank[RestartMarker] < run.journal.rank[s]

EditedInv == run.edited \cap Sources \subseteq hist.touched /\ RestartMarker \notin run.edited

LoadedInv == EditedInv /\ MarkerLastInv /\ ActivationInv
-----------------------------------------------------------------------------
\* Why UserValuesKept holds, as an inductive invariant.

\* Every value of the user in e is the user's in d.
NoNewUser(f, d, e) ==
    \A i \in ItemsOf(f) \ {IncludeLine} :
       (e[f] # Absent /\ e[f][i] = "user") => (d[f] # Absent /\ d[f][i] = "user")

\* A plan keeps the user's values of the files it was made for.
PlanInv ==
    (run.op # "restore" /\ run.stage \in Planned) =>
        /\ DOMAIN run.pre = ConfigFiles
        /\ \A f \in ConfigFiles : /\ run.pre[f] \in [ItemsOf(f) -> Values]
                                  /\ NoNewUser(f, run.pre, run.post)
                                  /\ NoNewUser(f, run.post, run.pre)

\* A file that is about to be written is the planned one, unless others edited it.
CheckedInv ==
    run.stage = "config" =>
        run.left \subseteq ConfigFiles /\ \A f \in run.left \ run.edited : disk[f] = run.pre[f]

\* No value of the user appeared since the command began, but in an edited file.
FoundInv ==
    (run.op # "restore" /\ run.stage \in Guarded) =>
        \A f \in ConfigFiles \ run.edited : NoNewUser(f, run.before, disk)

UserInv == PlanInv /\ CheckedInv /\ FoundInv
-----------------------------------------------------------------------------
\* Why InstallRepairs and ImplementsTransaction hold, as an inductive invariant.

\* Nothing in c is a user's.  (A legacy installation comes with foreign files.)
PlainContent(p, c) ==
    /\ (p \in ConfigFiles /\ c # Absent) => \A i \in ItemsOf(p) : c[i] # "user"
    /\ (p \in TreeFiles /\ "legacy" \notin InitialPackages) => c # "user"

\* Without edits no user's value or file appears, and no plan spares one.
PlainInv ==
    hist.edits = 0 =>
        /\ hist.touched = {} /\ run.edited = {}
        /\ \A p \in ConfigTree : PlainContent(p, disk[p])
        /\ \A p \in ConfigTree \cap Tracked(run.journal) : PlainContent(p, run.journal.snap[p])
        /\ \A a \in backups : \A p \in ConfigTree : PlainContent(p, Archived(a, p))
        /\ (run.op # "restore" /\ run.stage \in Planned) =>
              \A f \in ConfigFiles : PlainContent(f, run.post[f])
        /\ (run.op # "restore" /\ run.stage \in Decided) => run.kept = {}

\* What has not been noted as written is as the command found it.
UnwrittenInv ==
    /\ run.stage = "rollback" => run.journal.writes
    /\ (run.stage \in Guarded /\ ~run.journal.writes) =>
          \A p \in Recorded \ run.edited : disk[p] = run.before[p]

\* What postflight saw is there when the ledger is written, and an install has
\* put every extra module in place before the tree that names it.
ReadyInv ==
    /\ (hist.edits = 0 /\ run.stage = "state") =>
          IF run.op = "install" THEN InstallPostflight(disk, {})
                                ELSE UninstallPostflight(disk, {}, run.retained)
    /\ run.op = "install" =>
          /\ run.stage = "extras" => \A x \in Extras \ run.left : disk[x] # Absent
          /\ run.stage \in {"tree", "check", "config", "postflight", "state"} =>
                \A x \in Extras : disk[x] # Absent
          /\ run.stage = "state" => ConfigPresent(disk)

PackageInv == PlainInv /\ UnwrittenInv /\ ReadyInv
-----------------------------------------------------------------------------
\* Why CommandsEnd holds: a command never goes back, and never finds nothing to do.

\* The stages of a command in the order in which it goes through them.
Course(op) ==
    CASE op = "install" ->
           <<"reset", "resetTree", "resetConfig", "plan", "backup", "track", "marker", "sources",
             "extras", "tree", "check", "config", "postflight", "state", "optimize",
             "activate", "pending", "restarting">>
      [] op = "uninstall" ->
           <<"plan", "backup", "track", "marker", "sources", "check", "config", "extras",
             "tree", "postflight", "state", "activate", "pending", "restarting">>
      [] op = "restore" ->
           <<"swapOut", "swapIn", "verify", "marker", "sources", "activate", "pending",
             "restarting">>
      [] OTHER -> << >>

StagesOf(op) == {Course(op)[i] : i \in DOMAIN Course(op)}

Comes(op, stage, later) ==
    \E i, j \in DOMAIN Course(op) : i < j /\ Course(op)[i] = stage /\ Course(op)[j] = later

\* What a stage has still to write, or a rollback to put back.
Remaining(r) == IF r.stage = "rollback" THEN r.journal.todo ELSE r.left

Stays ==
    run'.op = run.op /\ run'.stage = run.stage /\ Remaining(run') = Remaining(run)

Advances ==
    \/ run'.stage = "idle"
    \/ run'.op = run.op /\ run.stage # "rollback" /\ run'.stage = "rollback"
    \/ run'.op = run.op /\ Comes(run.op, run.stage, run'.stage)
    \/ /\ run'.op = run.op /\ run'.stage = run.stage
       /\ Remaining(run') \subseteq Remaining(run) /\ Remaining(run') # Remaining(run)

\* Each step of a command brings it nearer to its end, and no failure, edit or
\* restart takes it back.
OnlyForward ==
    [][/\ Proceed => Advances
       /\ run.stage # "idle" => Advances \/ Stays]_vars

\* The files a stage goes through one by one.
WorkOf(stage) ==
    CASE stage \in {"resetTree", "tree"} -> TreeFiles
      [] stage \in {"resetConfig", "config"} -> ConfigFiles
      [] stage = "marker" -> {RestartMarker}
      [] stage = "sources" -> Sources
      [] stage = "extras" -> Extras
      [] stage = "state" -> {StateFile}
      [] OTHER -> {}

\* A command is in one of its stages, with work of that stage left to do.
CourseInv ==
    /\ run.stage \in {"idle", "rollback"} \cup StagesOf(run.op)
    /\ WorkOf(run.stage) # {} =>
         /\ run.left \subseteq WorkOf(run.stage)
         /\ run.stage \notin {"resetTree", "state"} => run.left # {}
    /\ run.stage = "state" => run.op \in {"install", "uninstall"}
    /\ (run.stage = "marker" /\ run.op # "restore") => run.apply # {}

\* The guards of the steps a command takes of itself (Proceed).
Steppable ==
    \/ run.stage \in {"reset", "backup", "track", "check", "postflight", "optimize", "swapOut",
                     "swapIn", "verify", "activate", "pending", "restarting"}
    \/ run.stage = "plan" /\ run.op \in {"install", "uninstall"}
    \/ run.stage = "resetTree" /\ run.left = {}
    \/ run.stage = "state" /\ run.left = {} /\ run.op \in {"install", "uninstall"}
    \/ run.stage = "rollback" /\ (run.journal.todo = {} \/ NextToRestore(run.journal) # {})
    \/ run.stage = "config" /\ run.left \cap ConfigFiles # {}
    \/ \E p \in Paths :
         \/ p \in TreeFiles /\ Writing("install", "resetTree", p)
         \/ p \in ConfigFiles /\ Writing("install", "resetConfig", p)
         \/ \E op \in {"install", "uninstall", "restore"} :
               \/ p = RestartMarker /\ Writing(op, "marker", p)
               \/ p \in Sources /\ Writing(op, "sources", p)
         \/ \E op \in {"install", "uninstall"} :
               \/ p \in Extras /\ Writing(op, "extras", p)
               \/ p \in TreeFiles /\ Writing(op, "tree", p)
               \/ p = StateFile /\ Writing(op, "state", p)

\* A command under way always has a next step.
NeverStuck == run.stage # "idle" => Steppable
-----------------------------------------------------------------------------
Uncommitted == run.stage \notin Committed \cup {"idle"}

\* A half-done command shows the package it found.
Version == IF Uncommitted /\ run.before # NoFiles THEN VersionOf(run.before) ELSE VersionOf(disk)

UnderWay == IF Uncommitted THEN run.op ELSE "none"

Blocked == sentinel # 0

Transaction ==
    INSTANCE PackageTransaction WITH version <- Version, command <- UnderWay, blocked <- Blocked

\* With nobody else writing and no kill, install, uninstall and restore change
\* the package in one step at their commit, leave it as it was when they fail,
\* and when they cannot undo what they did they block everything but a restore.
ImplementsTransaction == Transaction!Spec
=============================================================================
