------------------------ MODULE SystemOptimizations -------------------------
(***************************************************************************)
(* The changes the installer makes to the host, outside the printer's      *)
(* configuration: patched vendor files, directories the package owns, the  *)
(* root file system's mount options.  An install applies the operations    *)
(* one after the other and records in the ledger what each one replaced;   *)
(* an uninstall puts that back.  A journal on the disk lets the next       *)
(* command finish what a failure or a kill left half done.                 *)
(*                                                                         *)
(* A content is Stock (what the vendor shipped, or nothing), a release of  *)
(* the package, Edited (what a user wrote, unknown to every release), or   *)
(* Half (some of the files or commands of an operation, not all).          *)
(***************************************************************************)
EXTENDS Naturals, FiniteSetsExt, Sequences

CONSTANTS
    Order,        \* the operations in the order an install applies them
    Sorted,       \* the same in the order a journal is read back: by name
    Guarded,      \* files patched when recognized and restored when unchanged
    Packaged,     \* directories of the package, replaced by renames
    Rockchip,     \* the operation whose journal outlives it
    Build, Site,  \* the package's Fluidd and the nginx site that serves it
    Bundles,      \* QIDI's Fluidd files, patched only while they are served
    Optional,     \* operations an uninstall undoes only when asked to
    Restarting,   \* operations whose file a service loads when it starts
    Bundled,      \* Bundled[r]: the directories that release r carries
    Releases,
    MaxEvents     \* commands, failures, kills and edits, together

Ops == { Order[i] : i \in DOMAIN Order }
Plain == Ops \ (Guarded \cup Packaged)

Stock == 0
Edited == Releases + 1
Half == Releases + 2
Unknown == Releases + 3       \* an outcome that names no content
Package == 1 .. Releases
Content == Stock .. Half

ASSUME SystemOptimizationsAssumption ==
    /\ Releases \in Nat \ {0}
    /\ MaxEvents \in Nat
    /\ Order \in Seq(Ops) /\ Sorted \in Seq(Ops)
    /\ \A i, j \in DOMAIN Order : Order[i] = Order[j] => i = j
    /\ Ops = { Sorted[i] : i \in DOMAIN Sorted }
    /\ Guarded \cup Packaged \cup Restarting \cup Optional \subseteq Ops
    /\ Guarded \cap Packaged = {} /\ Rockchip \in Plain
    /\ Build \in Packaged /\ Site \in Guarded
    /\ Bundles \subseteq Guarded \ ({Site} \cup Restarting)
    /\ Optional \cap {Build, Site} = {}
    /\ Bundled \in [Package -> SUBSET Packaged]

\* nginx is switched to the build after the build is in place, and a journal,
\* which is read backwards by name, switches it back before the build goes.
ASSUME BuildComesFirst ==
    \A order \in {Order, Sorted} : \A i, j \in DOMAIN order :
        order[i] = Build /\ order[j] = Site => i < j

VARIABLES
    host,       \* what is at each operation's place
    aside,      \* the replaced directory of a Packaged operation, or Stock
    loaded,     \* what the service of a Restarting operation has loaded
    installed,  \* the ledger's file exists
    ledger,     \* pre: what an uninstall puts back; out: what was recorded
    journal,    \* the pending transaction: its phase and its preimages
    run,        \* the command that holds the lock
    hist        \* bounds, and history that only the properties read

vars == <<host, aside, loaded, installed, ledger, journal, run, hist>>

\* Dictionaries: an empty one, one with a single key, and one that updates another.
Nothing == [o \in {} |-> Stock]
Only(o, v) == [x \in {o} |-> v]
Over(f, g) == [x \in DOMAIN f \cup DOMAIN g |-> IF x \in DOMAIN f THEN f[x] ELSE g[x]]

NoJournal == [phase |-> "none", pre |-> Nothing]
Journal(phase, pre) == [phase |-> phase, pre |-> pre]
NoLedger == [pre |-> Nothing, out |-> Nothing]

IdleRun ==
    [kind |-> "none", stage |-> "idle", release |-> 1, at |-> 1, todo |-> {},
     pre |-> Nothing, out |-> Nothing, current |-> Nothing, pending |-> {},
     queue |-> {}, declined |-> {}, then |-> "idle", interrupted |-> FALSE]

Init ==
    /\ host = [o \in Ops |-> Stock]
    /\ aside = [o \in Packaged |-> Stock]
    /\ loaded = [o \in Restarting |-> Stock]
    /\ installed = FALSE
    /\ ledger = NoLedger
    /\ journal = NoJournal
    /\ run = IdleRun
    /\ hist = [commands |-> 0, faults |-> 0, kills |-> 0, release |-> 1,
               ended |-> "none", before |-> host, edited |-> {}, idle |-> {},
               kept |-> {}, missed |-> FALSE, retired |-> FALSE]

Calm == hist.commands + hist.faults + hist.kills + Cardinality(hist.edited) < MaxEvents

-----------------------------------------------------------------------------
(* What the code reads off the host.                                       *)

\* What release r makes of an operation; only patches and directories change
\* from one release to the next.
Desired(o) == IF o \in Plain THEN 1 ELSE run.release

\* The operation is as it was before the one that left this preimage.  The
\* directory an update replaced is back when nothing is set aside any more.
Matches(o, p) ==
    IF o \in Packaged /\ p # Stock
    THEN aside[o] = Stock /\ host[o] \in Package
    ELSE host[o] = p

\* nginx serves the build of this release.
Served == host[Site] \in Package /\ host[Build] = run.release

\* The file is neither what the ledger recorded nor what it would restore.
Drifted(o) ==
    /\ o \in DOMAIN run.pre
    /\ host[o] # run.pre[o]
    /\ o \in DOMAIN run.out => host[o] # run.out[o]

\* Faulty variant of Prerequisite: the site is switched in any case.
NoPrerequisite(o) == TRUE

\* The site is switched to the build only when this release's build is there.
Prerequisite(o) == o = Site => host[Build] = run.release

\* An operation has work to do: a recognized file that is not yet patched, a
\* directory of the package or a free place for it, anything else that differs.
NeedsApply(o) ==
    /\ host[o] # Desired(o)
    /\ o \in Guarded \cup Packaged \cup {Rockchip} => host[o] # Edited
    /\ o \in Guarded => ~Drifted(o) /\ Prerequisite(o)
    /\ o \in Packaged => o \in Bundled[run.release]
    /\ o \notin run.declined

Superseded(o) == o \in Bundles /\ Served

LastOf(order, S) == order[Max({i \in DOMAIN order : order[i] \in S})]

Goto(stage) == run' = [run EXCEPT !.stage = stage]

Finish(how) ==
    /\ run' = IdleRun
    /\ hist' = [hist EXCEPT !.ended = how]

-----------------------------------------------------------------------------
(* A command first finishes a pending transaction, then does its own work. *)

Begin ==
    /\ run.kind = "none"
    /\ Calm
    /\ \E kind \in {"install", "uninstall", "check"}, r \in hist.release .. Releases :
          /\ kind # "install" => r = hist.release
          /\ kind = "uninstall" => installed
          /\ kind = "check" => journal # NoJournal
          /\ run' = [IdleRun EXCEPT !.kind = kind, !.release = r, !.stage = "recover",
                                    !.todo = DOMAIN journal.pre]
          /\ hist' = [hist EXCEPT !.commands = @ + 1, !.release = r, !.ended = "none"]
    /\ UNCHANGED <<host, aside, loaded, installed, ledger, journal>>

\* Every requested restart waits until all changes are in place.
Flush(next) == run' = [run EXCEPT !.stage = "flush", !.then = next,
                                  !.queue = run.pending, !.pending = {}]

Recovered ==
    /\ run.stage = "recover" /\ run.todo = {}
    /\ journal' = NoJournal
    /\ Flush("enter")
    /\ UNCHANGED <<host, aside, loaded, installed, ledger, hist>>

Restart ==
    /\ run.stage = "flush" /\ run.queue # {}
    /\ LET o == LastOf(Order, run.queue) IN
          /\ loaded' = [loaded EXCEPT ![o] = host[o]]
          /\ run' = [run EXCEPT !.queue = @ \ {o}]
    /\ UNCHANGED <<host, aside, installed, ledger, journal, hist>>

Flushed ==
    /\ run.stage = "flush" /\ run.queue = {}
    /\ Goto(run.then)
    /\ UNCHANGED <<host, aside, loaded, installed, ledger, journal, hist>>

Enter ==
    /\ run.stage = "enter"
    /\ \/ /\ run.kind = "install"
          /\ \E declined \in {{}, Optional} :
                run' = [run EXCEPT !.stage = "apply", !.declined = declined,
                                  !.pre = ledger.pre, !.out = ledger.out]
          /\ hist' = [hist EXCEPT !.before = host]
          /\ installed' = TRUE
       \/ /\ run.kind = "uninstall"
          /\ \E optional \in BOOLEAN :
                run' = [run EXCEPT !.stage = "restore",
                        !.todo = IF optional THEN DOMAIN ledger.pre
                                             ELSE DOMAIN ledger.pre \ Optional]
          /\ UNCHANGED <<installed, hist>>
       \/ /\ run.kind = "check"
          /\ Finish("recovered")
          /\ UNCHANGED installed
    /\ UNCHANGED <<host, aside, loaded, ledger, journal>>

-----------------------------------------------------------------------------
(* The install: one operation after the other.                             *)

At(stage) == run.stage = stage /\ run.at <= Len(Order)
Op == Order[run.at]

\* What a skipped operation leaves in the outcomes; {} is nothing.
SkipOutcome(o) ==
    CASE Superseded(o) \/ o \in run.declined -> {}
      [] o \in Guarded /\ Drifted(o) -> {}
      [] o \in Guarded /\ (~Prerequisite(o) \/ host[o] = Edited) -> {Unknown}
      [] o \in Packaged /\ host[o] # run.release -> {Unknown}
      [] o \in DOMAIN run.pre \ Plain -> {}
      [] o = Rockchip /\ host[o] = Edited -> {Unknown}
      [] OTHER -> {host[o]}

SkipOperation ==
    /\ At("apply")
    /\ IF Superseded(Op) THEN Op \notin DOMAIN run.pre ELSE ~NeedsApply(Op)
    /\ run' = [run EXCEPT
          !.at = @ + 1,
          !.out = IF SkipOutcome(Op) = {} THEN @
                  ELSE Over(Only(Op, CHOOSE c \in SkipOutcome(Op) : TRUE), @),
          \* A package directory is removed by an uninstall, whoever put it there.
          !.pre = IF Op \in Packaged /\ host[Op] = run.release THEN Over(@, Only(Op, Stock)) ELSE @]
    /\ UNCHANGED <<host, aside, loaded, installed, ledger, journal, hist>>

\* Faulty variant of Capture: the journal has the preimage of one operation.
CaptureAlone ==
    /\ At("apply") /\ ~Superseded(Op) /\ NeedsApply(Op)
    /\ run' = [run EXCEPT !.stage = "change", !.current = Only(Op, host[Op])]
    /\ journal' = Journal("apply", Only(Op, host[Op]))
    /\ aside' = IF Op \in Packaged THEN [aside EXCEPT ![Op] = Stock] ELSE aside
    /\ UNCHANGED <<host, loaded, installed, ledger, hist>>

Capture ==
    /\ At("apply") /\ ~Superseded(Op) /\ NeedsApply(Op)
    /\ LET current == Over(Only(Op, host[Op]), run.current) IN
          /\ run' = [run EXCEPT !.stage = "change", !.current = current]
          /\ journal' = Journal("apply", current)
    /\ aside' = IF Op \in Packaged THEN [aside EXCEPT ![Op] = Stock] ELSE aside
    /\ UNCHANGED <<host, loaded, installed, ledger, hist>>

\* Faulty variant of Requested: no restart is asked for.
RequestedNever(o) == run.pending

Requested(o) == IF o \in Restarting THEN run.pending \cup {o} ELSE run.pending

Changed(o) ==
    /\ run' = [run EXCEPT !.stage = "settle", !.pending = Requested(o)]
    /\ host' = [host EXCEPT ![o] = Desired(o)]

ChangeFile ==
    /\ At("change") /\ Op \in Guarded
    /\ host[Op] = run.current[Op]
    /\ Changed(Op)
    /\ UNCHANGED <<aside, loaded, installed, ledger, journal, hist>>

\* The replaced directory is renamed away, then the staged one takes its place.
SetAside ==
    /\ At("change") /\ Op \in Packaged
    /\ run.current[Op] # Stock /\ aside[Op] = Stock
    /\ aside' = [aside EXCEPT ![Op] = host[Op]]
    /\ host' = [host EXCEPT ![Op] = Stock]
    /\ UNCHANGED <<loaded, installed, ledger, journal, run, hist>>

MoveIn ==
    /\ At("change") /\ Op \in Packaged
    /\ host[Op] = Stock
    /\ Changed(Op)
    /\ UNCHANGED <<aside, loaded, installed, ledger, journal, hist>>

ChangeHalf ==
    /\ At("change") /\ Op \in Plain /\ host[Op] # Half
    /\ host' = [host EXCEPT ![Op] = Half]
    /\ UNCHANGED <<aside, loaded, installed, ledger, journal, run, hist>>

ChangeRest ==
    /\ At("change") /\ Op \in Plain /\ host[Op] = Half
    /\ Changed(Op)
    /\ UNCHANGED <<aside, loaded, installed, ledger, journal, hist>>

\* The preimage that the ledger keeps: the first one; of a directory, nothing.
Kept(o) == IF o \in Packaged THEN Stock ELSE run.current[o]

\* Faulty variant of SettledJournal: deleted.
DeletedJournal == NoJournal

\* The journal falls back to the operation whose record the ledger commits.
SettledJournal ==
    IF Rockchip \in DOMAIN run.current
    THEN Journal("apply", Only(Rockchip, run.current[Rockchip]))
    ELSE NoJournal

\* Faulty variant of Settle: the latest preimage replaces the first.
SettleLatest ==
    /\ At("settle")
    /\ Op \in Plain \ {Rockchip} \/ host[Op] = Desired(Op)
    /\ run' = [run EXCEPT !.stage = "apply", !.at = @ + 1,
                          !.pre = Over(Only(Op, run.current[Op]), @),
                          !.out = Over(Only(Op, Desired(Op)), @)]
    /\ journal' = SettledJournal
    /\ UNCHANGED <<host, aside, loaded, installed, ledger, hist>>

\* Faulty variant of Settle: the outcome of the first release stays on record.
SettleFirstOutcome ==
    /\ At("settle")
    /\ Op \in Plain \ {Rockchip} \/ host[Op] = Desired(Op)
    /\ run' = [run EXCEPT !.stage = "apply", !.at = @ + 1,
                          !.pre = Over(@, Only(Op, Kept(Op))),
                          !.out = Over(@, Only(Op, Desired(Op)))]
    /\ journal' = SettledJournal
    /\ UNCHANGED <<host, aside, loaded, installed, ledger, hist>>

Settle ==
    /\ At("settle")
    /\ Op \in Plain \ {Rockchip} \/ host[Op] = Desired(Op)
    /\ run' = [run EXCEPT !.stage = "apply", !.at = @ + 1,
                          !.pre = Over(@, Only(Op, Kept(Op))),
                          !.out = Over(Only(Op, Desired(Op)), @)]
    /\ journal' = SettledJournal
    /\ UNCHANGED <<host, aside, loaded, installed, ledger, hist>>

\* A bundle file that nothing serves any more: restored and given up, after the
\* restarts before it, because no rollback brings the patch back.
FlushBeforeRetirement ==
    /\ At("apply") /\ Superseded(Op) /\ Op \in DOMAIN run.pre /\ run.pending # {}
    /\ Flush("apply")
    /\ UNCHANGED <<host, aside, loaded, installed, ledger, journal, hist>>

GaveUp == [run EXCEPT !.stage = "apply", !.at = @ + 1, !.out = Over(Only(Op, Unknown), @),
                      !.pre = [o \in DOMAIN run.pre \ {Op} |-> run.pre[o]]]

RetireChanged ==
    /\ At("apply") /\ Superseded(Op) /\ Op \in DOMAIN run.pre /\ run.pending = {}
    /\ Drifted(Op) \/ host[Op] = run.pre[Op]
    /\ run' = GaveUp
    /\ UNCHANGED <<host, aside, loaded, installed, ledger, journal, hist>>

Retire ==
    /\ At("apply") /\ Superseded(Op) /\ Op \in DOMAIN run.pre /\ run.pending = {}
    /\ ~Drifted(Op) /\ host[Op] # run.pre[Op]
    /\ journal' = Journal("restore", Only(Op, run.pre[Op]))
    /\ Goto("retire")
    /\ hist' = [hist EXCEPT !.retired = TRUE]
    /\ UNCHANGED <<host, aside, loaded, installed, ledger>>

RestoreRetired ==
    /\ At("retire")
    /\ host' = [host EXCEPT ![Op] = run.pre[Op]]
    /\ Goto("retired")
    /\ UNCHANGED <<aside, loaded, installed, ledger, journal, hist>>

Retired ==
    /\ At("retired")
    /\ journal' = NoJournal
    /\ run' = GaveUp
    /\ UNCHANGED <<host, aside, loaded, installed, ledger, hist>>

AllApplied ==
    /\ run.stage = "apply" /\ run.at > Len(Order)
    /\ Flush("finish")
    /\ UNCHANGED <<host, aside, loaded, installed, ledger, journal, hist>>

DiscardReplaced ==
    /\ run.stage = "finish"
    /\ aside' = [o \in Packaged |-> Stock]
    /\ Goto("commit")
    /\ UNCHANGED <<host, loaded, installed, ledger, journal, hist>>

\* Faulty variant of Commit: the preimages it started with.
CommitOutcomes ==
    /\ run.stage = "commit"
    /\ ledger' = [pre |-> ledger.pre, out |-> run.out]
    /\ Goto("clear")
    /\ UNCHANGED <<host, aside, loaded, installed, journal, hist>>

Commit ==
    /\ run.stage = "commit"
    /\ ledger' = [pre |-> run.pre, out |-> run.out]
    /\ Goto("clear")
    /\ UNCHANGED <<host, aside, loaded, installed, journal, hist>>

ClearCommitted ==
    /\ run.stage = "clear"
    /\ journal' = NoJournal
    /\ Finish(IF run.then = "undone" THEN "undone" ELSE "installed")
    /\ UNCHANGED <<host, aside, loaded, installed, ledger>>

-----------------------------------------------------------------------------
(* Undoing: an apply that failed, or a journal another command left.       *)

Undoing == run.stage \in {"undo", "recover"}
Preimages == IF run.stage = "undo" THEN run.current ELSE journal.pre
NextToUndo == LastOf(IF run.stage = "undo" THEN Order ELSE Sorted, run.todo)

\* Faulty variant of Refused: an undo writes over anything.
RefusedNothing(o, p) == FALSE

\* A file somebody changed since, or a directory that is not the package's.
Refused(o, p) ==
    \/ o \in Guarded /\ host[o] \notin {p, run.release}
    \/ o \in Packaged /\ host[o] = Edited /\ (p = Stock \/ aside[o] # Stock)

\* One rename, or one of the two halves of an operation of several writes.
RestoreStep(o, p) ==
    /\ aside' = IF o \in Packaged /\ p # Stock /\ host[o] = Stock
                THEN [aside EXCEPT ![o] = Stock] ELSE aside
    /\ host' = [host EXCEPT ![o] =
          IF o \in Packaged
          THEN IF host[o] # Stock \/ p = Stock THEN Stock ELSE aside[o]
          ELSE IF o \in Plain /\ host[o] # Half THEN Half ELSE p]

\* Faulty variant of Missing: what was set aside is always there.
MissingNothing(o, p) == FALSE

\* Nothing was set aside, yet the directory is not the package's: nothing to
\* rename back, which only a recovery verifies.
Missing(o, p) == o \in Packaged /\ p # Stock /\ aside[o] = Stock /\ host[o] \notin Package

Unverified(o, p) == run.stage = "recover" /\ Missing(o, p)

UndoNext ==
    /\ Undoing /\ run.todo # {}
    /\ LET o == NextToUndo
           p == Preimages[o]
       IN  /\ ~Refused(o, p)
           /\ ~Matches(o, p) /\ ~Missing(o, p)
           /\ RestoreStep(o, p)
           /\ run' = [run EXCEPT !.pending = Requested(o)]
    /\ UNCHANGED <<loaded, installed, ledger, journal, hist>>

Undid ==
    /\ Undoing /\ run.todo # {}
    /\ LET o == NextToUndo
           p == Preimages[o]
       IN /\ ~Refused(o, p) \/ (run.stage = "recover" /\ Matches(o, p))
          /\ Matches(o, p) \/ (run.stage = "undo" /\ Missing(o, p))
          /\ run' = [run EXCEPT !.todo = @ \ {o},
                                !.pending = IF run.stage = "undo" /\ o \notin Packaged
                                            THEN Requested(o) ELSE @]
    /\ UNCHANGED <<host, aside, loaded, installed, ledger, journal, hist>>

AllUndone ==
    /\ run.stage = "undo" /\ run.todo = {}
    /\ Flush("undone")
    /\ UNCHANGED <<host, aside, loaded, installed, ledger, journal, hist>>

\* The ledger keeps the preimages it had, and the outcomes of what was undone.
Undone ==
    /\ run.stage = "undone"
    /\ journal' = NoJournal
    /\ \/ /\ run.interrupted
          /\ Finish("interrupted")
       \/ /\ ~run.interrupted
          /\ run' = [run EXCEPT !.stage = "commit", !.pre = ledger.pre]
          /\ UNCHANGED hist
    /\ UNCHANGED <<host, aside, loaded, installed, ledger>>

-----------------------------------------------------------------------------
(* The uninstall.                                                          *)

\* The build goes last, after nginx stops serving it.
NextToRestore == IF run.todo = {Build} THEN Build ELSE LastOf(Order, run.todo \ {Build})

\* Only what is still as the package left it is put back.
Restorable(o) ==
    /\ o \in DOMAIN ledger.out
    /\ ~Matches(o, ledger.pre[o])
    /\ o \in Guarded => host[o] = ledger.out[o]
    /\ o \in Packaged => host[o] \in Package
    /\ o = Build => host[Site] \notin Package
    /\ o \in Plain => host[o] = Desired(o)

Preserve ==
    /\ run.stage = "restore" /\ run.todo # {}
    /\ ~Restorable(NextToRestore)
    /\ run' = [run EXCEPT !.todo = @ \ {NextToRestore}]
    /\ UNCHANGED <<host, aside, loaded, installed, ledger, journal, hist>>

Restore ==
    /\ run.stage = "restore" /\ run.todo # {}
    /\ Restorable(NextToRestore)
    /\ journal' = Journal("restore", Only(NextToRestore, ledger.pre[NextToRestore]))
    /\ Goto("revert")
    /\ UNCHANGED <<host, aside, loaded, installed, ledger, hist>>

Revert ==
    /\ run.stage = "revert"
    /\ LET o == NextToRestore
           p == ledger.pre[o]
       IN  /\ ~Matches(o, p) /\ ~Missing(o, p)
           /\ o \in Packaged => ~Refused(o, p)
           /\ RestoreStep(o, p)
           /\ run' = [run EXCEPT !.pending = Requested(o)]
    /\ UNCHANGED <<loaded, installed, ledger, journal, hist>>

Reverted ==
    /\ run.stage = "revert"
    /\ LET o == NextToRestore
           p == ledger.pre[o]
       IN  Matches(o, p) \/ Missing(o, p)
    /\ journal' = NoJournal
    /\ run' = [run EXCEPT !.stage = "restore", !.todo = @ \ {NextToRestore}]
    /\ UNCHANGED <<host, aside, loaded, installed, ledger, hist>>

AllRestored ==
    /\ run.stage = "restore" /\ run.todo = {}
    /\ Flush("remove")
    /\ UNCHANGED <<host, aside, loaded, installed, ledger, journal, hist>>

RemoveLedger ==
    /\ run.stage = "remove"
    /\ installed' = FALSE
    /\ ledger' = NoLedger
    /\ run' = IdleRun
    /\ hist' = [hist EXCEPT !.ended = "uninstalled",
                            !.kept = {o \in Ops : host[o] \in Package \cup {Half}}]
    /\ UNCHANGED <<host, aside, loaded, journal>>

-----------------------------------------------------------------------------
(* Failures.                                                               *)

Failed(how) == [hist EXCEPT !.ended = how, !.faults = @ + 1]

\* What an edit in the wrong moment makes of a change: the file is not what was
\* captured, the place is taken, or the result is not what was meant.
Contradicted ==
    \/ At("change") /\ Op \in Guarded /\ host[Op] # run.current[Op]
    \/ At("change") /\ Op \in Packaged /\ host[Op] # Stock
                    /\ (run.current[Op] = Stock \/ aside[Op] # Stock)
    \/ At("settle") /\ Op \notin Plain \ {Rockchip} /\ host[Op] # Desired(Op)

Applying ==
    \/ run.stage \in {"change", "settle", "retire", "retired"}
    \/ run.stage = "apply" /\ run.at <= Len(Order)
    \/ run.stage = "flush" /\ run.then \in {"apply", "finish"} /\ run.queue # {}

\* Any exception, Ctrl-C included: everything this run changed is undone.
Raise ==
    /\ Applying
    /\ \/ Contradicted /\ UNCHANGED hist
       \/ Calm /\ hist' = [hist EXCEPT !.faults = @ + 1, !.missed = @ \/ run.stage = "flush"]
    /\ journal' = IF run.current = Nothing THEN journal
                  ELSE Journal("compensating", run.current)
    /\ \E interrupted \in BOOLEAN :
          /\ Contradicted => ~interrupted
          /\ run' = [run EXCEPT !.stage = "undo", !.todo = DOMAIN run.current,
                                !.queue = {}, !.interrupted = interrupted]
    /\ UNCHANGED <<host, aside, loaded, installed, ledger>>

\* The undo fails too: the journal stays, and the ledger takes over what the
\* run captured, in place of what it had.
UndoFails ==
    /\ \/ run.stage = "undo" /\ run.todo # {}
       \/ run.stage = "flush" /\ run.then = "undone" /\ run.queue # {}
    /\ \/ Calm /\ hist' = [Failed("blocked") EXCEPT !.missed = TRUE]
       \/ /\ run.stage = "undo" /\ Refused(NextToUndo, Preimages[NextToUndo])
          /\ hist' = [hist EXCEPT !.ended = "blocked", !.missed = TRUE]
    /\ ledger' = [pre |-> Over(run.current, ledger.pre), out |-> run.out]
    /\ run' = IdleRun
    /\ UNCHANGED <<host, aside, loaded, installed, journal>>

RecoveryFails ==
    /\ \/ run.stage = "recover" /\ run.todo # {}
       \/ run.stage = "flush" /\ run.then = "enter" /\ run.queue # {}
    /\ \/ Calm /\ hist' = [Failed("blocked") EXCEPT !.missed = TRUE]
       \/ /\ run.stage = "recover"
          /\ LET o == NextToUndo
                 p == Preimages[o]
             IN  ~Matches(o, p) /\ (Refused(o, p) \/ Unverified(o, p))
          /\ hist' = [hist EXCEPT !.ended = "blocked", !.missed = TRUE]
    /\ run' = IdleRun
    /\ UNCHANGED <<host, aside, loaded, installed, ledger, journal>>

\* What was restored before the failure still restarts its services.
UninstallFails ==
    /\ run.stage \in {"restore", "revert"} /\ run.todo # {}
    /\ \/ Calm /\ hist' = [hist EXCEPT !.faults = @ + 1]
       \/ /\ run.stage = "revert" /\ NextToRestore \in Packaged
          /\ Refused(NextToRestore, ledger.pre[NextToRestore])
          /\ UNCHANGED hist
    /\ Flush("failed")
    /\ UNCHANGED <<host, aside, loaded, installed, ledger, journal>>

LastRestartFails ==
    /\ run.stage = "flush" /\ run.then \in {"remove", "failed"} /\ run.queue # {}
    /\ Calm /\ hist' = [Failed("failed") EXCEPT !.missed = TRUE]
    /\ run' = IdleRun
    /\ UNCHANGED <<host, aside, loaded, installed, ledger, journal>>

UninstallFailed ==
    /\ run.stage = "failed"
    /\ Finish("failed")
    /\ UNCHANGED <<host, aside, loaded, installed, ledger, journal>>

Kill ==
    /\ run.kind # "none" /\ Calm
    /\ run' = IdleRun
    /\ hist' = [hist EXCEPT !.kills = @ + 1, !.ended = "killed"]
    /\ UNCHANGED <<host, aside, loaded, installed, ledger, journal>>

\* Somebody else writes a file or takes a directory's place, once each.
Edit(o) ==
    /\ Calm
    /\ host[o] # Edited /\ o \notin hist.edited
    /\ host' = [host EXCEPT ![o] = Edited]
    /\ hist' = [hist EXCEPT !.edited = @ \cup {o},
                            !.idle = IF run.kind = "none" THEN @ \cup {o} ELSE @]
    /\ UNCHANGED <<aside, loaded, installed, ledger, journal, run>>

-----------------------------------------------------------------------------
Command ==
    \/ Recovered \/ Restart \/ Flushed \/ Enter
    \/ SkipOperation \/ Capture \/ ChangeFile \/ SetAside \/ MoveIn
    \/ ChangeHalf \/ ChangeRest \/ Settle
    \/ FlushBeforeRetirement \/ RetireChanged \/ Retire \/ RestoreRetired \/ Retired
    \/ AllApplied \/ DiscardReplaced \/ Commit \/ ClearCommitted
    \/ UndoNext \/ Undid \/ AllUndone \/ Undone
    \/ Preserve \/ Restore \/ Revert \/ Reverted \/ AllRestored \/ RemoveLedger
    \/ Raise \/ UndoFails \/ RecoveryFails
    \/ UninstallFails \/ LastRestartFails \/ UninstallFailed

Next == Begin \/ Command \/ Kill \/ \E o \in Ops : Edit(o)

Spec == Init /\ [][Next]_vars

\* A command runs until it ends or is killed.
FairSpec == Spec /\ WF_vars(Command)

=============================================================================
