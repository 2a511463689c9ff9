-------------------------- MODULE HostProperties ---------------------------
(***************************************************************************)
(* What the installer promises of its changes to the host.                 *)
(***************************************************************************)
EXTENDS SystemOptimizations

OfPackage(o) == host[o] \in Package \cup {Half}

\* What puts an operation back is in the ledger, in the journal, or in the
\* memory of the command that will write it to the ledger.
Recorded(o) ==
    \/ o \in DOMAIN ledger.pre \cup DOMAIN journal.pre
    \/ run.kind = "install" /\ o \in DOMAIN run.pre \cup DOMAIN run.current

\* Nobody edits anything and nothing fails; a rollback happens only otherwise.
NothingFailed == hist.faults = 0 /\ hist.edited = {}

\* As long as no command is killed, every change of the package can be undone:
\* failures and rollbacks that fail lose no preimage.  An uninstall gives up
\* those it was not asked to undo, or that somebody changed.  A retirement gives
\* up a bundle file that it takes for a user's, or the vendor's, after a failure.
Undoable ==
    hist.kills = 0 =>
        \A o \in Ops : OfPackage(o) /\ (o \in Bundles => NothingFailed) =>
                          Recorded(o) \/ o \in hist.kept \cup hist.edited

\* The Rockchip transaction is not lost by a kill either: its journal waits for
\* the ledger (openspec/specs/installer-lifecycle/spec.md:223).  A retirement
\* deletes that journal and is excluded here.
RockchipRecorded ==
    OfPackage(Rockchip) =>
        Recorded(Rockchip) \/ hist.retired \/ Rockchip \in hist.kept \cup hist.edited

\* nginx is never left serving a build that is not there: it is switched to the
\* build after the build, and away from it before, whatever fails in between;
\* an update takes the build away only between its two renames.
SiteNeedsBuild ==
    host[Site] \in Package =>
        host[Build] \in Package \/ aside[Build] \in Package \/ {Site, Build} \cap hist.edited # {}

\* A file or directory of a user, written while no command ran, survives every
\* later install, update, rollback, recovery and uninstall.
EditsSurvive ==
    \A o \in hist.idle \cap (Guarded \cup Packaged) : host[o] = Edited

\* An install that failed and was rolled back leaves the host as it found it,
\* except for what somebody else changed and for retired bundle files.
RollbackWhole ==
    hist.ended = "undone" =>
        \A o \in Ops \ (hist.edited \cup Bundles) : host[o] = hist.before[o]

\* The ledger keeps the first preimage of an operation: an update does not take
\* an older release of the package for the original.  A rollback that itself
\* fails replaces it.
FirstPreimagesKept ==
    [][hist'.ended # "blocked" =>
        \A o \in DOMAIN ledger.pre \cap DOMAIN ledger'.pre : ledger'.pre[o] = ledger.pre[o]]_vars

Ended == hist.ended \in {"installed", "undone", "interrupted", "recovered", "uninstalled"}

\* When a command ends well, the services run what is on the disk, also after a
\* rollback, unless an earlier restart was lost with a kill or a failed one.
ServicesLoad ==
    (run.kind = "none" /\ Ended /\ hist.kills = 0 /\ ~hist.missed) =>
        \A o \in Restarting \ hist.edited : loaded[o] = host[o]

\* Without failures, kills and edits an uninstall that is asked for everything
\* leaves nothing of any release.
UninstallRestores ==
    (hist.ended = "uninstalled" /\ hist.faults = 0 /\ hist.kills = 0 /\ hist.edited = {}) =>
        \A o \in Ops \ Optional : host[o] = Stock

\* The same with failed updates in between (docs/install.md:111).
UninstallLeavesNothing ==
    (hist.ended = "uninstalled" /\ hist.kills = 0 /\ hist.edited = {}) =>
        \A o \in Ops \ Optional : host[o] = Stock

\* Every command ends, whatever it finds and whatever is edited meanwhile.
CommandsEnd == run.kind # "none" ~> run.kind = "none"
=============================================================================
