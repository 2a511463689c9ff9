---------------------------- MODULE PackageFiles ----------------------------
(***************************************************************************)
(* The files of a printer that the Valve Oil installer owns, shares or      *)
(* patches, what each can hold, and how the installer classifies it.        *)
(*                                                                         *)
(* A configuration file holds one value per managed item: an option the     *)
(* manifest patches, a section it deletes, or the include line it ensures.  *)
(* Values are the manifest's roles, not texts: "expected" is the stock      *)
(* value (a section in place, no include line), "desired" is the package's  *)
(* (a section deleted, the include line present), "user" is anything else.  *)
(***************************************************************************)
EXTENDS Naturals, FiniteSets

CONSTANTS
    ConfigFiles,    \* vendor configuration files the manifest patches
    TreeFiles,      \* files of the managed tree config/tltg-optimized-macros
    Sources,        \* Klipper sources replaced by install.source_patches
    Extras,         \* Klipper modules added by install.extra_modules
    StateFile,      \* config/tltg_optimized_state.yaml
    RestartMarker,  \* .tltg_optimized_klipper_restart_required
    Options,        \* patches.set_options
    Sections,       \* patches.delete_sections
    IncludeLine,    \* the ensured include line
    FileOf,         \* the configuration file of each item
    Absent          \* content of a path that does not exist

Items == Options \cup Sections \cup {IncludeLine}
ConfigTree == ConfigFiles \cup TreeFiles \cup {StateFile}
Paths == ConfigTree \cup Sources \cup Extras \cup {RestartMarker}
ItemsOf(f) == {i \in Items : FileOf[i] = f}

Values == {"expected", "desired", "user"}
SourceContents == {"stock", "patched", "other"}
OwnedContents == {"packaged", "user"}

\* The retained originals are what the ledger says of a source; its patch
\* entries are the same in every ledger of one release.
StateContents == [retained : SUBSET Sources]

PartialFunctions(S, T) == UNION {[D -> T] : D \in SUBSET S}
MarkerContents == [pid : Nat, targets : PartialFunctions(Sources, SourceContents)]

\* What each path can hold besides Absent.
ContentOf(p) ==
    CASE p \in ConfigFiles         -> [ItemsOf(p) -> Values]
      [] p \in TreeFiles \cup Extras -> OwnedContents
      [] p \in Sources             -> SourceContents
      [] p = StateFile             -> StateContents
      [] OTHER                     -> MarkerContents

\* A Klipper source is always there: no step of the program deletes one.
Held(p) == ContentOf(p) \cup (IF p \in Sources THEN {} ELSE {Absent})

\* Contents for some paths, each of its kind.
IsFiles(d) ==
    /\ d = [p \in DOMAIN d |-> d[p]]
    /\ DOMAIN d \subseteq Paths
    /\ \A p \in DOMAIN d : d[p] \in Held(p)

WellFormed(d) == IsFiles(d) /\ DOMAIN d = Paths

ASSUME PathsAreDistinct ==
    /\ ConfigFiles \cap (TreeFiles \cup Sources \cup Extras \cup {StateFile, RestartMarker}) = {}
    /\ TreeFiles \cap (Sources \cup Extras \cup {StateFile, RestartMarker}) = {}
    /\ Sources \cap (Extras \cup {StateFile, RestartMarker}) = {}
    /\ Extras \cap {StateFile, RestartMarker} = {}
    /\ StateFile # RestartMarker

ASSUME ItemsAreDistinct ==
    /\ Options \cap Sections = {}
    /\ IncludeLine \notin Options \cup Sections
    /\ FileOf \in [Items -> ConfigFiles]

ASSUME AbsentIsNoContent ==
    \A p \in Paths : Absent \notin ContentOf(p)

ASSUME SomethingIsManaged ==
    /\ ConfigFiles # {} /\ TreeFiles # {} /\ Sources # {} /\ Extras # {}
-----------------------------------------------------------------------------
\* patches.py: what an install makes of the value it finds for an item.
ClassifyInstall(v) ==
    CASE v = "desired"  -> "noop_desired"
      [] v = "expected" -> "applied"
      [] OTHER          -> "user_modified"

\* patches.py: what an uninstall makes of the value it finds for an item.
ClassifyUninstall(v) ==
    CASE v = "desired"  -> "reverted"
      [] v = "expected" -> "noop_expected"
      [] OTHER          -> "user_modified"

\* The composed configuration an install writes.
InstallContent(c) ==
    [i \in DOMAIN c |->
        IF i = IncludeLine \/ ClassifyInstall(c[i]) = "applied" THEN "desired" ELSE c[i]]

\* The composed configuration an uninstall writes.
UninstallContent(c) ==
    [i \in DOMAIN c |->
        IF i = IncludeLine \/ ClassifyUninstall(c[i]) = "reverted" THEN "expected" ELSE c[i]]

ConfigPresent(d) == \A f \in ConfigFiles : d[f] # Absent

ItemValue(d, i) == d[FileOf[i]][i]

\* Preflight of an install: every file is there, a deleted section is missing
\* only if the prior ledger says so, no section was edited, every source is
\* stock or already the package's.
InstallPreflight(d) ==
    /\ ConfigPresent(d)
    /\ \A i \in Sections : \/ ItemValue(d, i) = "expected"
                           \/ ItemValue(d, i) = "desired" /\ d[StateFile] # Absent
    /\ \A s \in Sources : d[s] \in {"stock", "patched"}

\* Preflight of an uninstall: the include file, the managed tree and every
\* patch target can be resolved.
UninstallPreflight(d) ==
    /\ ConfigPresent(d)
    /\ \E t \in TreeFiles : d[t] # Absent

\* A package-looking configuration with no ledger is taken for a legacy manual
\* install.
LegacyManualInstall(d) ==
    /\ d[StateFile] = Absent
    /\ \/ \E t \in TreeFiles : d[t] # Absent
       \/ /\ d[FileOf[IncludeLine]] # Absent
          /\ ItemValue(d, IncludeLine) = "desired"

\* Stock configuration bundled with the package for the detected firmware.
StockContent(f) == [i \in ItemsOf(f) |-> "expected"]

\* verify_install_postflight; kept are the items the plan left to the user.
InstallPostflight(d, kept) ==
    /\ ConfigPresent(d)
    /\ \A t \in TreeFiles : d[t] = "packaged"
    /\ \A s \in Sources : d[s] = "patched"
    /\ \A i \in Items \ kept : ItemValue(d, i) = "desired"

\* verify_uninstall_postflight.
UninstallPostflight(d, kept, retained) ==
    /\ ConfigPresent(d)
    /\ \A t \in TreeFiles : d[t] = Absent
    /\ \A s \in retained : d[s] = "stock"
    /\ \A i \in Items \ kept : ItemValue(d, i) = "expected"

\* Klipper's configuration loads: the included tree names modules that must be
\* there.
Startable(d) ==
    /\ ConfigPresent(d)
    /\ (/\ ItemValue(d, IncludeLine) = "desired"
        /\ \E t \in TreeFiles : d[t] # Absent) => \A x \in Extras : d[x] # Absent
=============================================================================
