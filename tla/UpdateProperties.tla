-------------------------- MODULE UpdateProperties --------------------------
(***************************************************************************)
(* What automatic updates and reboots of the host promise.                  *)
(***************************************************************************)
EXTENDS AutoUpdate

\* A repair of the root file system made in this boot and still in place has
\* its marker: no check, installation or uninstallation takes it for one the
\* host was already rebooted for (host_reboot.py verify_completed_host_reboot).
PendingKept ==
    (Repaired /\ hist.repaired) => marker.boot = boot

\* The host is rebooted only in a boot in which the installer changed something
\* that needs it, whatever was scheduled, recommended or recorded in an earlier
\* boot, and however often updates and installations follow each other.
RebootNeeded == [][(Reboot /\ boot' # boot) => hist.changed]_vars

\* The host is not rebooted in the middle of a print, nor, by an automatic
\* update, while the printer is hot or moving, unless that began after the last
\* look at the printer (complete-host-reboot looks again after the delay).
RebootsIdle ==
    [][(Reboot /\ boot' # boot) => PrinterAllows(proc.idleness) \/ hist.prints # proc.prints]_vars

\* A check that starts after automatic updates were turned off replaces no
\* bundle, although the systemd units may have survived.  Turning updates on
\* and off at the same time is excluded.
DisabledInstallsNothing ==
    [][(bundle # 0 /\ bundle' = 0) => ~proc.off \/ hist.overlap]_vars

\* States a check cannot leave by itself: its errors ask for the user.
Stuck ==
    \/ VerificationFails
    \/ activation = "drifted"
    \/ blocked
    \/ bundle = 0 /\ ~At("unpack")

\* The bound on boots keeps a pending reboot from happening.
OutOfBoots == boot = MaxBoots /\ marker.boot = boot

\* The release on record was recorded by enable_auto_updates while an older one
\* is installed.
Skipped == stored = latest /\ installed = bundle /\ installed # latest

\* While updates stay on and nothing needs the user, the newest release is
\* installed again and again: failures, kills, prints, drift and reboots only
\* delay it.
UpdatesArrive ==
    []<>(installed = latest \/ ~units \/ ~enrolled \/ Stuck \/ Skipped \/ OutOfBoots)

\* The same without the exclusion of a release recorded too early, as
\* docs/install.md:85 states it.
EveryReleaseArrives ==
    []<>(installed = latest \/ ~units \/ ~enrolled \/ Stuck \/ OutOfBoots)
=============================================================================
