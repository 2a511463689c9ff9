----------------------------- MODULE HostReboot -----------------------------
(***************************************************************************)
(* host_reboot.py: what the installer remembers of a reboot the printer's   *)
(* host needs, and when it lets one happen.                                 *)
(*                                                                         *)
(* The repair of the root file system leaves a marker with the boot it was  *)
(* made in; host tuning leaves a recommendation.  A reboot is scheduled as  *)
(* a transient systemd unit, which a boot forgets.                          *)
(***************************************************************************)
EXTENDS Naturals

VARIABLES
    boot,         \* identity of the current boot, counted from 1
    marker,       \* the host reboot marker
    recommended,  \* the boot a reboot is recommended for, or 0
    scheduled,    \* the reboot unit: "none", or the idleness it asks for
    host,         \* the installer's changes that are in place on the host
    printer       \* what Moonraker says of the printer

rebootVars == <<boot, marker, recommended, scheduled, host, printer>>

HostChanges == {"repair", "tuning"}
MarkerSources == {"interactive_install", "auto_update_child", "auto_update_reconcile"}

\* "busy" is hot, moving or moved within KLIPPER_IDLE_SECONDS; "printing" is
\* also paused and, for a check that cannot ask, unknown.
PrinterStates == {"idle", "busy", "printing"}
Idleness == {"printer", "klipper"}

NoMarker == [boot |-> 0, source |-> "none", before |-> 0]

\* before is the release on record when an update wrote the marker, or 0.
NewMarker(source, before) == [boot |-> boot, source |-> source, before |-> before]

RebootInit ==
    /\ boot = 1
    /\ marker = NoMarker
    /\ recommended = 0
    /\ scheduled = "none"
    /\ printer = "idle"

\* ensure_printer_idle, or the stricter ensure_klipper_idle.
PrinterAllows(idleness) ==
    printer = "idle" \/ (idleness = "printer" /\ printer = "busy")

Repaired == "repair" \in host

\* Faulty variant of RebootHappened: any marker counts as rebooted for.
MarkerExists == marker # NoMarker

\* The marker is of an earlier boot.
RebootHappened == marker # NoMarker /\ marker.boot # boot

\* verify_completed_host_reboot raises, or leaves this marker.
VerificationFails == RebootHappened /\ ~Repaired
VerifiedMarker == IF RebootHappened THEN NoMarker ELSE marker

\* Faulty variant of RebootRecommended: a recommendation outlives its boot.
EverRecommended == recommended # 0

RebootRecommended == recommended = boot

\* reboot_recommended drops the recommendation of an earlier boot.
CurrentRecommendation == IF RebootRecommended THEN recommended ELSE 0

\* _schedule_reboot; systemd refuses a second unit of the same name.
Schedule(idleness) ==
    scheduled' = IF scheduled = "none" /\ PrinterAllows(idleness) THEN idleness ELSE scheduled

\* maybe_schedule_recommended_reboot.
ScheduleRecommended(idleness) ==
    /\ recommended' = CurrentRecommendation
    /\ IF RebootRecommended THEN Schedule(idleness) ELSE UNCHANGED scheduled

\* What apply_system_optimizations leaves when it finds a change missing.
ApplyHostChanges(source, before) ==
    /\ host' = HostChanges
    /\ marker' = IF Repaired THEN marker ELSE NewMarker(source, before)
    /\ recommended' = IF "tuning" \in host THEN recommended ELSE boot

\* A boot keeps the files and loses the transient units and the print.
Booted ==
    /\ boot' = boot + 1
    /\ scheduled' = "none"
    /\ printer' = "idle"
=============================================================================
