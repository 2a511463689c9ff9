----------------------- MODULE MCSystemOptimizations -----------------------
(***************************************************************************)
(* A host for TLC: one operation of each kind.                             *)
(***************************************************************************)
EXTENDS HostProperties

CONSTANTS rockchip, build, site, bundle

\* As _selected_operation_ids lists them.
InstallOrder == <<rockchip, build, site, bundle>>

\* The journal's keys are sorted: fluidd_box_manager_feed_motion,
\* fluidd_build, remote_screen_nginx,
\* rockchip_root_sync.
ByName == <<bundle, build, site, rockchip>>

\* The first release had no Fluidd of its own.
BundledDirectories == [r \in 1..3 |-> IF r = 1 THEN {} ELSE {build}]
=============================================================================
