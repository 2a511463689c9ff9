------------------------ MODULE MCInstallLifecycle ------------------------
(***************************************************************************)
(* A small printer for TLC.                                                *)
(***************************************************************************)
EXTENDS LifecycleProperties

CONSTANTS o1, sec1, inc, cfgA, cfgB

\* The option lives in one vendor file, the deleted section and the include
\* line in another, as in printer.cfg and gcode_macro.cfg.
FilesOfItems == [i \in {o1, sec1, inc} |-> IF i = o1 THEN cfgA ELSE cfgB]
=============================================================================
