---------------------------- MODULE MCBoxFilament ----------------------------
(* Two slots share the hub.                                                 *)
EXTENDS FilamentProperties

CONSTANTS s0, s1
=============================================================================
