------------------------------ MODULE MCFirmware ------------------------------
(* A toolhead and one Box: every build of each, not every pair of builds.   *)
EXTENDS FirmwareProperties, TLC

CONSTANTS thr, box1

BuildPairs == {thr :> "first" @@ box1 :> "box", thr :> "second" @@ box1 :> "box",
               thr :> "unknown" @@ box1 :> "unknown"}
=============================================================================
