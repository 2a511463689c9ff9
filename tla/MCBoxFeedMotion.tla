--------------------------- MODULE MCBoxFeedMotion ---------------------------
(* Two slots, values at which profiles stop fitting, calls of two builds    *)
(* and one that is not as traced.                                           *)
EXTENDS MotionProperties

Offered == [key \in {"fast_length", "fast_speed_1", "unload_speed_1", "unload_speed_2"} |->
    CASE key = "fast_length" -> {Unset, 225}
      [] key = "fast_speed_1" -> {150}
      [] key = "unload_speed_1" -> {Unset, 85}
      [] OTHER -> {65}]

SavedByHand == {<<<<Global, "unload_extruder_length">>, 19>>, <<<<Global, "fast_length">>, 224>>}

Short == [Baseline.load EXCEPT !.l1 = 400, !.l2 = 150]
TracedLoads == {Baseline.load, Short, [Baseline.load EXCEPT !.v3 = 65]}
TracedUnloads == {Baseline.unload, [Baseline.unload EXCEPT !.l1 = -49], [Baseline.unload EXCEPT !.v1 = 90, !.v2 = 65]}
Lengths == {120, 1001}
=============================================================================
