----------------------------- MODULE FeedProfiles -----------------------------
(***************************************************************************)
(* The arithmetic of klipper/tltg/box_feed_motion.py: how saved settings   *)
(* are laid over the arguments with which the vendor calls a load and an   *)
(* unload, and when the result can run.  Distances are whole millimetres;  *)
(* the code's floating-point comparisons are made on whole numbers by      *)
(* multiplying both sides with twice the acceleration.                     *)
(***************************************************************************)
EXTENDS Integers

LoadKeys == {"fast_length", "fast_speed_1", "fast_speed_2", "approach_speed", "load_accel"}
UnloadKeys == {"unload_speed_1", "unload_speed_2", "unload_accel"}
GlobalOnly == {"unload_extruder_length"}
SlotKeys == LoadKeys \cup UnloadKeys
Keys == SlotKeys \cup GlobalOnly

Limits == [key \in Keys |->
    CASE key = "fast_length" -> 100 .. 2000
      [] key \in {"fast_speed_1", "fast_speed_2", "unload_speed_1", "unload_speed_2"} -> 10 .. 150
      [] key = "approach_speed" -> 2 .. 40
      [] key \in {"load_accel", "unload_accel"} -> 20 .. 400
      [] OTHER -> 20 .. 300]

\* The arguments of the two calls: lengths, speeds of their stages, acceleration.
LoadArguments == [l1 : Int, l2 : Int, l3 : Int, v1 : Int, v2 : Int, v3 : Int, accel : Int]
UnloadArguments == [l1 : Int, l2 : Int, v1 : Int, v2 : Int, accel : Int]

Abs(n) == IF n < 0 THEN -n ELSE n
Least(a, b) == IF a <= b THEN a ELSE b
Greatest(a, b) == IF a <= b THEN b ELSE a

\* The distance of a speed change, times twice the acceleration.
Change(a, b) == Abs(a * a - b * b)

\* As a bug would have it: rounded down.
Floored(change, accel) == change \div (2 * accel)

\* The whole millimetres in which a change times twice the acceleration fits.
Ceiling(change, accel) == (change + 2 * accel - 1) \div (2 * accel)

PlausibleLoad(v) ==
    /\ v.l1 \in 50 .. 3000 /\ v.l2 \in 50 .. 3000 /\ v.l3 \in 10 .. 3000
    /\ 0 < v.v3 /\ v.v3 < Least(v.v1, v.v2) /\ Greatest(v.v1, v.v2) <= 300
    /\ v.accel \in 10 .. 2000

PlausibleUnload(v) ==
    /\ v.l1 \in -5000 .. -50 /\ v.l2 \in -5000 .. -50
    /\ v.v1 \in 1 .. 300 /\ v.v2 \in 1 .. 300 /\ v.accel \in 10 .. 2000

\* settings maps some keys to values; the vendor's argument stands for the rest.
Setting(settings, key, default) == IF key \in DOMAIN settings THEN settings[key] ELSE default

Laid(v, s) == [v EXCEPT !.v1 = Setting(s, "fast_speed_1", v.v1), !.v2 = Setting(s, "fast_speed_2", v.v2),
                        !.v3 = Setting(s, "approach_speed", v.v3), !.accel = Setting(s, "load_accel", v.accel)]

FastLength(v, s) == Setting(s, "fast_length", v.l1 + v.l2)

\* The second stage keeps the vendor's length unless the first then could not
\* reach its speed; what the fast stages lose, the approach gains.
LoadLengths(v, s) ==
    LET p == Laid(v, s)
        fast == FastLength(v, s)
        l2 == Least(v.l2, fast - Ceiling(p.v1 * p.v1, p.accel))
    IN [p EXCEPT !.l1 = fast - l2, !.l2 = l2, !.l3 = v.l3 + Greatest(0, v.l1 + v.l2 - fast)]

LoadFits(v, s) ==
    LET p == LoadLengths(v, s) IN
    \/ DOMAIN s = {}
    \/ /\ p.v3 < Least(p.v1, p.v2)
       /\ p.l2 >= Ceiling(Change(p.v1, p.v2) + Change(p.v2, p.v3), p.accel)

LoadProfile(v, s) == IF DOMAIN s = {} THEN v ELSE LoadLengths(v, s)

UnloadProfile(v, s) == [v EXCEPT !.v1 = Setting(s, "unload_speed_1", v.v1),
                                 !.v2 = Setting(s, "unload_speed_2", v.v2),
                                 !.accel = Setting(s, "unload_accel", v.accel)]

UnloadFits(v, s) ==
    LET p == UnloadProfile(v, s) IN
    \/ DOMAIN s = {}
    \/ /\ p.v1 # p.v2
       /\ Abs(p.l1) * 2 * p.accel >= p.v1 * p.v1
       /\ Abs(p.l2) * 2 * p.accel >= Change(p.v1, p.v2) + p.v2 * p.v2
=============================================================================
