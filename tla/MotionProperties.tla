--------------------------- MODULE MotionProperties ---------------------------
(***************************************************************************)
(* What the Box's feed motion settings promise: motion that was changed    *)
(* can run, a change takes no profile away, and the status is current.     *)
(***************************************************************************)
EXTENDS BoxFeedMotion

\* A load that runs with other arguments than the vendor's can run on the
\* vendor's planner: its first stage is long enough to reach its speed and its
\* second to slow down to the third, and it feeds at least as far as the
\* vendor's did before it gives the filament up.
LoadFeasible(call, run) ==
    /\ 0 < run.v3 /\ run.v3 < run.v1 /\ run.v3 < run.v2
    /\ run.l1 * 2 * run.accel >= run.v1 * run.v1
    /\ run.l2 * 2 * run.accel >= Change(run.v1, run.v2) + Change(run.v2, run.v3)
    /\ run.l2 <= call.l2
    /\ run.l1 + run.l2 + run.l3 >= call.l1 + call.l2 + call.l3

\* An unload keeps the vendor's distances and two different speeds that fit them.
UnloadFeasible(call, run) ==
    /\ run.l1 = call.l1 /\ run.l2 = call.l2 /\ run.v1 # run.v2
    /\ Abs(run.l1) * 2 * run.accel >= run.v1 * run.v1
    /\ Abs(run.l2) * 2 * run.accel >= Change(run.v1, run.v2) + run.v2 * run.v2

\* Whatever is saved, by the command, by hand, or by a command that failed half
\* way, and whatever arguments the vendor calls with: the motion that runs is
\* the vendor's own, or can run.
FeasibleMotion ==
    /\ \A slot \in Slots, call \in LoadCalls :
         LoadRun(slot, call) = call \/ LoadFeasible(call, LoadRun(slot, call))
    /\ \A slot \in Slots, call \in UnloadCalls :
         UnloadRun(slot, call) = call \/ UnloadFeasible(call, UnloadRun(slot, call))
    /\ \A length \in RetractCalls :
         RetractRun(length) = length \/ RetractRun(length) \in Limits["unload_extruder_length"]

\* The status that Moonraker is served is the one the settings and the observed
\* arguments have now, though it is built only after one of them changed.
ServedIsCurrent == cache # NoCache => cache = Status(variables, vendor)

Running(saved) == {slot \in Slots : CheckSettings(saved, slot)}
RunningAfter == {slot \in Slots : CheckSettings(variables', slot)}

\* A command that completes leaves every slot that ran on its settings running:
\* a global change also answers for the slots that override a part of it.
\* (Not a command that only clears overrides of a slot: it is not checked.)
ChangesKeepRunning == [][answer' = "changed" => Running(variables) \subseteq RunningAfter]_vars
=============================================================================
