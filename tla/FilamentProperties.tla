-------------------------- MODULE FilamentProperties --------------------------
(***************************************************************************)
(* What the Box's flow recovery promises: no command hangs, no flow is     *)
(* left without a way out, and no slot is pulled for another's filament.   *)
(***************************************************************************)
EXTENDS BoxFilament

\* Every command and every web stop returns, FLOW_STOP included, whose heater
\* script needs the lock that the command holds.
CommandsReturn == cmd # NoCommand \/ web # NoStop ~> cmd = NoCommand /\ web = NoStop

\* When no command runs, a flow can be retried or stopped: a step that failed,
\* raised or was stopped never leaves a flow that is running by nobody, nor a
\* hot nozzle without a flow or a print.
NothingLeftRunning ==
    up /\ cmd = NoCommand /\ web = NoStop =>
        /\ task # NoTask => task.paused
        /\ heat => task # NoTask \/ Active

\* The slot that is pulled back, by the commands or by the unload step they
\* name it for, is the one whose filament is at the hub, through shutdowns,
\* restarts and jogs, unless a motion ended unrecorded or the filament broke.
RightSlotNamed ==
    [][\/ motion'.by = "retract" /\ motion # motion'
       \/ motion'.by = "unload" /\ last' # last
       => stale \/ loose # Out \/ (HubOccupied => at[motion'.slot] >= Hub)]_vars
=============================================================================
