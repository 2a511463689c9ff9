----------------------------- MODULE BoxFilament -----------------------------
(***************************************************************************)
(* The filament of the QIDI Box and the flows that move it:                *)
(* klipper/tltg/box_loaded_slot.py (whose filament is at the hub),         *)
(* box_flow_recovery.py (failed and stopped flows, stranded filament),     *)
(* box_slot_jog.py (slot motion by hand), around QIDI's flow controller,   *)
(* which is modelled from what these modules and                           *)
(* openspec/observations/qidi-box say of it.  Commands hold Klipper's      *)
(* G-code lock; a stop through the web endpoint, the hands of the user     *)
(* and a shutdown come between their steps.                                *)
(***************************************************************************)
EXTENDS Naturals, Sequences, FiniteSets

CONSTANTS
    Slots,          \* the Box slots
    External,       \* slot16, the external spool
    NoSlot,         \* the empty hub record
    MaxEvents       \* bound on commands, prints, insertions, faults and hands together

ASSUME FilamentAssumption ==
    IsFiniteSet(Slots) /\ External \notin Slots /\ NoSlot \notin Slots /\ MaxEvents \in Nat

VARIABLES
    at,             \* how far each slot's filament reaches from its inlet sensor
    loose,          \* a piece that no feeder holds: how far it reaches
    last,           \* the saved last_load_slot
    hubSlot,        \* the saved tltg_box_hub_slot
    task,           \* QIDI's current flow, or NoTask
    printing,       \* "idle", "printing" or "paused"
    cmd,            \* the command that holds the G-code lock, or NoCommand
    motion,         \* the slot motion in progress, or NoMotion
    web,            \* a web stop whose heater script waits for the lock, or NoStop
    heat,           \* the nozzle has a target
    up,             \* Klipper is not shut down
    stale,          \* a motion ended unrecorded since the hub record was last written
    events

saved == <<last, hubSlot>>
filament == <<at, loose>>
vars == <<at, loose, last, hubSlot, task, printing, cmd, motion, web, heat, up, stale, events>>

Out == 0
Inlet == 1
Hub == 2
Toolhead == 3

NoTask == [queue |-> <<>>, paused |-> FALSE, slot |-> NoSlot]
NoCommand == [kind |-> "none", slot |-> NoSlot, pc |-> "start"]
NoMotion == [by |-> "none", slot |-> NoSlot, before |-> FALSE]
NoStop == "none"

Active == printing \in {"printing", "paused"}

-----------------------------------------------------------------------------
(* Sensors and the hub record.                                              *)

Reaches(p, place) == (\E s \in Slots : p[s] >= place) \/ loose >= place
HubOccupied == Reaches(at, Hub)
ToolheadFilament == Reaches(at, Toolhead)
Inlets == {s \in Slots : at[s] >= Inlet}

\* As a bug would have it: every motion that ends at an occupied hub is recorded.
RecordAlways(slot, before, p) == IF Reaches(p, Hub) THEN slot ELSE NoSlot

\* What a motion leaves in the record, read from the hub before and after it.
RecordAfter(slot, before, p) ==
    CASE Reaches(p, Hub) /\ ~before -> slot
      [] ~Reaches(p, Hub) -> NoSlot
      [] OTHER -> hubSlot

RecordMotion(slot, before, p) ==
    /\ hubSlot' = RecordAfter(slot, before, p)
    /\ stale' = (stale /\ before /\ Reaches(p, Hub))

\* Klipper shut down, the motor was taken, or the save failed.
Unrecorded == stale' = TRUE /\ UNCHANGED hubSlot

StartMotion(by, slot) == motion' = [by |-> by, slot |-> slot, before |-> HubOccupied]

\* Where a slot's filament may be after a motion: one filament fits past the hub.
Others(slot, place) == loose >= place \/ \E s \in Slots \ {slot} : at[s] >= place
Forward(slot, place) ==
    {p \in at[slot] .. place : /\ p > at[slot] => at[slot] >= Inlet
                               /\ p >= Hub => p = at[slot] \/ ~Others(slot, Hub)}
Back(slot, place) == {p \in place .. at[slot] : TRUE}
Moves(m) ==
    CASE m.by \in {"load", "jog in"} -> Forward(m.slot, Toolhead)
      [] m.by = "insert" -> Forward(m.slot, Hub)
      [] m.by \in {"unload", "back off"} -> IF at[m.slot] >= Hub THEN Back(m.slot, Inlet) ELSE Back(m.slot, Out)
      [] OTHER -> Back(m.slot, Out)

Moved(slot, place) == [at EXCEPT ![slot] = place]

-----------------------------------------------------------------------------
(* Whose filament is at the hub.                                            *)

\* The slot with filament at its inlet, when there is only one.
OnlySlot == IF Cardinality(Inlets) = 1 THEN CHOOSE s \in Slots : s \in Inlets ELSE NoSlot

\* What a flow's unload step takes for the loaded slot.
UnloadSlot ==
    CASE last # External \/ ~HubOccupied -> last
      [] last = External /\ HubOccupied /\ hubSlot \in Inlets -> hubSlot
      [] last = External /\ HubOccupied /\ hubSlot \notin Inlets /\ OnlySlot # NoSlot -> OnlySlot
      [] OTHER -> External

\* What the unload and eject commands take for the stranded filament's slot.
HubSlot ==
    LET named == {hubSlot, last} \cap Inlets IN
    CASE Cardinality(named) = 1 -> CHOOSE s \in Slots : s \in named
      [] Cardinality(named) = 2 -> NoSlot
      [] OTHER -> OnlySlot

-----------------------------------------------------------------------------
(* Stopping a flow.                                                         *)

\* As a bug would have it: the script waits for the lock, whoever holds it.
HoldsLockNever(c) == FALSE

\* The heater script of a stop runs at once for a command, which holds the lock.
HoldsLock(c) == c # NoCommand
LockIsFree == cmd = NoCommand

End == cmd' = NoCommand
Goto(pc) == cmd' = [cmd EXCEPT !.pc = pc]

\* Where a command waits for the heater script before it goes on at the place named.
Waiting == [done |-> "stopping done", retract |-> "stopping retract"]

\* manager.stop() from inside the command; it goes on at the place named.
StopFlow(pc) == task' = NoTask /\ Goto(IF task = NoTask THEN pc ELSE Waiting[pc])

Stopping(pc) ==
    /\ cmd.pc = Waiting[pc]
    /\ HoldsLock(cmd) \/ LockIsFree
    /\ heat' = (heat /\ Active)
    /\ Goto(pc)
    /\ UNCHANGED <<filament, saved, task, printing, motion, web, up, stale, events>>

StopCommand ==
    /\ cmd.kind = "stop" /\ cmd.pc = "start"
    /\ StopFlow("done")
    /\ UNCHANGED <<filament, saved, printing, motion, web, heat, up, stale, events>>

Done ==
    /\ cmd.pc = "done"
    /\ End
    /\ UNCHANGED <<filament, saved, task, printing, motion, web, heat, up, stale, events>>

WebStop ==
    /\ up /\ task # NoTask /\ web = NoStop /\ events < MaxEvents
    /\ events' = events + 1
    /\ task' = NoTask
    /\ web' = printing
    /\ UNCHANGED <<filament, saved, printing, cmd, motion, heat, up, stale>>

\* The print state that decides is the one before the wait for the lock.
WebHeater ==
    /\ up /\ web # NoStop /\ LockIsFree
    /\ web' = NoStop
    /\ heat' = (heat /\ web # "idle")
    /\ UNCHANGED <<filament, saved, task, printing, cmd, motion, up, stale, events>>

-----------------------------------------------------------------------------
(* QIDI's flows.                                                            *)

Hot(queue) == \E i \in DOMAIN queue : queue[i] # "eject"

StartFlow(slot, queue) ==
    /\ task' = [queue |-> queue, paused |-> FALSE, slot |-> slot]
    /\ heat' = (heat \/ Hot(queue))
    /\ Goto("run")

LoadFlow ==
    CASE ~ToolheadFilament /\ HubOccupied -> <<"unload", "load">>
      [] ~ToolheadFilament /\ ~HubOccupied -> <<"load">>
      [] ToolheadFilament /\ HubOccupied /\ last # External -> <<"unload", "load">>
      [] OTHER -> <<>>
UnloadFlow == IF ToolheadFilament /\ HubOccupied /\ last # External THEN <<"unload">> ELSE <<>>
EjectFlow(slot) ==
    CASE ~HubOccupied \/ (last \in Slots \ {slot} /\ ToolheadFilament) -> <<"eject">>
      [] HubOccupied /\ last = External -> <<>>
      [] OTHER -> <<"unload", "eject">>

\* A print-time tool change decides its steps from the sensors.
ToolFlow == IF HubOccupied THEN <<"unload", "load">> ELSE <<"load">>

DuringPrint == cmd.kind \in {"tool", "resume"}

\* A flow whose step failed waits, paused, and its command returns; during a
\* tool change the print is paused with it.
PauseFlow ==
    /\ task' = IF task = NoTask THEN NoTask ELSE [task EXCEPT !.paused = TRUE]
    /\ printing' = IF DuringPrint THEN "paused" ELSE printing
    /\ End

\* As a bug would have it: the error leaves the flow as it is.
EscapeAfterError == UNCHANGED <<task, printing>> /\ End

\* The step raised instead: this package pauses the flow that QIDI's runner left.
PauseAfterError == PauseFlow

\* The same for the motion of a step, of which a task may have been stopped meanwhile.
StepDone == task' = IF task = NoTask THEN NoTask ELSE [task EXCEPT !.queue = Tail(@)]

RunStep ==
    /\ cmd.pc = "run" /\ motion = NoMotion /\ task.queue # <<>>
    /\ UNCHANGED <<filament, hubSlot, web, up, stale, events>>
    /\ LET step == Head(task.queue) IN
       \/ /\ step = "unload" /\ ~HubOccupied
          /\ StepDone
          /\ UNCHANGED <<last, printing, cmd, motion, heat>>
       \/ /\ step = "unload" /\ HubOccupied /\ UnloadSlot = External
          /\ PauseFlow
          /\ heat' = (heat /\ Active)
          /\ UNCHANGED <<last, motion>>
       \/ /\ step = "unload" /\ HubOccupied /\ UnloadSlot # External
          /\ last' = UnloadSlot
          /\ StartMotion("unload", UnloadSlot)
          /\ UNCHANGED <<task, printing, cmd, heat>>
       \/ /\ step # "unload"
          /\ StartMotion(step, task.slot)
          /\ UNCHANGED <<last, task, printing, cmd, heat>>

\* QIDI names the slot once its filament is at the hub, and none once the hub is clear.
LastAfter(m, p) ==
    CASE m.by = "load" /\ p[m.slot] >= Hub -> m.slot
      [] m.by = "unload" /\ ~Reaches(p, Hub) -> External
      [] OTHER -> last

Succeeded(m, p) ==
    CASE m.by = "load" -> p[m.slot] = Toolhead
      [] m.by = "unload" -> ~Reaches(p, Hub)
      [] OTHER -> p[m.slot] = Out

StepMoved ==
    /\ motion.by \in {"unload", "load", "eject"}
    /\ \E place \in Moves(motion), raised \in BOOLEAN :
         LET p == Moved(motion.slot, place) IN
         /\ raised => events < MaxEvents
         /\ events' = IF raised THEN events + 1 ELSE events
         /\ at' = p
         /\ last' = LastAfter(motion, p)
         /\ RecordMotion(motion.slot, motion.before, p)
         /\ \/ ~raised /\ Succeeded(motion, p) /\ StepDone /\ UNCHANGED <<printing, cmd>>
            \/ ~raised /\ ~Succeeded(motion, p) /\ PauseFlow
            \/ raised /\ PauseAfterError
    /\ motion' = NoMotion
    /\ UNCHANGED <<loose, web, heat, up>>

\* The last step is done, and the completion script cools the nozzle; or the
\* flow was stopped under the command.
FlowEnds ==
    /\ cmd.pc = "run" /\ motion = NoMotion /\ task.queue = <<>>
    /\ task' = NoTask
    /\ heat' = IF task = NoTask \/ DuringPrint THEN heat ELSE FALSE
    /\ printing' = IF cmd.kind = "resume" THEN "printing" ELSE printing
    /\ End
    /\ UNCHANGED <<filament, saved, motion, web, up, stale, events>>

-----------------------------------------------------------------------------
(* Commands.                                                                *)

Begin(kind, slot) ==
    /\ up /\ LockIsFree /\ motion = NoMotion /\ events < MaxEvents
    /\ events' = events + 1
    /\ cmd' = [kind |-> kind, slot |-> slot, pc |-> "start"]
    /\ UNCHANGED <<filament, saved, task, printing, motion, web, heat, up, stale>>

LoadCommand ==
    /\ cmd.kind = "load" /\ cmd.pc = "start"
    /\ StartFlow(cmd.slot, LoadFlow)
    /\ UNCHANGED <<filament, saved, printing, motion, web, up, stale, events>>

\* Outside a print QIDI's tool change is refused.  Resuming a print redoes
\* the change that paused it.
ToolCommand ==
    /\ cmd.kind \in {"tool", "resume"} /\ cmd.pc = "start"
    /\ \/ cmd.kind = "tool" /\ Active /\ StartFlow(cmd.slot, ToolFlow)
       \/ cmd.kind = "resume" /\ printing = "paused"
          /\ IF task.paused THEN StartFlow(task.slot, ToolFlow) ELSE StartFlow(NoSlot, <<>>)
       \/ (IF cmd.kind = "tool" THEN ~Active ELSE printing # "paused") /\ End /\ UNCHANGED <<task, heat>>
    /\ UNCHANGED <<filament, saved, printing, motion, web, up, stale, events>>

RetryCommand ==
    /\ cmd.kind = "retry" /\ cmd.pc = "start"
    /\ IF task.paused THEN /\ task' = [task EXCEPT !.paused = FALSE]
                           /\ heat' = (heat \/ Hot(task.queue))
                           /\ Goto("run")
       ELSE End /\ UNCHANGED <<task, heat>>
    /\ UNCHANGED <<filament, saved, printing, motion, web, up, stale, events>>

\* QIDI's own unload and eject.
Original == StartFlow(cmd.slot, IF cmd.kind = "unload" THEN UnloadFlow ELSE EjectFlow(cmd.slot))

\* What the unload and eject commands decide from the sensors and the records.
Plan ==
    CASE task # NoTask /\ ~task.paused -> "original"
      [] ToolheadFilament -> "original"
      [] ~HubOccupied -> IF cmd.kind = "unload" THEN "refuse" ELSE "original"
      [] HubOccupied /\ Active -> IF cmd.kind = "unload" THEN "refuse" ELSE "original"
      [] OTHER -> IF HubSlot = cmd.slot THEN "retract" ELSE "refuse"

FilamentCommand ==
    /\ cmd.kind \in {"unload", "eject"} /\ cmd.pc = "start"
    /\ \/ Plan = "original" /\ Original
       \/ /\ Plan = "refuse" /\ UNCHANGED heat
          /\ IF task.paused /\ ~Active THEN StopFlow("done") ELSE End /\ UNCHANGED task
       \/ Plan = "retract" /\ StopFlow("retract") /\ UNCHANGED heat
    /\ UNCHANGED <<filament, saved, printing, motion, web, up, stale, events>>

\* Why no slot may be moved by hand now.
Blocked == Active \/ task # NoTask

Retract ==
    /\ cmd.pc = "retract" /\ motion = NoMotion
    /\ IF Blocked THEN End /\ UNCHANGED motion ELSE StartMotion("retract", cmd.slot) /\ UNCHANGED cmd
    /\ UNCHANGED <<filament, saved, task, printing, web, heat, up, stale, events>>

\* QIDI's code may take the motor that a command moves by itself: the command
\* then fails and records nothing.
MotorTaken == events < MaxEvents /\ events' = events + 1 /\ Unrecorded /\ End /\ UNCHANGED last

\* The pull ends when the hub clears or the slot's inlet empties; it may end
\* with neither.  An eject then goes on with QIDI's; an unload parks.
Retracted ==
    /\ motion.by = "retract"
    /\ \E place \in Back(cmd.slot, Out) :
         LET p == Moved(cmd.slot, place) IN
         /\ at[cmd.slot] >= Hub => place # Out
         /\ at' = p
         /\ \/ /\ RecordMotion(cmd.slot, motion.before, p) /\ UNCHANGED events
               /\ last' = IF ~Reaches(p, Hub) /\ last = cmd.slot THEN External ELSE last
               /\ IF Reaches(p, Hub) THEN End ELSE Goto("clear")
            \/ MotorTaken
    /\ motion' = NoMotion
    /\ UNCHANGED <<loose, task, printing, web, heat, up>>

Cleared ==
    /\ cmd.pc = "clear" /\ motion = NoMotion
    /\ IF cmd.kind = "eject" THEN Original /\ UNCHANGED motion
       ELSE StartMotion("park", cmd.slot) /\ UNCHANGED <<task, heat, cmd>>
    /\ UNCHANGED <<filament, saved, printing, web, up, stale, events>>

Parked ==
    /\ motion.by = "park"
    /\ \E place \in Back(cmd.slot, Out) :
         /\ at' = Moved(cmd.slot, place)
         /\ \/ RecordMotion(cmd.slot, motion.before, at') /\ End /\ UNCHANGED <<last, events>>
            \/ MotorTaken
    /\ motion' = NoMotion
    /\ UNCHANGED <<loose, task, printing, web, heat, up>>

JogCommand ==
    /\ cmd.kind \in {"jog in", "jog out"} /\ cmd.pc = "start" /\ motion = NoMotion
    /\ IF Blocked THEN End /\ UNCHANGED motion ELSE StartMotion(cmd.kind, cmd.slot) /\ UNCHANGED cmd
    /\ UNCHANGED <<filament, saved, task, printing, web, heat, up, stale, events>>

Jogged ==
    /\ motion.by \in {"jog in", "jog out"}
    /\ \E place \in Moves(motion) :
         /\ at' = Moved(motion.slot, place)
         /\ \/ RecordMotion(motion.slot, motion.before, at') /\ End /\ UNCHANGED <<last, events>>
            \/ MotorTaken
    /\ motion' = NoMotion
    /\ UNCHANGED <<loose, task, printing, web, heat, up>>

-----------------------------------------------------------------------------
(* Around them.                                                             *)

StartPrint ==
    /\ up /\ LockIsFree /\ ~Active /\ events < MaxEvents
    /\ events' = events + 1
    /\ printing' = "printing" /\ heat' = TRUE
    /\ UNCHANGED <<filament, saved, task, cmd, motion, web, up, stale>>

EndPrint ==
    /\ up /\ LockIsFree /\ Active
    /\ printing' = "idle" /\ heat' = FALSE
    /\ UNCHANGED <<filament, saved, task, cmd, motion, web, up, stale, events>>

\* A command has decided to pull a slot back, and does so before a hand can act.
AboutToPull == cmd.pc \in {"stopping retract", "retract"} /\ motion = NoMotion

\* Inserted filament, during a command too, is fed to the hub and backed off
\* again, unless a flow, a print or another motion is in progress.
Insert(slot) ==
    /\ at[slot] = Out /\ ~AboutToPull /\ events < MaxEvents
    /\ events' = events + 1
    /\ at' = Moved(slot, Inlet)
    /\ IF up /\ task = NoTask /\ ~Active /\ motion = NoMotion THEN StartMotion("insert", slot) ELSE UNCHANGED motion
    /\ UNCHANGED <<loose, saved, task, printing, cmd, web, heat, up, stale>>

Inserted ==
    /\ motion.by \in {"insert", "back off"}
    /\ \E place \in Moves(motion) :
         /\ at' = Moved(motion.slot, place)
         /\ RecordMotion(motion.slot, motion.before, at')
         /\ motion' = IF motion.by = "insert" /\ place = Hub
                      THEN [by |-> "back off", slot |-> motion.slot, before |-> TRUE] ELSE NoMotion
    /\ UNCHANGED <<loose, last, task, printing, cmd, web, heat, up, events>>

\* Filament is pulled out of its inlet, runs out or breaks, or a piece is removed.
Hands ==
    /\ motion = NoMotion /\ events < MaxEvents
    /\ events' = events + 1
    /\ \/ \E s \in Slots : at[s] = Inlet /\ at' = Moved(s, Out) /\ UNCHANGED loose
       \/ \E s \in Slots : at[s] >= Hub /\ at' = Moved(s, Out) /\ loose' = at[s]
       \/ loose # Out /\ loose' = Out /\ UNCHANGED at
    /\ UNCHANGED <<saved, task, printing, cmd, motion, web, heat, up, stale>>

\* A Box or Klipper is lost, in the middle of a motion too: nothing is recorded.
Shutdown ==
    /\ up /\ events < MaxEvents
    /\ events' = events + 1
    /\ IF motion = NoMotion THEN UNCHANGED <<at, stale>>
       ELSE /\ \E place \in Moves(motion) : at' = Moved(motion.slot, place)
            /\ stale' = TRUE
    /\ up' = FALSE /\ heat' = FALSE /\ printing' = "idle"
    /\ task' = NoTask /\ cmd' = NoCommand /\ motion' = NoMotion /\ web' = NoStop
    /\ UNCHANGED <<loose, saved>>

Restart ==
    /\ ~up /\ up' = TRUE
    /\ UNCHANGED <<filament, saved, task, printing, cmd, motion, web, heat, stale, events>>

-----------------------------------------------------------------------------
Init ==
    /\ at \in [Slots -> {Out, Inlet}]
    /\ loose = Out /\ last = External /\ hubSlot = NoSlot
    /\ task = NoTask /\ cmd = NoCommand /\ motion = NoMotion /\ web = NoStop
    /\ printing = "idle" /\ heat = FALSE /\ up = TRUE /\ stale = FALSE /\ events = 0

Commands ==
    \/ \E pc \in {"done", "retract"} : Stopping(pc)
    \/ StopCommand \/ Done \/ LoadCommand \/ ToolCommand \/ RetryCommand \/ FilamentCommand
    \/ Retract \/ Cleared \/ JogCommand \/ RunStep \/ FlowEnds

Motions == StepMoved \/ Retracted \/ Parked \/ Jogged \/ Inserted

Next ==
    \/ Commands \/ Motions \/ WebHeater \/ WebStop
    \/ \E slot \in Slots : \/ \E kind \in {"load", "unload", "eject", "jog in", "jog out", "tool"} : Begin(kind, slot)
                          \/ Insert(slot)
    \/ \E kind \in {"stop", "retry", "resume"} : Begin(kind, NoSlot)
    \/ StartPrint \/ EndPrint \/ Hands \/ Shutdown \/ Restart

Spec == Init /\ [][Next]_vars

\* Klipper runs a command's next part and ends a motion; its lock is granted in turn.
FairSpec == Spec /\ WF_vars(Commands) /\ WF_vars(Motions) /\ SF_vars(WebHeater)
=============================================================================
