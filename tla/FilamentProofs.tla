---------------------------- MODULE FilamentProofs ----------------------------
(***************************************************************************)
(* What the flow recovery of the Box promises, for any slots and any       *)
(* number of commands, prints, hands and shutdowns: no flow or hot nozzle  *)
(* is left behind, and no slot is pulled for another's filament.           *)
(***************************************************************************)
EXTENDS FilamentProperties, FiniteSetTheorems, TLAPS

-----------------------------------------------------------------------------
(* The invariants.                                                          *)

Steps == {"load", "unload", "eject"}
SlotKinds == {"load", "unload", "eject", "jog in", "jog out", "tool"}
PlainKinds == {"stop", "retry", "resume"}
Places == {"start", "run", "done", "retract", "clear", "stopping done", "stopping retract"}
Pulling == {"retract", "stopping retract", "clear"}
Drivers == Steps \cup {"insert", "back off", "retract", "park", "jog in", "jog out"}
Tasks == [queue : Seq(Steps), paused : BOOLEAN, slot : Slots \cup {NoSlot}]
Cmds == [kind : SlotKinds, slot : Slots, pc : Places] \cup [kind : PlainKinds, slot : {NoSlot}, pc : Places]

FilamentOK == at \in [Slots -> Out .. Toolhead] /\ loose \in Out .. Toolhead
RecordOK == last \in Slots \cup {External} /\ hubSlot \in Slots \cup {NoSlot} /\ stale \in BOOLEAN
TaskOK == task \in Tasks /\ (task = NoTask \/ task.slot \in Slots)
CmdOK == cmd \in Cmds \cup {NoCommand} /\ (cmd.pc \in Pulling => cmd.kind \in {"unload", "eject"})
StateOK ==
    /\ printing \in {"idle", "printing", "paused"} /\ web \in {NoStop, "idle", "printing", "paused"}
    /\ heat \in BOOLEAN /\ up \in BOOLEAN /\ events \in Nat

\* A motion belongs to a command at the place that waits for it, or to an insertion.
MotionOK ==
    \/ motion = NoMotion
    \/ /\ motion \in [by : Drivers, slot : Slots, before : BOOLEAN]
       /\ motion.before = HubOccupied
       /\ motion.by \in Steps => cmd.pc = "run" /\ (task = NoTask \/ task.queue # <<>>)
       /\ motion.by = "retract" => cmd.pc = "retract" /\ motion.slot = cmd.slot
       /\ motion.by = "park" => cmd.pc = "clear" /\ motion.slot = cmd.slot
       /\ motion.by \in {"jog in", "jog out"} => cmd.pc = "start" /\ cmd.kind \in {"jog in", "jog out"}

\* Nothing outlives a shutdown.
DownInv == up \/ (task = NoTask /\ cmd = NoCommand /\ motion = NoMotion /\ web = NoStop /\ ~heat)

TypeInv == FilamentOK /\ RecordOK /\ TaskOK /\ CmdOK /\ StateOK /\ MotionOK /\ DownInv

\* A flow runs only under the command that runs it.
RunnerInv == task = NoTask \/ task.paused \/ cmd.pc = "run"

\* A nozzle that is hot for nothing is about to be cooled, by a web stop that
\* saw no print or by the stop of the command.
HeatInv ==
    heat /\ ~Active /\ task = NoTask =>
        web = "idle" \/ cmd.pc \in {"stopping done", "stopping retract"}

\* A tool change runs in a print, and a resume in a paused one.
PrintInv ==
    /\ cmd.kind = "tool" /\ cmd.pc = "run" => Active
    /\ cmd.kind = "resume" /\ cmd.pc = "run" => printing = "paused"

FlowInv == RunnerInv /\ HeatInv /\ PrintInv

\* One filament fits past the hub, and a broken piece is one.
OneAtHub ==
    /\ \A s, t \in Slots : at[s] >= Hub /\ at[t] >= Hub => s = t
    /\ loose # Out => loose >= Hub /\ \A s \in Slots : at[s] < Hub

\* The hub record names the slot whose filament is at the hub.
RecordTrue ==
    ~stale /\ loose = Out /\ HubOccupied => hubSlot \in Slots /\ at[hubSlot] >= Hub

\* So does a command that is about to pull it back, beside which an insertion
\* finds the hub occupied.
PullTrue ==
    cmd.pc \in {"retract", "stopping retract"} =>
        /\ ~stale /\ loose = Out /\ HubOccupied => at[cmd.slot] >= Hub
        /\ motion.by = "insert" => HubOccupied

HubInv == OneAtHub /\ RecordTrue /\ PullTrue

-----------------------------------------------------------------------------
(* Sequences of steps, motions and their places.                            *)

LEMMA Queues ==
    /\ <<>> \in Seq(Steps) /\ <<"load">> \in Seq(Steps) /\ <<"unload">> \in Seq(Steps)
    /\ <<"eject">> \in Seq(Steps) /\ <<"unload", "load">> \in Seq(Steps)
    /\ <<"unload", "eject">> \in Seq(Steps)
  BY DEF Steps

LEMMA Flows ==
    /\ LoadFlow \in Seq(Steps) /\ UnloadFlow \in Seq(Steps) /\ ToolFlow \in Seq(Steps)
    /\ \A slot : EjectFlow(slot) \in Seq(Steps)
<1>1. LoadFlow \in Seq(Steps)
  BY Queues DEF LoadFlow
<1>2. UnloadFlow \in Seq(Steps) /\ ToolFlow \in Seq(Steps)
  BY Queues DEF UnloadFlow, ToolFlow
<1>3. \A slot : EjectFlow(slot) \in Seq(Steps)
  BY Queues DEF EjectFlow
<1> QED
  BY <1>1, <1>2, <1>3

LEMMA MovedOK ==
    ASSUME FilamentOK, NEW slot \in Slots, NEW place \in Out .. Toolhead
    PROVE  /\ Moved(slot, place) \in [Slots -> Out .. Toolhead]
           /\ Moved(slot, place)[slot] = place
           /\ \A s \in Slots \ {slot} : Moved(slot, place)[s] = at[s]
  BY DEF FilamentOK, Moved

\* A motion that reaches the hub started there or found nothing there.
LEMMA BackPlaces ==
    ASSUME FilamentOK, NEW slot \in Slots, NEW low \in {Out, Inlet}, NEW place \in Back(slot, low)
    PROVE  place \in Out .. Toolhead /\ (place >= Hub => at[slot] >= Hub)
<1>1. at[slot] \in Out .. Toolhead
  BY DEF FilamentOK
<1>2. place \in low .. at[slot]
  BY DEF Back
<1> QED
  BY <1>1, <1>2 DEF Out, Inlet, Hub, Toolhead

LEMMA ForwardPlaces ==
    ASSUME FilamentOK, NEW slot \in Slots, NEW high \in {Hub, Toolhead}, NEW place \in Forward(slot, high)
    PROVE  place \in Out .. Toolhead /\ (place >= Hub => at[slot] >= Hub \/ ~Others(slot, Hub))
<1>1. at[slot] \in Out .. Toolhead
  BY DEF FilamentOK
<1>2. place \in at[slot] .. high /\ (place >= Hub => place = at[slot] \/ ~Others(slot, Hub))
  BY DEF Forward
<1> QED
  BY <1>1, <1>2 DEF Out, Inlet, Hub, Toolhead

LEMMA MotionPlaces ==
    ASSUME FilamentOK, NEW m \in [by : Drivers, slot : Slots, before : BOOLEAN], NEW place \in Moves(m)
    PROVE  place \in Out .. Toolhead /\ (place >= Hub => at[m.slot] >= Hub \/ ~Others(m.slot, Hub))
<1> m.slot \in Slots
  OBVIOUS
<1>1. CASE m.by \in {"load", "jog in"}
  <2>1. place \in Forward(m.slot, Toolhead)
    BY <1>1 DEF Moves
  <2> QED
    BY <2>1, ForwardPlaces
<1>2. CASE m.by = "insert"
  <2>1. place \in Forward(m.slot, Hub)
    BY <1>2 DEF Moves
  <2> QED
    BY <2>1, ForwardPlaces
<1>3. CASE m.by \notin {"load", "jog in", "insert"}
  <2>1. place \in Back(m.slot, Inlet) \/ place \in Back(m.slot, Out)
    BY <1>3 DEF Moves
  <2> QED
    BY <2>1, BackPlaces
<1> QED
  BY <1>1, <1>2, <1>3

LEMMA StepMotion ==
    ASSUME MotionOK, motion.by # "none"
    PROVE  motion \in [by : Drivers, slot : Slots, before : BOOLEAN] /\ motion # NoMotion
<1>1. motion # NoMotion
  BY DEF NoMotion
<1> QED
  BY <1>1 DEF MotionOK

LEMMA RecordAfterOK ==
    ASSUME RecordOK, NEW slot \in Slots, NEW before \in BOOLEAN, NEW p, RecordMotion(slot, before, p)
    PROVE  hubSlot' \in Slots \cup {NoSlot} /\ stale' \in BOOLEAN
<1>1. hubSlot' \in Slots \cup {NoSlot}
  BY DEF RecordMotion, RecordAfter, RecordOK
<1>2. stale' \in BOOLEAN
  BY DEF RecordMotion
<1> QED
  BY <1>1, <1>2

LEMMA FlowTask ==
    ASSUME NEW slot, NEW queue \in Seq(Steps), slot \in Slots \/ (slot = NoSlot /\ queue = <<>>)
    PROVE  LET t == [queue |-> queue, paused |-> FALSE, slot |-> slot] IN
               t \in Tasks /\ (t = NoTask \/ t.slot \in Slots)
  BY DEF Tasks, NoTask

LEMMA Goes ==
    ASSUME CmdOK, cmd # NoCommand, NEW pc \in Places, pc \in Pulling => cmd.kind \in {"unload", "eject"}, Goto(pc)
    PROVE  /\ CmdOK' /\ cmd' # NoCommand
           /\ cmd'.pc = pc /\ cmd'.kind = cmd.kind /\ cmd'.slot = cmd.slot
  BY DEF CmdOK, Goto, Cmds, NoCommand, SlotKinds, PlainKinds, Places

LEMMA Ends ==
    ASSUME End
    PROVE  cmd' = NoCommand /\ CmdOK'
  BY DEF End, CmdOK, NoCommand, Pulling

LEMMA Hubs ==
    ASSUME UNCHANGED filament
    PROVE  HubOccupied' = HubOccupied /\ ToolheadFilament' = ToolheadFilament /\ Inlets' = Inlets
  BY DEF filament, HubOccupied, ToolheadFilament, Inlets, Reaches

LEMMA CommandKinds ==
    ASSUME CmdOK, cmd # NoCommand
    PROVE  /\ cmd \in Cmds
           /\ cmd.kind \in SlotKinds => cmd.slot \in Slots
           /\ cmd.pc \in Pulling => cmd.slot \in Slots
  BY DEF CmdOK, Cmds, SlotKinds, PlainKinds

-----------------------------------------------------------------------------
(* Types.                                                                   *)

\* What a step of a command leaves of the types when it moves no filament.
LEMMA CommandStep ==
    ASSUME TypeInv, cmd # NoCommand, UNCHANGED <<filament, hubSlot, stale, up, web, events>>,
           last' \in Slots \cup {External}, TaskOK', CmdOK', MotionOK',
           heat' \in BOOLEAN, printing' \in {"idle", "printing", "paused"}
    PROVE  TypeInv'
<1>1. up
  BY DEF TypeInv, DownInv
<1>2. FilamentOK' /\ RecordOK' /\ DownInv'
  BY <1>1 DEF TypeInv, FilamentOK, RecordOK, DownInv, filament
<1>3. StateOK'
  BY DEF TypeInv, StateOK
<1> QED
  BY <1>2, <1>3 DEF TypeInv

\* At a place that waits for no motion there is none but that of an insertion.
LEMMA NoMotionAt ==
    ASSUME TypeInv, cmd # NoCommand,
           \/ cmd.pc = "start" /\ cmd.kind \notin {"jog in", "jog out"}
           \/ cmd.pc \in {"done", "stopping done", "stopping retract"}
    PROVE  motion = NoMotion \/ motion.by \in {"insert", "back off"}
  BY DEF TypeInv, MotionOK, Drivers, Steps

LEMMA KeepsFeed ==
    ASSUME TypeInv, motion = NoMotion \/ motion.by \in {"insert", "back off"}, UNCHANGED <<motion, filament>>
    PROVE  MotionOK'
<1>1. CASE motion = NoMotion
  BY <1>1 DEF MotionOK
<1>2. CASE motion # NoMotion /\ motion.by \in {"insert", "back off"}
  BY <1>2, Hubs DEF TypeInv, MotionOK, Steps
<1> QED
  BY <1>1, <1>2

LEMMA KeepsNoMotion ==
    ASSUME motion = NoMotion, UNCHANGED motion
    PROVE  MotionOK'
  BY DEF MotionOK

LEMMA StartedMotion ==
    ASSUME NEW by \in Drivers, NEW slot \in Slots, StartMotion(by, slot), UNCHANGED filament,
           by \in Steps => cmd'.pc = "run" /\ task'.queue # <<>>,
           by = "retract" => cmd'.pc = "retract" /\ slot = cmd'.slot,
           by = "park" => cmd'.pc = "clear" /\ slot = cmd'.slot,
           by \in {"jog in", "jog out"} => cmd'.pc = "start" /\ cmd'.kind \in {"jog in", "jog out"}
    PROVE  MotionOK'
<1>1. /\ motion' \in [by : Drivers, slot : Slots, before : BOOLEAN]
      /\ motion'.before = HubOccupied /\ motion'.by = by /\ motion'.slot = slot
  BY DEF StartMotion, HubOccupied, Reaches
<1> QED
  BY <1>1, Hubs DEF MotionOK

LEMMA StopTypes ==
    ASSUME TypeInv, cmd # NoCommand, NEW pc \in {"done", "retract"}, StopFlow(pc),
           pc = "retract" => cmd.kind \in {"unload", "eject"}
    PROVE  TaskOK' /\ CmdOK' /\ cmd'.pc \in {"done", "retract", "stopping done", "stopping retract"}
<1>1. task' = NoTask /\ TaskOK'
  BY Queues DEF StopFlow, TaskOK, NoTask, Tasks
<1> DEFINE next == IF task = NoTask THEN pc ELSE Waiting[pc]
<1>w. Waiting["done"] = "stopping done" /\ Waiting["retract"] = "stopping retract"
  BY DEF Waiting
<1>2. next \in {"done", "retract", "stopping done", "stopping retract"} /\ next \in Places
  BY <1>w DEF Places
<1>3. next \in Pulling => cmd.kind \in {"unload", "eject"}
  BY <1>w DEF Pulling
<1>4. Goto(next)
  BY DEF StopFlow
<1> HIDE DEF next
<1>5. CmdOK' /\ cmd'.pc = next
  BY <1>2, <1>3, <1>4, Goes DEF TypeInv
<1> QED
  BY <1>1, <1>2, <1>5

LEMMA StartTypes ==
    ASSUME TypeInv, cmd # NoCommand, NEW slot, NEW queue \in Seq(Steps),
           slot \in Slots \/ (slot = NoSlot /\ queue = <<>>), StartFlow(slot, queue)
    PROVE  /\ TaskOK' /\ CmdOK' /\ heat' \in BOOLEAN /\ cmd'.pc = "run"
           /\ task' = [queue |-> queue, paused |-> FALSE, slot |-> slot]
<1>1. TaskOK' /\ task' = [queue |-> queue, paused |-> FALSE, slot |-> slot]
  BY FlowTask DEF StartFlow, TaskOK
<1>2. CmdOK' /\ cmd'.pc = "run"
  BY Goes DEF StartFlow, TypeInv, Places, Pulling
<1>3. heat' \in BOOLEAN
  BY DEF StartFlow, Hot
<1> QED
  BY <1>1, <1>2, <1>3

LEMMA OriginalTypes ==
    ASSUME TypeInv, cmd # NoCommand, cmd.slot \in Slots, Original
    PROVE  TaskOK' /\ CmdOK' /\ heat' \in BOOLEAN /\ cmd'.pc = "run" /\ task'.slot = cmd.slot
<1> DEFINE queue == IF cmd.kind = "unload" THEN UnloadFlow ELSE EjectFlow(cmd.slot)
<1>1. queue \in Seq(Steps)
  BY Flows
<1>2. StartFlow(cmd.slot, queue)
  BY DEF Original
<1> HIDE DEF queue
<1>3. TaskOK' /\ CmdOK' /\ heat' \in BOOLEAN /\ cmd'.pc = "run"
      /\ task' = [queue |-> queue, paused |-> FALSE, slot |-> cmd.slot]
  BY <1>1, <1>2, StartTypes
<1> QED
  BY <1>3

LEMMA PauseTypes ==
    ASSUME TypeInv, PauseFlow
    PROVE  TaskOK' /\ CmdOK' /\ printing' \in {"idle", "printing", "paused"} /\ cmd' = NoCommand
<1>1. TaskOK'
  BY DEF PauseFlow, TypeInv, TaskOK, Tasks, NoTask
<1>2. printing' \in {"idle", "printing", "paused"}
  BY DEF PauseFlow, TypeInv, StateOK
<1> QED
  BY <1>1, <1>2, Ends DEF PauseFlow

LEMMA StepDoneTypes ==
    ASSUME TypeInv, StepDone, task = NoTask \/ task.queue # <<>>
    PROVE  TaskOK'
<1>1. CASE task = NoTask
  BY <1>1 DEF StepDone, TypeInv, TaskOK
<1>2. CASE task # NoTask
  <2>1. task \in Tasks /\ task.slot \in Slots /\ task.queue # <<>>
    BY <1>2 DEF TypeInv, TaskOK
  <2>2. Tail(task.queue) \in Seq(Steps)
    BY <2>1 DEF Tasks
  <2>3. task' = [task EXCEPT !.queue = Tail(@)]
    BY <1>2 DEF StepDone
  <2> QED
    BY <2>1, <2>2, <2>3 DEF TaskOK, Tasks
<1> QED
  BY <1>1, <1>2

LEMMA CommandTypes ==
    ASSUME TypeInv, Commands, cmd # NoCommand
    PROVE  TypeInv'
<1> USE DEF saved
<1>1. ASSUME NEW pc \in {"done", "retract"}, Stopping(pc)
      PROVE  TypeInv'
  <2>1. cmd.pc \in {"stopping done", "stopping retract"} /\ (pc = "retract" => cmd.pc \in Pulling)
    <3>1. Waiting["done"] = "stopping done" /\ Waiting["retract"] = "stopping retract"
      BY DEF Waiting
    <3> QED
      BY <1>1, <3>1 DEF Stopping, Pulling
  <2>2. MotionOK'
    BY <1>1, <2>1, NoMotionAt, KeepsFeed DEF Stopping
  <2>3. CmdOK'
    <3>1. pc \in Places /\ (pc \in Pulling => cmd.kind \in {"unload", "eject"}) /\ Goto(pc)
      BY <1>1, <2>1 DEF Stopping, Places, Pulling, TypeInv, CmdOK
    <3> QED
      BY <3>1, Goes DEF TypeInv
  <2>4. TaskOK' /\ last' \in Slots \cup {External} /\ printing' \in {"idle", "printing", "paused"}
    BY <1>1 DEF Stopping, TypeInv, TaskOK, RecordOK, StateOK
  <2>5. heat' \in BOOLEAN
    BY <1>1 DEF Stopping
  <2> QED
    BY <1>1, <2>2, <2>3, <2>4, <2>5, CommandStep DEF Stopping
<1>2. CASE StopCommand
  <2>1. MotionOK'
    BY <1>2, NoMotionAt, KeepsFeed DEF StopCommand
  <2>2. TaskOK' /\ CmdOK'
    BY <1>2, StopTypes DEF StopCommand
  <2>3. last' \in Slots \cup {External} /\ printing' \in {"idle", "printing", "paused"} /\ heat' \in BOOLEAN
    BY <1>2 DEF StopCommand, TypeInv, RecordOK, StateOK
  <2> QED
    BY <1>2, <2>1, <2>2, <2>3, CommandStep DEF StopCommand
<1>3. CASE Done
  <2>1. MotionOK'
    BY <1>3, NoMotionAt, KeepsFeed DEF Done
  <2>2. TaskOK' /\ CmdOK'
    BY <1>3, Ends DEF Done, TypeInv, TaskOK
  <2>3. last' \in Slots \cup {External} /\ printing' \in {"idle", "printing", "paused"} /\ heat' \in BOOLEAN
    BY <1>3 DEF Done, TypeInv, RecordOK, StateOK
  <2> QED
    BY <1>3, <2>1, <2>2, <2>3, CommandStep DEF Done
<1>4. CASE LoadCommand
  <2>1. MotionOK'
    BY <1>4, NoMotionAt, KeepsFeed DEF LoadCommand
  <2>2. cmd.slot \in Slots
    BY <1>4, CommandKinds DEF LoadCommand, TypeInv, SlotKinds
  <2>3. TaskOK' /\ CmdOK' /\ heat' \in BOOLEAN
    BY <1>4, <2>2, StartTypes, Flows DEF LoadCommand
  <2>4. last' \in Slots \cup {External} /\ printing' \in {"idle", "printing", "paused"}
    BY <1>4 DEF LoadCommand, TypeInv, RecordOK, StateOK
  <2> QED
    BY <1>4, <2>1, <2>3, <2>4, CommandStep DEF LoadCommand
<1>5. CASE ToolCommand
  <2>1. MotionOK'
    BY <1>5, NoMotionAt, KeepsFeed DEF ToolCommand
  <2>2. TaskOK' /\ CmdOK' /\ heat' \in BOOLEAN
    <3>1. CASE cmd.kind = "tool" /\ StartFlow(cmd.slot, ToolFlow)
      <4>1. cmd.slot \in Slots
        BY <3>1, CommandKinds DEF TypeInv, SlotKinds
      <4> QED
        BY <3>1, <4>1, StartTypes, Flows
    <3>2. CASE task.paused /\ StartFlow(task.slot, ToolFlow)
      <4>1. task.slot \in Slots
        BY <3>2 DEF TypeInv, TaskOK, NoTask
      <4> QED
        BY <3>2, <4>1, StartTypes, Flows
    <3>3. CASE StartFlow(NoSlot, <<>>)
      BY <3>3, StartTypes, Queues
    <3>4. CASE End /\ UNCHANGED <<task, heat>>
      BY <3>4, Ends DEF TypeInv, TaskOK, StateOK
    <3> QED
      BY <1>5, <3>1, <3>2, <3>3, <3>4 DEF ToolCommand
  <2>3. last' \in Slots \cup {External} /\ printing' \in {"idle", "printing", "paused"}
    BY <1>5 DEF ToolCommand, TypeInv, RecordOK, StateOK
  <2> QED
    BY <1>5, <2>1, <2>2, <2>3, CommandStep DEF ToolCommand
<1>6. CASE RetryCommand
  <2>1. MotionOK'
    BY <1>6, NoMotionAt, KeepsFeed DEF RetryCommand
  <2>2. TaskOK' /\ CmdOK' /\ heat' \in BOOLEAN
    <3>1. CASE task.paused
      <4>1. task \in Tasks /\ task.slot \in Slots /\ task' = [task EXCEPT !.paused = FALSE]
        BY <1>6, <3>1 DEF RetryCommand, TypeInv, TaskOK, NoTask
      <4>2. TaskOK'
        BY <4>1 DEF TaskOK, Tasks
      <4>3. heat' \in BOOLEAN
        BY <1>6, <3>1 DEF RetryCommand
      <4>4. CmdOK'
        BY <1>6, <3>1, Goes DEF RetryCommand, TypeInv, Places, Pulling
      <4> QED
        BY <4>2, <4>3, <4>4
    <3>2. CASE ~task.paused
      BY <1>6, <3>2, Ends DEF RetryCommand, TypeInv, TaskOK, StateOK
    <3> QED
      BY <3>1, <3>2
  <2>3. last' \in Slots \cup {External} /\ printing' \in {"idle", "printing", "paused"}
    BY <1>6 DEF RetryCommand, TypeInv, RecordOK, StateOK
  <2> QED
    BY <1>6, <2>1, <2>2, <2>3, CommandStep DEF RetryCommand
<1>7. CASE FilamentCommand
  <2>1. MotionOK'
    BY <1>7, NoMotionAt, KeepsFeed DEF FilamentCommand
  <2>2. cmd.slot \in Slots
    BY <1>7, CommandKinds DEF FilamentCommand, TypeInv, SlotKinds
  <2>3. TaskOK' /\ CmdOK' /\ heat' \in BOOLEAN
    <3>1. CASE Original
      BY <2>2, <3>1, OriginalTypes
    <3>2. CASE UNCHANGED heat /\ (StopFlow("done") \/ StopFlow("retract"))
      BY <1>7, <3>2, StopTypes DEF FilamentCommand, TypeInv, StateOK
    <3>3. CASE UNCHANGED heat /\ End /\ UNCHANGED task
      BY <3>3, Ends DEF TypeInv, TaskOK, StateOK
    <3> QED
      BY <1>7, <3>1, <3>2, <3>3 DEF FilamentCommand
  <2>4. last' \in Slots \cup {External} /\ printing' \in {"idle", "printing", "paused"}
    BY <1>7 DEF FilamentCommand, TypeInv, RecordOK, StateOK
  <2> QED
    BY <1>7, <2>1, <2>3, <2>4, CommandStep DEF FilamentCommand
<1>8. CASE Retract
  <2>1. MotionOK' /\ CmdOK'
    <3>1. CASE End /\ UNCHANGED motion
      BY <1>8, <3>1, Ends, KeepsNoMotion DEF Retract
    <3>2. CASE StartMotion("retract", cmd.slot) /\ UNCHANGED cmd
      <4>1. cmd.slot \in Slots /\ CmdOK'
        BY <1>8, <3>2, CommandKinds DEF Retract, TypeInv, Pulling, CmdOK
      <4>2. MotionOK'
        BY <1>8, <3>2, <4>1, StartedMotion DEF Retract, Drivers, Steps
      <4> QED
        BY <4>1, <4>2
    <3> QED
      BY <1>8, <3>1, <3>2 DEF Retract
  <2>2. /\ TaskOK' /\ heat' \in BOOLEAN
        /\ last' \in Slots \cup {External} /\ printing' \in {"idle", "printing", "paused"}
    BY <1>8 DEF Retract, TypeInv, TaskOK, RecordOK, StateOK
  <2> QED
    BY <1>8, <2>1, <2>2, CommandStep DEF Retract
<1>9. CASE Cleared
  <2>1. cmd.slot \in Slots
    BY <1>9, CommandKinds DEF Cleared, TypeInv, Pulling
  <2>2. MotionOK' /\ CmdOK' /\ TaskOK' /\ heat' \in BOOLEAN
    <3>1. CASE Original /\ UNCHANGED motion
      BY <1>9, <2>1, <3>1, OriginalTypes, KeepsNoMotion DEF Cleared
    <3>2. CASE StartMotion("park", cmd.slot) /\ UNCHANGED <<task, heat, cmd>>
      <4>1. CmdOK' /\ TaskOK' /\ heat' \in BOOLEAN
        BY <3>2 DEF TypeInv, CmdOK, TaskOK, StateOK
      <4>2. MotionOK'
        BY <1>9, <2>1, <3>2, StartedMotion DEF Cleared, Drivers, Steps
      <4> QED
        BY <4>1, <4>2
    <3> QED
      BY <1>9, <3>1, <3>2 DEF Cleared
  <2>3. last' \in Slots \cup {External} /\ printing' \in {"idle", "printing", "paused"}
    BY <1>9 DEF Cleared, TypeInv, RecordOK, StateOK
  <2> QED
    BY <1>9, <2>2, <2>3, CommandStep DEF Cleared
<1>10. CASE JogCommand
  <2>1. cmd.slot \in Slots
    BY <1>10, CommandKinds DEF JogCommand, TypeInv, SlotKinds
  <2>2. MotionOK' /\ CmdOK'
    <3>1. CASE End /\ UNCHANGED motion
      BY <1>10, <3>1, Ends, KeepsNoMotion DEF JogCommand
    <3>2. CASE StartMotion(cmd.kind, cmd.slot) /\ UNCHANGED cmd
      <4>1. CmdOK'
        BY <3>2 DEF TypeInv, CmdOK
      <4>2. MotionOK'
        BY <1>10, <2>1, <3>2, StartedMotion DEF JogCommand, Drivers, Steps
      <4> QED
        BY <4>1, <4>2
    <3> QED
      BY <1>10, <3>1, <3>2 DEF JogCommand
  <2>3. /\ TaskOK' /\ heat' \in BOOLEAN
        /\ last' \in Slots \cup {External} /\ printing' \in {"idle", "printing", "paused"}
    BY <1>10 DEF JogCommand, TypeInv, TaskOK, RecordOK, StateOK
  <2> QED
    BY <1>10, <2>2, <2>3, CommandStep DEF JogCommand
<1>11. CASE RunStep
  <2>1. task \in Tasks /\ task.slot \in Slots /\ Head(task.queue) \in Steps
    <3>1. task \in Tasks /\ task.queue # <<>>
      BY <1>11 DEF RunStep, TypeInv, TaskOK
    <3>2. task # NoTask
      BY <3>1 DEF NoTask
    <3> QED
      BY <3>1, <3>2 DEF Tasks, TypeInv, TaskOK
  <2>2. UNCHANGED <<filament, hubSlot, stale, up, web, events>>
    BY <1>11 DEF RunStep
  <2>o. last \in Slots \cup {External} /\ printing \in {"idle", "printing", "paused"} /\ heat \in BOOLEAN
        /\ CmdOK /\ TaskOK
    BY DEF TypeInv, RecordOK, StateOK
  <2>3. CASE StepDone /\ UNCHANGED <<last, printing, cmd, motion, heat>>
    <3>1. TaskOK' /\ CmdOK'
      BY <1>11, <2>o, <2>3, StepDoneTypes DEF RunStep, CmdOK
    <3>2. MotionOK'
      BY <1>11, <2>3, KeepsNoMotion DEF RunStep
    <3> QED
      BY <2>2, <2>3, <2>o, <3>1, <3>2, CommandStep
  <2>4. CASE PauseFlow /\ heat' = (heat /\ Active) /\ UNCHANGED <<last, motion>>
    <3>1. MotionOK'
      BY <1>11, <2>4, KeepsNoMotion DEF RunStep
    <3>2. heat' \in BOOLEAN
      BY <2>4
    <3> QED
      BY <2>2, <2>4, <2>o, <3>1, <3>2, PauseTypes, CommandStep
  <2>5. CASE /\ HubOccupied /\ UnloadSlot # External /\ last' = UnloadSlot
             /\ StartMotion("unload", UnloadSlot) /\ UNCHANGED <<task, printing, cmd, heat>>
    <3>1. UnloadSlot \in Slots
      <4>1. OnlySlot # NoSlot => OnlySlot \in Slots
        <5>1. CASE Cardinality(Inlets) = 1
          <6>1. \E s \in Slots : s \in Inlets
            <7>1. Inlets # {}
              BY <5>1, FS_EmptySet
            <7> QED
              BY <7>1 DEF Inlets
          <6> QED
            BY <5>1, <6>1 DEF OnlySlot
        <5> QED
          BY <5>1 DEF OnlySlot
      <4> QED
        BY <2>5, <2>o, <4>1 DEF UnloadSlot, Inlets
    <3>2. MotionOK'
      BY <1>11, <2>2, <2>5, <3>1, StartedMotion DEF RunStep, Drivers, Steps
    <3>3. CmdOK' /\ TaskOK' /\ last' \in Slots \cup {External}
      BY <2>5, <2>o, <3>1 DEF CmdOK, TaskOK
    <3> QED
      BY <2>2, <2>5, <2>o, <3>2, <3>3, CommandStep
  <2>6. CASE StartMotion(Head(task.queue), task.slot) /\ UNCHANGED <<last, task, printing, cmd, heat>>
    <3>1. MotionOK'
      BY <1>11, <2>1, <2>2, <2>6, StartedMotion DEF RunStep, Drivers, Steps
    <3>2. CmdOK' /\ TaskOK'
      BY <2>6, <2>o DEF CmdOK, TaskOK
    <3> QED
      BY <2>2, <2>6, <2>o, <3>1, <3>2, CommandStep
  <2> QED
    BY <1>11, <2>3, <2>4, <2>5, <2>6 DEF RunStep
<1>12. CASE FlowEnds
  <2>1. MotionOK'
    BY <1>12, KeepsNoMotion DEF FlowEnds
  <2>2. TaskOK' /\ CmdOK'
    BY <1>12, Ends, Queues DEF FlowEnds, TaskOK, Tasks, NoTask
  <2>3. last' \in Slots \cup {External} /\ printing' \in {"idle", "printing", "paused"} /\ heat' \in BOOLEAN
    BY <1>12 DEF FlowEnds, TypeInv, RecordOK, StateOK
  <2> QED
    BY <1>12, <2>1, <2>2, <2>3, CommandStep DEF FlowEnds
<1> QED
  BY <1>1, <1>2, <1>3, <1>4, <1>5, <1>6, <1>7, <1>8, <1>9, <1>10, <1>11, <1>12 DEF Commands

\* What the end of a motion leaves of the types.
LEMMA MotionStep ==
    ASSUME TypeInv, motion # NoMotion, UNCHANGED <<loose, up, web, heat>>,
           at' \in [Slots -> Out .. Toolhead], last' \in Slots \cup {External},
           hubSlot' \in Slots \cup {NoSlot}, stale' \in BOOLEAN, events' \in Nat,
           TaskOK', CmdOK', MotionOK', printing' \in {"idle", "printing", "paused"}
    PROVE  TypeInv'
<1>1. up
  BY DEF TypeInv, DownInv
<1>2. FilamentOK' /\ RecordOK' /\ DownInv'
  BY <1>1 DEF TypeInv, FilamentOK, RecordOK, DownInv
<1>3. StateOK'
  BY DEF TypeInv, StateOK
<1> QED
  BY <1>2, <1>3 DEF TypeInv

LEMMA Driven ==
    ASSUME TypeInv, motion.by \in Drivers
    PROVE  /\ motion # NoMotion /\ motion \in [by : Drivers, slot : Slots, before : BOOLEAN]
           /\ motion.slot \in Slots /\ motion.before \in BOOLEAN
<1>1. "none" \notin Drivers
  BY DEF Drivers, Steps
<1>2. motion # NoMotion
  BY <1>1 DEF NoMotion
<1> QED
  BY <1>2 DEF TypeInv, MotionOK

LEMMA MotionTypes ==
    ASSUME TypeInv, Motions
    PROVE  TypeInv'
<1>o. /\ last \in Slots \cup {External} /\ hubSlot \in Slots \cup {NoSlot}
      /\ printing \in {"idle", "printing", "paused"} /\ events \in Nat /\ FilamentOK
  BY DEF TypeInv, RecordOK, StateOK
<1>1. CASE StepMoved
  <2>0. motion.by \in Drivers /\ motion.by \in Steps
    BY <1>1 DEF StepMoved, Drivers, Steps
  <2>m. /\ motion # NoMotion /\ motion \in [by : Drivers, slot : Slots, before : BOOLEAN]
        /\ motion.slot \in Slots /\ motion.before \in BOOLEAN
    BY <2>0, Driven
  <2>1. PICK place \in Moves(motion), raised \in BOOLEAN :
          LET p == Moved(motion.slot, place) IN
          /\ raised => events < MaxEvents
          /\ events' = IF raised THEN events + 1 ELSE events
          /\ at' = p
          /\ last' = LastAfter(motion, p)
          /\ RecordMotion(motion.slot, motion.before, p)
          /\ \/ ~raised /\ Succeeded(motion, p) /\ StepDone /\ UNCHANGED <<printing, cmd>>
             \/ ~raised /\ ~Succeeded(motion, p) /\ PauseFlow
             \/ raised /\ PauseAfterError
    BY <1>1 DEF StepMoved
  <2>2. at' \in [Slots -> Out .. Toolhead] /\ events' \in Nat
    BY <1>o, <2>m, <2>1, MotionPlaces, MovedOK
  <2>3. hubSlot' \in Slots \cup {NoSlot} /\ stale' \in BOOLEAN
    BY <2>m, <2>1, RecordAfterOK DEF TypeInv
  <2>4. last' \in Slots \cup {External}
    BY <1>o, <2>m, <2>1 DEF LastAfter
  <2>5. MotionOK'
    BY <1>1 DEF StepMoved, MotionOK
  <2>6. TaskOK' /\ CmdOK' /\ printing' \in {"idle", "printing", "paused"}
    <3>1. CASE StepDone /\ UNCHANGED <<printing, cmd>>
      <4>1. task = NoTask \/ task.queue # <<>>
        BY <2>0, <2>m DEF TypeInv, MotionOK
      <4> QED
        BY <1>o, <3>1, <4>1, StepDoneTypes DEF TypeInv, CmdOK
    <3>2. CASE PauseFlow
      BY <3>2, PauseTypes
    <3> QED
      BY <2>1, <3>1, <3>2 DEF PauseAfterError
  <2>7. UNCHANGED <<loose, up, web, heat>>
    BY <1>1 DEF StepMoved
  <2> QED
    BY <2>m, <2>2, <2>3, <2>4, <2>5, <2>6, <2>7, MotionStep
<1>2. CASE Retracted
  <2>0. motion.by \in Drivers /\ motion.by = "retract"
    BY <1>2 DEF Retracted, Drivers
  <2>m. /\ motion # NoMotion /\ motion.slot \in Slots /\ motion.before \in BOOLEAN
        /\ cmd.slot = motion.slot /\ cmd.pc = "retract"
    BY <2>0, Driven DEF TypeInv, MotionOK
  <2>1. PICK place \in Back(cmd.slot, Out) :
          LET p == Moved(cmd.slot, place) IN
          /\ at' = p
          /\ \/ /\ RecordMotion(cmd.slot, motion.before, p) /\ UNCHANGED events
                /\ last' = IF ~Reaches(p, Hub) /\ last = cmd.slot THEN External ELSE last
                /\ IF Reaches(p, Hub) THEN End ELSE Goto("clear")
             \/ MotorTaken
    BY <1>2 DEF Retracted
  <2>2. at' \in [Slots -> Out .. Toolhead]
    BY <1>o, <2>m, <2>1, BackPlaces, MovedOK
  <2>3. hubSlot' \in Slots \cup {NoSlot} /\ stale' \in BOOLEAN
    BY <1>o, <2>m, <2>1, RecordAfterOK DEF TypeInv, MotorTaken, Unrecorded
  <2>4. last' \in Slots \cup {External} /\ events' \in Nat
    BY <1>o, <2>m, <2>1 DEF MotorTaken
  <2>5. CmdOK'
    <3>1. CASE End
      BY <3>1, Ends
    <3>2. CASE Goto("clear")
      <4>1. cmd # NoCommand /\ cmd.kind \in {"unload", "eject"}
        BY <2>m DEF NoCommand, TypeInv, CmdOK, Pulling
      <4> QED
        BY <3>2, <4>1, Goes DEF TypeInv, Places
    <3> QED
      BY <2>1, <3>1, <3>2 DEF MotorTaken
  <2>6. /\ MotionOK' /\ TaskOK' /\ UNCHANGED <<loose, up, web, heat>>
        /\ printing' \in {"idle", "printing", "paused"}
    BY <1>o, <1>2 DEF Retracted, MotionOK, TypeInv, TaskOK
  <2> QED
    BY <2>m, <2>2, <2>3, <2>4, <2>5, <2>6, MotionStep
<1>3. CASE Parked
  <2>0. motion.by \in Drivers /\ motion.by = "park"
    BY <1>3 DEF Parked, Drivers
  <2>m. /\ motion # NoMotion /\ motion.slot \in Slots /\ motion.before \in BOOLEAN
        /\ cmd.slot = motion.slot
    BY <2>0, Driven DEF TypeInv, MotionOK
  <2>1. PICK place \in Back(cmd.slot, Out) :
          /\ at' = Moved(cmd.slot, place)
          /\ \/ RecordMotion(cmd.slot, motion.before, at') /\ End /\ UNCHANGED <<last, events>>
             \/ MotorTaken
    BY <1>3 DEF Parked
  <2>2. at' \in [Slots -> Out .. Toolhead]
    BY <1>o, <2>m, <2>1, BackPlaces, MovedOK
  <2>3. hubSlot' \in Slots \cup {NoSlot} /\ stale' \in BOOLEAN
    BY <1>o, <2>m, <2>1, RecordAfterOK DEF TypeInv, MotorTaken, Unrecorded
  <2>4. CmdOK' /\ last' \in Slots \cup {External} /\ events' \in Nat
    BY <1>o, <2>1, Ends DEF MotorTaken
  <2>6. /\ MotionOK' /\ TaskOK' /\ UNCHANGED <<loose, up, web, heat>>
        /\ printing' \in {"idle", "printing", "paused"}
    BY <1>o, <1>3 DEF Parked, MotionOK, TypeInv, TaskOK
  <2> QED
    BY <2>m, <2>2, <2>3, <2>4, <2>6, MotionStep
<1>4. CASE Jogged
  <2>0. motion.by \in Drivers
    BY <1>4 DEF Jogged, Drivers
  <2>m. /\ motion # NoMotion /\ motion \in [by : Drivers, slot : Slots, before : BOOLEAN]
        /\ motion.slot \in Slots /\ motion.before \in BOOLEAN
    BY <2>0, Driven
  <2>1. PICK place \in Moves(motion) :
          /\ at' = Moved(motion.slot, place)
          /\ \/ RecordMotion(motion.slot, motion.before, at') /\ End /\ UNCHANGED <<last, events>>
             \/ MotorTaken
    BY <1>4 DEF Jogged
  <2>2. at' \in [Slots -> Out .. Toolhead]
    BY <1>o, <2>m, <2>1, MotionPlaces, MovedOK
  <2>4. CmdOK' /\ last' \in Slots \cup {External} /\ events' \in Nat
    BY <1>o, <2>1, Ends DEF MotorTaken
  <2>3. hubSlot' \in Slots \cup {NoSlot} /\ stale' \in BOOLEAN
    <3>1. CASE RecordMotion(motion.slot, motion.before, at')
      BY <2>m, <3>1, RecordAfterOK DEF TypeInv
    <3>2. CASE Unrecorded
      BY <1>o, <3>2 DEF Unrecorded
    <3> QED
      BY <2>1, <3>1, <3>2 DEF MotorTaken
  <2>6. /\ MotionOK' /\ TaskOK' /\ UNCHANGED <<loose, up, web, heat>>
        /\ printing' \in {"idle", "printing", "paused"}
    BY <1>o, <1>4 DEF Jogged, MotionOK, TypeInv, TaskOK
  <2> QED
    BY <2>m, <2>2, <2>3, <2>4, <2>6, MotionStep
<1>5. CASE Inserted
  <2>0. motion.by \in Drivers
    BY <1>5 DEF Inserted, Drivers
  <2>m. /\ motion # NoMotion /\ motion \in [by : Drivers, slot : Slots, before : BOOLEAN]
        /\ motion.slot \in Slots /\ motion.before \in BOOLEAN
    BY <2>0, Driven
  <2>1. PICK place \in Moves(motion) :
          /\ at' = Moved(motion.slot, place)
          /\ RecordMotion(motion.slot, motion.before, at')
          /\ motion' = IF motion.by = "insert" /\ place = Hub
                       THEN [by |-> "back off", slot |-> motion.slot, before |-> TRUE] ELSE NoMotion
    BY <1>5 DEF Inserted
  <2>2. at' \in [Slots -> Out .. Toolhead] /\ at'[motion.slot] = place
    BY <1>o, <2>m, <2>1, MotionPlaces, MovedOK
  <2>3. hubSlot' \in Slots \cup {NoSlot} /\ stale' \in BOOLEAN
    BY <2>m, <2>1, RecordAfterOK DEF TypeInv
  <2>4. /\ TaskOK' /\ CmdOK' /\ UNCHANGED <<loose, up, web, heat>> /\ events' \in Nat
        /\ printing' \in {"idle", "printing", "paused"} /\ last' \in Slots \cup {External}
    BY <1>o, <1>5, <2>m DEF Inserted, TypeInv, TaskOK, CmdOK
  <2>5. MotionOK'
    <3>1. CASE motion.by = "insert" /\ place = Hub
      <4>1. motion' = [by |-> "back off", slot |-> motion.slot, before |-> TRUE]
        BY <2>1, <3>1
      <4>2. HubOccupied'
        BY <2>m, <2>2, <3>1 DEF HubOccupied, Reaches, Hub
      <4> QED
        BY <2>m, <2>4, <4>1, <4>2 DEF MotionOK, Drivers, Steps
    <3>2. CASE ~(motion.by = "insert" /\ place = Hub)
      BY <2>1, <3>2 DEF MotionOK
    <3> QED
      BY <3>1, <3>2
  <2> QED
    BY <1>o, <2>m, <2>2, <2>3, <2>4, <2>5, MotionStep
<1> QED
  BY <1>1, <1>2, <1>3, <1>4, <1>5 DEF Motions

LEMMA CommandRuns ==
    ASSUME Commands
    PROVE  cmd # NoCommand
<1>1. CASE \E pc \in {"done", "retract"} : Stopping(pc)
  <2>1. Waiting["done"] # "start" /\ Waiting["retract"] # "start"
    BY DEF Waiting
  <2> QED
    BY <1>1, <2>1 DEF Stopping, NoCommand
<1>2. CASE ~ \E pc \in {"done", "retract"} : Stopping(pc)
  <2>1. StopCommand \/ LoadCommand \/ ToolCommand \/ RetryCommand \/ FilamentCommand \/ JogCommand => cmd.kind # "none"
    BY DEF StopCommand, LoadCommand, ToolCommand, RetryCommand, FilamentCommand, JogCommand
  <2>2. Done \/ Retract \/ Cleared => cmd.pc # "start"
    BY DEF Done, Retract, Cleared
  <2>3. RunStep \/ FlowEnds => cmd.pc # "start"
    BY DEF RunStep, FlowEnds
  <2>4. NoCommand.kind = "none" /\ NoCommand.pc = "start"
    BY DEF NoCommand
  <2> QED
    BY <1>2, <2>1, <2>2, <2>3, <2>4 DEF Commands
<1> QED
  BY <1>1, <1>2

\* What a step around the commands and motions leaves of the types.
LEMMA OtherStep ==
    ASSUME TypeInv, UNCHANGED <<at, loose, last, hubSlot, stale, motion>>,
           motion # NoMotion => UNCHANGED <<task, cmd>> \/ (task' = NoTask /\ UNCHANGED cmd),
           up, up', TaskOK', CmdOK', StateOK'
    PROVE  TypeInv'
<1>1. HubOccupied' = HubOccupied
  BY DEF HubOccupied, Reaches
<1>2. MotionOK'
  <2>1. CASE motion = NoMotion
    BY <2>1 DEF MotionOK
  <2>2. CASE motion # NoMotion
    BY <1>1, <2>2 DEF TypeInv, MotionOK
  <2> QED
    BY <2>1, <2>2
<1> QED
  BY <1>2 DEF TypeInv, FilamentOK, RecordOK, DownInv

LEMMA NoTaskOK == task' = NoTask => TaskOK'
  BY Queues DEF TaskOK, Tasks, NoTask

LEMMA BeginTypes ==
    ASSUME TypeInv, NEW kind, NEW slot, Begin(kind, slot),
           (kind \in SlotKinds /\ slot \in Slots) \/ (kind \in PlainKinds /\ slot = NoSlot)
    PROVE  TypeInv'
<1>1. CmdOK'
  BY DEF Begin, CmdOK, Cmds, Places, Pulling
<1>2. StateOK' /\ TaskOK' /\ up /\ up'
  BY DEF Begin, TypeInv, StateOK, TaskOK
<1> QED
  BY <1>1, <1>2, OtherStep DEF Begin, filament, saved

LEMMA InsertTypes ==
    ASSUME TypeInv, NEW slot \in Slots, Insert(slot)
    PROVE  TypeInv'
<1>1. at' \in [Slots -> Out .. Toolhead]
  <2>1. Inlet \in Out .. Toolhead
    BY DEF Out, Inlet, Toolhead
  <2> QED
    BY <2>1, MovedOK DEF Insert, TypeInv
<1>2. FilamentOK' /\ RecordOK' /\ TaskOK' /\ CmdOK' /\ StateOK'
  BY <1>1 DEF Insert, saved, TypeInv, FilamentOK, RecordOK, TaskOK, CmdOK, StateOK
<1>3. MotionOK'
  <2>1. HubOccupied' = HubOccupied
    <3>1. at[slot] < Hub /\ at'[slot] < Hub /\ \A s \in Slots \ {slot} : at'[s] = at[s]
      BY MovedOK DEF Insert, TypeInv, Out, Inlet, Hub, Toolhead
    <3>2. loose' = loose /\ at[slot] \in Nat /\ at'[slot] \in Nat
      BY <1>1 DEF Insert, TypeInv, FilamentOK, Out, Toolhead
    <3>3. Reaches(at, Hub)' = Reaches(at, Hub)
      BY <3>1, <3>2 DEF Reaches, Hub
    <3> QED
      BY <3>3 DEF HubOccupied
  <2>2. CASE StartMotion("insert", slot)
    <3>1. motion' \in [by : Drivers, slot : Slots, before : BOOLEAN]
          /\ motion'.by = "insert" /\ motion'.before = HubOccupied'
      BY <2>1, <2>2 DEF StartMotion, Drivers, HubOccupied, Reaches
    <3> QED
      BY <3>1 DEF MotionOK, Steps
  <2>3. CASE UNCHANGED motion
    BY <2>1, <2>3 DEF Insert, TypeInv, MotionOK
  <2> QED
    BY <2>2, <2>3 DEF Insert
<1>4. DownInv'
  BY DEF Insert, TypeInv, DownInv
<1> QED
  BY <1>2, <1>3, <1>4 DEF TypeInv

LEMMA HandsTypes ==
    ASSUME TypeInv, Hands
    PROVE  TypeInv'
<1>1. FilamentOK'
  <2>1. Out \in Out .. Toolhead
    BY DEF Out, Toolhead
  <2>2. ASSUME NEW s \in Slots, at' = Moved(s, Out)
        PROVE  at' \in [Slots -> Out .. Toolhead] /\ at[s] \in Out .. Toolhead
    BY <2>1, <2>2, MovedOK DEF TypeInv, FilamentOK
  <2> QED
    BY <2>1, <2>2 DEF Hands, TypeInv, FilamentOK
<1>2. RecordOK' /\ TaskOK' /\ CmdOK' /\ StateOK' /\ DownInv'
  BY DEF Hands, saved, TypeInv, RecordOK, TaskOK, CmdOK, StateOK, DownInv
<1>3. MotionOK'
  BY KeepsNoMotion DEF Hands
<1> QED
  BY <1>1, <1>2, <1>3 DEF TypeInv

LEMMA ShutdownTypes ==
    ASSUME TypeInv, Shutdown
    PROVE  TypeInv'
<1>1. at' \in [Slots -> Out .. Toolhead] /\ stale' \in BOOLEAN
  <2>1. CASE motion = NoMotion
    BY <2>1 DEF Shutdown, TypeInv, FilamentOK, RecordOK
  <2>2. CASE motion # NoMotion
    <3>1. motion \in [by : Drivers, slot : Slots, before : BOOLEAN] /\ motion.slot \in Slots
      BY <2>2 DEF TypeInv, MotionOK
    <3> QED
      BY <2>2, <3>1, MotionPlaces, MovedOK DEF Shutdown, TypeInv
  <2> QED
    BY <2>1, <2>2
<1>2. FilamentOK' /\ RecordOK'
  BY <1>1 DEF Shutdown, saved, TypeInv, FilamentOK, RecordOK
<1>3. TaskOK' /\ CmdOK' /\ MotionOK' /\ DownInv'
  BY NoTaskOK, Ends DEF Shutdown, End, MotionOK, DownInv
<1>4. StateOK'
  <2>1. events' \in Nat
    BY DEF Shutdown, TypeInv, StateOK
  <2>2. printing' = "idle" /\ web' = NoStop /\ heat' = FALSE /\ up' = FALSE
    BY DEF Shutdown
  <2> QED
    BY <2>1, <2>2 DEF StateOK
<1> QED
  BY <1>2, <1>3, <1>4 DEF TypeInv

LEMMA RestartTypes ==
    ASSUME TypeInv, Restart
    PROVE  TypeInv'
<1>1. MotionOK'
  BY DEF Restart, TypeInv, DownInv, MotionOK
<1> QED
  BY <1>1 DEF Restart, filament, saved, TypeInv, FilamentOK, RecordOK, TaskOK, CmdOK, StateOK, DownInv

LEMMA TypeStep ==
    ASSUME TypeInv, [Next]_vars
    PROVE  TypeInv'
<1>1. CASE Commands
  BY <1>1, CommandRuns, CommandTypes
<1>2. CASE Motions
  BY <1>2, MotionTypes
<1>3. CASE WebHeater
  <2>1. TaskOK' /\ CmdOK' /\ StateOK' /\ up /\ up'
    BY <1>3 DEF WebHeater, TypeInv, TaskOK, CmdOK, StateOK
  <2> QED
    BY <1>3, <2>1, OtherStep DEF WebHeater, filament, saved
<1>4. CASE WebStop
  <2>1. TaskOK' /\ CmdOK' /\ StateOK' /\ up /\ up'
    BY <1>4, NoTaskOK DEF WebStop, TypeInv, CmdOK, StateOK
  <2> QED
    BY <1>4, <2>1, OtherStep DEF WebStop, filament, saved
<1>5. CASE \E slot \in Slots, kind \in {"load", "unload", "eject", "jog in", "jog out", "tool"} : Begin(kind, slot)
  BY <1>5, BeginTypes DEF SlotKinds
<1>6. CASE \E kind \in {"stop", "retry", "resume"} : Begin(kind, NoSlot)
  BY <1>6, BeginTypes DEF PlainKinds
<1>7. CASE \E slot \in Slots : Insert(slot)
  BY <1>7, InsertTypes
<1>8. CASE StartPrint \/ EndPrint
  <2>1. TaskOK' /\ CmdOK' /\ up /\ up'
    BY <1>8 DEF StartPrint, EndPrint, TypeInv, TaskOK, CmdOK
  <2>2. events' \in Nat
    BY <1>8 DEF StartPrint, EndPrint, TypeInv, StateOK
  <2>3. printing' \in {"idle", "printing"} /\ heat' \in BOOLEAN /\ web' = web /\ up' = up
    BY <1>8 DEF StartPrint, EndPrint
  <2>4. StateOK'
    BY <2>2, <2>3 DEF TypeInv, StateOK
  <2> QED
    BY <1>8, <2>1, <2>4, OtherStep DEF StartPrint, EndPrint, filament, saved
<1>9. CASE Hands
  BY <1>9, HandsTypes
<1>10. CASE Shutdown
  BY <1>10, ShutdownTypes
<1>11. CASE Restart
  BY <1>11, RestartTypes
<1>12. CASE UNCHANGED vars
  <2>1. FilamentOK' /\ RecordOK' /\ TaskOK' /\ CmdOK'
    BY <1>12 DEF vars, TypeInv, FilamentOK, RecordOK, TaskOK, CmdOK
  <2>2. StateOK' /\ DownInv'
    BY <1>12 DEF vars, TypeInv, StateOK, DownInv
  <2>3. MotionOK'
    BY <1>12 DEF vars, TypeInv, MotionOK, HubOccupied, Reaches
  <2> QED
    BY <2>1, <2>2, <2>3 DEF TypeInv
<1> QED
  BY <1>1, <1>2, <1>3, <1>4, <1>5, <1>6, <1>7, <1>8, <1>9, <1>10, <1>11, <1>12 DEF Next

LEMMA TypeInit == Init => TypeInv
<1> SUFFICES ASSUME Init PROVE TypeInv
  OBVIOUS
<1>0. FilamentOK /\ RecordOK
  <2>1. at \in [Slots -> Out .. Toolhead] /\ loose \in Out .. Toolhead
    BY DEF Init, Out, Inlet, Toolhead
  <2>2. RecordOK
    BY DEF Init, RecordOK
  <2> QED
    BY <2>1, <2>2 DEF FilamentOK
<1>1. FilamentOK /\ RecordOK /\ StateOK
  BY <1>0 DEF Init, StateOK
<1>2. TaskOK /\ CmdOK /\ MotionOK /\ DownInv
  BY Queues DEF Init, TaskOK, Tasks, NoTask, CmdOK, NoCommand, Pulling, MotionOK, DownInv
<1> QED
  BY <1>1, <1>2 DEF TypeInv

\* In every state each variable has its type, a motion belongs to the command
\* that waits for it or to an insertion, and nothing outlives a shutdown.
THEOREM FilamentTypes == Spec => []TypeInv
  BY TypeInit, TypeStep, PTL DEF Spec

-----------------------------------------------------------------------------
(* Flows and the nozzle.                                                    *)

\* A command that stops the flow, or finds none, leaves the nozzle to its script.
LEMMA StopFlows ==
    ASSUME TypeInv, FlowInv, cmd # NoCommand, cmd.pc \notin {"run", "stopping done", "stopping retract"},
           NEW pc \in {"done", "retract"}, StopFlow(pc), UNCHANGED <<printing, heat, web>>
    PROVE  FlowInv'
<1>1. Waiting["done"] = "stopping done" /\ Waiting["retract"] = "stopping retract"
  BY DEF Waiting
<1>2. task' = NoTask /\ cmd' = [cmd EXCEPT !.pc = IF task = NoTask THEN pc ELSE Waiting[pc]]
  BY DEF StopFlow, Goto
<1>3. cmd \in Cmds
  BY CommandKinds DEF TypeInv
<1>4. cmd'.pc = IF task = NoTask THEN pc ELSE Waiting[pc]
  BY <1>2, <1>3 DEF Cmds
<1>5. RunnerInv' /\ PrintInv'
  BY <1>1, <1>2, <1>4 DEF RunnerInv, PrintInv
<1>6. HeatInv'
  <2>1. CASE task = NoTask
    <3>1. heat /\ ~Active => web = "idle"
      BY <2>1 DEF FlowInv, HeatInv
    <3> QED
      BY <3>1 DEF HeatInv, Active
  <2>2. CASE task # NoTask
    <3>1. cmd'.pc \in {"stopping done", "stopping retract"}
      BY <1>1, <1>4, <2>2
    <3> QED
      BY <3>1 DEF HeatInv
  <2> QED
    BY <2>1, <2>2
<1> QED
  BY <1>5, <1>6 DEF FlowInv

\* A command that ends and leaves the flow, the print and the nozzle as they are.
LEMMA EndFlows ==
    ASSUME FlowInv, cmd.pc \notin {"stopping done", "stopping retract"},
           task = NoTask \/ cmd.pc # "run", End, UNCHANGED <<task, printing, heat, web>>
    PROVE  FlowInv'
<1>1. cmd' = NoCommand /\ cmd'.kind = "none" /\ cmd'.pc = "start"
  BY DEF End, NoCommand
<1>2. RunnerInv' /\ PrintInv'
  BY <1>1 DEF FlowInv, RunnerInv, PrintInv
<1>3. HeatInv'
  <2>1. heat /\ ~Active /\ task = NoTask => web = "idle"
    BY DEF FlowInv, HeatInv
  <2> QED
    BY <2>1 DEF HeatInv, Active
<1> QED
  BY <1>2, <1>3 DEF FlowInv

\* A flow that starts, in a print if its command needs one.
LEMMA StartFlows ==
    ASSUME TypeInv, cmd # NoCommand, NEW slot, NEW queue, StartFlow(slot, queue), UNCHANGED <<printing, web>>,
           slot \in Slots \/ Active,
           cmd.kind = "tool" => Active, cmd.kind = "resume" => printing = "paused"
    PROVE  FlowInv'
<1>1. cmd \in Cmds
  BY CommandKinds DEF TypeInv
<1>2. cmd'.pc = "run" /\ cmd'.kind = cmd.kind
  BY <1>1 DEF StartFlow, Goto, Cmds
<1>3. task' # NoTask \/ Active
  BY FilamentAssumption DEF StartFlow, NoTask
<1> QED
  BY <1>2, <1>3 DEF FlowInv, RunnerInv, PrintInv, HeatInv, Active

\* A step that leaves the flow, its place and the nozzle.
LEMMA SameFlows ==
    ASSUME FlowInv, UNCHANGED <<task, printing, heat, web>>, cmd'.kind = cmd.kind,
           cmd'.pc = cmd.pc \/ (/\ cmd'.pc # "run" /\ cmd.pc \notin {"run", "stopping done", "stopping retract"})
    PROVE  FlowInv'
<1>1. RunnerInv' /\ PrintInv'
  BY DEF FlowInv, RunnerInv, PrintInv, Active
<1>2. HeatInv'
  BY DEF FlowInv, HeatInv, Active
<1> QED
  BY <1>1, <1>2 DEF FlowInv

LEMMA PauseFlows ==
    ASSUME TypeInv, FlowInv, cmd.pc = "run", PauseFlow, heat' = heat \/ heat' = (heat /\ Active), UNCHANGED web
    PROVE  FlowInv'
<1>1. cmd'.kind = "none" /\ cmd'.pc = "start"
  BY DEF PauseFlow, End, NoCommand
<1>2. task' = IF task = NoTask THEN NoTask ELSE [task EXCEPT !.paused = TRUE]
  BY DEF PauseFlow
<1>3. task' = NoTask => task = NoTask
  <2>1. task \in Tasks /\ NoTask.paused = FALSE
    BY DEF TypeInv, TaskOK, NoTask
  <2> QED
    BY <1>2, <2>1 DEF Tasks
<1>4. RunnerInv' /\ PrintInv'
  BY <1>1, <1>2 DEF RunnerInv, PrintInv
<1>5. HeatInv'
  <2>1. heat' => heat
    OBVIOUS
  <2>2. Active => Active'
    BY DEF PauseFlow, Active
  <2>3. web' = web /\ cmd.pc \notin {"stopping done", "stopping retract"}
    OBVIOUS
  <2> QED
    BY <1>3, <2>1, <2>2, <2>3 DEF FlowInv, HeatInv
<1> QED
  BY <1>4, <1>5 DEF FlowInv

LEMMA FlowStep ==
    ASSUME TypeInv, FlowInv, [Next]_vars
    PROVE  FlowInv'
<1>t. TypeInv'
  BY TypeStep
<1>1. ASSUME NEW pc \in {"done", "retract"}, Stopping(pc)
      PROVE  FlowInv'
  <2>1. Waiting["done"] = "stopping done" /\ Waiting["retract"] = "stopping retract"
    BY DEF Waiting
  <2>2. cmd.pc \in {"stopping done", "stopping retract"} /\ Goto(pc)
        /\ heat' = (heat /\ Active) /\ UNCHANGED <<task, printing>>
    BY <1>1, <2>1 DEF Stopping
  <2>3. cmd # NoCommand
    BY <1>1, CommandRuns DEF Commands
  <2>4. cmd'.pc = pc
    BY <2>2, <2>3, CommandKinds DEF TypeInv, Goto, Cmds
  <2>5. RunnerInv' /\ PrintInv'
    BY <2>2, <2>4 DEF FlowInv, RunnerInv, PrintInv
  <2>6. HeatInv'
    BY <2>2 DEF HeatInv, Active
  <2> QED
    BY <2>5, <2>6 DEF FlowInv
<1>2. CASE StopCommand
  BY <1>2, CommandRuns, StopFlows DEF StopCommand, Commands
<1>3. CASE Done
  BY <1>3, EndFlows DEF Done
<1>4. CASE LoadCommand
  <2>1. cmd # NoCommand /\ cmd.slot \in Slots
    BY <1>4, CommandKinds, CommandRuns DEF LoadCommand, Commands, TypeInv, SlotKinds
  <2> QED
    BY <1>4, <2>1, StartFlows DEF LoadCommand
<1>5. CASE ToolCommand
  <2>0. cmd # NoCommand
    BY <1>5, CommandRuns DEF Commands
  <2>1. CASE cmd.kind = "tool" /\ Active /\ StartFlow(cmd.slot, ToolFlow)
    BY <1>5, <2>0, <2>1, StartFlows DEF ToolCommand
  <2>2. CASE cmd.kind = "resume" /\ printing = "paused"
             /\ (StartFlow(task.slot, ToolFlow) \/ StartFlow(NoSlot, <<>>))
    BY <1>5, <2>0, <2>2, StartFlows DEF ToolCommand, Active
  <2>3. CASE End /\ UNCHANGED <<task, heat>>
    BY <1>5, <2>3, EndFlows DEF ToolCommand
  <2> QED
    BY <1>5, <2>1, <2>2, <2>3 DEF ToolCommand
<1>6. CASE RetryCommand
  <2>0. cmd # NoCommand
    BY <1>6, CommandRuns DEF Commands
  <2>1. CASE task.paused
    <3>1. task # NoTask
      BY <2>1 DEF NoTask
    <3>2. task.slot \in Slots /\ task \in Tasks
      BY <3>1 DEF TypeInv, TaskOK
    <3>3. task' = [task EXCEPT !.paused = FALSE] /\ Goto("run") /\ UNCHANGED <<printing, web>>
      BY <1>6, <2>1 DEF RetryCommand
    <3>4. task'.slot \in Slots
      BY <3>2, <3>3 DEF Tasks
    <3>5. task' # NoTask
      BY <3>4, FilamentAssumption DEF NoTask
    <3>6. cmd'.pc = "run" /\ cmd'.kind = cmd.kind /\ cmd.kind = "retry"
      BY <1>6, <2>0, <3>3, CommandKinds DEF TypeInv, Goto, Cmds, RetryCommand
    <3> QED
      BY <3>5, <3>6 DEF FlowInv, RunnerInv, HeatInv, PrintInv
  <2>2. CASE ~task.paused
    BY <1>6, <2>2, EndFlows DEF RetryCommand
  <2> QED
    BY <2>1, <2>2
<1>7. CASE FilamentCommand
  <2>0. cmd # NoCommand /\ cmd.slot \in Slots /\ cmd.pc = "start"
    BY <1>7, CommandKinds, CommandRuns DEF FilamentCommand, Commands, TypeInv, SlotKinds
  <2>1. CASE Original
    BY <1>7, <2>0, <2>1, StartFlows DEF FilamentCommand, Original
  <2>2. CASE UNCHANGED heat /\ (StopFlow("done") \/ StopFlow("retract"))
    BY <1>7, <2>0, <2>2, StopFlows DEF FilamentCommand
  <2>3. CASE UNCHANGED heat /\ End /\ UNCHANGED task
    BY <1>7, <2>0, <2>3, EndFlows DEF FilamentCommand
  <2> QED
    BY <1>7, <2>1, <2>2, <2>3 DEF FilamentCommand
<1>8. CASE Retract
  <2>1. CASE End
    BY <1>8, <2>1, EndFlows DEF Retract
  <2>2. CASE UNCHANGED cmd
    BY <1>8, <2>2, SameFlows DEF Retract
  <2> QED
    BY <1>8, <2>1, <2>2 DEF Retract
<1>9. CASE Cleared
  <2>0. cmd # NoCommand /\ cmd.slot \in Slots /\ cmd.kind \in {"unload", "eject"}
    BY <1>9, CommandKinds, CommandRuns DEF Cleared, Commands, TypeInv, Pulling, CmdOK
  <2>1. CASE Original
    BY <1>9, <2>0, <2>1, StartFlows DEF Cleared, Original
  <2>2. CASE UNCHANGED <<task, heat, cmd>>
    BY <1>9, <2>2, SameFlows DEF Cleared
  <2> QED
    BY <1>9, <2>1, <2>2 DEF Cleared
<1>10. CASE JogCommand
  <2>1. CASE End
    BY <1>10, <2>1, EndFlows DEF JogCommand
  <2>2. CASE UNCHANGED cmd
    BY <1>10, <2>2, SameFlows DEF JogCommand
  <2> QED
    BY <1>10, <2>1, <2>2 DEF JogCommand
<1>11. CASE RunStep
  <2>0. cmd.pc = "run" /\ web' = web /\ task \in Tasks /\ task.slot \in Slots
    <3>1. task.queue # <<>> => task # NoTask
      BY DEF NoTask
    <3> QED
      BY <1>11, <3>1 DEF RunStep, TypeInv, TaskOK
  <2>1. CASE StepDone /\ UNCHANGED <<last, printing, cmd, motion, heat>>
    <3>0. task # NoTask
      BY <2>0, FilamentAssumption DEF NoTask
    <3>1. task'.slot = task.slot
      BY <2>0, <2>1, <3>0 DEF StepDone, Tasks
    <3>2. task' # NoTask
      BY <2>0, <3>1, FilamentAssumption DEF NoTask
    <3> QED
      BY <2>0, <2>1, <3>2 DEF FlowInv, RunnerInv, HeatInv, PrintInv, Active
  <2>2. CASE PauseFlow /\ heat' = (heat /\ Active)
    BY <2>0, <2>2, PauseFlows
  <2>3. CASE UNCHANGED <<task, printing, cmd, heat>>
    BY <2>0, <2>3, SameFlows
  <2> QED
    BY <1>11, <2>1, <2>2, <2>3 DEF RunStep
<1>12. CASE FlowEnds
  <2>1. task' = NoTask /\ cmd'.kind = "none" /\ cmd'.pc = "start" /\ web' = web
    BY <1>12 DEF FlowEnds, End, NoCommand
  <2>2. heat' /\ ~Active' /\ task' = NoTask => web' = "idle"
    <3>1. SUFFICES ASSUME heat', ~Active' PROVE web' = "idle"
      OBVIOUS
    <3>2. (task = NoTask \/ DuringPrint) /\ heat
      BY <1>12, <3>1 DEF FlowEnds
    <3>3. cmd.kind # "resume" /\ ~Active
      BY <1>12, <3>1 DEF FlowEnds, Active
    <3>4. ~DuringPrint
      BY <1>12, <3>3 DEF FlowEnds, DuringPrint, FlowInv, PrintInv
    <3> QED
      BY <1>12, <2>1, <3>2, <3>3, <3>4 DEF FlowEnds, FlowInv, HeatInv
  <2> QED
    BY <2>1, <2>2 DEF FlowInv, RunnerInv, PrintInv, HeatInv
<1>13. CASE StepMoved
  <2>0. cmd.pc = "run" /\ web' = web /\ heat' = heat /\ (task = NoTask \/ task.queue # <<>>)
    <3>1. motion.by \in Steps /\ motion # NoMotion
      BY <1>13 DEF StepMoved, Steps, NoMotion
    <3> QED
      BY <1>13, <3>1 DEF StepMoved, TypeInv, MotionOK
  <2>1. CASE StepDone /\ UNCHANGED <<printing, cmd>>
    <3>1. CASE task = NoTask
      BY <2>0, <2>1, <3>1, SameFlows DEF StepDone
    <3>2. CASE task # NoTask
      <4>1. task \in Tasks /\ task.slot \in Slots
        BY <3>2 DEF TypeInv, TaskOK
      <4>2. task'.slot \in Slots
        BY <2>1, <3>2, <4>1 DEF StepDone, Tasks
      <4>3. task' # NoTask
        BY <4>2, FilamentAssumption DEF NoTask
      <4> QED
        BY <2>0, <2>1, <4>3 DEF FlowInv, RunnerInv, HeatInv, PrintInv, Active
    <3> QED
      BY <3>1, <3>2
  <2>2. CASE PauseFlow
    BY <2>0, <2>2, PauseFlows
  <2> QED
    BY <1>13, <2>1, <2>2 DEF StepMoved, PauseAfterError
<1>14. CASE Retracted
  <2>1. cmd.pc = "retract" /\ cmd # NoCommand
    BY <1>14 DEF Retracted, TypeInv, MotionOK, NoMotion, NoCommand
  <2>2. CASE End
    BY <1>14, <2>1, <2>2, EndFlows DEF Retracted, MotorTaken
  <2>3. CASE Goto("clear")
    <3>1. cmd'.pc = "clear" /\ cmd'.kind = cmd.kind
      BY <2>1, <2>3, CommandKinds DEF TypeInv, Goto, Cmds
    <3> QED
      BY <1>14, <2>1, <3>1, SameFlows DEF Retracted
  <2> QED
    BY <1>14, <2>2, <2>3 DEF Retracted, MotorTaken
<1>15. CASE Parked
  <2>1. cmd.pc = "clear"
    BY <1>15 DEF Parked, TypeInv, MotionOK, NoMotion
  <2> QED
    BY <1>15, <2>1, EndFlows DEF Parked, MotorTaken
<1>16. CASE Jogged
  <2>0. motion.by \in {"jog in", "jog out"} /\ motion # NoMotion
    <3>1. motion.by \in {"jog in", "jog out"}
      BY <1>16 DEF Jogged
    <3>2. NoMotion.by = "none"
      BY DEF NoMotion
    <3> QED
      BY <3>1, <3>2
  <2>1. cmd.pc = "start"
    BY <2>0 DEF TypeInv, MotionOK
  <2> QED
    BY <1>16, <2>1, EndFlows DEF Jogged, MotorTaken
<1>17. CASE Inserted
  BY <1>17, SameFlows DEF Inserted
<1>18. CASE WebHeater
  <2>1. cmd = NoCommand /\ cmd.pc = "start" /\ UNCHANGED <<task, printing, cmd>> /\ heat' = (heat /\ web # "idle")
    BY <1>18 DEF WebHeater, LockIsFree, NoCommand
  <2>2. ~(heat' /\ ~Active /\ task = NoTask)
    BY <2>1 DEF FlowInv, HeatInv
  <2> QED
    BY <2>1, <2>2 DEF FlowInv, RunnerInv, HeatInv, PrintInv, Active
<1>19. CASE WebStop
  <2>1. task' = NoTask /\ web' = printing /\ UNCHANGED <<printing, cmd, heat>>
    BY <1>19 DEF WebStop
  <2>2. ~Active => web' = "idle"
    BY <2>1 DEF Active, TypeInv, StateOK
  <2> QED
    BY <2>1, <2>2 DEF FlowInv, RunnerInv, HeatInv, PrintInv, Active
<1>20. ASSUME NEW kind, NEW slot, Begin(kind, slot)
       PROVE  FlowInv'
  <2>1. cmd'.pc = "start" /\ cmd = NoCommand /\ UNCHANGED <<task, printing, web, heat>>
    BY <1>20 DEF Begin, LockIsFree
  <2>2. RunnerInv' /\ PrintInv'
    BY <2>1 DEF FlowInv, RunnerInv, PrintInv, NoCommand
  <2>3. HeatInv'
    BY <2>1 DEF FlowInv, HeatInv, NoCommand, Active
  <2> QED
    BY <2>2, <2>3 DEF FlowInv
<1>21. ASSUME NEW slot \in Slots, Insert(slot)
       PROVE  FlowInv'
  BY <1>21, SameFlows DEF Insert
<1>22. CASE StartPrint \/ EndPrint
  <2>1. cmd = NoCommand /\ UNCHANGED <<task, cmd, web>>
    BY <1>22 DEF StartPrint, EndPrint, LockIsFree
  <2>2. Active' \/ ~heat'
    BY <1>22 DEF StartPrint, EndPrint, Active
  <2> QED
    BY <2>1, <2>2 DEF FlowInv, RunnerInv, HeatInv, PrintInv, NoCommand
<1>23. CASE Hands
  BY <1>23, SameFlows DEF Hands
<1>24. CASE Shutdown
  BY <1>24 DEF Shutdown, FlowInv, RunnerInv, HeatInv, PrintInv, NoCommand
<1>25. CASE Restart
  BY <1>25, SameFlows DEF Restart
<1>26. CASE UNCHANGED vars
  BY <1>26, SameFlows DEF vars
<1>27. CASE Commands
  BY <1>27, <1>1, <1>2, <1>3, <1>4, <1>5, <1>6, <1>7, <1>8, <1>9, <1>10, <1>11, <1>12 DEF Commands
<1>28. CASE Motions
  BY <1>28, <1>13, <1>14, <1>15, <1>16, <1>17 DEF Motions
<1> QED
  BY <1>18, <1>19, <1>20, <1>21, <1>22, <1>23, <1>24, <1>25, <1>26, <1>27, <1>28 DEF Next

LEMMA FlowInit == Init => FlowInv
  BY DEF Init, FlowInv, RunnerInv, HeatInv, PrintInv, NoCommand

LEMMA FlowSafe ==
    ASSUME FlowInv
    PROVE  NothingLeftRunning
<1> SUFFICES ASSUME cmd = NoCommand, web = NoStop
             PROVE  /\ task # NoTask => task.paused
                    /\ heat => task # NoTask \/ Active
  BY DEF NothingLeftRunning
<1>1. cmd.pc = "start" /\ web # "idle"
  BY DEF NoCommand, NoStop
<1> QED
  BY <1>1 DEF FlowInv, RunnerInv, HeatInv

\* When no command runs and no web stop is under way, whatever failed, raised,
\* was stopped or shut down: a flow that is there is paused, so it can be
\* retried or stopped, and a hot nozzle has a flow or a print (box_flow_recovery.py).
THEOREM NothingIsLeftRunning == Spec => []NothingLeftRunning
<1>1. Init => TypeInv /\ FlowInv
  BY TypeInit, FlowInit
<1>2. TypeInv /\ FlowInv /\ [Next]_vars => (TypeInv /\ FlowInv)'
  BY TypeStep, FlowStep
<1>3. FlowInv => NothingLeftRunning
  BY FlowSafe
<1> QED
  BY <1>1, <1>2, <1>3, PTL DEF Spec

-----------------------------------------------------------------------------
(* Whose filament is at the hub.                                            *)

\* A motion that ends, recorded or not, leaves one filament at the hub and a
\* record that names it.
LEMMA MovedHub ==
    ASSUME TypeInv, OneAtHub, RecordTrue, NEW slot \in Slots, NEW place \in Out .. Toolhead,
           place >= Hub => at[slot] >= Hub \/ ~Others(slot, Hub),
           at' = Moved(slot, place), loose' = loose,
           RecordMotion(slot, HubOccupied, at') \/ stale' = TRUE
    PROVE  OneAtHub' /\ RecordTrue'
<1>1. /\ at' \in [Slots -> Out .. Toolhead] /\ at'[slot] = place
      /\ \A s \in Slots \ {slot} : at'[s] = at[s]
      /\ at \in [Slots -> Out .. Toolhead] /\ loose \in Out .. Toolhead
  BY MovedOK DEF TypeInv, FilamentOK
<1>2. place >= Hub => \A s \in Slots \ {slot} : ~(at[s] >= Hub)
  BY DEF OneAtHub, Others
<1>3. OneAtHub'
  <2>1. ASSUME NEW s \in Slots, NEW t \in Slots, at'[s] >= Hub, at'[t] >= Hub
        PROVE  s = t
    BY <1>1, <1>2, <2>1 DEF OneAtHub
  <2>2. ASSUME loose # Out, NEW s \in Slots
        PROVE  loose' >= Hub /\ at'[s] < Hub
    <3>0. loose' >= Hub
      BY <2>2 DEF OneAtHub
    <3>1. CASE s # slot
      BY <1>1, <2>2, <3>0, <3>1 DEF OneAtHub
    <3>2. CASE s = slot
      <4>1. at[slot] < Hub
        BY <2>2 DEF OneAtHub
      <4>2. Others(slot, Hub)
        BY <2>2 DEF OneAtHub, Others
      <4>3. ~(at[slot] >= Hub)
        BY <1>1, <4>1 DEF Out, Toolhead, Hub
      <4> QED
        BY <1>1, <3>0, <3>2, <4>2, <4>3 DEF Out, Toolhead, Hub
    <3> QED
      BY <3>1, <3>2
  <2> QED
    BY <2>1, <2>2 DEF OneAtHub
<1>4. RecordTrue'
  <2>1. SUFFICES ASSUME ~stale', loose = Out, HubOccupied'
                 PROVE  hubSlot' \in Slots /\ at'[hubSlot'] >= Hub
    BY DEF RecordTrue
  <2>2. Reaches(at', Hub) /\ \E s \in Slots : at'[s] >= Hub
    BY <2>1 DEF HubOccupied, Reaches, Out, Hub
  <2>3. hubSlot' = RecordAfter(slot, HubOccupied, at') /\ stale' = (stale /\ HubOccupied /\ Reaches(at', Hub))
    BY <2>1 DEF RecordMotion
  <2>4. CASE ~HubOccupied
    <3>1. hubSlot' = slot
      BY <2>2, <2>3, <2>4 DEF RecordAfter
    <3>2. \A s \in Slots : ~(at[s] >= Hub)
      BY <2>4 DEF HubOccupied, Reaches
    <3> QED
      BY <1>1, <2>2, <3>1, <3>2
  <2>5. CASE HubOccupied
    <3>1. hubSlot' = hubSlot /\ ~stale
      BY <2>1, <2>2, <2>3, <2>5 DEF RecordAfter
    <3>2. hubSlot \in Slots /\ at[hubSlot] >= Hub
      BY <2>1, <2>5, <3>1 DEF RecordTrue
    <3>3. PICK s \in Slots : at'[s] >= Hub
      BY <2>2
    <3>4. CASE s = slot
      BY <1>1, <1>2, <3>1, <3>2, <3>3, <3>4
    <3>5. CASE s # slot
      <4>1. s = hubSlot
        BY <1>1, <3>2, <3>3, <3>5 DEF OneAtHub
      <4> QED
        BY <3>1, <3>3, <4>1
    <3> QED
      BY <3>4, <3>5
  <2> QED
    BY <2>4, <2>5
<1> QED
  BY <1>3, <1>4

\* A step that leaves the filament and the record.
LEMMA SameHub ==
    ASSUME HubInv, UNCHANGED <<at, loose, hubSlot, stale>>,
           cmd'.pc \in {"retract", "stopping retract"} =>
               /\ cmd.pc \in {"retract", "stopping retract"} /\ cmd'.slot = cmd.slot
               /\ motion' = motion \/ motion'.by # "insert"
    PROVE  HubInv'
<1>1. HubOccupied' = HubOccupied
  BY DEF HubOccupied, Reaches
<1> QED
  BY <1>1 DEF HubInv, OneAtHub, RecordTrue, PullTrue

\* The only slot with filament at its inlet is the one named.
LEMMA OnlyInlet ==
    ASSUME NEW s \in Slots, s \in Inlets, OnlySlot # NoSlot
    PROVE  OnlySlot = s
<1>1. Cardinality(Inlets) = 1
  BY DEF OnlySlot
<1>2. PICK t : Inlets = {t}
  <2>1. IsFiniteSet(Inlets)
    BY FilamentAssumption, FS_Subset DEF Inlets
  <2> QED
    BY <1>1, <2>1, FS_Singleton
<1>3. OnlySlot = CHOOSE x \in Slots : x \in Inlets
  BY <1>1 DEF OnlySlot
<1> QED
  BY <1>2, <1>3

\* What the commands take for the stranded filament's slot is its slot.
LEMMA HubSlotTrue ==
    ASSUME TypeInv, HubInv, ~stale, loose = Out, HubOccupied, HubSlot \in Slots
    PROVE  at[HubSlot] >= Hub
<1>1. hubSlot \in Slots /\ at[hubSlot] >= Hub
  BY DEF HubInv, RecordTrue
<1>2. hubSlot \in Inlets
  <2>1. at[hubSlot] \in Out .. Toolhead
    BY <1>1 DEF TypeInv, FilamentOK
  <2> QED
    BY <1>1, <2>1 DEF Inlets, Hub, Inlet, Out, Toolhead
<1> DEFINE named == {hubSlot, last} \cap Inlets
<1>3. IsFiniteSet(named) /\ hubSlot \in named
  <2>1. IsFiniteSet({hubSlot, last})
    <3>1. IsFiniteSet({hubSlot})
      BY FS_Singleton
    <3>2. IsFiniteSet({hubSlot} \cup {last})
      BY <3>1, FS_AddElement
    <3>3. {hubSlot, last} = {hubSlot} \cup {last}
      OBVIOUS
    <3> QED
      BY <3>2, <3>3
  <2> QED
    BY <1>2, <2>1, FS_Subset
<1>4. CASE Cardinality(named) = 1
  <2>1. PICK t : named = {t}
    BY <1>3, <1>4, FS_Singleton
  <2>2. named = {hubSlot}
    BY <1>3, <2>1
  <2>3. HubSlot = CHOOSE s \in Slots : s \in named
    BY <1>4 DEF HubSlot
  <2> HIDE DEF named
  <2>4. HubSlot = hubSlot
    BY <1>1, <2>2, <2>3
  <2> QED
    BY <1>1, <2>4
<1>5. CASE Cardinality(named) = 2
  <2>1. HubSlot = NoSlot
    BY <1>5 DEF HubSlot
  <2> QED
    BY <2>1, FilamentAssumption
<1>6. CASE Cardinality(named) # 1 /\ Cardinality(named) # 2
  <2>1. HubSlot = OnlySlot
    BY <1>6 DEF HubSlot
  <2>2. OnlySlot # NoSlot
    BY <2>1, FilamentAssumption
  <2> QED
    BY <1>1, <1>2, <2>1, <2>2, OnlyInlet
<1> QED
  BY <1>4, <1>5, <1>6

LEMMA MotionBefore ==
    ASSUME TypeInv, motion # NoMotion
    PROVE  motion.before = HubOccupied /\ motion.slot \in Slots
  BY DEF TypeInv, MotionOK

LEMMA HubStep ==
    ASSUME TypeInv, HubInv, [Next]_vars
    PROVE  HubInv'
<1> USE DEF saved, filament
<1>t. FilamentOK /\ OneAtHub /\ RecordTrue
  BY DEF TypeInv, HubInv
<1>n. NoCommand.pc = "start"
  BY DEF NoCommand
<1>m. NoMotion.by # "insert"
  BY DEF NoMotion
<1>1. ASSUME NEW pc \in {"done", "retract"}, Stopping(pc)
      PROVE  HubInv'
  <2>0. cmd # NoCommand
    BY <1>1, CommandRuns DEF Commands
  <2>1. cmd'.pc = pc /\ cmd'.slot = cmd.slot
    BY <1>1, <2>0, CommandKinds DEF Stopping, TypeInv, Goto, Cmds
  <2>2. pc = "retract" => cmd.pc = "stopping retract"
    <3>1. Waiting["retract"] = "stopping retract"
      BY DEF Waiting
    <3> QED
      BY <1>1, <3>1 DEF Stopping
  <2> QED
    BY <1>1, <2>1, <2>2, SameHub DEF Stopping
<1>2. CASE StopCommand
  <2>0. cmd # NoCommand
    BY <1>2, CommandRuns DEF Commands
  <2>1. Waiting["done"] = "stopping done"
    BY DEF Waiting
  <2>2. cmd'.pc \in {"done", "stopping done"}
    BY <1>2, <2>0, <2>1, CommandKinds DEF StopCommand, StopFlow, Goto, TypeInv, Cmds
  <2> QED
    BY <1>2, <2>2, SameHub DEF StopCommand
<1>3. CASE Done
  BY <1>3, SameHub DEF Done, End, NoCommand
<1>4. ASSUME NEW slot, NEW queue, StartFlow(slot, queue), UNCHANGED <<filament, saved, stale>>, cmd # NoCommand
      PROVE  HubInv'
  <2>1. cmd'.pc = "run"
    BY <1>4, CommandKinds DEF StartFlow, TypeInv, Goto, Cmds
  <2> QED
    BY <1>4, <2>1, SameHub
<1>5. ASSUME End, UNCHANGED <<filament, saved, stale>>
      PROVE  HubInv'
  BY <1>5, SameHub DEF End, NoCommand
<1>6. CASE LoadCommand
  BY <1>4, <1>6, CommandRuns DEF LoadCommand, Commands
<1>7. CASE ToolCommand
  BY <1>4, <1>5, <1>7, CommandRuns DEF ToolCommand, Commands
<1>8. CASE RetryCommand
  <2>0. cmd # NoCommand
    BY <1>8, CommandRuns DEF Commands
  <2>1. CASE Goto("run")
    <3>1. cmd'.pc = "run"
      BY <2>0, <2>1, CommandKinds DEF TypeInv, Goto, Cmds
    <3> QED
      BY <1>8, <3>1, SameHub DEF RetryCommand
  <2>2. CASE End
    BY <1>5, <1>8, <2>2 DEF RetryCommand
  <2> QED
    BY <1>8, <2>1, <2>2 DEF RetryCommand
<1>9. CASE FilamentCommand
  <2>0. cmd # NoCommand /\ cmd.slot \in Slots /\ cmd \in Cmds
    BY <1>9, CommandKinds, CommandRuns DEF FilamentCommand, Commands, TypeInv, SlotKinds
  <2>f. UNCHANGED <<filament, saved, stale>>
    BY <1>9 DEF FilamentCommand
  <2>1. CASE Original
    BY <1>4, <2>0, <2>1, <2>f DEF Original
  <2>2. CASE StopFlow("done")
    <3>1. Waiting["done"] = "stopping done"
      BY DEF Waiting
    <3>2. cmd'.pc \in {"done", "stopping done"}
      BY <2>0, <2>2, <3>1 DEF StopFlow, Goto, Cmds
    <3> QED
      BY <2>f, <3>2, SameHub
  <2>3. CASE Plan = "retract" /\ StopFlow("retract")
    <3>1. HubSlot = cmd.slot
      BY <2>3 DEF Plan
    <3>2. ~stale /\ loose = Out /\ HubOccupied => at[cmd.slot] >= Hub
      BY <2>0, <3>1, HubSlotTrue
    <3>3. cmd'.slot = cmd.slot
      BY <2>0, <2>3 DEF StopFlow, Goto, Cmds
    <3>4. HubOccupied' = HubOccupied
      BY <2>f, Hubs
    <3>5. HubOccupied
      BY <2>3 DEF Plan
    <3>6. OneAtHub' /\ RecordTrue'
      BY <1>t, <2>f, <3>4 DEF OneAtHub, RecordTrue
    <3>7. PullTrue'
      BY <2>f, <3>2, <3>3, <3>4, <3>5 DEF PullTrue
    <3> QED
      BY <3>6, <3>7 DEF HubInv
  <2>4. CASE End
    BY <1>5, <2>4, <2>f
  <2> QED
    BY <1>9, <2>1, <2>2, <2>3, <2>4 DEF FilamentCommand
<1>10. CASE Retract \/ JogCommand
  <2>1. CASE End
    BY <1>5, <1>10, <2>1 DEF Retract, JogCommand
  <2>2. CASE UNCHANGED cmd
    <3>1. CASE Retract
      <4>1. motion' = motion \/ motion'.by = "retract"
        BY <3>1 DEF Retract, StartMotion
      <4> QED
        BY <2>2, <3>1, <4>1, SameHub DEF Retract
    <3>2. CASE JogCommand
      BY <2>2, <3>2, SameHub DEF JogCommand
    <3> QED
      BY <1>10, <3>1, <3>2
  <2> QED
    BY <1>10, <2>1, <2>2 DEF Retract, JogCommand
<1>11. CASE Cleared
  <2>1. CASE Original
    BY <1>4, <1>11, <2>1, CommandRuns DEF Original, Cleared, Commands
  <2>2. CASE UNCHANGED cmd
    BY <1>11, <2>2, SameHub DEF Cleared
  <2> QED
    BY <1>11, <2>1, <2>2 DEF Cleared
<1>12. CASE RunStep
  <2>1. UNCHANGED <<filament, hubSlot, stale>> /\ cmd.pc = "run"
    BY <1>12 DEF RunStep
  <2>2. cmd' = cmd \/ cmd' = NoCommand
    BY <1>12 DEF RunStep, PauseFlow, End
  <2> QED
    BY <1>n, <2>1, <2>2, SameHub
<1>13. CASE FlowEnds
  BY <1>5, <1>13 DEF FlowEnds
<1>14. CASE StepMoved
  <2>0. motion.by \in Drivers /\ motion.by \in Steps
    BY <1>14 DEF StepMoved, Drivers, Steps
  <2>m. /\ motion # NoMotion /\ motion \in [by : Drivers, slot : Slots, before : BOOLEAN]
        /\ motion.slot \in Slots /\ motion.before = HubOccupied /\ cmd.pc = "run"
    BY <2>0, Driven, MotionBefore DEF TypeInv, MotionOK
  <2>1. PICK place \in Moves(motion) :
          /\ at' = Moved(motion.slot, place) /\ loose' = loose
          /\ RecordMotion(motion.slot, HubOccupied, at')
    BY <1>14, <2>m DEF StepMoved
  <2>2. OneAtHub' /\ RecordTrue'
    BY <1>t, <2>m, <2>1, MovedHub, MotionPlaces
  <2>3. cmd' = cmd \/ cmd' = NoCommand
    BY <1>14 DEF StepMoved, PauseFlow, PauseAfterError, End
  <2> QED
    BY <1>n, <2>m, <2>2, <2>3 DEF HubInv, PullTrue
<1>15. CASE Retracted \/ Parked
  <2>0. motion.by \in Drivers /\ motion.by \in {"retract", "park"}
    BY <1>15 DEF Retracted, Parked, Drivers
  <2>m. /\ motion # NoMotion /\ cmd.slot \in Slots /\ motion.before = HubOccupied
        /\ cmd # NoCommand
    <3>1. motion # NoMotion /\ motion.slot \in Slots /\ motion.before = HubOccupied
      BY <2>0, Driven, MotionBefore
    <3>2. cmd.pc # "start" /\ motion.slot = cmd.slot
      BY <2>0, <3>1 DEF TypeInv, MotionOK
    <3> QED
      BY <1>n, <3>1, <3>2
  <2>1. PICK place \in Back(cmd.slot, Out) :
          /\ at' = Moved(cmd.slot, place) /\ loose' = loose
          /\ RecordMotion(cmd.slot, HubOccupied, at') \/ stale' = TRUE
    BY <1>15, <2>m DEF Retracted, Parked, MotorTaken, Unrecorded
  <2>2. OneAtHub' /\ RecordTrue'
    BY <1>t, <2>m, <2>1, MovedHub, BackPlaces
  <2>3. cmd'.pc \in {"start", "clear"}
    <3>1. CASE End
      BY <3>1 DEF End, NoCommand
    <3>2. CASE Goto("clear")
      BY <2>m, <3>2, CommandKinds DEF TypeInv, Goto, Cmds
    <3> QED
      BY <1>15, <3>1, <3>2 DEF Retracted, Parked, MotorTaken
  <2> QED
    BY <2>2, <2>3 DEF HubInv, PullTrue
<1>16. CASE Jogged \/ Inserted
  <2>0. motion.by \in Drivers
    BY <1>16 DEF Jogged, Inserted, Drivers
  <2>m. /\ motion # NoMotion /\ motion \in [by : Drivers, slot : Slots, before : BOOLEAN]
        /\ motion.slot \in Slots /\ motion.before = HubOccupied
    BY <2>0, Driven, MotionBefore
  <2>1. PICK place \in Moves(motion) :
          /\ at' = Moved(motion.slot, place) /\ loose' = loose
          /\ RecordMotion(motion.slot, HubOccupied, at') \/ stale' = TRUE
    BY <1>16, <2>m DEF Jogged, Inserted, Unrecorded, MotorTaken
  <2>2. OneAtHub' /\ RecordTrue'
    BY <1>t, <2>m, <2>1, MovedHub, MotionPlaces
  <2>3. CASE Jogged
    <3>1. cmd' = NoCommand
      BY <2>3 DEF Jogged, End, MotorTaken
    <3> QED
      BY <1>n, <2>2, <3>1 DEF HubInv, PullTrue
  <2>4. CASE Inserted
    <3>1. motion.by \in {"insert", "back off"} /\ cmd' = cmd /\ RecordMotion(motion.slot, HubOccupied, at')
      BY <2>m, <2>4 DEF Inserted
    <3>l. loose' = loose
      BY <2>4 DEF Inserted
    <3>2. motion'.by # "insert"
      <4>1. CASE motion' = NoMotion
        BY <1>m, <4>1
      <4>2. CASE motion' = [by |-> "back off", slot |-> motion.slot, before |-> TRUE]
        BY <4>2
      <4> QED
        BY <2>4, <4>1, <4>2 DEF Inserted
    <3>3. at'[motion.slot] = place /\ \A s \in Slots \ {motion.slot} : at'[s] = at[s]
      BY <1>t, <2>m, <2>1, MotionPlaces, MovedOK
    <3>h. stale' = (stale /\ HubOccupied /\ HubOccupied')
      <4>1. HubOccupied' = Reaches(at', Hub)
        BY <3>l DEF HubOccupied, Reaches
      <4>2. stale' = (stale /\ HubOccupied /\ Reaches(at', Hub))
        BY <3>1 DEF RecordMotion
      <4> QED
        BY <4>1, <4>2, Zenon
    <3>4. SUFFICES ASSUME cmd.pc \in {"retract", "stopping retract"}, ~stale', loose = Out, HubOccupied'
                   PROVE  at'[cmd.slot] >= Hub
      BY <2>1, <2>2, <3>1, <3>2 DEF HubInv, PullTrue
    <3>5. cmd.slot \in Slots
      BY <1>n, <3>4, CommandKinds DEF TypeInv, Pulling
    <3>6. PICK s \in Slots : at'[s] >= Hub
      <4>h. ~(Out >= Hub)
        BY DEF Out, Hub
      <4>1. ~(loose' >= Hub)
        BY <3>l, <3>4, <4>h
      <4> QED
        BY <3>4, <4>1 DEF HubOccupied, Reaches
    <3>7. CASE HubOccupied
      <4>1. at[cmd.slot] >= Hub
        BY <3>4, <3>7, <3>h DEF HubInv, PullTrue
      <4>2. CASE motion.slot = cmd.slot
        <5>1. s = cmd.slot
          BY <1>t, <3>3, <3>5, <3>6, <4>1, <4>2 DEF OneAtHub
        <5> QED
          BY <3>6, <5>1
      <4>3. CASE motion.slot # cmd.slot
        BY <3>3, <3>5, <4>1, <4>3
      <4> QED
        BY <4>2, <4>3
    <3>8. CASE ~HubOccupied
      <4>1. motion.by = "back off"
        BY <3>1, <3>4, <3>8 DEF HubInv, PullTrue
      <4>2. \A t \in Slots : ~(at[t] >= Hub)
        BY <3>8 DEF HubOccupied, Reaches
      <4>3. place \in Back(motion.slot, Out)
        BY <2>1, <2>m, <4>1, <4>2 DEF Moves
      <4>4. ~(place >= Hub)
        BY <1>t, <2>m, <4>2, <4>3, BackPlaces
      <4> QED
        BY <3>3, <3>6, <4>2, <4>4
    <3> QED
      BY <3>7, <3>8
  <2> QED
    BY <1>16, <2>3, <2>4
<1>17. CASE WebHeater \/ WebStop \/ StartPrint \/ EndPrint \/ Restart
  BY <1>17, SameHub DEF WebHeater, WebStop, StartPrint, EndPrint, Restart
<1>18. ASSUME NEW kind, NEW slot, Begin(kind, slot)
       PROVE  HubInv'
  BY <1>18, SameHub DEF Begin
<1>19. ASSUME NEW slot \in Slots, Insert(slot)
       PROVE  HubInv'
  <2>1. /\ at'[slot] = Inlet /\ at[slot] = Out /\ \A s \in Slots \ {slot} : at'[s] = at[s]
        /\ loose' = loose /\ hubSlot' = hubSlot /\ stale' = stale /\ cmd' = cmd
    <3>1. Inlet \in Out .. Toolhead
      BY DEF Inlet, Out, Toolhead
    <3> QED
      BY <1>t, <1>19, <3>1, MovedOK DEF Insert
  <2>2. /\ ~(at[slot] >= Hub) /\ ~(at'[slot] >= Hub) /\ at'[slot] < Hub
    BY <2>1 DEF Inlet, Out, Hub
  <2>3. \A s \in Slots : (at'[s] >= Hub) = (at[s] >= Hub) /\ (at[s] < Hub => at'[s] < Hub)
    BY <2>1, <2>2
  <2>4. HubOccupied' = HubOccupied
    BY <2>1, <2>3 DEF HubOccupied, Reaches
  <2>5. OneAtHub'
    BY <1>t, <2>1, <2>3 DEF OneAtHub
  <2>6. RecordTrue'
    BY <1>t, <2>1, <2>3, <2>4 DEF RecordTrue
  <2>7. cmd.pc \in {"retract", "stopping retract"} => motion' = motion /\ cmd.slot \in Slots
    <3>1. SUFFICES ASSUME cmd.pc \in {"retract", "stopping retract"} PROVE motion' = motion /\ cmd.slot \in Slots
      OBVIOUS
    <3>2. motion # NoMotion
      BY <1>19, <3>1 DEF Insert, AboutToPull
    <3> QED
      BY <1>19, <1>n, <3>1, <3>2, CommandKinds DEF Insert, TypeInv, Pulling
  <2>8. PullTrue'
    BY <2>1, <2>3, <2>4, <2>7 DEF HubInv, PullTrue
  <2> QED
    BY <2>5, <2>6, <2>8 DEF HubInv
<1>20. CASE Hands
  <2>o. UNCHANGED <<saved, stale, cmd>>
    BY <1>20 DEF Hands
  <2>h. Out < Hub /\ ~(Out >= Hub)
    BY DEF Out, Hub
  <2>i. motion'.by # "insert"
    BY <1>20, <1>m DEF Hands
  <2>1. ASSUME NEW s \in Slots, at' = Moved(s, Out), at[s] = Inlet, loose' = loose
        PROVE  HubInv'
    <3>1. at'[s] = Out /\ \A t \in Slots \ {s} : at'[t] = at[t]
      <4>1. Out \in Out .. Toolhead
        BY DEF Out, Toolhead
      <4> QED
        BY <1>t, <2>1, <4>1, MovedOK
    <3>2. ~(at[s] >= Hub) /\ at[s] < Hub
      BY <2>1 DEF Inlet, Hub
    <3>3. \A t \in Slots : (at'[t] >= Hub) = (at[t] >= Hub) /\ (at[t] < Hub => at'[t] < Hub)
      BY <2>h, <3>1, <3>2
    <3>4. HubOccupied' = HubOccupied
      BY <2>1, <3>3 DEF HubOccupied, Reaches
    <3>5. OneAtHub'
      BY <1>t, <2>1, <3>3 DEF OneAtHub
    <3>6. RecordTrue'
      BY <1>t, <2>1, <2>o, <3>3, <3>4 DEF RecordTrue
    <3>7. PullTrue'
      <4>1. SUFFICES ASSUME ~stale, loose = Out, HubOccupied, cmd.pc \in {"retract", "stopping retract"}
                     PROVE  at'[cmd.slot] >= Hub
        BY <2>1, <2>o, <2>i, <3>4 DEF PullTrue
      <4>2. at[cmd.slot] >= Hub
        BY <4>1 DEF HubInv, PullTrue
      <4>3. cmd.slot \in Slots
        BY <1>n, <4>1, CommandKinds DEF TypeInv, Pulling
      <4> QED
        BY <3>3, <4>2, <4>3
    <3> QED
      BY <3>5, <3>6, <3>7 DEF HubInv
  <2>2. ASSUME NEW s \in Slots, at[s] >= Hub, at' = Moved(s, Out), loose' = at[s]
        PROVE  HubInv'
    <3>1. at'[s] = Out /\ \A t \in Slots \ {s} : at'[t] = at[t]
      <4>1. Out \in Out .. Toolhead
        BY DEF Out, Toolhead
      <4> QED
        BY <1>t, <2>2, <4>1, MovedOK
    <3>2. \A t \in Slots \ {s} : ~(at[t] >= Hub) /\ at[t] < Hub
      <4>1. \A t \in Slots : at[t] \in Out .. Toolhead
        BY <1>t DEF FilamentOK
      <4> QED
        BY <1>t, <2>2, <4>1 DEF OneAtHub, Out, Hub, Toolhead
    <3>3. loose' >= Hub /\ loose' # Out
      BY <2>2, <2>h
    <3>4. OneAtHub'
      BY <2>h, <3>1, <3>2, <3>3 DEF OneAtHub
    <3> QED
      BY <2>i, <3>3, <3>4 DEF HubInv, RecordTrue, PullTrue
  <2>3. CASE loose # Out /\ loose' = Out /\ UNCHANGED at
    <3>1. \A s \in Slots : at[s] < Hub /\ ~(at[s] >= Hub)
      <4>1. \A s \in Slots : at[s] \in Out .. Toolhead
        BY <1>t DEF FilamentOK
      <4> QED
        BY <1>t, <2>3, <4>1 DEF OneAtHub, Out, Hub, Toolhead
    <3>2. ~HubOccupied'
      BY <2>3, <2>h, <3>1 DEF HubOccupied, Reaches
    <3> QED
      BY <1>t, <2>3, <2>i, <3>2 DEF HubInv, OneAtHub, RecordTrue, PullTrue
  <2> QED
    BY <1>20, <2>1, <2>2, <2>3 DEF Hands
<1>21. CASE Shutdown
  <2>1. CASE motion = NoMotion
    BY <1>21, <2>1, SameHub DEF Shutdown, NoCommand
  <2>2. CASE motion # NoMotion
    <3>1. motion \in [by : Drivers, slot : Slots, before : BOOLEAN] /\ motion.slot \in Slots
      BY <2>2 DEF TypeInv, MotionOK
    <3>2. PICK place \in Moves(motion) : at' = Moved(motion.slot, place)
      BY <1>21, <2>2 DEF Shutdown
    <3>3. loose' = loose /\ stale' = TRUE /\ cmd' = NoCommand
      BY <1>21, <2>2 DEF Shutdown
    <3>4. OneAtHub' /\ RecordTrue'
      BY <1>t, <3>1, <3>2, <3>3, MovedHub, MotionPlaces
    <3> QED
      BY <1>n, <3>3, <3>4 DEF HubInv, PullTrue
  <2> QED
    BY <2>1, <2>2
<1>22. CASE UNCHANGED vars
  BY <1>22, SameHub DEF vars
<1>23. CASE Commands
  BY <1>23, <1>1, <1>2, <1>3, <1>6, <1>7, <1>8, <1>9, <1>10, <1>11, <1>12, <1>13 DEF Commands
<1>24. CASE Motions
  BY <1>24, <1>14, <1>15, <1>16 DEF Motions
<1> QED
  BY <1>17, <1>18, <1>19, <1>20, <1>21, <1>22, <1>23, <1>24 DEF Next

LEMMA HubInit == Init => HubInv
<1> SUFFICES ASSUME Init PROVE HubInv
  OBVIOUS
<1>1. \A s \in Slots : at[s] < Hub /\ ~(at[s] >= Hub)
  BY DEF Init, Out, Inlet, Hub
<1>2. ~HubOccupied /\ loose = Out
  BY <1>1 DEF Init, HubOccupied, Reaches, Out, Hub
<1>3. cmd.pc = "start"
  BY DEF Init, NoCommand
<1> QED
  BY <1>1, <1>2, <1>3 DEF HubInv, OneAtHub, RecordTrue, PullTrue

\* The slot that the unload step is named for, when it is not the one saved.
LEMMA UnloadTrue ==
    ASSUME TypeInv, HubInv, ~stale, loose = Out, HubOccupied, UnloadSlot # last
    PROVE  UnloadSlot = hubSlot /\ at[hubSlot] >= Hub
<1>1. hubSlot \in Slots /\ at[hubSlot] >= Hub
  BY DEF HubInv, RecordTrue
<1>2. hubSlot \in Inlets
  <2>1. at[hubSlot] \in Out .. Toolhead
    BY <1>1 DEF TypeInv, FilamentOK
  <2> QED
    BY <1>1, <2>1 DEF Inlets, Hub, Inlet, Out, Toolhead
<1>3. last = External
  BY DEF UnloadSlot
<1> QED
  BY <1>1, <1>2, <1>3 DEF UnloadSlot

LEMMA HubSafe ==
    ASSUME TypeInv, HubInv, [Next]_vars,
           \/ motion'.by = "retract" /\ motion # motion'
           \/ motion'.by = "unload" /\ last' # last,
           ~stale, loose = Out, HubOccupied
    PROVE  at[motion'.slot] >= Hub
<1>n. NoMotion.by = "none"
  BY DEF NoMotion
<1>1. CASE Retract
  <2>1. StartMotion("retract", cmd.slot) /\ cmd.pc = "retract"
    BY <1>1 DEF Retract, saved
  <2>2. motion'.slot = cmd.slot
    BY <2>1 DEF StartMotion
  <2> QED
    BY <2>1, <2>2 DEF HubInv, PullTrue
<1>2. CASE RunStep
  <2>0. Head(task.queue) \in Steps
    <3>1. task \in Tasks /\ task.queue # <<>>
      BY <1>2 DEF RunStep, TypeInv, TaskOK
    <3> QED
      BY <3>1 DEF Tasks
  <2>1. CASE UNCHANGED <<last, motion>>
    BY <2>1
  <2>2. CASE UNCHANGED last /\ StartMotion(Head(task.queue), task.slot)
    BY <2>0, <2>2 DEF StartMotion, Steps
  <2>3. CASE last' = UnloadSlot /\ StartMotion("unload", UnloadSlot)
    <3>1. motion'.slot = UnloadSlot /\ motion'.by = "unload"
      BY <2>3 DEF StartMotion
    <3>2. UnloadSlot # last
      BY <2>3, <3>1
    <3> QED
      BY <3>1, <3>2, UnloadTrue
  <2> QED
    BY <1>2, <2>1, <2>2, <2>3 DEF RunStep
<1>3. CASE UNCHANGED <<last, motion>>
  BY <1>3
<1>4. CASE motion' = NoMotion
  BY <1>n, <1>4
<1>5. CASE Cleared \/ JogCommand
  <2>1. CASE UNCHANGED <<last, motion>>
    BY <2>1
  <2>2. CASE \E by \in {"park", "jog in", "jog out"} : StartMotion(by, cmd.slot)
    <3>1. PICK by \in {"park", "jog in", "jog out"} : StartMotion(by, cmd.slot)
      BY <2>2
    <3>2. motion'.by = by
      BY <3>1 DEF StartMotion
    <3> QED
      BY <3>2
  <2> QED
    BY <1>5, <2>1, <2>2 DEF Cleared, JogCommand, saved
<1>6. CASE Inserted
  <2>1. motion' = NoMotion \/ motion' = [by |-> "back off", slot |-> motion.slot, before |-> TRUE]
    BY <1>6 DEF Inserted
  <2>2. motion'.by \in {"none", "back off"}
    <3>1. CASE motion' = NoMotion
      BY <1>n, <3>1
    <3>2. CASE motion' = [by |-> "back off", slot |-> motion.slot, before |-> TRUE]
      BY <3>2
    <3> QED
      BY <2>1, <3>1, <3>2
  <2> QED
    BY <2>2
<1>7. ASSUME NEW slot, Insert(slot)
      PROVE  at[motion'.slot] >= Hub
  BY <1>7 DEF Insert, StartMotion, saved
<1>8. CASE Commands
  <2>1. \/ Retract \/ RunStep \/ Cleared \/ JogCommand \/ UNCHANGED <<last, motion>>
    BY <1>8 DEF Commands, Stopping, StopCommand, Done, LoadCommand, ToolCommand, RetryCommand,
                FilamentCommand, FlowEnds, saved
  <2> QED
    BY <1>1, <1>2, <1>3, <1>5, <2>1
<1>9. CASE Motions
  <2>1. Inserted \/ motion' = NoMotion
    BY <1>9 DEF Motions, StepMoved, Retracted, Parked, Jogged
  <2> QED
    BY <1>4, <1>6, <2>1
<1>10. CASE WebHeater \/ WebStop \/ (\E kind, slot : Begin(kind, slot)) \/ StartPrint \/ EndPrint \/ Hands \/ Restart
  BY <1>3, <1>10 DEF WebHeater, WebStop, Begin, StartPrint, EndPrint, Hands, Restart, saved
<1>11. CASE Shutdown
  BY <1>4, <1>11 DEF Shutdown
<1>12. CASE UNCHANGED vars
  BY <1>3, <1>12 DEF vars
<1> QED
  BY <1>7, <1>8, <1>9, <1>10, <1>11, <1>12 DEF Next

\* The slot an unload, an eject or the unload step of a flow pulls back is the
\* one whose filament is at the hub, unless a motion ended unrecorded or the
\* filament broke (box_loaded_slot.py).
THEOREM RightSlotIsNamed == Spec => RightSlotNamed
<1>1. Init => TypeInv /\ HubInv
  BY TypeInit, HubInit
<1>2. TypeInv /\ HubInv /\ [Next]_vars => (TypeInv /\ HubInv)'
  BY TypeStep, HubStep
<1>3. TypeInv /\ HubInv /\ [Next]_vars
        => [\/ motion'.by = "retract" /\ motion # motion'
            \/ motion'.by = "unload" /\ last' # last
            => stale \/ loose # Out \/ (HubOccupied => at[motion'.slot] >= Hub)]_vars
  <2> SUFFICES ASSUME TypeInv, HubInv, [Next]_vars
               PROVE  \/ motion'.by = "retract" /\ motion # motion'
                      \/ motion'.by = "unload" /\ last' # last
                      => stale \/ loose # Out \/ (HubOccupied => at[motion'.slot] >= Hub)
    OBVIOUS
  <2> QED
    BY HubSafe
<1> QED
  BY <1>1, <1>2, <1>3, PTL DEF Spec, RightSlotNamed

=============================================================================
