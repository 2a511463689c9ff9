-------------------------- MODULE FirmwareOperation --------------------------
(***************************************************************************)
(* The firmware tools: the optional THR step of an install                 *)
(* (installer/runtime/thr_firmware.py) and box-firmware.sh                 *)
(* (installer/runtime/box_firmware.py), with the services they stop, the   *)
(* pending records that block the installer, and the transfers they run.   *)
(***************************************************************************)
EXTENDS FirmwareTransfer

CONSTANTS
    Thr,            \* the toolhead board
    Fleets          \* the bootloader builds the boards may have together

Builds == {"first", "second", "box", "unknown"}

ASSUME OperationAssumption ==
    /\ Thr \in Boards
    /\ Fleets \subseteq [Boards -> Builds]
    /\ \A fleet \in Fleets, b \in Boards : fleet[b] \in {"unknown"} \cup (IF b = Thr THEN {"first", "second"} ELSE {"box"})

VARIABLES
    active,         \* services that run
    pending,        \* pending record per tool: None, or phase, board and services
    backups,        \* Boxes whose bootloader and application were read and saved
    stockSaved,     \* some backup (or ~/update) holds QIDI's stock Box image
    op,             \* the operation in progress
    hist            \* the services of the undisturbed printer; power cycles

vars == <<board, link, events, client, active, pending, backups, stockSaved, op, hist>>

Services == {"klipper", "client"}
Boxes == Boards \ {Thr}
None == [phase |-> "none", board |-> Thr, services |-> {}]
Tool(kind) == IF kind = "thr" THEN "thr" ELSE "box"

Admitted(b) == b.build # "unknown"
PrinterReady == "klipper" \in active /\ \A b \in Boards : Runs(board[b])

Idle == [kind |-> "none", pc |-> "idle", board |-> Thr, plan |-> {}, services |-> {}, todo |-> {},
         pending |-> FALSE, failed |-> FALSE]
Image(kind) == IF kind \in {"thr", "install"} THEN "patched" ELSE "stock"
Event == events < MaxEvents /\ events' = events + 1

Init ==
    /\ \E fleet \in Fleets, slow \in BOOLEAN, image \in [Boards -> Images] :
          board = [b \in Boards |->
                      [build |-> fleet[b], slow |-> slow /\ fleet[b] = "second", mode |-> "app",
                       flash |-> [p \in Index |-> image[b]], pointer |-> 0, last |-> Pages, quiet |-> 0]]
    /\ link = "up" /\ events = 0 /\ client = NoTransfer(Thr)
    /\ active = Services /\ pending = [tool \in {"thr", "box"} |-> None]
    /\ backups = {} /\ stockSaved \in BOOLEAN /\ op = Idle
    /\ hist = [enabled |-> active, rebooted |-> FALSE]

-----------------------------------------------------------------------------
(* Starting: every check, the recorded service states, the pending record.  *)

Blocked(tool) == pending[tool] # None

Starts(kind, plan, services) ==
    /\ op' = [Idle EXCEPT !.kind = kind, !.pc = "stop", !.plan = plan, !.services = services, !.todo = services]
    /\ pending' = [pending EXCEPT ![Tool(kind)] =
                      [phase |-> "stopping_services", board |-> Thr, services |-> services]]
    /\ UNCHANGED <<board, link, client, active, backups, stockSaved, hist>>

FlashThr ==
    /\ op = Idle /\ Event /\ ~Blocked("thr") /\ ~Blocked("box") /\ PrinterReady
    /\ Starts("thr", {Thr}, active)

FlashBoxes(kind) ==
    /\ op = Idle /\ Event /\ ~Blocked("thr") /\ ~Blocked("box") /\ PrinterReady
    /\ kind = "restore" => stockSaved
    /\ \E selected \in SUBSET Boxes :
          LET plan == {b \in selected : ~Holds(board[b], Image(kind))} IN
          plan # {} /\ Starts(kind, plan, active)

\* A rescue that restores only what runs when it starts.
RescueServicesNow == active

\* A rescue takes the service states an interrupted operation recorded.
RescueServices == IF Blocked("box") /\ pending["box"].services # {} THEN pending["box"].services ELSE active

CanRescue(b) == ~Blocked("thr") /\ b \in backups /\ stockSaved

Rescue ==
    /\ op = Idle /\ Event
    /\ \E b \in Boxes : CanRescue(b) /\ Starts("rescue", {b}, RescueServices)

-----------------------------------------------------------------------------
(* Failure, and the restoration of the services.                            *)

\* With a board unverified the services stay stopped and the record stays.
Gives(o) == op' = IF o.pending THEN Idle ELSE [o EXCEPT !.pc = "start", !.todo = o.services]

Fails == /\ Event /\ Gives([op EXCEPT !.failed = TRUE])
         /\ UNCHANGED <<board, link, client, active, pending, backups, stockSaved, hist>>

StopService ==
    /\ op.pc = "stop" /\ op.todo # {}
    /\ \E s \in op.todo :
          /\ "client" \in op.todo => s = "client"
          /\ active' = active \ {s} /\ op' = [op EXCEPT !.todo = @ \ {s}]
    /\ UNCHANGED <<transferVars, pending, backups, stockSaved, hist>>

StopFails == op.pc = "stop" /\ op.todo # {} /\ Fails

StartService ==
    /\ op.pc = "start" /\ op.todo # {}
    /\ \E s \in op.todo :
          /\ "klipper" \in op.todo => s = "klipper"
          /\ active' = active \cup {s} /\ op' = [op EXCEPT !.todo = @ \ {s}]
    /\ UNCHANGED <<transferVars, pending, backups, stockSaved, hist>>

\* A completion that does not wait for Klipper.
CompleteAtOnce ==
    /\ op.pc = "start" /\ op.todo = {}
    /\ pending' = [pending EXCEPT ![Tool(op.kind)] = None] /\ op' = Idle
    /\ UNCHANGED <<transferVars, active, backups, stockSaved, hist>>

\* The record is deleted once Klipper, when it ran, is ready again.
Complete ==
    /\ op.pc = "start" /\ op.todo = {}
    /\ "klipper" \in op.services => PrinterReady
    /\ pending' = [pending EXCEPT ![Tool(op.kind)] = None] /\ op' = Idle
    /\ UNCHANGED <<transferVars, active, backups, stockSaved, hist>>

\* A service that does not start, or a printer that is not ready in time.
Incomplete ==
    /\ op.pc = "start"
    /\ \/ Event
       \/ op.todo = {} /\ "klipper" \in op.services /\ ~PrinterReady /\ UNCHANGED events
    /\ op' = Idle
    /\ UNCHANGED <<board, link, client, active, pending, backups, stockSaved, hist>>

-----------------------------------------------------------------------------
(* One board: snapshot, record, transfer, readback.                         *)

NextBoard ==
    /\ op.pc = "stop" /\ op.todo = {}
    /\ IF op.plan = {} THEN Gives(op)
       ELSE \E b \in op.plan :
              op' = [op EXCEPT !.pc = IF op.kind = "rescue" THEN "record" ELSE "snapshot",
                               !.board = b, !.plan = @ \ {b}]
    /\ UNCHANGED <<transferVars, active, pending, backups, stockSaved, hist>>

Skip == op' = [op EXCEPT !.pc = "stop"]

Snapshot ==
    /\ op.pc = "snapshot" /\ Runs(board[op.board]) /\ active = {}
    /\ LET b == board[op.board] IN
       IF ~Admitted(b) THEN Skip /\ UNCHANGED <<backups, stockSaved>>
       ELSE /\ backups' = backups \cup ({op.board} \cap Boxes)
            /\ stockSaved' = (stockSaved \/ (op.board \in Boxes /\ Holds(b, "stock")))
            /\ IF Holds(b, Image(op.kind)) THEN Skip ELSE op' = [op EXCEPT !.pc = "record"]
    /\ UNCHANGED <<transferVars, active, pending, hist>>

SnapshotFails ==
    /\ op.pc \in {"snapshot", "record"} /\ Fails

\* A programming that a failure does not know of.
ProgrammingUnmarked(o) == [o EXCEPT !.pc = "transfer"]

Programming(o) == [o EXCEPT !.pc = "transfer", !.pending = TRUE]

\* The board is reset into its bootloader; a Box to rescue is there already or
\* is turned off and on.
Entered(b) == {Reset(b)} \cup {e \in {b} : op.kind = "rescue" /\ b.mode # "app"}

\* The record names the board before its reset.
Program ==
    /\ op.pc = "record"
    /\ op' = Programming(op)
    /\ pending' = [pending EXCEPT ![Tool(op.kind)] =
                      [phase |-> "programming", board |-> op.board, services |-> op.services]]
    /\ \E entered \in Entered(board[op.board]) : board' = [board EXCEPT ![op.board] = entered]
    /\ client' = Transfer(op.board, Image(op.kind))
    /\ UNCHANGED <<link, events, active, backups, stockSaved, hist>>

Transferring ==
    /\ op.pc = "transfer" /\ ClientStep
    /\ UNCHANGED <<active, pending, backups, stockSaved, op, hist>>

\* A recovering transfer may end with its end unacknowledged, or with the
\* stock image; what the board holds is decided by the readback.
Sufficient == IF board[op.board].build = "second" THEN {"done", "unconfirmed"} ELSE {"done"}

\* The wait before the readback outlasts whatever the bootloader does.
Settled(b) == Tick(b) = b
Matches == link = "up" /\ Runs(board[op.board]) /\ Holds(board[op.board], client.target)

Readback ==
    /\ op.pc = "transfer" /\ client.pc \in Sufficient /\ Settled(board[op.board]) /\ Matches
    /\ op' = [op EXCEPT !.pc = "stop", !.pending = FALSE]
    /\ pending' = [pending EXCEPT ![Tool(op.kind)] =
                      [phase |-> "verified", board |-> op.board, services |-> op.services]]
    /\ client' = NoTransfer(op.board)
    /\ UNCHANGED <<board, link, events, active, backups, stockSaved, hist>>

Unverified ==
    /\ op.pc = "transfer"
    /\ \/ client.pc \in Finished \ Sufficient /\ UNCHANGED events
       \/ client.pc \in Sufficient /\ Settled(board[op.board]) /\ ~Matches /\ UNCHANGED events
       \/ client.pc = "probe" /\ Event
    /\ Gives([op EXCEPT !.failed = TRUE]) /\ client' = NoTransfer(op.board)
    /\ UNCHANGED <<board, link, active, pending, backups, stockSaved, hist>>

-----------------------------------------------------------------------------
(* Around the operation.                                                    *)

\* Control-C: the THR step still runs its finally clause; the Box tool,
\* which handles only exceptions, ends where it is.
Interrupt ==
    /\ op # Idle /\ Event
    /\ IF op.kind = "thr" /\ op.pc # "start" THEN Gives([op EXCEPT !.failed = TRUE]) ELSE op' = Idle
    /\ client' = NoTransfer(client.on)
    /\ UNCHANGED <<board, link, active, pending, backups, stockSaved, hist>>

Kill ==
    /\ op # Idle /\ Event /\ op' = Idle /\ client' = NoTransfer(client.on)
    /\ UNCHANGED <<board, link, active, pending, backups, stockSaved, hist>>

\* A power cycle of the printer: every board resets, the services start.
PowerCycle ==
    /\ events < MaxEvents /\ events' = events + 1
    /\ hist' = [hist EXCEPT !.rebooted = TRUE]
    /\ op' = Idle /\ client' = NoTransfer(client.on) /\ active' = hist.enabled
    /\ board' = [b \in Boards |-> Reset(board[b])]
    /\ UNCHANGED <<link, pending, backups, stockSaved>>

\* A board on its own.
BoardTick ==
    /\ ~InProgress
    /\ \E b \in Boards : ~Settled(board[b]) /\ board' = [board EXCEPT ![b] = Tick(board[b])]
    /\ UNCHANGED <<link, events, client, active, pending, backups, stockSaved, op, hist>>

TransferLink ==
    /\ LinkFails \/ LinkReturns
    /\ UNCHANGED <<active, pending, backups, stockSaved, op, hist>>

Step ==
    \/ StopService \/ StartService \/ Complete \/ Incomplete \/ NextBoard
    \/ Snapshot \/ SnapshotFails \/ StopFails \/ Program \/ Transferring \/ Readback \/ Unverified

Next ==
    \/ FlashThr \/ FlashBoxes("install") \/ FlashBoxes("restore") \/ Rescue
    \/ Step \/ TransferLink \/ Interrupt \/ Kill \/ PowerCycle \/ BoardTick

Spec == Init /\ [][Next]_vars

\* An operation goes on by itself: each wait of a client has a deadline.
FairSpec == Spec /\ WF_vars(Step) /\ WF_vars(BoardTick)
=============================================================================
