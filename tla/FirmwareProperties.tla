-------------------------- MODULE FirmwareProperties --------------------------
(***************************************************************************)
(* What the firmware tools promise: the record and the services are right  *)
(* for whatever the board holds, and the board holds what was acknowledged.*)
(***************************************************************************)
EXTENDS FirmwareOperation

Acknowledged == op.pc = "transfer" /\ client.pc = "done"

\* A transfer acknowledged to the Box client or the recovering THR client left
\* the whole image on the board, whatever was lost, repeated or late: neither
\* half of two images nor an erased first page.  (Not the plain THR client,
\* whose waits may outlast a session, nor a rejection after the expiry.)
DoneMeansWhole ==
    Acknowledged /\ board[client.on].build # "first" /\ ~client.fooled => Holds(board[client.on], client.target)

\* No packet is programmed at another packet's place: start and packet 0 are
\* never sent to a session whose write pointer may have moved.
NothingMisplaced == \A b \in Boards : \A p \in Index : board[b].flash[p] # "misplaced"

\* A board that does not hold a whole image has its pending record, through
\* failures, kills, power cycles, and the rescue of some Box.
UnverifiedIsRecorded ==
    \A b \in Boards : ~Whole(board[b]) => pending[IF b = Thr THEN "thr" ELSE "box"] # None

\* The boards an operation has seen running when it starts the services.  A
\* rescue looks at no Box but its own, and at none when it fails before it
\* programs it (box_firmware.py:273-286, 318-334).
SeenRunning ==
    IF op.kind # "rescue" THEN Boards ELSE IF op.failed THEN {} ELSE {op.board}

\* The commands that install or restore firmware start a service only when every
\* board runs a whole image; a rescue that succeeds, only when the Box it rescued
\* does.  (A rescue that fails early, or that rescues another Box than the
\* recorded one, starts the services over a Box that is still not whole.)
StartsOnWholeBoards ==
    [][op.pc = "start" /\ op'.pc = "start" /\ active' # active
        => \A b \in SeenRunning : Runs(board[b])]_vars

\* When no operation is running and none is recorded, the services that ran
\* before the first of them run, also when a rescue completed another's work.
ServicesComeBack ==
    op = Idle /\ (\A tool \in DOMAIN pending : ~Blocked(tool)) => active = hist.enabled

\* A recorded Box operation can be ended by the rescue its record asks for.
RecordCanBeRescued == op = Idle /\ Blocked("box") => \E b \in Boxes : CanRescue(b)

\* Every operation ends.
OperationEnds == op # Idle ~> op = Idle
=============================================================================
