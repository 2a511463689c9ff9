--------------------------- MODULE FirmwareTransfer ---------------------------
(***************************************************************************)
(* The programming of a board through its resident bootloader: the clients *)
(* of scripts/flash_box_firmware.py and scripts/flash_thr_firmware.py, and *)
(* the bootloaders as those clients (and the observations in               *)
(* openspec/observations/qidi-platform.md) describe them.  Time passes     *)
(* while a client waits; one tick stands for about two seconds.            *)
(***************************************************************************)
EXTENDS Naturals, FiniteSets

CONSTANTS
    Boards,         \* the boards of the printer
    Pages,          \* packets of an image
    Session,        \* ticks after which a silent session expires
    Exit,           \* ticks from the expiry to the reset
    Startup,        \* ticks after a reset before the application is started
    Slack,          \* ticks a slow bootloader clock may add to a session
    Hold,           \* ticks a recovering client holds on to one packet
    MaxEvents       \* bound on link failures, damaged packets, and the events around
                    \* a transfer (commands, failed steps, kills, power cycles) together

\* A clock at MIN_CLOCK_RATE adds 1.1 s to a session of 10 s, less than the
\* exit delay that follows it.
ASSUME TransferAssumption ==
    /\ {Pages, Session, Exit, Startup, Slack, Hold} \subseteq Nat \ {0}
    /\ MaxEvents \in Nat
    /\ Slack < Startup /\ Slack <= Exit /\ Session > 1

VARIABLES
    board,          \* per board: its bootloader build, flash, and session
    link,           \* "up", "dead" (nothing passes) or "mute" (replies are lost)
    events,         \* events so far
    client          \* the transfer in progress, or the outcome of the last one

transferVars == <<board, link, events, client>>

Images == {"stock", "patched"}
Index == 0 .. Pages - 1
Holds(b, image) == \A p \in Index : b.flash[p] = image
Whole(b) == \E image \in Images : Holds(b, image)
Runs(b) == b.mode = "app" /\ Whole(b)

-----------------------------------------------------------------------------
(* The bootloader.  The write pointer rewinds only at a reset.              *)

Reset(b) == [b EXCEPT !.mode = "startup", !.pointer = 0, !.last = Pages, !.quiet = 0]

\* A Box stays in its bootloader while its first sector is erased; the THR
\* starts whatever is there.
Resident(b) == b.build = "box" /\ b.flash[0] = "erased"

SessionTicks(b) == Session + (IF b.slow THEN Slack ELSE 0)

Tick(b) ==
    LET later == [b EXCEPT !.quiet = @ + 1] IN
    CASE b.mode = "startup" /\ ~Resident(b) /\ later.quiet = Startup - 1 -> [later EXCEPT !.mode = "tail"]
      [] b.mode = "startup" /\ ~Resident(b) /\ later.quiet < Startup - 1 -> later
      [] b.mode = "tail" -> [b EXCEPT !.mode = "app", !.quiet = 0]
      [] b.mode = "identified" /\ b.quiet < SessionTicks(b) + Exit -> later
      [] b.mode = "identified" /\ b.quiet >= SessionTicks(b) + Exit ->
            IF Resident(b) THEN Reset(b) ELSE [b EXCEPT !.mode = "app", !.quiet = 0]
      [] b.mode = "data" /\ b.quiet < SessionTicks(b) -> later
      [] b.mode = "data" /\ b.quiet >= SessionTicks(b) ->
            [b EXCEPT !.mode = "exit", !.flash[0] = "erased", !.quiet = 1]
      [] b.mode = "exit" /\ b.quiet < Exit -> later
      [] b.mode = "exit" /\ b.quiet >= Exit -> Reset(b)
      [] OTHER -> b

Erase(b) == [b EXCEPT !.flash = [p \in Index |-> "erased"]]

\* A repeated packet is acknowledged without a write, except packet 0.
Write(b, i, image) ==
    IF (i # 0 /\ i = b.last) \/ b.pointer = Pages THEN [b EXCEPT !.last = i]
    ELSE [b EXCEPT !.flash[b.pointer] = IF b.pointer = i THEN image ELSE "misplaced",
                   !.pointer = @ + 1, !.last = i]

Open == {"data", "exit"}
Reload(b) == IF b.mode \in {"identified", "data"} THEN [b EXCEPT !.quiet = 0] ELSE b

Takes(b, kind, i, image) ==
    CASE kind = "identity" /\ b.mode = "startup" -> [b EXCEPT !.mode = "identified", !.quiet = 0]
      [] kind = "start" /\ b.mode = "identified" -> [Erase(b) EXCEPT !.mode = "data", !.quiet = 0]
      [] kind = "start" /\ b.mode \in Open /\ b.pointer > 0 -> Reload(Erase(b))
      [] kind = "start" /\ b.mode = "tail" -> Erase(b)
      [] kind = "data" /\ b.mode \in Open -> Reload(Write(b, i, image))
      [] kind = "end" /\ b.mode \in Open -> [b EXCEPT !.mode = "app", !.quiet = 0]
      [] OTHER -> Reload(b)

Answers(b, kind) ==
    CASE kind = "identity" -> b.mode \in {"startup", "tail"}
      [] kind = "start" -> \/ b.mode \in {"identified", "tail", "exit"}
                           \/ b.mode = "data" /\ b.pointer > 0
      [] OTHER -> b.mode \in Open

-----------------------------------------------------------------------------
(* One exchange over the link.                                              *)

It == board[client.on]
Sent(kind, i) == IF link = "dead" THEN It ELSE Takes(It, kind, i, client.target)
Heard(kind) == link = "up" /\ Answers(It, kind)
Now(b) == board' = [board EXCEPT ![client.on] = b]
GotoAfter(ticks, pc) == client' = [client EXCEPT !.pc = pc, !.tries = 0, !.heard = 0, !.wait = ticks]
Goto(pc) == GotoAfter(0, pc)
Recovering == It.build = "second"
LongWait == IF It.build = "box" THEN 0 ELSE 2      \* the 5 s of a THR exchange

Retry(ticks) == client' = [client EXCEPT !.tries = @ + 1, !.wait = ticks]

\* A damaged data packet is answered with a CRC rejection and not written.
Damaged == link = "up" /\ It.mode \in Open /\ events < MaxEvents

Fail == Goto("failed")

Probe ==
    /\ client.pc = "probe"
    /\ \/ Heard("identity") /\ Now(Sent("identity", 0)) /\ Goto("start")
       \/ /\ ~Heard("identity") /\ Now(Sent("identity", 0))
          /\ IF client.tries < 2 THEN Retry(LongWait) ELSE Fail
    /\ UNCHANGED <<link, events>>

\* The plain client never repeats start; the recovering one may, and goes on.
StartImage ==
    /\ client.pc = "start"
    /\ \/ Heard("start") /\ Now(Sent("start", 0)) /\ Goto("first")
       \/ /\ ~Heard("start") /\ Now(Sent("start", 0))
          /\ IF ~Recovering THEN Fail
             ELSE IF client.tries < 2 THEN Retry(IF client.tries = 0 THEN LongWait ELSE 1)
             ELSE GotoAfter(1, "first")
    /\ UNCHANGED <<link, events>>

Next2(i) == IF i + 1 = Pages THEN "end" ELSE "data"
Onward == client' = [client EXCEPT !.pc = Next2(client.index), !.tries = 0, !.heard = 0, !.held = 0,
                                   !.index = IF client.index + 1 = Pages THEN @ ELSE @ + 1]

\* A client that repeats a packet 0 of which it does not know.
AmbiguousRetry == IF client.tries < 2 THEN Retry(LongWait) ELSE Fail

\* The wait for an answer is part of what is slept after the packet was sent.
Ambiguous == IF Recovering THEN Goto("sleep") ELSE Fail

\* Only a CRC rejection proves that packet 0 was not written.
FirstPacket ==
    /\ client.pc = "first"
    /\ \/ Heard("data") /\ Now(Sent("data", 0)) /\ Onward /\ UNCHANGED events
       \/ /\ ~Heard("data") /\ Now(Sent("data", 0)) /\ Ambiguous /\ UNCHANGED events
       \/ /\ Damaged /\ events' = events + 1 /\ Now(Reload(It))
          /\ IF client.tries < (IF Recovering THEN 4 ELSE 2)
                THEN Retry(0) ELSE Ambiguous
    /\ UNCHANGED link

LaterPacket ==
    /\ client.pc = "data" /\ ~Recovering
    /\ \/ Heard("data") /\ Now(Sent("data", client.index)) /\ Onward /\ UNCHANGED events
       \/ /\ \/ ~Heard("data") /\ Now(Sent("data", client.index)) /\ UNCHANGED events
             \/ Damaged /\ Now(Reload(It)) /\ events' = events + 1
          /\ IF client.tries < 2 THEN Retry(LongWait) ELSE Fail
    /\ UNCHANGED link

End ==
    /\ client.pc = "end" /\ ~Recovering
    /\ \/ Heard("end") /\ Now(Sent("end", 0)) /\ Goto("done")
       \/ ~Heard("end") /\ Now(Sent("end", 0)) /\ Fail
    /\ UNCHANGED <<link, events>>

-----------------------------------------------------------------------------
(* Recovery: hold on to one packet while the session may still be alive.    *)

Stale == Session - 1
Silent == client.heard >= Stale
HoldTicks == IF client.pc = "end" THEN 2 * (Session + Exit) ELSE Hold
Asked == IF client.pc = "end" /\ ~Silent THEN "end" ELSE "data"

\* A client that believes every acknowledgement of an `end'.
AcceptedAlways(late) == IF client.pc = "end" THEN Goto("done") ELSE IF late THEN Goto("late") ELSE Onward

\* The acknowledgement of a session that may have expired proves nothing.
Accepted(late) == IF late THEN Goto("late")
                  ELSE IF client.pc = "end" THEN Goto("done") ELSE Onward

\* The bootloader answers an identity request only after a reset: a new
\* session, in which the stock image is programmed from its start.
Fresh ==
    client' = [client EXCEPT !.pc = IF client.programs < 4 THEN "start" ELSE "failed", !.target = "stock",
                             !.index = 0, !.tries = 0, !.heard = 0, !.programs = @ + 1]

HoldAsks ==
    /\ client.pc \in {"data", "end"} /\ Recovering /\ client.held < HoldTicks
    /\ Heard(Asked)
    /\ Now(Sent(Asked, client.index)) /\ Accepted(Silent)
    /\ UNCHANGED <<link, events>>

\* A rejection counts as an answer of a live session, whenever it comes.
HoldRejected ==
    /\ client.pc \in {"data", "end"} /\ Recovering /\ client.held < HoldTicks
    /\ Asked = "data" /\ Damaged /\ events' = events + 1
    /\ Now(Reload(It)) /\ client' = [client EXCEPT !.heard = 0, !.fooled = @ \/ Silent]
    /\ UNCHANGED link

\* No answer: an identity request follows, then the round ends, within a tick
\* or at its end.  A silent client sends the packet in one round of five only.
HoldWaits ==
    /\ client.pc \in {"data", "end"} /\ Recovering /\ client.held < HoldTicks
    /\ \E asks \in IF Silent THEN BOOLEAN ELSE {TRUE}, t \in {0, 1} :
          LET before == IF asks THEN Sent(Asked, client.index) ELSE It
              after == IF link = "dead" THEN before ELSE Takes(before, "identity", 0, client.target)
          IN
          /\ asks => ~Heard(Asked)
          /\ IF link = "up" /\ Answers(before, "identity")
                THEN Now(after) /\ Fresh
                ELSE /\ Now(after)
                     /\ client' = [client EXCEPT !.held = @ + t, !.wait = t,
                                                 !.heard = IF @ < Stale THEN @ + t ELSE @]
    /\ UNCHANGED <<link, events>>

\* A client that holds on to its packet for ever.
HoldEndsNever ==
    /\ client.pc \in {"data", "end"} /\ Recovering /\ client.held > HoldTicks
    /\ Goto("failed")
    /\ UNCHANGED <<board, link, events>>

HoldEnds ==
    /\ client.pc \in {"data", "end"} /\ Recovering /\ client.held >= HoldTicks
    /\ Goto(IF client.pc = "end" THEN "unconfirmed" ELSE "failed")
    /\ UNCHANGED <<board, link, events>>

\* A late acknowledgement: ask for the identity until the exit delay is over.
LateProbe ==
    /\ client.pc = "late"
    /\ IF Heard("identity") THEN Now(Sent("identity", 0)) /\ Fresh
       ELSE /\ Now(Sent("identity", 0))
            /\ IF client.tries < Exit THEN Retry(1) ELSE Goto("sleep")
    /\ UNCHANGED <<link, events>>

-----------------------------------------------------------------------------
(* Recovery: let any session expire before start is sent again.             *)

ResetBy == Session + Exit + Slack
Window == Session + Exit + 2 * Startup

AwaitReset ==
    /\ client.pc = "sleep"
    /\ client' = [client EXCEPT !.pc = "restart", !.wait = Session + Exit + 1, !.waited = Session + Exit + 1]
    /\ UNCHANGED <<board, link, events>>

Certain(identified) == identified \/ client.waited > ResetBy

NextRound == \E t \in {0, 1} : client' = [client EXCEPT !.waited = @ + t, !.wait = t]

Restart ==
    /\ client.pc = "restart" /\ client.waited <= Window
    /\ LET woken == Sent("identity", 0)
           erased == IF link = "dead" THEN woken ELSE Takes(woken, "start", 0, "stock") IN
       \/ /\ Certain(Heard("identity"))
          /\ IF link = "up" /\ Answers(woken, "start")
                THEN /\ Now(erased)
                     /\ client' = [client EXCEPT !.pc = IF client.programs < 4 THEN "first" ELSE "failed",
                                                 !.target = "stock", !.index = 0, !.tries = 0,
                                                 !.programs = @ + 1, !.rounds = 0]
                ELSE Now(erased) /\ NextRound
       \/ ~Certain(Heard("identity")) /\ Now(woken) /\ NextRound
    /\ UNCHANGED <<link, events>>

RestartFails ==
    /\ client.pc = "restart" /\ client.waited > Window
    /\ client' = [client EXCEPT !.pc = IF client.rounds < 3 THEN "sleep" ELSE "failed", !.rounds = @ + 1]
    /\ UNCHANGED <<board, link, events>>

-----------------------------------------------------------------------------
Finished == {"idle", "done", "unconfirmed", "failed"}
InProgress == client.pc \notin Finished

LinkFails ==
    /\ InProgress /\ link = "up" /\ events < MaxEvents
    /\ link' \in {"dead", "mute"} /\ events' = events + 1
    /\ UNCHANGED <<board, client>>

LinkReturns == link # "up" /\ link' = "up" /\ UNCHANGED <<board, events, client>>

Pass ==
    /\ InProgress /\ client.wait > 0
    /\ Now(Tick(It)) /\ client' = [client EXCEPT !.wait = @ - 1]
    /\ UNCHANGED <<link, events>>

ClientStep ==
    \/ Pass
    \/ /\ client.wait = 0
       /\ \/ Probe \/ StartImage \/ FirstPacket \/ LaterPacket \/ End
          \/ HoldAsks \/ HoldRejected \/ HoldWaits \/ HoldEnds \/ LateProbe
          \/ AwaitReset \/ Restart \/ RestartFails

NoTransfer(b) == [pc |-> "idle", on |-> b, requested |-> "stock", target |-> "stock", index |-> 0,
                  tries |-> 0, wait |-> 0, heard |-> 0, held |-> 0, waited |-> 0, rounds |-> 0, programs |-> 1, fooled |-> FALSE]

\* The transfer of an image to a board that enters its bootloader.
Transfer(b, image) == [NoTransfer(b) EXCEPT !.pc = "probe", !.wait = 1, !.requested = image, !.target = image]

FellBack == client.target # client.requested
=============================================================================
