--------------------------- MODULE SavedVariables ---------------------------
(***************************************************************************)
(* The saved variables of the printer and the commands that set them        *)
(* through Klipper: the retention preference, the release defaults of the   *)
(* Box feed motion, the Box flag and the tool mapping.  The operator, the   *)
(* screen and QIDI's Box modules save the same variables at the same time;  *)
(* nothing is locked.                                                      *)
(*                                                                         *)
(* Every value the installer writes is abstracted to "default".  "previous" *)
(* is a speed an earlier release saved, "other" any other value, "none" the *)
(* value None, "empty" an empty string, "absent" a variable never saved.    *)
(***************************************************************************)
EXTENDS Naturals, Sequences, FiniteSets

CONSTANTS
    Speeds,      \* the speeds of one motion that are lowered together
    Lengths,     \* the other feed motion settings
    Tools,       \* the tool variables value_t<n> an attached Box needs
    Order,       \* a sequence of all the variables, as dictionaries hold them
    InitialValues,   \* the saved variables before the first command
    MaxEvents    \* bound on what others do: saves, faults, kills, user commands

Motion == Speeds \cup Lengths
Names == {"keep", "enable"} \cup Motion \cup Tools

ASSUME OrderAssumption == {Order[i] : i \in DOMAIN Order} = Names

ASSUME NamesAssumption ==
    /\ {"keep", "enable"} \cap (Motion \cup Tools) = {}
    /\ Speeds \cap Lengths = {} /\ Motion \cap Tools = {}

\* What a variable can hold.
ValuesOf(n) ==
    CASE n = "keep" -> {"absent", "none", "default", "other"}
      [] n = "enable" -> {"default", "other"}
      [] n \in Lengths -> {"absent", "none", "default", "other"}
      [] n \in Speeds -> {"absent", "none", "default", "previous", "other"}
      [] n \in Tools -> {"absent", "none", "empty", "default", "other"}

Values == {"absent", "none", "empty", "default", "previous", "other"}

\* What Klipper and its file can hold.
Valuations == {values \in [Names -> Values] : \A n \in Names : values[n] \in ValuesOf(n)}

ASSUME InitialAssumption == InitialValues \subseteq Valuations

VARIABLES
    live,       \* the values Klipper holds and its file has
    disk,       \* the values the file would have after a power cut
    klipper,    \* "ready", "error" (halted) or "shutdown"
    queue,      \* the installer's SAVE_VARIABLE commands Klipper has yet to run
    boxes,      \* whether a Box is attached
    observed,   \* last_observed_box_count is the present one
    command,    \* the installer's command under way
    restart,    \* the marker of a pending Klipper restart
    expected,   \* the names in the marker of values still to be verified
    promised,   \* of what installs wrote, what no new process has loaded yet and
                \* nobody saved again: history, for the properties
    events

vars == <<live, disk, klipper, queue, boxes, observed, command, restart,
          expected, promised, events>>

NoValues == [n \in {} |-> "absent"]

\* todo: the steps left; phase: where in a save; want: the names to save and
\* what they held when that was decided; seen: what they held right before the
\* first was saved; left: those not yet sent; written: for the marker.
Idle == [op |-> "none", todo |-> <<>>, phase |-> "detect", want |-> NoValues,
         seen |-> NoValues, left |-> {}, written |-> {}]

Init ==
    /\ live \in InitialValues
    /\ disk = live
    /\ klipper = "ready"
    /\ queue = <<>>
    /\ boxes = TRUE
    /\ observed = FALSE
    /\ command = Idle
    /\ restart = FALSE
    /\ expected = {}
    /\ promised = {}
    /\ events = 0

Event == events < MaxEvents /\ events' = events + 1
-----------------------------------------------------------------------------
\* What the installer reads: variables saved as None are left out.
Read(n) == IF live[n] = "none" THEN "absent" ELSE live[n]

\* Every saved name, also those saved as None.
SavedNames == {n \in Names : live[n] # "absent"}

\* Tools an attached Box needs and that have no mapping.
Gaps == IF boxes THEN {t \in Tools : Read(t) \in {"absent", "empty"}} ELSE {}

\* Faulty variant of LoweredSpeeds: each speed by itself, not the pair.
LoweredEach == {n \in Speeds : Read(n) = "previous"}

\* A pair of speeds still at what an earlier release saved.
LoweredSpeeds == IF \A n \in Speeds : Read(n) = "previous" THEN Speeds ELSE {}

KeepDefault == IF Read("keep") = "absent" THEN {"keep"} ELSE {}

MotionDefaults == IF SavedNames \cap Motion # {} THEN LoweredSpeeds ELSE Motion

\* Only with a Box attached and turned off; the operator is asked.
BoxToEnable == IF boxes /\ Read("enable") = "other" THEN {"enable"} ELSE {}

\* Mappings of other slots; the operator is asked.
Mismatches == {t \in Tools : Read(t) \in {"empty", "other"}}

\* Faulty variant of Detected: a Box count observed before is taken for proof of its mappings.
DetectedOnce(step) ==
    CASE step = "keep" -> KeepDefault
      [] step = "motion" -> MotionDefaults
      [] step = "enable" -> BoxToEnable
      [] step \in {"gaps", "reconcile"} /\ ~observed -> Gaps
      [] step = "align" -> Mismatches
      [] OTHER -> {}

Detected(step) ==
    CASE step = "keep" -> KeepDefault
      [] step = "motion" -> MotionDefaults
      [] step = "enable" -> BoxToEnable
      [] step \in {"gaps", "reconcile"} -> Gaps
      [] step = "align" -> Mismatches

Asked(step) == step \in {"enable", "align"}

\* The motion settings are saved as a set where all are missing, or lowered.
Lowering(want) == \A n \in DOMAIN want : want[n] = "previous"

MissingOnly(step, want) == step = "keep" \/ (step = "motion" /\ ~Lowering(want))

\* What is still to be saved when the values are read again right before the
\* first save: the missing ones, the missing or empty ones, or those that differ.
StillWanted(step, want) ==
    {n \in DOMAIN want :
        CASE MissingOnly(step, want) -> Read(n) = "absent"
          [] step \in {"gaps", "reconcile"} -> Read(n) \in {"absent", "empty"}
          [] OTHER -> Read(n) # "default"}

Verified(names) == \A n \in names : Read(n) = "default"
-----------------------------------------------------------------------------
\* Commands.
InstallPlan == <<"keep", "motion", "enable", "gaps", "align",
                 "commit", "expect", "activate", "verify">>
HaltedPlan == <<"commit", "revive", "verify",
                "keep", "motion", "enable", "gaps", "align">>
CheckPlan == <<"reconcile", "verify", "activate", "verify", "keep", "motion", "gaps">>
SaveSteps == {"keep", "motion", "enable", "gaps", "align", "reconcile"}

Step == IF command.todo = <<>> THEN "end" ELSE Head(command.todo)

\* The command c without its first step.
Past(c) == [c EXCEPT !.todo = Tail(@), !.phase = "detect", !.want = NoValues,
                     !.seen = NoValues, !.left = {}]

Advance == command' = Past(command)

\* An exception ends the command, what it saved stays saved.
Raise == command' = Idle

BeginInstall ==
    /\ command = Idle /\ Event
    /\ klipper # "shutdown"
    /\ command' = [Idle EXCEPT !.op = "install", !.todo = <<"pending", "look">>]
    /\ UNCHANGED <<live, disk, klipper, queue, boxes, observed, restart, expected,
                   promised>>

\* The hourly check of an enrolled printer that has the latest release.
BeginCheck ==
    /\ command = Idle
    /\ command' = [Idle EXCEPT !.op = "check", !.todo = CheckPlan]
    /\ UNCHANGED <<live, disk, klipper, queue, boxes, observed, restart, expected,
                   promised, events>>

\* An uninstall that succeeds removes the marker; the values stay.
Uninstall ==
    /\ command = Idle /\ Event
    /\ expected' = {} /\ promised' = {}
    /\ restart' \in BOOLEAN
    /\ UNCHANGED <<live, disk, klipper, queue, boxes, observed, command>>

End ==
    /\ command # Idle /\ Step = "end"
    /\ command' = Idle
    /\ UNCHANGED <<live, disk, klipper, queue, boxes, observed, restart, expected,
                   promised, events>>

\* verify_pending_saved_variable_expectations: nothing is compared while a
\* restart is pending; a mismatch keeps the marker and ends the command.
Compare ==
    IF klipper = "ready" /\ Verified(expected)
    THEN Advance /\ expected' = {}
    ELSE Raise /\ UNCHANGED expected

\* An install that starts with Klipper halted defers the comparison.
Deferred == Step = "pending" /\ klipper = "error"

\* Faulty variant of Verify: the process that was sent the values verifies them.
VerifyAtOnce ==
    /\ Step \in {"pending", "verify"}
    /\ IF expected = {} \/ Deferred
       THEN Advance /\ UNCHANGED expected
       ELSE Compare
    /\ UNCHANGED <<live, disk, klipper, queue, boxes, observed, restart, promised,
                   events>>

Verify ==
    /\ Step \in {"pending", "verify"}
    /\ IF expected = {} \/ restart \/ Deferred
       THEN Advance /\ UNCHANGED expected
       ELSE Compare
    /\ UNCHANGED <<live, disk, klipper, queue, boxes, observed, restart, promised,
                   events>>

\* The files first when Klipper is halted, otherwise the variables first.
Look ==
    /\ Step = "look"
    /\ command' = [command EXCEPT !.todo =
           IF klipper = "error" THEN HaltedPlan ELSE InstallPlan]
    /\ UNCHANGED <<live, disk, klipper, queue, boxes, observed, restart, expected,
                   promised, events>>

\* The files and the ledger are written; changed Klipper sources need a restart.
Commit ==
    /\ Step = "commit"
    /\ Advance
    /\ restart' \in {restart, TRUE}
    /\ promised' = IF restart' /\ command.written # {} THEN command.written
                   ELSE promised
    /\ UNCHANGED <<live, disk, klipper, queue, boxes, observed, expected, events>>

\* The names a new process must still have, before it is asked for.
Expect ==
    /\ Step = "expect"
    /\ expected' = IF restart /\ command.written # {} THEN command.written ELSE expected
    /\ Advance
    /\ UNCHANGED <<live, disk, klipper, queue, boxes, observed, restart, promised,
                   events>>

\* A new process has loaded the file: what it holds needs no further proof.
Unloaded(values) == {n \in promised : values[n] # "default"}

\* A restart with nothing printing.  It is skipped when the process is new
\* already, and then the commands Klipper was sent are still there.
Restarted ==
    /\ restart' = FALSE
    /\ klipper' = "ready"
    /\ queue' \in {queue, <<>>}
    /\ promised' = Unloaded(live)
    /\ Advance
    /\ UNCHANGED events

\* Klipper halts again, or is printing and is left alone.
NotRestarted ==
    /\ Event
    /\ klipper' \in {klipper, "error"}
    /\ queue' = IF klipper' = "error" THEN <<>> ELSE queue
    /\ IF command.op = "install" THEN Advance \/ Raise ELSE Raise
    /\ UNCHANGED <<restart, promised>>

Activate ==
    /\ Step = "activate"
    /\ IF restart THEN Restarted \/ NotRestarted
       ELSE Advance /\ UNCHANGED <<klipper, queue, restart, promised, events>>
    /\ UNCHANGED <<live, disk, boxes, observed, expected>>

\* The restart of an install that found Klipper halted; it ends without the
\* variables when Klipper stays so.
Revive ==
    /\ Step = "revive"
    /\ \/ Restarted
       \/ /\ Event /\ Raise
          /\ UNCHANGED <<klipper, queue, restart, promised>>
    /\ UNCHANGED <<live, disk, boxes, observed, expected>>
-----------------------------------------------------------------------------
\* One save of the installer: detect, ask, read again, send one by one, verify.

Holding(names) == [n \in names |-> live[n]]

\* Also the reconciliation remembers that it saw this number of Boxes.
Observed == IF Step = "reconcile" /\ Gaps = {} /\ boxes THEN TRUE ELSE observed

Unavailable == IF Step = "reconcile" THEN Advance ELSE Raise

Detect ==
    /\ Step \in SaveSteps /\ command.phase = "detect"
    /\ IF klipper # "ready" THEN Unavailable /\ UNCHANGED observed
       ELSE /\ observed' = Observed
            /\ IF Detected(Step) = {} THEN Advance
               ELSE \/ command' = [command EXCEPT !.phase = "read",
                                                !.want = Holding(Detected(Step))]
                  \/ (Asked(Step) /\ Advance)
    /\ UNCHANGED <<live, disk, klipper, queue, boxes, restart, expected, promised,
                   events>>

\* A print is active or the printer's state is not known: the reconciliation is
\* skipped, the check ends before its repairs.
Busy ==
    /\ command.op = "check" /\ command.phase = "detect" /\ Event
    /\ \/ Step = "reconcile" /\ Advance
       \/ Step = "keep" /\ Raise
    /\ UNCHANGED <<live, disk, klipper, queue, boxes, observed, restart, expected,
                   promised>>

ReadAgain ==
    /\ command.phase = "read"
    /\ LET names == StillWanted(Step, command.want) IN
       IF klipper # "ready" THEN Raise
       ELSE IF names = {} THEN Advance
       ELSE command' = [command EXCEPT !.phase = "send", !.left = names,
                                       !.seen = Holding(names)]
    /\ UNCHANGED <<live, disk, klipper, queue, boxes, observed, restart, expected,
                   promised, events>>

\* n is the next variable in the order of the dictionary.
IsNext(n) ==
    \E i \in DOMAIN Order : Order[i] = n /\ \A j \in 1..i-1 : Order[j] \notin command.left

\* A request remembers the values it was decided for.
Request(n) ==
    [name |-> n, decided |-> command.want, seen |-> command.seen[n],
     asked |-> Asked(Step)]

Send ==
    /\ command.phase = "send"
    /\ \E n \in command.left :
          /\ IsNext(n)
          /\ IF klipper = "ready"
             THEN /\ queue' = Append(queue, Request(n))
                  /\ command' = [command EXCEPT !.phase = "wait", !.left = @ \ {n}]
             ELSE Raise /\ UNCHANGED queue
    /\ UNCHANGED <<live, disk, klipper, boxes, observed, restart, expected, promised,
                   events>>

\* Only what an install saves before its files is collected for the marker.
ToBeExpected == \E i \in DOMAIN command.todo : command.todo[i] = "expect"

\* All are saved and read back.
Retained ==
    /\ command.phase = "send" /\ command.left = {}
    /\ IF klipper = "ready" /\ Verified(DOMAIN command.seen)
       THEN /\ command' = [Past(command) EXCEPT !.written =
                              IF ToBeExpected THEN @ \cup DOMAIN command.seen ELSE @]
            /\ observed' = (observed \/ Step = "reconcile")
       ELSE Raise /\ UNCHANGED observed
    /\ UNCHANGED <<live, disk, klipper, queue, boxes, restart, expected, promised,
                   events>>

\* No answer in ten seconds: the command ends, its request is still to be run.
TimesOut ==
    /\ command.phase = "wait" /\ Event
    /\ Raise
    /\ UNCHANGED <<live, disk, klipper, queue, boxes, observed, restart, expected,
                   promised>>
-----------------------------------------------------------------------------
\* Klipper.

Waited == command.phase = "wait" /\ Len(queue) = 1

\* SAVE_VARIABLE: an unchanged value is not written; a changed one replaces
\* the file, then the values in memory.  The file is not flushed: it may reach
\* the disk with this save, or only with a later one.
Saved(n, value) ==
    IF live[n] = value THEN UNCHANGED <<live, disk>>
    ELSE /\ live' = [live EXCEPT ![n] = value]
         /\ disk' \in {disk, live'}

Execute ==
    /\ klipper = "ready" /\ queue # <<>>
    /\ Saved(Head(queue).name, "default")
    /\ queue' = Tail(queue)
    /\ command' = IF Waited THEN [command EXCEPT !.phase = "send"] ELSE command
    /\ promised' = IF live' = live THEN promised ELSE promised \ {Head(queue).name}
    /\ UNCHANGED <<klipper, boxes, observed, restart, expected, events>>

\* The file cannot be written: neither it nor the memory changes.
ExecuteFails ==
    /\ klipper = "ready" /\ queue # <<>> /\ Event
    /\ live[Head(queue).name] # "default"
    /\ queue' = Tail(queue)
    /\ IF Waited THEN Raise ELSE UNCHANGED command
    /\ UNCHANGED <<live, disk, klipper, boxes, observed, restart, expected, promised>>

\* The operator, a macro, the screen or a Box module saves a value.
OthersSave(n, value) ==
    /\ klipper = "ready" /\ Event
    /\ live[n] # value
    /\ Saved(n, value)
    /\ promised' = promised \ {n}
    /\ UNCHANGED <<klipper, queue, boxes, observed, command, restart, expected>>

\* A restart before the installer recorded what it expects is its loss.
Recorded(values) ==
    IF command.op = "install" /\ Step = "expect" THEN {} ELSE Unloaded(values)

PowerCut ==
    /\ Event
    /\ live' \in {live, disk}
    /\ disk' = live'
    /\ klipper' = "ready"
    /\ queue' = <<>>
    /\ command' = Idle
    /\ promised' = Recorded(live')
    /\ UNCHANGED <<boxes, observed, restart, expected>>

\* Klipper stops on an error, is shut down, or is brought back by the user.
KlipperTurns(state) ==
    /\ klipper # state /\ Event
    /\ klipper' = state
    /\ queue' = <<>>
    /\ IF command.phase = "wait" THEN Raise ELSE UNCHANGED command
    /\ UNCHANGED <<live, disk, boxes, observed, restart, expected, promised>>

\* A Box is attached or taken off: another count than the observed one.
BoxChanges ==
    /\ Event
    /\ boxes' = ~boxes /\ observed' = FALSE
    /\ UNCHANGED <<live, disk, klipper, queue, command, restart, expected, promised>>

Kill ==
    /\ command # Idle /\ Event
    /\ Raise
    /\ promised' = IF command.op = "install" /\ Step = "expect" THEN {} ELSE promised
    /\ UNCHANGED <<live, disk, klipper, queue, boxes, observed, restart, expected>>
-----------------------------------------------------------------------------
CommandStep ==
    \/ Verify \/ Look \/ Commit \/ Expect \/ Activate \/ Revive
    \/ Detect \/ ReadAgain \/ Send \/ Retained \/ End

Others ==
    \/ BeginInstall \/ Uninstall \/ TimesOut \/ ExecuteFails \/ PowerCut \/ BoxChanges
    \/ Kill \/ Busy
    \/ \E n \in Names : \E value \in ValuesOf(n) \ {"absent"} : OthersSave(n, value)
    \/ \E state \in {"ready", "error", "shutdown"} : KlipperTurns(state)

Next == CommandStep \/ BeginCheck \/ Execute \/ Others

Spec == Init /\ [][Next]_vars

\* The timer checks every hour, a command goes on until it ends, and a running
\* Klipper runs the commands it was sent.
FairSpec ==
    Spec /\ WF_vars(BeginCheck) /\ WF_vars(CommandStep) /\ WF_vars(Execute)
=============================================================================
