--------------------------- MODULE VariableProofs ---------------------------
(***************************************************************************)
(* What the commands owe to the operator's saved variables, for any motion  *)
(* settings, tools, initial values and number of events.                    *)
(***************************************************************************)
EXTENDS VariableProperties, SequenceTheorems, TLAPS

Steps == {"pending", "look", "commit", "expect", "revive", "activate", "verify"} \cup SaveSteps
Phases == {"detect", "read", "send", "wait"}
Partial == UNION {[names -> Values] : names \in SUBSET Names}

IsCommand(c) ==
    c \in [op : {"none", "install", "check"}, todo : Seq(Steps), phase : Phases, want : Partial,
           seen : Partial, left : SUBSET Names, written : SUBSET Names]

TypeInv ==
    /\ live \in Valuations
    /\ disk \in Valuations
    /\ IsCommand(command)
    /\ restart \in BOOLEAN
    /\ promised \subseteq Names
    /\ command.phase # "detect" => Step \in SaveSteps

-----------------------------------------------------------------------------
(* The operator's values.                                                   *)

\* A request nobody was asked for replaces, if the value is still the one that
\* was read, one the installer may replace.
Allowed(r) ==
    /\ r.name \in Names
    /\ ~r.asked /\ (r.name \in Motion => r.seen = r.decided[r.name]) =>
          Replaceable(r.name, r.seen, r.decided)

\* What was decided to be saved, before it is read again ...
Decided(step, want) ==
    \/ Asked(step)
    \/ step = "keep" /\ DOMAIN want \subseteq {"keep"}
    \/ step = "motion" /\ \A n \in DOMAIN want : n \in Motion /\ Replaceable(n, want[n], want)
    \/ step \in {"gaps", "reconcile"} /\ DOMAIN want \subseteq Tools

\* ... and the requests that come of it.
Requests == [name : Names, decided : Partial, seen : Values, asked : BOOLEAN]

SentInv == queue \in Seq(Requests) /\ \A i \in 1..Len(queue) : Allowed(queue[i])

ToSendInv ==
    /\ command.phase = "read" => Decided(Step, command.want)
    /\ command.phase \in {"send", "wait"} =>
          /\ command.left \subseteq DOMAIN command.seen
          /\ DOMAIN command.seen \subseteq DOMAIN command.want
          /\ \A n \in DOMAIN command.seen : Allowed(Request(n))

RequestsInv == SentInv /\ ToSendInv
-----------------------------------------------------------------------------
(* What a restart must not lose.                                            *)

\* What is left of a plan.
RestOf(plan, todo) ==
    \E k \in 0..Len(plan) :
       /\ Len(plan) = k + Len(todo)
       /\ \A i \in 1..Len(todo) : todo[i] = plan[k + i]

OpeningPlan == <<"pending", "look">>

PlansInv ==
    /\ command.op = "none" => command.todo = <<>>
    /\ command.op = "check" => RestOf(CheckPlan, command.todo)
    /\ command.op = "install" =>
          \/ RestOf(OpeningPlan, command.todo) /\ command.written = {}
          \/ RestOf(InstallPlan, command.todo)
          \/ RestOf(HaltedPlan, command.todo) /\ (Len(command.todo) = 8 => command.written = {})

AtExpect == command.op = "install" /\ Step = "expect"

\* Everything promised is expected, once an install recorded it, and is not
\* loaded as long as no restart is pending; a check looks at it after that.
LossesInv ==
    /\ promised \subseteq IF AtExpect /\ restart /\ command.written # {}
                          THEN command.written ELSE expected
    /\ ~restart => \A n \in promised : live[n] # "default"
    /\ command.op = "check" =>
          /\ Len(command.todo) <= 4 => ~restart
          /\ Len(command.todo) <= 3 => promised = {}
-----------------------------------------------------------------------------
(* Commands.                                                                *)

LEMMA PartialFunctions ==
    ASSUME live \in Valuations
    PROVE  /\ NoValues \in Partial
           /\ \A names \in SUBSET Names : Holding(names) \in Partial
<1>1. NoValues \in [{} -> Values]
  BY DEF NoValues, Values
<1>2. \A names \in SUBSET Names : Holding(names) \in [names -> Values]
  BY DEF Holding, Valuations
<1> QED BY <1>1, <1>2 DEF Partial

LEMMA IdleCommand ==
    ASSUME live \in Valuations
    PROVE  /\ IsCommand(Idle) /\ Idle.op = "none" /\ Idle.todo = <<>> /\ Idle.phase = "detect"
           /\ Idle.written = {}
<1>1. NoValues \in Partial
  BY PartialFunctions
<1> QED BY <1>1 DEF Idle, IsCommand, Phases

LEMMA PastCommand ==
    ASSUME live \in Valuations, IsCommand(command), command.todo # <<>>
    PROVE  /\ IsCommand(Past(command)) /\ Past(command).op = command.op
           /\ Past(command).todo = Tail(command.todo) /\ Past(command).phase = "detect"
           /\ Past(command).written = command.written
<1>1. NoValues \in Partial
  BY PartialFunctions
<1>2. Tail(command.todo) \in Seq(Steps)
  BY DEF IsCommand
<1> QED BY <1>1, <1>2 DEF Past, IsCommand, Phases

\* The step a command is at.
LEMMA AtStep ==
    ASSUME IsCommand(command)
    PROVE  /\ Step = "end" <=> command.todo = <<>>
           /\ command.todo # <<>> => Step = command.todo[1] /\ Step \in Steps
  BY DEF Step, IsCommand, Steps, SaveSteps

-----------------------------------------------------------------------------
(* Plans.                                                                   *)

LEMMA ThePlans ==
    /\ OpeningPlan \in Seq(Steps) /\ Len(OpeningPlan) = 2
    /\ OpeningPlan[1] = "pending" /\ OpeningPlan[2] = "look"
    /\ InstallPlan \in Seq(Steps) /\ Len(InstallPlan) = 9
    /\ InstallPlan[1] = "keep" /\ InstallPlan[2] = "motion" /\ InstallPlan[3] = "enable"
    /\ InstallPlan[4] = "gaps" /\ InstallPlan[5] = "align" /\ InstallPlan[6] = "commit"
    /\ InstallPlan[7] = "expect" /\ InstallPlan[8] = "activate" /\ InstallPlan[9] = "verify"
    /\ HaltedPlan \in Seq(Steps) /\ Len(HaltedPlan) = 8
    /\ HaltedPlan[1] = "commit" /\ HaltedPlan[2] = "revive" /\ HaltedPlan[3] = "verify"
    /\ HaltedPlan[4] = "keep" /\ HaltedPlan[5] = "motion" /\ HaltedPlan[6] = "enable"
    /\ HaltedPlan[7] = "gaps" /\ HaltedPlan[8] = "align"
    /\ CheckPlan \in Seq(Steps) /\ Len(CheckPlan) = 7
    /\ CheckPlan[1] = "reconcile" /\ CheckPlan[2] = "verify" /\ CheckPlan[3] = "activate"
    /\ CheckPlan[4] = "verify" /\ CheckPlan[5] = "keep" /\ CheckPlan[6] = "motion"
    /\ CheckPlan[7] = "gaps"
  BY DEF OpeningPlan, InstallPlan, HaltedPlan, CheckPlan, Steps, SaveSteps

\* A step of a plan leaves the rest of it.
LEMMA RestTail ==
    ASSUME NEW plan \in Seq(Steps), NEW todo \in Seq(Steps), RestOf(plan, todo), todo # <<>>
    PROVE  /\ RestOf(plan, Tail(todo))
           /\ \E k \in Nat :
                 /\ Len(plan) = k + Len(todo) /\ Len(todo) = Len(Tail(todo)) + 1
                 /\ todo[1] = plan[k + 1]
                 /\ Tail(todo) # <<>> => Tail(todo)[1] = plan[k + 2]
<1>0. PICK k \in 0..Len(plan) : /\ Len(plan) = k + Len(todo)
                                /\ \A i \in 1..Len(todo) : todo[i] = plan[k + i]
  BY DEF RestOf
<1>1. /\ Tail(todo) \in Seq(Steps) /\ Len(todo) = Len(Tail(todo)) + 1
      /\ \A i \in 1..Len(Tail(todo)) : Tail(todo)[i] = todo[i + 1]
  BY HeadTailProperties
<1>2. Len(Tail(todo)) \in Nat /\ Len(todo) \in Nat /\ k \in Nat /\ Len(plan) \in Nat
  BY <1>1, LenProperties
<1>3. \A i \in 1..Len(Tail(todo)) : Tail(todo)[i] = plan[k + 1 + i]
  <2> TAKE i \in 1..Len(Tail(todo))
  <2>1. i \in Nat /\ i + 1 \in 1..Len(todo)
    BY <1>1, <1>2
  <2>2. k + (i + 1) = k + 1 + i
    BY <1>2, <2>1
  <2> QED BY <1>0, <1>1, <2>1, <2>2
<1>4. RestOf(plan, Tail(todo))
  <2>1. k + 1 \in 0..Len(plan) /\ Len(plan) = k + 1 + Len(Tail(todo))
    BY <1>0, <1>1, <1>2
  <2> QED BY <1>3, <2>1 DEF RestOf
<1>5. todo[1] = plan[k + 1]
  BY <1>0, <1>1, <1>2
<1>6. ASSUME Tail(todo) # <<>> PROVE Tail(todo)[1] = plan[k + 2]
  <2>1. Len(Tail(todo)) \in Nat \ {0}
    BY <1>1, <1>6, EmptySeq
  <2>2. k + 1 + 1 = k + 2
    BY <1>2
  <2>3. 1 \in 1..Len(Tail(todo))
    <3>1. \A n \in Nat \ {0} : 1 \in 1..n
      OBVIOUS
    <3> QED BY <2>1, <3>1
  <2>4. Tail(todo)[1] = plan[k + 1 + 1]
    BY <1>3, <2>3
  <2> QED BY <2>2, <2>4
<1> QED BY <1>0, <1>1, <1>2, <1>4, <1>5, <1>6

LEMMA StartOfPlan == \A plan \in Seq(Steps) : RestOf(plan, plan)
<1> SUFFICES ASSUME NEW plan \in Seq(Steps) PROVE RestOf(plan, plan)
  OBVIOUS
<1>1. 0 \in 0..Len(plan) /\ Len(plan) = 0 + Len(plan) /\ \A i \in 1..Len(plan) : 0 + i = i
  BY LenProperties
<1> QED BY <1>1 DEF RestOf

\* Where a command is when it goes on, and where it gets.
LEMMA PlansPast ==
    ASSUME IsCommand(command), PlansInv, command.todo # <<>>, command'.op = command.op,
           command'.todo = Tail(command.todo),
           command'.written = command.written \/ Step \in SaveSteps
    PROVE  /\ PlansInv'
           /\ AtExpect' => Step = "commit"
           /\ command.op = "install" /\ Step = "commit" /\ ~AtExpect' => command.written = {}
           /\ command.op = "check" => Step \in {"reconcile", "verify", "activate", "keep", "motion", "gaps"}
           /\ command.op = "check" => Len(command.todo) = Len(command'.todo) + 1
           /\ command.op = "check" /\ Len(command.todo) = 4 => Step = "verify"
           /\ command.op = "check" /\ Len(command.todo) = 5 => Step = "activate"
<1> DEFINE todo == command.todo
           rest == Tail(command.todo)
<1>1. /\ todo \in Seq(Steps) /\ todo # <<>> /\ Step = todo[1]
      /\ Step' = IF rest = <<>> THEN "end" ELSE rest[1]
  BY HeadTailProperties DEF Step, IsCommand
<1>2. ASSUME NEW plan \in Seq(Steps), RestOf(plan, todo)
      PROVE  /\ RestOf(plan, rest)
             /\ \E k \in Nat :
                   /\ Len(plan) = k + Len(todo) /\ Len(todo) = Len(rest) + 1
                   /\ Step = plan[k + 1]
                   /\ Step' = IF rest = <<>> THEN "end" ELSE plan[k + 2]
  BY <1>1, <1>2, RestTail
<1>3. Len(todo) \in Nat \ {0} /\ Len(rest) \in Nat
  BY <1>1, HeadTailProperties, EmptySeq, LenProperties
<1> HIDE DEF todo, rest
<1>4. command.op \in {"none", "install", "check"}
  BY DEF IsCommand
<1>5. command.op # "none"
  BY <1>1 DEF PlansInv, todo
<1>6. CASE command.op = "check"
  <2>1. RestOf(CheckPlan, todo)
    BY <1>6 DEF PlansInv, todo
  <2>2. PICK k \in Nat : /\ 7 = k + Len(todo) /\ Len(todo) = Len(rest) + 1
                         /\ Step = CheckPlan[k + 1]
                         /\ Step' = IF rest = <<>> THEN "end" ELSE CheckPlan[k + 2]
    BY <1>2, <2>1, ThePlans
  <2>3. /\ k = 0 \/ k = 1 \/ k = 2 \/ k = 3 \/ k = 4 \/ k = 5 \/ k = 6
        /\ (Len(todo) = 4 => k = 3) /\ (Len(todo) = 5 => k = 2)
    BY <1>3, <2>2
  <2>4. CheckPlan[k + 1] \in {"reconcile", "verify", "activate", "keep", "motion", "gaps"}
    BY <2>3, ThePlans
  <2>5. k = 3 => CheckPlan[k + 1] = "verify"
    BY ThePlans
  <2>6. k = 2 => CheckPlan[k + 1] = "activate"
    BY ThePlans
  <2>7. PlansInv' /\ ~AtExpect'
    BY <1>2, <1>6, <2>1, ThePlans DEF PlansInv, AtExpect, rest
  <2> QED BY <1>6, <2>2, <2>3, <2>4, <2>5, <2>6, <2>7 DEF todo, rest
<1>7. CASE command.op = "install" /\ RestOf(OpeningPlan, todo) /\ command.written = {}
  <2>1. PICK k \in Nat : /\ 2 = k + Len(todo)
                         /\ Step = OpeningPlan[k + 1]
                         /\ Step' = IF rest = <<>> THEN "end" ELSE OpeningPlan[k + 2]
    BY <1>2, <1>7, ThePlans
  <2>2. k \in 0..1
    BY <1>3, <2>1
  <2>3. Step \in {"pending", "look"} /\ Step' # "expect"
    <3>1. CASE k = 0
      BY <2>1, <3>1, ThePlans
    <3>2. CASE k = 1
      <4>1. rest = <<>>
        BY <1>1, <2>1, <3>2, HeadTailProperties, EmptySeq DEF rest, todo
      <4> QED BY <2>1, <3>2, <4>1, ThePlans
    <3> QED BY <2>2, <3>1, <3>2
  <2>4. command'.written = {}
    BY <1>7, <2>3 DEF SaveSteps
  <2>5. RestOf(OpeningPlan, rest)
    BY <1>2, <1>7, ThePlans
  <2>6. PlansInv'
    BY <1>7, <2>4, <2>5 DEF PlansInv, rest
  <2> QED BY <1>7, <2>3, <2>6 DEF AtExpect
<1>8. CASE command.op = "install" /\ RestOf(InstallPlan, todo)
  <2>1. PICK k \in Nat : /\ 9 = k + Len(todo) /\ Len(todo) = Len(rest) + 1
                         /\ Step = InstallPlan[k + 1]
                         /\ Step' = IF rest = <<>> THEN "end" ELSE InstallPlan[k + 2]
    BY <1>2, <1>8, ThePlans
  <2>2. /\ k = 0 \/ k = 1 \/ k = 2 \/ k = 3 \/ k = 4 \/ k = 5 \/ k = 6 \/ k = 7 \/ k = 8
        /\ k # 8 => rest # <<>>
    BY <1>3, <2>1, EmptySeq
  <2>3. Step' = "expect" => Step = "commit"
    <3>1. k # 5 /\ k # 8 => InstallPlan[k + 2] # "expect"
      BY <2>2, ThePlans
    <3>2. k = 5 => InstallPlan[k + 1] = "commit"
      BY ThePlans
    <3>3. k = 8 => Step' = "end"
      <4>1. k = 8 => rest = <<>>
        BY <1>1, <1>3, <2>1, HeadTailProperties, EmptySeq DEF rest, todo
      <4> QED BY <2>1, <4>1
    <3> QED BY <2>1, <3>1, <3>2, <3>3
  <2>4. Step = "commit" => Step' = "expect"
    <3>1. InstallPlan[k + 1] = "commit" => k = 5
      BY <2>2, ThePlans
    <3>2. k = 5 => InstallPlan[k + 2] = "expect"
      BY ThePlans
    <3> QED BY <2>1, <2>2, <3>1, <3>2
  <2>5. RestOf(InstallPlan, rest)
    BY <1>2, <1>8, ThePlans
  <2>6. PlansInv'
    BY <1>8, <2>5 DEF PlansInv, rest
  <2> QED BY <1>8, <2>3, <2>4, <2>6 DEF AtExpect
<1>9. CASE command.op = "install" /\ RestOf(HaltedPlan, todo) /\ (Len(todo) = 8 => command.written = {})
  <2>1. PICK k \in Nat : /\ 8 = k + Len(todo) /\ Len(todo) = Len(rest) + 1
                         /\ Step = HaltedPlan[k + 1]
                         /\ Step' = IF rest = <<>> THEN "end" ELSE HaltedPlan[k + 2]
    BY <1>2, <1>9, ThePlans
  <2>2. /\ k = 0 \/ k = 1 \/ k = 2 \/ k = 3 \/ k = 4 \/ k = 5 \/ k = 6 \/ k = 7
        /\ k = 7 => rest = <<>>
    <3>1. Len(rest) = 0 <=> rest = <<>>
      BY <1>1, HeadTailProperties, EmptySeq DEF rest, todo
    <3> QED BY <1>3, <2>1, <3>1
  <2>3. Step' # "expect"
    <3>1. k # 7 => HaltedPlan[k + 2] # "expect"
      BY <2>2, ThePlans
    <3> QED BY <2>1, <2>2, <3>1
  <2>4. Step = "commit" => command.written = {}
    <3>1. HaltedPlan[k + 1] = "commit" => k = 0
      BY <2>2, ThePlans
    <3> QED BY <1>9, <1>3, <2>1, <3>1
  <2>5. RestOf(HaltedPlan, rest) /\ Len(rest) # 8
    BY <1>2, <1>3, <1>9, <2>1, ThePlans
  <2>6. PlansInv'
    BY <1>9, <2>5 DEF PlansInv, rest
  <2> QED BY <1>9, <2>3, <2>4, <2>6 DEF AtExpect
<1> QED BY <1>4, <1>5, <1>6, <1>7, <1>8, <1>9 DEF PlansInv, todo
-----------------------------------------------------------------------------
(* Types.                                                                   *)

LEMMA ValueKinds ==
    ASSUME NEW n \in Names
    PROVE  "default" \in ValuesOf(n) /\ ValuesOf(n) \subseteq Values
  BY NamesAssumption DEF ValuesOf, Values, Names, Motion

LEMMA SavedTypes ==
    ASSUME live \in Valuations, disk \in Valuations, NEW n \in Names, NEW value \in ValuesOf(n),
           Saved(n, value)
    PROVE  live' \in Valuations /\ disk' \in Valuations
  BY ValueKinds DEF Saved, Valuations

LEMMA SavedAlone ==
    ASSUME live \in Valuations, NEW n \in Names, NEW value, Saved(n, value)
    PROVE  \A m \in Names : m # n => live'[m] = live[m]
  BY DEF Saved, Valuations

\* A command goes on to its next step, goes on within one, or ends.
Onward ==
    /\ command.todo # <<>> /\ IsCommand(command') /\ command'.op = command.op
    /\ command'.todo = Tail(command.todo) /\ command'.phase = "detect"
    /\ command'.written = command.written \/ Step \in SaveSteps

Within ==
    /\ IsCommand(command') /\ command'.op = command.op /\ command'.todo = command.todo
    /\ command'.written = command.written
    /\ command'.phase # "detect" => Step \in SaveSteps

LEMMA SameStep == ASSUME Within PROVE Step' = Step /\ AtExpect' = AtExpect
  BY DEF Within, Step, AtExpect

LEMMA AdvanceOnward ==
    ASSUME TypeInv, Step # "end" PROVE Advance => Onward
  BY AtStep, PastCommand DEF TypeInv, Advance, Onward

LEMMA RaiseEnds ==
    ASSUME TypeInv, Raise
    PROVE  /\ IsCommand(command') /\ command'.op = "none" /\ command'.todo = <<>>
           /\ command'.phase = "detect" /\ ~AtExpect'
  BY IdleCommand DEF TypeInv, Raise, AtExpect

LEMMA CommandKept ==
    ASSUME TypeInv, PlansInv, Onward \/ Within \/ Raise,
           live' \in Valuations, disk' \in Valuations, restart' \in BOOLEAN, promised' \subseteq Names
    PROVE  TypeInv' /\ PlansInv'
<1>1. CASE Onward
  <2>1. PlansInv'
    BY <1>1, PlansPast DEF Onward, TypeInv
  <2> QED BY <1>1, <2>1 DEF Onward, TypeInv
<1>2. CASE Within
  BY <1>2, SameStep DEF Within, TypeInv, PlansInv
<1>3. CASE Raise
  BY <1>3, RaiseEnds DEF TypeInv, PlansInv
<1> QED BY <1>1, <1>2, <1>3

-----------------------------------------------------------------------------
(* What each step does to the command and to what is promised.              *)

\* Nothing of the record of what is promised changes, but that values are
\* saved or loaded.
Recording ==
    /\ UNCHANGED <<restart, expected>>
    /\ promised' \subseteq promised
    /\ \A n \in promised' : live'[n] = live[n] \/ live'[n] # "default"

LEMMA RecordedWithin ==
    ASSUME LossesInv, Recording, Within PROVE LossesInv'
  BY SameStep DEF LossesInv, Recording, Within

LEMMA RecordedEnd ==
    ASSUME TypeInv, LossesInv, Recording, Raise, ~AtExpect \/ promised' = {} PROVE LossesInv'
<1>1. ~AtExpect' /\ command'.op = "none"
  BY RaiseEnds
<1>2. promised' \subseteq expected'
  BY DEF LossesInv, Recording
<1> QED BY <1>1, <1>2 DEF LossesInv, Recording

LEMMA RecordedOnward ==
    ASSUME TypeInv, PlansInv, LossesInv, Recording, Onward, Step \notin {"commit", "expect"},
           command.op = "check" => Step \notin {"verify", "activate"}
    PROVE  LossesInv'
<1>1. ~AtExpect' /\ ~AtExpect
  BY PlansPast DEF Onward, TypeInv, AtExpect
<1>2. command.op = "check" => /\ Len(command.todo) = Len(command'.todo) + 1
                              /\ Len(command.todo) # 4 /\ Len(command.todo) # 5
  BY PlansPast DEF Onward, TypeInv
<1>3. Len(command.todo) \in Nat /\ Len(command'.todo) \in Nat
  BY LenProperties DEF Onward, TypeInv, IsCommand
<1>4. command.op = "check" => /\ Len(command'.todo) <= 4 => Len(command.todo) <= 4
                              /\ Len(command'.todo) <= 3 => Len(command.todo) <= 3
  <2>1. \A m, n \in Nat : m = n + 1 /\ m # 4 /\ m # 5 => (n <= 4 => m <= 4) /\ (n <= 3 => m <= 3)
    OBVIOUS
  <2> QED BY <1>2, <1>3, <2>1
<1> QED BY <1>1, <1>4 DEF LossesInv, Recording, Onward

\* Only an install that wrote nothing looks at Klipper.
LEMMA LookPlan ==
    ASSUME IsCommand(command), PlansInv, Step = "look"
    PROVE  command.op = "install" /\ command.written = {}
<1>1. command.todo \in Seq(Steps) /\ command.todo # <<>> /\ command.todo[1] = "look"
  BY AtStep DEF IsCommand
<1>2. ASSUME NEW plan \in Seq(Steps), RestOf(plan, command.todo)
      PROVE \E k \in Nat : k + 1 \in 1..Len(plan) /\ plan[k + 1] = "look"
  <2>1. PICK k \in Nat : /\ Len(plan) = k + Len(command.todo)
                         /\ Len(command.todo) = Len(Tail(command.todo)) + 1
                         /\ command.todo[1] = plan[k + 1]
    BY <1>1, <1>2, RestTail
  <2>2. Len(Tail(command.todo)) \in Nat
    BY <1>1, HeadTailProperties, LenProperties
  <2>3. \A m \in Nat : Len(plan) = k + (m + 1) => k + 1 \in 1..Len(plan)
    OBVIOUS
  <2> QED BY <1>1, <2>1, <2>2, <2>3
<1>3. ~RestOf(CheckPlan, command.todo)
  <2>1. \A k \in Nat : k + 1 \in 1..7 => CheckPlan[k + 1] # "look"
    BY DEF CheckPlan
  <2> QED BY <1>2, <2>1, ThePlans
<1>4. ~RestOf(InstallPlan, command.todo)
  <2>1. \A k \in Nat : k + 1 \in 1..9 => InstallPlan[k + 1] # "look"
    BY DEF InstallPlan
  <2> QED BY <1>2, <2>1, ThePlans
<1>5. ~RestOf(HaltedPlan, command.todo)
  <2>1. \A k \in Nat : k + 1 \in 1..8 => HaltedPlan[k + 1] # "look"
    BY DEF HaltedPlan
  <2> QED BY <1>2, <2>1, ThePlans
<1> QED BY <1>1, <1>3, <1>4, <1>5 DEF PlansInv, IsCommand

\* The commands of the installer.
LEMMA BeginKept ==
    ASSUME TypeInv, PlansInv, LossesInv, BeginInstall \/ BeginCheck
    PROVE  TypeInv' /\ PlansInv' /\ LossesInv'
<1>1. NoValues \in Partial
  BY PartialFunctions DEF TypeInv
<1>2. CASE BeginInstall
  <2>1. /\ IsCommand(command') /\ command'.op = "install" /\ command'.todo = OpeningPlan
        /\ command'.phase = "detect" /\ command'.written = {}
    BY <1>1, <1>2, ThePlans DEF BeginInstall, Idle, IsCommand, Phases, OpeningPlan
  <2>2. Step' = "pending"
    BY <2>1 DEF Step, OpeningPlan
  <2>3. TypeInv' /\ PlansInv'
    BY <1>2, <2>1, StartOfPlan, ThePlans DEF BeginInstall, TypeInv, PlansInv
  <2>4. ~AtExpect /\ ~AtExpect'
    BY <1>2, <2>2, IdleCommand DEF BeginInstall, AtExpect, TypeInv
  <2> QED BY <1>2, <2>1, <2>3, <2>4 DEF BeginInstall, LossesInv
<1>3. CASE BeginCheck
  <2>1. /\ IsCommand(command') /\ command'.op = "check" /\ command'.todo = CheckPlan
        /\ command'.phase = "detect" /\ command'.written = {}
    BY <1>1, <1>3, ThePlans DEF BeginCheck, Idle, IsCommand, Phases
  <2>2. TypeInv' /\ PlansInv'
    BY <1>3, <2>1, StartOfPlan, ThePlans DEF BeginCheck, TypeInv, PlansInv
  <2>3. ~AtExpect /\ ~AtExpect'
    BY <1>3, <2>1, IdleCommand DEF BeginCheck, AtExpect, TypeInv
  <2>4. ~(Len(command'.todo) <= 4) /\ ~(Len(command'.todo) <= 3)
    BY <2>1, ThePlans
  <2> QED BY <1>3, <2>1, <2>2, <2>3, <2>4 DEF BeginCheck, LossesInv
<1> QED BY <1>2, <1>3

\* A comparison that finds every expected value leaves nothing promised.
LEMMA VerifyKept ==
    ASSUME TypeInv, PlansInv, LossesInv, Verify PROVE TypeInv' /\ PlansInv' /\ LossesInv'
<1>1. Onward \/ Raise
  BY AdvanceOnward DEF Verify, Compare
<1>2. TypeInv' /\ PlansInv'
  BY <1>1, CommandKept DEF Verify, TypeInv
<1>3. ~AtExpect /\ UNCHANGED <<live, restart, promised>>
  BY DEF AtExpect, Verify
<1>4. promised \subseteq expected
  BY <1>3 DEF LossesInv
<1>5. CASE Raise /\ UNCHANGED expected
  BY <1>2, <1>3, <1>5, RecordedEnd DEF Recording
<1>6. CASE Advance /\ UNCHANGED expected /\ (expected = {} \/ restart \/ Deferred)
  <2>1. Onward /\ command.op = command'.op
    BY <1>6, AdvanceOnward DEF Verify, Onward
  <2>2. ~AtExpect'
    BY <2>1, PlansPast DEF Verify, Onward, TypeInv
  <2>3. ASSUME command.op = "check"
        PROVE  /\ Len(command'.todo) <= 4 => Len(command.todo) <= 4
               /\ Len(command'.todo) <= 3 => Len(command.todo) <= 4
               /\ expected = {} \/ restart
    <3>1. Len(command.todo) = Len(command'.todo) + 1 /\ Len(command.todo) # 5 /\ Step = "verify"
      BY <2>1, <2>3, PlansPast DEF Verify, Onward, TypeInv
    <3>2. Len(command.todo) \in Nat /\ Len(command'.todo) \in Nat
      BY <2>1, LenProperties DEF Onward, TypeInv, IsCommand
    <3>3. \A m, n \in Nat : m = n + 1 /\ m # 5 => (n <= 4 => m <= 4) /\ (n <= 3 => m <= 4)
      OBVIOUS
    <3> QED BY <1>6, <3>1, <3>2, <3>3 DEF Deferred
  <2> QED BY <1>2, <1>3, <1>4, <1>6, <2>1, <2>2, <2>3 DEF LossesInv
<1>7. CASE Advance /\ expected' = {} /\ ~restart /\ Verified(expected)
  <2>1. promised = {}
    BY <1>4, <1>7 DEF LossesInv, Verified, Read
  <2>2. Onward /\ command.op = command'.op
    BY <1>7, AdvanceOnward DEF Verify, Onward
  <2>3. ~AtExpect'
    BY <2>2, PlansPast DEF Verify, Onward, TypeInv
  <2> QED BY <1>2, <1>3, <1>7, <2>1, <2>3 DEF LossesInv
<1> QED BY <1>2, <1>5, <1>6, <1>7 DEF Verify, Compare

\* The steps of an install that write what is promised and what is expected.
LEMMA InstallKept ==
    ASSUME TypeInv, PlansInv, LossesInv, Look \/ Commit \/ Expect
    PROVE  TypeInv' /\ PlansInv' /\ LossesInv'
<1>1. command.todo # <<>> /\ Step = command.todo[1]
  BY AtStep DEF Look, Commit, Expect, TypeInv
<1>2. Step \in {"look", "commit", "expect"}
  BY DEF Look, Commit, Expect
<1>3. CASE Look
  <2>1. command.op = "install" /\ command.written = {}
    BY <1>1, <1>3, LookPlan DEF TypeInv, Look
  <2> DEFINE plan == IF klipper = "error" THEN HaltedPlan ELSE InstallPlan
  <2>2. /\ IsCommand(command') /\ command'.todo = plan /\ command'.op = "install"
        /\ command'.phase = command.phase /\ command'.written = {}
    BY <1>3, <2>1, ThePlans DEF Look, TypeInv, IsCommand
  <2>3. Step' = plan[1] /\ Step' # "expect" /\ command.phase = "detect"
    BY <1>3, <2>2, ThePlans DEF Step, Look, TypeInv, HaltedPlan, InstallPlan, SaveSteps
  <2>4. TypeInv' /\ PlansInv'
    BY <1>3, <2>2, <2>3, StartOfPlan, ThePlans DEF Look, TypeInv, PlansInv
  <2>5. ~AtExpect /\ ~AtExpect'
    BY <1>3, <2>3 DEF AtExpect, Look
  <2> QED BY <1>3, <2>2, <2>4, <2>5 DEF Look, LossesInv
<1>4. CASE Commit
  <2>1. Onward /\ command'.written = command.written
    BY <1>4, AdvanceOnward, PastCommand, <1>1 DEF Commit, Advance, TypeInv
  <2>2. /\ AtExpect' \/ (command.op = "install" => command.written = {})
        /\ command.op # "check"
    BY <1>4, <2>1, PlansPast DEF Commit, Onward, TypeInv
  <2>3. command.op = "install"
    BY <1>1, <2>2 DEF PlansInv, TypeInv, IsCommand
  <2>4. restart' \in BOOLEAN /\ promised' \subseteq Names
    <3>1. restart \in BOOLEAN /\ command.written \subseteq Names /\ promised \subseteq Names
      BY DEF TypeInv, IsCommand
    <3> QED BY <1>4, <3>1 DEF Commit
  <2>5. TypeInv' /\ PlansInv'
    BY <1>4, <2>1, <2>4, CommandKept DEF Commit, TypeInv
  <2>6. promised \subseteq expected
    BY <1>4 DEF Commit, LossesInv, AtExpect
  <2>7. promised' \subseteq IF AtExpect' /\ restart' /\ command'.written # {}
                            THEN command'.written ELSE expected'
    BY <1>4, <2>1, <2>2, <2>3, <2>6 DEF Commit
  <2>8. ~restart' => promised' = promised
    BY <1>4 DEF Commit
  <2>9. ~restart' => ~restart /\ UNCHANGED live
    BY <1>4 DEF Commit, TypeInv
  <2>10. \A n \in promised' : ~restart' => live'[n] # "default"
    BY <2>8, <2>9 DEF LossesInv
  <2>11. command'.op # "check"
    BY <2>1, <2>3 DEF Onward
  <2> QED BY <2>5, <2>7, <2>10, <2>11 DEF LossesInv
<1>5. CASE Expect
  <2>1. Onward
    BY <1>5, AdvanceOnward DEF Expect
  <2>2. command.op # "check" /\ ~AtExpect'
    BY <1>5, <2>1, PlansPast DEF Expect, Onward, TypeInv
  <2>3. command.op = "install"
    BY <1>1, <2>2 DEF PlansInv, TypeInv, IsCommand
  <2>4. TypeInv' /\ PlansInv'
    BY <1>5, <2>1, CommandKept DEF Expect, TypeInv
  <2>5. promised \subseteq expected'
    BY <1>5, <2>3 DEF Expect, LossesInv, AtExpect
  <2> QED BY <1>5, <2>1, <2>2, <2>3, <2>4, <2>5 DEF Expect, LossesInv, Onward
<1> QED BY <1>3, <1>4, <1>5

\* A restart of Klipper for changed sources.
LEMMA RestartKept ==
    ASSUME TypeInv, PlansInv, LossesInv, Activate \/ Revive
    PROVE  TypeInv' /\ PlansInv' /\ LossesInv'
<1>1. Advance => Onward
  BY AdvanceOnward DEF Activate, Revive
<1>2. UNCHANGED <<live, disk, expected>> /\ ~AtExpect /\ Step \in {"activate", "revive"}
  BY DEF Activate, Revive, AtExpect
<1>3. promised \subseteq expected
  BY <1>2 DEF LossesInv
<1>4. CASE Raise /\ UNCHANGED <<restart, promised>>
  <2>1. TypeInv' /\ PlansInv'
    BY <1>2, <1>4, CommandKept DEF TypeInv
  <2> QED BY <1>2, <1>4, <2>1, RecordedEnd DEF Recording
<1>5. CASE Advance /\ UNCHANGED <<restart, promised>> /\ (command.op = "check" => ~restart)
  <2>1. TypeInv' /\ PlansInv'
    BY <1>1, <1>2, <1>5, CommandKept DEF TypeInv
  <2>2. ~AtExpect' /\ command'.op = command.op
    BY <1>1, <1>2, <1>5, PlansPast DEF Onward, TypeInv
  <2>3. ASSUME command.op = "check", Len(command'.todo) <= 3 PROVE promised = {}
    <3>1. Len(command.todo) = Len(command'.todo) + 1 /\ Len(command.todo) # 4
      BY <1>1, <1>2, <1>5, <2>3, PlansPast DEF Onward, TypeInv
    <3>2. Len(command.todo) \in Nat /\ Len(command'.todo) \in Nat
      BY <1>1, <1>5, LenProperties DEF Onward, TypeInv, IsCommand
    <3>3. \A m, n \in Nat : m = n + 1 /\ m # 4 /\ n <= 3 => m <= 3
      OBVIOUS
    <3> QED BY <2>3, <3>1, <3>2, <3>3 DEF LossesInv
  <2> QED BY <1>2, <1>3, <1>5, <2>1, <2>2, <2>3 DEF LossesInv
<1>6. CASE Advance /\ restart' = FALSE /\ promised' = Unloaded(live)
  <2>1. promised' \subseteq promised /\ \A n \in promised' : live'[n] # "default"
    BY <1>2, <1>6 DEF Unloaded
  <2>2. TypeInv' /\ PlansInv'
    BY <1>1, <1>2, <1>6, <2>1, CommandKept DEF TypeInv
  <2>3. ~AtExpect' /\ command'.op = command.op
    BY <1>1, <1>2, <1>6, PlansPast DEF Onward, TypeInv
  <2>4. ASSUME command.op = "check", Len(command'.todo) <= 3 PROVE promised' = {}
    <3>1. Len(command.todo) = Len(command'.todo) + 1 /\ Len(command.todo) # 4
      BY <1>1, <1>2, <1>6, <2>4, PlansPast DEF Onward, TypeInv
    <3>2. Len(command.todo) \in Nat /\ Len(command'.todo) \in Nat
      BY <1>1, <1>6, LenProperties DEF Onward, TypeInv, IsCommand
    <3>3. \A m, n \in Nat : m = n + 1 /\ m # 4 /\ n <= 3 => m <= 3
      OBVIOUS
    <3> QED BY <2>1, <2>4, <3>1, <3>2, <3>3 DEF LossesInv
  <2> QED BY <1>2, <1>3, <1>6, <2>1, <2>2, <2>3, <2>4 DEF LossesInv
<1>7. CASE Activate
  <2>1. CASE ~restart
    BY <1>5, <1>7, <2>1 DEF Activate
  <2>2. CASE Restarted
    BY <1>6, <2>2 DEF Restarted
  <2>3. CASE restart /\ NotRestarted
    <3>1. command.op \in {"none", "install", "check"}
      BY DEF TypeInv, IsCommand
    <3> QED BY <1>4, <1>5, <2>3, <3>1 DEF NotRestarted
  <2> QED BY <1>7, <2>1, <2>2, <2>3 DEF Activate
<1>8. CASE Revive
  BY <1>4, <1>6, <1>8 DEF Revive, Restarted
<1> QED BY <1>7, <1>8

LEMMA DetectedNames == ASSUME Step \in SaveSteps PROVE Detected(Step) \subseteq Names
  BY DEF SaveSteps, Detected, KeepDefault, MotionDefaults, LoweredSpeeds, BoxToEnable, Gaps,
         Mismatches, Names, Motion

\* The saves of the installer.
LEMMA SaveKept ==
    ASSUME TypeInv, PlansInv, LossesInv, Detect \/ ReadAgain \/ Send \/ Retained \/ End \/ TimesOut \/ Busy
    PROVE  TypeInv' /\ PlansInv' /\ LossesInv'
<1>1. UNCHANGED <<live, disk, restart, expected, promised>>
  BY DEF Detect, ReadAgain, Send, Retained, End, TimesOut, Busy
<1>2. ~AtExpect /\ Step \notin {"commit", "expect", "verify", "activate"}
  BY DEF Detect, ReadAgain, Send, Retained, End, TimesOut, Busy, TypeInv, AtExpect, SaveSteps
<1>3. Onward \/ Within \/ Raise
  <2>1. Step # "end" /\ Advance => Onward
    BY AdvanceOnward
  <2>2. \A names \in SUBSET Names : Holding(names) \in Partial
    BY PartialFunctions DEF TypeInv
  <2>3. CASE Detect
    <3>1. Step # "end"
      BY <2>3 DEF Detect, SaveSteps
    <3>2. Detected(Step) \subseteq Names
      BY <2>3, DetectedNames DEF Detect
    <3>3. ASSUME command' = [command EXCEPT !.phase = "read", !.want = Holding(Detected(Step))]
          PROVE Within
      BY <2>2, <2>3, <3>2, <3>3 DEF Within, TypeInv, IsCommand, Phases, Detect
    <3> QED BY <2>1, <2>3, <3>1, <3>3 DEF Detect, Unavailable
  <2>4. CASE ReadAgain
    <3> DEFINE names == StillWanted(Step, command.want)
    <3>1. Step # "end" /\ Step \in SaveSteps
      BY <2>4 DEF ReadAgain, SaveSteps, TypeInv
    <3>2. names \subseteq Names
      BY DEF StillWanted, TypeInv, IsCommand, Partial
    <3>3. ASSUME command' = [command EXCEPT !.phase = "send", !.left = names, !.seen = Holding(names)]
          PROVE Within
      <4> HIDE DEF names
      <4> QED BY <2>2, <3>1, <3>2, <3>3 DEF Within, TypeInv, IsCommand, Phases
    <3> QED BY <2>1, <2>4, <3>1, <3>3 DEF ReadAgain
  <2>5. CASE Send
    <3>1. Step \in SaveSteps
      BY <2>5 DEF Send, TypeInv
    <3>2. ASSUME NEW n \in Names, command' = [command EXCEPT !.phase = "wait", !.left = @ \ {n}]
          PROVE Within
      BY <3>1, <3>2 DEF Within, TypeInv, IsCommand, Phases
    <3>3. command.left \subseteq Names
      BY DEF TypeInv, IsCommand
    <3> QED BY <2>5, <3>2, <3>3 DEF Send
  <2>6. CASE Retained
    <3>1. Step # "end" /\ Step \in SaveSteps
      BY <2>6 DEF Retained, SaveSteps, TypeInv
    <3>2. DOMAIN command.seen \subseteq Names
      BY DEF TypeInv, IsCommand, Partial
    <3> DEFINE written == IF ToBeExpected THEN Past(command).written \cup DOMAIN command.seen
                          ELSE Past(command).written
    <3>3. command.todo # <<>> /\ IsCommand(Past(command)) /\ Past(command).written \subseteq Names
      BY <3>1, AtStep, PastCommand DEF TypeInv, IsCommand
    <3>4. written \subseteq Names
      BY <3>2, <3>3
    <3>5. ASSUME command' = [Past(command) EXCEPT !.written = written]
          PROVE Onward
      <4> HIDE DEF written
      <4> QED BY <3>1, <3>3, <3>4, <3>5, PastCommand DEF Onward, TypeInv, IsCommand
    <3> QED BY <2>6, <3>5 DEF Retained
  <2>7. CASE End \/ TimesOut
    BY <2>7 DEF End, TimesOut, Raise
  <2>8. CASE Busy
    BY <2>1, <2>8 DEF Busy
  <2> QED BY <2>3, <2>4, <2>5, <2>6, <2>7, <2>8
<1>4. TypeInv' /\ PlansInv'
  BY <1>1, <1>3, CommandKept DEF TypeInv
<1>5. Recording
  BY <1>1 DEF Recording
<1>6. LossesInv'
  BY <1>2, <1>3, <1>5, RecordedWithin, RecordedEnd, RecordedOnward
<1> QED BY <1>4, <1>6

LEMMA FirstRequest ==
    ASSUME RequestsInv, queue # <<>>
    PROVE  /\ Head(queue).name \in Names /\ Allowed(Head(queue))
           /\ Tail(queue) \in Seq(Requests)
           /\ \A i \in 1..Len(Tail(queue)) : Allowed(Tail(queue)[i])
<1>1. queue \in Seq(Requests) /\ \A i \in 1..Len(queue) : Allowed(queue[i])
  BY DEF RequestsInv, SentInv
<1>2. Head(queue).name \in Names
  <2>1. Head(queue) \in Requests
    BY <1>1, HeadTailProperties
  <2> QED BY <2>1 DEF Requests
<1>3. Len(queue) \in Nat \ {0} /\ Head(queue) = queue[1]
  BY <1>1, EmptySeq
<1>4. 1 \in 1..Len(queue)
  <2>1. \A n \in Nat \ {0} : 1 \in 1..n
    OBVIOUS
  <2> QED BY <1>3, <2>1
<1>5. Allowed(Head(queue))
  BY <1>1, <1>3, <1>4
<1>6. /\ Tail(queue) \in Seq(Requests) /\ Len(Tail(queue)) = Len(queue) - 1
      /\ \A i \in 1..Len(Tail(queue)) : Tail(queue)[i] = queue[i + 1]
  BY <1>1, HeadTailProperties
<1>7. \A n \in Nat \ {0} : \A i \in 1..n-1 : i + 1 \in 1..n
  OBVIOUS
<1>8. \A i \in 1..Len(Tail(queue)) : Allowed(Tail(queue)[i])
  BY <1>1, <1>3, <1>6, <1>7
<1> QED BY <1>2, <1>5, <1>6, <1>8

\* Klipper, the operator, the user, and kills.
LEMMA OthersKept ==
    ASSUME TypeInv, PlansInv, LossesInv, RequestsInv,
           Execute \/ ExecuteFails \/ PowerCut \/ BoxChanges \/ Kill \/ Uninstall \/ UNCHANGED vars
           \/ (\E n \in Names : \E value \in ValuesOf(n) \ {"absent"} : OthersSave(n, value))
           \/ (\E state \in {"ready", "error", "shutdown"} : KlipperTurns(state))
    PROVE  TypeInv' /\ PlansInv' /\ LossesInv'
<1>1. UNCHANGED command => Within
  BY DEF Within, TypeInv
<1>2. command.phase = "wait" => ~AtExpect
  BY DEF TypeInv, AtExpect, SaveSteps
<1>3. ASSUME Recording, live' \in Valuations, disk' \in Valuations,
             Within \/ (Raise /\ (~AtExpect \/ promised' = {}))
      PROVE  TypeInv' /\ PlansInv' /\ LossesInv'
  <2>1. TypeInv' /\ PlansInv'
    BY <1>3, CommandKept DEF TypeInv, Recording
  <2> QED BY <1>3, <2>1, RecordedWithin, RecordedEnd
<1>4. live \in Valuations /\ disk \in Valuations
  BY DEF TypeInv
<1>5. CASE Execute
  <2>1. Within
    BY <1>1, <1>5 DEF Execute, Waited, Within, TypeInv, IsCommand, Phases
  <2>2. Head(queue).name \in Names
    BY <1>5, FirstRequest DEF Execute
  <2>3. live' \in Valuations /\ disk' \in Valuations
    BY <1>4, <1>5, <2>2, SavedTypes, ValueKinds DEF Execute
  <2>4. \A m \in Names : m # Head(queue).name => live'[m] = live[m]
    BY <1>4, <1>5, <2>2, SavedAlone DEF Execute
  <2>5. Recording
    <3>1. promised \subseteq Names /\ UNCHANGED <<restart, expected>>
      BY <1>5 DEF Execute, TypeInv
    <3>2. promised' = IF live' = live THEN promised ELSE promised \ {Head(queue).name}
      BY <1>5 DEF Execute
    <3> QED BY <2>4, <3>1, <3>2 DEF Recording
  <2> QED BY <1>3, <2>1, <2>3, <2>5
<1>6. CASE ExecuteFails
  <2>1. Within \/ (Raise /\ ~AtExpect)
    BY <1>1, <1>2, <1>6 DEF ExecuteFails, Waited
  <2> QED BY <1>3, <1>4, <1>6, <2>1 DEF ExecuteFails, Recording
<1>7. CASE PowerCut
  <2>1. promised' \subseteq promised /\ \A n \in promised' : live'[n] # "default"
    BY <1>7 DEF PowerCut, Recorded, Unloaded
  <2>2. ~AtExpect \/ promised' = {}
    BY <1>7 DEF PowerCut, Recorded, AtExpect
  <2>3. Raise /\ Recording
    BY <1>7, <2>1 DEF PowerCut, Raise, Recording
  <2>4. live' \in Valuations /\ disk' \in Valuations
    BY <1>4, <1>7 DEF PowerCut
  <2> QED BY <1>3, <2>2, <2>3, <2>4
<1>8. CASE BoxChanges
  BY <1>1, <1>3, <1>4, <1>8 DEF BoxChanges, Recording
<1>9. CASE Kill
  <2>1. ~AtExpect \/ promised' = {}
    BY <1>9 DEF Kill, AtExpect
  <2>2. Raise /\ Recording
    BY <1>9 DEF Kill, Recording
  <2> QED BY <1>3, <1>4, <1>9, <2>1, <2>2 DEF Kill
<1>10. CASE Uninstall
  <2>1. Within /\ restart' \in BOOLEAN /\ promised' = {}
    BY <1>1, <1>10 DEF Uninstall
  <2>2. TypeInv' /\ PlansInv'
    BY <1>4, <1>10, <2>1, CommandKept DEF Uninstall
  <2>3. command'.op = "none"
    BY <1>4, <1>10, IdleCommand DEF Uninstall
  <2> QED BY <2>1, <2>2, <2>3 DEF LossesInv, AtExpect
<1>11. CASE UNCHANGED vars
  BY <1>1, <1>3, <1>4, <1>11 DEF vars, Recording
<1>12. ASSUME NEW n \in Names, NEW value \in ValuesOf(n), OthersSave(n, value)
       PROVE  TypeInv' /\ PlansInv' /\ LossesInv'
  <2>1. live' \in Valuations /\ disk' \in Valuations
    BY <1>4, <1>12, SavedTypes DEF OthersSave
  <2>2. \A m \in Names : m # n => live'[m] = live[m]
    BY <1>4, <1>12, SavedAlone DEF OthersSave
  <2>3. Recording
    <3>1. promised \subseteq Names /\ UNCHANGED <<restart, expected>> /\ promised' = promised \ {n}
      BY <1>12 DEF OthersSave, TypeInv
    <3> QED BY <2>2, <3>1 DEF Recording
  <2> QED BY <1>1, <1>3, <1>12, <2>1, <2>3 DEF OthersSave
<1>13. ASSUME NEW state, KlipperTurns(state) PROVE TypeInv' /\ PlansInv' /\ LossesInv'
  <2>1. Within \/ (Raise /\ ~AtExpect)
    BY <1>1, <1>2, <1>13 DEF KlipperTurns
  <2> QED BY <1>3, <1>4, <1>13, <2>1 DEF KlipperTurns, Recording
<1> QED BY <1>5, <1>6, <1>7, <1>8, <1>9, <1>10, <1>11, <1>12, <1>13

-----------------------------------------------------------------------------
(* Requests.                                                                *)

LEMMA SentKept ==
    ASSUME RequestsInv,
           UNCHANGED queue \/ queue' = <<>> \/ (queue # <<>> /\ queue' = Tail(queue))
    PROVE  SentInv'
<1>1. CASE UNCHANGED queue
  BY <1>1 DEF RequestsInv, SentInv
<1>2. CASE queue' = <<>>
  BY <1>2 DEF SentInv
<1>3. CASE queue # <<>> /\ queue' = Tail(queue)
  BY <1>3, FirstRequest DEF SentInv
<1> QED BY <1>1, <1>2, <1>3

LEMMA ToSendKept ==
    ASSUME RequestsInv, UNCHANGED command \/ command'.phase = "detect" PROVE ToSendInv'
<1>1. CASE UNCHANGED command
  <2>1. Step' = Step /\ \A n : Request(n)' = Request(n)
    BY <1>1 DEF Step, Request
  <2> QED BY <1>1, <2>1 DEF RequestsInv, ToSendInv
<1> QED BY <1>1 DEF ToSendInv

\* What is found missing is not a value of the operator.
LEMMA DetectedMissing ==
    ASSUME live \in Valuations, Step \in SaveSteps
    PROVE  Decided(Step, Holding(Detected(Step)))
<1>1. DOMAIN Holding(Detected(Step)) = Detected(Step)
      /\ \A n \in Detected(Step) : Holding(Detected(Step))[n] = live[n]
  BY DEF Holding
<1>2. CASE Step = "keep"
  BY <1>1, <1>2 DEF Decided, Detected, KeepDefault
<1>3. CASE Step = "motion"
  <2>1. Detected(Step) = MotionDefaults
    BY <1>3 DEF Detected
  <2>2. ASSUME NEW n \in MotionDefaults PROVE n \in Motion /\ Replaceable(n, live[n], Holding(MotionDefaults))
    <3>1. CASE SavedNames \cap Motion # {}
      <4>1. /\ n \in Speeds /\ MotionDefaults = Speeds
            /\ \A m \in Speeds : Read(m) = "previous"
        BY <2>2, <3>1 DEF MotionDefaults, LoweredSpeeds
      <4>2. \A m \in Speeds : live[m] = "previous"
        BY <4>1 DEF Read
      <4>3. \A m \in Speeds :
               m \in DOMAIN Holding(MotionDefaults) /\ Holding(MotionDefaults)[m] = "previous"
        BY <4>1, <4>2 DEF Holding
      <4> QED BY <4>1, <4>3 DEF Replaceable, Motion
    <3>2. CASE SavedNames \cap Motion = {}
      <4>1. n \in Motion /\ n \in Names
        BY <2>2, <3>2 DEF MotionDefaults, Names
      <4>2. live[n] = "absent"
        BY <3>2, <4>1 DEF SavedNames
      <4> QED BY <4>1, <4>2 DEF Replaceable
    <3> QED BY <3>1, <3>2
  <2> QED BY <1>1, <1>3, <2>1, <2>2 DEF Decided
<1>4. CASE Step \in {"gaps", "reconcile"}
  <2>1. Detected(Step) \subseteq Tools
    BY <1>4 DEF Detected, Gaps
  <2> QED BY <1>1, <1>4, <2>1 DEF Decided
<1>5. CASE Asked(Step)
  BY <1>5 DEF Decided
<1> QED BY <1>2, <1>3, <1>4, <1>5 DEF SaveSteps, Asked

\* What is still missing when it is read again is not one either.
LEMMA ReadAllowed ==
    ASSUME TypeInv, Step \in SaveSteps, Decided(Step, command.want),
           NEW n \in StillWanted(Step, command.want)
    PROVE  /\ n \in DOMAIN command.want
           /\ Allowed([name |-> n, decided |-> command.want, seen |-> live[n],
                       asked |-> Asked(Step)])
<1>1. n \in DOMAIN command.want
  BY DEF StillWanted
<1>2. n \in Names
  BY <1>1 DEF TypeInv, IsCommand, Partial
<1> DEFINE request == [name |-> n, decided |-> command.want, seen |-> live[n],
                       asked |-> Asked(Step)]
<1>3. /\ request.name = n /\ request.decided = command.want /\ request.seen = live[n]
      /\ request.asked = Asked(Step)
  OBVIOUS
<1> HIDE DEF request
<1>4. ASSUME ~Asked(Step), n \in Motion => live[n] = command.want[n]
      PROVE  Replaceable(n, live[n], command.want)
  <2>1. CASE Step = "keep"
    <3>1. n = "keep" /\ Read(n) = "absent"
      BY <1>1, <1>4, <2>1 DEF Decided, Asked, StillWanted, MissingOnly
    <3> QED BY <3>1 DEF Read, Replaceable
  <2>2. CASE Step = "motion"
    <3>1. n \in Motion /\ Replaceable(n, command.want[n], command.want)
      BY <1>1, <1>4, <2>2 DEF Decided, Asked
    <3> QED BY <1>4, <3>1
  <2>3. CASE Step \in {"gaps", "reconcile"}
    <3>1. n \in Tools
      BY <1>1, <1>4, <2>3 DEF Decided, Asked
    <3>2. Read(n) \in {"absent", "empty"}
      BY <1>1, <2>3 DEF StillWanted, MissingOnly
    <3>3. live[n] \in {"absent", "none", "empty"}
      BY <3>2 DEF Read
    <3> QED BY <3>1, <3>3 DEF Replaceable
  <2> QED BY <1>4, <2>1, <2>2, <2>3 DEF SaveSteps, Asked
<1>5. Allowed(request)
  BY <1>2, <1>3, <1>4 DEF Allowed
<1> QED BY <1>1, <1>5 DEF request

\* The fields of a command that prepares and sends its requests.
LEMMA Phased ==
    ASSUME IsCommand(command), NEW want, NEW seen, NEW left
    PROVE  /\ LET c == [command EXCEPT !.phase = "read", !.want = want]
              IN  c.phase = "read" /\ c.want = want /\ c.todo = command.todo
           /\ LET c == [command EXCEPT !.phase = "send", !.left = left, !.seen = seen]
              IN  /\ c.phase = "send" /\ c.want = command.want /\ c.seen = seen
                  /\ c.left = left /\ c.todo = command.todo
           /\ LET c == [command EXCEPT !.phase = "wait", !.left = left]
              IN  /\ c.phase = "wait" /\ c.want = command.want /\ c.seen = command.seen
                  /\ c.left = left /\ c.todo = command.todo
           /\ LET c == [command EXCEPT !.phase = "send"]
              IN  /\ c.phase = "send" /\ c.want = command.want /\ c.seen = command.seen
                  /\ c.left = command.left /\ c.todo = command.todo
  BY DEF IsCommand

LEMMA SavesSafe ==
    ASSUME TypeInv, RequestsInv, Detect \/ ReadAgain \/ Send \/ Execute PROVE RequestsInv'
<1>1. IsCommand(command) /\ live \in Valuations
  BY DEF TypeInv
<1>2. Raise => command'.phase = "detect"
  BY RaiseEnds
<1>3. Advance /\ Step # "end" => command'.phase = "detect"
  BY AdvanceOnward DEF Onward
<1>4. CASE Detect
  <2>1. Step \in SaveSteps /\ Step # "end" /\ UNCHANGED queue
    BY <1>4 DEF Detect, SaveSteps
  <2>2. CASE command' = [command EXCEPT !.phase = "read", !.want = Holding(Detected(Step))]
    <3>1. /\ command'.phase = "read" /\ command'.want = Holding(Detected(Step))
          /\ command'.todo = command.todo
      BY <1>1, <2>2, Phased
    <3>2. Step' = Step
      BY <3>1 DEF Step
    <3>3. ToSendInv'
      BY <1>1, <2>1, <3>1, <3>2, DetectedMissing DEF ToSendInv
    <3> QED BY <2>1, <3>3, SentKept DEF RequestsInv
  <2>3. CASE Advance \/ Raise
    BY <1>2, <1>3, <2>1, <2>3, SentKept, ToSendKept DEF RequestsInv
  <2>4. CASE UNCHANGED command
    BY <2>1, <2>4, SentKept, ToSendKept DEF RequestsInv
  <2> QED BY <1>4, <2>2, <2>3, <2>4 DEF Detect, Unavailable
<1>5. CASE ReadAgain
  <2> DEFINE names == StillWanted(Step, command.want)
  <2>1. Step \in SaveSteps /\ Step # "end" /\ UNCHANGED queue /\ Decided(Step, command.want)
    BY <1>5 DEF ReadAgain, SaveSteps, TypeInv, RequestsInv, ToSendInv
  <2>2. CASE command' = [command EXCEPT !.phase = "send", !.left = names, !.seen = Holding(names)]
    <3>1. \A n \in names :
             /\ n \in DOMAIN command.want
             /\ Allowed([name |-> n, decided |-> command.want, seen |-> live[n],
                         asked |-> Asked(Step)])
      BY <2>1, ReadAllowed
    <3> HIDE DEF names
    <3>2. /\ command'.phase = "send" /\ command'.want = command.want /\ command'.left = names
          /\ command'.seen = Holding(names) /\ command'.todo = command.todo
      BY <1>1, <2>2, Phased
    <3>3. Step' = Step
      BY <3>2 DEF Step
    <3>4. DOMAIN Holding(names) = names /\ \A n \in names : Holding(names)[n] = live[n]
      BY DEF Holding
    <3>5. ASSUME NEW n \in names PROVE Allowed(Request(n))'
      <4>1. Request(n)' = [name |-> n, decided |-> command.want, seen |-> live[n],
                           asked |-> Asked(Step)]
        BY <3>2, <3>3, <3>4, <3>5 DEF Request, Asked
      <4> QED BY <3>1, <4>1 DEF Allowed
    <3>6. ToSendInv'
      BY <3>1, <3>2, <3>4, <3>5 DEF ToSendInv
    <3> QED BY <2>1, <3>6, SentKept DEF RequestsInv
  <2>3. CASE Advance \/ Raise
    BY <1>2, <1>3, <2>1, <2>3, SentKept, ToSendKept DEF RequestsInv
  <2> QED BY <1>5, <2>2, <2>3 DEF ReadAgain
<1>6. ASSUME command'.phase = "wait" \/ command'.phase = "send", command'.want = command.want,
             command'.seen = command.seen, command'.todo = command.todo,
             command'.left \subseteq command.left, command.phase \in {"send", "wait"}
      PROVE  ToSendInv'
  <2>1. Step' = Step
    BY <1>6 DEF Step
  <2>2. \A n : Request(n)' = Request(n)
    BY <1>6, <2>1 DEF Request, Asked
  <2>3. \A n : Allowed(Request(n))' <=> Allowed(Request(n))
    BY <2>2 DEF Allowed
  <2> QED BY <1>6, <2>3 DEF RequestsInv, ToSendInv
<1>7. CASE Send
  <2>1. PICK n \in command.left :
           IF klipper = "ready"
           THEN /\ queue' = Append(queue, Request(n))
                /\ command' = [command EXCEPT !.phase = "wait", !.left = @ \ {n}]
           ELSE Raise /\ UNCHANGED queue
    BY <1>7 DEF Send
  <2>2. CASE klipper = "ready"
    <3>1. n \in DOMAIN command.seen /\ n \in DOMAIN command.want /\ Allowed(Request(n))
      BY <1>7 DEF Send, RequestsInv, ToSendInv
    <3>2. Request(n) \in Requests
      <4>1. n \in Names /\ command.want \in Partial /\ command.seen[n] \in Values
        BY <1>1, <3>1 DEF IsCommand, Partial
      <4>2. Asked(Step) \in BOOLEAN
        BY DEF Asked
      <4> QED BY <4>1, <4>2 DEF Request, Requests
    <3>3. SentInv'
      <4>1. queue \in Seq(Requests) /\ \A i \in 1..Len(queue) : Allowed(queue[i])
        BY DEF RequestsInv, SentInv
      <4>2. queue' = Append(queue, Request(n))
        BY <2>1, <2>2
      <4> HIDE DEF Request, Requests
      <4>3. queue' \in Seq(Requests) /\ Len(queue') = Len(queue) + 1
        BY <3>2, <4>1, <4>2
      <4>4. \A i \in 1..Len(queue) : queue'[i] = queue[i]
        BY <3>2, <4>1, <4>2
      <4>5. queue'[Len(queue) + 1] = Request(n)
        BY <3>2, <4>1, <4>2
      <4>6. \A i \in 1..Len(queue') : Allowed(queue'[i])
        <5>1. Len(queue) \in Nat
          BY <4>1, LenProperties
        <5>2. \A m \in Nat : \A i \in 1..m+1 : i \in 1..m \/ i = m + 1
          OBVIOUS
        <5> QED BY <3>1, <4>1, <4>3, <4>4, <4>5, <5>1, <5>2
      <4> QED BY <4>3, <4>6 DEF SentInv
    <3>4. command' = [command EXCEPT !.phase = "wait", !.left = command.left \ {n}]
      BY <2>1, <2>2
    <3>5. /\ command'.phase = "wait" /\ command'.want = command.want
          /\ command'.seen = command.seen /\ command'.todo = command.todo
          /\ command'.left = command.left \ {n}
      BY <1>1, <3>4, Phased
    <3> QED BY <1>6, <1>7, <3>3, <3>5 DEF RequestsInv, Send
  <2>3. CASE Raise /\ UNCHANGED queue
    BY <1>2, <2>3, SentKept, ToSendKept DEF RequestsInv
  <2> QED BY <2>1, <2>2, <2>3
<1>8. CASE Execute
  <2>1. SentInv'
    BY <1>8, SentKept DEF Execute
  <2>2. CASE UNCHANGED command
    BY <2>1, <2>2, ToSendKept DEF RequestsInv
  <2>3. CASE Waited /\ command' = [command EXCEPT !.phase = "send"]
    <3>1. /\ command'.phase = "send" /\ command'.want = command.want
          /\ command'.seen = command.seen /\ command'.left = command.left
          /\ command'.todo = command.todo
      BY <1>1, <2>3, Phased
    <3> QED BY <1>6, <2>1, <2>3, <3>1 DEF RequestsInv, Waited
  <2> QED BY <1>8, <2>2, <2>3 DEF Execute
<1> QED BY <1>4, <1>5, <1>7, <1>8

LEMMA CommandsSafe ==
    ASSUME TypeInv, RequestsInv,
           Verify \/ Look \/ Commit \/ Expect \/ Activate \/ Revive \/ Retained \/ End
           \/ BeginInstall \/ BeginCheck
    PROVE  RequestsInv'
<1>1. Raise => command'.phase = "detect"
  BY RaiseEnds
<1>2. Advance /\ Step # "end" => command'.phase = "detect"
  BY AdvanceOnward DEF Onward
<1>3. live \in Valuations /\ IsCommand(command)
  BY DEF TypeInv
<1>4. Step \in {"pending", "verify", "look", "commit", "expect", "activate", "revive"}
      => command.phase = "detect"
  BY DEF TypeInv, SaveSteps
<1>5. UNCHANGED queue \/ queue' = <<>>
  BY DEF Verify, Look, Commit, Expect, Activate, Revive, Restarted, NotRestarted, Retained, End,
         BeginInstall, BeginCheck
<1>6. CASE Verify \/ Commit \/ Expect \/ Activate \/ Revive
  <2>1. Step # "end" /\ (Advance \/ Raise)
    BY <1>6 DEF Verify, Compare, Commit, Expect, Activate, Revive, Restarted, NotRestarted
  <2> QED BY <1>1, <1>2, <1>5, <2>1, SentKept, ToSendKept DEF RequestsInv
<1>7. CASE Look
  <2>1. command'.phase = "detect"
    BY <1>3, <1>4, <1>7 DEF Look, IsCommand
  <2> QED BY <1>5, <2>1, SentKept, ToSendKept DEF RequestsInv
<1>8. CASE Retained
  <2>1. command'.phase = "detect" \/ Raise
    <3>1. command.todo # <<>>
      BY <1>3, <1>8, AtStep DEF Retained, TypeInv, SaveSteps
    <3>2. IsCommand(Past(command)) /\ Past(command).phase = "detect"
      BY <1>3, <3>1, PastCommand
    <3> QED BY <1>8, <3>2 DEF Retained, IsCommand
  <2> QED BY <1>1, <1>5, <2>1, SentKept, ToSendKept DEF RequestsInv
<1>9. CASE End \/ BeginInstall \/ BeginCheck
  <2>1. command'.phase = "detect"
    <3>1. Idle.phase = "detect"
      BY DEF Idle
    <3>2. \A op, todo : [Idle EXCEPT !.op = op, !.todo = todo].phase = "detect"
      BY DEF Idle
    <3> QED BY <1>9, <3>1, <3>2 DEF End, BeginInstall, BeginCheck
  <2> QED BY <1>5, <2>1, SentKept, ToSendKept DEF RequestsInv
<1> QED BY <1>6, <1>7, <1>8, <1>9

LEMMA OthersSafe ==
    ASSUME TypeInv, RequestsInv,
           TimesOut \/ ExecuteFails \/ PowerCut \/ BoxChanges \/ Kill \/ Uninstall \/ Busy
           \/ UNCHANGED vars
           \/ (\E n \in Names : \E value \in ValuesOf(n) \ {"absent"} : OthersSave(n, value))
           \/ (\E state \in {"ready", "error", "shutdown"} : KlipperTurns(state))
    PROVE  RequestsInv'
<1>1. UNCHANGED command \/ Raise \/ (Advance /\ Step # "end")
  BY DEF TimesOut, ExecuteFails, PowerCut, BoxChanges, Kill, Uninstall, Busy, vars, OthersSave,
         KlipperTurns, Raise
<1>2. UNCHANGED queue \/ queue' = <<>> \/ (queue # <<>> /\ queue' = Tail(queue))
  BY DEF TimesOut, ExecuteFails, PowerCut, BoxChanges, Kill, Uninstall, Busy, vars, OthersSave,
         KlipperTurns
<1>3. Advance /\ Step # "end" => command'.phase = "detect"
  BY AdvanceOnward DEF Onward
<1> QED BY <1>1, <1>2, <1>3, RaiseEnds, SentKept, ToSendKept DEF RequestsInv

-----------------------------------------------------------------------------
(* The invariant and what follows from it.                                  *)

Inv == TypeInv /\ PlansInv /\ LossesInv /\ RequestsInv

LEMMA InvInit == Init => Inv
<1> SUFFICES ASSUME Init PROVE Inv
  OBVIOUS
<1>1. live \in Valuations /\ disk \in Valuations
  BY InitialAssumption DEF Init
<1>2. /\ IsCommand(command) /\ command.op = "none" /\ command.todo = <<>>
      /\ command.phase = "detect"
  BY <1>1, IdleCommand DEF Init
<1>3. TypeInv
  BY <1>1, <1>2 DEF Init, TypeInv
<1>4. PlansInv
  BY <1>2 DEF PlansInv
<1>5. LossesInv
  BY <1>2 DEF Init, LossesInv
<1>6. RequestsInv
  BY <1>2 DEF Init, RequestsInv, SentInv, ToSendInv
<1> QED BY <1>3, <1>4, <1>5, <1>6 DEF Inv

LEMMA InvKept == Inv /\ [Next]_vars => Inv'
<1> SUFFICES ASSUME Inv, [Next]_vars PROVE Inv'
  OBVIOUS
<1>1. TypeInv /\ PlansInv /\ LossesInv /\ RequestsInv
  BY DEF Inv
<1>2. TypeInv' /\ PlansInv' /\ LossesInv'
  BY <1>1, BeginKept, VerifyKept, InstallKept, RestartKept, SaveKept, OthersKept
     DEF Next, CommandStep, Others
<1>3. RequestsInv'
  BY <1>1, SavesSafe, CommandsSafe, OthersSafe DEF Next, CommandStep, Others
<1> QED BY <1>2, <1>3 DEF Inv

LEMMA InvAlways == Spec => []Inv
  BY InvInit, InvKept, PTL DEF Spec

\* An update check goes on to the variables only when nothing an install wrote
\* before a restart is missing.
THEOREM LossesAlwaysStopUpdates == Spec => []LossesStopUpdates
<1>1. ASSUME Inv, command.op = "check", Step \in {"keep", "motion", "gaps"} PROVE promised = {}
  <2>1. command.todo \in Seq(Steps) /\ command.todo # <<>> /\ Step = command.todo[1]
        /\ RestOf(CheckPlan, command.todo)
    BY <1>1, AtStep DEF Inv, TypeInv, IsCommand, PlansInv
  <2>2. PICK k \in Nat : Len(CheckPlan) = k + Len(command.todo) /\ command.todo[1] = CheckPlan[k + 1]
    <3>1. CheckPlan \in Seq(Steps)
      BY ThePlans
    <3> QED BY <2>1, <3>1, RestTail
  <2>3. Len(command.todo) \in Nat \ {0}
    BY <2>1, EmptySeq
  <2> DEFINE length == Len(command.todo)
  <2>4. length \in Nat \ {0} /\ 7 = k + length
    BY <2>2, <2>3, ThePlans
  <2> HIDE DEF length
  <2>5. /\ k = 0 \/ k = 1 \/ k = 2 \/ k = 3 \/ k = 4 \/ k = 5 \/ k = 6
        /\ k # 0 /\ k # 1 /\ k # 2 /\ k # 3 => length <= 3
    BY <2>4
  <2>6. k # 0 /\ k # 1 /\ k # 2 /\ k # 3
    BY <1>1, <2>1, <2>2, ThePlans
  <2>7. Len(command.todo) <= 3
    BY <2>5, <2>6 DEF length
  <2> QED BY <1>1, <2>7 DEF Inv, LossesInv
<1>2. Inv => LossesStopUpdates
  BY <1>1 DEF LossesStopUpdates
<1> QED BY <1>2, InvAlways, PTL

\* A request replaces a value of the operator only if the operator agreed or the
\* value came after the installer's last reading.
THEOREM OperatorValuesAreKept == Spec => OperatorValuesKept
<1>1. Inv /\ [Next]_vars =>
         [(Execute /\ StillAsRead(Head(queue)) /\ ~Head(queue).asked) =>
             \A n \in Names : live'[n] # live[n] =>
                Replaceable(n, live[n], Head(queue).decided)]_vars
  <2> SUFFICES ASSUME Inv, Execute, StillAsRead(Head(queue)), ~Head(queue).asked,
                      NEW n \in Names, live'[n] # live[n]
               PROVE  Replaceable(n, live[n], Head(queue).decided)
    OBVIOUS
  <2>1. Head(queue).name \in Names /\ Allowed(Head(queue))
    BY FirstRequest DEF Execute, Inv
  <2>2. n = Head(queue).name
    BY <2>1, SavedAlone DEF Execute, Inv, TypeInv
  <2>3. live[n] = Head(queue).seen /\ (n \in Motion => Head(queue).seen = Head(queue).decided[n])
    BY <2>2 DEF StillAsRead
  <2> QED BY <2>1, <2>2, <2>3 DEF Allowed
<1> QED BY <1>1, InvAlways, PTL DEF Spec, OperatorValuesKept
=============================================================================
