---------------------------- MODULE BoxFeedMotion ----------------------------
(***************************************************************************)
(* klipper/tltg/box_feed_motion.py: the settings of the QIDI Box's load    *)
(* and unload motion, global and per slot, the command that changes them   *)
(* in Klipper's saved variables, the wrappers of the vendor's motion calls *)
(* that lay them over the vendor's arguments, and the published status.    *)
(* A command runs without a pause, but each of its saves may fail.         *)
(***************************************************************************)
EXTENDS FeedProfiles, FiniteSets

CONSTANTS
    Slots,          \* numbers of the Box slots
    Choices,        \* the values a command gives a key, Unset where it clears it
    HandSaves,      \* pairs of a name and a value that users save without the command
    LoadCalls,      \* the arguments the vendor's loads, unloads and lookups of the
    UnloadCalls,    \*   extruder's retract length may carry
    RetractCalls,
    MaxChanges,     \* bound on the settings one command names
    MaxEvents,      \* bound on the operators' commands, hand-made saves, failed saves and restarts
    Unset           \* the value of a variable that is absent or saved as None

Global == -1
Places == Slots \cup {Global}
Names == (Places \X SlotKeys) \cup ({Global} \X GlobalOnly)

ASSUME MotionAssumption ==
    /\ Slots \subseteq Nat /\ {MaxChanges, MaxEvents} \subseteq Nat
    /\ DOMAIN Choices \subseteq Keys
    /\ \A key \in DOMAIN Choices : Choices[key] \subseteq Limits[key] \cup {Unset}
    /\ \A save \in HandSaves : save[1] \in Names /\ save[2] \in Int \cup {Unset}
    /\ LoadCalls \subseteq LoadArguments /\ UnloadCalls \subseteq UnloadArguments
    /\ RetractCalls \subseteq Int
    /\ Unset \notin Int

Baseline == [load |-> [l1 |-> 550, l2 |-> 380, l3 |-> 240, v1 |-> 85, v2 |-> 65, v3 |-> 10, accel |-> 100],
             unload |-> [l1 |-> -350, l2 |-> -1150, v1 |-> 65, v2 |-> 85, accel |-> 100], retract |-> 120]

VARIABLES
    variables,      \* per place and key: the saved value
    vendor,         \* the vendor arguments last seen, which checks and status assume
    cache,          \* the cached status, or NoCache
    answer,         \* what the last step answered: "changed", "cleared" when the command
                    \*   only cleared overrides of a slot, "none" when it changed nothing or failed
    events

vars == <<variables, vendor, cache, answer, events>>

NoCache == [of |-> "none"]

-----------------------------------------------------------------------------
(* Settings and profiles.                                                   *)

Overrides(saved, slot) == {key \in SlotKeys : saved[<<slot, key>>] # Unset}

\* Where a slot reads a setting: its override, then the global setting.
Raw(saved, place, key) ==
    IF place # Global /\ key \in SlotKeys /\ saved[<<place, key>>] # Unset
    THEN saved[<<place, key>>] ELSE saved[<<Global, key>>]

Parsed(saved, place, keys) ==
    [key \in {k \in keys : Raw(saved, place, k) # Unset} |-> Raw(saved, place, key)]

InRange(settings) == \A key \in DOMAIN settings : settings[key] \in Limits[key]

\* The settings a place uses can run on the vendor's planner.
LoadRuns(saved, place, v) ==
    LET settings == Parsed(saved, place, LoadKeys) IN InRange(settings) /\ LoadFits(v, settings)
UnloadRuns(saved, place, v) ==
    LET settings == Parsed(saved, place, UnloadKeys) IN InRange(settings) /\ UnloadFits(v, settings)
RetractRuns(saved) == InRange(Parsed(saved, Global, GlobalOnly))

CheckSettings(saved, place) ==
    /\ LoadRuns(saved, place, vendor.load)
    /\ UnloadRuns(saved, place, vendor.unload)
    /\ RetractRuns(saved)

\* What the next motion of a place uses: the vendor's whole profile on an error.
PlanLoad(saved, place, v) ==
    IF LoadRuns(saved, place, v) THEN LoadProfile(v, Parsed(saved, place, LoadKeys)) ELSE v
PlanUnload(saved, place, v) ==
    IF UnloadRuns(saved, place, v) THEN UnloadProfile(v, Parsed(saved, place, UnloadKeys)) ELSE v

-----------------------------------------------------------------------------
(* Status.                                                                  *)

Motion(saved, place, seen) ==
    [overrides |-> IF place = Global THEN {} ELSE Overrides(saved, place),
     load |-> PlanLoad(saved, place, seen.load), loadRuns |-> LoadRuns(saved, place, seen.load),
     unload |-> PlanUnload(saved, place, seen.unload), unloadRuns |-> UnloadRuns(saved, place, seen.unload)]

Status(saved, seen) ==
    [of |-> "status", vendor |-> seen, settings |-> [key \in Keys |-> saved[<<Global, key>>]],
     retract |-> RetractRuns(saved), motion |-> [place \in Places |-> Motion(saved, place, seen)]]

GetStatus ==
    /\ cache = NoCache
    /\ cache' = Status(variables, vendor)
    /\ answer' = "none"
    /\ UNCHANGED <<variables, vendor, events>>

-----------------------------------------------------------------------------
(* Saved variables.  Every save replaces the dictionary that the cached     *)
(* status was built from, so that status is not served again; a save of the *)
(* value that is there changes nothing.                                     *)

SaveVariables(saved) ==
    /\ variables' = saved
    /\ cache' = IF saved = variables THEN cache ELSE NoCache

\* Names are saved in their sorted order, a global one before its overrides.
KeyOrder == <<"load_accel", "approach_speed", "fast_length", "fast_speed_1", "fast_speed_2", "unload_accel",
              "unload_extruder_length", "unload_speed_1", "unload_speed_2">>
Rank == [key \in Keys |-> CHOOSE i \in DOMAIN KeyOrder : KeyOrder[i] = key]
Precedes(m, n) == Rank[m[2]] < Rank[n[2]] \/ (m[2] = n[2] /\ m[1] < n[1])

Updated(changes) == [name \in Names |-> IF name \in DOMAIN changes THEN changes[name] ELSE variables[name]]

\* The names whose saved value a command has to change.
Effective(changes) == {name \in DOMAIN changes : variables[name] # changes[name]}

\* A user saves one of these variables with Klipper's own command, any value.
SaveByHand(save) ==
    /\ events < MaxEvents
    /\ events' = events + 1
    /\ SaveVariables([variables EXCEPT ![save[1]] = save[2]])
    /\ answer' = "none"
    /\ UNCHANGED vendor

-----------------------------------------------------------------------------
(* The command TLTG_BOX_MOTION.                                             *)

\* RESET=1 clears the settings of the place, and globally those of every slot.
ResetNames(place) == IF place = Global THEN Names ELSE {place} \X SlotKeys
Changes(place, reset, given) ==
    LET named == {place} \X DOMAIN given
        cleared == IF reset THEN ResetNames(place) ELSE {}
    IN [name \in named \cup cleared |-> IF name \in named THEN given[name[2]] ELSE Unset]

Clearing(changes) == \A name \in DOMAIN changes : changes[name] = Unset

Givens == UNION {{given \in [keys -> UNION {Choices[key] : key \in keys}] :
                    \A key \in keys : given[key] \in Choices[key]}
                 : keys \in {k \in SUBSET DOMAIN Choices : Cardinality(k) <= MaxChanges}}

\* As a bug would have it: the slots that override something are forgotten.
TargetsGlobal(place, changes) ==
    IF place = Global THEN {Global} ELSE IF Clearing(changes) THEN {} ELSE {place}

\* The profiles a change must leave able to run.
Targets(place, changes) ==
    LET after == Updated(changes) IN
    IF place = Global
    THEN {Global} \cup {s \in Slots : Overrides(after, s) # {} /\ CheckSettings(variables, s)}
    ELSE IF Clearing(changes) THEN {} ELSE {place}

Accepted(place, changes) == \A target \in Targets(place, changes) : CheckSettings(Updated(changes), target)

SaveAll(place, changes) ==
    /\ SaveVariables(Updated(changes))
    /\ answer' = IF place # Global /\ Clearing(changes) THEN "cleared" ELSE "changed"

\* The save of one name fails, after those before it were saved.
SaveSome(changes) ==
    \E failed \in Effective(changes) :
        LET done == {name \in Effective(changes) : Precedes(name, failed)} IN
        /\ SaveVariables([name \in Names |-> IF name \in done THEN changes[name] ELSE variables[name]])
        /\ answer' = "none"

Refuse == UNCHANGED <<variables, cache>> /\ answer' = "none"

Command(place, reset, given) ==
    LET changes == Changes(place, reset, given) IN
    /\ events < MaxEvents
    /\ place # Global => DOMAIN given \cap GlobalOnly = {}
    /\ DOMAIN changes # {}
    /\ IF Accepted(place, changes) THEN SaveAll(place, changes) \/ SaveSome(changes) ELSE Refuse
    /\ events' = events + 1
    /\ UNCHANGED vendor

-----------------------------------------------------------------------------
(* The wrapped vendor motion.                                               *)

\* As a bug would have it: the status built with the old arguments is kept.
ObserveSilently(kind, arguments) == vendor' = [vendor EXCEPT ![kind] = arguments] /\ UNCHANGED cache

\* The arguments become the baseline of the checks and the status.
Observe(kind, arguments) ==
    IF vendor[kind] = arguments THEN UNCHANGED <<vendor, cache>>
    ELSE vendor' = [vendor EXCEPT ![kind] = arguments] /\ cache' = NoCache

\* What the vendor's method is called with, for what it would have been.
LoadRun(slot, call) == IF PlausibleLoad(call) THEN PlanLoad(variables, slot, call) ELSE call
UnloadRun(slot, call) == IF PlausibleUnload(call) THEN PlanUnload(variables, slot, call) ELSE call

Load(call) ==
    /\ PlausibleLoad(call)
    /\ Observe("load", call)
    /\ answer' = "none"
    /\ UNCHANGED <<variables, events>>

Unload(call) ==
    /\ PlausibleUnload(call)
    /\ Observe("unload", call)
    /\ answer' = "none"
    /\ UNCHANGED <<variables, events>>

\* The length of the unload's second retract, which the vendor looks up.
PlausibleRetract(length) == length \in 1 .. 1000
RetractRun(length) ==
    IF PlausibleRetract(length) /\ RetractRuns(variables)
    THEN Setting(Parsed(variables, Global, GlobalOnly), "unload_extruder_length", length) ELSE length

Lookup(length) ==
    /\ PlausibleRetract(length)
    /\ Observe("retract", length)
    /\ answer' = "none"
    /\ UNCHANGED <<variables, events>>

\* Klipper restarts: the file is what memory held, the arguments seen are forgotten.
Restart ==
    /\ events < MaxEvents
    /\ events' = events + 1
    /\ vendor' = Baseline /\ cache' = NoCache /\ answer' = "none"
    /\ UNCHANGED variables

-----------------------------------------------------------------------------
Init ==
    /\ variables = [name \in Names |-> Unset]
    /\ vendor = Baseline /\ cache = NoCache /\ answer = "none" /\ events = 0

Next ==
    \/ \E place \in Places, reset \in BOOLEAN, given \in Givens : Command(place, reset, given)
    \/ \E save \in HandSaves : SaveByHand(save)
    \/ \E call \in LoadCalls : Load(call)
    \/ \E call \in UnloadCalls : Unload(call)
    \/ \E length \in RetractCalls : Lookup(length)
    \/ GetStatus
    \/ Restart

Spec == Init /\ [][Next]_vars
=============================================================================
