----------------------------- MODULE MotionProofs -----------------------------
(***************************************************************************)
(* Proofs about the feed motion of the Box, for any slots, settings and    *)
(* vendor arguments: the motion that runs is feasible, the status served   *)
(* is current, and a completed change takes no running profile away.       *)
(***************************************************************************)
EXTENDS MotionProperties, TLAPS

-----------------------------------------------------------------------------
(* Arithmetic.                                                              *)

\* Rounded up to whole millimetres, a distance is long enough.
LEMMA CeilingCovers ==
    ASSUME NEW n \in Nat, NEW a \in Nat, a > 0
    PROVE Ceiling(n, a) \in Int /\ Ceiling(n, a) * 2 * a >= n
<1> DEFINE d == 2 * a
           m == n + d - 1
           q == m \div d
<1>1. d \in Nat /\ d > 0 /\ m \in Nat
  OBVIOUS
<1> HIDE DEF d
<1>2. q \in Int /\ m % d \in 0 .. (d - 1) /\ m = d * q + (m % d)
  <2>1. m \in Int /\ d \in Int /\ d > 0
    BY <1>1
  <2> HIDE DEF m
  <2> QED BY <2>1
<1>3. d * q >= n
  BY <1>1, <1>2
<1>4. q * 2 * a = d * q
  BY <1>2 DEF d
<1> QED BY <1>2, <1>3, <1>4 DEF Ceiling, d

\* A longer distance holds what a shorter one held.
LEMMA Longer ==
    ASSUME NEW x \in Int, NEW y \in Int, NEW a \in Nat, x >= y
    PROVE x * 2 * a >= y * 2 * a
<1>1. (x - y) * a >= 0
  OBVIOUS
<1> QED BY <1>1

\* The distance of a change of speed is a natural number.
LEMMA ChangeIsNat == \A a, b \in Int : Change(a, b) \in Nat
  BY DEF Change, Abs

\* Every value that a setting may have is positive.
LEMMA LimitsPositive ==
    ASSUME NEW key \in Keys, NEW n, n \in Limits[key]
    PROVE n \in Nat /\ n > 0
<1>1. CASE key = "fast_length"
  <2>1. Limits[key] = 100 .. 2000
    BY <1>1 DEF Limits
  <2>2. n \in 100 .. 2000
    BY <2>1
  <2> QED BY <2>2
<1>2. CASE key \in {"fast_speed_1", "fast_speed_2", "unload_speed_1", "unload_speed_2"}
  <2>1. Limits[key] = 10 .. 150
    BY <1>2 DEF Limits
  <2> QED BY <2>1
<1>3. CASE key = "approach_speed"
  <2>1. Limits[key] = 2 .. 40
    BY <1>3 DEF Limits
  <2> QED BY <2>1
<1>4. CASE key \in {"load_accel", "unload_accel"}
  <2>1. Limits[key] = 20 .. 400
    BY <1>4 DEF Limits
  <2> QED BY <2>1
<1>5. CASE key = "unload_extruder_length"
  <2>1. Limits[key] = 20 .. 300
    BY <1>5 DEF Limits
  <2> QED BY <2>1
<1> QED BY <1>1, <1>2, <1>3, <1>4, <1>5 DEF Keys, SlotKeys, LoadKeys, UnloadKeys, GlobalOnly

-----------------------------------------------------------------------------
(* The motion that runs.                                                    *)

\* Settings that fit a plausible load make a feasible load of it.
LEMMA LoadProfileFeasible ==
    ASSUME NEW v, v \in LoadArguments, PlausibleLoad(v),
           NEW s, DOMAIN s # {}, DOMAIN s \subseteq LoadKeys, InRange(s), LoadFits(v, s)
    PROVE LoadFeasible(v, LoadProfile(v, s))
<1> DEFINE p == LoadLengths(v, s)
           l == Laid(v, s)
           fast == FastLength(v, s)
<1>1. \A key \in DOMAIN s : s[key] \in Nat /\ s[key] > 0
  <2>1. ASSUME NEW key \in DOMAIN s
        PROVE s[key] \in Nat /\ s[key] > 0
    <3>1. key \in Keys /\ s[key] \in Limits[key]
      BY DEF InRange, Keys, SlotKeys
    <3> QED BY <3>1, LimitsPositive
  <2> QED BY <2>1
<1>2. /\ l.v1 \in Nat /\ l.v2 \in Nat /\ l.v3 \in Nat /\ l.accel \in Nat
      /\ l.v3 > 0 /\ l.accel > 0
      /\ fast \in Int
  <2>1. /\ v.v1 \in Nat /\ v.v2 \in Nat /\ v.v3 \in Nat /\ v.accel \in Nat
        /\ v.v3 > 0 /\ v.accel > 0 /\ v.l1 + v.l2 \in Int
    <3>1. /\ v.l1 \in Int /\ v.l2 \in Int /\ v.v1 \in Int /\ v.v2 \in Int
          /\ v.v3 \in Int /\ v.accel \in Int
      BY DEF LoadArguments
    <3>2. 0 < v.v3 /\ v.v3 < Least(v.v1, v.v2) /\ v.accel \in 10 .. 2000
      BY DEF PlausibleLoad
    <3>3. v.v3 < v.v1 /\ v.v3 < v.v2
      BY <3>1, <3>2 DEF Least
    <3>4. v.accel \in 10 .. 2000
      BY <3>2
    <3>5. v.accel > 0
      BY <3>1, <3>4
    <3> QED BY <3>1, <3>2, <3>3, <3>5
  <2>2. \A key, default : Setting(s, key, default) = default \/ (Setting(s, key, default) \in Nat
                                                              /\ Setting(s, key, default) > 0)
    BY <1>1 DEF Setting
  <2>3. /\ l.v1 = Setting(s, "fast_speed_1", v.v1) /\ l.v2 = Setting(s, "fast_speed_2", v.v2)
        /\ l.v3 = Setting(s, "approach_speed", v.v3) /\ l.accel = Setting(s, "load_accel", v.accel)
    BY DEF Laid, LoadArguments
  <2> HIDE DEF l
  <2> QED BY <2>1, <2>2, <2>3 DEF FastLength
<1>3. /\ p.v1 = l.v1 /\ p.v2 = l.v2 /\ p.v3 = l.v3 /\ p.accel = l.accel
      /\ p.l2 = Least(v.l2, fast - Ceiling(l.v1 * l.v1, l.accel))
      /\ p.l1 = fast - p.l2
      /\ p.l3 = v.l3 + Greatest(0, v.l1 + v.l2 - fast)
  BY DEF LoadLengths, Laid, FastLength, LoadArguments
<1> HIDE DEF p, l, fast
<1>4. PICK c \in Int : c = Ceiling(l.v1 * l.v1, l.accel) /\ c * 2 * l.accel >= l.v1 * l.v1
  <2>1. l.v1 * l.v1 \in Nat
    BY <1>2
  <2> QED BY <1>2, <2>1, CeilingCovers
<1>5. PICK e \in Nat : e = Change(l.v1, l.v2) + Change(l.v2, l.v3)
  <2> l.v1 \in Int /\ l.v2 \in Int /\ l.v3 \in Int
    BY <1>2
  <2>1. Change(l.v1, l.v2) \in Nat /\ Change(l.v2, l.v3) \in Nat
    BY ChangeIsNat, Zenon
  <2> QED BY <2>1
<1>6. PICK d \in Int : d = Ceiling(e, l.accel) /\ d * 2 * l.accel >= e
  BY <1>2, <1>5, CeilingCovers
<1>7. p.v3 < Least(p.v1, p.v2) /\ p.l2 >= d
  BY <1>3, <1>5, <1>6 DEF LoadFits, p
<1>8. p.l2 \in Int /\ p.l1 \in Int /\ p.l2 <= v.l2 /\ p.l1 >= c
  BY <1>2, <1>3, <1>4 DEF Least, LoadArguments
<1>9. p.l1 * 2 * l.accel >= l.v1 * l.v1
  <2>1. p.l1 * 2 * l.accel >= c * 2 * l.accel
    BY <1>2, <1>8, Longer
  <2> QED BY <2>1, <1>2, <1>4, <1>8
<1>10. p.l2 * 2 * l.accel >= e
  <2>1. p.l2 * 2 * l.accel >= d * 2 * l.accel
    BY <1>2, <1>6, <1>7, <1>8, Longer
  <2> QED BY <2>1, <1>2, <1>5, <1>6, <1>8
<1>11. p.l1 + p.l2 + p.l3 >= v.l1 + v.l2 + v.l3
  BY <1>2, <1>3, <1>8 DEF Greatest, LoadArguments
<1>12. 0 < p.v3 /\ p.v3 < p.v1 /\ p.v3 < p.v2
  BY <1>2, <1>3, <1>7 DEF Least
<1>13. LoadFeasible(v, p)
  BY <1>3, <1>5, <1>8, <1>9, <1>10, <1>11, <1>12 DEF LoadFeasible
<1> QED BY <1>13 DEF LoadProfile, p

\* Settings that fit an unload make a feasible unload of it.
LEMMA UnloadProfileFeasible ==
    ASSUME NEW v, v \in UnloadArguments, NEW s, DOMAIN s # {}, UnloadFits(v, s)
    PROVE UnloadFeasible(v, UnloadProfile(v, s))
  BY DEF UnloadFits, UnloadProfile, UnloadFeasible, UnloadArguments

\* What is parsed for some keys has a domain among them.
LEMMA ParsedDomain == \A saved, place, keys : DOMAIN Parsed(saved, place, keys) \subseteq keys
  BY DEF Parsed

\* In every state, the motion that a call would run is the vendor's or can run.
LEMMA MotionFeasible == FeasibleMotion
<1>1. ASSUME NEW slot \in Slots, NEW call \in LoadCalls
      PROVE LoadRun(slot, call) = call \/ LoadFeasible(call, LoadRun(slot, call))
  <2> DEFINE s == Parsed(variables, slot, LoadKeys)
  <2>1. call \in LoadArguments
    BY MotionAssumption
  <2>2. CASE PlausibleLoad(call) /\ InRange(s) /\ LoadFits(call, s) /\ DOMAIN s # {}
    <3>1. LoadRun(slot, call) = LoadProfile(call, s)
      BY <2>2 DEF LoadRun, PlanLoad, LoadRuns
    <3>2. DOMAIN s \subseteq LoadKeys
      BY ParsedDomain
    <3> HIDE DEF s
    <3> QED BY <2>1, <2>2, <3>1, <3>2, LoadProfileFeasible
  <2>3. CASE ~(PlausibleLoad(call) /\ InRange(s) /\ LoadFits(call, s) /\ DOMAIN s # {})
    BY <2>3 DEF LoadRun, PlanLoad, LoadRuns, LoadProfile
  <2> QED BY <2>2, <2>3
<1>2. ASSUME NEW slot \in Slots, NEW call \in UnloadCalls
      PROVE UnloadRun(slot, call) = call \/ UnloadFeasible(call, UnloadRun(slot, call))
  <2> DEFINE s == Parsed(variables, slot, UnloadKeys)
  <2>1. call \in UnloadArguments
    BY MotionAssumption
  <2>2. CASE PlausibleUnload(call) /\ InRange(s) /\ UnloadFits(call, s) /\ DOMAIN s # {}
    <3>1. UnloadRun(slot, call) = UnloadProfile(call, s)
      BY <2>2 DEF UnloadRun, PlanUnload, UnloadRuns
    <3> HIDE DEF s
    <3> QED BY <2>1, <2>2, <3>1, UnloadProfileFeasible
  <2>3. CASE DOMAIN s = {}
    <3>1. UnloadProfile(call, s) = call
      BY <2>1, <2>3 DEF UnloadProfile, Setting, UnloadArguments
    <3> QED BY <3>1 DEF UnloadRun, PlanUnload
  <2>4. CASE ~(PlausibleUnload(call) /\ InRange(s) /\ UnloadFits(call, s))
    BY <2>4 DEF UnloadRun, PlanUnload, UnloadRuns
  <2> QED BY <2>2, <2>3, <2>4
<1>3. ASSUME NEW length \in RetractCalls
      PROVE RetractRun(length) = length \/ RetractRun(length) \in Limits["unload_extruder_length"]
  BY DEF RetractRun, RetractRuns, InRange, Setting
<1> QED BY <1>1, <1>2, <1>3 DEF FeasibleMotion

\* Whatever is saved and whatever the vendor calls with, the motion that runs
\* is the vendor's own or can run.
THEOREM MotionIsFeasible == Spec => []FeasibleMotion
  BY MotionFeasible, PTL

-----------------------------------------------------------------------------
(* The cached status.                                                       *)

\* A cache that every save and every new argument drops is current.
LEMMA ServedKept == ServedIsCurrent /\ [Next]_vars => ServedIsCurrent'
<1> SUFFICES ASSUME ServedIsCurrent, [Next]_vars PROVE ServedIsCurrent'
  OBVIOUS
<1>1. ASSUME NEW saved, SaveVariables(saved), vendor' = vendor PROVE ServedIsCurrent'
  BY <1>1 DEF SaveVariables, ServedIsCurrent
<1>2. ASSUME NEW kind, NEW arguments, Observe(kind, arguments), variables' = variables PROVE ServedIsCurrent'
  BY <1>2 DEF Observe, ServedIsCurrent
<1>3. ASSUME NEW place \in Places, NEW reset \in BOOLEAN, NEW given \in Givens, Command(place, reset, given)
      PROVE ServedIsCurrent'
  <2>1. vendor' = vendor
    BY <1>3 DEF Command
  <2>2. PICK changes : SaveAll(place, changes) \/ SaveSome(changes) \/ Refuse
    BY <1>3 DEF Command
  <2>3. CASE SaveAll(place, changes)
    BY <1>1, <2>1, <2>3 DEF SaveAll
  <2>4. CASE SaveSome(changes)
    BY <1>1, <2>1, <2>4 DEF SaveSome
  <2>5. CASE Refuse
    BY <2>1, <2>5 DEF Refuse, ServedIsCurrent
  <2> QED BY <2>2, <2>3, <2>4, <2>5
<1>4. ASSUME NEW save \in HandSaves, SaveByHand(save) PROVE ServedIsCurrent'
  BY <1>1, <1>4 DEF SaveByHand
<1>5. ASSUME NEW call, Load(call) \/ Unload(call) \/ Lookup(call) PROVE ServedIsCurrent'
  BY <1>2, <1>5 DEF Load, Unload, Lookup
<1>6. CASE GetStatus
  BY <1>6 DEF GetStatus, ServedIsCurrent
<1>7. CASE Restart
  BY <1>7 DEF Restart, ServedIsCurrent
<1>8. CASE UNCHANGED vars
  BY <1>8 DEF vars, ServedIsCurrent
<1> QED BY <1>3, <1>4, <1>5, <1>6, <1>7, <1>8 DEF Next

\* The status that is served is the one the settings and arguments have now.
THEOREM StatusIsCurrent == Spec => []ServedIsCurrent
<1>1. Init => ServedIsCurrent
  BY DEF Init, ServedIsCurrent
<1> QED BY <1>1, ServedKept, PTL DEF Spec

-----------------------------------------------------------------------------
(* Changes.                                                                 *)

\* Two places that read the same settings run alike.
LEMMA SameSettings ==
    ASSUME NEW old, NEW new, NEW p, NEW q,
           \A key \in Keys : Raw(old, p, key) = Raw(new, q, key),
           \A key \in GlobalOnly : Raw(old, Global, key) = Raw(new, Global, key)
    PROVE CheckSettings(old, p) = CheckSettings(new, q)
<1>1. ASSUME NEW keys \in SUBSET Keys
      PROVE Parsed(old, p, keys) = Parsed(new, q, keys)
  <2>1. {k \in keys : Raw(old, p, k) # Unset} = {k \in keys : Raw(new, q, k) # Unset}
    OBVIOUS
  <2>2. \A key \in keys : Raw(old, p, key) = Raw(new, q, key)
    OBVIOUS
  <2> QED BY <2>1, <2>2 DEF Parsed
<1>2. Parsed(old, Global, GlobalOnly) = Parsed(new, Global, GlobalOnly)
  BY DEF Parsed
<1>3. LoadKeys \in SUBSET Keys /\ UnloadKeys \in SUBSET Keys
  BY DEF Keys, SlotKeys
<1>4. Parsed(old, p, LoadKeys) = Parsed(new, q, LoadKeys) /\ Parsed(old, p, UnloadKeys) = Parsed(new, q, UnloadKeys)
  BY <1>1, <1>3
<1> QED BY <1>2, <1>4 DEF CheckSettings, LoadRuns, UnloadRuns, RetractRuns

\* A slot without overrides reads the global settings.
LEMMA NoOverrides ==
    ASSUME NEW saved, NEW slot, Overrides(saved, slot) = {}
    PROVE \A key \in Keys : Raw(saved, slot, key) = Raw(saved, Global, key)
  BY DEF Overrides, Raw

\* An accepted command whose changes are all saved keeps the running slots.
LEMMA AcceptedKeepsRunning ==
    ASSUME NEW place \in Places, NEW reset \in BOOLEAN, NEW given \in Givens,
           Command(place, reset, given), answer' = "changed"
    PROVE Running(variables) \subseteq RunningAfter
<1> DEFINE changes == Changes(place, reset, given)
           after == Updated(changes)
<1>1. /\ Accepted(place, changes)
      /\ variables' = after
      /\ ~(place # Global /\ Clearing(changes))
      /\ place # Global => DOMAIN given \cap GlobalOnly = {}
  BY DEF Command, SaveAll, SaveSome, Refuse, SaveVariables
<1>2. vendor' = vendor
  BY DEF Command
<1> SUFFICES ASSUME NEW slot \in Slots, CheckSettings(variables, slot)
             PROVE CheckSettings(after, slot)
  BY <1>1, <1>2 DEF Running, RunningAfter
<1>3. CASE place = Global /\ Overrides(after, slot) # {}
  <2>1. slot \in Targets(place, changes)
    BY <1>3 DEF Targets
  <2> QED BY <1>1, <2>1 DEF Accepted
<1>4. CASE place = Global /\ Overrides(after, slot) = {}
  <2>1. Global \in Targets(place, changes)
    BY <1>4 DEF Targets
  <2>2. CheckSettings(after, Global)
    BY <1>1, <2>1 DEF Accepted
  <2>3. \A key \in Keys : Raw(after, slot, key) = Raw(after, Global, key)
    BY <1>4, NoOverrides
  <2> HIDE DEF after
  <2> QED BY <2>2, <2>3, SameSettings
<1>5. CASE place # Global /\ slot = place
  <2>1. slot \in Targets(place, changes)
    BY <1>1, <1>5 DEF Targets
  <2> QED BY <1>1, <2>1 DEF Accepted
<1>6. CASE place # Global /\ slot # place
  <2>1. DOMAIN changes \subseteq {place} \X (SlotKeys \cup DOMAIN given)
    BY <1>6 DEF Changes, ResetNames
  <2>2. \A p \in {slot, Global} : \A key : <<p, key>> \notin DOMAIN changes
    BY <1>6, <2>1
  <2>3. \A p \in {slot, Global} : \A key : <<p, key>> \in Names => after[<<p, key>>] = variables[<<p, key>>]
    BY <2>2 DEF Updated
  <2>4. slot # Global
    BY MotionAssumption DEF Global
  <2>5. \A key \in SlotKeys : <<slot, key>> \in Names
    BY DEF Names, Places
  <2>6. \A key \in Keys : <<Global, key>> \in Names
    BY DEF Names, Places, Keys
  <2>7. \A key \in Keys : Raw(variables, slot, key) = Raw(after, slot, key)
    BY <2>3, <2>5, <2>6 DEF Raw
  <2>8. \A key \in GlobalOnly : Raw(variables, Global, key) = Raw(after, Global, key)
    BY <2>3, <2>6 DEF Raw, Keys
  <2> HIDE DEF after
  <2> QED BY <2>7, <2>8, SameSettings
<1> QED BY <1>3, <1>4, <1>5, <1>6

\* A command that completes, other than one that only clears overrides of a
\* slot, leaves every slot that ran on its settings running.
THEOREM ChangesAreSafe == Spec => ChangesKeepRunning
<1>1. ASSUME [Next]_vars, answer' = "changed", ~UNCHANGED vars
      PROVE Running(variables) \subseteq RunningAfter
  <2>1. PICK place \in Places, reset \in BOOLEAN, given \in Givens : Command(place, reset, given)
    BY <1>1 DEF Next, SaveByHand, Load, Unload, Lookup, GetStatus, Restart
  <2> QED BY <1>1, <2>1, AcceptedKeepsRunning
<1>2. [Next]_vars => [answer' = "changed" => Running(variables) \subseteq RunningAfter]_vars
  BY <1>1
<1> QED BY <1>2, PTL DEF Spec, ChangesKeepRunning
=============================================================================
