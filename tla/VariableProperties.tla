------------------------- MODULE VariableProperties -------------------------
(***************************************************************************)
(* What the commands owe to the operator's saved variables.                 *)
(***************************************************************************)
EXTENDS SavedVariables

\* Values a request may replace without asking: what was never saved, None where
\* it is not QIDI's setting, an empty tool mapping, and a speed of a pair that was
\* all at what an earlier release saved when the request was decided.
Replaceable(n, value, decided) ==
    \/ value = "absent"
    \/ n \in {"keep"} \cup Tools /\ value = "none"
    \/ n \in Tools /\ value = "empty"
    \/ n \in Speeds /\ \A m \in Speeds : m \in DOMAIN decided /\ decided[m] = "previous"

\* Others did not save the variable since it was read again; for the motion
\* settings also not since the set was looked at.
StillAsRead(r) ==
    live[r.name] = r.seen /\ (r.name \in Motion => live[r.name] = r.decided[r.name])

\* A request of the installer that Klipper runs, also one run after the command
\* that sent it gave up, replaces a value of the operator or of QIDI only if
\* the operator agreed or the value came after the installer's last reading
\* (save_live_variables and the maybe_* functions of box_enablement.py).
OperatorValuesKept ==
    [][(Execute /\ StillAsRead(Head(queue)) /\ ~Head(queue).asked) =>
         \A n \in Names : live'[n] # live[n] =>
             Replaceable(n, live[n], Head(queue).decided)]_vars

\* An update check goes on to repair variables only when everything an install
\* wrote before a restart of Klipper was loaded again by the new process, or was
\* saved otherwise since: a value a power cut took away stops it
\* (verify_pending_saved_variable_expectations and its marker).
LossesStopUpdates ==
    (command.op = "check" /\ Step \in {"keep", "motion", "gaps"}) =>
        \A n \in promised : live[n] = "default"

\* Every tool an attached Box needs gets its mapping, whatever was observed of
\* the Box before and whatever values were lost or still await verification,
\* as long as Klipper runs (maybe_reconcile_tool_slots_after_box_count_change).
ToolsMapped ==
    \A t \in Tools :
        (t \in Gaps /\ klipper = "ready") ~> (t \notin Gaps \/ klipper # "ready")
=============================================================================
