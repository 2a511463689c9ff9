------------------------- MODULE PackageTransaction -------------------------
(***************************************************************************)
(* What the lifecycle commands promise: the printer has a stock or an       *)
(* installed package, one command at a time changes it in one step, and a   *)
(* command that fails leaves it as it was or blocks the next one until the  *)
(* printer is recovered.                                                   *)
(***************************************************************************)

VARIABLES
    version,   \* the package on the printer: "stock", "installed" or "mixed"
    command,   \* the command under way, or "none"
    blocked    \* a failed command could not undo what it had done

vars == <<version, command, blocked>>

Versions == {"stock", "installed"}

Init == version = "stock" /\ command = "none" /\ blocked = FALSE

\* Only a restore runs on a blocked printer.
Begin(c) ==
    /\ command = "none"
    /\ blocked => c = "restore"
    /\ command' = c
    /\ UNCHANGED <<version, blocked>>

Commit ==
    /\ command # "none"
    /\ command = "install" => version' = "installed"
    /\ command = "uninstall" => version' = "stock"
    /\ version' \in Versions
    /\ command' = "none"
    /\ UNCHANGED blocked

Abort ==
    /\ command # "none"
    /\ command' = "none"
    /\ UNCHANGED <<version, blocked>>

Block ==
    /\ command # "none"
    /\ command' = "none"
    /\ version' \in Versions \cup {"mixed"}
    /\ blocked' = TRUE

Unblock ==
    /\ blocked /\ command = "none"
    /\ version \in Versions
    /\ blocked' = FALSE
    /\ UNCHANGED <<version, command>>

Next == Commit \/ Abort \/ Block \/ Unblock
        \/ \E c \in {"install", "uninstall", "restore"} : Begin(c)

Spec == Init /\ [][Next]_vars
=============================================================================
