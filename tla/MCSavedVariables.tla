-------------------------- MODULE MCSavedVariables --------------------------
EXTENDS VariableProperties

DictionaryOrder == <<"keep", "speed1", "speed2", "enable", "t0">>

\* A printer without the package, and one with an earlier release of it.
FreshOrEarlier ==
    {[n \in Names |-> IF n = "enable" THEN "other" ELSE "absent"],
     [n \in Names |-> CASE n \in Speeds -> "previous" [] n = "enable" -> "other"
                        [] OTHER -> "default"]}
=============================================================================
