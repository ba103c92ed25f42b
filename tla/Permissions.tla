---------------------------- MODULE Permissions ----------------------------
(***************************************************************************)
(* The permission decision every gateway shares: RiskClassifier and        *)
(* PermissionPolicy of app/security/permissions.py.  The text of an action *)
(* and its target is the set of marker groups found in it.                 *)
(***************************************************************************)
Modes == {"safe", "standard", "maximum"}
RiskClasses == {"read_only", "low", "normal", "sensitive", "destructive",
                "external_effect", "system", "forbidden"}
Decisions == {"allow", "ask", "block"}

\* The full-access switch of older releases is one of today's modes.
Normalize(value) == IF value = "full_access" THEN "maximum" ELSE value

\* The strongest marker decides; no label given by a caller weakens it.
Classify(markers, readOnly, lowTool, dangerous) ==
    IF "forbidden" \in markers THEN "forbidden"
    ELSE IF "sensitive" \in markers THEN "sensitive"
    ELSE IF "external" \in markers THEN "external_effect"
    ELSE IF "system" \in markers THEN "system"
    ELSE IF readOnly THEN "read_only"
    ELSE IF "destructive" \in markers THEN "destructive"
    ELSE IF lowTool THEN "low"
    ELSE IF dangerous THEN "destructive" ELSE "normal"

Automatic(mode, risk, explicit) ==
    CASE mode = "safe" -> risk \in {"read_only", "low"}
      [] mode = "standard" -> risk \in {"read_only", "low", "normal"}
      [] mode = "maximum" -> /\ risk # "sensitive"
                             /\ risk \in {"external_effect", "system"} => explicit

\* task_explicit: the task itself asks for the effect.
Decide(mode, risk, explicit) ==
    IF risk = "forbidden" THEN "block"
    ELSE IF Automatic(mode, risk, explicit) THEN "allow" ELSE "ask"
=============================================================================
