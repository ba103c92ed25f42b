--------------------------- MODULE SupervisedTask ---------------------------
(***************************************************************************)
(* What a supervised task promises the person who started it, whatever the *)
(* steps it takes: it acts only while it runs, it runs on after a pause    *)
(* for a confirmation only when the confirmation is given, and once it has *)
(* ended, or was stopped, it does nothing more.                            *)
(***************************************************************************)
VARIABLES
    st,   \* status of the current task
    acts  \* record of the actions of the current task

Ended == {"completed", "failed", "rejected", "stopped"}

Init == st = "none"

\* A new task takes the place of the last one, whatever became of that.
Plan == st' = "planned"
Run == st \in {"planned", "running"} /\ st' = "running" /\ UNCHANGED acts
\* An action may be the last thing the task does.
Act == st = "running" /\ st' \in {"running", "waiting_approval", "failed"} /\ acts' # acts
Ask == st = "running" /\ st' = "waiting_approval" /\ UNCHANGED acts
Grant == st = "waiting_approval" /\ st' = "running" /\ UNCHANGED acts
Refuse == st = "waiting_approval" /\ st' = "rejected" /\ UNCHANGED acts
End == st = "running" /\ st' \in {"completed", "failed"} /\ UNCHANGED acts
Stop == st \notin Ended \cup {"none"} /\ st' = "stopped" /\ UNCHANGED acts
\* Tasks live in memory.
Restart == st' = "none"

Next == Plan \/ Run \/ Act \/ Ask \/ Grant \/ Refuse \/ End \/ Stop \/ Restart

Spec == Init /\ [][Next]_<<st, acts>>
=============================================================================
