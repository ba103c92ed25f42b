--------------------------- MODULE WindowsControl ---------------------------
(***************************************************************************)
(* Control of the Windows desktop: WindowsComputerService, the             *)
(* DeviceSessionManager that holds the user's authority and the            *)
(* WindowsActionGateway every action passes (app/windows_control), with    *)
(* the permission mode of app/security/permissions.py.                     *)
(*                                                                         *)
(* Every public method of the service holds its lock to the end, so one    *)
(* call is under way at a time (call); the desktop, the clock and the      *)
(* permission mode change under it.  A step is a tool with its registered  *)
(* target; texts, windows and model answers are left to choice.            *)
(***************************************************************************)
EXTENDS Permissions, Naturals, Sequences, FiniteSets, FiniteSetsExt, SequencesExt, Functions

CONSTANTS
    Intents,      \* intents the model may classify a goal as
    Proposals,    \* plans the model may propose
    MaxSessions,  \* bound: sessions started
    MaxTasks,     \* bound: tasks planned
    MaxEvents     \* bound: lock, elevation, expiry, mode changes, restarts

VARIABLES
    session,   \* DeviceSessionManager._session: status and capability
    mode,      \* PermissionStore: mode, and whether maximum was confirmed
    desktop,   \* Windows is locked; an elevation prompt is up
    task,      \* _current_task
    pending,   \* _pending: the step each entry is about and its status
    call,      \* the call that holds the lock
    acted,     \* history: backend actions of each step of the task
    agreed,    \* history: steps of the task a person has approved
    unasked,   \* history: its writes an asking session did not ask about
    count      \* sessions, tasks and events so far

history == <<acted, agreed, unasked>>
vars == <<session, mode, desktop, task, pending, call, history, count>>

Capabilities == {"observe_only", "low_risk_control", "ask_every_action"}
Statuses == {"none", "active", "paused", "expired", "terminated"}
TaskStatuses == {"none", "planned", "running", "waiting_approval",
                 "completed", "failed", "rejected", "stopped"}
StepStatuses == {"queued", "completed", "waiting_approval", "failed", "rejected", "cancelled"}

(***************************************************************************)
(* Steps: a tool with its registered argument                              *)
(***************************************************************************)
Launches == {"launch_notepad", "launch_browser", "launch_fixture"}
Observations == {"list_windows", "window_info"}
Inputs == {"set_text", "click_fixture"}
Steps == Observations \cup Launches \cup Inputs \cup {"focus", "open_project"}
RiskOf == [s \in Steps |-> CASE s \in Observations -> "read_only"
                             [] s \in Inputs -> "normal"
                             [] OTHER -> "low"]
\* Steps that name a window once the application is launched.
Targeted == {"focus", "set_text", "click_fixture"}

IntentSteps(intent) ==
    CASE intent = "observe_windows" -> Observations
      [] intent = "open_notepad" -> Launches \cup {"focus", "set_text", "window_info"}
      [] intent = "open_console" -> Launches \cup {"focus", "window_info"}
      [] intent = "open_project" -> {"open_project", "focus", "window_info"}
      [] intent = "fixture_external_action" ->
            Launches \cup {"focus", "click_fixture", "window_info"}

\* _validate_plan: what a proposed plan must hold; text: the goal quotes a text.
PlanAllowed(intent, text, plan) ==
    LET has == ToSet(plan)
        launches == SelectSeq(plan, LAMBDA s : s \in Launches)
    IN /\ Len(plan) \in 1..8
       /\ has \subseteq IntentSteps(intent)
       /\ intent = "observe_windows" => "list_windows" \in has
       /\ intent = "open_notepad" => /\ launches # <<>> /\ Head(launches) = "launch_notepad"
                                     /\ text => "set_text" \in has
       /\ intent = "open_console" => "launch_browser" \in has
       /\ intent = "open_project" => "open_project" \in has
       /\ intent = "fixture_external_action" => {"launch_fixture", "click_fixture"} \subseteq has

\* The registered plan used when the model's answers fail the schema.
CanonicalPlan(intent, text) ==
    CASE intent = "observe_windows" -> <<"list_windows">>
      [] intent = "open_notepad" -> IF text THEN <<"launch_notepad", "set_text">>
                                    ELSE <<"launch_notepad">>
      [] intent = "open_console" -> <<"launch_browser">>
      [] intent = "open_project" -> <<"open_project">>
      [] intent = "fixture_external_action" -> <<"launch_fixture", "click_fixture">>

ASSUME WindowsControlAssumption ==
    /\ Intents \subseteq {"observe_windows", "open_notepad", "open_console", "open_project",
                          "fixture_external_action"}
    /\ Proposals \subseteq Seq(Steps)
    /\ MaxSessions \in Nat /\ MaxTasks \in Nat /\ MaxEvents \in Nat

(***************************************************************************)
(* State                                                                   *)
(***************************************************************************)
NoTask == [status |-> "none", plan |-> <<>>, steps |-> <<>>, cur |-> 1, replans |-> 0]
NoCall == [op |-> "none", phase |-> "check", approved |-> FALSE, tries |-> 0]

Init ==
    /\ session = [status |-> "none", cap |-> "observe_only"]
    /\ mode = [now |-> "standard", confirmed |-> FALSE]
    /\ desktop = [locked |-> FALSE, elevated |-> FALSE]
    /\ task = NoTask
    /\ pending = {}
    /\ call = NoCall
    /\ acted = <<>> /\ agreed = {} /\ unasked = {}
    /\ count = [sessions |-> 0, tasks |-> 0, events |-> 0]

Free == call.op = "none"
Active == session.status = "active"
Paused == [session EXCEPT !.status = "paused"]
Terminated == [session EXCEPT !.status = "terminated"]

(***************************************************************************)
(* The user's calls                                                        *)
(***************************************************************************)
NewSession(cap) == [status |-> "active", cap |-> cap]

\* _observe_current
Observed(s) == IF desktop.locked THEN [s EXCEPT !.status = "paused"] ELSE s

\* The old session and its questions go; a locked desktop pauses the new one.
StartSession(cap) ==
    /\ Free /\ count.sessions < MaxSessions
    /\ session' = Observed(NewSession(cap))
    /\ pending' = {}
    /\ count' = [count EXCEPT !.sessions = @ + 1]
    /\ UNCHANGED <<mode, desktop, task, call, history>>

Pause ==
    /\ Free /\ Active
    /\ session' = Paused
    /\ UNCHANGED <<mode, desktop, task, pending, call, history, count>>

Resume ==
    /\ Free /\ session.status = "paused"
    /\ session' = [session EXCEPT !.status = "active"]
    /\ UNCHANGED <<mode, desktop, task, pending, call, history, count>>

\* The emergency stop.
Stop ==
    /\ Free
    /\ session' = IF session.status = "none" THEN session ELSE Terminated
    /\ pending' = {}
    /\ task' = IF task.status \in {"none", "completed", "failed", "rejected"} THEN task
               ELSE [task EXCEPT !.status = "stopped",
                                 !.steps = [i \in DOMAIN @ |->
                                     IF @[i] \in {"queued", "waiting_approval"} THEN "cancelled"
                                     ELSE @[i]]]
    /\ UNCHANGED <<mode, desktop, call, acted, agreed, unasked, count>>

Snapshot ==
    /\ Free /\ Active
    /\ session' = Observed(session)
    /\ UNCHANGED <<mode, desktop, task, pending, call, history, count>>

\* WindowsActionGateway.execute: what bars an action, and what becomes of the session.
Barred(permitted) ==
    \/ ~permitted /\ UNCHANGED session
    \/ permitted /\ desktop.locked /\ session' = Paused
    \/ permitted /\ ~desktop.locked /\ desktop.elevated /\ session' = Terminated

\* A screen, window or accessibility tree taken by hand.
Capture ==
    /\ Free /\ Barred(Active)
    /\ UNCHANGED <<mode, desktop, task, pending, call, history, count>>

\* Mutant: the questions about the last task stay.
BugPlanTask(intent, text) ==
    /\ Free /\ Active /\ count.tasks < MaxTasks
    /\ \E plan \in {p \in Proposals : PlanAllowed(intent, text, p)}
                     \cup {CanonicalPlan(intent, text)} :
         /\ task' = [status |-> "planned", plan |-> plan,
                     steps |-> [i \in DOMAIN plan |-> "queued"], cur |-> 1, replans |-> 0]
         /\ acted' = [i \in DOMAIN plan |-> 0]
    /\ agreed' = {} /\ unasked' = {}
    /\ count' = [count EXCEPT !.tasks = @ + 1]
    /\ UNCHANGED <<session, mode, desktop, pending, call>>

\* Model calls happen under the lock; a plan that breaks the rules is repaired or
\* replaced by the registered one.
PlanTask(intent, text) ==
    /\ Free /\ Active /\ count.tasks < MaxTasks
    /\ \E plan \in {p \in Proposals : PlanAllowed(intent, text, p)}
                     \cup {CanonicalPlan(intent, text)} :
         /\ task' = [status |-> "planned", plan |-> plan,
                     steps |-> [i \in DOMAIN plan |-> "queued"], cur |-> 1, replans |-> 0]
         /\ acted' = [i \in DOMAIN plan |-> 0]
    /\ pending' = {}
    /\ agreed' = {} /\ unasked' = {}
    /\ count' = [count EXCEPT !.tasks = @ + 1]
    /\ UNCHANGED <<session, mode, desktop, call>>

\* Mutant: a failed task may be run again.
BugRunTask ==
    /\ Free /\ Active
    /\ task.status \in {"planned", "running", "failed"}
    /\ task' = [task EXCEPT !.status = "running"]
    /\ call' = [NoCall EXCEPT !.op = "run"]
    /\ UNCHANGED <<session, mode, desktop, pending, history, count>>

\* A task that waits for a confirmation is returned as it is.
RunTask ==
    /\ Free /\ Active
    /\ task.status \in {"planned", "running"}
    /\ task' = [task EXCEPT !.status = "running"]
    /\ call' = [NoCall EXCEPT !.op = "run"]
    /\ UNCHANGED <<session, mode, desktop, pending, history, count>>

\* The entry stays until the step has been performed.
Approve(p) ==
    /\ Free /\ Active
    /\ p.status = "pending"
    /\ pending' = (pending \ {p}) \cup {[p EXCEPT !.status = "approved"]}
    /\ call' = [NoCall EXCEPT !.op = "approve", !.approved = TRUE]
    /\ agreed' = agreed \cup {p.step}
    /\ UNCHANGED <<session, mode, desktop, task, acted, unasked, count>>

Reject(p) ==
    /\ Free /\ Active
    /\ p.status = "pending"
    /\ task' = [task EXCEPT !.status = "rejected", !.steps[p.step] = "rejected"]
    /\ pending' = pending \ {p}
    /\ UNCHANGED <<session, mode, desktop, call, history, count>>

(***************************************************************************)
(* WindowsActionGateway.execute and the retries of _execute_step           *)
(***************************************************************************)
Step == task.plan[task.cur]
AtStep == ~Free /\ call.phase = "check" /\ task.cur <= Len(task.plan)

\* require_active(tool)
Permitted == Active /\ (RiskOf[Step] = "read_only" \/ session.cap # "observe_only")

NeedsApproval ==
    /\ RiskOf[Step] # "read_only"
    /\ session.cap = "ask_every_action" \/ Decide(mode.now, RiskOf[Step], TRUE) = "ask"

\* Errors that are no passing trouble end the task; an approved entry stays.
StepFails ==
    /\ task' = [task EXCEPT !.status = "failed", !.steps[task.cur] = "failed"]
    /\ call' = NoCall
    /\ UNCHANGED pending

\* Mutant: the call is not ended.
BugRefused ==
    /\ AtStep /\ Barred(Permitted)
    /\ task' = [task EXCEPT !.status = "failed", !.steps[task.cur] = "failed"]
    /\ UNCHANGED <<mode, desktop, pending, call, history, count>>

Refused ==
    /\ AtStep /\ Barred(Permitted)
    /\ StepFails
    /\ UNCHANGED <<mode, desktop, history, count>>

Ready == AtStep /\ Permitted /\ ~desktop.locked /\ ~desktop.elevated

\* ApprovalRequired ends the call.
Ask ==
    /\ Ready /\ NeedsApproval /\ ~call.approved
    /\ task' = [task EXCEPT !.status = "waiting_approval",
                            !.steps[task.cur] = "waiting_approval"]
    /\ pending' = pending \cup {[step |-> task.cur, status |-> "pending"]}
    /\ call' = NoCall
    /\ UNCHANGED <<session, mode, desktop, history, count>>

\* The checks are over; what changes from here on is not seen again.
Admit ==
    /\ Ready /\ (NeedsApproval => call.approved)
    /\ call' = [call EXCEPT !.phase = "act"]
    /\ UNCHANGED <<session, mode, desktop, task, pending, history, count>>

\* The backend has been called.
Performed ==
    /\ ~Free /\ call.phase = "act"
    /\ acted' = [acted EXCEPT ![task.cur] = @ + 1]
    /\ unasked' = IF /\ RiskOf[Step] # "read_only" /\ session.cap = "ask_every_action"
                     /\ task.cur \notin agreed
                  THEN unasked \cup {task.cur} ELSE unasked
    /\ UNCHANGED <<session, mode, desktop, agreed, count>>

\* approve removes its entry once the step is done.
Answered == IF call.op = "approve" /\ call.approved
            THEN pending \ {[step |-> task.cur, status |-> "approved"]} ELSE pending

\* Mutant: the confirmation of one step serves the steps after it.
BugSucceeds ==
    /\ Performed
    /\ task' = [task EXCEPT !.status = "running", !.steps[task.cur] = "completed", !.cur = @ + 1]
    /\ pending' = Answered
    /\ call' = [call EXCEPT !.phase = "check", !.tries = 0]

\* The call runs on with the steps that follow.
Succeeds ==
    /\ Performed
    /\ task' = [task EXCEPT !.status = "running", !.steps[task.cur] = "completed", !.cur = @ + 1]
    /\ pending' = Answered
    /\ call' = [call EXCEPT !.phase = "check", !.approved = FALSE, !.tries = 0]

\* Mutant: one try too many.
BugRetries ==
    /\ Performed /\ call.tries <= 2
    /\ call' = [call EXCEPT !.phase = "check", !.tries = @ + 1]
    /\ UNCHANGED <<task, pending>>

\* An error that may pass, or a verification that fails after the effect.
Retries ==
    /\ Performed /\ call.tries < 2
    /\ call' = [call EXCEPT !.phase = "check", !.tries = @ + 1]
    /\ UNCHANGED <<task, pending>>

\* _bounded_supervisor_replan, once in a task.
Replans ==
    /\ Performed /\ call.tries = 2 /\ task.replans < 1
    /\ task' = [task EXCEPT !.replans = @ + 1, !.steps[task.cur] = "queued"]
    /\ call' = [call EXCEPT !.phase = "check", !.tries = 0]
    /\ UNCHANGED pending

\* It finds the window of the step gone: the call fails and the task stays as it is.
TargetLost ==
    /\ Performed /\ call.tries = 2 /\ task.replans < 1 /\ Step \in Targeted
    /\ task' = [task EXCEPT !.replans = @ + 1]
    /\ call' = NoCall
    /\ UNCHANGED pending

\* Any other error, or no replan left.
Fails ==
    /\ Performed
    /\ StepFails

(***************************************************************************)
(* _finish_task: the reviewer's answer                                     *)
(***************************************************************************)
AtEnd == ~Free /\ call.phase = "check" /\ task.cur > Len(task.plan)

Finish(status) ==
    /\ AtEnd
    /\ task' = [task EXCEPT !.status = IF \A i \in DOMAIN task.steps : task.steps[i] = "completed"
                                       THEN status ELSE "failed"]
    /\ call' = NoCall
    /\ UNCHANGED <<session, mode, desktop, pending, history, count>>

\* The reviewer cannot be reached: the task stays running.
ReviewUnavailable ==
    /\ AtEnd
    /\ call' = NoCall
    /\ UNCHANGED <<session, mode, desktop, task, pending, history, count>>

(***************************************************************************)
(* Around the service                                                      *)
(***************************************************************************)
Event == count.events < MaxEvents /\ count' = [count EXCEPT !.events = @ + 1]

\* The time to live has passed; require_active and current notice.
Expire ==
    /\ Event /\ session.status \in {"active", "paused"}
    /\ session' = [session EXCEPT !.status = "expired"]
    /\ UNCHANGED <<mode, desktop, task, pending, call, history>>

Windows(field) ==
    /\ Event
    /\ desktop' = [desktop EXCEPT ![field] = ~@]
    /\ UNCHANGED <<session, mode, task, pending, call, history>>

\* PermissionStore.set_mode: maximum is confirmed once.
SetMode(m, confirmed) ==
    /\ Event
    /\ m = "maximum" => mode.confirmed \/ confirmed
    /\ mode' = [now |-> m, confirmed |-> mode.confirmed \/ (m = "maximum")]
    /\ UNCHANGED <<session, desktop, task, pending, call, history>>

\* Only the permission mode is stored.
Restart ==
    /\ Event
    /\ session' = [status |-> "none", cap |-> "observe_only"]
    /\ task' = NoTask /\ pending' = {} /\ call' = NoCall
    /\ acted' = <<>> /\ agreed' = {} /\ unasked' = {}
    /\ UNCHANGED <<mode, desktop>>

Calls ==
    \/ \E cap \in Capabilities : StartSession(cap)
    \/ Pause \/ Resume \/ Stop \/ Snapshot \/ Capture
    \/ \E intent \in Intents, text \in BOOLEAN : PlanTask(intent, text)
    \/ RunTask
    \/ \E p \in pending : Approve(p) \/ Reject(p)

Work ==
    \/ Refused \/ Ask \/ Admit
    \/ Succeeds \/ Retries \/ Replans \/ TargetLost \/ Fails
    \/ \E status \in {"completed", "failed"} : Finish(status)
    \/ ReviewUnavailable

Around ==
    \/ Expire \/ Restart
    \/ \E field \in {"locked", "elevated"} : Windows(field)
    \/ \E m \in Modes, confirmed \in BOOLEAN : SetMode(m, confirmed)

Next == Calls \/ Work \/ Around

\* A call that holds the lock goes on: every wait in it has a time limit.
Spec == Init /\ [][Next]_vars /\ WF_vars(Work)

(***************************************************************************)
(* Properties                                                              *)
(***************************************************************************)
CallRecords == [op : {"none", "run", "approve"}, phase : {"check", "act"},
                approved : BOOLEAN, tries : 0..2]
TypeOK ==
    /\ session \in [status : Statuses, cap : Capabilities]
    /\ mode \in [now : Modes, confirmed : BOOLEAN]
    /\ desktop \in [locked : BOOLEAN, elevated : BOOLEAN]
    /\ task.status \in TaskStatuses
    /\ task.plan \in Seq(Steps) /\ Len(task.plan) <= 8
    /\ task.steps \in [DOMAIN task.plan -> StepStatuses]
    /\ task.cur \in 1..Len(task.plan) + 1 /\ task.replans \in 0..1
    /\ pending \subseteq [step : DOMAIN task.plan, status : {"pending", "approved"}]
    /\ call \in CallRecords
    /\ acted \in [DOMAIN task.plan -> Nat]
    /\ agreed \subseteq DOMAIN task.plan /\ unasked \subseteq DOMAIN task.plan
    /\ count \in [sessions : 0..MaxSessions, tasks : 0..MaxTasks, events : 0..MaxEvents]

\* A question that can be answered is about the step at which the task waits, whatever
\* happened since it was asked: no answer performs another step (service.py 477-523).
PendingIsCurrent ==
    \A p \in pending : p.status = "pending" => /\ Free
                                               /\ task.status = "waiting_approval"
                                               /\ p.step = task.cur

\* The steps before the current one are done and verified and none after it has been
\* tried, through retries, replans, confirmations and reruns (service.py 510-596).
StepsInOrder ==
    \A i \in DOMAIN task.plan :
        /\ i < task.cur => task.steps[i] = "completed" /\ acted[i] > 0
        /\ i > task.cur => acted[i] = 0

\* Answers and steps keep to the plan.
InOrder == PendingIsCurrent /\ StepsInOrder

\* In a session that asks for every action each write was approved by a person: one
\* approval does not serve the steps that follow it (service.py 486-490).
WritesApproved == unasked = {}

\* The emergency stop waits for the call that holds the lock: that call returns.
CallReturns == ~Free ~> Free

\* The task keeps the promise of SupervisedTask: no action outside its running, none
\* after a stop, a rejection or its end.  A confirmed step runs.
Promise == INSTANCE SupervisedTask WITH
    st <- IF call.op = "approve" THEN "running" ELSE task.status,
    acts <- acted
Supervised == Promise!Spec
=============================================================================
