----------------------------- MODULE TaskGraph -----------------------------
(***************************************************************************)
(* One run of the orchestration graph of app/graph.py: the nodes ingest,   *)
(* clarify, plan, dispatch, exec_subtask (fanned out), review_all,         *)
(* finalize with their routing functions, the                              *)
(* interrupts that pause the run, and the runner calls that resume it.     *)
(*                                                                         *)
(* A plan is a function from subtask ids to [deps, role].  What a model    *)
(* or a person decides (the plan, a subtask's result, a verdict, a failure *)
(* signature, an approval) is a nondeterministic choice.  The mailbox is   *)
(* reduced to its two fields; its interleavings are in TaskControl.        *)
(***************************************************************************)
EXTENDS Naturals, Sequences, FiniteSets, SequencesExt

CONSTANTS
    Ids,                \* subtask ids any plan may use
    Plans,              \* plans that pass validate_plan
    Goals,              \* [complexity, shape] that goal texts, steered or not, get
    Signatures,         \* failure signatures of rejected work
    ReplanLimit,        \* REPLAN_LIMIT
    MaxSteers,          \* bound: constraints posted by users
    MaxPauses           \* bound: pause / stop requests posted by users

None == "none"
Roles == {"researcher", "executor"}

Complexities == {"trivial", "simple", "standard", "complex"}

\* TaskShape: "read_only" stands for READ_ONLY_RESEARCH and CODE_ANALYSIS,
\* "delivery" for MULTI_STEP_DELIVERY and WINDOWS_ACTION.
Shapes == {"direct", "read_only", "code_change", "delivery"}

ASSUME TaskGraphAssumption ==
    /\ ReplanLimit \in Nat
    /\ MaxSteers \in Nat
    /\ MaxPauses \in Nat
    /\ \A p \in Plans : /\ DOMAIN p \subseteq Ids
                        /\ \A i \in DOMAIN p : /\ p[i].deps \subseteq DOMAIN p
                                               /\ p[i].role \in Roles
    /\ Goals \subseteq [complexity : Complexities, shape : Shapes]
    \* PlanningEnvelope.for_task: only a trivial goal keeps DIRECT_RESPONSE
    /\ \A g \in Goals : g.shape = "direct" => g.complexity = "trivial"

VARIABLES
    (* TaskState, as checkpointed *)
    sub,             \* subtasks, by id
    status,          \* current_status
    failure,         \* failure_code
    replanReason,    \* replan_reason
    replanCount,     \* replan_count
    goal,            \* complexity and task_shape, set by plan
    reviewRequired,  \* review_required: the shape has a reviewer gate
    clarifying,      \* pending_clarification_id is set
    (* the LangGraph scheduler and the runner *)
    node,            \* the node to run next; "end" after END, "crashed" on an error
    sent,            \* exec_subtask tasks of this superstep still to run
    waiting,         \* exec_subtask tasks stopped at an approval interrupt
    writes,          \* tasks of this superstep that wrote replan_reason
    intr,            \* the interrupt the run is paused on
    replay,          \* the node replays with a resume value
    executor,        \* the run has a sandbox, so executor_agent is not None
    (* the mailbox *)
    action,          \* requested pause / stop
    steering,        \* constraints not yet taken
    (* history *)
    steers, pauses,  \* posts so far
    execs,           \* executions of each subtask id
    reworked         \* some execution was rejected

task == <<sub, status, failure, replanReason, replanCount, goal, reviewRequired,
          clarifying>>
sched == <<node, sent, waiting, writes, intr, replay>>
mailbox == <<action, steering>>
history == <<steers, pauses, execs, reworked>>
vars == <<task, sched, executor, mailbox, history>>

Absent == [status |-> "absent", deps |-> {}, role |-> "researcher", rework |-> 0,
           sigs |-> <<>>, result |-> None, superseded |-> FALSE]

Fresh(p, i) == [Absent EXCEPT !.status = "pending", !.deps = p[i].deps, !.role = p[i].role]

Known == {i \in Ids : sub[i].status # "absent"}
Active == {i \in Known : ~sub[i].superseded}

\* Mutant: one limit for all goals, a round above that of complex ones.
BugMaxRework(c) == 3

\* MAX_REWORK_BY_COMPLEXITY
MaxReworkFor(c) == CASE c \in {"trivial", "simple"} -> 0
                     [] c = "standard" -> 1
                     [] c = "complex" -> 2

Init ==
    /\ sub = [i \in Ids |-> Absent]
    /\ status = "created"
    /\ failure = None
    /\ replanReason = None
    /\ replanCount = 0
    /\ goal \in Goals
    /\ reviewRequired = TRUE
    /\ clarifying = FALSE
    /\ node = "ingest"
    /\ sent = {}
    /\ waiting = {}
    /\ writes = {}
    /\ intr = None
    /\ replay = FALSE
    /\ executor \in BOOLEAN
    /\ action = None
    /\ steering = FALSE
    /\ steers = 0
    /\ pauses = 0
    /\ execs = [i \in Ids |-> 0]
    /\ reworked = FALSE

Running == intr = None /\ node \notin {"end", "crashed"}

(***************************************************************************)
(* _controlled: a requested pause or stop interrupts the run before the    *)
(* node; when the node replays after a resume, interrupt() returns at once *)
(* and clear_action drops whatever request is in the mailbox.              *)
(***************************************************************************)
Controlled == {"ingest", "plan", "dispatch", "review_all", "finalize"}

ControlInterrupt ==
    /\ Running
    /\ node \in Controlled
    /\ action # None
    /\ ~replay
    /\ intr' = "control"
    /\ status' = "paused"
    /\ UNCHANGED <<sub, failure, replanReason, replanCount, goal, reviewRequired, clarifying,
                   node, sent, waiting, writes, replay, mailbox, history>>

\* The node's body runs: the request was served, or there is none.
Enter(n) ==
    /\ Running
    /\ node = n
    /\ action = None \/ replay
    /\ action' = None
    /\ replay' = FALSE

\* Fail with a code and leave through END.
Fail(code) ==
    /\ status' = "failed"
    /\ failure' = code
    /\ node' = "end"

(***************************************************************************)
(* ingest, clarify                                                         *)
(***************************************************************************)
\* A vague goal asks for clarification; clarify runs once per run, so the
\* MAX_CLARIFICATION_ROUNDS branch needs a history this run cannot have.
Ingest ==
    /\ Enter("ingest")
    /\ clarifying' \in BOOLEAN
    /\ node' = IF clarifying' THEN "clarify" ELSE "plan"
    /\ UNCHANGED <<sub, status, failure, replanReason, replanCount, goal, reviewRequired,
                   sent, waiting, writes, intr, steering, history>>

ClarifyInterrupt ==
    /\ Running
    /\ node = "clarify"
    /\ intr' = "clarification"
    /\ status' = "paused"
    /\ UNCHANGED <<sub, failure, replanReason, replanCount, goal, reviewRequired, clarifying,
                   node, sent, waiting, writes, replay, mailbox, history>>

(***************************************************************************)
(* plan                                                                    *)
(***************************************************************************)
\* Mutant: the merge keeps the runtime fields of a subtask id used again.
BugKeepRuntime(p, replanning) ==
    [i \in Ids |->
        IF i \in DOMAIN p /\ i \in Known
        THEN [sub[i] EXCEPT !.deps = p[i].deps, !.role = p[i].role, !.superseded = FALSE]
        ELSE IF i \in DOMAIN p THEN Fresh(p, i)
        ELSE IF replanning /\ i \in Known THEN [sub[i] EXCEPT !.superseded = TRUE]
        ELSE sub[i]]

\* merge_subtasks of the plan's fresh subtasks; on a replan the old ones it
\* does not name are superseded.
Install(p, replanning) ==
    [i \in Ids |->
        IF i \in DOMAIN p THEN Fresh(p, i)
        ELSE IF replanning /\ i \in Known THEN [sub[i] EXCEPT !.superseded = TRUE]
        ELSE sub[i]]

EnterPlan ==
    /\ Enter("plan")
    /\ steering' = FALSE        \* take_constraints: they go into goal_text
    /\ replanReason' = None
    /\ UNCHANGED <<clarifying, sent, waiting, writes, intr, history>>

\* Mutant: the replan is counted before it is made.
BugPlanLimit ==
    /\ EnterPlan
    /\ replanReason # None
    /\ replanCount + 1 >= ReplanLimit
    /\ Fail("rework_limit_exceeded")
    /\ UNCHANGED <<sub, replanCount, goal, reviewRequired>>

\* Too many replans.
PlanLimit ==
    /\ EnterPlan
    /\ replanReason # None
    /\ replanCount >= ReplanLimit
    /\ Fail("rework_limit_exceeded")
    /\ UNCHANGED <<sub, replanCount, goal, reviewRequired>>

\* TRIVIAL: no subtasks.  SIMPLE: one researcher subtask.
PlanFast ==
    /\ EnterPlan
    /\ replanReason = None
    /\ goal' \in Goals
    /\ \/ /\ goal'.complexity = "trivial"
          /\ UNCHANGED sub
       \/ /\ goal'.complexity = "simple"
          /\ \E i \in Ids : sub' = Install([j \in {i} |-> [deps |-> {}, role |-> "researcher"]], FALSE)
    /\ reviewRequired' = FALSE
    /\ status' = "planning"
    /\ node' = "dispatch"
    /\ UNCHANGED <<failure, replanCount>>

\* Mutant: the limit is only checked after the replan.
BugReplanLate ==
    /\ EnterPlan
    /\ \E p \in Plans : sub' = Install(p, replanReason # None)
    /\ goal' \in Goals
    /\ reviewRequired' = TRUE
    /\ replanCount' = IF replanReason = None THEN replanCount ELSE replanCount + 1
    /\ status' = "planning"
    /\ node' = "dispatch"
    /\ UNCHANGED failure

\* STANDARD, COMPLEX or a replan: the LLM plan when it is valid, else the
\* deterministic one; the goal, steered or not, is classified again.
PlanFull ==
    /\ EnterPlan
    /\ replanReason = None \/ replanCount < ReplanLimit
    /\ \E p \in Plans : sub' = Install(p, replanReason # None)
    /\ goal' \in Goals
    /\ replanReason = None => goal'.complexity \notin {"trivial", "simple"}
    /\ reviewRequired' = (goal'.shape # "read_only")
    /\ replanCount' = IF replanReason = None THEN replanCount ELSE replanCount + 1
    /\ status' = "planning"
    /\ node' = "dispatch"
    /\ UNCHANGED failure

PlanInvalid ==
    /\ EnterPlan
    /\ replanReason = None \/ replanCount < ReplanLimit
    /\ Fail("planning_invalid")
    /\ UNCHANGED <<sub, replanCount, goal, reviewRequired>>

(***************************************************************************)
(* dispatch and exec_subtask                                               *)
(***************************************************************************)
\* route_dispatch: pending or rejected subtasks all of whose dependencies passed
Ready == {i \in Active : /\ sub[i].status \in {"pending", "rejected"}
                         /\ \A d \in sub[i].deps : sub[d].status = "passed"}

Dispatch ==
    /\ Enter("dispatch")
    /\ sent' = Ready
    /\ writes' = {}
    /\ node' = IF Ready = {} THEN "review_all" ELSE "exec_subtask"
    /\ UNCHANGED <<task, waiting, intr, steering, history>>

\* ReworkProgressGuard.has_no_progress
NoProgress(sigs) == Len(sigs) >= 2 /\ sigs[Len(sigs)] = sigs[Len(sigs) - 1]

Reject(r, sig) == [r EXCEPT !.status = "rejected", !.rework = @ + 1, !.sigs = Append(@, sig)]

\* The fan-in: once no task is left to run, the run pauses on the first
\* approval interrupt, or review_all is next.  Two writes of replan_reason in
\* one superstep are an InvalidUpdateError of LangGraph.
FanIn(left, blocked, wrote) ==
    IF left # {} THEN node' = node /\ UNCHANGED <<intr, status>>
    ELSE IF Cardinality(wrote) > 1 THEN node' = "crashed" /\ UNCHANGED <<intr, status>>
    ELSE IF blocked # {} THEN node' = node /\ intr' = "approval" /\ status' = "paused"
    ELSE node' = "review_all" /\ UNCHANGED <<intr, status>>

Runs(i) == Running /\ node = "exec_subtask" /\ i \in sent /\ sent' = sent \ {i}

Executed(i, result) == sub' = [sub EXCEPT ![i].status = "executed", ![i].result = result]

Count(i) == execs' = [execs EXCEPT ![i] = @ + 1]

\* A researcher, or an executor whose change the permission mode allows
\* without a person, runs to its result.
ExecSubtask(i) ==
    /\ Runs(i)
    /\ sub[i].role = "researcher" \/ executor
    /\ \E r \in {"good", "bad"} : Executed(i, r)
    /\ Count(i)
    /\ FanIn(sent', waiting, writes)
    /\ UNCHANGED <<failure, replanReason, replanCount, goal, reviewRequired, clarifying, waiting,
                   writes, replay, mailbox, steers, pauses, reworked>>

\* Executor.run stops at the approval interrupt.
ExecAsk(i) ==
    /\ Runs(i)
    /\ sub[i].role = "executor"
    /\ executor
    /\ waiting' = waiting \cup {i}
    /\ FanIn(sent', waiting', writes)
    /\ UNCHANGED <<sub, failure, replanReason, replanCount, goal, reviewRequired, clarifying,
                   writes, replay, mailbox, history>>

\* No executor: the subtask is rejected on the spot, always for the same reason.
ExecUnavailable(i) ==
    /\ Runs(i)
    /\ sub[i].role = "executor"
    /\ ~executor
    /\ LET r == Reject(sub[i], "executor_unavailable")
       IN /\ sub' = [sub EXCEPT ![i] = r]
          /\ writes' = IF NoProgress(r.sigs) THEN writes \cup {i} ELSE writes
          /\ replanReason' = IF NoProgress(r.sigs) THEN "no_progress" ELSE replanReason
    /\ Count(i)
    /\ reworked' = TRUE
    /\ FanIn(sent', waiting, writes')
    /\ UNCHANGED <<failure, replanCount, goal, reviewRequired, clarifying, waiting,
                   replay, mailbox, steers, pauses>>

\* resume_task with the decision on the pending approval: the replayed
\* executor goes on; the other interrupted ones stop at their own again.
Decide(i, decision) ==
    /\ intr = "approval"
    /\ i \in waiting
    /\ \E r \in IF decision = "approved" THEN {"good", "bad"} ELSE {"bad"} : Executed(i, r)
    /\ Count(i)
    /\ waiting' = waiting \ {i}
    /\ IF waiting' = {} THEN node' = "review_all" /\ intr' = None ELSE UNCHANGED <<node, intr>>
    /\ UNCHANGED <<status, failure, replanReason, replanCount, goal, reviewRequired, clarifying,
                   sent, writes, replay, mailbox, steers, pauses, reworked>>

(***************************************************************************)
(* review_all and its routing                                              *)
(***************************************************************************)
Reviewed == {i \in Active : sub[i].status = "executed"}

\* Mutant: the reviewer's verdict overrules the deterministic checks.
BugTrustReviewer(i) == IF reviewRequired THEN {"PASS", "REWORK"} ELSE {"PASS"}

\* Failing deterministic checks are never overruled.  A fast path (no review
\* gate for this shape) passes what they accept; otherwise the reviewer decides.
Verdicts(i) ==
    CASE sub[i].result # "good" -> {"REWORK"}
      [] sub[i].result = "good" /\ ~reviewRequired -> {"PASS"}
      [] OTHER -> {"PASS", "REWORK"}

Rejected(s) == {i \in Active : s[i].status = "rejected"}

\* The Supervisor's reason to replan after a review.
ReviewReason(s) ==
    CASE steering -> "user_steering"
      [] ~steering /\ (\E i \in Rejected(s) : NoProgress(s[i].sigs)) -> "no_progress"
      [] ~steering /\ (\A i \in Rejected(s) : ~NoProgress(s[i].sigs))
           /\ (\E i \in Rejected(s) : s[i].rework > MaxReworkFor(goal.complexity)) -> "rework_limit"
      [] OTHER -> None

\* route_after_review
RouteAfterReview(s, reason) ==
    LET rejected == Rejected(s)
        over == \E i \in rejected : s[i].rework > MaxReworkFor(goal.complexity)
        ready == \E i \in Active : /\ s[i].status = "pending"
                                   /\ \A d \in s[i].deps : s[d].status = "passed"
    IN CASE reason # None -> "plan"
         [] reason = None /\ rejected # {} /\ over ->
              IF replanCount < ReplanLimit THEN "plan" ELSE "fail_rework_limit"
         [] reason = None /\ rejected # {} /\ ~over -> "dispatch"
         [] reason = None /\ rejected = {} /\ ready -> "dispatch"
         [] OTHER -> "finalize"

ReviewAll ==
    /\ Enter("review_all")
    /\ \E verdict \in [Reviewed -> {"PASS", "REWORK"}], sig \in [Reviewed -> Signatures] :
          /\ \A i \in Reviewed : verdict[i] \in Verdicts(i)
          /\ sub' = [i \in Ids |->
                        IF i \notin Reviewed THEN sub[i]
                        ELSE IF verdict[i] = "PASS" THEN [sub[i] EXCEPT !.status = "passed"]
                        ELSE Reject(sub[i], sig[i])]
          /\ reworked' = (reworked \/ \E i \in Reviewed : verdict[i] = "REWORK")
    /\ replanReason' = ReviewReason(sub')
    /\ steering' = FALSE        \* take_constraints: appended to clarified_goal
    /\ node' = RouteAfterReview(sub', replanReason')
    /\ UNCHANGED <<status, failure, replanCount, goal, reviewRequired, clarifying,
                   sent, waiting, writes, intr, steers, pauses, execs>>

(***************************************************************************)
(* finalize                                                                *)
(***************************************************************************)
AllPassed == \A i \in Active : sub[i].status = "passed"

\* ProductCompletionValidator, up to the content checks of the other shapes
Complete ==
    \/ goal.shape = "direct"
    \/ /\ \E i \in Active : sub[i].result # None
       /\ goal.shape = "code_change" =>
            /\ \E i \in Active : sub[i].role = "executor"
            /\ \A i \in Active : sub[i].role = "executor" => sub[i].result = "good"

\* The failure codes finalize may return; None is success.
FinalCodes ==
    IF ~AllPassed THEN {"finalize_conditions_not_met"}
    ELSE IF ~Complete THEN {"completion_invalid"}
    ELSE IF goal.shape \in {"read_only", "delivery"} THEN {None, "completion_invalid"}
    ELSE {None}

Finalize ==
    /\ Enter("finalize")
    /\ \E code \in FinalCodes :
          /\ failure' = code
          /\ status' = IF code = None THEN "completed" ELSE "failed"
    /\ node' = "end"
    /\ UNCHANGED <<sub, replanReason, replanCount, goal, reviewRequired, clarifying,
                   sent, waiting, writes, intr, steering, history>>

\* BudgetExceeded or ProviderError leaves a node that calls a model; the runner
\* writes the failure into the checkpoint.
NodeFails ==
    /\ Running
    /\ node \in {"plan", "exec_subtask", "review_all", "finalize"}
    /\ node \in Controlled => action = None \/ replay
    /\ \E code \in {"budget_exceeded", "provider_error"} : Fail(code)
    /\ UNCHANGED <<sub, replanReason, replanCount, goal, reviewRequired, clarifying,
                   sent, waiting, writes, intr, replay, mailbox, history>>

(***************************************************************************)
(* Users: task_steer, resume, approve / reject                             *)
(***************************************************************************)
NotTerminal == status \notin {"completed", "failed"} /\ node # "crashed"

SteerPause ==
    /\ NotTerminal
    /\ pauses < MaxPauses
    /\ pauses' = pauses + 1
    /\ action' \in {"pause", "stop"}
    /\ UNCHANGED <<task, sched, steering, steers, execs, reworked>>

SteerConstraint ==
    /\ NotTerminal
    /\ steers < MaxSteers
    /\ steers' = steers + 1
    /\ steering' = TRUE
    /\ UNCHANGED <<task, sched, action, pauses, execs, reworked>>

\* Mutant: the request is not cleared once the user resumes.
BugResumeKeepsRequest ==
    /\ intr = "control"
    /\ intr' = None
    /\ UNCHANGED <<task, node, sent, waiting, writes, replay, mailbox, history>>

ResumeControl ==
    /\ intr = "control"
    /\ intr' = None
    /\ replay' = TRUE
    /\ UNCHANGED <<task, node, sent, waiting, writes, mailbox, history>>

AnswerClarification ==
    /\ intr = "clarification"
    /\ intr' = None
    /\ clarifying' = FALSE
    /\ node' = "plan"
    /\ UNCHANGED <<sub, status, failure, replanReason, replanCount, goal, reviewRequired,
                   sent, waiting, writes, replay, mailbox, history>>

Plan == PlanLimit \/ PlanFast \/ PlanFull \/ PlanInvalid

Exec == \E i \in Ids : ExecSubtask(i) \/ ExecAsk(i) \/ ExecUnavailable(i)

Graph ==
    /\ \/ ControlInterrupt \/ Ingest \/ ClarifyInterrupt \/ Plan \/ Dispatch \/ Exec
       \/ ReviewAll \/ Finalize \/ NodeFails
    /\ UNCHANGED executor

Answer ==
    /\ \/ ResumeControl
       \/ AnswerClarification
       \/ \E i \in Ids, d \in {"approved", "rejected"} : Decide(i, d)
    /\ UNCHANGED executor

Steer == (SteerPause \/ SteerConstraint) /\ UNCHANGED executor

Next == Graph \/ Answer \/ Steer

\* The runner executes the graph until it ends or is interrupted, and the
\* user eventually answers an interrupt.
Spec == Init /\ [][Next]_vars /\ WF_vars(Graph) /\ WF_vars(Answer)
----------------------------------------------------------------------------
Nodes == {"ingest", "clarify", "plan", "dispatch", "exec_subtask", "review_all",
          "finalize", "fail_rework_limit", "end", "crashed"}

Sub == [status : {"absent", "pending", "executed", "passed", "rejected"},
        deps : SUBSET Ids, role : Roles, rework : Nat,
        sigs : Seq(Signatures \cup {"executor_unavailable"}),
        result : {None, "good", "bad"}, superseded : BOOLEAN]

\* The shape of the checkpointed task, the scheduler, the mailbox and the history;
\* executor never changes.
TypeOK ==
    /\ sub \in [Ids -> Sub]
    /\ status \in {"created", "planning", "paused", "completed", "failed"}
    /\ failure \in {None, "rework_limit_exceeded", "planning_invalid", "budget_exceeded",
                   "provider_error", "finalize_conditions_not_met", "completion_invalid"}
    /\ replanReason \in {None, "no_progress", "rework_limit", "user_steering"}
    /\ replanCount \in 0..ReplanLimit
    /\ goal \in Goals
    /\ reviewRequired \in BOOLEAN
    /\ clarifying \in BOOLEAN
    /\ node \in Nodes
    /\ sent \subseteq Ids
    /\ waiting \subseteq Ids
    /\ writes \subseteq Ids
    /\ intr \in {None, "control", "clarification", "approval"}
    /\ replay \in BOOLEAN
    /\ action \in {None, "pause", "stop"}
    /\ steering \in BOOLEAN
    /\ steers \in 0..MaxSteers
    /\ pauses \in 0..MaxPauses
    /\ execs \in [Ids -> Nat]
    /\ reworked \in BOOLEAN

\* Work is only built on accepted work: an active subtask that has executed
\* rests on dependencies that are active and passed, also across replans that
\* reuse subtask ids.
BuiltOnAccepted ==
    \A i \in Active : sub[i].status \in {"executed", "passed", "rejected"} =>
        \A d \in sub[i].deps : d \in Active /\ sub[d].status = "passed"

\* A completed task: every subtask of the plan in force passed its review
\* with a result the deterministic checks accept, and nothing is left running,
\* waiting for approval or due for a replan.
CompletedMeansAccepted ==
    status = "completed" =>
        /\ \A i \in Active : sub[i].status = "passed" /\ sub[i].result = "good"
        /\ sent = {} /\ waiting = {} /\ replanReason = None

\* "Targeted rework, no endless discussion": a subtask id is executed at most
\* (2 + 1) times under each of the ReplanLimit + 1 plans.
ExecBound == \A i \in Ids : execs[i] <= 3 * (ReplanLimit + 1)

\* "Rework limit exceeded (no progress in recent rework)" is only reported when some
\* work was rejected, or users steered the run more often than it may be replanned; and
\* only by the plan node: over-limit rework always carries a replan reason, so the edge
\* to fail_rework_limit is never taken.
LimitIsEarned ==
    /\ failure = "rework_limit_exceeded" => reworked \/ steers > ReplanLimit
    /\ node # "fail_rework_limit"

\* Both limits: how often work is repeated, and when the run gives up.
ReworkLimited == ExecBound /\ LimitIsEarned

\* Every run ends: reworks, replans, pauses and approvals cannot go on forever
\* as long as users answer.
Terminates == <>(node \in {"end", "crashed"})
=============================================================================
