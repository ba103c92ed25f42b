-------------------------- MODULE TaskGraphProofs --------------------------
(***************************************************************************)
(* Theorems about the orchestration graph, for every set of plans, goals   *)
(* and signatures and every replan limit:                                  *)
(*   TypeCorrect          the task state stays well formed and the replan  *)
(*                        count never passes its limit;                    *)
(*   AcceptedFoundations  executed work rests on passed, active work;      *)
(*   CompletionIsEarned   a completed task has only accepted subtasks;     *)
(*   ReworkEnds           subtasks are redone, and plans remade, only so   *)
(*                        often, and the run gives up only for a reason.   *)
(***************************************************************************)
EXTENDS TaskGraph, TLAPS

\* What the deterministic checks refuse never passes.
PassedIsGood == \A i \in Ids : sub[i].status = "passed" => sub[i].result = "good"

\* Outside the fan-out no exec_subtask task is running or waiting.
Quiescent == node \notin {"exec_subtask", "end", "crashed"} => sent = {} /\ waiting = {}

\* The plan in force is closed under dependencies.
Closed == \A i \in Active : sub[i].deps \subseteq Active

\* A task of the fan-out is an active, unfinished subtask whose dependencies passed.
InFlight ==
    node = "exec_subtask" =>
        /\ sent \cap waiting = {}
        /\ \A i \in sent \cup waiting :
             /\ i \in Active
             /\ sub[i].status \in {"pending", "rejected"}
             /\ \A d \in sub[i].deps : sub[d].status = "passed"

\* Before the first plan there are no subtasks; a later visit of plan has a reason.
FirstPlan ==
    node \in {"ingest", "clarify"} \/ (node = "plan" /\ replanReason = None)
        => \A i \in Ids : sub[i] = Absent

\* Where an interrupt can have paused the run.
Paused ==
    /\ intr = "approval" => node = "exec_subtask" /\ sent = {}
    /\ intr = "clarification" => node = "clarify"
    /\ intr = "control" => node \in Controlled

\* A completed run has ended, with nothing pending.
Settled ==
    /\ node = "finalize" => replanReason = None
    /\ status = "completed" =>
         node = "end" /\ sent = {} /\ waiting = {} /\ replanReason = None /\ AllPassed

IInv == /\ TypeOK /\ PassedIsGood /\ Quiescent /\ Closed /\ InFlight /\ FirstPlan
        /\ Paused /\ Settled /\ BuiltOnAccepted

\* A subtask that is not in a plan has a well-formed record.
LEMMA AbsentType == Absent \in Sub
BY DEF Absent, Sub, Roles, None

\* A fresh subtask of a valid plan is well formed.
LEMMA FreshType ==
    ASSUME NEW p \in Plans, NEW i \in DOMAIN p
    PROVE  /\ Fresh(p, i) \in Sub
           /\ Fresh(p, i).status = "pending" /\ ~Fresh(p, i).superseded
           /\ Fresh(p, i).deps = p[i].deps /\ p[i].deps \subseteq DOMAIN p
           /\ DOMAIN p \subseteq Ids
<1>1. p[i].deps \subseteq Ids /\ p[i].role \in Roles
  BY TaskGraphAssumption
<1> QED
  BY <1>1, AbsentType, TaskGraphAssumption DEF Fresh, Absent, Sub

\* A rejection keeps the record well formed.
LEMMA RejectType ==
    ASSUME NEW r \in Sub, NEW sig \in Signatures \cup {"executor_unavailable"}
    PROVE  Reject(r, sig) \in Sub
<1> DEFINE S == Signatures \cup {"executor_unavailable"}
<1>1. r.rework + 1 \in Nat
  BY DEF Sub
<1>2. Append(r.sigs, sig) \in Seq(S)
  <2>1. r.sigs \in Seq(S)
    BY DEF Sub
  <2> HIDE DEF S
  <2>2. sig \in S
    BY DEF S
  <2> QED
    BY <2>1, <2>2
<1> HIDE DEF S
<1> QED
  BY <1>1, <1>2 DEF Reject, Sub, S

\* An over-limit rejection always yields a reason to replan, so route_after_review
\* never sends a run without a reason to plan.
LEMMA PlanNeedsReason ==
    ASSUME NEW s, NEW reason, reason = ReviewReason(s),
           RouteAfterReview(s, reason) = "plan"
    PROVE  reason # None
<1>1. SUFFICES ASSUME reason = None PROVE FALSE
  OBVIOUS
<1>2. ~steering /\ (\A i \in Rejected(s) : ~NoProgress(s[i].sigs))
  BY <1>1 DEF ReviewReason, None
<1>3. ~(\E i \in Rejected(s) : s[i].rework > MaxReworkFor(goal.complexity))
  BY <1>1, <1>2 DEF ReviewReason, None
<1> QED
  BY <1>1, <1>3 DEF RouteAfterReview

\* The reason and the next node after a review are among the known ones.
LEMMA ReviewTypes ==
    ASSUME NEW s, NEW reason
    PROVE  /\ ReviewReason(s) \in {None, "no_progress", "rework_limit", "user_steering"}
           /\ RouteAfterReview(s, reason) \in {"plan", "dispatch", "finalize", "fail_rework_limit"}
           /\ RouteAfterReview(s, reason) = "finalize" => reason = None
BY DEF ReviewReason, RouteAfterReview, None

\* The part of the invariant that is about the subtasks alone.
WellPlanned == sub \in [Ids -> Sub] /\ PassedIsGood /\ Closed /\ BuiltOnAccepted

\* Installing a plan: its subtasks are fresh, everything else is absent before
\* the first plan and superseded after a replan.
LEMMA Installed ==
    ASSUME IInv, NEW p, DOMAIN p \subseteq Ids,
           \A i \in DOMAIN p : /\ Fresh(p, i) \in Sub
                               /\ Fresh(p, i).status = "pending" /\ ~Fresh(p, i).superseded
                               /\ Fresh(p, i).deps \subseteq DOMAIN p,
           NEW re \in BOOLEAN, re <=> replanReason # None, node = "plan",
           sub' = Install(p, re)
    PROVE  WellPlanned'
<1>1. \A i \in DOMAIN p : i \in Ids /\ sub'[i] = Fresh(p, i)
  BY DEF Install
<1>2. sub \in [Ids -> Sub]
  BY DEF IInv, TypeOK
<1>3. \A i \in Ids \ DOMAIN p :
         /\ re /\ i \in Known => sub'[i] = [sub[i] EXCEPT !.superseded = TRUE]
         /\ ~re \/ i \notin Known => sub'[i] = sub[i]
         /\ ~re => i \notin Known
  <2>1. ~re => \A i \in Ids : sub[i].status = "absent"
    BY DEF IInv, FirstPlan, Absent
  <2> QED
    BY <2>1 DEF Install, Known
<1>4. \A i \in Ids \ DOMAIN p :
         /\ sub'[i] \in Sub
         /\ sub'[i].status # "absent" => sub'[i].superseded
         /\ sub'[i].status = "passed" => sub'[i].result = "good"
  <2> SUFFICES ASSUME NEW i \in Ids \ DOMAIN p
               PROVE  /\ sub'[i] \in Sub
                      /\ sub'[i].status # "absent" => sub'[i].superseded
                      /\ sub'[i].status = "passed" => sub'[i].result = "good"
    OBVIOUS
  <2>1. CASE i \in Known
    <3>1. sub'[i] = [sub[i] EXCEPT !.superseded = TRUE] /\ sub[i] \in Sub
      BY <1>2, <1>3, <2>1
    <3>2. /\ sub'[i] \in Sub /\ sub'[i].superseded
          /\ sub'[i].status = sub[i].status /\ sub'[i].result = sub[i].result
      BY <3>1 DEF Sub
    <3> QED
      BY <3>2 DEF IInv, PassedIsGood
  <2>2. CASE i \notin Known
    BY <1>2, <1>3, <2>2 DEF Known
  <2> QED
    BY <2>1, <2>2
<1>5. sub' = [i \in Ids |-> sub'[i]]
  BY DEF Install
<1>6. (sub \in [Ids -> Sub])'
  BY <1>1, <1>4, <1>5
<1>7. Active' = DOMAIN p
  BY <1>1, <1>4 DEF Active, Known
<1> QED
  BY <1>1, <1>4, <1>6, <1>7 DEF WellPlanned, PassedIsGood, Closed, BuiltOnAccepted

\* A record of the current state is well formed.
LEMMA SubType == IInv => sub \in [Ids -> Sub]
BY DEF IInv, TypeOK

\* Steps that leave the subtasks and their scheduling alone.
LEMMA Frame ==
    ASSUME IInv, UNCHANGED <<sub, sent, waiting>>, TypeOK', Paused',
           node' \in {node, "end"},
           UNCHANGED replanReason \/ (node' = "end" /\ status' = "failed"),
           UNCHANGED status \/ status' \in {"failed", "paused"}
    PROVE  IInv'
<1>1. (PassedIsGood /\ Closed /\ BuiltOnAccepted)'
  BY DEF IInv, PassedIsGood, Closed, BuiltOnAccepted, Active, Known
<1>2. (Quiescent /\ InFlight)'
  BY DEF IInv, Quiescent, InFlight, Active, Known
<1>3. (FirstPlan /\ Settled)'
  BY DEF IInv, FirstPlan, Settled, AllPassed, Active, Known
<1> QED
  BY <1>1, <1>2, <1>3 DEF IInv

\* The user's steering calls, resume and clarification answers.
LEMMA UserSteps ==
    ASSUME IInv, SteerPause \/ SteerConstraint \/ ResumeControl \/ AnswerClarification
    PROVE  IInv'
<1>1. CASE SteerPause
  <2>1. TypeOK' /\ Paused'
    BY <1>1, TaskGraphAssumption DEF IInv, SteerPause, TypeOK, Paused, task, sched
  <2> QED
    BY <1>1, <2>1, Frame DEF SteerPause, task, sched
<1>2. CASE SteerConstraint
  <2>1. TypeOK' /\ Paused'
    BY <1>2, TaskGraphAssumption DEF IInv, SteerConstraint, TypeOK, Paused, task, sched
  <2> QED
    BY <1>2, <2>1, Frame DEF SteerConstraint, task, sched
<1>3. CASE ResumeControl
  <2>1. TypeOK' /\ Paused'
    BY <1>3 DEF IInv, ResumeControl, TypeOK, Paused, task, mailbox, history, None
  <2> QED
    BY <1>3, <2>1, Frame DEF ResumeControl, task
<1>4. CASE AnswerClarification
  <2>0. TypeOK'
    <3>1. clarifying' \in BOOLEAN /\ intr' = None /\ node' = "plan"
      BY <1>4 DEF AnswerClarification
    <3>2. UNCHANGED <<sub, status, failure, replanReason, replanCount, goal, reviewRequired,
                      sent, waiting, writes, replay, action, steering, steers, pauses,
                      execs, reworked>>
      BY <1>4 DEF AnswerClarification, mailbox, history
    <3> QED
      BY <3>1, <3>2 DEF IInv, TypeOK, Nodes
  <2>1. Paused'
    BY <1>4 DEF AnswerClarification, Paused, None
  <2>2. node = "clarify" /\ \A i \in Ids : sub[i] = Absent
    BY <1>4 DEF IInv, AnswerClarification, Paused, FirstPlan
  <2>3. (PassedIsGood /\ Closed /\ BuiltOnAccepted)'
    BY <1>4 DEF AnswerClarification, IInv, PassedIsGood, Closed, BuiltOnAccepted, Active, Known
  <2> QED
    BY <1>4, <2>0, <2>1, <2>2, <2>3
       DEF AnswerClarification, IInv, Quiescent, InFlight, FirstPlan, Settled
<1> QED
  BY <1>1, <1>2, <1>3, <1>4

\* Interrupts at a node boundary, failures of a node, and the plan node's failures.
LEMMA FailSteps ==
    ASSUME IInv, ControlInterrupt \/ ClarifyInterrupt \/ NodeFails \/ PlanLimit \/ PlanInvalid
    PROVE  IInv'
<1>1. CASE ControlInterrupt
  <2>1. TypeOK' /\ Paused'
    BY <1>1 DEF IInv, ControlInterrupt, TypeOK, Paused, mailbox, history
  <2> QED
    BY <1>1, <2>1, Frame DEF ControlInterrupt
<1>2. CASE ClarifyInterrupt
  <2>1. TypeOK' /\ Paused'
    BY <1>2 DEF IInv, ClarifyInterrupt, TypeOK, Paused, mailbox, history
  <2> QED
    BY <1>2, <2>1, Frame DEF ClarifyInterrupt
<1>3. CASE NodeFails
  <2>1. TypeOK' /\ Paused'
    BY <1>3 DEF IInv, NodeFails, Fail, Running, TypeOK, Nodes, Paused, mailbox, history, None
  <2> QED
    BY <1>3, <2>1, Frame DEF NodeFails, Fail
<1>4. ASSUME NEW code \in {"rework_limit_exceeded", "planning_invalid"}, EnterPlan, Fail(code),
             UNCHANGED <<sub, replanCount, goal, reviewRequired>>
      PROVE  IInv'
  <2>1. steering' \in BOOLEAN /\ replay' \in BOOLEAN /\ action' = None /\ replanReason' = None
        /\ intr' = None /\ intr = None
    BY <1>4 DEF EnterPlan, Enter, Running
  <2>2. UNCHANGED <<clarifying, sent, waiting, writes, intr, steers, pauses, execs, reworked>>
    BY <1>4 DEF EnterPlan, history
  <2>3. TypeOK'
    BY <1>4, <2>1, <2>2 DEF IInv, TypeOK, Fail, Nodes
  <2>4. Paused'
    BY <2>1 DEF Paused, None
  <2> QED
    BY <1>4, <2>2, <2>3, <2>4, Frame DEF Fail
<1> QED
  BY <1>1, <1>2, <1>3, <1>4 DEF PlanLimit, PlanInvalid

\* ingest only decides whether to ask for clarification.
LEMMA IngestStep == ASSUME IInv, Ingest PROVE IInv'
<1>1. /\ replay' \in BOOLEAN /\ action' = None /\ intr' = None /\ node = "ingest"
      /\ node' \in {"clarify", "plan"} /\ clarifying' \in BOOLEAN
      /\ UNCHANGED <<sub, status, failure, replanReason, replanCount, goal, reviewRequired, sent,
                     waiting, writes, intr, steering, steers, pauses, execs, reworked>>
  BY DEF Ingest, Enter, Running, history
<1>2. TypeOK'
  BY <1>1 DEF IInv, TypeOK, Nodes
<1>3. (PassedIsGood /\ Closed /\ BuiltOnAccepted)'
  BY <1>1 DEF IInv, PassedIsGood, Closed, BuiltOnAccepted, Active, Known
<1>4. (Quiescent /\ InFlight /\ FirstPlan /\ Paused /\ Settled)'
  BY <1>1 DEF IInv, Quiescent, InFlight, FirstPlan, Paused, Settled, None
<1> QED
  BY <1>2, <1>3, <1>4 DEF IInv

\* A new plan in force: nothing of it has run yet.
LEMMA PlanSteps == ASSUME IInv, PlanFast \/ PlanFull PROVE IInv'
<1>1. /\ steering' \in BOOLEAN /\ replay' \in BOOLEAN /\ reviewRequired' \in BOOLEAN
      /\ action' = None /\ replanReason' = None /\ intr' = None
      /\ node = "plan" /\ node' = "dispatch" /\ status' = "planning" /\ goal' \in Goals
      /\ UNCHANGED <<clarifying, sent, waiting, writes, intr, failure, steers, pauses,
                     execs, reworked>>
  BY DEF PlanFast, PlanFull, EnterPlan, Enter, Running, history
<1>2. replanCount' \in 0..ReplanLimit
  <2>1. CASE PlanFast
    BY <2>1 DEF PlanFast, IInv, TypeOK
  <2>2. CASE PlanFull /\ replanReason = None
    BY <2>2 DEF PlanFull, IInv, TypeOK
  <2>3. CASE PlanFull /\ replanReason # None
    BY <2>3, TaskGraphAssumption DEF PlanFull, IInv, TypeOK
  <2> QED
    BY <2>1, <2>2, <2>3
<1>3. WellPlanned'
  <2>1. CASE PlanFast /\ sub' = sub
    BY <2>1, SubType DEF WellPlanned, IInv, PassedIsGood, Closed, BuiltOnAccepted, Active, Known
  <2>2. ASSUME NEW i \in Ids, PlanFast,
               sub' = Install([j \in {i} |-> [deps |-> {}, role |-> "researcher"]], FALSE)
        PROVE  WellPlanned'
    <3> DEFINE p == [j \in {i} |-> [deps |-> {}, role |-> "researcher"]]
    <3>1. replanReason = None
      BY <2>2 DEF PlanFast
    <3>2. DOMAIN p = {i}
      OBVIOUS
    <3>3. \A j \in DOMAIN p : /\ Fresh(p, j) \in Sub
                              /\ Fresh(p, j).status = "pending" /\ ~Fresh(p, j).superseded
                              /\ Fresh(p, j).deps \subseteq DOMAIN p
      BY AbsentType DEF Fresh, Absent, Sub, Roles
    <3> HIDE DEF p
    <3>4. sub' = Install(p, FALSE)
      BY <2>2 DEF p
    <3> QED
      BY <1>1, <3>1, <3>2, <3>3, <3>4, Installed
  <2>3. ASSUME NEW p \in Plans, PlanFull, sub' = Install(p, replanReason # None)
        PROVE  WellPlanned'
    <3>1. DOMAIN p \subseteq Ids
      BY TaskGraphAssumption
    <3>2. \A j \in DOMAIN p : /\ Fresh(p, j) \in Sub
                              /\ Fresh(p, j).status = "pending" /\ ~Fresh(p, j).superseded
                              /\ Fresh(p, j).deps \subseteq DOMAIN p
      BY FreshType
    <3> QED
      BY <1>1, <2>3, <3>1, <3>2, Installed
  <2>4. CASE PlanFast
    <3>1. \/ sub' = sub
          \/ \E i \in Ids : sub' = Install([j \in {i} |-> [deps |-> {}, role |-> "researcher"]], FALSE)
      BY <2>4 DEF PlanFast
    <3> QED
      BY <2>1, <2>2, <2>4, <3>1
  <2>5. CASE PlanFull
    <3>1. \E p \in Plans : sub' = Install(p, replanReason # None)
      BY <2>5 DEF PlanFull
    <3> QED
      BY <2>3, <2>5, <3>1
  <2> QED
    BY <2>4, <2>5
<1>4. TypeOK'
  BY <1>1, <1>2, <1>3 DEF IInv, TypeOK, Nodes, WellPlanned
<1>5. (Quiescent /\ InFlight /\ FirstPlan /\ Paused /\ Settled)'
  BY <1>1 DEF IInv, Quiescent, InFlight, FirstPlan, Paused, Settled, None
<1> QED
  BY <1>3, <1>4, <1>5 DEF IInv, WellPlanned

\* dispatch sends exactly the subtasks that are in flight afterwards.
LEMMA DispatchStep == ASSUME IInv, Dispatch PROVE IInv'
<1>1. /\ replay' \in BOOLEAN /\ action' = None /\ intr' = None
      /\ node = "dispatch" /\ sent' = Ready /\ writes' = {}
      /\ node' \in {"review_all", "exec_subtask"} /\ (node' = "review_all" => Ready = {})
      /\ UNCHANGED <<sub, status, failure, replanReason, replanCount, goal, reviewRequired,
                     clarifying, waiting, intr, steering, steers, pauses, execs, reworked>>
  BY DEF Dispatch, Enter, Running, task, history
<1>2. Ready \subseteq Ids
  BY DEF Ready, Active, Known
<1>3. TypeOK'
  BY <1>1, <1>2 DEF IInv, TypeOK, Nodes
<1>4. (PassedIsGood /\ Closed /\ BuiltOnAccepted)'
  BY <1>1 DEF IInv, PassedIsGood, Closed, BuiltOnAccepted, Active, Known
<1>5. waiting' = {}
  BY <1>1 DEF IInv, Quiescent
<1>6. InFlight'
  BY <1>1, <1>5 DEF InFlight, Ready, Active, Known
<1>7. (Quiescent /\ FirstPlan /\ Paused /\ Settled)'
  BY <1>1, <1>5 DEF IInv, Quiescent, FirstPlan, Paused, Settled, None
<1> QED
  BY <1>3, <1>4, <1>6, <1>7 DEF IInv

\* A task in flight, as InFlight says.
Flying(i) == /\ i \in Active
             /\ sub[i].status \in {"pending", "rejected"}
             /\ \A d \in sub[i].deps : sub[d].status = "passed"

\* The result of one task in flight disturbs neither the finished work nor the
\* other tasks in flight: none of them depends on a task that has not passed.
LEMMA Ran ==
    ASSUME IInv, NEW i \in Ids, Flying(i), NEW r \in Sub,
           r.status \in {"executed", "rejected"},
           r.deps = sub[i].deps, r.superseded = sub[i].superseded,
           sub' = [sub EXCEPT ![i] = r]
    PROVE  /\ WellPlanned'
           /\ \A j \in Ids \ {i} : Flying(j) => Flying(j)'
<1>1. sub \in [Ids -> Sub]
  BY SubType
<1>2. sub' \in [Ids -> Sub] /\ sub'[i] = r /\ \A j \in Ids \ {i} : sub'[j] = sub[j]
  BY <1>1
<1>3. sub[i].status # "absent" /\ sub[i].status # "passed" /\ r.status # "absent"
  BY DEF Flying
<1>4. Active' = Active /\ i \in Active
  BY <1>2, <1>3 DEF Active, Known, Flying
<1>5. PassedIsGood'
  BY <1>2 DEF IInv, PassedIsGood
<1>6. Closed'
  BY <1>2, <1>4 DEF IInv, Closed, Active, Known
<1>7. \A d \in sub[i].deps : d # i /\ d \in Active /\ sub'[d].status = "passed"
  BY <1>2, <1>3, <1>4 DEF IInv, Closed, Flying, Active, Known
<1>8. \A j \in Active \ {i} : sub[j].status \in {"executed", "passed", "rejected"} =>
         \A d \in sub[j].deps : d # i /\ d \in Active /\ sub[d].status = "passed"
  BY <1>3 DEF IInv, BuiltOnAccepted
<1>9. BuiltOnAccepted'
  BY <1>2, <1>4, <1>7, <1>8 DEF BuiltOnAccepted, Active, Known
<1>10. ASSUME NEW j \in Ids \ {i}, Flying(j) PROVE Flying(j)'
  <2>1. \A d \in sub[j].deps : d # i /\ d \in Ids
    BY <1>1, <1>3, <1>10 DEF Flying, Sub
  <2> QED
    BY <1>2, <1>4, <1>10, <2>1 DEF Flying
<1> QED
  BY <1>2, <1>5, <1>6, <1>9, <1>10 DEF WellPlanned

\* After a task of the fan-out the invariant holds again, whatever FanIn decides.
LEMMA FanInStep ==
    ASSUME IInv, Running, node = "exec_subtask", NEW i \in sent, sent' = sent \ {i},
           waiting' \in {waiting, waiting \cup {i}}, FanIn(sent', waiting', writes'),
           TypeOK', WellPlanned', \A j \in sent' \cup waiting' : Flying(j)'
    PROVE  IInv'
<1>1. /\ node' \in {"exec_subtask", "crashed", "review_all"}
      /\ node' = "review_all" => sent' = {} /\ waiting' = {}
      /\ intr' = None \/ (intr' = "approval" /\ node' = "exec_subtask" /\ sent' = {})
      /\ status' \in {status, "paused"}
  BY DEF FanIn, Running
<1>2. status # "completed"
  BY DEF IInv, Settled
<1>3. InFlight'
  BY DEF InFlight, Flying, IInv
<1> QED
  BY <1>1, <1>2, <1>3 DEF IInv, WellPlanned, Quiescent, FirstPlan, Paused, Settled, None

\* Recording a result is an update with a well-formed, executed record.
LEMMA ExecutedType ==
    ASSUME IInv, NEW i \in Ids, NEW result \in {"good", "bad"}, Executed(i, result)
    PROVE  \E r \in Sub : /\ r.status = "executed"
                          /\ r.deps = sub[i].deps /\ r.superseded = sub[i].superseded
                          /\ r.rework = sub[i].rework
                          /\ sub' = [sub EXCEPT ![i] = r]
<1> DEFINE r == [sub[i] EXCEPT !.status = "executed", !.result = result]
<1>1. sub \in [Ids -> Sub] /\ sub[i] \in Sub
  BY SubType
<1>2. r \in Sub /\ r.status = "executed" /\ r.deps = sub[i].deps
      /\ r.superseded = sub[i].superseded /\ r.rework = sub[i].rework
  BY <1>1 DEF Sub
<1>3. sub' = [sub EXCEPT ![i] = r]
  BY <1>1 DEF Executed, Sub
<1> HIDE DEF r
<1> QED
  BY <1>2, <1>3

\* A subtask that runs to its result.
LEMMA ExecSubtaskStep == ASSUME IInv, NEW i \in Ids, ExecSubtask(i) PROVE IInv'
<1>1. /\ Running /\ node = "exec_subtask" /\ i \in sent /\ sent' = sent \ {i}
      /\ waiting' = waiting /\ writes' = writes /\ FanIn(sent', waiting', writes')
      /\ UNCHANGED <<failure, replanReason, replanCount, goal, reviewRequired, clarifying,
                     replay, action, steering, steers, pauses, reworked>>
  BY DEF ExecSubtask, Runs, mailbox
<1>2. PICK result \in {"good", "bad"} : Executed(i, result)
  BY DEF ExecSubtask
<1>3. PICK r \in Sub : /\ r.status = "executed"
                       /\ r.deps = sub[i].deps /\ r.superseded = sub[i].superseded
                       /\ sub' = [sub EXCEPT ![i] = r]
  BY <1>2, ExecutedType
<1>4. \A j \in sent \cup waiting : j \in Ids /\ Flying(j)
  BY <1>1 DEF IInv, InFlight, Flying, TypeOK
<1>5. WellPlanned' /\ \A j \in Ids \ {i} : Flying(j) => Flying(j)'
  BY <1>1, <1>3, <1>4, Ran
<1>6. i \notin waiting'
  BY <1>1 DEF IInv, InFlight
<1>7. execs' \in [Ids -> Nat]
  BY DEF ExecSubtask, Count, IInv, TypeOK
<1>8. TypeOK'
  <2>1. /\ node' \in Nodes /\ intr' \in {None, "approval"}
        /\ status' \in {status, "paused"}
    BY <1>1 DEF FanIn, Running, Nodes
  <2>2. TypeOK /\ sub' \in [Ids -> Sub] /\ sent' \subseteq sent
    BY <1>1, <1>5 DEF IInv, WellPlanned
  <2> QED
    BY <1>1, <1>7, <2>1, <2>2 DEF TypeOK
<1> QED
  BY <1>1, <1>4, <1>5, <1>6, <1>8, FanInStep

\* An executor that stops for approval.
LEMMA ExecAskStep == ASSUME IInv, NEW i \in Ids, ExecAsk(i) PROVE IInv'
<1>1. /\ Running /\ node = "exec_subtask" /\ i \in sent /\ sent' = sent \ {i}
      /\ waiting' = waiting \cup {i} /\ writes' = writes /\ FanIn(sent', waiting', writes')
      /\ UNCHANGED <<sub, failure, replanReason, replanCount, goal, reviewRequired, clarifying,
                     replay, action, steering, steers, pauses, execs, reworked>>
  BY DEF ExecAsk, Runs, mailbox, history
<1>2. WellPlanned'
  BY <1>1, SubType DEF IInv, WellPlanned, PassedIsGood, Closed, BuiltOnAccepted, Active, Known
<1>3. \A j \in sent' \cup waiting' : Flying(j)'
  BY <1>1 DEF IInv, InFlight, Flying, Active, Known
<1>4. TypeOK'
  <2>1. /\ node' \in Nodes /\ intr' \in {None, "approval"}
        /\ status' \in {status, "paused"}
    BY <1>1 DEF FanIn, Running, Nodes
  <2> QED
    BY <1>1, <2>1 DEF IInv, TypeOK
<1> QED
  BY <1>1, <1>2, <1>3, <1>4, FanInStep

\* A subtask rejected because there is no executor.
LEMMA ExecUnavailableStep == ASSUME IInv, NEW i \in Ids, ExecUnavailable(i) PROVE IInv'
<1> DEFINE r == Reject(sub[i], "executor_unavailable")
<1>1. /\ Running /\ node = "exec_subtask" /\ i \in sent /\ sent' = sent \ {i}
      /\ waiting' = waiting /\ writes' \in {writes, writes \cup {i}}
      /\ FanIn(sent', waiting', writes') /\ reworked' \in BOOLEAN
      /\ replanReason' \in {replanReason, "no_progress"}
      /\ sub' = [sub EXCEPT ![i] = r]
      /\ UNCHANGED <<failure, replanCount, goal, reviewRequired, clarifying,
                     replay, action, steering, steers, pauses>>
  BY DEF ExecUnavailable, Runs, mailbox
<1>2. sub[i] \in Sub /\ r \in Sub
  BY SubType, RejectType
<1>3. r.status = "rejected" /\ r.deps = sub[i].deps /\ r.superseded = sub[i].superseded
  BY <1>2 DEF Reject, Sub
<1> HIDE DEF r
<1>4. \A j \in sent \cup waiting : j \in Ids /\ Flying(j)
  BY <1>1 DEF IInv, InFlight, Flying, TypeOK
<1>5. WellPlanned' /\ \A j \in Ids \ {i} : Flying(j) => Flying(j)'
  BY <1>1, <1>2, <1>3, <1>4, Ran
<1>6. i \notin waiting'
  BY <1>1 DEF IInv, InFlight
<1>7. execs' \in [Ids -> Nat]
  BY DEF ExecUnavailable, Count, IInv, TypeOK
<1>8. TypeOK'
  <2>1. /\ node' \in Nodes /\ intr' \in {None, "approval"}
        /\ status' \in {status, "paused"}
    BY <1>1 DEF FanIn, Running, Nodes
  <2> QED
    BY <1>1, <1>5, <1>7, <2>1 DEF IInv, TypeOK, WellPlanned
<1> QED
  BY <1>1, <1>4, <1>5, <1>6, <1>8, FanInStep

\* The decision on an approval lets one waiting task finish.
LEMMA DecideStep ==
    ASSUME IInv, NEW i \in Ids, NEW d \in {"approved", "rejected"}, Decide(i, d)
    PROVE  IInv'
<1>1. /\ intr = "approval" /\ i \in waiting /\ waiting' = waiting \ {i}
      /\ \/ waiting' = {} /\ node' = "review_all" /\ intr' = None
         \/ waiting' # {} /\ node' = node /\ intr' = intr
  BY DEF Decide
<1>0. UNCHANGED <<status, failure, replanReason, replanCount, goal, reviewRequired, clarifying,
                  sent, writes, replay, action, steering, steers, pauses, reworked>>
  BY DEF Decide, mailbox
<1>2. node = "exec_subtask" /\ sent = {} /\ sent' = {} /\ status # "completed"
  BY <1>0, <1>1 DEF IInv, Paused, Settled
<1>3. PICK result \in {"good", "bad"} : Executed(i, result)
  BY DEF Decide
<1>4. PICK r \in Sub : /\ r.status = "executed"
                       /\ r.deps = sub[i].deps /\ r.superseded = sub[i].superseded
                       /\ sub' = [sub EXCEPT ![i] = r]
  BY <1>3, ExecutedType
<1>5. \A j \in waiting : j \in Ids /\ Flying(j)
  BY <1>2 DEF IInv, InFlight, Flying, TypeOK
<1>6. WellPlanned' /\ \A j \in Ids \ {i} : Flying(j) => Flying(j)'
  BY <1>1, <1>4, <1>5, Ran
<1>7. \A j \in sent' \cup waiting' : Flying(j)'
  BY <1>1, <1>2, <1>5, <1>6
<1>8. execs' \in [Ids -> Nat]
  BY DEF Decide, Count, IInv, TypeOK
<1>9. TypeOK'
  <2>1. TypeOK /\ sub' \in [Ids -> Sub] /\ waiting' \subseteq waiting /\ node' \in Nodes
        /\ intr' \in {None, "approval"}
    BY <1>1, <1>2, <1>6 DEF IInv, WellPlanned, Nodes
  <2>2. TypeOK!1'
    BY <2>1
  <2> QED
    BY <1>0, <1>8, <2>1, <2>2 DEF TypeOK
<1>10. InFlight'
  BY <1>2, <1>7 DEF InFlight, Flying
<1> QED
  BY <1>0, <1>1, <1>2, <1>6, <1>9, <1>10
     DEF IInv, WellPlanned, Quiescent, FirstPlan, Paused, Settled, None

\* One subtask through the review: it stays well formed and in force, passes only
\* with a good result, and is untouched when it has not just been executed.
LEMMA ReviewOne ==
    ASSUME IInv, NEW verdict \in [Reviewed -> {"PASS", "REWORK"}],
           NEW sig \in [Reviewed -> Signatures],
           \A i \in Reviewed : verdict[i] \in Verdicts(i),
           NEW i \in Ids, NEW r,
           r = IF i \notin Reviewed THEN sub[i]
               ELSE IF verdict[i] = "PASS" THEN [sub[i] EXCEPT !.status = "passed"]
               ELSE Reject(sub[i], sig[i])
    PROVE  /\ r \in Sub
           /\ r.deps = sub[i].deps /\ r.superseded = sub[i].superseded
           /\ r.status = "absent" <=> sub[i].status = "absent"
           /\ r.status = "passed" => r.result = "good"
           /\ sub[i].status # "executed" => r = sub[i]
           /\ r.status \in {"executed", "passed", "rejected"}
                => sub[i].status \in {"executed", "passed", "rejected"}
<1>1. sub[i] \in Sub
  BY SubType
<1>2. CASE i \notin Reviewed
  BY <1>1, <1>2 DEF IInv, PassedIsGood
<1>3. CASE i \in Reviewed /\ verdict[i] = "PASS"
  <2>1. sub[i].result = "good"
    BY <1>3 DEF Verdicts
  <2>2. r = [sub[i] EXCEPT !.status = "passed"] /\ sub[i].status = "executed"
    BY <1>3 DEF Reviewed
  <2> QED
    BY <1>1, <2>1, <2>2 DEF Sub
<1>4. CASE i \in Reviewed /\ verdict[i] # "PASS"
  <2>1. r = Reject(sub[i], sig[i]) /\ sub[i].status = "executed" /\ sig[i] \in Signatures
    BY <1>4 DEF Reviewed
  <2>2. r \in Sub
    BY <1>1, <2>1, RejectType
  <2> QED
    BY <1>1, <2>1, <2>2 DEF Reject, Sub
<1> QED
  BY <1>2, <1>3, <1>4

\* review_all passes and rejects executed work and never sends a run without a
\* reason back to plan.
LEMMA ReviewStep == ASSUME IInv, ReviewAll PROVE IInv'
<1>1. /\ replay' \in BOOLEAN /\ steering' \in BOOLEAN /\ action' = None /\ intr' = None
      /\ node = "review_all" /\ replanReason' = ReviewReason(sub')
      /\ node' = RouteAfterReview(sub', replanReason')
  BY DEF ReviewAll, Enter, Running
<1>2. UNCHANGED <<status, failure, replanCount, goal, reviewRequired, clarifying,
                  sent, waiting, writes, intr, steers, pauses, execs>>
  BY DEF ReviewAll
<1>3. reworked' \in BOOLEAN
  BY DEF ReviewAll, IInv, TypeOK
<1>4. PICK verdict \in [Reviewed -> {"PASS", "REWORK"}], sig \in [Reviewed -> Signatures] :
         /\ \A i \in Reviewed : verdict[i] \in Verdicts(i)
         /\ sub' = [i \in Ids |->
                       IF i \notin Reviewed THEN sub[i]
                       ELSE IF verdict[i] = "PASS" THEN [sub[i] EXCEPT !.status = "passed"]
                       ELSE Reject(sub[i], sig[i])]
  BY DEF ReviewAll
<1>5. \A i \in Ids :
         /\ sub'[i] \in Sub
         /\ sub'[i].deps = sub[i].deps /\ sub'[i].superseded = sub[i].superseded
         /\ sub'[i].status = "absent" <=> sub[i].status = "absent"
         /\ sub'[i].status = "passed" => sub'[i].result = "good"
         /\ sub[i].status # "executed" => sub'[i] = sub[i]
         /\ sub'[i].status \in {"executed", "passed", "rejected"}
              => sub[i].status \in {"executed", "passed", "rejected"}
  BY <1>4, ReviewOne
<1>6. sub' \in [Ids -> Sub]
  BY <1>4, <1>5
<1>7. Active' = Active /\ Active \subseteq Ids
  BY <1>5 DEF Active, Known
<1>8. (PassedIsGood /\ Closed /\ BuiltOnAccepted)'
  <2>1. PassedIsGood' /\ Closed'
    BY <1>5, <1>7 DEF IInv, PassedIsGood, Closed
  <2>2. BuiltOnAccepted'
    BY <1>5, <1>7 DEF IInv, BuiltOnAccepted
  <2> QED
    BY <2>1, <2>2
<1>9. /\ replanReason' \in {None, "no_progress", "rework_limit", "user_steering"}
      /\ node' \in {"plan", "dispatch", "finalize", "fail_rework_limit"}
      /\ node' = "finalize" => replanReason' = None
      /\ node' = "plan" => replanReason' # None
  BY <1>1, ReviewTypes, PlanNeedsReason
<1>10. TypeOK'
  <2>1. TypeOK /\ node' \in Nodes
    BY <1>9 DEF IInv, Nodes
  <2> QED
    BY <1>1, <1>2, <1>3, <1>6, <1>9, <2>1 DEF TypeOK
<1>11. sent' = {} /\ waiting' = {} /\ status' # "completed"
  BY <1>1, <1>2 DEF IInv, Quiescent, Settled
<1>12. (Quiescent /\ InFlight /\ FirstPlan /\ Paused /\ Settled)'
  BY <1>1, <1>9, <1>11 DEF Quiescent, InFlight, FirstPlan, Paused, Settled, None
<1> QED
  BY <1>8, <1>10, <1>12 DEF IInv

\* finalize completes the task only when every active subtask passed.
LEMMA FinalizeStep == ASSUME IInv, Finalize PROVE IInv'
<1>1. /\ replay' \in BOOLEAN /\ action' = None /\ intr' = None
      /\ node = "finalize" /\ node' = "end"
      /\ UNCHANGED <<sub, replanReason, replanCount, goal, reviewRequired, clarifying,
                     sent, waiting, writes, intr, steering, steers, pauses, execs, reworked>>
  BY DEF Finalize, Enter, Running, history
<1>2. PICK code \in FinalCodes : /\ failure' = code
                                 /\ status' = IF code = None THEN "completed" ELSE "failed"
  BY DEF Finalize
<1>3. /\ failure' \in {None, "finalize_conditions_not_met", "completion_invalid"}
      /\ status' \in {"completed", "failed"}
      /\ status' = "completed" => AllPassed
  BY <1>2 DEF FinalCodes, None
<1>4. TypeOK'
  <2>1. TypeOK /\ node' \in Nodes
    BY <1>1 DEF IInv, Nodes
  <2> QED
    BY <1>1, <1>3, <2>1 DEF TypeOK
<1>5. (PassedIsGood /\ Closed /\ BuiltOnAccepted)'
  BY <1>1 DEF IInv, PassedIsGood, Closed, BuiltOnAccepted, Active, Known
<1>6. sent' = {} /\ waiting' = {} /\ replanReason' = None
  BY <1>1 DEF IInv, Quiescent, Settled
<1>7. AllPassed' <=> AllPassed
  BY <1>1 DEF AllPassed, Active, Known
<1>8. (Quiescent /\ InFlight /\ FirstPlan /\ Paused /\ Settled)'
  BY <1>1, <1>3, <1>6, <1>7 DEF Quiescent, InFlight, FirstPlan, Paused, Settled, None
<1> QED
  BY <1>4, <1>5, <1>8 DEF IInv

\* A new run satisfies the invariant: there are no subtasks yet.
LEMMA InitIInv == Init => IInv
<1> SUFFICES ASSUME Init PROVE IInv
  OBVIOUS
<1>1. sub \in [Ids -> Sub] /\ \A i \in Ids : sub[i] = Absent /\ sub[i].status = "absent"
  BY AbsentType DEF Init, Absent
<1>2. /\ reviewRequired \in BOOLEAN /\ clarifying \in BOOLEAN /\ replay \in BOOLEAN
      /\ steering \in BOOLEAN /\ reworked \in BOOLEAN
  BY DEF Init
<1>3. TypeOK
  <2>1. /\ status = "created" /\ failure = None /\ replanReason = None /\ replanCount = 0
        /\ goal \in Goals /\ node = "ingest" /\ sent = {} /\ waiting = {} /\ writes = {}
        /\ intr = None /\ action = None /\ steers = 0 /\ pauses = 0
        /\ execs = [i \in Ids |-> 0]
    BY DEF Init
  <2> QED
    BY <1>1, <1>2, <2>1, TaskGraphAssumption DEF TypeOK, Nodes
<1>4. PassedIsGood /\ Closed /\ BuiltOnAccepted
  BY <1>1 DEF PassedIsGood, Closed, BuiltOnAccepted, Active, Known
<1>5. Quiescent /\ InFlight /\ FirstPlan /\ Paused /\ Settled
  BY <1>1 DEF Init, Quiescent, InFlight, FirstPlan, Paused, Settled, None
<1> QED
  BY <1>3, <1>4, <1>5 DEF IInv

\* A stuttering step changes nothing.
LEMMA StutterStep == ASSUME IInv, UNCHANGED vars PROVE IInv'
<1>1. UNCHANGED <<sub, status, failure, replanReason, replanCount, goal, reviewRequired,
                  clarifying, node, sent, waiting, writes, intr, replay, action, steering,
                  steers, pauses, execs, reworked>>
  BY DEF vars, task, sched, mailbox, history
<1>2. TypeOK' /\ Paused'
  BY <1>1 DEF IInv, TypeOK, Paused
<1> QED
  BY <1>1, <1>2, Frame

\* IInv is inductive.
LEMMA NextIInv == IInv /\ [Next]_vars => IInv'
<1> SUFFICES ASSUME IInv, [Next]_vars PROVE IInv'
  OBVIOUS
<1>1. CASE Graph
  <2>1. CASE ControlInterrupt \/ ClarifyInterrupt \/ NodeFails
    BY <2>1, FailSteps
  <2>2. CASE Plan
    BY <2>2, FailSteps, PlanSteps DEF Plan
  <2>3. CASE Ingest \/ Dispatch
    BY <2>3, IngestStep, DispatchStep
  <2>4. CASE Exec
    BY <2>4, ExecSubtaskStep, ExecAskStep, ExecUnavailableStep DEF Exec
  <2>5. CASE ReviewAll \/ Finalize
    BY <2>5, ReviewStep, FinalizeStep
  <2> QED
    BY <1>1, <2>1, <2>2, <2>3, <2>4, <2>5 DEF Graph
<1>2. CASE Answer
  BY <1>2, UserSteps, DecideStep DEF Answer
<1>3. CASE Steer
  BY <1>3, UserSteps DEF Steer
<1>4. CASE UNCHANGED vars
  BY <1>4, StutterStep
<1> QED
  BY <1>1, <1>2, <1>3, <1>4 DEF Next

\* The invariant holds throughout every run of the graph.
LEMMA Invariance == Spec => []IInv
<1>1. Init => IInv
  BY InitIInv
<1>2. IInv /\ [Next]_vars => IInv'
  BY NextIInv
<1> HIDE DEF IInv, Init, Next, vars
<1> QED
  BY <1>1, <1>2, PTL DEF Spec

\* The checkpointed task state stays well formed; in particular plan never
\* replans more than ReplanLimit times, whatever is rejected or steered.
THEOREM TypeCorrect == Spec => []TypeOK
<1>1. IInv => TypeOK
  BY DEF IInv
<1> QED
  BY <1>1, Invariance, PTL

\* Executed work rests on passed work of the plan in force, through every
\* interleaving of fan-out, approval, rework and replan.
THEOREM AcceptedFoundations == Spec => []BuiltOnAccepted
<1>1. IInv => BuiltOnAccepted
  BY DEF IInv
<1> QED
  BY <1>1, Invariance, PTL

\* finalize reports success only for work that the deterministic checks and the
\* review accepted, with nothing left in flight.
THEOREM CompletionIsEarned == Spec => []CompletedMeansAccepted
<1>1. IInv => CompletedMeansAccepted
  BY DEF IInv, CompletedMeansAccepted, Settled, AllPassed, PassedIsGood, Active, Known
<1> QED
  BY <1>1, Invariance, PTL
----------------------------------------------------------------------------
(***************************************************************************)
(* The limits on rework and on replans.                                    *)
(***************************************************************************)
\* How often a subtask was executed under the plan in force.
Rounds(i) == sub[i].rework + (IF sub[i].status \in {"executed", "passed"} THEN 1 ELSE 0)

\* A subtask is due again only while a round is left, and each plan adds three at most.
Bounded ==
    /\ \A i \in Ids \ Active : execs[i] <= 3 * replanCount
    /\ \A i \in Active :
         /\ execs[i] <= 3 * replanCount + Rounds(i)
         /\ Rounds(i) <= 3
         /\ sub[i].status = "pending" => sub[i].rework = 0
         /\ sub[i].status = "rejected" /\ (node = "dispatch" \/ (node = "exec_subtask" /\ i \in sent \cup waiting))
              => sub[i].rework <= 2

\* Replans that a steer or a rejection has called for and that are still to be made.
Called == (IF replanReason # None THEN 1 ELSE 0) + (IF steering THEN 1 ELSE 0)

\* Until something is rejected, every replan was called for by a steer of its own.
Steered ==
    /\ node # "fail_rework_limit"
    /\ failure = "rework_limit_exceeded" => reworked \/ steers > ReplanLimit
    /\ ~reworked => (\A i \in Ids : sub[i].status # "rejected") /\ replanCount + Called <= steers
\* The numbers these conditions are about.
LEMMA Numbers ==
    ASSUME TypeOK
    PROVE  /\ replanCount \in Nat /\ steers \in Nat /\ ReplanLimit \in Nat
           /\ Called \in 0..2
           /\ \A i \in Ids : sub[i] \in Sub /\ sub[i].rework \in Nat /\ execs[i] \in Nat
                             /\ Rounds(i) \in Nat
BY TaskGraphAssumption DEF TypeOK, Sub, Called, Rounds

\* Steps that run, reject and replan nothing.
LEMMA LimitsFrame ==
    ASSUME Bounded, Steered,
           UNCHANGED <<sub, execs, replanCount, replanReason, steering, steers, reworked>>,
           node' # "fail_rework_limit",
           \/ node' = node /\ UNCHANGED <<sent, waiting>>
           \/ node' \notin {"dispatch", "exec_subtask"},
           failure' = "rework_limit_exceeded" => failure = "rework_limit_exceeded"
    PROVE  Bounded' /\ Steered'
<1>1. Active' = Active
  BY DEF Active, Known
<1>2. Bounded'
  BY <1>1 DEF Bounded, Rounds
<1>3. Steered'
  BY DEF Steered, Called
<1> QED
  BY <1>2, <1>3

\* Interrupts, their answers, the ends of the run and requests to pause.
LEMMA QuietLimits ==
    ASSUME Bounded, Steered,
           \/ ControlInterrupt \/ ClarifyInterrupt \/ NodeFails \/ Ingest \/ Finalize
           \/ SteerPause \/ ResumeControl \/ AnswerClarification \/ UNCHANGED vars
    PROVE  Bounded' /\ Steered'
<1>0. node # "fail_rework_limit"
  BY DEF Steered
<1>1. CASE ControlInterrupt \/ ClarifyInterrupt
  BY <1>0, <1>1, LimitsFrame DEF ControlInterrupt, ClarifyInterrupt, mailbox, history
<1>2. CASE NodeFails
  BY <1>0, <1>2, LimitsFrame DEF NodeFails, Fail, mailbox, history
<1>3. CASE Ingest
  BY <1>0, <1>3, LimitsFrame DEF Ingest, Enter, history
<1>4. CASE Finalize
  BY <1>0, <1>4, LimitsFrame DEF Finalize, FinalCodes, None, Enter, history
<1>5. CASE SteerPause
  BY <1>0, <1>5, LimitsFrame DEF SteerPause, task, sched
<1>6. CASE ResumeControl \/ AnswerClarification
  BY <1>0, <1>6, LimitsFrame DEF ResumeControl, AnswerClarification, task, mailbox, history
<1>7. CASE UNCHANGED vars
  BY <1>0, <1>7, LimitsFrame DEF vars, task, sched, mailbox, history
<1> QED
  BY <1>1, <1>2, <1>3, <1>4, <1>5, <1>6, <1>7

\* A constraint calls for one replan.
LEMMA SteerLimits ==
    ASSUME IInv, Bounded, Steered, SteerConstraint
    PROVE  Bounded' /\ Steered'
<1>0. TypeOK
  BY DEF IInv
<1>1. /\ steers' = steers + 1 /\ steering' = TRUE
      /\ UNCHANGED <<sub, execs, replanCount, replanReason, reworked, node, sent, waiting, failure>>
  BY DEF SteerConstraint, task, sched
<1>2. Active' = Active
  BY <1>1 DEF Active, Known
<1>3. Bounded'
  BY <1>1, <1>2 DEF Bounded, Rounds
<1>4. Called' <= Called + 1 /\ Called' \in 0..2
  BY <1>0, <1>1 DEF Called, TypeOK
<1>5. Steered'
  BY <1>0, <1>1, <1>4, Numbers DEF Steered
<1> QED
  BY <1>3, <1>5

\* plan gives up after its last replan: what called for another one was a rejection, or
\* one steer more than there are replans.
LEMMA PlanFailsLimits ==
    ASSUME IInv, Bounded, Steered, PlanLimit \/ PlanInvalid
    PROVE  Bounded' /\ Steered'
<1>0. TypeOK
  BY DEF IInv
<1>1. /\ node' = "end" /\ steering' = FALSE /\ replanReason' = None
      /\ UNCHANGED <<sub, execs, replanCount, reworked, steers>>
      /\ \/ failure' = "planning_invalid"
         \/ failure' = "rework_limit_exceeded" /\ replanReason # None /\ replanCount >= ReplanLimit
  BY DEF PlanLimit, PlanInvalid, EnterPlan, Fail, history
<1>2. Active' = Active
  BY <1>1 DEF Active, Known
<1>3. Bounded'
  BY <1>1, <1>2 DEF Bounded, Rounds
<1>4. Called' = 0 /\ (replanReason # None => Called >= 1)
  BY <1>0, <1>1 DEF Called, TypeOK
<1>5. Steered'
  BY <1>0, <1>1, <1>4, Numbers DEF Steered
<1> QED
  BY <1>3, <1>5

\* A new plan: its subtasks have run under earlier plans only, each of which let them
\* run three times at most.
LEMMA PlanLimits ==
    ASSUME IInv, IInv', Bounded, Steered, PlanFast \/ PlanFull
    PROVE  Bounded' /\ Steered'
<1>0. TypeOK /\ TypeOK'
  BY DEF IInv
<1>1. /\ node = "plan" /\ node' = "dispatch" /\ steering' = FALSE /\ replanReason' = None
      /\ UNCHANGED <<execs, reworked, steers, failure>>
      /\ replanCount' = (IF replanReason = None THEN replanCount ELSE replanCount + 1)
  BY DEF PlanFast, PlanFull, EnterPlan, Enter, history
<1>2. \A i \in Ids : execs[i] <= 3 * replanCount'
  <2>1. CASE replanReason = None
    <3>1. \A i \in Ids : i \notin Active
      BY <1>1, <2>1 DEF IInv, FirstPlan, Active, Known, Absent
    <3> QED
      BY <1>1, <2>1, <3>1 DEF Bounded
  <2>2. CASE replanReason # None
    <3>1. \A i \in Active : execs[i] <= 3 * replanCount + 3
      BY <1>0, Numbers DEF Bounded, Active, Known
    <3>2. \A i \in Ids : execs[i] <= 3 * replanCount + 3
      BY <1>0, <3>1, Numbers DEF Bounded
    <3> QED
      BY <1>0, <1>1, <2>2, <3>2, Numbers
  <2> QED
    BY <2>1, <2>2
<1>3. \A i \in Active' : sub'[i].status = "pending" /\ sub'[i].rework = 0
  <2>1. ASSUME NEW p, NEW re \in BOOLEAN, re <=> replanReason # None, sub' = Install(p, re), NEW i \in Active'
        PROVE  sub'[i].status = "pending" /\ sub'[i].rework = 0
    <3>1. i \in Ids /\ sub'[i].status # "absent" /\ ~sub'[i].superseded
      BY DEF Active, Known
    <3>2. CASE i \in DOMAIN p
      <4>1. sub'[i] = Fresh(p, i)
        BY <2>1, <3>1, <3>2 DEF Install
      <4> QED
        BY <4>1 DEF Fresh, Absent
    <3>3. CASE i \notin DOMAIN p /\ re /\ i \in Known
      <4>1. sub'[i] = [sub[i] EXCEPT !.superseded = TRUE] /\ sub[i] \in Sub
        BY <1>0, <2>1, <3>1, <3>3, Numbers DEF Install
      <4> QED
        BY <3>1, <4>1 DEF Sub
    <3>4. CASE i \notin DOMAIN p /\ ~(re /\ i \in Known)
      <4>1. sub'[i] = sub[i]
        BY <2>1, <3>1, <3>4 DEF Install
      <4>2. ~re => sub[i] = Absent
        BY <1>1, <2>1, <3>1 DEF IInv, FirstPlan
      <4> QED
        BY <3>1, <3>4, <4>1, <4>2 DEF Known, Absent
    <3> QED
      BY <3>2, <3>3, <3>4
  <2>2. CASE sub' = sub /\ replanReason = None
    BY <1>1, <2>2 DEF IInv, FirstPlan, Active, Known, Absent
  <2>3. \/ sub' = sub /\ replanReason = None
        \/ \E p, re : re \in BOOLEAN /\ (re <=> replanReason # None) /\ sub' = Install(p, re)
    BY DEF PlanFast, PlanFull
  <2> QED
    BY <2>1, <2>2, <2>3
<1>4. Bounded'
  <2>1. \A i \in Active' : Rounds(i)' = 0 /\ i \in Ids
    BY <1>3 DEF Rounds, Active, Known
  <2> QED
    BY <1>0, <1>1, <1>2, <1>3, <2>1, Numbers DEF Bounded
<1>5. Steered'
  <2>1. Called' = 0 /\ (replanReason # None => Called >= 1)
    BY <1>0, <1>1 DEF Called, TypeOK
  <2>2. ~reworked => \A i \in Ids : sub'[i].status # "rejected"
    <3> SUFFICES ASSUME ~reworked, NEW i \in Ids, sub'[i].status = "rejected" PROVE FALSE
      OBVIOUS
    <3>1. i \notin Active'
      BY <1>3
    <3>2. sub[i].status # "rejected" /\ sub[i] \in Sub
      BY <1>0, Numbers DEF Steered
    <3>3. \/ sub'[i] = sub[i]
          \/ sub'[i] = [sub[i] EXCEPT !.superseded = TRUE]
          \/ \E p : sub'[i] = Fresh(p, i)
      BY DEF PlanFast, PlanFull, Install
    <3> QED
      BY <3>2, <3>3 DEF Fresh, Absent, Sub
  <2> QED
    BY <1>0, <1>1, <2>1, <2>2, Numbers DEF Steered
<1> QED
  BY <1>4, <1>5
\* dispatch sends out what has a round left; an approval interrupt runs nothing.
LEMMA WaitingLimits ==
    ASSUME IInv, Bounded, Steered, Dispatch \/ \E i \in Ids : ExecAsk(i)
    PROVE  Bounded' /\ Steered'
<1>1. UNCHANGED <<sub, execs, replanCount, replanReason, steering, steers, reworked, failure>>
  BY DEF Dispatch, ExecAsk, task, mailbox, history
<1>2. Active' = Active
  BY <1>1 DEF Active, Known
<1>3. node' \in {"review_all", "exec_subtask", "crashed"}
  BY DEF Dispatch, ExecAsk, Runs, FanIn
<1>4. \A i \in sent' \cup waiting' :
         node' = "exec_subtask" =>
            node = "dispatch" \/ (node = "exec_subtask" /\ i \in sent \cup waiting)
  BY DEF Dispatch, Enter, ExecAsk, Runs, IInv, Quiescent
<1>5. Bounded'
  BY <1>1, <1>2, <1>3, <1>4 DEF Bounded, Rounds
<1>6. Steered'
  BY <1>1, <1>3 DEF Steered, Called
<1> QED
  BY <1>5, <1>6

\* A subtask in flight has a round left, and takes one.
LEMMA OneRound ==
    ASSUME IInv, Bounded, NEW i \in sent \cup waiting, node = "exec_subtask", NEW r \in Sub,
           \/ r.status = "executed" /\ r.rework = sub[i].rework
           \/ r.status = "rejected" /\ r.rework = sub[i].rework + 1,
           r.superseded = sub[i].superseded,
           sub' = [sub EXCEPT ![i] = r], execs' = [execs EXCEPT ![i] = @ + 1],
           replanCount' = replanCount, node' # "dispatch",
           sent' \cup waiting' \subseteq (sent \cup waiting) \ {i}
    PROVE  Bounded'
<1>0. TypeOK
  BY DEF IInv
<1>1. i \in Ids /\ i \in Active /\ sub[i].status \in {"pending", "rejected"}
  BY DEF IInv, InFlight, Active, Known
<1>2. sub'[i] = r /\ execs'[i] = execs[i] + 1
      /\ \A j \in Ids \ {i} : sub'[j] = sub[j] /\ execs'[j] = execs[j]
  BY <1>0, <1>1 DEF TypeOK
<1>3. Active' = Active
  BY <1>1, <1>2 DEF Active, Known
<1>4. sub[i].rework <= 2 /\ sub[i].rework \in Nat
  BY <1>0, <1>1, Numbers DEF Bounded
<1>5. Rounds(i) = sub[i].rework /\ Rounds(i)' = sub[i].rework + 1
  BY <1>1, <1>2, <1>4 DEF Rounds
<1>6. execs'[i] <= 3 * replanCount' + Rounds(i)' /\ Rounds(i)' <= 3
  BY <1>0, <1>1, <1>2, <1>4, <1>5, Numbers DEF Bounded
<1>7. \A j \in Ids \ {i} : Rounds(j)' = Rounds(j)
  BY <1>2 DEF Rounds
<1>8. \A j \in Ids \ Active' : execs'[j] <= 3 * replanCount'
  BY <1>1, <1>2, <1>3 DEF Bounded
<1>9. ASSUME NEW j \in Active'
      PROVE  /\ execs'[j] <= 3 * replanCount' + Rounds(j)'
             /\ Rounds(j)' <= 3
             /\ sub'[j].status = "pending" => sub'[j].rework = 0
             /\ sub'[j].status = "rejected"
                  /\ (node' = "dispatch" \/ (node' = "exec_subtask" /\ j \in sent' \cup waiting'))
                  => sub'[j].rework <= 2
  <2>1. CASE j = i
    BY <1>2, <1>6, <2>1
  <2>2. CASE j # i
    <3>1. j \in Ids \ {i} /\ j \in Active /\ (j \in sent' \cup waiting' => j \in sent \cup waiting)
      BY <1>3, <2>2 DEF Active, Known
    <3> QED
      BY <1>2, <1>7, <3>1 DEF Bounded
  <2> QED
    BY <2>1, <2>2
<1> QED
  BY <1>8, <1>9 DEF Bounded

\* Running to a result, alone or after a decision.
LEMMA RunLimits ==
    ASSUME IInv, Bounded, Steered, NEW i \in Ids,
           ExecSubtask(i) \/ \E d \in {"approved", "rejected"} : Decide(i, d)
    PROVE  Bounded' /\ Steered'
<1>1. /\ node = "exec_subtask" /\ i \in sent \cup waiting /\ node' \notin {"dispatch", "fail_rework_limit"}
      /\ sent' \cup waiting' \subseteq (sent \cup waiting) \ {i}
      /\ UNCHANGED <<replanCount, replanReason, steering, steers, reworked, failure>>
      /\ Count(i)
  <2>1. CASE ExecSubtask(i)
    BY <2>1 DEF ExecSubtask, Runs, FanIn, mailbox, IInv, InFlight
  <2>2. ASSUME NEW d \in {"approved", "rejected"}, Decide(i, d)
        PROVE  /\ node = "exec_subtask" /\ i \in sent \cup waiting
               /\ node' \notin {"dispatch", "fail_rework_limit"}
               /\ sent' \cup waiting' \subseteq (sent \cup waiting) \ {i}
               /\ UNCHANGED <<replanCount, replanReason, steering, steers, reworked, failure>>
               /\ Count(i)
    BY <2>2 DEF Decide, mailbox, IInv, Paused
  <2> QED
    BY <2>1, <2>2
<1>2. PICK result \in {"good", "bad"} : Executed(i, result)
  BY DEF ExecSubtask, Decide
<1>3. PICK r \in Sub : /\ r.status = "executed" /\ r.rework = sub[i].rework
                       /\ r.superseded = sub[i].superseded
                       /\ sub' = [sub EXCEPT ![i] = r]
  BY <1>2, ExecutedType
<1>4. Bounded'
  BY <1>1, <1>3, OneRound DEF Count
<1>5. Steered'
  <2>1. \A j \in Ids : sub'[j].status = "rejected" => sub[j].status = "rejected"
    BY <1>3, SubType
  <2> QED
    BY <1>1, <2>1 DEF Steered, Called
<1> QED
  BY <1>4, <1>5

\* A rejection without an executor is a round like any other.
LEMMA UnavailableLimits ==
    ASSUME IInv, Bounded, Steered, NEW i \in Ids, ExecUnavailable(i)
    PROVE  Bounded' /\ Steered'
<1> DEFINE r == Reject(sub[i], "executor_unavailable")
<1>1. /\ node = "exec_subtask" /\ i \in sent \cup waiting /\ node' \notin {"dispatch", "fail_rework_limit"}
      /\ sent' \cup waiting' \subseteq (sent \cup waiting) \ {i}
      /\ UNCHANGED <<replanCount, steers, failure>> /\ reworked' = TRUE
      /\ Count(i) /\ sub' = [sub EXCEPT ![i] = r]
  BY DEF ExecUnavailable, Runs, FanIn, IInv, InFlight
<1>2. /\ r \in Sub /\ r.status = "rejected" /\ r.rework = sub[i].rework + 1
      /\ r.superseded = sub[i].superseded
  <2>1. sub[i] \in Sub /\ r \in Sub
    BY SubType, RejectType
  <2> QED
    BY <2>1 DEF Reject, Sub
<1> HIDE DEF r
<1>3. Bounded'
  BY <1>1, <1>2, OneRound DEF Count
<1>4. Steered'
  BY <1>1 DEF Steered
<1> QED
  BY <1>3, <1>4

\* A review that sends work back to dispatch has found a round left for all of it: an
\* over-limit rejection is a reason to replan.
LEMMA DispatchHasRound ==
    ASSUME NEW s, NEW reason, reason = ReviewReason(s), goal \in Goals
    PROVE  /\ RouteAfterReview(s, reason) # "fail_rework_limit"
           /\ RouteAfterReview(s, reason) = "dispatch" =>
                \A i \in Rejected(s) : ~(s[i].rework > MaxReworkFor(goal.complexity))
           /\ MaxReworkFor(goal.complexity) \in 0..2
<1>1. MaxReworkFor(goal.complexity) \in 0..2
  <2>1. goal.complexity \in Complexities
    BY TaskGraphAssumption
  <2> QED
    BY <2>1 DEF MaxReworkFor, Complexities
<1>2. reason = None => ~(\E i \in Rejected(s) : s[i].rework > MaxReworkFor(goal.complexity))
  BY DEF ReviewReason, None
<1>3. RouteAfterReview(s, reason) = "dispatch" => reason = None
  BY DEF RouteAfterReview
<1>4. RouteAfterReview(s, reason) # "fail_rework_limit"
  BY <1>2 DEF RouteAfterReview
<1> QED
  BY <1>1, <1>2, <1>3, <1>4

LEMMA ReviewLimits ==
    ASSUME IInv, Bounded, Steered, ReviewAll
    PROVE  Bounded' /\ Steered'
<1>0. TypeOK
  BY DEF IInv
<1>1. /\ node = "review_all" /\ replanReason' = ReviewReason(sub')
      /\ node' = RouteAfterReview(sub', replanReason') /\ steering' = FALSE
      /\ UNCHANGED <<failure, replanCount, goal, steers, execs>>
  BY DEF ReviewAll, Enter
<1>2. PICK verdict \in [Reviewed -> {"PASS", "REWORK"}], sig \in [Reviewed -> Signatures] :
         /\ sub' = [i \in Ids |->
                       IF i \notin Reviewed THEN sub[i]
                       ELSE IF verdict[i] = "PASS" THEN [sub[i] EXCEPT !.status = "passed"]
                       ELSE Reject(sub[i], sig[i])]
         /\ reworked' = (reworked \/ \E i \in Reviewed : verdict[i] = "REWORK")
  BY DEF ReviewAll
<1>3. ASSUME NEW i \in Ids
      PROVE  /\ sub'[i].superseded = sub[i].superseded
             /\ sub'[i].status = "absent" <=> sub[i].status = "absent"
             /\ Rounds(i)' = Rounds(i)
             /\ sub'[i].rework \in Nat
             /\ sub'[i].status = "pending" => sub[i].status = "pending" /\ sub'[i] = sub[i]
             /\ sub'[i].status = "rejected" => sub[i].status = "rejected" \/ reworked'
  <2>1. sub[i] \in Sub /\ sub[i].rework \in Nat
    BY <1>0, Numbers
  <2>2. CASE i \notin Reviewed
    <3>1. sub'[i] = sub[i]
      BY <1>2, <2>2
    <3> QED
      BY <2>1, <3>1 DEF Rounds
  <2>3. CASE i \in Reviewed /\ verdict[i] = "PASS"
    <3>1. sub'[i] = [sub[i] EXCEPT !.status = "passed"] /\ sub[i].status = "executed"
      BY <1>2, <2>3 DEF Reviewed
    <3>2. /\ sub'[i].status = "passed" /\ sub'[i].rework = sub[i].rework
          /\ sub'[i].superseded = sub[i].superseded
      BY <2>1, <3>1 DEF Sub
    <3> QED
      BY <2>1, <3>1, <3>2 DEF Rounds
  <2>4. CASE i \in Reviewed /\ verdict[i] # "PASS"
    <3>1. sub'[i] = Reject(sub[i], sig[i]) /\ sub[i].status = "executed" /\ verdict[i] = "REWORK"
      BY <1>2, <2>4 DEF Reviewed
    <3>2. /\ sub'[i].status = "rejected" /\ sub'[i].rework = sub[i].rework + 1
          /\ sub'[i].superseded = sub[i].superseded
      BY <2>1, <3>1 DEF Reject, Sub
    <3>3. reworked'
      BY <1>2, <2>4, <3>1
    <3> QED
      BY <2>1, <3>1, <3>2, <3>3 DEF Rounds
  <2> QED
    BY <2>2, <2>3, <2>4
<1>4. Active' = Active /\ Active \subseteq Ids
  BY <1>3 DEF Active, Known
<1>5. /\ node' \notin {"exec_subtask", "fail_rework_limit"}
      /\ node' = "dispatch" => \A i \in Active : sub'[i].status = "rejected" => sub'[i].rework <= 2
  <2>1. goal \in Goals
    BY <1>0 DEF TypeOK
  <2>2. /\ node' # "fail_rework_limit" /\ MaxReworkFor(goal.complexity) \in 0..2
        /\ node' = "dispatch" => \A i \in Rejected(sub') : ~(sub'[i].rework > MaxReworkFor(goal.complexity))
    BY <1>1, <2>1, DispatchHasRound
  <2>3. node' # "exec_subtask"
    BY <1>1, ReviewTypes
  <2> QED
    BY <1>3, <1>4, <2>2, <2>3 DEF Rejected
<1>6. Bounded'
  <2>1. \A i \in Active' : sub'[i].status = "pending" => sub'[i].rework = 0
    BY <1>3, <1>4 DEF Bounded
  <2> QED
    BY <1>1, <1>3, <1>4, <1>5, <2>1 DEF Bounded
<1>7. Steered'
  <2>1. SUFFICES ASSUME ~reworked'
                 PROVE  /\ \A i \in Ids : sub'[i].status # "rejected"
                        /\ replanCount' + Called' <= steers'
    BY <1>1, <1>2, <1>5 DEF Steered
  <2>2. ~reworked /\ \A i \in Ids : sub'[i].status # "rejected"
    BY <1>2, <1>3, <2>1 DEF Steered
  <2>3. Rejected(sub') = {}
    BY <1>4, <2>2 DEF Rejected
  <2>4. replanReason' # None => steering
    BY <1>1, <2>3 DEF ReviewReason
  <2>5. Called' <= Called /\ Called' \in 0..2
    BY <1>0, <1>1, <2>4 DEF Called, TypeOK
  <2> QED
    BY <1>0, <1>1, <2>2, <2>5, Numbers DEF Steered
<1> QED
  BY <1>6, <1>7

LEMMA LimitsStep == IInv /\ IInv' /\ Bounded /\ Steered /\ [Next]_vars => Bounded' /\ Steered'
<1> SUFFICES ASSUME IInv, IInv', Bounded, Steered, [Next]_vars PROVE Bounded' /\ Steered'
  OBVIOUS
<1>1. CASE Graph
  <2>1. CASE ControlInterrupt \/ ClarifyInterrupt \/ NodeFails \/ Ingest \/ Finalize
    BY <2>1, QuietLimits
  <2>2. CASE Plan
    BY <2>2, PlanFailsLimits, PlanLimits DEF Plan
  <2>3. CASE Dispatch
    BY <2>3, WaitingLimits
  <2>4. CASE Exec
    BY <2>4, RunLimits, WaitingLimits, UnavailableLimits DEF Exec
  <2>5. CASE ReviewAll
    BY <2>5, ReviewLimits
  <2> QED
    BY <1>1, <2>1, <2>2, <2>3, <2>4, <2>5 DEF Graph
<1>2. CASE Answer
  BY <1>2, QuietLimits, RunLimits DEF Answer
<1>3. CASE Steer
  BY <1>3, QuietLimits, SteerLimits DEF Steer
<1>4. CASE UNCHANGED vars
  BY <1>4, QuietLimits
<1> QED
  BY <1>1, <1>2, <1>3, <1>4 DEF Next

\* Whatever is rejected and however often users steer, a subtask id is executed at most
\* three times under each plan; the run gives up only after a rejection or more steers
\* than replans, and never on the edge to fail_rework_limit.
THEOREM ReworkEnds == Spec => []ReworkLimited
<1>1. Init => Bounded /\ Steered
  <2> SUFFICES ASSUME Init PROVE Bounded /\ Steered
    OBVIOUS
  <2>1. /\ \A i \in Ids : sub[i].status = "absent" /\ execs[i] = 0
        /\ replanCount = 0 /\ replanReason = None /\ steering = FALSE /\ steers = 0
        /\ node = "ingest" /\ failure = None
    BY DEF Init, Absent
  <2>2. Active = {}
    BY <2>1 DEF Active, Known
  <2>3. Bounded
    BY <2>1, <2>2 DEF Bounded
  <2>4. Steered
    BY <2>1 DEF Steered, Called, None
  <2> QED
    BY <2>3, <2>4
<1>2. IInv /\ Bounded /\ Steered => ReworkLimited
  <2> SUFFICES ASSUME IInv, Bounded, Steered PROVE ReworkLimited
    OBVIOUS
  <2>1. TypeOK
    BY DEF IInv
  <2>2. ExecBound
    <3> SUFFICES ASSUME NEW i \in Ids PROVE execs[i] <= 3 * (ReplanLimit + 1)
      BY DEF ExecBound
    <3>1. replanCount \in Nat /\ ReplanLimit \in Nat /\ replanCount <= ReplanLimit /\ execs[i] \in Nat
      BY <2>1, Numbers DEF TypeOK
    <3>2. execs[i] <= 3 * replanCount + 3
      BY <2>1, <3>1, Numbers DEF Bounded
    <3> QED
      BY <3>1, <3>2
  <2> QED
    BY <2>2 DEF ReworkLimited, LimitIsEarned, Steered
<1>3. Init => IInv
  BY InitIInv
<1>4. IInv /\ [Next]_vars => IInv'
  BY NextIInv
<1>5. IInv /\ IInv' /\ Bounded /\ Steered /\ [Next]_vars => Bounded' /\ Steered'
  BY LimitsStep
<1> HIDE DEF IInv, Bounded, Steered, Init, Next, vars
<1> QED
  BY <1>1, <1>2, <1>3, <1>4, <1>5, PTL DEF Spec
=============================================================================
