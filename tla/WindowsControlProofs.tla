------------------------ MODULE WindowsControlProofs ------------------------
(***************************************************************************)
(* Proofs about WindowsControl, for any intents and proposed plans and any *)
(* number of sessions, tasks and events: answers and steps keep to the     *)
(* plan, a session that asks for every action gets every write approved,   *)
(* and the task keeps the promise of SupervisedTask.                       *)
(***************************************************************************)
EXTENDS WindowsControl, TLAPS

Counts == [sessions : 0..MaxSessions, tasks : 0..MaxTasks, events : 0..MaxEvents]
Fields == {"status", "plan", "steps", "cur", "replans"}

\* What a call in progress may rely on: its task runs, its approval is one that a person
\* gave to this very step, and an action past the checks was allowed by them.
CallOK ==
    /\ call.op = "none" => call.phase = "check" /\ ~call.approved
    /\ call.op = "run" => task.status = "running"
    /\ call.op = "approve" => task.status \in {"waiting_approval", "running"}
    /\ task.status = "waiting_approval" => task.cur <= Len(task.plan)
    /\ call.approved => task.cur \in agreed
    /\ call.phase = "act" => /\ task.cur <= Len(task.plan)
                             /\ \/ RiskOf[Step] = "read_only"
                                \/ session.cap # "ask_every_action"
                                \/ task.cur \in agreed

IInv ==
    /\ TypeOK /\ DOMAIN task = Fields
    /\ PendingIsCurrent /\ StepsInOrder
    /\ CallOK /\ WritesApproved

LEMMA PlansTyped ==
    ASSUME NEW intent \in Intents, NEW text \in BOOLEAN,
           NEW plan \in {p \in Proposals : PlanAllowed(intent, text, p)}
                            \cup {CanonicalPlan(intent, text)}
    PROVE  plan \in Seq(Steps) /\ Len(plan) \in 1..8
<1>1. CASE plan \in {p \in Proposals : PlanAllowed(intent, text, p)}
      BY <1>1, WindowsControlAssumption DEF PlanAllowed
<1>2. CASE plan = CanonicalPlan(intent, text)
  <2>1. {"list_windows", "launch_notepad", "set_text", "launch_browser", "open_project",
         "launch_fixture", "click_fixture"} \subseteq Steps
        BY DEF Steps, Observations, Launches, Inputs
  <2>2. intent \in {"observe_windows", "open_notepad", "open_console", "open_project",
                    "fixture_external_action"}
        BY WindowsControlAssumption
  <2> HIDE DEF Steps
  <2>3. QED BY <1>2, <2>1, <2>2 DEF CanonicalPlan
<1>3. QED BY <1>1, <1>2

LEMMA NoCallTyped ==
    /\ NoCall \in CallRecords
    /\ NoCall.op = "none" /\ NoCall.phase = "check" /\ ~NoCall.approved /\ NoCall.tries = 0
BY DEF NoCall, CallRecords

LEMMA InitIInv == Init => IInv
<1> SUFFICES ASSUME Init PROVE IInv
    OBVIOUS
<1> USE DEF Init, NoTask, NoCall
<1>1. TypeOK
  <2>1. /\ session \in [status : Statuses, cap : Capabilities]
        /\ mode \in [now : Modes, confirmed : BOOLEAN]
        /\ desktop \in [locked : BOOLEAN, elevated : BOOLEAN]
        BY DEF Statuses, Capabilities, Modes
  <2>2. task.status \in TaskStatuses /\ task.replans \in 0..1 /\ task.plan = << >>
        BY DEF TaskStatuses
  <2>3. /\ task.plan \in Seq(Steps) /\ Len(task.plan) = 0 /\ DOMAIN task.plan = {}
        /\ task.steps \in [DOMAIN task.plan -> StepStatuses]
        /\ acted \in [DOMAIN task.plan -> Nat]
        BY <2>2
  <2>4. task.cur \in 1..Len(task.plan) + 1
        BY <2>3
  <2>5. call \in CallRecords
        BY NoCallTyped
  <2>6. count \in Counts
        BY WindowsControlAssumption DEF Counts
  <2>7. QED BY <2>1, <2>2, <2>3, <2>4, <2>5, <2>6 DEF TypeOK, Counts
<1>2. DOMAIN task = Fields
      BY DEF Fields
<1>3. PendingIsCurrent /\ StepsInOrder
      BY DEF PendingIsCurrent, StepsInOrder
<1>4. CallOK /\ WritesApproved
      BY DEF CallOK, WritesApproved
<1>5. QED BY <1>1, <1>2, <1>3, <1>4 DEF IInv

\* Around the task: the session, the mode and the desktop change, and a new session
\* forgets the questions of the last one.
LEMMA AroundKeeps ==
    ASSUME IInv, UNCHANGED <<task, call, history>>, pending' \in {pending, {}},
           session' \in [status : Statuses, cap : Capabilities],
           mode' \in [now : Modes, confirmed : BOOLEAN],
           desktop' \in [locked : BOOLEAN, elevated : BOOLEAN],
           Free \/ session'.cap = session.cap,
           count' \in Counts
    PROVE  IInv'
<1> USE DEF IInv, history
<1>1. TypeOK'
      BY DEF TypeOK, Counts
<1>2. PendingIsCurrent'
      BY DEF PendingIsCurrent, Free
<1>3. StepsInOrder' /\ WritesApproved'
      BY DEF StepsInOrder, WritesApproved
<1>4. CallOK'
      BY DEF CallOK, Free, Step
<1>5. QED BY <1>1, <1>2, <1>3, <1>4

\* What the other calls leave alone.
Kept == UNCHANGED <<session, mode, desktop>>

\* An action of the task keeps the types if it keeps the plan.
LEMMA TypesKept ==
    ASSUME TypeOK, Kept, UNCHANGED <<acted, agreed, unasked, count>>,
           task'.plan = task.plan,
           task'.status \in TaskStatuses,
           task'.steps \in [DOMAIN task.plan -> StepStatuses],
           task'.cur \in 1..Len(task.plan) + 1, task'.replans \in 0..1,
           pending' \subseteq [step : DOMAIN task.plan, status : {"pending", "approved"}],
           call' \in CallRecords
    PROVE  TypeOK'
BY DEF TypeOK, Kept

LEMMA StopKeeps == ASSUME IInv, Stop PROVE IInv'
<1>1. /\ call.op = "none" /\ pending' = {}
      /\ UNCHANGED <<mode, desktop, call, acted, agreed, unasked, count>>
      /\ session'.cap = session.cap /\ session' \in [status : Statuses, cap : Capabilities]
      BY DEF Stop, Free, Terminated, IInv, TypeOK, Statuses
<1>2. CASE UNCHANGED task
      BY <1>1, <1>2, AroundKeeps DEF IInv, TypeOK, Counts, history, Free
<1>3. CASE task' = [task EXCEPT !.status = "stopped",
                                !.steps = [i \in DOMAIN @ |->
                                    IF @[i] \in {"queued", "waiting_approval"} THEN "cancelled"
                                    ELSE @[i]]]
  <2>1. /\ DOMAIN task' = Fields /\ task'.status = "stopped"
        /\ task'.plan = task.plan /\ task'.cur = task.cur /\ task'.replans = task.replans
        /\ task'.steps = [i \in DOMAIN task.steps |->
                             IF task.steps[i] \in {"queued", "waiting_approval"} THEN "cancelled"
                             ELSE task.steps[i]]
        BY <1>3 DEF IInv, Fields
  <2>2. /\ task'.steps \in [DOMAIN task.plan -> StepStatuses]
        /\ \A i \in DOMAIN task.plan : task.steps[i] = "completed" => task'.steps[i] = "completed"
        BY <2>1 DEF IInv, TypeOK, StepStatuses
  <2>3. TypeOK'
        BY <1>1, <2>1, <2>2 DEF IInv, TypeOK, TaskStatuses
  <2>4. PendingIsCurrent'
        BY <1>1 DEF PendingIsCurrent
  <2>5. StepsInOrder'
        BY <1>1, <2>1, <2>2 DEF IInv, StepsInOrder
  <2>6. CallOK' /\ WritesApproved'
        BY <1>1, <2>1 DEF IInv, CallOK, WritesApproved
  <2>7. QED BY <2>1, <2>3, <2>4, <2>5, <2>6 DEF IInv
<1>4. QED BY <1>2, <1>3 DEF Stop

LEMMA PlanTaskKeeps ==
    ASSUME IInv, NEW intent \in Intents, NEW text \in BOOLEAN, PlanTask(intent, text)
    PROVE  IInv'
<1>1. PICK plan \in {p \in Proposals : PlanAllowed(intent, text, p)}
                        \cup {CanonicalPlan(intent, text)} :
          /\ task' = [status |-> "planned", plan |-> plan,
                      steps |-> [i \in DOMAIN plan |-> "queued"], cur |-> 1, replans |-> 0]
          /\ acted' = [i \in DOMAIN plan |-> 0]
      BY DEF PlanTask
<1>2. plan \in Seq(Steps) /\ Len(plan) \in 1..8 /\ DOMAIN plan = 1..Len(plan)
      BY PlansTyped
<1>3. /\ call.op = "none" /\ pending' = {} /\ agreed' = {} /\ unasked' = {}
      /\ UNCHANGED <<session, mode, desktop, call>>
      /\ count.tasks < MaxTasks /\ count' = [count EXCEPT !.tasks = @ + 1]
      BY DEF PlanTask, Free
<1>4. TypeOK'
  <2>1. task'.steps \in [DOMAIN plan -> StepStatuses] /\ acted' \in [DOMAIN plan -> Nat]
        BY <1>1 DEF StepStatuses
  <2>2. count' \in Counts
    <3>1. /\ count \in Counts /\ count.tasks < MaxTasks /\ MaxTasks \in Nat
          /\ count' = [count EXCEPT !.tasks = @ + 1]
          BY <1>3, WindowsControlAssumption DEF IInv, TypeOK, Counts
    <3>2. count.tasks + 1 \in 0..MaxTasks
          BY <3>1 DEF Counts
    <3>3. QED BY <3>1, <3>2 DEF Counts
  <2>3. task'.plan = plan /\ task'.status \in TaskStatuses /\ task'.cur = 1 /\ task'.replans = 0
        BY <1>1 DEF TaskStatuses
  <2>4. /\ task'.plan \in Seq(Steps) /\ Len(task'.plan) <= 8
        /\ task'.cur \in 1..Len(task'.plan) + 1 /\ task'.replans \in 0..1
    <3>1. \A n \in 1..8 : n \in Nat /\ n <= 8 /\ 1 \in 1..n + 1
          OBVIOUS
    <3>2. Len(plan) \in Nat /\ Len(plan) <= 8 /\ 1 \in 1..Len(plan) + 1
          BY <1>2, <3>1
    <3>3. task'.replans \in 0..1
          BY <2>3
    <3>4. QED BY <1>2, <2>3, <3>2, <3>3
  <2>5. task'.steps \in [DOMAIN task'.plan -> StepStatuses] /\ acted' \in [DOMAIN task'.plan -> Nat]
        BY <2>1, <2>3
  <2>6. QED BY <1>3, <2>2, <2>3, <2>4, <2>5 DEF IInv, TypeOK, Counts
<1>5. DOMAIN task' = Fields
      BY <1>1 DEF Fields
<1>6. PendingIsCurrent' /\ WritesApproved'
      BY <1>3 DEF PendingIsCurrent, WritesApproved
<1>7. StepsInOrder'
      BY <1>1, <1>2 DEF StepsInOrder
<1>8. CallOK'
      BY <1>1, <1>3 DEF IInv, CallOK
<1>9. QED BY <1>4, <1>5, <1>6, <1>7, <1>8 DEF IInv

LEMMA RunTaskKeeps == ASSUME IInv, RunTask PROVE IInv'
<1>1. /\ task.status \in {"planned", "running"}
      /\ DOMAIN task' = Fields /\ task'.status = "running"
      /\ task'.plan = task.plan /\ task'.cur = task.cur /\ task'.replans = task.replans
      /\ task'.steps = task.steps
      /\ UNCHANGED <<session, mode, desktop, pending, acted, agreed, unasked, count>>
      BY DEF RunTask, IInv, Fields, history
<1>2. call'.op = "run" /\ call'.phase = "check" /\ ~call'.approved /\ call'.tries = 0
      BY DEF RunTask, NoCall
<1>3. call' \in CallRecords
      BY NoCallTyped DEF RunTask, CallRecords
<1>4. TypeOK'
      BY <1>1, <1>3, TypesKept DEF IInv, TypeOK, TaskStatuses, Kept
<1>5. PendingIsCurrent'
      BY <1>1 DEF IInv, PendingIsCurrent
<1>6. StepsInOrder' /\ WritesApproved' /\ CallOK'
      BY <1>1, <1>2 DEF IInv, StepsInOrder, WritesApproved, CallOK
<1>7. QED BY <1>1, <1>4, <1>5, <1>6 DEF IInv

\* There is one question, about the current step.
LEMMA OneQuestion ==
    ASSUME IInv, NEW p \in pending, NEW q \in pending, p.status = "pending", q.status = "pending"
    PROVE  p = q /\ p.step = task.cur /\ p.step \in DOMAIN task.plan /\ task.status = "waiting_approval"
<1>1. p.step = task.cur /\ q.step = task.cur /\ task.status = "waiting_approval"
      BY DEF IInv, PendingIsCurrent
<1>2. /\ p \in [step : DOMAIN task.plan, status : {"pending", "approved"}]
      /\ q \in [step : DOMAIN task.plan, status : {"pending", "approved"}]
      BY DEF IInv, TypeOK
<1>3. QED BY <1>1, <1>2

LEMMA ApproveKeeps == ASSUME IInv, NEW p \in pending, Approve(p) PROVE IInv'
<1>1. /\ p.status = "pending" /\ agreed' = agreed \cup {p.step}
      /\ pending' = (pending \ {p}) \cup {[p EXCEPT !.status = "approved"]}
      /\ UNCHANGED <<session, mode, desktop, task, acted, unasked, count>>
      BY DEF Approve
<1>2. p.step = task.cur /\ p.step \in DOMAIN task.plan /\ task.status = "waiting_approval"
      BY <1>1, OneQuestion
<1>3. call'.op = "approve" /\ call'.phase = "check" /\ call'.approved
      BY DEF Approve, NoCall
<1>4. call' \in CallRecords
      BY NoCallTyped DEF Approve, CallRecords
<1>5. [p EXCEPT !.status = "approved"] \in [step : DOMAIN task.plan, status : {"pending", "approved"}]
      BY <1>2 DEF IInv, TypeOK
<1>6. TypeOK'
      BY <1>1, <1>2, <1>4, <1>5 DEF IInv, TypeOK
<1>7. PendingIsCurrent'
  <2>1. ASSUME NEW q \in pending', q.status = "pending" PROVE FALSE
    <3>1. [p EXCEPT !.status = "approved"].status = "approved"
          BY DEF IInv, TypeOK
    <3>2. q \in pending /\ q # p
          BY <1>1, <2>1, <3>1
    <3>3. QED BY <1>1, <2>1, <3>2, OneQuestion
  <2>2. QED BY <2>1 DEF PendingIsCurrent
<1>8. StepsInOrder' /\ WritesApproved' /\ CallOK'
      BY <1>1, <1>2, <1>3 DEF IInv, StepsInOrder, WritesApproved, CallOK
<1>9. QED BY <1>1, <1>6, <1>7, <1>8 DEF IInv

LEMMA RejectKeeps == ASSUME IInv, NEW p \in pending, Reject(p) PROVE IInv'
<1>1. /\ p.status = "pending" /\ pending' = pending \ {p} /\ call.op = "none"
      /\ UNCHANGED <<session, mode, desktop, call, acted, agreed, unasked, count>>
      BY DEF Reject, history, Free
<1>2. p.step = task.cur /\ p.step \in DOMAIN task.plan
      BY <1>1, OneQuestion
<1>3. /\ DOMAIN task' = Fields /\ task'.status = "rejected"
      /\ task'.plan = task.plan /\ task'.cur = task.cur /\ task'.replans = task.replans
      /\ task'.steps = [task.steps EXCEPT ![p.step] = "rejected"]
      BY DEF Reject, IInv, Fields
<1>4. /\ task'.steps \in [DOMAIN task.plan -> StepStatuses]
      /\ \A i \in DOMAIN task.plan : i # task.cur => task'.steps[i] = task.steps[i]
      BY <1>2, <1>3 DEF IInv, TypeOK, StepStatuses
<1>5. TypeOK'
      BY <1>1, <1>3, <1>4, TypesKept DEF IInv, TypeOK, TaskStatuses, Kept
<1>6. PendingIsCurrent'
      BY <1>1, OneQuestion DEF PendingIsCurrent
<1>7. StepsInOrder'
  <2>1. \A i \in DOMAIN task.plan : (i < task.cur \/ i > task.cur) => i # task.cur
        BY DEF IInv, TypeOK
  <2>2. QED BY <1>1, <1>3, <1>4, <2>1 DEF IInv, StepsInOrder
<1>8. WritesApproved' /\ CallOK'
      BY <1>1, <1>3 DEF IInv, WritesApproved, CallOK
<1>9. QED BY <1>3, <1>5, <1>6, <1>7, <1>8 DEF IInv

LEMMA RestartKeeps == ASSUME IInv, Restart PROVE IInv'
<1>1. /\ task' = NoTask /\ pending' = {} /\ call' = NoCall
      /\ acted' = <<>> /\ agreed' = {} /\ unasked' = {}
      /\ session' = [status |-> "none", cap |-> "observe_only"]
      /\ UNCHANGED <<mode, desktop>>
      /\ count.events < MaxEvents /\ count' = [count EXCEPT !.events = @ + 1]
      BY DEF Restart, Event
<1>2. /\ task'.status = "none" /\ task'.plan = << >> /\ task'.steps = << >>
      /\ task'.cur = 1 /\ task'.replans = 0
      /\ call'.op = "none" /\ call'.phase = "check" /\ ~call'.approved
      /\ DOMAIN task' = Fields
      BY <1>1 DEF NoTask, NoCall, Fields
<1>3. TypeOK'
  <2>1. /\ session' \in [status : Statuses, cap : Capabilities]
        /\ task'.status \in TaskStatuses
        BY <1>1, <1>2 DEF Statuses, Capabilities, TaskStatuses
  <2>2. /\ task'.plan \in Seq(Steps) /\ Len(task'.plan) = 0 /\ DOMAIN task'.plan = {}
        /\ task'.steps \in [DOMAIN task'.plan -> StepStatuses]
        /\ acted' \in [DOMAIN task'.plan -> Nat]
        BY <1>1, <1>2
  <2>3. call' \in CallRecords
        BY <1>1, NoCallTyped
  <2>4. count' \in Counts
    <3>1. /\ count \in Counts /\ count.events < MaxEvents /\ MaxEvents \in Nat
          /\ count' = [count EXCEPT !.events = @ + 1]
          BY <1>1, WindowsControlAssumption DEF IInv, TypeOK, Counts
    <3>2. count.events + 1 \in 0..MaxEvents
          BY <3>1 DEF Counts
    <3>3. QED BY <3>1, <3>2 DEF Counts
  <2>5. QED BY <1>1, <1>2, <2>1, <2>2, <2>3, <2>4 DEF IInv, TypeOK, Counts
<1>4. PendingIsCurrent' /\ StepsInOrder' /\ WritesApproved'
      BY <1>1, <1>2 DEF PendingIsCurrent, StepsInOrder, WritesApproved
<1>5. CallOK'
      BY <1>2 DEF CallOK
<1>6. QED BY <1>2, <1>3, <1>4, <1>5 DEF IInv

\* The session changes by what bars an action, and keeps what it may do.
LEMMA BarredKeeps ==
    ASSUME IInv, NEW permitted, Barred(permitted)
    PROVE  session' \in [status : Statuses, cap : Capabilities] /\ session'.cap = session.cap
BY DEF IInv, TypeOK, Barred, Paused, Terminated, Statuses

\* The step fails, whether the backend was called or not.
LEMMA FailedTask ==
    ASSUME IInv, StepFails, task.cur \in DOMAIN task.plan
    PROVE  /\ DOMAIN task' = Fields /\ task'.status = "failed"
           /\ task'.plan = task.plan /\ task'.cur = task.cur /\ task'.replans = task.replans
           /\ task'.steps \in [DOMAIN task.plan -> StepStatuses]
           /\ \A i \in DOMAIN task.plan : i # task.cur => task'.steps[i] = task.steps[i]
           /\ call' = NoCall /\ UNCHANGED pending
BY DEF StepFails, IInv, TypeOK, Fields, StepStatuses

\* At a step: the current number is one of the plan's, and no question is open.
LEMMA AtWork ==
    ASSUME IInv, call.op # "none", task.cur <= Len(task.plan)
    PROVE  /\ task.cur \in DOMAIN task.plan /\ task.cur \in Nat /\ DOMAIN task.plan = 1..Len(task.plan)
           /\ \A p \in pending : p.status # "pending"
           /\ task.status \in {"running", "waiting_approval"}
           /\ \A i \in DOMAIN task.plan : (i < task.cur \/ i > task.cur) => i # task.cur
<1>1. call.op \in {"run", "approve"}
      BY DEF IInv, TypeOK, CallRecords
<1>2. QED BY <1>1 DEF IInv, TypeOK, PendingIsCurrent, CallOK, Free

LEMMA RefusedKeeps == ASSUME IInv, Refused PROVE IInv'
<1>1. /\ call.op # "none" /\ task.cur <= Len(task.plan) /\ StepFails /\ Barred(Permitted)
      /\ UNCHANGED <<mode, desktop, acted, agreed, unasked, count>>
      BY DEF Refused, AtStep, Free, history
<1>2. session' \in [status : Statuses, cap : Capabilities] /\ session'.cap = session.cap
      BY <1>1, BarredKeeps
<1>3. /\ DOMAIN task' = Fields /\ task'.status = "failed"
      /\ task'.plan = task.plan /\ task'.cur = task.cur /\ task'.replans = task.replans
      /\ task'.steps \in [DOMAIN task.plan -> StepStatuses]
      /\ \A i \in DOMAIN task.plan : i # task.cur => task'.steps[i] = task.steps[i]
      /\ call' = NoCall /\ UNCHANGED pending
      BY <1>1, AtWork, FailedTask
<1>4. TypeOK'
      BY <1>1, <1>2, <1>3, NoCallTyped DEF IInv, TypeOK, TaskStatuses
<1>5. PendingIsCurrent'
      BY <1>1, <1>3, AtWork DEF PendingIsCurrent
<1>6. StepsInOrder'
      BY <1>1, <1>3, AtWork DEF IInv, StepsInOrder
<1>7. WritesApproved' /\ CallOK'
      BY <1>1, <1>3, NoCallTyped DEF IInv, WritesApproved, CallOK
<1>8. QED BY <1>3, <1>4, <1>5, <1>6, <1>7 DEF IInv

LEMMA AskKeeps == ASSUME IInv, Ask PROVE IInv'
<1>1. /\ call.op # "none" /\ task.cur <= Len(task.plan)
      /\ task' = [task EXCEPT !.status = "waiting_approval",
                              !.steps[task.cur] = "waiting_approval"]
      /\ pending' = pending \cup {[step |-> task.cur, status |-> "pending"]}
      /\ call' = NoCall
      /\ UNCHANGED <<session, mode, desktop, acted, agreed, unasked, count>>
      BY DEF Ask, Ready, AtStep, Free, history
<1>2. /\ DOMAIN task' = Fields /\ task'.status = "waiting_approval"
      /\ task'.plan = task.plan /\ task'.cur = task.cur /\ task'.replans = task.replans
      /\ task'.steps \in [DOMAIN task.plan -> StepStatuses]
      /\ \A i \in DOMAIN task.plan : i # task.cur => task'.steps[i] = task.steps[i]
      BY <1>1, AtWork DEF IInv, TypeOK, Fields, StepStatuses
<1>3. TypeOK'
  <2>1. pending' \subseteq [step : DOMAIN task.plan, status : {"pending", "approved"}]
        BY <1>1, AtWork DEF IInv, TypeOK
  <2>2. QED BY <1>1, <1>2, <2>1, NoCallTyped, TypesKept DEF IInv, TypeOK, TaskStatuses, Kept
<1>4. PendingIsCurrent'
      BY <1>1, <1>2, AtWork, NoCallTyped DEF PendingIsCurrent, Free
<1>5. StepsInOrder'
      BY <1>1, <1>2, AtWork DEF IInv, StepsInOrder
<1>6. WritesApproved' /\ CallOK'
      BY <1>1, <1>2, NoCallTyped DEF IInv, WritesApproved, CallOK
<1>7. QED BY <1>2, <1>3, <1>4, <1>5, <1>6 DEF IInv

\* What the checks admit has been approved if the session asks for every action.
LEMMA AdmitKeeps == ASSUME IInv, Admit PROVE IInv'
<1>1. /\ call.op # "none" /\ task.cur <= Len(task.plan)
      /\ call' = [call EXCEPT !.phase = "act"]
      /\ UNCHANGED <<session, mode, desktop, task, pending, acted, agreed, unasked, count>>
      BY DEF Admit, Ready, AtStep, Free, history
<1>2. RiskOf[Step] # "read_only" /\ session.cap = "ask_every_action" => task.cur \in agreed
      BY DEF Admit, NeedsApproval, IInv, CallOK
<1>3. /\ call' \in CallRecords /\ call'.op = call.op /\ call'.approved = call.approved
      /\ call'.phase = "act"
      BY <1>1 DEF IInv, TypeOK, CallRecords
<1>4. TypeOK'
      BY <1>1, <1>3 DEF IInv, TypeOK
<1>5. PendingIsCurrent' /\ StepsInOrder' /\ WritesApproved'
      BY <1>1, <1>3 DEF IInv, PendingIsCurrent, StepsInOrder, WritesApproved, Free
<1>6. CallOK'
      BY <1>1, <1>2, <1>3 DEF IInv, CallOK, Step
<1>7. DOMAIN task' = Fields
      BY <1>1 DEF IInv
<1>8. QED BY <1>4, <1>5, <1>6, <1>7 DEF IInv

\* The backend is called for the current step, with the approval it needs.
LEMMA PerformedKeeps ==
    ASSUME IInv, Performed
    PROVE  /\ call.op # "none" /\ task.cur <= Len(task.plan)
           /\ acted' \in [DOMAIN task.plan -> Nat]
           /\ acted'[task.cur] = acted[task.cur] + 1 /\ acted[task.cur] \in Nat
           /\ \A i \in DOMAIN task.plan : i # task.cur => acted'[i] = acted[i]
           /\ UNCHANGED <<session, mode, desktop, agreed, unasked, count>>
<1>1. /\ call.op # "none" /\ call.phase = "act"
      /\ acted' = [acted EXCEPT ![task.cur] = @ + 1]
      /\ unasked' = IF /\ RiskOf[Step] # "read_only" /\ session.cap = "ask_every_action"
                       /\ task.cur \notin agreed
                    THEN unasked \cup {task.cur} ELSE unasked
      /\ UNCHANGED <<session, mode, desktop, agreed, count>>
      BY DEF Performed, Free
<1>2. /\ task.cur <= Len(task.plan)
      /\ RiskOf[Step] = "read_only" \/ session.cap # "ask_every_action" \/ task.cur \in agreed
      BY <1>1 DEF IInv, CallOK
<1>3. acted \in [DOMAIN task.plan -> Nat] /\ task.cur \in DOMAIN task.plan
      BY <1>1, <1>2, AtWork DEF IInv, TypeOK
<1>4. QED BY <1>1, <1>2, <1>3

LEMMA SucceedsKeeps == ASSUME IInv, Succeeds PROVE IInv'
<1>1. /\ task' = [task EXCEPT !.status = "running", !.steps[task.cur] = "completed", !.cur = @ + 1]
      /\ pending' \subseteq pending
      /\ call' = [call EXCEPT !.phase = "check", !.approved = FALSE, !.tries = 0]
      /\ Performed
      BY DEF Succeeds, Answered
<1>2. /\ call.op # "none" /\ task.cur <= Len(task.plan)
      /\ acted' \in [DOMAIN task.plan -> Nat]
      /\ acted'[task.cur] = acted[task.cur] + 1 /\ acted[task.cur] \in Nat
      /\ \A i \in DOMAIN task.plan : i # task.cur => acted'[i] = acted[i]
      /\ UNCHANGED <<session, mode, desktop, agreed, unasked, count>>
      BY <1>1, PerformedKeeps
<1>3. /\ DOMAIN task' = Fields /\ task'.status = "running"
      /\ task'.plan = task.plan /\ task'.cur = task.cur + 1 /\ task'.replans = task.replans
      /\ task'.steps \in [DOMAIN task.plan -> StepStatuses]
      /\ task'.steps[task.cur] = "completed"
      /\ \A i \in DOMAIN task.plan : i # task.cur => task'.steps[i] = task.steps[i]
      BY <1>1, <1>2, AtWork DEF IInv, TypeOK, Fields, StepStatuses
<1>4. /\ call' \in CallRecords /\ call'.op = call.op /\ ~call'.approved /\ call'.phase = "check"
  <2>1. call \in CallRecords /\ 0 \in 0..2
        BY DEF IInv, TypeOK
  <2>2. QED BY <1>1, <2>1 DEF CallRecords
<1>5. TypeOK'
  <2>1. task'.cur \in 1..Len(task.plan) + 1
        BY <1>2, <1>3, AtWork
  <2>2. pending' \subseteq [step : DOMAIN task.plan, status : {"pending", "approved"}]
        BY <1>1 DEF IInv, TypeOK
  <2>3. QED BY <1>2, <1>3, <1>4, <2>1, <2>2 DEF IInv, TypeOK, TaskStatuses
<1>6. PendingIsCurrent'
      BY <1>1, <1>2, AtWork DEF PendingIsCurrent
<1>7. StepsInOrder'
  <2> SUFFICES ASSUME NEW i \in DOMAIN task.plan
               PROVE  /\ i < task.cur + 1 => task'.steps[i] = "completed" /\ acted'[i] > 0
                      /\ i > task.cur + 1 => acted'[i] = 0
      BY <1>3 DEF StepsInOrder
  <2>1. task.cur \in Nat /\ i \in Nat
        BY <1>2, AtWork
  <2>2. CASE i = task.cur
        BY <1>2, <1>3, <2>1, <2>2
  <2>3. CASE i # task.cur
    <3>1. /\ i < task.cur => task.steps[i] = "completed" /\ acted[i] > 0
          /\ i > task.cur => acted[i] = 0
          BY DEF IInv, StepsInOrder
    <3>2. QED BY <1>2, <1>3, <2>1, <2>3, <3>1
  <2>4. QED BY <2>2, <2>3
<1>8. WritesApproved' /\ CallOK'
  <2>1. call'.op \in {"run", "approve"}
        BY <1>2, <1>4 DEF CallRecords
  <2>2. QED BY <1>2, <1>3, <1>4, <2>1 DEF IInv, WritesApproved, CallOK
<1>9. QED BY <1>3, <1>5, <1>6, <1>7, <1>8 DEF IInv

\* The step is to be tried again, or the call gives up without an end of the task.
LEMMA AgainKeeps ==
    ASSUME IInv, Performed, UNCHANGED pending,
           DOMAIN task' = Fields, task'.status = task.status, task'.plan = task.plan,
           task'.cur = task.cur, task'.replans \in 0..1,
           task'.steps \in [DOMAIN task.plan -> StepStatuses],
           \A i \in DOMAIN task.plan : i # task.cur => task'.steps[i] = task.steps[i],
           call' \in CallRecords, call'.phase = "check",
           \/ call'.op = call.op /\ call'.approved = call.approved
           \/ call'.op = "none" /\ ~call'.approved
    PROVE  IInv'
<1>1. /\ call.op # "none" /\ task.cur <= Len(task.plan)
      /\ acted' \in [DOMAIN task.plan -> Nat]
      /\ \A i \in DOMAIN task.plan : i # task.cur => acted'[i] = acted[i]
      /\ UNCHANGED <<session, mode, desktop, agreed, unasked, count>>
      BY PerformedKeeps
<1>2. TypeOK'
      BY <1>1 DEF IInv, TypeOK
<1>3. PendingIsCurrent'
      BY <1>1, AtWork DEF PendingIsCurrent
<1>4. StepsInOrder'
      BY <1>1, AtWork DEF IInv, StepsInOrder
<1>5. WritesApproved' /\ CallOK'
      BY <1>1 DEF IInv, WritesApproved, CallOK
<1>6. QED BY <1>2, <1>3, <1>4, <1>5 DEF IInv

LEMMA RetriesKeeps == ASSUME IInv, Retries PROVE IInv'
<1>1. Performed /\ UNCHANGED <<task, pending>>
      BY DEF Retries
<1>2. /\ call' \in CallRecords /\ call'.phase = "check"
      /\ call'.op = call.op /\ call'.approved = call.approved
  <2>1. call' = [call EXCEPT !.phase = "check", !.tries = @ + 1] /\ call \in CallRecords
        BY DEF Retries, IInv, TypeOK
  <2>2. call.tries + 1 \in 0..2
        BY <2>1 DEF Retries, CallRecords
  <2>3. QED BY <2>1, <2>2 DEF CallRecords
<1>3. QED BY <1>1, <1>2, AgainKeeps DEF IInv, TypeOK

LEMMA ReplansKeeps == ASSUME IInv, Replans PROVE IInv'
<1>1. /\ Performed /\ UNCHANGED pending /\ task.replans < 1 /\ task.replans \in 0..1
      /\ task' = [task EXCEPT !.replans = @ + 1, !.steps[task.cur] = "queued"]
      /\ call' = [call EXCEPT !.phase = "check", !.tries = 0]
      BY DEF Replans, IInv, TypeOK
<1>2. /\ call' \in CallRecords /\ call'.phase = "check"
      /\ call'.op = call.op /\ call'.approved = call.approved
  <2>1. call \in CallRecords /\ 0 \in 0..2
        BY DEF IInv, TypeOK
  <2>2. QED BY <1>1, <2>1 DEF CallRecords
<1>3. task.cur \in DOMAIN task.plan /\ task.replans + 1 \in 0..1
      BY <1>1, PerformedKeeps, AtWork
<1>4. /\ DOMAIN task' = Fields /\ task'.status = task.status /\ task'.plan = task.plan
      /\ task'.cur = task.cur /\ task'.replans \in 0..1
      /\ task'.steps \in [DOMAIN task.plan -> StepStatuses]
      /\ \A i \in DOMAIN task.plan : i # task.cur => task'.steps[i] = task.steps[i]
      BY <1>1, <1>3 DEF IInv, TypeOK, Fields, StepStatuses
<1>5. QED BY <1>1, <1>2, <1>4, AgainKeeps

LEMMA TargetLostKeeps == ASSUME IInv, TargetLost PROVE IInv'
<1>1. /\ Performed /\ UNCHANGED pending /\ task.replans < 1 /\ task.replans \in 0..1
      /\ task' = [task EXCEPT !.replans = @ + 1] /\ call' = NoCall
      BY DEF TargetLost, IInv, TypeOK
<1>2. task.replans + 1 \in 0..1
      BY <1>1
<1>3. /\ DOMAIN task' = Fields /\ task'.status = task.status /\ task'.plan = task.plan
      /\ task'.cur = task.cur /\ task'.replans \in 0..1 /\ task'.steps = task.steps
      BY <1>1, <1>2 DEF IInv, Fields
<1>4. QED BY <1>1, <1>3, NoCallTyped, AgainKeeps DEF IInv, TypeOK

LEMMA FailsKeeps == ASSUME IInv, Fails PROVE IInv'
<1>1. Performed /\ StepFails
      BY DEF Fails
<1>2. /\ call.op # "none" /\ task.cur <= Len(task.plan)
      /\ acted' \in [DOMAIN task.plan -> Nat]
      /\ \A i \in DOMAIN task.plan : i # task.cur => acted'[i] = acted[i]
      /\ UNCHANGED <<session, mode, desktop, agreed, unasked, count>>
      BY <1>1, PerformedKeeps
<1>3. /\ DOMAIN task' = Fields /\ task'.status = "failed"
      /\ task'.plan = task.plan /\ task'.cur = task.cur /\ task'.replans = task.replans
      /\ task'.steps \in [DOMAIN task.plan -> StepStatuses]
      /\ \A i \in DOMAIN task.plan : i # task.cur => task'.steps[i] = task.steps[i]
      /\ call' = NoCall /\ UNCHANGED pending
      BY <1>1, <1>2, AtWork, FailedTask
<1>4. TypeOK'
      BY <1>2, <1>3, NoCallTyped DEF IInv, TypeOK, TaskStatuses
<1>5. PendingIsCurrent'
      BY <1>2, <1>3, AtWork DEF PendingIsCurrent
<1>6. StepsInOrder'
      BY <1>2, <1>3, AtWork DEF IInv, StepsInOrder
<1>7. WritesApproved' /\ CallOK'
      BY <1>2, <1>3, NoCallTyped DEF IInv, WritesApproved, CallOK
<1>8. QED BY <1>3, <1>4, <1>5, <1>6, <1>7 DEF IInv

\* The end of the plan: the task gets its final status, or stays if nobody reviews it.
LEMMA EndKeeps ==
    ASSUME IInv,
           ReviewUnavailable \/ \E status \in {"completed", "failed"} : Finish(status)
    PROVE  IInv'
<1>1. /\ AtEnd /\ call' = NoCall
      /\ UNCHANGED <<session, mode, desktop, pending, acted, agreed, unasked, count>>
      BY DEF ReviewUnavailable, Finish, history
<1>2. /\ DOMAIN task' = Fields /\ task'.plan = task.plan /\ task'.cur = task.cur
      /\ task'.replans = task.replans /\ task'.steps = task.steps
      /\ task'.status \in {task.status, "completed", "failed"}
      BY DEF ReviewUnavailable, Finish, IInv, Fields
<1>3. call.op \in {"run", "approve"} /\ task.cur > Len(task.plan)
      BY <1>1 DEF AtEnd, Free, IInv, TypeOK, CallRecords
<1>4. TypeOK'
      BY <1>1, <1>2, NoCallTyped DEF IInv, TypeOK, TaskStatuses
<1>5. PendingIsCurrent'
      BY <1>1, <1>2, <1>3 DEF IInv, PendingIsCurrent, Free
<1>6. StepsInOrder' /\ WritesApproved'
      BY <1>1, <1>2 DEF IInv, StepsInOrder, WritesApproved
<1>7. CallOK'
      BY <1>1, <1>2, <1>3, NoCallTyped DEF IInv, CallOK
<1>8. QED BY <1>2, <1>4, <1>5, <1>6, <1>7 DEF IInv

LEMMA CallsKeep == ASSUME IInv, Calls PROVE IInv'
<1> USE DEF history
<1>1. ASSUME NEW cap \in Capabilities, StartSession(cap) PROVE IInv'
  <2>1. count' \in Counts
    <3>1. /\ count \in Counts /\ count.sessions < MaxSessions /\ MaxSessions \in Nat
          /\ count' = [count EXCEPT !.sessions = @ + 1]
          BY <1>1, WindowsControlAssumption DEF StartSession, IInv, TypeOK, Counts
    <3>2. count.sessions + 1 \in 0..MaxSessions
          BY <3>1 DEF Counts
    <3>3. QED BY <3>1, <3>2 DEF Counts
  <2>2. session' \in [status : Statuses, cap : Capabilities]
        BY <1>1 DEF StartSession, Observed, NewSession, Statuses
  <2>3. QED BY <1>1, <2>1, <2>2, AroundKeeps DEF StartSession, IInv, TypeOK
<1>2. CASE Pause \/ Resume \/ Snapshot
  <2>1. session' \in [status : Statuses, cap : Capabilities] /\ session'.cap = session.cap
        BY <1>2 DEF Pause, Paused, Resume, Snapshot, Observed, IInv, TypeOK, Statuses
  <2>2. UNCHANGED <<mode, desktop, task, pending, call, history, count>>
        BY <1>2 DEF Pause, Resume, Snapshot
  <2>3. QED BY <2>1, <2>2, AroundKeeps DEF IInv, TypeOK, Counts
<1>3. CASE Capture
  <2>1. session' \in [status : Statuses, cap : Capabilities] /\ session'.cap = session.cap
        BY <1>3, BarredKeeps DEF Capture
  <2>2. QED BY <1>3, <2>1, AroundKeeps DEF Capture, IInv, TypeOK, Counts
<1>4. QED BY <1>1, <1>2, <1>3, StopKeeps, PlanTaskKeeps, RunTaskKeeps, ApproveKeeps, RejectKeeps
      DEF Calls

LEMMA AroundTheService == ASSUME IInv, Around PROVE IInv'
<1>1. CASE Restart
      BY <1>1, RestartKeeps
<1>2. CASE ~Restart
  <2>1. /\ Event /\ UNCHANGED <<task, pending, call, history>>
        /\ session' \in [status : Statuses, cap : Capabilities] /\ session'.cap = session.cap
        /\ mode' \in [now : Modes, confirmed : BOOLEAN]
        /\ desktop' \in [locked : BOOLEAN, elevated : BOOLEAN]
    <3>1. CASE Expire
          BY <3>1 DEF Expire, IInv, TypeOK, Statuses
    <3>2. ASSUME NEW field \in {"locked", "elevated"}, Windows(field)
          PROVE  /\ desktop' \in [locked : BOOLEAN, elevated : BOOLEAN] /\ Event
                 /\ UNCHANGED <<session, mode, task, pending, call, history>>
          BY <3>2 DEF Windows, IInv, TypeOK
    <3>3. ASSUME NEW m \in Modes, NEW confirmed \in BOOLEAN, SetMode(m, confirmed)
          PROVE  /\ mode' \in [now : Modes, confirmed : BOOLEAN] /\ Event
                 /\ UNCHANGED <<session, desktop, task, pending, call, history>>
          BY <3>3 DEF SetMode, IInv, TypeOK
    <3>4. QED BY <1>2, <3>1, <3>2, <3>3 DEF Around, IInv, TypeOK
  <2>2. count' \in Counts
    <3>1. /\ count \in Counts /\ count.events < MaxEvents /\ MaxEvents \in Nat
          /\ count' = [count EXCEPT !.events = @ + 1]
          BY <2>1, WindowsControlAssumption DEF Event, IInv, TypeOK, Counts
    <3>2. count.events + 1 \in 0..MaxEvents
          BY <3>1 DEF Counts
    <3>3. QED BY <3>1, <3>2 DEF Counts
  <2>3. QED BY <2>1, <2>2, AroundKeeps DEF history
<1>3. QED BY <1>1, <1>2

LEMMA NextKeeps == IInv /\ [Next]_vars => IInv'
<1> SUFFICES ASSUME IInv, [Next]_vars PROVE IInv'
    OBVIOUS
<1>1. CASE Calls
      BY <1>1, CallsKeep
<1>2. CASE Work
      BY <1>2, RefusedKeeps, AskKeeps, AdmitKeeps, SucceedsKeeps, RetriesKeeps, ReplansKeeps,
         TargetLostKeeps, FailsKeeps, EndKeeps DEF Work
<1>3. CASE Around
      BY <1>3, AroundTheService
<1>4. CASE UNCHANGED vars
      BY <1>4, AroundKeeps DEF vars, history, IInv, TypeOK, Counts
<1>5. QED BY <1>1, <1>2, <1>3, <1>4 DEF Next

LEMMA Invariant == Spec => []IInv
BY InitIInv, NextKeeps, PTL DEF Spec

\* The session, the task, its questions and the call that holds the lock keep their
\* types; a plan never has more than eight steps (windows_control/service.py 735-820).
THEOREM TypeCorrect == Spec => []TypeOK
<1>1. IInv => TypeOK
      BY DEF IInv
<1>2. QED BY <1>1, Invariant, PTL

\* Answers are only taken for the step at which the task waits, and steps are performed
\* one after the other, each after the verified end of the one before, for any plans,
\* retries, confirmations, sessions and restarts (windows_control/service.py 477-596).
THEOREM PlanIsFollowed == Spec => []InOrder
<1>1. IInv => InOrder
      BY DEF IInv, InOrder
<1>2. QED BY <1>1, Invariant, PTL

\* In a session that asks for every action no write is performed that a person has not
\* approved for that step (windows_control/service.py 486-490).
THEOREM NoUnapprovedWrite == Spec => []WritesApproved
<1>1. IInv => WritesApproved
      BY DEF IInv
<1>2. QED BY <1>1, Invariant, PTL

\* The status of SupervisedTask.
st == IF call.op = "approve" THEN "running" ELSE task.status

\* A call that works does so on a running task, as SupervisedTask sees it.
LEMMA WorkRuns ==
    ASSUME IInv, call.op # "none"
    PROVE  st = "running"
BY DEF IInv, TypeOK, CallRecords, CallOK, st

LEMMA ActKeepsPromise ==
    ASSUME IInv, Performed, st' \in {"running", "waiting_approval", "failed"}
    PROVE  Promise!Act
<1>1. st = "running"
      BY WorkRuns DEF Performed, Free
<1>2. acted' # acted
      BY PerformedKeeps
<1>3. QED BY <1>1, <1>2 DEF Promise!Act, st

LEMMA WorkKeepsPromise == ASSUME IInv, Work PROVE [Promise!Next]_<<st, acted>>
<1>1. CASE Refused
  <2>1. call.op # "none" /\ StepFails /\ task.cur \in DOMAIN task.plan /\ UNCHANGED acted
        BY <1>1, AtWork DEF Refused, AtStep, Free, history
  <2>2. st = "running" /\ st' = "failed"
        BY <2>1, WorkRuns, FailedTask, NoCallTyped DEF st
  <2>3. QED BY <2>1, <2>2 DEF Promise!Next, Promise!End, st
<1>2. CASE Ask
  <2>1. /\ call.op # "none" /\ call' = NoCall /\ UNCHANGED acted
        /\ task' = [task EXCEPT !.status = "waiting_approval",
                                !.steps[task.cur] = "waiting_approval"]
        BY <1>2 DEF Ask, Ready, AtStep, Free, history
  <2>2. st = "running" /\ st' = "waiting_approval"
        BY <2>1, WorkRuns, NoCallTyped DEF st, IInv, Fields
  <2>3. QED BY <2>1, <2>2 DEF Promise!Next, Promise!Ask, st
<1>3. CASE Admit
  <2>1. call' = [call EXCEPT !.phase = "act"] /\ UNCHANGED <<task, acted>>
        BY <1>3 DEF Admit, history
  <2>2. call'.op = call.op
        BY <2>1 DEF IInv, TypeOK, CallRecords
  <2>3. QED BY <2>1, <2>2 DEF st
<1>4. CASE Succeeds
  <2>1. /\ Performed
        /\ task' = [task EXCEPT !.status = "running", !.steps[task.cur] = "completed", !.cur = @ + 1]
        BY <1>4 DEF Succeeds
  <2>2. st' = "running"
        BY <2>1 DEF st, IInv, Fields
  <2>3. QED BY <2>1, <2>2, ActKeepsPromise DEF Promise!Next
<1>5. CASE Retries
  <2>1. Performed /\ UNCHANGED task /\ call' = [call EXCEPT !.phase = "check", !.tries = @ + 1]
        BY <1>5 DEF Retries
  <2>2. st' = st
        BY <2>1 DEF st, IInv, TypeOK, CallRecords
  <2>3. QED BY <2>1, <2>2, WorkRuns, ActKeepsPromise DEF Promise!Next, Performed, Free
<1>6. CASE Replans
  <2>1. /\ Performed /\ task' = [task EXCEPT !.replans = @ + 1, !.steps[task.cur] = "queued"]
        /\ call' = [call EXCEPT !.phase = "check", !.tries = 0]
        BY <1>6 DEF Replans
  <2>2. st' = st
        BY <2>1 DEF st, IInv, TypeOK, CallRecords, Fields
  <2>3. QED BY <2>1, <2>2, WorkRuns, ActKeepsPromise DEF Promise!Next, Performed, Free
<1>7. CASE TargetLost
  <2>1. Performed /\ task' = [task EXCEPT !.replans = @ + 1] /\ call' = NoCall
        BY <1>7 DEF TargetLost
  <2>2. st' = task.status
        BY <2>1, NoCallTyped DEF st, IInv, Fields
  <2>3. st' \in {"running", "waiting_approval"}
        BY <2>1, <2>2, PerformedKeeps, AtWork
  <2>4. QED BY <2>1, <2>3, ActKeepsPromise DEF Promise!Next
<1>8. CASE Fails
  <2>1. Performed /\ StepFails /\ task.cur \in DOMAIN task.plan
        BY <1>8, PerformedKeeps, AtWork DEF Fails
  <2>2. st' = "failed"
        BY <2>1, FailedTask, NoCallTyped DEF st
  <2>3. QED BY <2>1, <2>2, ActKeepsPromise DEF Promise!Next
<1>9. ASSUME NEW status \in {"completed", "failed"}, Finish(status)
      PROVE  [Promise!Next]_<<st, acted>>
  <2>1. call.op # "none" /\ call' = NoCall /\ UNCHANGED acted
        BY <1>9 DEF Finish, AtEnd, Free, history
  <2>2. task'.status \in {"completed", "failed"}
        BY <1>9 DEF Finish, IInv, Fields
  <2>3. st = "running" /\ st' = task'.status
        BY <2>1, WorkRuns, NoCallTyped DEF st
  <2>4. QED BY <2>1, <2>2, <2>3 DEF Promise!Next, Promise!End, st
<1>10. CASE ReviewUnavailable
  <2>1. /\ call.op # "none" /\ task.cur > Len(task.plan) /\ call' = NoCall
        /\ UNCHANGED <<task, acted>>
        BY <1>10 DEF ReviewUnavailable, AtEnd, Free, history
  <2>2. task.status = "running"
        BY <2>1 DEF IInv, TypeOK, CallRecords, CallOK
  <2>3. st = "running" /\ st' = "running"
        BY <2>1, <2>2, NoCallTyped DEF st
  <2>4. QED BY <2>1, <2>3
<1>11. QED BY <1>1, <1>2, <1>3, <1>4, <1>5, <1>6, <1>7, <1>8, <1>9, <1>10 DEF Work

LEMMA CallsKeepPromise == ASSUME IInv, Calls PROVE [Promise!Next]_<<st, acted>>
<1> USE DEF history
<1>1. ASSUME UNCHANGED <<task, call, acted>> PROVE [Promise!Next]_<<st, acted>>
      BY <1>1 DEF st
<1>2. ASSUME NEW cap \in Capabilities, StartSession(cap) PROVE UNCHANGED <<task, call, acted>>
      BY <1>2 DEF StartSession
<1>3. CASE Pause \/ Resume \/ Snapshot \/ Capture
      BY <1>1, <1>3 DEF Pause, Resume, Snapshot, Capture
<1>4. CASE Stop
  <2>1. call.op = "none" /\ UNCHANGED <<call, acted>>
        BY <1>4 DEF Stop, Free
  <2>2. CASE UNCHANGED task
        BY <1>1, <2>1, <2>2
  <2>3. CASE /\ task.status \notin {"none", "completed", "failed", "rejected"}
             /\ task'.status = "stopped"
        BY <2>1, <2>3 DEF Promise!Next, Promise!Stop, Promise!Ended, st
  <2>4. QED BY <1>4, <2>2, <2>3 DEF Stop, IInv, Fields
<1>5. ASSUME NEW intent \in Intents, NEW text \in BOOLEAN, PlanTask(intent, text)
      PROVE  [Promise!Next]_<<st, acted>>
  <2>1. call.op = "none" /\ UNCHANGED call /\ task'.status = "planned"
        BY <1>5 DEF PlanTask, Free
  <2>2. QED BY <2>1 DEF Promise!Next, Promise!Plan, st
<1>6. CASE RunTask
  <2>1. /\ call.op = "none" /\ task.status \in {"planned", "running"} /\ UNCHANGED acted
        /\ task'.status = "running"
        BY <1>6 DEF RunTask, Free, IInv, Fields
  <2>2. QED BY <2>1 DEF Promise!Next, Promise!Run, st
<1>7. ASSUME NEW p \in pending, Approve(p) PROVE [Promise!Next]_<<st, acted>>
  <2>1. call.op = "none" /\ p.status = "pending" /\ UNCHANGED <<task, acted>> /\ call'.op = "approve"
        BY <1>7, NoCallTyped DEF Approve, Free, CallRecords
  <2>2. task.status = "waiting_approval"
        BY <2>1, OneQuestion
  <2>3. QED BY <2>1, <2>2 DEF Promise!Next, Promise!Grant, st
<1>8. ASSUME NEW p \in pending, Reject(p) PROVE [Promise!Next]_<<st, acted>>
  <2>1. /\ call.op = "none" /\ p.status = "pending" /\ UNCHANGED <<call, acted>>
        /\ task'.status = "rejected"
        BY <1>8 DEF Reject, Free, IInv, Fields
  <2>2. task.status = "waiting_approval"
        BY <2>1, OneQuestion
  <2>3. QED BY <2>1, <2>2 DEF Promise!Next, Promise!Refuse, st
<1>9. QED BY <1>1, <1>2, <1>3, <1>4, <1>5, <1>6, <1>7, <1>8 DEF Calls

LEMMA NextKeepsPromise == IInv /\ [Next]_vars => [Promise!Next]_<<st, acted>>
<1> SUFFICES ASSUME IInv, [Next]_vars PROVE [Promise!Next]_<<st, acted>>
    OBVIOUS
<1>1. CASE Around
  <2>1. CASE Restart
        BY <2>1 DEF Restart, NoTask, NoCall, Promise!Next, Promise!Restart, st
  <2>2. CASE ~Restart
        BY <1>1, <2>2 DEF Around, Expire, Windows, SetMode, history, st
  <2>3. QED BY <2>1, <2>2
<1>2. CASE UNCHANGED vars
      BY <1>2 DEF vars, history, st
<1>3. QED BY <1>1, <1>2, CallsKeepPromise, WorkKeepsPromise DEF Next

\* A supervised desktop task keeps the promise of SupervisedTask: it acts only while it
\* runs, goes on after a question only when the answer was yes, and does nothing more once
\* it has ended or was stopped (windows_control/service.py 140-161, 466-596).
THEOREM TaskIsSupervised == Spec => Supervised
<1>1. Init => Promise!Init
      BY DEF Init, NoTask, NoCall, Promise!Init
<1>2. [Promise!Next]_<<st, acted>> <=> [Promise!Next]_<<IF call.op = "approve" THEN "running" ELSE task.status, acted>>
      BY DEF st
<1>3. QED BY <1>1, <1>2, Invariant, NextKeepsPromise, PTL DEF Spec, Supervised, Promise!Spec
=============================================================================
