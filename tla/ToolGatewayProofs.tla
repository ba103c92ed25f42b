------------------------- MODULE ToolGatewayProofs -------------------------
(***************************************************************************)
(* Proofs about ToolGateway, for any subtasks, calls, quotas and any       *)
(* number of resumes and crashes: the type invariant, that a gateway runs  *)
(* no more handlers for a subtask than its quota, that the evidence a      *)
(* subtask cites is in the checkpoint when it is reviewed, and that keys,  *)
(* cache and evidence keep a gateway from doing again what was done.       *)
(*                                                                         *)
(* The second half is about ModelRouting, for any providers, requests,     *)
(* prices, calls and deaths: that the registry stays consistent, that a    *)
(* role spends no more than its budget and the calls under way, and that   *)
(* the accounts of a call agree.                                           *)
(***************************************************************************)
EXTENDS ToolGateway, ModelRouting, FiniteSetTheorems, TLAPS

\* The changes the scheduler makes to an execution.
LEMMA ExecutionType ==
    ASSUME NEW t \in Executions
    PROVE  /\ \A st \in States : /\ [t EXCEPT !.st = st] \in Executions
                                 /\ [t EXCEPT !.st = st, !.calls = 0] \in Executions
                                 /\ [t EXCEPT !.st = st, !.calls = 0, !.refs = {}] \in Executions
           /\ t.rework < MaxReworks =>
                [t EXCEPT !.st = "pending", !.rework = @ + 1] \in Executions
<1>1. 0 \in 0 .. MaxCalls
      BY ToolGatewayAssumption
<1>2. t.rework < MaxReworks => t.rework + 1 \in 0 .. MaxReworks
      BY ToolGatewayAssumption DEF Executions
<1>3. "pending" \in States
      BY DEF States
<1>4. QED BY <1>1, <1>2, <1>3 DEF Executions

\* A call adds one to the calls of its execution and evidence to what it cites.
LEMMA AnswerType ==
    ASSUME TypeOK, NEW s \in Subtasks, Calling(s), NEW refs \in SUBSET Nat, Answer(s, refs)
    PROVE  /\ task' \in [Subtasks -> Executions]
           /\ task'[s].st = "running"
           /\ task'[s].refs = task[s].refs \cup refs
           /\ \A r \in Subtasks : r # s => task'[r] = task[r]
<1>1. task[s] \in Executions
      BY DEF TypeOK
<1>2. task[s].calls + 1 \in 0 .. MaxCalls
      BY <1>1, ToolGatewayAssumption DEF Calling, Executions
<1>3. task[s].refs \cup refs \in SUBSET Nat
      BY <1>1 DEF Executions
<1>4. task[s].st = "running"
      BY DEF Calling, In
<1>5. task' = [task EXCEPT ![s] = [task[s] EXCEPT !.calls = @ + 1, !.refs = @ \cup refs]]
      BY DEF Answer, TypeOK
<1>6. QED BY <1>1, <1>2, <1>3, <1>4, <1>5 DEF TypeOK, Executions

\* A reservation stays within the budget.
LEMMA ReservedType ==
    ASSUME TypeOK, NEW s \in Subtasks
    PROVE  /\ Reserved(s) \in [Subtasks -> 0 .. Budget]
           /\ \A r \in Subtasks : quota[r] <= Reserved(s)[r]
           /\ ~Full(s) => Reserved(s)[s] = quota[s] + 1
BY ToolGatewayAssumption DEF TypeOK, Reserved, Full

\* What a hit returns is the id of evidence.
LEMMA HitsType == ASSUME TypeOK, NEW k \in Keys PROVE Hits(k) \subseteq Nat
BY DEF TypeOK, Hits, Ids

\* The variables of the gateway and of its history after each outcome of a call.
LEMMA InvokeType ==
    ASSUME TypeOK, NEW s \in Subtasks, NEW k \in Keys, Invoke(s, k)
    PROVE  TypeOK'
<1>0. Calling(s)
      BY DEF Invoke
<1>1. CASE RefusedFirst(s)
      BY <1>0, <1>1, AnswerType, ReservedType DEF RefusedFirst, TypeOK, history
<1>2. CASE Cached(s, k)
  <2>1. PICK id \in Hits(k) : cache' = [cache EXCEPT ![k] = id] /\ Answer(s, {id})
        BY <1>2 DEF Cached
  <2>2. {id} \in SUBSET Nat
        BY HitsType
  <2>3. quota' \in [Subtasks -> 0 .. Budget]
        BY <1>2, ReservedType DEF Cached, First, TypeOK
  <2>4. QED BY <1>0, <1>2, <2>1, <2>2, <2>3, AnswerType DEF Cached, TypeOK, history
<1>3. CASE Skipped(s, k)
  <2>1. quota' \in [Subtasks -> 0 .. Budget]
        BY <1>3, ReservedType DEF Skipped, First, TypeOK
  <2>2. QED BY <1>0, <1>3, <2>1, AnswerType DEF Skipped, TypeOK, history
<1>4. CASE RefusedReplay(s, k)
      BY <1>0, <1>4, AnswerType, ReservedType DEF RefusedReplay, TypeOK, history
<1>5. CASE Blocked(s, k)
      BY <1>0, <1>5, AnswerType, ReservedType DEF Blocked, AtPolicy, TypeOK, history
<1>6. CASE AskApproval(s, k)
      BY <1>0, <1>6, AnswerType, ReservedType DEF AskApproval, AtPolicy, TypeOK
<1>7. CASE HandlerFails(s, k)
      BY <1>0, <1>7, AnswerType, ReservedType DEF HandlerFails, Ran, AtHandler, AtPolicy, TypeOK
<1>8. CASE ResultRefused(s, k)
      BY <1>0, <1>8, AnswerType, ReservedType DEF ResultRefused, Ran, AtHandler, AtPolicy, TypeOK
<1>9. CASE KeepResult(s, k)
  <2> DEFINE c == ContentOf[k]
             id == IdOf(c)
  <2>1. k \in Reads /\ c \in Contents
        BY <1>9, ToolGatewayAssumption DEF KeepResult
  <2>2. id \in Nat /\ {id} \in SUBSET Nat
        BY <2>1 DEF TypeOK, IdOf
  <2>3. /\ stored' = [stored EXCEPT ![c] = id]
        /\ nextId' = IF stored[c] = NoId THEN id ELSE nextId
        /\ evidence' = evidence \cup {[id |-> id, key |-> k]}
        /\ cache' = [cache EXCEPT ![k] = id]
        /\ got' = [got EXCEPT ![k] = @ \cup {id}]
        /\ Answer(s, {id})
        BY <1>9 DEF KeepResult
  <2>4. /\ Ran(s, k) /\ AtHandler(s, k)
        /\ seen' = seen \cup {k}
        /\ UNCHANGED <<run, pend, saved, resumes, asked, forgotten>>
        BY <1>9 DEF KeepResult
  <2> HIDE DEF c, id
  <2>5. /\ quota' \in [Subtasks -> 0 .. Budget]
        /\ ran' \in [Subtasks -> Nat]
        /\ again' \subseteq Keys
        BY <2>4, ReservedType DEF Ran, AtHandler, AtPolicy, TypeOK
  <2>6. /\ stored' \in [Contents -> Nat] /\ cache' \in [Keys -> Nat] /\ nextId' \in Nat
        /\ evidence' \subseteq [id : Nat, key : Keys \cup {NoKey}]
        /\ got' \in [Keys -> SUBSET Nat]
    <3>1. [id |-> id, key |-> k] \in [id : Nat, key : Keys \cup {NoKey}]
          BY <2>2
    <3>2. evidence' \subseteq [id : Nat, key : Keys \cup {NoKey}]
          BY <2>3, <3>1 DEF TypeOK
    <3>3. stored' \in [Contents -> Nat] /\ cache' \in [Keys -> Nat] /\ nextId' \in Nat
          BY <2>2, <2>3 DEF TypeOK
    <3>4. got[k] \cup {id} \in SUBSET Nat
          BY <2>2 DEF TypeOK
    <3>5. got' \in [Keys -> SUBSET Nat]
          BY <2>3, <3>4 DEF TypeOK
    <3>6. QED BY <3>2, <3>3, <3>5
  <2>7. task' \in [Subtasks -> Executions]
        BY <1>0, <2>2, <2>3, AnswerType
  <2>8. QED BY <2>4, <2>5, <2>6, <2>7 DEF TypeOK
<1>10. QED BY <1>1, <1>2, <1>3, <1>4, <1>5, <1>6, <1>7, <1>8, <1>9 DEF Invoke

\* Every step keeps the types.
LEMMA TypeStep == TypeOK /\ [Next]_vars => TypeOK'
<1> SUFFICES ASSUME TypeOK, [Next]_vars PROVE TypeOK'
    OBVIOUS
<1>0. 0 \in 0 .. Budget
      BY ToolGatewayAssumption
<1> USE DEF TypeOK
<1>a. {"running", "finished", "waiting", "executed", "passed"} \subseteq States
      BY DEF States
<1>1. ASSUME NEW S \in SUBSET Subtasks, Dispatch(S) PROVE TypeOK'
  <2>1. ASSUME NEW s \in Subtasks PROVE task'[s] \in Executions
        BY <1>a, <1>1, ExecutionType DEF Dispatch
  <2>2. task' \in [Subtasks -> Executions]
        BY <1>1, <2>1 DEF Dispatch
  <2>3. QED BY <1>1, <2>2 DEF Dispatch, gateway, history
<1>2. ASSUME NEW R \in SUBSET Subtasks, Review(R) PROVE TypeOK'
  <2>1. ASSUME NEW s \in Subtasks PROVE task'[s] \in Executions
    <3>1. CASE s \in R
          BY <1>2, <3>1, ExecutionType DEF Review
    <3>2. CASE s \in In("executed") \ R
          BY <1>a, <1>2, <3>2, ExecutionType DEF Review
    <3>3. CASE s \notin R /\ s \notin In("executed") \ R
          BY <1>2, <3>3 DEF Review
    <3>4. QED BY <3>1, <3>2, <3>3
  <2>2. task' \in [Subtasks -> Executions]
        BY <1>2, <2>1 DEF Review
  <2>3. QED BY <1>2, <2>2 DEF Review, gateway, history
<1>3. ASSUME NEW s \in Subtasks, Return(s) PROVE TypeOK'
  <2>1. Snapshot \in Writeback
        BY DEF Snapshot, Writeback, Ids
  <2>2. task' = [task EXCEPT ![s] = [task[s] EXCEPT !.st = "finished", !.calls = 0]]
        BY <1>3 DEF Return
  <2>3. task' \in [Subtasks -> Executions]
        BY <1>a, <2>2, ExecutionType
  <2>4. QED BY <1>3, <2>1, <2>3 DEF Return, gateway, history
<1>4. ASSUME NEW s \in Subtasks, Interrupt(s) PROVE TypeOK'
  <2>1. task' = [task EXCEPT ![s] = [task[s] EXCEPT !.st = "waiting", !.calls = 0, !.refs = {}]]
        BY <1>4 DEF Interrupt
  <2>2. task' \in [Subtasks -> Executions]
        BY <1>a, <2>1, ExecutionType
  <2>3. QED BY <1>4, <2>2 DEF Interrupt, gateway, history
<1>5. ASSUME NEW s \in Subtasks, NEW k \in Keys, Invoke(s, k) PROVE TypeOK'
      BY <1>5, InvokeType
<1>6. CASE Commit
  <2>1. \A s \in Subtasks : pend[s].keys \subseteq Keys /\ pend[s].evidence \subseteq Nat
        BY DEF Writeback
  <2>2. saved' \in Writeback /\ pend' \in [Subtasks -> Writeback]
        BY <1>6, <2>1 DEF Commit, Nothing, Writeback
  <2>3. ASSUME NEW s \in Subtasks PROVE task'[s] \in Executions
        BY <1>a, <1>6, ExecutionType DEF Commit
  <2>4. task' \in [Subtasks -> Executions]
        BY <1>6, <2>3 DEF Commit
  <2>5. QED BY <1>6, <2>2, <2>4 DEF Commit, gateway, history
<1>7. CASE Pause
      BY <1>7 DEF Pause, gateway, history
<1>8. CASE Crash
      BY <1>8 DEF Crash, gateway, history
<1>9. CASE Resume
  <2>1. task' \in [Subtasks -> Executions]
    <3>1. ASSUME NEW s \in Subtasks PROVE task'[s] \in Executions
          BY <1>a, <1>9, ExecutionType DEF Resume
    <3>2. QED BY <1>9, <3>1 DEF Resume
  <2>2. /\ seen' \subseteq Keys
        /\ evidence' \subseteq [id : Nat, key : Keys \cup {NoKey}]
    <3>1. saved.keys \subseteq Keys /\ saved.evidence \subseteq Nat
          BY DEF Writeback
    <3>2. seen' = saved.keys
          BY <1>9 DEF Resume
    <3>3. evidence' = {[id |-> i, key |-> NoKey] : i \in saved.evidence}
          BY <1>9 DEF Resume
    <3>4. \A i \in saved.evidence : [id |-> i, key |-> NoKey] \in [id : Nat, key : Keys \cup {NoKey}]
          BY <3>1
    <3>5. QED BY <3>1, <3>2, <3>3, <3>4
  <2>3. /\ cache' \in [Keys -> Nat] /\ stored' \in [Contents -> Nat]
        /\ quota' \in [Subtasks -> 0 .. Budget] /\ ran' \in [Subtasks -> Nat]
        BY <1>0, <1>9 DEF Resume, NoId
  <2>4. resumes' \in 0 .. MaxResumes /\ run' = "running" /\ forgotten' \in BOOLEAN
    <3>1. resumes \in 0 .. MaxResumes /\ resumes < MaxResumes /\ resumes' = resumes + 1
          BY <1>9 DEF Resume
    <3>2. forgotten' = (forgotten \/ ~(seen \subseteq saved.keys)) /\ run' = "running"
          BY <1>9 DEF Resume
    <3>3. QED BY <3>1, <3>2, ToolGatewayAssumption
  <2>5. UNCHANGED <<pend, saved, nextId, got, asked, again>>
        BY <1>9 DEF Resume
  <2>6. QED BY <2>1, <2>2, <2>3, <2>4, <2>5
<1>10. CASE UNCHANGED vars
      BY <1>10 DEF vars, gateway, history
<1>11. QED
      BY <1>1, <1>2, <1>3, <1>4, <1>5, <1>6, <1>7, <1>8, <1>9, <1>10 DEF Next

LEMMA TypeInit == Init => TypeOK
<1> SUFFICES ASSUME Init PROVE TypeOK
    OBVIOUS
<1>1. 0 \in 0 .. MaxCalls /\ 0 \in 0 .. Budget /\ 0 \in 0 .. MaxReworks /\ 0 \in 0 .. MaxResumes
      BY ToolGatewayAssumption
<1>2. task \in [Subtasks -> Executions]
      BY <1>1 DEF Init, Executions, States
<1>3. saved \in Writeback /\ pend \in [Subtasks -> Writeback]
      BY DEF Init, Nothing, Writeback
<1>4. quota \in [Subtasks -> 0 .. Budget] /\ resumes \in 0 .. MaxResumes
      BY <1>1 DEF Init
<1>5. QED BY <1>2, <1>3, <1>4 DEF Init, TypeOK, NoId

\* Type correctness: in every reachable state the gateway, the executions and the
\* checkpoint have their shape, and no quota is exceeded.
THEOREM TypeCorrect == Spec => []TypeOK
BY TypeInit, TypeStep, PTL DEF Spec
----------------------------------------------------------------------------
\* Every handler that ran has a reservation of its own in the quota.
Paid == \A s \in Subtasks : ran[s] <= quota[s]

\* A reservation counts at least what was counted before, and the one a handler runs
\* under counts one more.
LEMMA PaidStep == TypeOK /\ Paid /\ [Next]_vars => Paid'
<1> SUFFICES ASSUME TypeOK, Paid, [Next]_vars PROVE Paid'
    OBVIOUS
<1>1. CASE UNCHANGED <<quota, ran>>
      BY <1>1 DEF Paid
<1>2. ASSUME NEW s \in Subtasks, NEW k \in Keys, Invoke(s, k) PROVE Paid'
  <2>1. \A r \in Subtasks : ran[r] \in Nat /\ quota[r] \in Nat /\ Reserved(s)[r] \in Nat
        BY ReservedType, ToolGatewayAssumption DEF TypeOK
  <2>2. CASE UNCHANGED ran /\ quota' \in {quota, Reserved(s)}
        BY <2>1, <2>2, ReservedType DEF Paid
  <2>3. CASE AtHandler(s, k) /\ Ran(s, k)
    <3>1. ~Full(s)
          BY <2>3 DEF AtHandler, AtPolicy, Fresh, Admitted, Refused
    <3>2. quota'[s] = quota[s] + 1 /\ ran'[s] = ran[s] + 1
          BY <2>3, <3>1, ReservedType DEF AtHandler, AtPolicy, Ran, TypeOK
    <3>3. \A r \in Subtasks : r # s => ran'[r] = ran[r] /\ quota[r] <= quota'[r]
          BY <2>3, ReservedType DEF AtHandler, AtPolicy, Ran, TypeOK
    <3>4. quota' = Reserved(s)
          BY <2>3 DEF AtHandler, AtPolicy
    <3>5. QED BY <2>1, <3>2, <3>3, <3>4 DEF Paid
  <2>4. \/ UNCHANGED ran /\ quota' \in {quota, Reserved(s)}
        \/ AtHandler(s, k) /\ Ran(s, k)
        BY <1>2 DEF Invoke, RefusedFirst, Cached, Skipped, RefusedReplay, Blocked, AskApproval, AtPolicy, AtHandler,
                    HandlerFails, ResultRefused, KeepResult, First, history
  <2>5. QED BY <2>2, <2>3, <2>4
<1>3. CASE Resume
  <2>1. \A s \in Subtasks : quota'[s] = 0 /\ ran'[s] = 0
        BY <1>3 DEF Resume
  <2>2. QED BY <2>1 DEF Paid
<1>4. ASSUME NEW S \in SUBSET Subtasks, Dispatch(S) \/ Review(S) PROVE UNCHANGED <<quota, ran>>
      BY <1>4 DEF Dispatch, Review, gateway, history
<1>5. ASSUME NEW s \in Subtasks, Return(s) \/ Interrupt(s) PROVE UNCHANGED <<quota, ran>>
      BY <1>5 DEF Return, Interrupt, gateway, history
<1>6. CASE Commit \/ Pause \/ Crash \/ UNCHANGED vars
      BY <1>1, <1>6 DEF Commit, Pause, Crash, vars, gateway, history
<1>7. QED BY <1>1, <1>2, <1>3, <1>4, <1>5, <1>6 DEF Next

\* HandlersWithinQuota: whatever the subtasks call, in any order, first or as a
\* replay, no gateway runs more handlers for one of them than its budget.
THEOREM QuotaRespected == Spec => []HandlersWithinQuota
<1>1. Init => TypeOK /\ Paid
      BY TypeInit, ToolGatewayAssumption DEF Init, Paid
<1>2. TypeOK /\ Paid /\ [Next]_vars => (TypeOK /\ Paid)'
      BY TypeStep, PaidStep
<1>3. TypeOK /\ Paid => HandlersWithinQuota
  <2> SUFFICES ASSUME TypeOK, Paid, NEW s \in Subtasks PROVE ran[s] <= Budget
      BY DEF HandlersWithinQuota
  <2>1. ran[s] \in Nat /\ quota[s] \in 0 .. Budget
        BY DEF TypeOK
  <2>2. QED BY <2>1, ToolGatewayAssumption DEF Paid
<1>4. QED BY <1>1, <1>2, <1>3, PTL DEF Spec
----------------------------------------------------------------------------
\* What a subtask cites is held by the gateway while it runs, by its own writes when
\* it has returned, and by the checkpoint once the superstep is committed; cached
\* results are evidence of this gateway, so that this holds of a call they answer.
Backed ==
    /\ \A k \in Keys : cache[k] = NoId \/ cache[k] \in Ids(evidence)
    /\ \A s \in Subtasks :
        /\ task[s].st = "running" => task[s].refs \subseteq Ids(evidence)
        /\ task[s].st = "finished" => task[s].refs \subseteq pend[s].evidence
        /\ task[s].st \in {"executed", "passed"} => task[s].refs \subseteq saved.evidence

LEMMA BackedInvoke ==
    ASSUME TypeOK, Backed, NEW s \in Subtasks, NEW k \in Keys, Invoke(s, k)
    PROVE  Backed'
<1>1. Calling(s) /\ UNCHANGED <<pend, saved>>
      BY DEF Invoke, RefusedFirst, Cached, Skipped, RefusedReplay, Blocked, AskApproval, HandlerFails,
             ResultRefused, KeepResult
<1>2. task[s].st = "running" /\ task[s].refs \subseteq Ids(evidence)
      BY <1>1 DEF Calling, In, Backed
<1>3. ASSUME NEW refs \in SUBSET Nat, Answer(s, refs), refs \subseteq Ids(evidence)',
             Ids(evidence) \subseteq Ids(evidence)',
             \A j \in Keys : cache'[j] = NoId \/ cache'[j] \in Ids(evidence)'
      PROVE  Backed'
  <2>1. /\ task'[s].st = "running"
        /\ task'[s].refs = task[s].refs \cup refs
        /\ \A r \in Subtasks : r # s => task'[r] = task[r]
        BY <1>1, <1>3, AnswerType
  <2>2. QED BY <1>1, <1>2, <1>3, <2>1 DEF Backed
<1>4. CASE Answer(s, {}) /\ UNCHANGED <<evidence, cache>>
  <2>1. {} \in SUBSET Nat /\ {} \subseteq Ids(evidence)' /\ Ids(evidence) \subseteq Ids(evidence)'
        BY <1>4 DEF Ids
  <2>2. \A j \in Keys : cache'[j] = NoId \/ cache'[j] \in Ids(evidence)'
        BY <1>4 DEF Backed, Ids
  <2>3. QED BY <1>3, <1>4, <2>1, <2>2
<1>5. CASE Cached(s, k)
  <2>1. PICK id \in Hits(k) : cache' = [cache EXCEPT ![k] = id] /\ Answer(s, {id})
        BY <1>5 DEF Cached
  <2>2. id \in Ids(evidence) /\ evidence' = evidence
        BY <1>5 DEF Cached, Hits, Backed, Ids
  <2>3. {id} \in SUBSET Nat
        BY HitsType
  <2>4. \A j \in Keys : cache'[j] = NoId \/ cache'[j] \in Ids(evidence)
        BY <2>1, <2>2 DEF Backed, TypeOK
  <2>5. Ids(evidence)' = Ids(evidence)
        BY <2>2 DEF Ids
  <2>6. QED BY <1>3, <2>1, <2>2, <2>3, <2>4, <2>5
<1>6. CASE KeepResult(s, k)
  <2> DEFINE c == ContentOf[k]
             i == IdOf(c)
             new == [id |-> i, key |-> k]
  <2>1. c \in Contents
        BY <1>6, ToolGatewayAssumption DEF KeepResult
  <2>2. {i} \in SUBSET Nat
        BY <2>1 DEF TypeOK, IdOf
  <2>3. /\ evidence' = evidence \cup {new}
        /\ cache' = [cache EXCEPT ![k] = i]
        /\ Answer(s, {i})
        BY <1>6 DEF KeepResult
  <2>a. new.id = i
        OBVIOUS
  <2> HIDE DEF i, new
  <2>b. \A e : e \in evidence' <=> e \in evidence \/ e = new
        BY <2>3
  <2>4. Ids(evidence) \subseteq Ids(evidence)' /\ i \in Ids(evidence)'
        BY <2>a, <2>b DEF Ids
  <2>5. \A j \in Keys : cache'[j] = NoId \/ cache'[j] \in Ids(evidence)'
        BY <2>3, <2>4 DEF Backed, TypeOK
  <2>6. QED BY <1>3, <2>2, <2>3, <2>4, <2>5
<1>7. QED
      BY <1>4, <1>5, <1>6 DEF Invoke, RefusedFirst, Skipped, RefusedReplay, Blocked, AskApproval,
                               HandlerFails, ResultRefused

\* Return hands the evidence of the gateway over with the subtask, Commit merges what
\* was handed over, and Resume starts what has not returned without references.
LEMMA BackedStep == TypeOK /\ Backed /\ [Next]_vars => Backed'
<1> SUFFICES ASSUME TypeOK, Backed, [Next]_vars PROVE Backed'
    OBVIOUS
<1>1. ASSUME NEW S \in SUBSET Subtasks, Dispatch(S) PROVE Backed'
  <2>1. UNCHANGED <<cache, evidence, pend, saved>>
        BY <1>1 DEF Dispatch, gateway
  <2>2. ASSUME NEW s \in Subtasks
        PROVE task'[s] = task[s] \/ (task'[s].st = "running" /\ task'[s].refs = {})
        BY <1>1 DEF Dispatch, TypeOK, Executions
  <2>3. QED BY <2>1, <2>2 DEF Backed, Ids
<1>2. ASSUME NEW R \in SUBSET Subtasks, Review(R) PROVE Backed'
  <2>1. UNCHANGED <<cache, evidence, pend, saved>>
        BY <1>2 DEF Review, gateway
  <2>2. ASSUME NEW s \in Subtasks
        PROVE \/ task'[s] = task[s]
              \/ task'[s].st = "pending"
              \/ task'[s].st = "passed" /\ task'[s].refs = task[s].refs /\ task[s].st = "executed"
    <3>1. CASE s \in R
          BY <1>2, <3>1 DEF Review, TypeOK, Executions
    <3>2. CASE s \in In("executed") \ R
          BY <1>2, <3>2 DEF Review, In, TypeOK, Executions
    <3>3. CASE s \notin R /\ s \notin In("executed") \ R
          BY <1>2, <3>3 DEF Review
    <3>4. QED BY <3>1, <3>2, <3>3
  <2>3. QED BY <2>1, <2>2 DEF Backed, Ids
<1>3. ASSUME NEW s \in Subtasks, Return(s) PROVE Backed'
  <2>1. /\ UNCHANGED <<cache, evidence, saved>>
        /\ pend' = [pend EXCEPT ![s] = Snapshot]
        /\ task[s].st = "running"
        BY <1>3 DEF Return, In, gateway
  <2>2. /\ task'[s].st = "finished" /\ task'[s].refs = task[s].refs
        /\ \A r \in Subtasks : r # s => task'[r] = task[r]
        BY <1>3 DEF Return, TypeOK, Executions
  <2>3. pend'[s].evidence = Ids(evidence) /\ \A r \in Subtasks : r # s => pend'[r] = pend[r]
        BY <2>1 DEF Snapshot, TypeOK
  <2>4. QED BY <2>1, <2>2, <2>3 DEF Backed, Ids
<1>4. ASSUME NEW s \in Subtasks, Interrupt(s) PROVE Backed'
  <2>1. UNCHANGED <<cache, evidence, pend, saved>>
        BY <1>4 DEF Interrupt, gateway
  <2>2. task'[s].st = "waiting" /\ \A r \in Subtasks : r # s => task'[r] = task[r]
        BY <1>4 DEF Interrupt, TypeOK, Executions
  <2>3. QED BY <2>1, <2>2 DEF Backed, Ids
<1>5. ASSUME NEW s \in Subtasks, NEW k \in Keys, Invoke(s, k) PROVE Backed'
      BY <1>5, BackedInvoke
<1>6. CASE Commit
  <2>1. UNCHANGED <<cache, evidence>>
        BY <1>6 DEF Commit, gateway
  <2>2. /\ saved.evidence \subseteq saved'.evidence
        /\ \A s \in Subtasks : pend[s].evidence \subseteq saved'.evidence
        BY <1>6 DEF Commit
  <2>3. ASSUME NEW s \in Subtasks
        PROVE \/ task'[s] = task[s] /\ task[s].st \notin {"running", "finished"}
              \/ task'[s].st = "executed" /\ task'[s].refs = task[s].refs /\ task[s].st = "finished"
        BY <1>6 DEF Commit, In, TypeOK, Executions
  <2>4. QED BY <2>1, <2>2, <2>3 DEF Backed, Ids
<1>7. CASE Resume
  <2>1. UNCHANGED <<pend, saved>> /\ cache' = [k \in Keys |-> NoId]
        BY <1>7 DEF Resume
  <2>2. ASSUME NEW s \in Subtasks
        PROVE \/ task'[s] = task[s] /\ task[s].st # "running"
              \/ task'[s].st = "running" /\ task'[s].refs = {}
        BY <1>7 DEF Resume, TypeOK, Executions
  <2>3. QED BY <2>1, <2>2 DEF Backed
<1>8. CASE Pause \/ Crash \/ UNCHANGED vars
  <2>1. UNCHANGED <<cache, evidence, pend, saved, task>>
        BY <1>8 DEF Pause, Crash, vars, gateway
  <2>2. QED BY <2>1 DEF Backed, Ids
<1>9. QED BY <1>1, <1>2, <1>3, <1>4, <1>5, <1>6, <1>7, <1>8 DEF Next

\* CitedEvidenceSaved: through interrupted supersteps, resumes and crashes, a subtask
\* that reaches review cites nothing the checkpoint lacks.
THEOREM CitationsSaved == Spec => []CitedEvidenceSaved
<1>1. Init => TypeOK /\ Backed
      BY TypeInit DEF Init, Backed
<1>2. TypeOK /\ Backed /\ [Next]_vars => (TypeOK /\ Backed)'
      BY TypeStep, BackedStep
<1>3. Backed => CitedEvidenceSaved
      BY DEF Backed, CitedEvidenceSaved
<1>4. QED BY <1>1, <1>2, <1>3, PTL DEF Spec
----------------------------------------------------------------------------
\* Ids are given out in order, a stored content is evidence of this gateway, and the
\* key of a read whose evidence it made is known with its result.
ReadsKnown ==
    /\ \A k \in Keys : \A i \in got[k] : i <= nextId
    /\ \A i \in Held : i <= nextId
    /\ \A c \in Contents : stored[c] # NoId => stored[c] \in Held
    /\ \A k \in Keys : got[k] \cap Held # {} => k \in seen /\ cache[k] # NoId

\* The key of a write somebody was asked about is known, unless a resume lost keys.
WritesKnown ==
    ~forgotten => \A k \in Writes : asked[k] <= 1 /\ (asked[k] # 0 => k \in seen)

KeysKnown == ReadsKnown /\ WritesKnown /\ NotReadTwice

\* A call that gets past the keys is about a key whose result this gateway has not, and
\* a write that is not known.
LEMMA FreshIsUnknown ==
    ASSUME TypeOK, KeysKnown, NEW s \in Subtasks, NEW k \in Keys, Fresh(s, k)
    PROVE  /\ got[k] \cap Held = {}
           /\ k \in Writes => k \notin seen
<1>1. k \notin seen \/ (k \in Reads /\ Hits(k) = {})
      BY DEF Fresh
<1>2. Hits(k) = {} => cache[k] = NoId
      BY DEF Hits
<1>3. QED BY <1>1, <1>2, ToolGatewayAssumption DEF KeysKnown, ReadsKnown

\* What a step that makes no evidence has to keep.
LEMMA KnownWithoutResult ==
    ASSUME TypeOK, KeysKnown, NEW k \in Keys,
           UNCHANGED <<evidence, stored, nextId, got, forgotten>>,
           \A j \in Keys : cache[j] # NoId => cache'[j] # NoId,
           \A j \in Keys \ {k} : j \in seen => j \in seen',
           k \in seen => k \in seen' \/ (k \notin Writes /\ got[k] \cap Held = {}),
           again' = again,
           UNCHANGED asked \/ (/\ asked' = [asked EXCEPT ![k] = @ + 1]
                               /\ k \in seen'
                               /\ k \in Writes => k \notin seen)
    PROVE  KeysKnown'
<1>1. Held' = Held
      BY DEF Held
<1>2. ReadsKnown'
      BY <1>1 DEF KeysKnown, ReadsKnown
<1>3. WritesKnown'
  <2> SUFFICES ASSUME ~forgotten, NEW j \in Writes
               PROVE  asked'[j] <= 1 /\ (asked'[j] # 0 => j \in seen')
      BY DEF WritesKnown
  <2>1. j \in Keys /\ asked[j] \in Nat /\ asked[j] <= 1 /\ (asked[j] # 0 => j \in seen)
        BY DEF KeysKnown, WritesKnown, TypeOK, Keys
  <2>2. j \in seen => j \in seen'
        BY <2>1
  <2>3. CASE asked'[j] = asked[j]
        BY <2>1, <2>2, <2>3
  <2>4. CASE asked'[j] # asked[j]
    <3>1. j = k /\ asked'[j] = asked[j] + 1 /\ k \in seen' /\ k \notin seen
          BY <2>1, <2>4 DEF TypeOK
    <3>2. QED BY <2>1, <3>1
  <2>5. QED BY <2>3, <2>4
<1>4. QED BY <1>2, <1>3 DEF KeysKnown, NotReadTwice

LEMMA KnownInvoke ==
    ASSUME TypeOK, KeysKnown, NEW s \in Subtasks, NEW k \in Keys, Invoke(s, k)
    PROVE  KeysKnown'
<1>1. CASE RefusedFirst(s)
      BY <1>1, KnownWithoutResult DEF RefusedFirst, history
<1>2. CASE Cached(s, k)
  <2>1. PICK id \in Hits(k) : cache' = [cache EXCEPT ![k] = id]
        BY <1>2 DEF Cached
  <2>2. cache[k] # NoId => id # NoId
        BY <2>1 DEF Hits
  <2>3. QED BY <1>2, <2>1, <2>2, KnownWithoutResult DEF Cached, history, TypeOK
<1>3. CASE Skipped(s, k)
      BY <1>3, KnownWithoutResult DEF Skipped, history
<1>4. CASE RefusedReplay(s, k)
  <2>1. Fresh(s, k) /\ seen' = seen \ {k}
        BY <1>4 DEF RefusedReplay
  <2>2. QED BY <1>4, <2>1, FreshIsUnknown, KnownWithoutResult DEF RefusedReplay, history
<1>5. CASE Blocked(s, k)
  <2>1. Fresh(s, k) /\ seen' = seen \ {k}
        BY <1>5 DEF Blocked, AtPolicy
  <2>2. QED BY <1>5, <2>1, FreshIsUnknown, KnownWithoutResult DEF Blocked, history
<1>6. CASE AskApproval(s, k)
  <2>1. Fresh(s, k) /\ seen' = seen \cup {k}
        BY <1>6 DEF AskApproval, AtPolicy
  <2>2. QED BY <1>6, <2>1, FreshIsUnknown, KnownWithoutResult DEF AskApproval
<1>7. CASE HandlerFails(s, k)
  <2>1. Fresh(s, k) /\ seen' = seen \ {k} /\ Ran(s, k)
        BY <1>7 DEF HandlerFails, AtHandler, AtPolicy
  <2>2. got[k] \cap Held = {} /\ again' = again
        BY <2>1, FreshIsUnknown DEF Ran
  <2>3. QED BY <1>7, <2>1, <2>2, FreshIsUnknown, KnownWithoutResult DEF HandlerFails
<1>8. CASE ResultRefused(s, k)
  <2>1. Fresh(s, k) /\ seen' = seen \cup {k} /\ Ran(s, k)
        BY <1>8 DEF ResultRefused, AtHandler, AtPolicy
  <2>2. got[k] \cap Held = {} /\ again' = again
        BY <2>1, FreshIsUnknown DEF Ran
  <2>3. QED BY <1>8, <2>1, <2>2, KnownWithoutResult DEF ResultRefused
<1>9. CASE KeepResult(s, k)
  <2> DEFINE c == ContentOf[k]
             id == IdOf(c)
             new == [id |-> id, key |-> k]
  <2>1. /\ k \in Reads /\ c \in Contents /\ k # NoKey
        /\ stored[c] \in Nat /\ nextId \in Nat
        BY <1>9, ToolGatewayAssumption DEF KeepResult, TypeOK, Keys
  <2>2. /\ stored' = [stored EXCEPT ![c] = id]
        /\ nextId' = IF stored[c] = NoId THEN id ELSE nextId
        /\ evidence' = evidence \cup {new}
        /\ cache' = [cache EXCEPT ![k] = id]
        /\ got' = [got EXCEPT ![k] = @ \cup {id}]
        /\ seen' = seen \cup {k} /\ UNCHANGED <<asked, forgotten>>
        /\ Ran(s, k) /\ Fresh(s, k)
        BY <1>9 DEF KeepResult, AtHandler, AtPolicy
  <2>3. /\ stored[c] = NoId => id = nextId + 1
        /\ stored[c] # NoId => id = stored[c]
        BY DEF IdOf
  <2>4. new.id = id /\ new.key = k
        OBVIOUS
  <2> HIDE DEF c, id, new
  <2>5. id \in Nat /\ id # NoId
        BY <2>1, <2>3 DEF NoId
  <2>6. Held' = Held \cup {id}
    <3>1. \A e : e \in evidence' <=> e \in evidence \/ e = new
          BY <2>2
    <3>2. QED BY <2>1, <2>4, <3>1 DEF Held
  <2>7. \A j \in Keys : id \in got[j] => id \in Held
    <3>1. CASE stored[c] = NoId
      <4>1. \A j \in Keys : id \notin got[j]
            BY <2>1, <2>3, <3>1 DEF KeysKnown, ReadsKnown
      <4>2. QED BY <4>1
    <3>2. CASE stored[c] # NoId
          BY <2>1, <2>3, <3>2 DEF KeysKnown, ReadsKnown
    <3>3. QED BY <3>1, <3>2
  <2>8. ReadsKnown'
    <3>0. nextId <= nextId' /\ nextId' \in Nat /\ id <= nextId'
      <4>1. nextId <= nextId' /\ nextId' \in Nat
            BY <2>1, <2>2, <2>3
      <4>2. CASE stored[c] = NoId
            BY <2>2, <2>5, <4>1, <4>2
      <4>3. CASE stored[c] # NoId
        <5>1. id \in Held
              BY <2>1, <2>3, <4>3 DEF KeysKnown, ReadsKnown
        <5>2. QED BY <2>2, <4>1, <4>3, <5>1 DEF KeysKnown, ReadsKnown
      <4>4. QED BY <4>2, <4>3
    <3>1. \A j \in Keys : \A i \in got'[j] : i <= nextId'
      <4>1. nextId <= nextId' /\ nextId' \in Nat
            BY <3>0
      <4>2. id <= nextId'
            BY <3>0
      <4>3. ASSUME NEW j \in Keys, NEW i \in got'[j] PROVE i <= nextId'
        <5>1. i \in got[j] \/ i = id
              BY <2>2, <4>3 DEF TypeOK
        <5>2. CASE i \in got[j]
          <6>1. i <= nextId /\ i \in Nat
                BY <5>2 DEF KeysKnown, ReadsKnown, TypeOK
          <6>2. QED BY <2>1, <4>1, <6>1
        <5>3. QED BY <4>2, <5>1, <5>2
      <4>4. QED BY <4>3
    <3>a. \A i \in Held' : i <= nextId'
      <4>1. \A i \in Held : i <= nextId /\ i \in Nat
            BY DEF KeysKnown, ReadsKnown, Held, TypeOK
      <4>2. nextId <= nextId' /\ nextId' \in Nat /\ id <= nextId'
            BY <3>0
      <4>3. QED BY <2>1, <2>6, <4>1, <4>2
    <3>2. \A d \in Contents : stored'[d] # NoId => stored'[d] \in Held'
          BY <2>2, <2>6 DEF KeysKnown, ReadsKnown, TypeOK
    <3>3. ASSUME NEW j \in Keys, got'[j] \cap Held' # {} PROVE j \in seen' /\ cache'[j] # NoId
      <4>1. CASE j = k
            BY <2>2, <2>5, <4>1 DEF TypeOK
      <4>2. CASE j # k
        <5>1. got'[j] = got[j] /\ cache'[j] = cache[j]
              BY <2>2, <4>2 DEF TypeOK
        <5>2. got[j] \cap Held # {}
              BY <2>6, <2>7, <3>3, <5>1
        <5>3. QED BY <2>2, <5>1, <5>2 DEF KeysKnown, ReadsKnown
      <4>3. QED BY <4>1, <4>2
    <3>4. QED BY <3>1, <3>a, <3>2, <3>3 DEF ReadsKnown
  <2>9. WritesKnown'
        BY <2>2 DEF KeysKnown, WritesKnown
  <2>10. again' = again
        BY <2>2, FreshIsUnknown DEF Ran
  <2>11. QED BY <2>8, <2>9, <2>10 DEF KeysKnown, NotReadTwice
<1>10. QED BY <1>1, <1>2, <1>3, <1>4, <1>5, <1>6, <1>7, <1>8, <1>9 DEF Invoke

\* A resume starts with an empty cache and no evidence of its own; if the checkpoint
\* has all keys, every write that was known is.
LEMMA KnownStep == TypeOK /\ KeysKnown /\ [Next]_vars => KeysKnown'
<1> SUFFICES ASSUME TypeOK, KeysKnown, [Next]_vars PROVE KeysKnown'
    OBVIOUS
<1>1. CASE UNCHANGED <<seen, cache, evidence, stored, nextId, got, asked, again, forgotten>>
      BY <1>1 DEF KeysKnown, ReadsKnown, WritesKnown, NotReadTwice, Held
<1>2. ASSUME NEW s \in Subtasks, NEW k \in Keys, Invoke(s, k) PROVE KeysKnown'
      BY <1>2, KnownInvoke
<1>3. CASE Resume
  <2>1. /\ seen' = saved.keys /\ UNCHANGED <<nextId, got, asked, again>>
        /\ evidence' = {[id |-> i, key |-> NoKey] : i \in saved.evidence}
        /\ stored' = [c \in Contents |-> NoId]
        /\ forgotten' = (forgotten \/ ~(seen \subseteq saved.keys))
        BY <1>3 DEF Resume
  <2>2. Held' = {}
        BY <2>1 DEF Held
  <2>3. ReadsKnown'
        BY <2>1, <2>2 DEF KeysKnown, ReadsKnown
  <2>4. WritesKnown'
    <3>1. CASE forgotten'
          BY <3>1 DEF WritesKnown
    <3>2. CASE ~forgotten'
          BY <2>1, <3>2 DEF KeysKnown, WritesKnown
    <3>3. QED BY <3>1, <3>2
  <2>5. QED BY <2>1, <2>3, <2>4 DEF KeysKnown, NotReadTwice
<1>4. ASSUME NEW S \in SUBSET Subtasks, Dispatch(S) \/ Review(S) PROVE KeysKnown'
      BY <1>1, <1>4 DEF Dispatch, Review, gateway, history
<1>5. ASSUME NEW s \in Subtasks, Return(s) \/ Interrupt(s) PROVE KeysKnown'
      BY <1>1, <1>5 DEF Return, Interrupt, gateway, history
<1>6. CASE Commit \/ Pause \/ Crash \/ UNCHANGED vars
      BY <1>1, <1>6 DEF Commit, Pause, Crash, vars, gateway, history
<1>7. QED BY <1>2, <1>3, <1>4, <1>5, <1>6 DEF Next

\* DoneOnce: in whatever order the subtasks call, replay, wait and resume, a gateway
\* reads nothing again whose result it stored, and while no resume loses keys one
\* approval is requested for a write.
THEOREM NothingDoneTwice == Spec => []DoneOnce
<1>1. Init => TypeOK /\ KeysKnown
  <2> SUFFICES ASSUME Init PROVE KeysKnown
      BY TypeInit
  <2>1. Held = {} /\ \A k \in Keys : got[k] = {}
        BY DEF Init, Held
  <2>2. \A k \in Writes : asked[k] = 0
        BY DEF Init, Keys
  <2>3. ReadsKnown /\ NotReadTwice
        BY <2>1 DEF Init, ReadsKnown, NotReadTwice
  <2>4. WritesKnown
        BY <2>2 DEF WritesKnown
  <2>5. QED BY <2>3, <2>4 DEF KeysKnown
<1>2. TypeOK /\ KeysKnown /\ [Next]_vars => (TypeOK /\ KeysKnown)'
      BY TypeStep, KnownStep
<1>3. KeysKnown => DoneOnce
      BY DEF KeysKnown, WritesKnown, DoneOnce, AskedOnce
<1>4. QED BY <1>1, <1>2, <1>3, PTL DEF Spec

(***************************************************************************)
(* Sums                                                                    *)
(***************************************************************************)
\* Of the subsets of a finite set that have some property, one is minimal.
LEMMA MinimalSubset ==
    ASSUME NEW S, IsFiniteSet(S), NEW F, F \subseteq SUBSET S, F # {}
    PROVE  \E T \in F : \A U \in F : U \subseteq T => U = T
<1>1. F \subseteq FiniteSubsetsOf(S)
      BY FS_Subset DEF FiniteSubsetsOf
<1>2. PICK T \in F : \A U \in F : <<U, T>> \notin StrictSubsetOrdering(S)
      BY <1>1, FS_StrictSubsetOrderingWellFounded, WFMin
<1>3. QED BY <1>2 DEF StrictSubsetOrdering

\* What holds of the empty set, and of T with one more element when it holds of T,
\* holds of a finite set.
LEMMA FiniteInduction ==
    ASSUME NEW S, IsFiniteSet(S), NEW F, {} \in F,
           \A T \in SUBSET S, x \in S : T \in F /\ x \notin T => T \cup {x} \in F
    PROVE  S \in F
<1> DEFINE Bad == {T \in SUBSET S : T \notin F}
<1> SUFFICES ASSUME Bad # {} PROVE FALSE
    OBVIOUS
<1>1. PICK T \in Bad : \A U \in Bad : U \subseteq T => U = T
  <2>1. Bad \subseteq SUBSET S
        OBVIOUS
  <2> HIDE DEF Bad
  <2>2. QED BY <2>1, MinimalSubset
<1>2. PICK x \in T : TRUE
      OBVIOUS
<1>3. T \ {x} \in SUBSET S /\ (T \ {x}) \cup {x} = T /\ x \in S /\ T \ {x} # T
      BY <1>2
<1>4. T \ {x} \in F
      BY <1>1, <1>3
<1>5. QED BY <1>3, <1>4

Choice(s) == CHOOSE x \in s : TRUE

\* How SumFunction computes the sum of f.
Iterates(g, f) ==
    g = [s \in SUBSET DOMAIN f |-> IF s = {} THEN 0 ELSE f[Choice(s)] + g[s \ {Choice(s)}]]

\* A sum does not depend on the order.
Additive(g, f, S) ==
    /\ g \in [SUBSET S -> Nat]
    /\ g[{}] = 0
    /\ \A s \in SUBSET S, x \in S : x \in s => g[s] = f[x] + g[s \ {x}]

LEMMA SumIsIterated ==
    ASSUME NEW f, \E g : Iterates(g, f)
    PROVE  \E g : Iterates(g, f) /\ SumFunction(f) = g[DOMAIN f]
<1> DEFINE chosen == CHOOSE g : Iterates(g, f)
<1>1. Iterates(chosen, f)
      OBVIOUS
<1>2. SumFunction(f) = chosen[DOMAIN f]
      BY DEF SumFunction, SumFunctionOnSet, FoldFunctionOnSet, MapThenFoldSet, Iterates, Choice
<1>3. QED BY <1>1, <1>2

LEMMA AdditiveExists ==
    ASSUME NEW S, IsFiniteSet(S), NEW f \in [S -> Nat]
    PROVE  \E g : Additive(g, f, S)
<1> DEFINE F == {T \in SUBSET S : \E g : Additive(g, f, T)}
<1>1. {} \in F
  <2>1. Additive([s \in SUBSET {} |-> 0], f, {})
        BY DEF Additive
  <2>2. QED BY <2>1
<1>2. ASSUME NEW T \in SUBSET S, NEW x \in S, T \in F, x \notin T PROVE T \cup {x} \in F
  <2>1. PICK g : Additive(g, f, T)
        BY <1>2
  <2> DEFINE h == [s \in SUBSET (T \cup {x}) |-> IF x \in s THEN f[x] + g[s \ {x}] ELSE g[s]]
  <2>2. h \in [SUBSET (T \cup {x}) -> Nat]
    <3>1. ASSUME NEW s \in SUBSET (T \cup {x}) PROVE h[s] \in Nat
      <4>1. s \ {x} \in SUBSET T /\ (x \notin s => s \in SUBSET T)
            OBVIOUS
      <4>2. QED BY <2>1, <4>1 DEF Additive
    <3>2. QED BY <3>1
  <2>3. h[{}] = 0
        BY <2>1 DEF Additive
  <2>4. ASSUME NEW s \in SUBSET (T \cup {x}), NEW y \in T \cup {x}, y \in s
        PROVE  h[s] = f[y] + h[s \ {y}]
    <3>1. CASE x \notin s
      <4>1. s \in SUBSET T /\ s \ {y} \in SUBSET T /\ y \in T
            BY <2>4, <3>1
      <4>2. QED BY <2>1, <2>4, <3>1, <4>1 DEF Additive
    <3>2. CASE y = x
          BY <2>4, <3>2
    <3>3. CASE x \in s /\ y # x
      <4>1. s \ {x} \in SUBSET T /\ y \in T /\ y \in s \ {x} /\ (s \ {x}) \ {y} = (s \ {y}) \ {x}
            BY <2>4, <3>3
      <4>2. h[s] = f[x] + g[s \ {x}]
            BY <3>3
      <4>3. g[s \ {x}] = f[y] + g[(s \ {x}) \ {y}]
            BY <2>1, <4>1 DEF Additive
      <4>4. h[s \ {y}] = f[x] + g[(s \ {x}) \ {y}]
            BY <3>3, <4>1
      <4>5. f[x] \in Nat /\ f[y] \in Nat /\ g[(s \ {x}) \ {y}] \in Nat
            BY <2>1, <4>1 DEF Additive
      <4>6. QED BY <4>2, <4>3, <4>4, <4>5
    <3>4. QED BY <3>1, <3>2, <3>3
  <2>5. Additive(h, f, T \cup {x})
        BY <2>2, <2>3, <2>4 DEF Additive
  <2>6. QED BY <2>5
<1>3. S \in F
  <2> HIDE DEF F
  <2>1. QED BY <1>1, <1>2, FiniteInduction
<1>4. QED BY <1>3

\* The sum of f, as a function of the set it is over.
LEMMA SumIsAdditive ==
    ASSUME NEW S, IsFiniteSet(S), NEW f \in [S -> Nat]
    PROVE  \E g : Additive(g, f, S) /\ SumFunction(f) = g[S]
<1>1. PICK g : Additive(g, f, S)
      BY AdditiveExists
<1>2. \A s \in SUBSET S : s # {} => Choice(s) \in s
      BY DEF Choice
<1>3. Iterates(g, f)
  <2>1. \A s \in SUBSET S : g[s] = IF s = {} THEN 0 ELSE f[Choice(s)] + g[s \ {Choice(s)}]
        BY <1>1, <1>2 DEF Additive
  <2>2. QED BY <1>1, <2>1 DEF Iterates, Additive
<1>4. PICK h : Iterates(h, f) /\ SumFunction(f) = h[S]
  <2>1. DOMAIN f = S
        OBVIOUS
  <2>2. QED BY <1>3, <2>1, SumIsIterated
<1>5. h[S] = g[S]
  <2> DEFINE Bad == {T \in SUBSET S : h[T] # g[T]}
  <2> SUFFICES ASSUME Bad # {} PROVE FALSE
      OBVIOUS
  <2>1. PICK T \in Bad : \A U \in Bad : U \subseteq T => U = T
    <3>1. Bad \subseteq SUBSET S
          OBVIOUS
    <3> HIDE DEF Bad
    <3>2. QED BY <3>1, MinimalSubset
  <2>2. T # {} => Choice(T) \in T /\ T \ {Choice(T)} # T /\ h[T \ {Choice(T)}] = g[T \ {Choice(T)}]
        BY <1>2, <2>1
  <2>3. h[T] = IF T = {} THEN 0 ELSE f[Choice(T)] + h[T \ {Choice(T)}]
        BY <1>4 DEF Iterates
  <2>4. g[T] = IF T = {} THEN 0 ELSE f[Choice(T)] + g[T \ {Choice(T)}]
        BY <1>3 DEF Iterates
  <2>5. QED BY <2>1, <2>2, <2>3, <2>4
<1>6. QED BY <1>1, <1>4, <1>5

LEMMA SumType ==
    ASSUME NEW S, IsFiniteSet(S), NEW f \in [S -> Nat]
    PROVE  SumFunction(f) \in Nat /\ (S = {} => SumFunction(f) = 0)
<1>1. PICK g : Additive(g, f, S) /\ SumFunction(f) = g[S]
      BY SumIsAdditive
<1>2. QED BY <1>1 DEF Additive

Without(f, x) == [y \in DOMAIN f \ {x} |-> f[y]]

LEMMA SumWithout ==
    ASSUME NEW S, IsFiniteSet(S), NEW f \in [S -> Nat], NEW x \in S
    PROVE  /\ SumFunction(Without(f, x)) \in Nat
           /\ SumFunction(f) = f[x] + SumFunction(Without(f, x))
<1> DEFINE T == S \ {x}
           k == Without(f, x)
<1>1. IsFiniteSet(T) /\ k \in [T -> Nat] /\ \A y \in T : k[y] = f[y]
      BY FS_Subset DEF Without
<1>2. PICK g : Additive(g, f, S) /\ SumFunction(f) = g[S]
      BY SumIsAdditive
<1>3. PICK h : Additive(h, k, T) /\ SumFunction(k) = h[T]
  <2> HIDE DEF k
  <2>1. QED BY <1>1, SumIsAdditive
<1>4. h[T] = g[T]
  <2> DEFINE Bad == {U \in SUBSET T : h[U] # g[U]}
  <2> SUFFICES ASSUME Bad # {} PROVE FALSE
      OBVIOUS
  <2>1. PICK U \in Bad : \A V \in Bad : V \subseteq U => V = U
    <3>1. Bad \subseteq SUBSET T
          OBVIOUS
    <3> HIDE DEF Bad
    <3>2. QED BY <1>1, <3>1, MinimalSubset
  <2>2. PICK y \in U : TRUE
        BY <1>2, <1>3 DEF Additive
  <2>3. U \ {y} # U /\ U \ {y} \in SUBSET T /\ y \in T /\ y \in S /\ U \in SUBSET S
        BY <2>2
  <2>4. h[U \ {y}] = g[U \ {y}]
        BY <2>1, <2>3
  <2> HIDE DEF k
  <2>5. g[U] = f[y] + g[U \ {y}]
        BY <1>2, <2>2, <2>3 DEF Additive
  <2>6. h[U] = k[y] + h[U \ {y}]
        BY <1>3, <2>1, <2>2, <2>3 DEF Additive
  <2>7. QED BY <1>1, <2>1, <2>3, <2>4, <2>5, <2>6
<1>5. g[S] = f[x] + g[T]
      BY <1>2 DEF Additive
<1>6. h[T] \in Nat
      BY <1>3 DEF Additive
<1>7. QED BY <1>1, <1>2, <1>3, <1>4, <1>5, <1>6

\* One weight changes.
LEMMA SumChanges ==
    ASSUME NEW S, IsFiniteSet(S), NEW f \in [S -> Nat], NEW k \in [S -> Nat], NEW x \in S,
           \A y \in S \ {x} : k[y] = f[y]
    PROVE  SumFunction(k) + f[x] = SumFunction(f) + k[x]
<1>1. Without(k, x) = Without(f, x)
      BY DEF Without
<1>2. /\ SumFunction(f) = f[x] + SumFunction(Without(f, x))
      /\ SumFunction(Without(f, x)) \in Nat
      BY SumWithout
<1>3. SumFunction(k) = k[x] + SumFunction(Without(k, x))
      BY SumWithout
<1>4. f[x] \in Nat /\ k[x] \in Nat
      OBVIOUS
<1>5. QED BY <1>1, <1>2, <1>3, <1>4

\* A weight is added.
LEMMA SumGrows ==
    ASSUME NEW S, IsFiniteSet(S), NEW f \in [S -> Nat], NEW x, x \notin S,
           NEW k \in [S \cup {x} -> Nat], \A y \in S : k[y] = f[y]
    PROVE  SumFunction(k) = SumFunction(f) + k[x]
<1>1. IsFiniteSet(S \cup {x}) /\ x \in S \cup {x} /\ (S \cup {x}) \ {x} = S
      BY FS_AddElement
<1>2. Without(k, x) = f
      BY <1>1 DEF Without
<1>3. /\ SumFunction(k) = k[x] + SumFunction(Without(k, x))
      /\ SumFunction(Without(k, x)) \in Nat
  <2> DEFINE T == S \cup {x}
  <2> HIDE DEF T
  <2>1. IsFiniteSet(T) /\ x \in T /\ k \in [T -> Nat]
        BY <1>1 DEF T
  <2>2. QED BY <2>1, SumWithout
<1>4. k[x] \in Nat
      OBVIOUS
<1>5. QED BY <1>2, <1>3, <1>4

\* The induction step of facts about sums.
LEMMA SumStep ==
    ASSUME NEW S, IsFiniteSet(S), NEW f \in [S -> Nat], NEW U \in SUBSET S, NEW x \in S, x \notin U
    PROVE  /\ SumFunction(Restrict(f, U \cup {x})) = SumFunction(Restrict(f, U)) + f[x]
           /\ SumFunction(Restrict(f, U)) \in Nat
<1>1. IsFiniteSet(U) /\ \A y \in U \cup {x} : f[y] \in Nat
      BY FS_Subset
<1> DEFINE g == Restrict(f, U)
           k == Restrict(f, U \cup {x})
<1>2. g \in [U -> Nat] /\ k \in [U \cup {x} -> Nat] /\ (\A y \in U : k[y] = g[y]) /\ k[x] = f[x]
      BY <1>1 DEF Restrict
<1> HIDE DEF g, k
<1>3. SumFunction(k) = SumFunction(g) + k[x]
      BY <1>1, <1>2, SumGrows
<1>4. SumFunction(g) \in Nat
      BY <1>1, <1>2, SumType
<1>5. QED BY <1>2, <1>3, <1>4 DEF g, k

LEMMA SumOfNone == ASSUME NEW f PROVE SumFunction(Restrict(f, {})) = 0
<1> DEFINE g == Restrict(f, {})
<1>1. g \in [{} -> Nat]
      BY DEF Restrict
<1> HIDE DEF g
<1>2. SumFunction(g) = 0
      BY <1>1, FS_EmptySet, SumType
<1>3. QED BY <1>2 DEF g

\* Over a larger set and of larger weights.
LEMMA SumMonotone ==
    ASSUME NEW S, IsFiniteSet(S), NEW T \in SUBSET S, NEW f \in [T -> Nat], NEW k \in [S -> Nat],
           \A x \in T : f[x] <= k[x]
    PROVE  SumFunction(f) <= SumFunction(k)
<1> DEFINE F == {U \in SUBSET S : SumFunction(Restrict(f, T \cap U)) <= SumFunction(Restrict(k, U))}
<1>1. IsFiniteSet(T)
      BY FS_Subset
<1>2. {} \in F
  <2>1. T \cap {} = {}
        OBVIOUS
  <2>2. SumFunction(Restrict(f, {})) = 0 /\ SumFunction(Restrict(k, {})) = 0
        BY SumOfNone
  <2>3. QED BY <2>1, <2>2
<1>3. ASSUME NEW U \in SUBSET S, NEW x \in S, U \in F, x \notin U PROVE U \cup {x} \in F
  <2>1. /\ SumFunction(Restrict(k, U \cup {x})) = SumFunction(Restrict(k, U)) + k[x]
        /\ SumFunction(Restrict(k, U)) \in Nat /\ k[x] \in Nat
    <3>1. U \in SUBSET S /\ x \in S /\ x \notin U
          BY <1>3
    <3> QED BY <3>1, SumStep
  <2>2. SumFunction(Restrict(f, T \cap U)) <= SumFunction(Restrict(k, U))
        BY <1>3
  <2>3. CASE x \notin T
    <3>1. T \cap (U \cup {x}) = T \cap U
          BY <2>3
    <3>2. SumFunction(Restrict(f, T \cap U)) <= SumFunction(Restrict(k, U \cup {x}))
      <4>1. SumFunction(Restrict(f, T \cap U)) \in Nat
        <5> DEFINE g == Restrict(f, T \cap U)
        <5>1. g \in [T \cap U -> Nat] /\ IsFiniteSet(T \cap U)
              BY <1>1, FS_Subset DEF Restrict
        <5> HIDE DEF g
        <5>2. SumFunction(g) \in Nat
              BY <5>1, SumType
        <5>3. QED BY <5>2 DEF g
      <4>2. QED BY <2>1, <2>2, <4>1
    <3>3. QED BY <3>1, <3>2
  <2>4. CASE x \in T
    <3>1. T \cap (U \cup {x}) = (T \cap U) \cup {x} /\ T \cap U \in SUBSET T /\ x \notin T \cap U
          BY <1>3, <2>4
    <3>2. /\ SumFunction(Restrict(f, (T \cap U) \cup {x})) = SumFunction(Restrict(f, T \cap U)) + f[x]
          /\ SumFunction(Restrict(f, T \cap U)) \in Nat
          BY <1>1, <2>4, <3>1, SumStep
    <3>3. f[x] \in Nat /\ f[x] <= k[x]
          BY <2>4
    <3>4. SumFunction(Restrict(f, (T \cap U) \cup {x})) <= SumFunction(Restrict(k, U \cup {x}))
          BY <2>1, <2>2, <3>2, <3>3
    <3>5. QED BY <3>1, <3>4
  <2>5. QED BY <2>3, <2>4
<1>4. S \in F
  <2> HIDE DEF F
  <2>1. QED BY <1>2, <1>3, FiniteInduction
<1>5. Restrict(f, T \cap S) = f /\ Restrict(k, S) = k
      BY DEF Restrict
<1>6. QED BY <1>4, <1>5

\* The sum of weights that are each at most limit.
LEMMA SumBound ==
    ASSUME NEW S, IsFiniteSet(S), NEW f \in [S -> Nat], NEW limit \in Nat, \A x \in S : f[x] <= limit
    PROVE  SumFunction(f) <= Cardinality(S) * limit
<1> DEFINE F == {U \in SUBSET S : SumFunction(Restrict(f, U)) <= Cardinality(U) * limit}
<1>1. {} \in F
      BY SumOfNone, FS_EmptySet
<1>2. ASSUME NEW U \in SUBSET S, NEW x \in S, U \in F, x \notin U PROVE U \cup {x} \in F
  <2>1. /\ SumFunction(Restrict(f, U \cup {x})) = SumFunction(Restrict(f, U)) + f[x]
        /\ SumFunction(Restrict(f, U)) \in Nat
        BY <1>2, SumStep
  <2>2. Cardinality(U \cup {x}) = Cardinality(U) + 1 /\ Cardinality(U) \in Nat
        BY <1>2, FS_Subset, FS_AddElement, FS_CardinalityType
  <2>3. (Cardinality(U) + 1) * limit = Cardinality(U) * limit + limit /\ Cardinality(U) * limit \in Nat
        BY <2>2
  <2>4. f[x] <= limit /\ f[x] \in Nat /\ SumFunction(Restrict(f, U)) <= Cardinality(U) * limit
        BY <1>2
  <2>5. SumFunction(Restrict(f, U \cup {x})) <= (Cardinality(U) + 1) * limit
        BY <2>1, <2>3, <2>4
  <2>6. QED BY <2>2, <2>5
<1>3. S \in F
  <2> HIDE DEF F
  <2>1. QED BY <1>1, <1>2, FiniteInduction
<1>4. Restrict(f, S) = f
      BY DEF Restrict
<1>5. QED BY <1>3, <1>4

\* The sum of sums.
LEMMA SumOfBoth ==
    ASSUME NEW S, IsFiniteSet(S), NEW f \in [S -> Nat], NEW k \in [S -> Nat], NEW both \in [S -> Nat],
           \A x \in S : both[x] = f[x] + k[x]
    PROVE  SumFunction(both) = SumFunction(f) + SumFunction(k)
<1> DEFINE F == {U \in SUBSET S : SumFunction(Restrict(both, U))
                                     = SumFunction(Restrict(f, U)) + SumFunction(Restrict(k, U))}
<1>1. {} \in F
      BY SumOfNone
<1>2. ASSUME NEW U \in SUBSET S, NEW x \in S, U \in F, x \notin U PROVE U \cup {x} \in F
  <2>1. /\ SumFunction(Restrict(f, U \cup {x})) = SumFunction(Restrict(f, U)) + f[x]
        /\ SumFunction(Restrict(f, U)) \in Nat
        BY <1>2, SumStep
  <2>2. /\ SumFunction(Restrict(k, U \cup {x})) = SumFunction(Restrict(k, U)) + k[x]
        /\ SumFunction(Restrict(k, U)) \in Nat
        BY <1>2, SumStep
  <2>3. SumFunction(Restrict(both, U \cup {x})) = SumFunction(Restrict(both, U)) + both[x]
        BY <1>2, SumStep
  <2>4. SumFunction(Restrict(both, U)) = SumFunction(Restrict(f, U)) + SumFunction(Restrict(k, U))
        BY <1>2
  <2>5. both[x] = f[x] + k[x] /\ f[x] \in Nat /\ k[x] \in Nat
        OBVIOUS
  <2>6. SumFunction(Restrict(both, U \cup {x}))
            = SumFunction(Restrict(f, U \cup {x})) + SumFunction(Restrict(k, U \cup {x}))
        BY <2>1, <2>2, <2>3, <2>4, <2>5
  <2>7. QED BY <2>6
<1>3. S \in F
  <2> HIDE DEF F
  <2>1. QED BY <1>1, <1>2, FiniteInduction
<1>4. Restrict(f, S) = f /\ Restrict(k, S) = k /\ Restrict(both, S) = both
      BY DEF Restrict
<1>5. QED BY <1>3, <1>4

\* The values of a function on a finite set have a largest.
LEMMA LargestExists ==
    ASSUME NEW S, IsFiniteSet(S), S # {}, NEW f \in [S -> Nat]
    PROVE  \E x \in S : \A y \in S : f[y] <= f[x]
<1> DEFINE F == {U \in SUBSET S : U # {} => \E x \in U : \A y \in U : f[y] <= f[x]}
<1>1. {} \in F
      OBVIOUS
<1>2. ASSUME NEW U \in SUBSET S, NEW x \in S, U \in F, x \notin U PROVE U \cup {x} \in F
  <2>1. CASE U = {}
        BY <2>1
  <2>2. CASE U # {}
    <3>1. PICK z \in U : \A y \in U : f[y] <= f[z]
          BY <1>2, <2>2
    <3>2. CASE f[x] <= f[z]
          BY <3>1, <3>2
    <3>3. CASE f[z] <= f[x]
      <4>1. \A y \in U \cup {x} : f[y] <= f[x]
            BY <3>1, <3>3
      <4>2. QED BY <4>1
    <3>4. QED BY <3>2, <3>3
  <2>3. QED BY <2>1, <2>2
<1>3. S \in F
  <2> HIDE DEF F
  <2>1. QED BY <1>1, <1>2, FiniteInduction
<1>4. QED BY <1>3

(***************************************************************************)
(* What is stored, and what the threads are doing                          *)
(***************************************************************************)
Row == [default : BOOLEAN, found : BOOLEAN]
Settings == {"default", "plain", "models", "status"}

TokenCounts == [input : Tokens, output : Tokens, cached : Tokens, miss : Tokens, total : Tokens]
Replies == [provider : AllProviders, tokens : TokenCounts, source : {"REPORTED", "ESTIMATED"}, cost : Tokens]
UsageRows == [task : Clients \cup {None}, scope : {"user_task", "diagnostic"}, provider : AllProviders,
              tokens : TokenCounts, source : {"REPORTED", "ESTIMATED"}, cost : Tokens, at : Nat]
ObservationRows == [task : Clients \cup {None}, scope : {"user_task", "diagnostic"}, at : Nat]
ProfileRows == [calls : Nat, successes : Nat, spent : Nat, known : BOOLEAN]
AnswerRows == [provider : AllProviders, role : Roles \cup {None}, routed : BOOLEAN, capped : BOOLEAN]

CallRows == [pc : {"resolve", "admit", "send", "fault", "credit", "settle", "observe"}, id : Nat,
             kind : Kinds, role : Roles \cup {None}, p : AllProviders \cup {None},
             fallback : AllProviders \cup {None}, capped : BOOLEAN, second : BOOLEAN, attempt : Nat,
             retry : BOOLEAN, response : Replies \cup {None}, row : UsageRows \cup {None}]

\* What is known of a call where it stands.
Shape(r) ==
    /\ r.pc # "resolve" => r.p \in AllProviders
    /\ r.pc \in {"resolve", "admit"} => r.kind = "model"
    /\ r.pc \in {"fault", "credit"} => r.kind \in {"model", "team"}
    /\ r.kind \in {"probe", "team"} => r.p \in Providers
    /\ r.kind \in {"model", "team"} => r.role \in Roles
    /\ r.pc \in {"credit", "settle", "observe"} =>
          /\ r.response \in Replies /\ r.response.provider = r.p
          /\ Known(r.response.cost) => r.response.cost = Price[r.p]
    /\ r.pc = "observe" => r.row \in UsageRows

ModelCalls == {r \in CallRows : Shape(r)}
TeamResults == {r \in ModelCalls : r.kind = "team" /\ r.pc \in {"fault", "credit"}}
Afterwards == {Idle} \cup TeamResults
Checks == [pc : {"get"}, p : Providers, set : Settings, after : Afterwards]
Updates == [pc : {"get"}, p : Providers, set : Settings, after : Afterwards \cup Checks]
RowWrites == [pc : {"write"}, p : Providers, row : Row, after : Afterwards \cup Checks]
Fetches == [pc : {"fetch"}, p : Providers, after : {Idle} \cup Checks]
Savings == [pc : {"set"}, p : Providers, mode : {"session", "secure"}]
Drops == [pc : {"drop"}, p : Providers]
Prunes == [pc : {"prune"}]
RegistryCalls == Updates \cup RowWrites \cup Fetches \cup Savings \cup Drops

Requested == {Idle} \cup ModelCalls \cup RegistryCalls \cup Prunes

CallsTyped == call \in [Clients -> Requested] /\ served \in Nat

RegistryTyped ==
    /\ Stored \subseteq Providers /\ \A p \in Stored : rows[p] \in Row
    /\ keys \in [Providers -> SUBSET {"session", "secure"}]

LedgerTyped ==
    /\ \A id \in DOMAIN usage : usage[id] \in UsageRows
    /\ \A id \in DOMAIN observations : observations[id] \in ObservationRows
    /\ now \in Nat

RoutesTyped ==
    /\ \A r \in DOMAIN routes : routes[r] \in RouteChoices
    /\ profiles \in [AllProviders \X Roles -> ProfileRows]
    /\ bound \in [Clients -> [routed : BOOLEAN, with : SUBSET AllProviders]]
    /\ \A id \in DOMAIN answers : answers[id] \in AnswerRows
    /\ deaths \in Nat

RoutingTyped == CallsTyped /\ RegistryTyped /\ LedgerTyped /\ RoutesTyped

(***************************************************************************)
(* The registry                                                            *)
(***************************************************************************)
DefaultIsOne == \A p, q \in Stored : rows[p].default /\ rows[q].default => p = q

\* A key that is being saved belongs to a provider, or it is known to be late.
SavedInTime == \A c \in Clients : At(c, "set") => call[c].p \in Stored \cup raced

RegistryInv == DefaultIsOne /\ KeysHaveProvider /\ SavedInTime

(***************************************************************************)
(* The calls                                                               *)
(***************************************************************************)
\* The provider has not answered yet.
Asking(r) == r.pc \in {"resolve", "admit", "send"} \/ (r.pc = "fault" /\ r.kind = "model")

\* A routed call is about to be entered in the performance table.
Crediting(r) == r.pc = "credit" /\ r.kind = "model"

Billed(r) == Crediting(r) \/ r.pc \in {"settle", "observe"}
Live(r) == Asking(r) \/ Billed(r)

\* Each call has an id of its own.
IdsDistinct ==
    /\ \A c \in Clients : Live(call[c]) =>
          /\ call[c].id \in 1 .. served
          /\ \A o \in Clients : Live(call[o]) /\ call[o].id = call[c].id => o = c
    /\ DOMAIN answers \subseteq 1 .. served
    /\ DOMAIN usage \cup DOMAIN observations \subseteq DOMAIN answers

\* Only the calls of a run with routes get there.
ByRoute(r) == r.pc \in {"resolve", "admit"} \/ (r.pc = "fault" /\ r.kind = "model") \/ Crediting(r)

RoutedRuns == \A c \in Clients : ByRoute(call[c]) => bound[c].routed

\* What has been entered for a call where it stands.
EnteredFor(c) ==
    LET r == call[c] IN
    /\ Asking(r) => r.id \notin DOMAIN answers
    /\ Billed(r) => /\ r.id \in DOMAIN answers
                  /\ answers[r.id] = [provider |-> r.p, role |-> r.role, routed |-> Routed(c),
                                      capped |-> r.capped]
                  /\ r.id \notin DOMAIN observations
    /\ Crediting(r) \/ r.pc = "settle" => r.id \notin DOMAIN usage
    /\ r.pc = "observe" /\ r.id \in DOMAIN usage \ split =>
          usage[r.id].task = r.row.task /\ usage[r.id].scope = r.row.scope

Entered == \A c \in Clients : EnteredFor(c)

\* A usage row and the cache observation of its call.
Paired ==
    \A id \in (DOMAIN usage \cap DOMAIN observations) \ split :
        observations[id].scope = usage[id].scope /\ observations[id].task = usage[id].task

CallsInv == IdsDistinct /\ RoutedRuns /\ Entered /\ Attributed /\ Paired

(***************************************************************************)
(* The accounts                                                            *)
(***************************************************************************)
\* The answers to routed calls of a role to a provider.
AnswersOf(p, role) ==
    {id \in DOMAIN answers : answers[id].routed /\ answers[id].provider = p /\ answers[id].role = role}

ToCredit == {id \in DOMAIN answers : \E c \in Clients : Crediting(call[c]) /\ call[c].id = id}

AnswersEntered ==
    deaths = 0 => \A p \in AllProviders, role \in Roles :
        Cardinality(AnswersOf(p, role) \ ToCredit) <= profiles[<<p, role>>].successes

\* Costs that the performance table has added up: those of the usage rows, and of the
\* calls that have no row yet.
Charges(p, role, costs) ==
    /\ IsFiniteSet(DOMAIN costs) /\ costs \in [DOMAIN costs -> Nat]
    /\ DOMAIN costs \subseteq DOMAIN answers \ ToCredit
    /\ \A id \in DOMAIN usage \cap AnswersOf(p, role) : id \in DOMAIN costs /\ costs[id] = usage[id].cost
    /\ \A c \in Clients :
          At(c, "settle") /\ call[c].id \in AnswersOf(p, role) =>
             call[c].id \in DOMAIN costs /\ costs[call[c].id] = call[c].response.cost
    /\ SumFunction(costs) <= profiles[<<p, role>>].spent

CostsCharged ==
    \A p \in AllProviders, role \in Roles :
        profiles[<<p, role>>].known => \E costs : Charges(p, role, costs)

\* What the answers to a role cost, what its calls under way may cost, and what the
\* performance table has still to add.
Asked(role) == {id \in DOMAIN answers : answers[id].role = role}
OnlyCapped(role) == deaths = 0 /\ \A id \in Asked(role) : answers[id].routed /\ answers[id].capped
Paying(role) == SumFunction([id \in Asked(role) |-> Price[answers[id].provider]])

Capped(r, role) == r.pc = "send" /\ r.kind = "model" /\ r.capped /\ r.role = role
Sent(role) ==
    [c \in Clients |-> IF Capped(call[c], role) /\ bound[c].routed THEN Price[call[c].p] ELSE 0]
Due(role) ==
    [c \in Clients |-> IF Crediting(call[c]) /\ call[c].role = role THEN Price[call[c].p] ELSE 0]

Allowance == CostBudget + (Cardinality(Clients) - 1) * Max({Price[p] : p \in AllProviders})

WithinAllowance ==
    \A role \in Roles : OnlyCapped(role) =>
        /\ Paying(role) + SumFunction(Sent(role)) <= Allowance
        /\ (\A q \in AllProviders : profiles[<<q, role>>].known) =>
              Paying(role) <= Spent(role) + SumFunction(Due(role))

RoutingInv ==
    RoutingTyped /\ RegistryInv /\ CallsInv /\ AnswersEntered /\ CostsCharged /\ WithinAllowance

LEMMA RoutingAssumed ==
    /\ IsFiniteSet(AllProviders) /\ AllProviders # {}
    /\ \A p \in AllProviders : Price[p] \in Nat
BY ModelRoutingAssumption, FS_Union DEF AllProviders

\* What a thread is doing tells what it holds.
LEMMA InHand ==
    ASSUME NEW r \in Requested
    PROVE  /\ r.pc = "idle" => r = Idle
           /\ r.pc \in {"resolve", "admit", "send", "fault", "credit", "settle", "observe"} => r \in ModelCalls
           /\ r.pc = "get" => r \in Updates
           /\ r.pc = "write" => r \in RowWrites
           /\ r.pc = "fetch" => r \in Fetches
           /\ r.pc = "set" => r \in Savings
           /\ r.pc = "drop" => r \in Drops
BY DEF Requested, Idle, ModelCalls, CallRows, RegistryCalls, Updates, RowWrites, Fetches, Savings, Drops, Prunes

\* What a test of a provider or of the team goes on with is a request again.
LEMMA AfterwardsTyped ==
    ASSUME NEW r \in Afterwards \cup Checks
    PROVE  r \in Requested /\ ~Live(r) /\ ~ByRoute(r) /\ r.pc \notin {"set", "drop", "send"}
<1>1. r \in Requested
      BY DEF Afterwards, Checks, TeamResults, Requested, RegistryCalls, Updates
<1>2. r.pc \in {"idle", "get"} \/ (r.pc \in {"fault", "credit"} /\ r.kind = "team")
      BY DEF Afterwards, Checks, TeamResults, Idle
<1>3. QED BY <1>1, <1>2 DEF Live, Asking, Billed, Crediting, ByRoute

LEMMA RegistryTypedCalls ==
    ASSUME NEW r \in RegistryCalls \cup Prunes \cup {Idle}
    PROVE  r \in Requested /\ ~Live(r) /\ ~ByRoute(r) /\ r.pc # "send"
<1>1. r.pc \in {"idle", "get", "write", "fetch", "set", "drop", "prune"}
      BY DEF RegistryCalls, Prunes, Idle, Updates, RowWrites, Fetches, Savings, Drops
<1>2. QED BY <1>1 DEF Requested, Live, Asking, Billed, Crediting, ByRoute

\* What a step may make of the request of one thread, but for the answer to a call and
\* its entries.
Goes(c, x) ==
    /\ x \in Requested
    /\ call' = [call EXCEPT ![c] = x]
    /\ bound' \in [Clients -> [routed : BOOLEAN, with : SUBSET AllProviders]]
    /\ \A d \in Clients : (d = c /\ ~Live(x)) \/ bound'[d] = bound[d]
    /\ served' \in {served, served + 1}
    /\ x = call[c] \/ ~Crediting(call[c])
    /\ Live(x) => \/ x = call[c]
                  \/ (Asking(x) /\ Asking(call[c]) /\ x.id = call[c].id)
                  \/ (Asking(x) /\ x.id = served + 1 /\ served' = served + 1)
    /\ ByRoute(x) => bound[c].routed
    /\ \A role \in Roles : Capped(x, role) /\ bound[c].routed =>
          \/ x = call[c]
          \/ (x.p \in AllProviders /\ WithinBudget(x.p, role))

\* The highest price.
Highest == Max({Price[p] : p \in AllProviders})

LEMMA HighestPrice == Highest \in Nat /\ \A p \in AllProviders : Price[p] <= Highest
<1>1. PICK p \in AllProviders : \A q \in AllProviders : Price[q] <= Price[p]
      BY RoutingAssumed, ModelRoutingAssumption, LargestExists
<1> DEFINE S == {Price[q] : q \in AllProviders}
<1>2. \E x \in S : \A y \in S : x >= y
      BY <1>1, RoutingAssumed
<1>3. Max(S) \in S /\ \A y \in S : Max(S) >= y
      BY <1>2 DEF Max
<1>4. QED BY <1>3, RoutingAssumed DEF Highest

\* Weights of the threads.
LEMMA PartsTyped ==
    ASSUME RoutingTyped, NEW role \in Roles
    PROVE  /\ Sent(role) \in [Clients -> Nat] /\ Due(role) \in [Clients -> Nat]
           /\ \A c \in Clients : Sent(role)[c] + Due(role)[c] <= Highest
<1>1. \A c \in Clients : Capped(call[c], role) \/ Crediting(call[c]) =>
          Price[call[c].p] \in Nat /\ Price[call[c].p] <= Highest
  <2>1. ASSUME NEW c \in Clients, Capped(call[c], role) \/ Crediting(call[c])
        PROVE  call[c].p \in AllProviders
        BY <2>1, InHand DEF RoutingTyped, CallsTyped, Capped, Crediting, ModelCalls, Shape
  <2>2. QED BY <2>1, RoutingAssumed, HighestPrice
<1>2. \A c \in Clients : ~(Capped(call[c], role) /\ Crediting(call[c]))
      BY DEF Capped, Crediting
<1>3. QED BY <1>1, <1>2, HighestPrice DEF Sent, Due

\* The table of a provider's performance has lost no success and no cost.
ProfilesGrow ==
    /\ profiles' \in [AllProviders \X Roles -> ProfileRows]
    /\ \A a \in AllProviders \X Roles :
          /\ profiles[a].successes <= profiles'[a].successes
          /\ profiles'[a].known => profiles[a].known /\ profiles[a].spent <= profiles'[a].spent

\* No usage row is new, and none has another cost.
UsageShrinks == \A id \in DOMAIN usage' : id \in DOMAIN usage /\ usage'[id].cost = usage[id].cost

LEMMA NothingCredited ==
    ASSUME RoutingTyped, NEW c \in Clients, NEW x, Goes(c, x), UNCHANGED answers
    PROVE  /\ ToCredit' = ToCredit
           /\ \A p \in AllProviders, role \in Roles : AnswersOf(p, role)' = AnswersOf(p, role)
           /\ \A role \in Roles : Asked(role)' = Asked(role) /\ Due(role)' = Due(role)
           /\ \A d \in Clients : At(d, "settle")' => call'[d] = call[d]
<1>1. \A d \in Clients : call'[d] = IF d = c THEN x ELSE call[d]
      BY DEF Goes, RoutingTyped, CallsTyped
<1>2. Crediting(x) \/ Crediting(call[c]) => x = call[c]
      BY DEF Goes, Live, Billed, Asking, Crediting
<1>3. x.pc = "settle" => x = call[c]
      BY DEF Goes, Live, Billed, Asking, Crediting
<1>4. ToCredit' = ToCredit
      BY <1>1, <1>2 DEF ToCredit
<1>5. \A role \in Roles : Due(role)' = Due(role)
      BY <1>1, <1>2 DEF Due
<1>6. QED BY <1>1, <1>3, <1>4, <1>5 DEF AnswersOf, Asked, At

\* There are finitely many calls.
LEMMA AnswersFinite ==
    ASSUME RoutingTyped, IdsDistinct
    PROVE  \A T \in SUBSET DOMAIN answers : IsFiniteSet(T) /\ Cardinality(T) \in Nat
<1>1. DOMAIN answers \subseteq 1 .. served /\ served \in Nat
      BY DEF IdsDistinct, RoutingTyped, CallsTyped
<1>2. IsFiniteSet(1 .. served)
      BY <1>1, FS_Interval
<1>3. ASSUME NEW T \in SUBSET DOMAIN answers PROVE IsFiniteSet(T)
  <2>1. T \in SUBSET (1 .. served)
        BY <1>1
  <2>2. QED BY <1>2, <2>1, FS_Subset
<1>4. QED BY <1>3, FS_CardinalityType

LEMMA CountedStays ==
    ASSUME RoutingTyped, IdsDistinct, AnswersEntered, NEW c \in Clients, NEW x, Goes(c, x),
           UNCHANGED <<answers, deaths>>, ProfilesGrow
    PROVE  AnswersEntered'
<1> SUFFICES ASSUME deaths' = 0, NEW p \in AllProviders, NEW role \in Roles
             PROVE  Cardinality((AnswersOf(p, role) \ ToCredit)') <= profiles'[<<p, role>>].successes
    BY DEF AnswersEntered
<1>1. (AnswersOf(p, role) \ ToCredit)' = AnswersOf(p, role) \ ToCredit
      BY NothingCredited
<1>2. Cardinality(AnswersOf(p, role) \ ToCredit) <= profiles[<<p, role>>].successes
      BY DEF AnswersEntered
<1>3. Cardinality(AnswersOf(p, role) \ ToCredit) \in Nat
      BY AnswersFinite DEF AnswersOf
<1>4. /\ profiles[<<p, role>>].successes <= profiles'[<<p, role>>].successes
      /\ profiles[<<p, role>>].successes \in Nat /\ profiles'[<<p, role>>].successes \in Nat
      BY DEF ProfilesGrow, RoutingTyped, RoutesTyped, ProfileRows
<1>5. QED BY <1>1, <1>2, <1>3, <1>4

LEMMA ChargedStays ==
    ASSUME RoutingTyped, CostsCharged, NEW c \in Clients, NEW x, Goes(c, x),
           UNCHANGED answers, ProfilesGrow, UsageShrinks
    PROVE  CostsCharged'
<1> SUFFICES ASSUME NEW p \in AllProviders, NEW role \in Roles, profiles'[<<p, role>>].known
             PROVE  \E costs : Charges(p, role, costs)'
    BY DEF CostsCharged
<1>1. profiles[<<p, role>>].known /\ profiles[<<p, role>>].spent <= profiles'[<<p, role>>].spent
      BY DEF ProfilesGrow
<1>2. PICK costs : Charges(p, role, costs)
      BY <1>1 DEF CostsCharged
<1>3. SumFunction(costs) <= profiles'[<<p, role>>].spent
  <2>1. SumFunction(costs) \in Nat
        BY <1>2, SumType DEF Charges
  <2>2. profiles[<<p, role>>].spent \in Nat /\ profiles'[<<p, role>>].spent \in Nat
        BY DEF ProfilesGrow, RoutingTyped, RoutesTyped, ProfileRows
  <2>3. QED BY <1>1, <1>2, <2>1, <2>2 DEF Charges
<1>4. Charges(p, role, costs)'
      BY <1>2, <1>3, NothingCredited DEF Charges, UsageShrinks, At
<1>5. QED BY <1>4

\* What a role has spent is a number, and grows.
LEMMA SpentGrows ==
    ASSUME RoutingTyped, ProfilesGrow, NEW role \in Roles
    PROVE  /\ Spent(role) \in Nat /\ Spent(role)' \in Nat
           /\ (\A q \in AllProviders : profiles'[<<q, role>>].known) =>
                 /\ \A q \in AllProviders : profiles[<<q, role>>].known
                 /\ Spent(role) <= Spent(role)'
<1> DEFINE f == [q \in AllProviders |-> profiles[<<q, role>>].spent]
           k == [q \in AllProviders |-> profiles'[<<q, role>>].spent]
<1>1. f \in [AllProviders -> Nat] /\ k \in [AllProviders -> Nat]
      BY DEF RoutingTyped, RoutesTyped, ProfilesGrow, ProfileRows
<1>2. ASSUME \A q \in AllProviders : profiles'[<<q, role>>].known
      PROVE  /\ \A q \in AllProviders : profiles[<<q, role>>].known
             /\ \A q \in AllProviders : f[q] <= k[q]
      BY <1>2 DEF ProfilesGrow
<1>3. Spent(role) = SumFunction(f) /\ Spent(role)' = SumFunction(k)
      BY DEF Spent
<1> HIDE DEF f, k
<1>4. SumFunction(f) \in Nat /\ SumFunction(k) \in Nat
      BY <1>1, RoutingAssumed, SumType
<1>5. (\A q \in AllProviders : f[q] <= k[q]) => SumFunction(f) <= SumFunction(k)
      BY <1>1, RoutingAssumed, SumMonotone
<1>6. QED BY <1>2, <1>3, <1>4, <1>5

LEMMA PayingTyped ==
    ASSUME RoutingTyped, IdsDistinct, NEW role \in Roles
    PROVE  Paying(role) \in Nat
<1> DEFINE f == [id \in Asked(role) |-> Price[answers[id].provider]]
<1>1. f \in [Asked(role) -> Nat]
      BY RoutingAssumed DEF Asked, RoutingTyped, RoutesTyped, AnswerRows
<1>2. IsFiniteSet(Asked(role))
      BY AnswersFinite DEF Asked
<1> HIDE DEF f
<1>3. SumFunction(f) \in Nat
      BY <1>1, <1>2, SumType
<1>4. QED BY <1>3 DEF f, Paying

\* A call is sent with a budget only after the test of the budget.
LEMMA SentAfterTest ==
    ASSUME RoutingTyped, NEW c \in Clients, NEW x, Goes(c, x), NEW role \in Roles
    PROVE  /\ Sent(role)' \in [Clients -> Nat]
           /\ \A o \in Clients \ {c} : Sent(role)'[o] = Sent(role)[o]
           /\ \/ Sent(role)'[c] <= Sent(role)[c]
              \/ /\ Sent(role)'[c] <= Highest /\ Due(role)[c] = 0
                 /\ \A q \in AllProviders : profiles[<<q, role>>].known
                 /\ Spent(role) + Sent(role)'[c] <= CostBudget
<1>1. \A o \in Clients : call'[o] = IF o = c THEN x ELSE call[o]
      BY DEF Goes, RoutingTyped, CallsTyped
<1>2. \A o \in Clients \ {c} : bound'[o] = bound[o]
      BY DEF Goes
<1>3. Sent(role) \in [Clients -> Nat]
      BY PartsTyped
<1>4. \A o \in Clients \ {c} : Sent(role)'[o] = Sent(role)[o]
      BY <1>1, <1>2 DEF Sent
<1>5. CASE ~(Capped(x, role) /\ bound'[c].routed)
  <2>1. Sent(role)'[c] = 0
        BY <1>1, <1>5 DEF Sent
  <2>2. Sent(role)' = [o \in Clients |-> Sent(role)'[o]]
        BY DEF Sent
  <2>3. QED BY <1>3, <1>4, <2>1, <2>2
<1>6. CASE Capped(x, role) /\ bound'[c].routed
  <2>1. Live(x) /\ bound'[c] = bound[c]
        BY <1>6 DEF Capped, Live, Asking, Goes
  <2>2. Sent(role)'[c] = Price[x.p]
        BY <1>1, <1>6 DEF Sent
  <2>3. Sent(role)' = [o \in Clients |-> Sent(role)'[o]]
        BY DEF Sent
  <2>4. CASE x = call[c]
    <3>1. Sent(role)'[c] = Sent(role)[c]
          BY <1>6, <2>1, <2>2, <2>4 DEF Sent
    <3>2. QED BY <1>3, <1>4, <2>3, <3>1
  <2>5. CASE x # call[c]
    <3>1. x.p \in AllProviders /\ WithinBudget(x.p, role)
          BY <1>6, <2>1, <2>5 DEF Goes
    <3>2. Due(role)[c] = 0
          BY <2>5 DEF Goes, Due
    <3>3. Price[x.p] \in Nat /\ Price[x.p] <= Highest
          BY <3>1, RoutingAssumed, HighestPrice
    <3>4. QED BY <1>3, <1>4, <2>2, <2>3, <3>1, <3>2, <3>3 DEF WithinBudget
  <2>6. QED BY <2>4, <2>5
<1>7. QED BY <1>5, <1>6

\* Whatever the other threads have sent, or have still to enter, is at most one call of
\* each of them.
LEMMA OthersWithin ==
    ASSUME NEW c \in Clients, NEW t \in [Clients -> Nat], NEW d \in [Clients -> Nat],
           \A o \in Clients \ {c} : t[o] + d[o] <= Highest
    PROVE  SumFunction(t) + SumFunction(d)
              <= t[c] + d[c] + (Cardinality(Clients) - 1) * Highest
<1> DEFINE S == Clients \ {c}
           e == [o \in S |-> t[o] + d[o]]
           tt == Without(t, c)
           dd == Without(d, c)
<1>1. IsFiniteSet(Clients) /\ IsFiniteSet(S) /\ Cardinality(S) = Cardinality(Clients) - 1
      BY ModelRoutingAssumption, FS_RemoveElement
<1>2. /\ SumFunction(t) = t[c] + SumFunction(tt) /\ SumFunction(tt) \in Nat
      /\ SumFunction(d) = d[c] + SumFunction(dd) /\ SumFunction(dd) \in Nat
      BY <1>1, SumWithout
<1>3. tt \in [S -> Nat] /\ dd \in [S -> Nat] /\ e \in [S -> Nat]
      BY DEF Without
<1>4. \A o \in S : e[o] = tt[o] + dd[o] /\ e[o] <= Highest
      BY DEF Without
<1> HIDE DEF S, e, tt, dd
<1>5. SumFunction(e) = SumFunction(tt) + SumFunction(dd)
      BY <1>1, <1>3, <1>4, SumOfBoth
<1>6. SumFunction(e) <= Cardinality(S) * Highest
      BY <1>1, <1>3, <1>4, HighestPrice, SumBound
<1>7. t[c] \in Nat /\ d[c] \in Nat
      OBVIOUS
<1> DEFINE others == Cardinality(S) * Highest
<1>8. others \in Nat
      BY <1>1, HighestPrice, FS_CardinalityType
<1>9. SumFunction(e) <= others
      BY <1>6
<1>10. others = (Cardinality(Clients) - 1) * Highest
      BY <1>1
<1> HIDE DEF others
<1>11. QED BY <1>2, <1>5, <1>7, <1>8, <1>9, <1>10

LEMMA AllowanceStays ==
    ASSUME RoutingTyped, IdsDistinct, WithinAllowance, NEW c \in Clients, NEW x, Goes(c, x),
           UNCHANGED <<answers, deaths>>, ProfilesGrow
    PROVE  WithinAllowance'
<1> SUFFICES ASSUME NEW role \in Roles, OnlyCapped(role)'
             PROVE  /\ Paying(role)' + SumFunction(Sent(role)') <= Allowance
                    /\ (\A q \in AllProviders : profiles'[<<q, role>>].known) =>
                          Paying(role)' <= Spent(role)' + SumFunction(Due(role)')
    BY DEF WithinAllowance, Allowance
<1> DEFINE s == Sent(role)
           t == Sent(role)'
           d == Due(role)
           rest == (Cardinality(Clients) - 1) * Highest
<1>1. OnlyCapped(role) /\ Paying(role)' = Paying(role) /\ Due(role)' = Due(role)
      BY NothingCredited DEF OnlyCapped, Paying
<1>2. /\ Paying(role) + SumFunction(s) <= Allowance
      /\ (\A q \in AllProviders : profiles[<<q, role>>].known) => Paying(role) <= Spent(role) + SumFunction(d)
      BY <1>1 DEF WithinAllowance
<1>3. s \in [Clients -> Nat] /\ d \in [Clients -> Nat] /\ \A o \in Clients : s[o] + d[o] <= Highest
      BY PartsTyped
<1>4. /\ t \in [Clients -> Nat] /\ \A o \in Clients \ {c} : t[o] = s[o]
      /\ \/ t[c] <= s[c]
         \/ /\ t[c] <= Highest /\ d[c] = 0
            /\ \A q \in AllProviders : profiles[<<q, role>>].known
            /\ Spent(role) + t[c] <= CostBudget
      BY SentAfterTest
<1>5. Allowance = CostBudget + rest
      BY DEF Allowance, Highest
<1>6. Paying(role) \in Nat /\ Spent(role) \in Nat /\ Spent(role)' \in Nat
      BY PayingTyped, SpentGrows
<1> HIDE DEF s, t, d, rest
<1>7. SumFunction(s) \in Nat /\ SumFunction(t) \in Nat /\ SumFunction(d) \in Nat
      BY <1>3, <1>4, ModelRoutingAssumption, SumType
<1>8. rest \in Nat
  <2>1. Cardinality(Clients) \in Nat /\ Cardinality(Clients) # 0
        BY ModelRoutingAssumption, FS_CardinalityType, FS_EmptySet
  <2>2. Cardinality(Clients) - 1 \in Nat
        BY <2>1
  <2>3. QED BY <2>2, HighestPrice DEF rest
<1>9. Paying(role) + SumFunction(t) <= Allowance
  <2>1. CASE t[c] <= s[c]
    <3>1. \A o \in Clients : t[o] <= s[o]
          BY <1>3, <1>4, <2>1
    <3>2. SumFunction(t) <= SumFunction(s)
          BY <1>3, <1>4, <3>1, ModelRoutingAssumption, SumMonotone
    <3>3. QED BY <1>2, <1>5, <1>6, <1>7, <1>8, <3>2, ModelRoutingAssumption
  <2>2. CASE ~(t[c] <= s[c])
    <3>1. /\ d[c] = 0 /\ \A q \in AllProviders : profiles[<<q, role>>].known
          /\ Spent(role) + t[c] <= CostBudget
          BY <1>4, <2>2
    <3>2. \A o \in Clients \ {c} : t[o] + d[o] <= Highest
          BY <1>3, <1>4
    <3>3. SumFunction(t) + SumFunction(d) <= t[c] + d[c] + rest
          BY <1>3, <1>4, <3>2, OthersWithin DEF rest
    <3>4. Paying(role) <= Spent(role) + SumFunction(d)
          BY <1>2, <3>1
    <3>5. t[c] \in Nat
          BY <1>4
    <3>6. QED BY <1>5, <1>6, <1>7, <1>8, <3>1, <3>3, <3>4, <3>5, ModelRoutingAssumption
  <2>3. QED BY <2>1, <2>2
<1>10. (\A q \in AllProviders : profiles'[<<q, role>>].known) => Paying(role) <= Spent(role)' + SumFunction(d)
      BY <1>2, <1>6, <1>7, SpentGrows
<1>11. QED BY <1>1, <1>9, <1>10 DEF d, t

(***************************************************************************)
(* The calls stay consistent                                               *)
(***************************************************************************)
\* What a step may do with the telemetry, but for a new row.
Fades ==
    /\ \A id \in DOMAIN usage' :
          id \in DOMAIN usage /\ usage'[id].cost = usage[id].cost /\ usage'[id].provider = usage[id].provider
    /\ DOMAIN observations' \subseteq DOMAIN observations
    /\ Paired'
    /\ \A d \in Clients : At(d, "observe") /\ call[d].id \in DOMAIN usage' \ split' =>
          usage'[call[d].id].task = call[d].row.task /\ usage'[call[d].id].scope = call[d].row.scope

LEMMA LedgerFades ==
    ASSUME CallsInv, UNCHANGED ledger
    PROVE  Fades
BY DEF Fades, ledger, CallsInv, Entered, EnteredFor, Paired, At

LEMMA IdsStay ==
    ASSUME RoutingTyped, IdsDistinct, NEW c \in Clients, NEW x, Goes(c, x), UNCHANGED answers, Fades
    PROVE  IdsDistinct'
<1>1. \A o \in Clients : call'[o] = IF o = c THEN x ELSE call[o]
      BY DEF Goes, RoutingTyped, CallsTyped
<1>2. served \in Nat /\ served' \in {served, served + 1}
      BY DEF Goes, RoutingTyped, CallsTyped
<1>3. \A o \in Clients : Live(call[o]) => call[o].id \in 1 .. served
      BY DEF IdsDistinct
<1>4. Live(x) => \/ Live(call[c]) /\ x.id = call[c].id
                 \/ x.id = served + 1 /\ served' = served + 1
      BY DEF Goes, Live
<1>5. ASSUME NEW o \in Clients, Live(call'[o])
      PROVE  call'[o].id \in 1 .. served'
      BY <1>1, <1>2, <1>3, <1>4, <1>5
<1>6. ASSUME NEW o \in Clients, NEW d \in Clients, Live(call'[o]), Live(call'[d]), call'[o].id = call'[d].id
      PROVE  o = d
  <2>1. CASE o # c /\ d # c
        BY <1>1, <1>6, <2>1 DEF IdsDistinct
  <2>2. CASE o = c /\ d # c
        BY <1>1, <1>2, <1>3, <1>4, <1>6, <2>2 DEF IdsDistinct
  <2>3. CASE o # c /\ d = c
        BY <1>1, <1>2, <1>3, <1>4, <1>6, <2>3 DEF IdsDistinct
  <2>4. QED BY <2>1, <2>2, <2>3
<1>7. DOMAIN answers' \subseteq 1 .. served'
      BY <1>2 DEF IdsDistinct
<1>8. DOMAIN usage' \cup DOMAIN observations' \subseteq DOMAIN answers'
      BY DEF IdsDistinct, Fades
<1>9. QED
  <2>1. \A r : Live(r)' <=> Live(r)
        BY DEF Live, Asking, Billed, Crediting
  <2>2. QED BY <1>5, <1>6, <1>7, <1>8 DEF IdsDistinct, Live, Asking, Billed, Crediting

LEMMA EnteredStays ==
    ASSUME RoutingTyped, IdsDistinct, Entered, NEW c \in Clients, NEW x, Goes(c, x), UNCHANGED answers, Fades
    PROVE  Entered'
<1>1. \A o \in Clients : call'[o] = IF o = c THEN x ELSE call[o]
      BY DEF Goes, RoutingTyped, CallsTyped
<1>2. ASSUME NEW o \in Clients, call'[o] = call[o]
      PROVE  EnteredFor(o)'
  <2>1. EnteredFor(o)
        BY DEF Entered
  <2>2. Billed(call[o]) => bound'[o] = bound[o]
        BY <1>1, <1>2 DEF Goes, Live
  <2>3. QED BY <1>2, <2>1, <2>2 DEF EnteredFor, Fades, Asking, Billed, Crediting, Routed, At
<1>3. ASSUME x # call[c]
      PROVE  EnteredFor(c)'
  <2>1. ~Billed(x) /\ (Asking(x) => x.id \notin DOMAIN answers)
    <3>1. Live(x) => \/ (Asking(x) /\ Asking(call[c]) /\ x.id = call[c].id)
                     \/ (Asking(x) /\ x.id = served + 1)
          BY <1>3 DEF Goes
    <3>2. ~(Asking(x) /\ Billed(x))
          BY DEF Asking, Billed, Crediting
    <3>3. served + 1 \notin DOMAIN answers
          BY DEF IdsDistinct, RoutingTyped, CallsTyped
    <3>4. QED BY <3>1, <3>2, <3>3 DEF Live, Entered, EnteredFor
  <2>2. QED BY <1>1, <2>1 DEF EnteredFor, Asking, Billed, Crediting
<1>4. QED BY <1>1, <1>2, <1>3 DEF Entered

LEMMA CallsStay ==
    ASSUME RoutingTyped, CallsInv, NEW c \in Clients, NEW x, Goes(c, x), UNCHANGED answers, Fades
    PROVE  CallsInv'
<1>1. IdsDistinct'
      BY IdsStay DEF CallsInv
<1>2. RoutedRuns'
  <2>1. \A o \in Clients : call'[o] = IF o = c THEN x ELSE call[o]
        BY DEF Goes, RoutingTyped, CallsTyped
  <2>2. ByRoute(x) => bound'[c] = bound[c] /\ bound[c].routed
        BY DEF Goes, Live, ByRoute, Asking, Billed, Crediting
  <2>3. QED BY <2>1, <2>2 DEF CallsInv, RoutedRuns, Goes, ByRoute, Crediting
<1>3. Entered'
      BY EnteredStays DEF CallsInv
<1>4. Attributed'
      BY DEF CallsInv, Attributed, Fades
<1>5. Paired'
      BY DEF Fades
<1>6. QED BY <1>1, <1>2, <1>3, <1>4, <1>5 DEF CallsInv

\* A step that is no answer and enters nothing.
LEMMA AccountsStay ==
    ASSUME RoutingInv, NEW c \in Clients, NEW x, Goes(c, x), UNCHANGED <<answers, deaths>>, ProfilesGrow, Fades
    PROVE  CallsInv' /\ AnswersEntered' /\ CostsCharged' /\ WithinAllowance'
<1>1. UsageShrinks
      BY DEF Fades, UsageShrinks
<1>2. CallsInv'
      BY CallsStay DEF RoutingInv
<1>3. AnswersEntered'
      BY CountedStays DEF RoutingInv, CallsInv
<1>4. CostsCharged'
      BY <1>1, ChargedStays DEF RoutingInv
<1>5. WithinAllowance'
      BY AllowanceStays DEF RoutingInv, CallsInv
<1>6. QED BY <1>2, <1>3, <1>4, <1>5

(***************************************************************************)
(* Where a call goes                                                       *)
(***************************************************************************)
Places == {"resolve", "admit", "send", "fault", "credit", "settle", "observe"}

LEMMA CallMoves ==
    ASSUME NEW r \in CallRows, NEW pc \in Places
    PROVE  /\ [r EXCEPT !.pc = pc] \in CallRows
           /\ [r EXCEPT !.pc = pc, !.attempt = @ + 1] \in CallRows
           /\ \A retry \in BOOLEAN : [r EXCEPT !.pc = pc, !.retry = retry] \in CallRows
           /\ \A p \in AllProviders : [r EXCEPT !.pc = pc, !.p = p, !.second = TRUE] \in CallRows
           /\ \A response \in Replies : [r EXCEPT !.pc = pc, !.response = response] \in CallRows
           /\ \A row \in UsageRows : [r EXCEPT !.pc = pc, !.row = row] \in CallRows
           /\ \A route \in RouteChoices : [r EXCEPT !.pc = pc, !.p = route.provider, !.second = FALSE,
                  !.fallback = route.fallback, !.capped = route.capped] \in CallRows
<1>1. [r EXCEPT !.pc = pc] \in CallRows
      BY DEF CallRows, Places
<1>2. [r EXCEPT !.pc = pc, !.attempt = @ + 1] \in CallRows
  <2>1. \A n \in Nat : [r EXCEPT !.pc = pc, !.attempt = n] \in CallRows
        BY DEF CallRows, Places
  <2>2. r.attempt + 1 \in Nat
        BY DEF CallRows
  <2>3. QED BY <2>1, <2>2
<1>3. \A retry \in BOOLEAN : [r EXCEPT !.pc = pc, !.retry = retry] \in CallRows
      BY DEF CallRows, Places
<1>4. \A p \in AllProviders : [r EXCEPT !.pc = pc, !.p = p, !.second = TRUE] \in CallRows
      BY DEF CallRows, Places
<1>5. \A response \in Replies : [r EXCEPT !.pc = pc, !.response = response] \in CallRows
      BY DEF CallRows, Places
<1>6. \A row \in UsageRows : [r EXCEPT !.pc = pc, !.row = row] \in CallRows
      BY DEF CallRows, Places
<1>7. ASSUME NEW route \in RouteChoices
      PROVE  [r EXCEPT !.pc = pc, !.p = route.provider, !.second = FALSE,
                  !.fallback = route.fallback, !.capped = route.capped] \in CallRows
  <2>1. route.provider \in AllProviders /\ route.fallback \in AllProviders \cup {None} /\ route.capped \in BOOLEAN
        BY ModelRoutingAssumption
  <2>2. QED BY <2>1 DEF CallRows, Places
<1>8. QED BY <1>1, <1>2, <1>3, <1>4, <1>5, <1>6, <1>7

\* The call of a thread in one of these places.
LEMMA InCall ==
    ASSUME RoutingTyped, NEW c \in Clients, call[c].pc \in Places
    PROVE  call[c] \in CallRows /\ Shape(call[c])
BY InHand DEF RoutingTyped, CallsTyped, Places, ModelCalls

\* A request of the registry, or none, in the place of a call.
LEMMA GoesAway ==
    ASSUME RoutingTyped, NEW c \in Clients, NEW x \in RegistryCalls \cup Prunes \cup {Idle},
           Become(c, x), bound' = bound, ~Crediting(call[c])
    PROVE  Goes(c, x)
<1>1. x \in Requested /\ ~Live(x) /\ ~ByRoute(x) /\ x.pc # "send"
      BY RegistryTypedCalls
<1>2. served' = served /\ call' = [call EXCEPT ![c] = x]
      BY DEF Become, requests
<1>3. bound' \in [Clients -> [routed : BOOLEAN, with : SUBSET AllProviders]]
      BY DEF RoutingTyped, RoutesTyped
<1>4. QED BY <1>1, <1>2, <1>3 DEF Goes, Capped

\* The next place of a call that has no answer yet.
LEMMA GoesOn ==
    ASSUME RoutingTyped, NEW c \in Clients, NEW x \in CallRows, Shape(x), Become(c, x), bound' = bound,
           Asking(call[c]), Asking(x), x.id = call[c].id, ByRoute(x) => bound[c].routed,
           \A role \in Roles : ~Capped(x, role) \/ ~bound[c].routed \/ WithinBudget(x.p, role)
    PROVE  Goes(c, x)
<1>1. x \in Requested
      BY DEF Requested, ModelCalls
<1>2. served' = served /\ call' = [call EXCEPT ![c] = x]
      BY DEF Become, requests
<1>3. bound' \in [Clients -> [routed : BOOLEAN, with : SUBSET AllProviders]]
      BY DEF RoutingTyped, RoutesTyped
<1>4. ~Crediting(call[c])
      BY DEF Asking, Crediting
<1>5. \A role \in Roles : Capped(x, role) => x.p \in AllProviders
      BY DEF Capped, Shape
<1>6. QED BY <1>1, <1>2, <1>3, <1>4, <1>5 DEF Goes

(***************************************************************************)
(* The steps of the model calls                                            *)
(***************************************************************************)
\* The invariant when a step of a thread goes on with something that is neither the
\* answer to a call nor its entry, and leaves registry and telemetry alone.
Calm(c, x) ==
    /\ Goes(c, x) /\ ProfilesGrow
    /\ UNCHANGED <<registry, ledger, answers, deaths>>
    /\ \A r \in DOMAIN routes' : routes'[r] \in RouteChoices
    /\ x = call[c] \/ (call[c].pc # "drop" /\ x.pc # "set")

LEMMA CalmKeeps ==
    ASSUME RoutingInv, NEW c \in Clients, NEW x, Calm(c, x)
    PROVE  RoutingInv'
<1>1. /\ Goes(c, x) /\ ProfilesGrow /\ UNCHANGED <<registry, ledger, answers, deaths>>
      /\ \A r \in DOMAIN routes' : routes'[r] \in RouteChoices
      BY DEF Calm
<1>2. Fades
      BY <1>1, LedgerFades DEF RoutingInv
<1>3. CallsInv' /\ AnswersEntered' /\ CostsCharged' /\ WithinAllowance'
      BY <1>1, <1>2, AccountsStay
<1>4. RoutingTyped'
  <2>1. CallsTyped'
        BY <1>1 DEF Goes, RoutingInv, RoutingTyped, CallsTyped
  <2>2. RegistryTyped' /\ LedgerTyped'
        BY <1>1 DEF RoutingInv, RoutingTyped, RegistryTyped, LedgerTyped, registry, ledger, Stored
  <2>3. RoutesTyped'
        BY <1>1 DEF Goes, ProfilesGrow, RoutingInv, RoutingTyped, RoutesTyped
  <2>4. QED BY <2>1, <2>2, <2>3 DEF RoutingTyped
<1>5. RegistryInv'
  <2>1. \A o \in Clients : call'[o] = IF o = c THEN x ELSE call[o]
        BY <1>1 DEF Goes, RoutingInv, RoutingTyped, CallsTyped
  <2>2. DefaultIsOne'
        BY <1>1 DEF RoutingInv, RegistryInv, DefaultIsOne, registry, Stored
  <2>3. KeysHaveProvider'
        BY <1>1, <2>1 DEF Calm, RoutingInv, RegistryInv, KeysHaveProvider, registry, Stored, At
  <2>4. SavedInTime'
        BY <1>1, <2>1 DEF Calm, RoutingInv, RegistryInv, SavedInTime, registry, Stored, At
  <2>5. QED BY <2>2, <2>3, <2>4 DEF RegistryInv
<1>6. QED BY <1>3, <1>4, <1>5 DEF RoutingInv

LEMMA NothingGrows ==
    ASSUME RoutingTyped, UNCHANGED profiles
    PROVE  ProfilesGrow
<1>1. \A a \in AllProviders \X Roles : profiles[a].successes \in Nat /\ profiles[a].spent \in Nat
      BY DEF RoutingTyped, RoutesTyped, ProfileRows
<1>2. QED BY <1>1 DEF ProfilesGrow, RoutingTyped, RoutesTyped

\* A thread that goes on calmly.
LEMMA CalmStep ==
    ASSUME RoutingInv, NEW c \in Clients, NEW x, Goes(c, x), x = call[c] \/ (call[c].pc # "drop" /\ x.pc # "set"),
           UNCHANGED <<registry, ledger, routes, profiles, answers, deaths>>
    PROVE  RoutingInv'
<1>1. \A r \in DOMAIN routes' : routes'[r] \in RouteChoices
      BY DEF RoutingInv, RoutingTyped, RoutesTyped
<1>2. Calm(c, x)
      BY <1>1, NothingGrows DEF Calm, RoutingInv
<1>3. QED BY <1>2, CalmKeeps

\* Nothing happens to the requests.
LEMMA NobodyGoes ==
    ASSUME RoutingTyped, RoutedRuns, NEW c \in Clients, UNCHANGED <<call, bound>>, served' \in {served, served + 1}
    PROVE  Goes(c, call[c])
<1>1. call[c] \in Requested /\ call' = [call EXCEPT ![c] = call[c]]
      BY DEF RoutingTyped, CallsTyped
<1>2. bound' \in [Clients -> [routed : BOOLEAN, with : SUBSET AllProviders]]
      BY DEF RoutingTyped, RoutesTyped
<1>3. ByRoute(call[c]) => bound[c].routed
      BY DEF RoutedRuns
<1>4. QED BY <1>1, <1>2, <1>3 DEF Goes

\* A new request of the registry.
LEMMA GoesAnew ==
    ASSUME RoutingTyped, NEW c \in Clients, NEW x \in RegistryCalls \cup Prunes, Begin(c, x), bound' = bound
    PROVE  Goes(c, x) /\ call[c] = Idle
<1>1. x \in Requested /\ ~Live(x) /\ ~ByRoute(x) /\ x.pc # "send"
      BY RegistryTypedCalls
<1>2. served' = served + 1 /\ call' = [call EXCEPT ![c] = x] /\ call[c].pc = "idle"
      BY DEF Begin, Serve, At
<1>3. bound' \in [Clients -> [routed : BOOLEAN, with : SUBSET AllProviders]]
      BY DEF RoutingTyped, RoutesTyped
<1>4. call[c] = Idle
      BY <1>2, InHand DEF RoutingTyped, CallsTyped
<1>5. QED BY <1>1, <1>2, <1>3, <1>4 DEF Goes, Capped, Crediting

\* A new model call.
LEMMA CallsAnew ==
    ASSUME RoutingTyped, NEW c \in Clients, NEW x \in CallRows, Shape(x), Begin(c, x), bound' = bound,
           x.id = served + 1, Asking(x), ByRoute(x) => bound[c].routed,
           \A role \in Roles : ~Capped(x, role) \/ ~bound[c].routed
    PROVE  Goes(c, x) /\ call[c] = Idle
<1>1. x \in Requested
      BY DEF Requested, ModelCalls
<1>2. served' = served + 1 /\ call' = [call EXCEPT ![c] = x] /\ call[c].pc = "idle"
      BY DEF Begin, Serve, At
<1>3. bound' \in [Clients -> [routed : BOOLEAN, with : SUBSET AllProviders]]
      BY DEF RoutingTyped, RoutesTyped
<1>4. call[c] = Idle
      BY <1>2, InHand DEF RoutingTyped, CallsTyped
<1>5. QED BY <1>1, <1>2, <1>3, <1>4 DEF Goes, Crediting

LEMMA PersonKeeps ==
    ASSUME RoutingInv, Person
    PROVE  RoutingInv'
<1>1. PICK c \in Clients : TRUE
      BY ModelRoutingAssumption
<1>2. UNCHANGED <<call, registry, ledger, profiles, bound, answers, deaths>> /\ served' = served + 1
      BY DEF Person, SaveRoute, DeleteRoute, Serve
<1>3. \A r \in DOMAIN routes' : routes'[r] \in RouteChoices
  <2>1. \A r \in DOMAIN routes : routes[r] \in RouteChoices
        BY DEF RoutingInv, RoutingTyped, RoutesTyped
  <2>2. ASSUME NEW role \in Roles, NEW scope \in {"project", "global"}, NEW route \in RouteChoices,
               SaveRoute(scope, role, route)
        PROVE  \A r \in DOMAIN routes' : routes'[r] \in RouteChoices
        BY <2>1, <2>2 DEF SaveRoute, Inserted
  <2>3. ASSUME NEW role \in Roles, NEW scope \in {"project", "global"}, DeleteRoute(scope, role)
        PROVE  \A r \in DOMAIN routes' : routes'[r] \in RouteChoices
        BY <2>1, <2>3 DEF DeleteRoute
  <2>4. QED BY <2>2, <2>3 DEF Person
<1>4. Goes(c, call[c])
      BY <1>2, NobodyGoes DEF RoutingInv, CallsInv
<1>5. Calm(c, call[c])
      BY <1>2, <1>3, <1>4, NothingGrows DEF Calm, RoutingInv
<1>6. QED BY <1>5, CalmKeeps

LEMMA StartRunKeeps ==
    ASSUME RoutingInv, NEW c \in Clients, StartRun(c)
    PROVE  RoutingInv'
<1>1. UNCHANGED <<requests, registry, ledger, routes, profiles, answers, deaths>> /\ call[c].pc = "idle"
      BY DEF StartRun, At
<1>2. PICK b : bound' = [bound EXCEPT ![c] = b] /\ b \in [routed : BOOLEAN, with : SUBSET AllProviders]
  <2>1. Stored \subseteq AllProviders /\ Builtin \subseteq AllProviders
        BY DEF RoutingInv, RoutingTyped, RegistryTyped, AllProviders
  <2>2. {p \in Stored : Configured(p)} \cup Builtin \in SUBSET AllProviders
        /\ {p \in Stored : rows[p].default /\ Configured(p)} \in SUBSET AllProviders
        BY <2>1
  <2> DEFINE b == IF routes # <<>>
                  THEN [routed |-> TRUE, with |-> {p \in Stored : Configured(p)} \cup Builtin]
                  ELSE [routed |-> FALSE, with |-> {p \in Stored : rows[p].default /\ Configured(p)}]
  <2>3. b \in [routed : BOOLEAN, with : SUBSET AllProviders]
        BY <2>2
  <2>4. bound' = [bound EXCEPT ![c] = b]
        BY DEF StartRun
  <2> HIDE DEF b
  <2>5. QED BY <2>3, <2>4
<1>3. bound' \in [Clients -> [routed : BOOLEAN, with : SUBSET AllProviders]] /\ \A o \in Clients \ {c} : bound'[o] = bound[o]
      BY <1>2 DEF RoutingInv, RoutingTyped, RoutesTyped
<1>4. call[c] = Idle /\ call[c] \in Requested
      BY <1>1, InHand DEF RoutingInv, RoutingTyped, CallsTyped
<1>5. ~Live(Idle) /\ ~ByRoute(Idle) /\ \A role \in Roles : ~Capped(Idle, role)
      BY DEF Idle, Live, Asking, Billed, Crediting, ByRoute, Capped
<1>6. call' = [call EXCEPT ![c] = call[c]] /\ served' = served
      BY <1>1 DEF requests, RoutingInv, RoutingTyped, CallsTyped
<1>7. Goes(c, call[c])
      BY <1>3, <1>4, <1>5, <1>6 DEF Goes
<1>8. QED BY <1>1, <1>7, CalmStep

LEMMA ResolvedTyped ==
    ASSUME RoutingTyped, NEW role, NEW project
    PROVE  Resolved(role, project) \subseteq RouteChoices
BY DEF Resolved, RoutingTyped, RoutesTyped

LEMMA CallTyped ==
    ASSUME NEW id \in Nat, NEW kind \in Kinds, NEW role \in Roles \cup {None}, NEW p \in AllProviders \cup {None}
    PROVE  /\ Call(id, kind, role, p, None, FALSE) \in CallRows
           /\ [Call(id, kind, role, p, None, FALSE) EXCEPT !.pc = "resolve"] \in CallRows
<1>1. Call(id, kind, role, p, None, FALSE) \in CallRows
      BY DEF Call, CallRows
<1>2. QED BY <1>1, CallMoves DEF Places

LEMMA GenerateKeeps ==
    ASSUME RoutingInv, NEW c \in Clients, NEW role \in Roles, Generate(c, role)
    PROVE  RoutingInv'
<1>1. UNCHANGED <<registry, ledger, routes, profiles, bound, answers, deaths>>
      BY DEF Generate, routing
<1>2. served + 1 \in Nat
      BY DEF RoutingInv, RoutingTyped, CallsTyped
<1>3. ASSUME bound[c].routed, Begin(c, [Call(served + 1, "model", role, None, None, FALSE) EXCEPT !.pc = "resolve"])
      PROVE  RoutingInv'
  <2> DEFINE x == [Call(served + 1, "model", role, None, None, FALSE) EXCEPT !.pc = "resolve"]
  <2>1. x \in CallRows
        BY <1>2, CallTyped DEF Kinds
  <2>2. x.pc = "resolve" /\ x.id = served + 1 /\ x.kind = "model" /\ x.role = role
        BY DEF Call
  <2>3. Begin(c, x)
        BY <1>3
  <2> HIDE DEF x
  <2>4. Shape(x) /\ Asking(x) /\ \A r \in Roles : ~Capped(x, r)
        BY <2>2 DEF Shape, Asking, Capped
  <2>5. Goes(c, x) /\ call[c] = Idle
        BY <1>1, <1>3, <2>1, <2>2, <2>3, <2>4, CallsAnew DEF RoutingInv
  <2>6. QED BY <1>1, <2>2, <2>5, CalmStep DEF Idle
<1>4. ASSUME NEW p \in bound[c].with, ~bound[c].routed, Begin(c, Call(served + 1, "model", role, p, None, FALSE))
      PROVE  RoutingInv'
  <2> DEFINE x == Call(served + 1, "model", role, p, None, FALSE)
  <2>1. p \in AllProviders
        BY DEF RoutingInv, RoutingTyped, RoutesTyped
  <2>2. x \in CallRows
        BY <1>2, <2>1, CallTyped DEF Kinds
  <2>3. x.pc = "send" /\ x.id = served + 1 /\ x.kind = "model" /\ x.role = role /\ x.p = p
        BY DEF Call
  <2>4. Begin(c, x)
        BY <1>4
  <2> HIDE DEF x
  <2>5. Shape(x) /\ Asking(x) /\ ~ByRoute(x)
        BY <2>1, <2>3 DEF Shape, Asking, ByRoute, Crediting
  <2>6. Goes(c, x) /\ call[c] = Idle
        BY <1>1, <1>4, <2>2, <2>3, <2>4, <2>5, CallsAnew DEF RoutingInv
  <2>7. QED BY <1>1, <2>3, <2>6, CalmStep DEF Idle
<1>5. QED BY <1>3, <1>4 DEF Generate

\* A test calls a stored provider.
LEMMA TestKeeps ==
    ASSUME RoutingInv, NEW c \in Clients, NEW kind \in {"probe", "team"}, NEW role \in Roles \cup {None},
           kind = "team" => role \in Roles, NEW p \in Stored,
           Begin(c, Call(served + 1, kind, role, p, None, FALSE)),
           UNCHANGED <<registry, ledger, routing, answers, deaths>>
    PROVE  RoutingInv'
<1> DEFINE x == Call(served + 1, kind, role, p, None, FALSE)
<1>1. p \in Providers /\ p \in AllProviders /\ served + 1 \in Nat
      BY DEF RoutingInv, RoutingTyped, RegistryTyped, CallsTyped, AllProviders
<1>2. x \in CallRows
      BY <1>1, CallTyped DEF Kinds
<1>3. x.pc = "send" /\ x.id = served + 1 /\ x.kind = kind /\ x.role = role /\ x.p = p
      BY DEF Call
<1>4. Begin(c, x)
      OBVIOUS
<1> HIDE DEF x
<1>5. Shape(x) /\ Asking(x) /\ ~ByRoute(x) /\ \A r \in Roles : ~Capped(x, r)
      BY <1>1, <1>3 DEF Shape, Asking, ByRoute, Crediting, Capped
<1>6. UNCHANGED <<registry, ledger, routes, profiles, bound, answers, deaths>>
      BY DEF routing
<1>7. Goes(c, x) /\ call[c] = Idle
      BY <1>2, <1>3, <1>4, <1>5, <1>6, CallsAnew DEF RoutingInv
<1>8. QED BY <1>3, <1>6, <1>7, CalmStep DEF Idle

LEMMA TestModelKeeps ==
    ASSUME RoutingInv, NEW c \in Clients, NEW p \in Providers, TestModel(c, p)
    PROVE  RoutingInv'
BY TestKeeps DEF TestModel

LEMMA TestTeamKeeps ==
    ASSUME RoutingInv, NEW c \in Clients, NEW role \in Roles, TestTeam(c, role)
    PROVE  RoutingInv'
BY TestKeeps DEF TestTeam

\* The result of a test is written after its call.
LEMMA ResultWritten ==
    ASSUME NEW r \in CallRows, Shape(r), r.kind \in {"probe", "team"}
    PROVE  /\ r.p \in Providers /\ Update(r.p, "status", Idle) \in RegistryCalls
           /\ r.kind = "team" => Update(r.p, "status", [r EXCEPT !.pc = "fault"]) \in RegistryCalls
           /\ r.kind = "team" /\ r.pc = "observe" =>
                 Update(r.p, "status", [r EXCEPT !.pc = "credit"]) \in RegistryCalls
<1>1. r.p \in Providers
      BY DEF Shape
<1>2. \A a \in Afterwards : Update(r.p, "status", a) \in RegistryCalls
      BY <1>1 DEF Update, RegistryCalls, Updates, Settings
<1>3. Idle \in Afterwards
      BY DEF Afterwards
<1>4. ASSUME r.kind = "team" PROVE [r EXCEPT !.pc = "fault"] \in Afterwards
  <2> DEFINE x == [r EXCEPT !.pc = "fault"]
  <2>1. x \in CallRows
        BY CallMoves DEF Places
  <2>2. x.pc = "fault" /\ x.kind = r.kind /\ x.p = r.p /\ x.role = r.role
        BY DEF CallRows
  <2> HIDE DEF x
  <2>3. Shape(x)
        BY <1>4, <2>2 DEF Shape, AllProviders
  <2>4. x \in Afterwards
        BY <1>4, <2>1, <2>2, <2>3 DEF Afterwards, TeamResults, ModelCalls
  <2>5. QED BY <2>4 DEF x
<1>5. ASSUME r.kind = "team", r.pc = "observe" PROVE [r EXCEPT !.pc = "credit"] \in Afterwards
  <2> DEFINE x == [r EXCEPT !.pc = "credit"]
  <2>1. x \in CallRows
        BY CallMoves DEF Places
  <2>2. x.pc = "credit" /\ x.kind = r.kind /\ x.p = r.p /\ x.role = r.role /\ x.response = r.response
        BY DEF CallRows
  <2> HIDE DEF x
  <2>3. Shape(x)
        BY <1>5, <2>2 DEF Shape, AllProviders
  <2>4. x \in Afterwards
        BY <1>5, <2>1, <2>2, <2>3 DEF Afterwards, TeamResults, ModelCalls
  <2>5. QED BY <2>4 DEF x
<1>6. QED BY <1>1, <1>2, <1>3, <1>4, <1>5

\* An error that leaves the routed provider.
LEMMA Leaves ==
    ASSUME RoutingInv, NEW c \in Clients, call[c].pc \in {"admit", "send", "fault", "settle"},
           NEW retryable \in BOOLEAN, call[c].pc = "settle" => ~retryable, Leave(c, retryable), bound' = bound
    PROVE  \E x : Goes(c, x) /\ x.pc # "set"
<1> DEFINE r == call[c]
<1>1. r \in CallRows /\ Shape(r) /\ RoutingTyped
      BY InCall DEF RoutingInv, Places
<1>2. ~Crediting(r)
      BY DEF Crediting
<1>3. ASSUME NEW x \in RegistryCalls \cup {Idle}, x.pc \in {"idle", "get"}, Become(c, x)
      PROVE  Goes(c, x) /\ x.pc # "set"
      BY <1>1, <1>2, <1>3, GoesAway
<1>4. CASE r.kind = "probe"
  <2>1. Become(c, Update(r.p, "status", Idle))
        BY <1>4 DEF Leave
  <2>2. QED BY <1>1, <1>3, <1>4, <2>1, ResultWritten DEF Update
<1>5. CASE r.kind = "team"
  <2>1. Become(c, Update(r.p, "status", [r EXCEPT !.pc = "fault"]))
        BY <1>5 DEF Leave
  <2>2. QED BY <1>1, <1>3, <1>5, <2>1, ResultWritten DEF Update
<1>6. CASE r.kind = "model" /\ retryable /\ r.attempt < MaxRetries
  <2> DEFINE pc == IF Routed(c) THEN "resolve" ELSE "send"
             x == [r EXCEPT !.pc = pc, !.attempt = @ + 1]
  <2>1. Become(c, x)
        BY <1>6 DEF Leave
  <2>2. x \in CallRows
        BY <1>1, CallMoves DEF Places
  <2>3. x.pc = pc /\ x.kind = r.kind /\ x.p = r.p /\ x.role = r.role /\ x.id = r.id
        BY <1>1 DEF CallRows
  <2> HIDE DEF x
  <2>4. Asking(r)
        BY <1>6 DEF Asking
  <2>5. Shape(x) /\ Asking(x)
        BY <1>1, <1>6, <2>3 DEF Shape, Asking
  <2>6. ByRoute(x) => bound[c].routed
        BY <2>3 DEF ByRoute, Crediting, Routed
  <2>7. \A role \in Roles : ~Capped(x, role) \/ ~bound[c].routed
        BY <1>6, <2>3 DEF Capped, Routed
  <2>8. Goes(c, x)
        BY <1>1, <2>1, <2>2, <2>3, <2>4, <2>5, <2>6, <2>7, GoesOn
  <2>9. QED BY <2>3, <2>8
<1>7. CASE r.kind \notin {"probe", "team"} /\ ~(r.kind = "model" /\ retryable /\ r.attempt < MaxRetries)
  <2>1. Become(c, Idle)
        BY <1>7 DEF Leave, Finish
  <2>2. QED BY <1>3, <2>1 DEF Idle
<1>8. QED BY <1>4, <1>5, <1>6, <1>7

LEMMA Raises ==
    ASSUME RoutingInv, NEW c \in Clients, call[c].pc \in {"admit", "send"}, NEW retryable \in BOOLEAN,
           Raise(c, retryable), bound' = bound
    PROVE  \E x : Goes(c, x) /\ x.pc # "set"
<1> DEFINE r == call[c]
<1>1. r \in CallRows /\ Shape(r) /\ RoutingTyped
      BY InCall DEF RoutingInv, Places
<1>2. CASE Routed(c) /\ ~r.second
  <2> DEFINE x == [r EXCEPT !.pc = "fault", !.retry = retryable]
  <2>1. Become(c, x)
        BY <1>2 DEF Raise
  <2>2. x \in CallRows
        BY <1>1, CallMoves DEF Places
  <2>3. x.pc = "fault" /\ x.kind = r.kind /\ x.p = r.p /\ x.role = r.role /\ x.id = r.id
        BY <1>1 DEF CallRows
  <2> HIDE DEF x
  <2>4. Asking(r) /\ Asking(x)
        BY <1>2, <2>3 DEF Asking, Routed
  <2>5. Shape(x)
        BY <1>1, <1>2, <2>3 DEF Shape, Routed
  <2>6. Goes(c, x)
        BY <1>1, <1>2, <2>1, <2>2, <2>3, <2>4, <2>5, GoesOn DEF Routed, Capped
  <2>7. QED BY <2>3, <2>6
<1>3. CASE ~(Routed(c) /\ ~r.second)
  <2>1. Leave(c, retryable)
        BY <1>3 DEF Raise
  <2>2. QED BY <2>1, Leaves
<1>4. QED BY <1>2, <1>3

LEMMA ResolveKeeps ==
    ASSUME RoutingInv, NEW c \in Clients, Resolve(c)
    PROVE  RoutingInv'
<1> DEFINE r == call[c]
<1>1. /\ UNCHANGED <<registry, ledger, routes, profiles, bound, answers, deaths>>
      /\ r.pc = "resolve"
      BY DEF Resolve, routing, At
<1>2. r \in CallRows /\ Shape(r) /\ RoutingTyped
      BY <1>1, InCall DEF RoutingInv, Places
<1>3. CASE Finish(c)
  <2>1. Goes(c, Idle)
        BY <1>1, <1>2, <1>3, GoesAway DEF Finish, Crediting
  <2>2. QED BY <1>1, <2>1, CalmStep DEF Idle
<1>4. ASSUME NEW route \in Resolved(r.role, c \in InProject),
             Become(c, [call[c] EXCEPT !.pc = "admit", !.p = route.provider, !.second = FALSE,
                                       !.fallback = route.fallback, !.capped = route.capped])
      PROVE  RoutingInv'
  <2> DEFINE x == [r EXCEPT !.pc = "admit", !.p = route.provider, !.second = FALSE,
                            !.fallback = route.fallback, !.capped = route.capped]
  <2>1. route \in RouteChoices
        BY <1>2, ResolvedTyped
  <2>2. route.provider \in AllProviders
        BY <2>1, ModelRoutingAssumption
  <2>3. x \in CallRows
        BY <1>2, <2>1, CallMoves DEF Places
  <2>4. x.pc = "admit" /\ x.kind = r.kind /\ x.p = route.provider /\ x.role = r.role /\ x.id = r.id
        BY <1>2 DEF CallRows
  <2>5. Become(c, x)
        BY <1>4
  <2> HIDE DEF x
  <2>6. Asking(r) /\ Asking(x)
        BY <1>1, <2>4 DEF Asking
  <2>7. Shape(x)
        BY <1>1, <1>2, <2>2, <2>4 DEF Shape
  <2>8. bound[c].routed
        BY <1>1 DEF RoutingInv, CallsInv, RoutedRuns, ByRoute
  <2>9. Goes(c, x)
        BY <1>1, <1>2, <2>3, <2>4, <2>5, <2>6, <2>7, <2>8, GoesOn DEF Capped
  <2>10. QED BY <1>1, <2>4, <2>9, CalmStep
<1>5. QED BY <1>3, <1>4 DEF Resolve

LEMMA AdmitKeeps ==
    ASSUME RoutingInv, NEW c \in Clients, Admit(c)
    PROVE  RoutingInv'
<1> DEFINE r == call[c]
<1>1. /\ UNCHANGED <<registry, ledger, routes, profiles, bound, answers, deaths>>
      /\ r.pc = "admit"
      BY DEF Admit, routing, At
<1>2. r \in CallRows /\ Shape(r) /\ RoutingTyped
      BY <1>1, InCall DEF RoutingInv, Places
<1>3. CASE r.capped => WithinBudget(r.p, r.role)
  <2>1. CASE Goto(c, "send")
    <3> DEFINE x == [r EXCEPT !.pc = "send"]
    <3>1. Become(c, x)
          BY <2>1 DEF Goto
    <3>2. x \in CallRows
          BY <1>2, CallMoves DEF Places
    <3>3. /\ x.pc = "send" /\ x.kind = r.kind /\ x.p = r.p /\ x.role = r.role /\ x.id = r.id
          /\ x.capped = r.capped
          BY <1>2 DEF CallRows
    <3> HIDE DEF x
    <3>4. Asking(r) /\ Asking(x) /\ ~ByRoute(x)
          BY <1>1, <3>3 DEF Asking, ByRoute, Crediting
    <3>5. Shape(x)
          BY <1>1, <1>2, <3>3 DEF Shape
    <3>6. \A role \in Roles : Capped(x, role) => WithinBudget(x.p, role)
          BY <1>3, <3>3 DEF Capped
    <3>7. Goes(c, x)
          BY <1>1, <1>2, <3>1, <3>2, <3>3, <3>4, <3>5, <3>6, GoesOn
    <3>8. QED BY <1>1, <3>3, <3>7, CalmStep
  <2>2. CASE Raise(c, FALSE)
    <3>1. PICK x : Goes(c, x) /\ x.pc # "set"
          BY <1>1, <2>2, Raises
    <3>2. QED BY <1>1, <3>1, CalmStep
  <2>3. QED BY <2>1, <2>2 DEF Admit
<1>4. CASE ~(r.capped => WithinBudget(r.p, r.role))
  <2>1. Raise(c, FALSE)
        BY <1>4 DEF Admit
  <2>2. PICK x : Goes(c, x) /\ x.pc # "set"
        BY <1>1, <2>1, Raises
  <2>3. QED BY <1>1, <2>2, CalmStep
<1>5. QED BY <1>3, <1>4

LEMMA ProviderFailsKeeps ==
    ASSUME RoutingInv, NEW c \in Clients, ProviderFails(c)
    PROVE  RoutingInv'
<1>1. /\ UNCHANGED <<registry, ledger, routes, profiles, bound, answers, deaths>>
      /\ call[c].pc = "send"
      BY DEF ProviderFails, routing, At
<1>2. PICK retryable \in BOOLEAN : Raise(c, retryable)
      BY DEF ProviderFails
<1>3. PICK x : Goes(c, x) /\ x.pc # "set"
      BY <1>1, <1>2, Raises
<1>4. QED BY <1>1, <1>3, CalmStep

\* An entry in the performance table.
LEMMA CreditGrows ==
    ASSUME RoutingTyped, NEW p \in AllProviders, NEW role \in Roles, NEW success \in BOOLEAN,
           NEW cost \in Tokens, profiles' = Credited(p, role, success, cost)
    PROVE  /\ ProfilesGrow
           /\ \A a \in AllProviders \X Roles : a # <<p, role>> => profiles'[a] = profiles[a]
           /\ success => profiles'[<<p, role>>].successes = profiles[<<p, role>>].successes + 1
           /\ profiles'[<<p, role>>].known <=> profiles[<<p, role>>].known /\ Known(cost)
           /\ profiles'[<<p, role>>].known =>
                 cost \in Nat /\ profiles'[<<p, role>>].spent = profiles[<<p, role>>].spent + cost
<1> DEFINE a == <<p, role>>
           was == profiles[a]
           row == [calls |-> was.calls + 1,
                   successes |-> was.successes + (IF success THEN 1 ELSE 0),
                   spent |-> IF was.known /\ Known(cost) THEN was.spent + cost ELSE 0,
                   known |-> was.known /\ Known(cost)]
<1>1. /\ profiles \in [AllProviders \X Roles -> ProfileRows] /\ a \in AllProviders \X Roles
      /\ \A b \in AllProviders \X Roles : profiles[b].successes \in Nat /\ profiles[b].spent \in Nat
      BY DEF RoutingTyped, RoutesTyped, ProfileRows
<1>2. profiles' = [profiles EXCEPT ![a] = row]
      BY DEF Credited
<1>3. Known(cost) => cost \in Nat
      BY DEF Known, Tokens
<1>4. was.calls \in Nat /\ was.successes \in Nat /\ was.spent \in Nat /\ was.known \in BOOLEAN
      BY <1>1 DEF ProfileRows
<1>5. /\ row.calls \in Nat /\ row.successes \in Nat /\ row.spent \in Nat /\ row.known \in BOOLEAN
      /\ was.successes <= row.successes
      /\ success => row.successes = was.successes + 1
      BY <1>3, <1>4 DEF Known
<1>6. row.known <=> was.known /\ Known(cost)
      BY <1>4 DEF Known
<1>7. row.known => cost \in Nat /\ row.spent = was.spent + cost
      BY <1>3, <1>6
<1>8. row \in ProfileRows
  <2>1. row = [calls |-> row.calls, successes |-> row.successes, spent |-> row.spent, known |-> row.known]
        OBVIOUS
  <2> HIDE DEF row
  <2>2. QED BY <1>5, <2>1 DEF ProfileRows
<1> HIDE DEF row
<1>9. profiles'[a] = row /\ \A b \in AllProviders \X Roles : b # a => profiles'[b] = profiles[b]
      BY <1>1, <1>2
<1>10. profiles' \in [AllProviders \X Roles -> ProfileRows]
       BY <1>1, <1>2, <1>8
<1> HIDE DEF a
<1>11. ASSUME NEW b \in AllProviders \X Roles
       PROVE  /\ profiles[b].successes <= profiles'[b].successes
              /\ profiles'[b].known => profiles[b].known /\ profiles[b].spent <= profiles'[b].spent
  <2>1. CASE b = a
    <3>1. was.successes <= row.successes /\ (row.known => was.known /\ was.spent <= row.spent)
          BY <1>4, <1>5, <1>6, <1>7
    <3>2. profiles'[b] = row /\ profiles[b] = was
          BY <1>9, <2>1
    <3> HIDE DEF was
    <3>3. QED BY <3>1, <3>2
  <2>2. CASE b # a
    <3>1. profiles'[b] = profiles[b] /\ profiles[b].successes \in Nat /\ profiles[b].spent \in Nat
          BY <1>1, <1>9, <2>2
    <3>2. QED BY <3>1
  <2>3. QED BY <2>1, <2>2
<1>12. ProfilesGrow
       BY <1>10, <1>11 DEF ProfilesGrow
<1>13. /\ \A b \in AllProviders \X Roles : b # a => profiles'[b] = profiles[b]
       /\ success => profiles'[a].successes = profiles[a].successes + 1
       /\ profiles'[a].known <=> (profiles[a].known /\ Known(cost))
       /\ profiles'[a].known => cost \in Nat /\ profiles'[a].spent = profiles[a].spent + cost
  <2>1. profiles'[a] = row /\ profiles[a] = was
        BY <1>9
  <2> HIDE DEF was
  <2>2. success => profiles'[a].successes = profiles[a].successes + 1
        BY <1>5, <2>1
  <2>3. profiles'[a].known <=> (profiles[a].known /\ Known(cost))
        BY <1>6, <2>1
  <2>4. profiles'[a].known => cost \in Nat /\ profiles'[a].spent = profiles[a].spent + cost
        BY <1>7, <2>1
  <2>5. QED BY <1>9, <2>2, <2>3, <2>4
<1>14. QED BY <1>12, <1>13 DEF a

LEMMA FaultKeeps ==
    ASSUME RoutingInv, NEW c \in Clients, Fault(c)
    PROVE  RoutingInv'
<1> DEFINE r == call[c]
<1>1. /\ UNCHANGED <<registry, ledger, routes, bound, answers, deaths>>
      /\ r.pc = "fault" /\ profiles' = Credited(r.p, r.role, FALSE, Unknown)
      BY DEF Fault, At
<1>2. r \in CallRows /\ Shape(r) /\ RoutingTyped
      BY <1>1, InCall DEF RoutingInv, Places
<1>3. r.p \in AllProviders /\ r.role \in Roles
      BY <1>1, <1>2 DEF Shape
<1>4. ProfilesGrow
      BY <1>1, <1>2, <1>3, CreditGrows DEF Tokens
<1>5. \A t \in DOMAIN routes' : routes'[t] \in RouteChoices
      BY <1>1, <1>2 DEF RoutingTyped, RoutesTyped
<1>6. ASSUME NEW x, Goes(c, x), x.pc # "set" PROVE RoutingInv'
  <2>1. Calm(c, x)
        BY <1>1, <1>4, <1>5, <1>6 DEF Calm
  <2>2. QED BY <2>1, CalmKeeps
<1>7. CASE Finish(c)
  <2>1. Goes(c, Idle)
        BY <1>1, <1>2, <1>7, GoesAway DEF Finish, Crediting
  <2>2. QED BY <1>6, <2>1 DEF Idle
<1>8. CASE r.kind = "model" /\ r.fallback # None
           /\ Become(c, [call[c] EXCEPT !.pc = "admit", !.p = call[c].fallback, !.second = TRUE])
  <2> DEFINE x == [r EXCEPT !.pc = "admit", !.p = r.fallback, !.second = TRUE]
  <2>1. r.fallback \in AllProviders
        BY <1>2, <1>8 DEF CallRows
  <2>2. x \in CallRows
        BY <1>2, <2>1, CallMoves DEF Places
  <2>3. x.pc = "admit" /\ x.kind = r.kind /\ x.p = r.fallback /\ x.role = r.role /\ x.id = r.id
        BY <1>2 DEF CallRows
  <2>4. Become(c, x)
        BY <1>8
  <2> HIDE DEF x
  <2>5. Asking(r) /\ Asking(x)
        BY <1>1, <1>8, <2>3 DEF Asking
  <2>6. Shape(x)
        BY <1>2, <1>8, <2>1, <2>3 DEF Shape
  <2>7. bound[c].routed
        BY <1>1, <1>8 DEF RoutingInv, CallsInv, RoutedRuns, ByRoute
  <2>8. Goes(c, x)
        BY <1>1, <1>2, <2>2, <2>3, <2>4, <2>5, <2>6, <2>7, GoesOn DEF Capped
  <2>9. QED BY <1>6, <2>3, <2>8
<1>9. CASE Leave(c, r.retry)
  <2>1. r.retry \in BOOLEAN
        BY <1>2 DEF CallRows
  <2>2. PICK x : Goes(c, x) /\ x.pc # "set"
        BY <1>1, <1>9, <2>1, Leaves
  <2>3. QED BY <1>6, <2>2
<1>10. QED BY <1>7, <1>8, <1>9 DEF Fault

\* The result of the team test is entered.
LEMMA TeamCreditKeeps ==
    ASSUME RoutingInv, NEW c \in Clients, Credit(c), call[c].kind = "team"
    PROVE  RoutingInv'
<1> DEFINE r == call[c]
<1>1. /\ UNCHANGED <<registry, ledger, routes, bound, answers, deaths>> /\ r.pc = "credit" /\ Finish(c)
      /\ profiles' = Credited(r.p, r.role, TRUE, r.response.cost)
      BY DEF Credit, At
<1>2. r \in CallRows /\ Shape(r) /\ RoutingTyped
      BY <1>1, InCall DEF RoutingInv, Places
<1>3. r.p \in AllProviders /\ r.role \in Roles /\ r.response.cost \in Tokens
      BY <1>1, <1>2 DEF Shape, Replies
<1>4. ProfilesGrow
      BY <1>1, <1>2, <1>3, CreditGrows
<1>5. \A t \in DOMAIN routes' : routes'[t] \in RouteChoices
      BY <1>1, <1>2 DEF RoutingTyped, RoutesTyped
<1>6. Goes(c, Idle)
      BY <1>1, <1>2, GoesAway DEF Finish, Crediting
<1>7. Calm(c, Idle)
      BY <1>1, <1>4, <1>5, <1>6 DEF Calm, Idle
<1>8. QED BY <1>7, CalmKeeps

\* The budget of the task is exceeded.
LEMMA QuitKeeps ==
    ASSUME RoutingInv, NEW c \in Clients, At(c, "settle"), Leave(c, FALSE),
           UNCHANGED <<registry, ledger, routing, answers, deaths>>
    PROVE  RoutingInv'
<1>1. UNCHANGED <<registry, ledger, routes, profiles, bound, answers, deaths>> /\ call[c].pc = "settle"
      BY DEF At, routing
<1>2. PICK x : Goes(c, x) /\ x.pc # "set"
      BY <1>1, Leaves
<1>3. QED BY <1>1, <1>2, CalmStep

\* After its second transaction a call is over.
LEMMA AfterCallGoes ==
    ASSUME RoutingInv, NEW c \in Clients, At(c, "observe"), AfterCall(c), bound' = bound
    PROVE  \E x : Goes(c, x) /\ x.pc \in {"idle", "get"}
<1> DEFINE r == call[c]
<1>1. r \in CallRows /\ Shape(r) /\ RoutingTyped /\ r.pc = "observe" /\ ~Crediting(r)
      BY InCall DEF RoutingInv, Places, At, Crediting
<1>2. CASE r.kind = "model"
  <2>1. Become(c, Idle)
        BY <1>2 DEF AfterCall, Finish
  <2>2. QED BY <1>1, <2>1, GoesAway DEF Idle
<1>3. CASE r.kind = "probe"
  <2>1. Become(c, Update(r.p, "status", Idle))
        BY <1>3 DEF AfterCall
  <2>2. Goes(c, Update(r.p, "status", Idle))
        BY <1>1, <1>3, <2>1, ResultWritten, GoesAway
  <2>3. QED BY <2>2 DEF Update
<1>4. CASE r.kind = "team"
  <2>1. PICK verdict \in {"credit", "fault"} :
            Become(c, Update(r.p, "status", [r EXCEPT !.pc = verdict]))
        BY <1>4 DEF AfterCall
  <2>2. Update(r.p, "status", [r EXCEPT !.pc = verdict]) \in RegistryCalls
        BY <1>1, <1>4, ResultWritten
  <2>3. Goes(c, Update(r.p, "status", [r EXCEPT !.pc = verdict]))
        BY <1>1, <2>1, <2>2, GoesAway
  <2>4. QED BY <2>3 DEF Update
<1>5. QED BY <1>1, <1>2, <1>3, <1>4 DEF CallRows, Kinds

LEMMA ObserveNothingKeeps ==
    ASSUME RoutingInv, NEW c \in Clients, Observe(c), UNCHANGED ledger
    PROVE  RoutingInv'
<1>1. UNCHANGED <<registry, ledger, routes, profiles, bound, answers, deaths>> /\ call[c].pc = "observe"
      BY DEF Observe, At, routing
<1>2. PICK x : Goes(c, x) /\ x.pc \in {"idle", "get"}
      BY <1>1, AfterCallGoes DEF Observe
<1>3. QED BY <1>1, <1>2, CalmStep

(***************************************************************************)
(* The answer to a call, and its entries                                   *)
(***************************************************************************)
\* A step of one call, which touches no entry of another.
Own(c, x) ==
    /\ call' = [call EXCEPT ![c] = x] /\ x \in Requested
    /\ Live(call[c]) /\ (Live(x) => x.id = call[c].id)
    /\ x.pc # "set"
    /\ ByRoute(x) => bound[c].routed
    /\ UNCHANGED <<served, registry, routes, bound, split, deaths>>
    /\ \A id : id # call[c].id =>
          /\ id \in DOMAIN answers' <=> id \in DOMAIN answers
          /\ id \in DOMAIN answers => answers'[id] = answers[id]
          /\ id \in DOMAIN usage' <=> id \in DOMAIN usage
          /\ id \in DOMAIN usage => usage'[id] = usage[id]
          /\ id \in DOMAIN observations' <=> id \in DOMAIN observations
          /\ id \in DOMAIN observations => observations'[id] = observations[id]
    /\ DOMAIN usage' \cup DOMAIN observations' \subseteq DOMAIN answers'

LEMMA OwnCalls ==
    ASSUME RoutingTyped, CallsInv, NEW c \in Clients, NEW x, Own(c, x), EnteredFor(c)',
           call[c].id \in DOMAIN usage' => usage'[call[c].id].provider = answers'[call[c].id].provider,
           call[c].id \in (DOMAIN usage' \cap DOMAIN observations') \ split =>
              /\ observations'[call[c].id].scope = usage'[call[c].id].scope
              /\ observations'[call[c].id].task = usage'[call[c].id].task
    PROVE  CallsInv'
<1>1. \A o \in Clients : call'[o] = IF o = c THEN x ELSE call[o]
      BY DEF Own, RoutingTyped, CallsTyped
<1>2. \A o \in Clients : Live(call'[o]) => Live(call[o]) /\ call'[o].id = call[o].id
      BY <1>1 DEF Own
<1>3. DOMAIN answers' \subseteq 1 .. served
  <2>1. call[c].id \in 1 .. served /\ DOMAIN answers \subseteq 1 .. served
        BY DEF CallsInv, IdsDistinct, Own
  <2>2. QED BY <2>1 DEF Own
<1>4. IdsDistinct'
  <2>1. served' = served
        BY DEF Own
  <2>2. ASSUME NEW o \in Clients, Live(call'[o])
        PROVE  /\ call'[o].id \in 1 .. served'
               /\ \A d \in Clients : Live(call'[d]) /\ call'[d].id = call'[o].id => d = o
        BY <1>2, <2>1, <2>2 DEF CallsInv, IdsDistinct
  <2>3. DOMAIN usage' \cup DOMAIN observations' \subseteq DOMAIN answers'
        BY DEF Own
  <2>4. QED BY <1>3, <2>1, <2>2, <2>3 DEF IdsDistinct, Live, Asking, Billed, Crediting
<1>5. RoutedRuns'
      BY <1>1 DEF CallsInv, RoutedRuns, Own, ByRoute, Crediting
<1>6. ASSUME NEW o \in Clients, o # c PROVE EnteredFor(o)'
  <2>1. EnteredFor(o) /\ call'[o] = call[o]
        BY <1>1, <1>6 DEF CallsInv, Entered
  <2>2. Live(call[o]) => call[o].id # call[c].id
        BY <1>6 DEF CallsInv, IdsDistinct, Own
  <2>3. bound' = bound /\ split' = split
        BY DEF Own
  <2>4. CASE Live(call[o])
    <3> DEFINE i == call[o].id
    <3>1. /\ i \in DOMAIN answers' <=> i \in DOMAIN answers
          /\ i \in DOMAIN answers => answers'[i] = answers[i]
          /\ i \in DOMAIN usage' <=> i \in DOMAIN usage
          /\ i \in DOMAIN usage => usage'[i] = usage[i]
          /\ i \in DOMAIN observations' <=> i \in DOMAIN observations
          BY <2>2, <2>4 DEF Own
    <3>2. QED BY <2>1, <2>3, <3>1 DEF EnteredFor, Asking, Billed, Crediting, Routed
  <2>5. CASE ~Live(call[o])
        BY <2>1, <2>5 DEF EnteredFor, Live, Asking, Billed, Crediting
  <2>6. QED BY <2>4, <2>5
<1>7. Entered'
      BY <1>6 DEF Entered
<1>8. Attributed'
  <2>1. ASSUME NEW id \in DOMAIN usage', id # call[c].id
        PROVE  usage'[id].provider = answers'[id].provider
    <3>1. id \in DOMAIN usage /\ usage'[id] = usage[id]
          BY <2>1 DEF Own
    <3>2. id \in DOMAIN answers /\ usage[id].provider = answers[id].provider
          BY <3>1 DEF CallsInv, Attributed
    <3>3. answers'[id] = answers[id]
          BY <2>1, <3>2 DEF Own
    <3>4. QED BY <3>1, <3>2, <3>3
  <2>2. \A id \in DOMAIN usage' : id \in DOMAIN answers'
        BY DEF Own
  <2>3. QED BY <2>1, <2>2 DEF Attributed
<1>9. Paired'
      BY DEF CallsInv, Paired, Own
<1>10. QED BY <1>4, <1>5, <1>7, <1>8, <1>9 DEF CallsInv

LEMMA OwnRegistry ==
    ASSUME RoutingTyped, RegistryInv, NEW c \in Clients, NEW x, Own(c, x)
    PROVE  RegistryInv'
<1>1. \A o \in Clients : call'[o] = IF o = c THEN x ELSE call[o]
      BY DEF Own, RoutingTyped, CallsTyped
<1>2. call[c].pc # "drop" /\ x.pc # "set" /\ UNCHANGED registry
      BY DEF Own, Live, Asking, Billed, Crediting
<1>3. DefaultIsOne'
      BY <1>2 DEF RegistryInv, DefaultIsOne, registry, Stored
<1>4. KeysHaveProvider'
      BY <1>1, <1>2 DEF RegistryInv, KeysHaveProvider, registry, Stored, At
<1>5. SavedInTime'
      BY <1>1, <1>2 DEF RegistryInv, SavedInTime, registry, Stored, At
<1>6. QED BY <1>3, <1>4, <1>5 DEF RegistryInv

LEMMA OwnTyped ==
    ASSUME RoutingTyped, NEW c \in Clients, NEW x, Own(c, x), LedgerTyped',
           profiles' \in [AllProviders \X Roles -> ProfileRows],
           call[c].id \in DOMAIN answers' => answers'[call[c].id] \in AnswerRows
    PROVE  RoutingTyped'
<1>1. CallsTyped'
      BY DEF Own, RoutingTyped, CallsTyped
<1>2. RegistryTyped'
      BY DEF Own, RoutingTyped, RegistryTyped, registry, Stored
<1>3. \A id \in DOMAIN answers' : answers'[id] \in AnswerRows
      BY DEF Own, RoutingTyped, RoutesTyped
<1>4. RoutesTyped'
      BY <1>3 DEF Own, RoutingTyped, RoutesTyped
<1>5. QED BY <1>1, <1>2, <1>4 DEF RoutingTyped

\* The accounts of a call that is not, or no longer, to be credited.
LEMMA CountKept ==
    ASSUME AnswersEntered, RoutingTyped, IdsDistinct, ProfilesGrow, UNCHANGED deaths,
           \A p \in AllProviders, role \in Roles :
              (AnswersOf(p, role) \ ToCredit)' = AnswersOf(p, role) \ ToCredit
    PROVE  AnswersEntered'
<1> SUFFICES ASSUME deaths' = 0, NEW p \in AllProviders, NEW role \in Roles
             PROVE  Cardinality((AnswersOf(p, role) \ ToCredit)') <= profiles'[<<p, role>>].successes
    BY DEF AnswersEntered
<1>1. Cardinality(AnswersOf(p, role) \ ToCredit) <= profiles[<<p, role>>].successes
      BY DEF AnswersEntered
<1>2. Cardinality(AnswersOf(p, role) \ ToCredit) \in Nat
      BY AnswersFinite DEF AnswersOf
<1>3. /\ profiles[<<p, role>>].successes <= profiles'[<<p, role>>].successes
      /\ profiles[<<p, role>>].successes \in Nat /\ profiles'[<<p, role>>].successes \in Nat
      BY DEF ProfilesGrow, RoutingTyped, RoutesTyped, ProfileRows
<1>4. QED BY <1>1, <1>2, <1>3

(***************************************************************************)
(* The provider answers                                                    *)
(***************************************************************************)
LEMMA ResponseTyped ==
    ASSUME NEW p \in AllProviders, NEW tokens \in TokenCounts, NEW source \in {"REPORTED", "ESTIMATED"}
    PROVE  /\ Response(p, tokens, source) \in Replies
           /\ Response(p, tokens, source).provider = p
           /\ Known(Response(p, tokens, source).cost) => Response(p, tokens, source).cost = Price[p]
<1> DEFINE x == Response(p, tokens, source)
<1>1. x.provider = p /\ x.tokens \in TokenCounts /\ x.source \in {"REPORTED", "ESTIMATED"}
      BY DEF Response
<1>2. x.cost \in {Price[p], Unknown} /\ x.cost \in Tokens
      BY RoutingAssumed DEF Response, Tokens
<1>3. x = [provider |-> x.provider, tokens |-> x.tokens, source |-> x.source, cost |-> x.cost]
      BY DEF Response
<1> HIDE DEF x
<1>4. x \in Replies
      BY <1>1, <1>2, <1>3 DEF Replies
<1>5. QED BY <1>1, <1>2, <1>4 DEF x, Known

LEMMA ReportTyped ==
    ASSUME NEW raw \in Reports
    PROVE  OpenAIUsage(raw) \in TokenCounts
<1>1. raw \in [prompt : Tokens, completion : Tokens, cached : Tokens, miss : Tokens, total : Tokens]
      BY ModelRoutingAssumption
<1>2. /\ raw.prompt \in Tokens /\ raw.completion \in Tokens /\ raw.cached \in Tokens
      /\ raw.miss \in Tokens /\ raw.total \in Tokens
      BY <1>1
<1>3. Known(raw.prompt) /\ Known(raw.completion) => raw.prompt + raw.completion \in Tokens
      BY <1>2 DEF Known, Tokens
<1>4. (IF Known(raw.total) THEN raw.total
       ELSE IF Known(raw.prompt) /\ Known(raw.completion) THEN raw.prompt + raw.completion
       ELSE Unknown) \in Tokens
      BY <1>2, <1>3 DEF Tokens
<1>5. QED BY <1>2, <1>4 DEF OpenAIUsage, TokenCounts

\* What the answer of a provider makes of its call.
AnswerStep(c, x, row) ==
    /\ x \in CallRows /\ Shape(x)
    /\ x.pc = IF Routed(c) THEN "credit" ELSE "settle"
    /\ x.kind = call[c].kind /\ x.p = call[c].p /\ x.role = call[c].role /\ x.id = call[c].id
    /\ x.capped = call[c].capped
    /\ row = [provider |-> call[c].p, role |-> call[c].role, routed |-> Routed(c), capped |-> call[c].capped]
    /\ row \in AnswerRows
    /\ call[c] \in CallRows /\ Shape(call[c]) /\ call[c].pc = "send"
    /\ call' = [call EXCEPT ![c] = x]
    /\ answers' = Inserted(answers, call[c].id, row)
    /\ UNCHANGED <<served, registry, ledger, routing, deaths>>

LEMMA AnswersStep ==
    ASSUME RoutingInv, NEW c \in Clients, ProviderAnswers(c)
    PROVE  \E x, row : AnswerStep(c, x, row)
<1> DEFINE r == call[c]
           row == [provider |-> r.p, role |-> r.role, routed |-> Routed(c), capped |-> r.capped]
<1>1. r.pc = "send" /\ UNCHANGED <<registry, ledger, routing, deaths>>
      BY DEF ProviderAnswers, Answered, At
<1>2. r \in CallRows /\ Shape(r) /\ RoutingTyped
      BY <1>1, InCall DEF RoutingInv, Places
<1>3. r.p \in AllProviders
      BY <1>1, <1>2 DEF Shape
<1>4. PICK tokens \in TokenCounts, source \in {"REPORTED", "ESTIMATED"} :
         Answered(c, Response(r.p, tokens, source))
  <2>1. CASE \E raw \in Reports : Answered(c, Response(r.p, OpenAIUsage(raw), "REPORTED"))
        BY <2>1, ReportTyped
  <2>2. CASE Answered(c, Response(r.p, Estimate, "ESTIMATED"))
    <3>1. Estimate \in TokenCounts
          BY ModelRoutingAssumption DEF TokenCounts
    <3>2. QED BY <2>2, <3>1
  <2>3. QED BY <2>1, <2>2 DEF ProviderAnswers
<1> DEFINE response == Response(r.p, tokens, source)
           pc == IF Routed(c) THEN "credit" ELSE "settle"
           x == [r EXCEPT !.pc = pc, !.response = response]
<1>5. /\ response \in Replies /\ response.provider = r.p
      /\ Known(response.cost) => response.cost = Price[r.p]
      BY <1>3, ResponseTyped
<1>6. Become(c, x) /\ answers' = Inserted(answers, r.id, row)
      BY <1>4 DEF Answered
<1> HIDE DEF response
<1>7. x \in CallRows
      BY <1>2, <1>5, CallMoves DEF Places
<1>8. /\ x.pc = pc /\ x.response = response
      /\ x.kind = r.kind /\ x.p = r.p /\ x.role = r.role /\ x.id = r.id /\ x.capped = r.capped
      BY <1>2 DEF CallRows
<1>9. Shape(x)
  <2> HIDE DEF x
  <2>1. QED BY <1>1, <1>2, <1>5, <1>8 DEF Shape, Routed
<1>10. row \in AnswerRows
  <2>1. r.role \in Roles \cup {None} /\ r.capped \in BOOLEAN
        BY <1>2 DEF CallRows
  <2>2. Routed(c) \in BOOLEAN
        BY <1>2 DEF Routed, RoutingTyped, RoutesTyped
  <2>3. QED BY <1>3, <2>1, <2>2 DEF AnswerRows
<1>11. call' = [call EXCEPT ![c] = x] /\ served' = served
       BY <1>6 DEF Become
<1> HIDE DEF x
<1>12. AnswerStep(c, x, row)
       BY <1>1, <1>2, <1>6, <1>7, <1>8, <1>9, <1>10, <1>11 DEF AnswerStep
<1>13. QED BY <1>12

LEMMA AnswerOwn ==
    ASSUME RoutingInv, NEW c \in Clients, NEW x, NEW row, AnswerStep(c, x, row)
    PROVE  /\ Own(c, x) /\ EnteredFor(c)' /\ RoutingTyped' /\ ProfilesGrow
           /\ call[c].id \notin DOMAIN answers /\ call[c].id \notin DOMAIN usage
           /\ call[c].id \notin DOMAIN observations
<1> DEFINE r == call[c]
           id == call[c].id
<1>1. Asking(r) /\ (Billed(x) /\ (Asking(x) => FALSE)) /\ x.id = id
      BY DEF AnswerStep, Asking, Billed, Crediting, Routed
<1>2. id \notin DOMAIN answers
      BY <1>1 DEF RoutingInv, CallsInv, Entered, EnteredFor
<1>3. id \notin DOMAIN usage /\ id \notin DOMAIN observations
      BY <1>2 DEF RoutingInv, CallsInv, IdsDistinct
<1>4. /\ DOMAIN answers' = DOMAIN answers \cup {id} /\ answers'[id] = row
      /\ \A i \in DOMAIN answers : i # id => answers'[i] = answers[i]
      BY DEF AnswerStep, Inserted
<1>5. UNCHANGED <<served, registry, usage, observations, split, now, routes, profiles, bound, deaths>>
      BY DEF AnswerStep, ledger, routing
<1>6. ByRoute(x) => bound[c].routed
      BY DEF AnswerStep, ByRoute, Crediting, Routed
<1>7. x \in Requested /\ call' = [call EXCEPT ![c] = x] /\ x.pc # "set"
      BY DEF AnswerStep, Requested, ModelCalls
<1>8. DOMAIN usage' \cup DOMAIN observations' \subseteq DOMAIN answers'
      BY <1>4, <1>5 DEF RoutingInv, CallsInv, IdsDistinct
<1>9. Own(c, x)
      BY <1>1, <1>4, <1>5, <1>6, <1>7, <1>8 DEF Own, Live
<1>10. call'[c] = x
       BY <1>7 DEF RoutingInv, RoutingTyped, CallsTyped
<1>11. EnteredFor(c)'
  <2>1. row = [provider |-> x.p, role |-> x.role, routed |-> Routed(c)', capped |-> x.capped]
        BY <1>5, <1>10 DEF AnswerStep, Routed
  <2>2. x.pc # "observe"
        BY DEF AnswerStep
  <2>3. QED BY <1>1, <1>3, <1>4, <1>5, <1>10, <2>1, <2>2 DEF EnteredFor, Asking, Billed, Crediting
<1>12. LedgerTyped' /\ profiles' \in [AllProviders \X Roles -> ProfileRows]
       BY <1>5 DEF RoutingInv, RoutingTyped, LedgerTyped, RoutesTyped
<1>13. RoutingTyped'
       BY <1>4, <1>9, <1>12, OwnTyped DEF RoutingInv, AnswerStep
<1>14. ProfilesGrow
       BY <1>5, NothingGrows DEF RoutingInv
<1>15. QED BY <1>2, <1>3, <1>9, <1>11, <1>13, <1>14

LEMMA AnswerCounts ==
    ASSUME RoutingInv, NEW c \in Clients, NEW x, NEW row, AnswerStep(c, x, row)
    PROVE  AnswersEntered' /\ CostsCharged'
<1> DEFINE r == call[c]
           id == call[c].id
<1>1. Own(c, x) /\ ProfilesGrow /\ id \notin DOMAIN answers /\ id \notin DOMAIN usage
      BY AnswerOwn
<1>2. /\ DOMAIN answers' = DOMAIN answers \cup {id} /\ answers'[id] = row
      /\ \A i \in DOMAIN answers : answers'[i] = answers[i]
      BY <1>1 DEF AnswerStep, Inserted
<1>3. UNCHANGED <<usage, profiles, bound, deaths>>
      BY DEF AnswerStep, ledger, routing
<1>4. \A o \in Clients : call'[o] = IF o = c THEN x ELSE call[o]
      BY DEF AnswerStep, RoutingInv, RoutingTyped, CallsTyped
<1>5. x.id = id /\ r.pc = "send" /\ x.pc \in {"credit", "settle"} /\ (x.pc = "credit" <=> Routed(c))
      BY DEF AnswerStep
<1>6. Crediting(x) <=> Routed(c)
      BY DEF AnswerStep, Crediting, Routed
<1>7. ToCredit' = IF Routed(c) THEN ToCredit \cup {id} ELSE ToCredit
  <2>1. ~Crediting(r)
        BY <1>5 DEF Crediting
  <2>2. \A o \in Clients : Crediting(call'[o]) <=> IF o = c THEN Routed(c) ELSE Crediting(call[o])
        BY <1>4, <1>6
  <2>3. \A i \in DOMAIN answers' :
            i \in ToCredit' <=> \E o \in Clients : Crediting(call'[o]) /\ call'[o].id = i
        BY DEF ToCredit, Crediting
  <2>4. \A i \in DOMAIN answers :
            i \in ToCredit <=> \E o \in Clients : Crediting(call[o]) /\ call[o].id = i
        BY DEF ToCredit
  <2>5. \A o \in Clients : o # c /\ Crediting(call[o]) => call[o].id # id
        BY <1>5 DEF RoutingInv, CallsInv, IdsDistinct, Live, Asking, Billed
  <2>6. \A i \in DOMAIN answers : i \in ToCredit' <=> i \in ToCredit
        BY <1>1, <1>2, <1>4, <1>5, <2>1, <2>2, <2>3, <2>4
  <2>7. id \in ToCredit' <=> Routed(c)
        BY <1>2, <1>4, <1>5, <2>2, <2>3, <2>5
  <2>8. ToCredit' \subseteq DOMAIN answers' /\ ToCredit \subseteq DOMAIN answers
        BY DEF ToCredit
  <2>9. QED BY <1>1, <1>2, <2>6, <2>7, <2>8
<1>8. ASSUME NEW p \in AllProviders, NEW role \in Roles
      PROVE  /\ \A i \in DOMAIN answers : i \in AnswersOf(p, role)' <=> i \in AnswersOf(p, role)
             /\ id \in AnswersOf(p, role)' => Routed(c)
             /\ AnswersOf(p, role)' \subseteq DOMAIN answers'
  <2>1. row.routed = Routed(c)
        BY DEF AnswerStep
  <2>2. QED BY <1>2, <2>1 DEF AnswersOf
<1>9. AnswersEntered'
  <2>1. ASSUME NEW p \in AllProviders, NEW role \in Roles
        PROVE  (AnswersOf(p, role) \ ToCredit)' = AnswersOf(p, role) \ ToCredit
    <3>1. AnswersOf(p, role) \subseteq DOMAIN answers
          BY DEF AnswersOf
    <3>2. QED BY <1>1, <1>2, <1>7, <1>8, <3>1
  <2>2. QED BY <1>1, <1>3, <2>1, CountKept DEF RoutingInv, CallsInv
<1>10. CostsCharged'
  <2> SUFFICES ASSUME NEW p \in AllProviders, NEW role \in Roles, profiles'[<<p, role>>].known
               PROVE  \E costs : Charges(p, role, costs)'
      BY DEF CostsCharged
  <2>1. PICK costs : Charges(p, role, costs)
        BY <1>3 DEF RoutingInv, CostsCharged
  <2>2. DOMAIN costs \subseteq DOMAIN answers' \ ToCredit'
        BY <1>1, <1>2, <1>7, <2>1 DEF Charges
  <2>3. \A i \in DOMAIN usage' \cap AnswersOf(p, role)' : i \in DOMAIN costs /\ costs[i] = usage'[i].cost
    <3>1. DOMAIN usage \subseteq DOMAIN answers
          BY DEF RoutingInv, CallsInv, IdsDistinct
    <3>2. QED BY <1>3, <1>8, <2>1, <3>1 DEF Charges
  <2>4. ASSUME NEW o \in Clients, call'[o].pc = "settle", call'[o].id \in AnswersOf(p, role)'
        PROVE  call'[o].id \in DOMAIN costs /\ costs[call'[o].id] = call'[o].response.cost
    <3>1. o # c
          BY <1>4, <1>5, <1>8, <2>4
    <3>2. call'[o] = call[o]
          BY <1>4, <3>1
    <3>3. call[o].id \in DOMAIN answers
          BY <2>4, <3>2 DEF RoutingInv, CallsInv, Entered, EnteredFor, Billed
    <3>4. call[o].id \in AnswersOf(p, role)
          BY <1>8, <2>4, <3>2, <3>3
    <3>5. QED BY <2>1, <2>4, <3>2, <3>4 DEF Charges, At
  <2>5. SumFunction(costs) <= profiles'[<<p, role>>].spent
        BY <1>3, <2>1 DEF Charges
  <2>6. Charges(p, role, costs)'
        BY <2>1, <2>2, <2>3, <2>4, <2>5 DEF Charges, At
  <2>7. QED BY <2>6
<1>11. QED BY <1>9, <1>10

LEMMA AnswerWithin ==
    ASSUME RoutingInv, NEW c \in Clients, NEW x, NEW row, AnswerStep(c, x, row)
    PROVE  WithinAllowance'
<1> DEFINE r == call[c]
           id == call[c].id
<1>1. id \notin DOMAIN answers /\ RoutingTyped /\ IdsDistinct
      BY AnswerOwn DEF RoutingInv, CallsInv
<1>2. /\ DOMAIN answers' = DOMAIN answers \cup {id} /\ answers'[id] = row
      /\ \A i \in DOMAIN answers : answers'[i] = answers[i]
      BY <1>1 DEF AnswerStep, Inserted
<1>3. UNCHANGED <<profiles, bound, deaths>>
      BY DEF AnswerStep, routing
<1>4. \A o \in Clients : call'[o] = IF o = c THEN x ELSE call[o]
      BY DEF AnswerStep, RoutingInv, RoutingTyped, CallsTyped
<1>5. /\ r.pc = "send" /\ x.pc = IF Routed(c) THEN "credit" ELSE "settle"
      /\ x.kind = r.kind /\ x.p = r.p /\ x.role = r.role /\ x.capped = r.capped
      /\ row.provider = r.p /\ row.role = r.role /\ row.routed = Routed(c) /\ row.capped = r.capped
      BY DEF AnswerStep
<1>6. r.p \in AllProviders /\ Price[r.p] \in Nat
      BY <1>5, RoutingAssumed DEF AnswerStep, Shape
<1> SUFFICES ASSUME NEW role \in Roles, OnlyCapped(role)'
             PROVE  /\ Paying(role)' + SumFunction(Sent(role)') <= Allowance
                    /\ (\A q \in AllProviders : profiles'[<<q, role>>].known) =>
                          Paying(role)' <= Spent(role)' + SumFunction(Due(role)')
    BY DEF WithinAllowance, Allowance
<1> DEFINE s == Sent(role)
           t == Sent(role)'
           d == Due(role)
           e == Due(role)'
           g == [i \in Asked(role) |-> Price[answers[i].provider]]
           h == [i \in Asked(role)' |-> Price[answers'[i].provider]]
<1>7. \A i \in DOMAIN answers : i \in Asked(role)' <=> i \in Asked(role)
      BY <1>2 DEF Asked
<1>8. id \in Asked(role)' <=> r.role = role
      BY <1>2, <1>5 DEF Asked
<1>9. Asked(role) \subseteq DOMAIN answers /\ Asked(role)' \subseteq DOMAIN answers'
      BY DEF Asked
<1>10. OnlyCapped(role)
       BY <1>2, <1>3, <1>7, <1>9 DEF OnlyCapped
<1>11. /\ Paying(role) + SumFunction(s) <= Allowance
       /\ (\A q \in AllProviders : profiles[<<q, role>>].known) => Paying(role) <= Spent(role) + SumFunction(d)
       BY <1>10 DEF RoutingInv, WithinAllowance
<1>12. Spent(role)' = Spent(role)
       BY <1>3 DEF Spent
<1>13. s \in [Clients -> Nat] /\ d \in [Clients -> Nat]
       BY <1>1, PartsTyped
<1>14. /\ \A o \in Clients \ {c} : t[o] = s[o] /\ e[o] = d[o]
       /\ t = [o \in Clients |-> t[o]] /\ e = [o \in Clients |-> e[o]]
       BY <1>3, <1>4 DEF Sent, Due
<1>15. CASE r.role # role
  <2>1. t[c] = s[c] /\ e[c] = d[c]
        BY <1>4, <1>5, <1>15 DEF Sent, Due, Capped, Crediting
  <2>2. t = s /\ e = d
        BY <1>13, <1>14, <2>1
  <2>3. Asked(role)' = Asked(role)
        BY <1>2, <1>7, <1>8, <1>9, <1>15
  <2>4. h = g
        BY <1>2, <1>9, <2>3
  <2>5. Paying(role)' = Paying(role)
        BY <2>4 DEF Paying
  <2>6. QED BY <1>3, <1>11, <1>12, <2>2, <2>5
<1>16. CASE r.role = role
  <2>1. Routed(c) /\ r.capped
        BY <1>2, <1>5, <1>8, <1>16 DEF OnlyCapped
  <2>2. /\ s[c] = Price[r.p] /\ t[c] = 0 /\ d[c] = 0 /\ e[c] = Price[r.p]
        BY <1>4, <1>5, <1>16, <2>1 DEF Sent, Due, Capped, Crediting, Routed
  <2>3. t \in [Clients -> Nat] /\ e \in [Clients -> Nat]
        BY <1>6, <1>13, <1>14, <2>2
  <2>4. Asked(role)' = Asked(role) \cup {id} /\ id \notin Asked(role)
        BY <1>1, <1>2, <1>7, <1>8, <1>9, <1>16
  <2>5. g \in [Asked(role) -> Nat]
        BY <1>1, RoutingAssumed DEF Asked, RoutingTyped, RoutesTyped, AnswerRows
  <2>6. h \in [Asked(role) \cup {id} -> Nat] /\ h[id] = Price[r.p] /\ \A i \in Asked(role) : h[i] = g[i]
        BY <1>2, <1>5, <1>6, <1>9, <2>4, <2>5
  <2>7. IsFiniteSet(Asked(role))
        BY <1>1, <1>9, AnswersFinite
  <2>8. Paying(role) = SumFunction(g) /\ Paying(role)' = SumFunction(h)
        BY DEF Paying
  <2> HIDE DEF s, t, d, e, g, h
  <2>9. SumFunction(h) = SumFunction(g) + Price[r.p]
    <3> DEFINE A == Asked(role)
    <3>1. IsFiniteSet(A) /\ g \in [A -> Nat] /\ id \notin A /\ h \in [A \cup {id} -> Nat] /\ \A i \in A : h[i] = g[i]
          BY <2>4, <2>5, <2>6, <2>7
    <3> HIDE DEF A, id
    <3>2. SumFunction(h) = SumFunction(g) + h[id]
          BY <3>1, SumGrows
    <3>3. QED BY <2>6, <3>2
  <2>10. SumFunction(t) + s[c] = SumFunction(s) + t[c] /\ SumFunction(e) + d[c] = SumFunction(d) + e[c]
        BY <1>13, <1>14, <2>3, ModelRoutingAssumption, SumChanges
  <2>11. /\ SumFunction(s) \in Nat /\ SumFunction(t) \in Nat /\ SumFunction(d) \in Nat /\ SumFunction(e) \in Nat
         /\ SumFunction(g) \in Nat
        BY <1>13, <2>3, <2>5, <2>7, ModelRoutingAssumption, SumType
  <2>12. SumFunction(t) + Price[r.p] = SumFunction(s) /\ SumFunction(e) = SumFunction(d) + Price[r.p]
        BY <1>6, <2>2, <2>10, <2>11
  <2>13. SumFunction(h) + SumFunction(t) = SumFunction(g) + SumFunction(s)
        BY <1>6, <2>9, <2>11, <2>12
  <2>14. Spent(role) \in Nat
        BY <1>1, NothingGrows, SpentGrows, <1>3
  <2>15. (\A q \in AllProviders : profiles[<<q, role>>].known) => SumFunction(h) <= Spent(role) + SumFunction(e)
        BY <1>6, <1>11, <2>8, <2>9, <2>11, <2>12, <2>14
  <2>16. QED BY <1>3, <1>11, <1>12, <2>8, <2>13, <2>15 DEF t, e
<1>17. QED BY <1>15, <1>16

LEMMA ProviderAnswersKeeps ==
    ASSUME RoutingInv, NEW c \in Clients, ProviderAnswers(c)
    PROVE  RoutingInv'
<1>1. PICK x, row : AnswerStep(c, x, row)
      BY AnswersStep
<1>2. /\ Own(c, x) /\ EnteredFor(c)' /\ RoutingTyped' /\ call[c].id \notin DOMAIN usage
      BY <1>1, AnswerOwn
<1>3. usage' = usage
      BY <1>1 DEF AnswerStep, ledger
<1>4. CallsInv' /\ RegistryInv'
      BY <1>2, <1>3, OwnCalls, OwnRegistry DEF RoutingInv
<1>5. AnswersEntered' /\ CostsCharged'
      BY <1>1, AnswerCounts
<1>6. WithinAllowance'
      BY <1>1, AnswerWithin
<1>7. QED BY <1>2, <1>4, <1>5, <1>6 DEF RoutingInv

(***************************************************************************)
(* The answer is entered in the performance table                          *)
(***************************************************************************)
\* What the entry makes of the call of a run with routes.
CreditStep(c, x, cost) ==
    /\ x \in CallRows /\ Shape(x) /\ x.pc = "settle"
    /\ x.kind = "model" /\ x.p = call[c].p /\ x.role = call[c].role /\ x.id = call[c].id
    /\ x.capped = call[c].capped /\ x.response = call[c].response
    /\ call[c].pc = "credit" /\ call[c].kind = "model"
    /\ call[c].p \in AllProviders /\ call[c].role \in Roles
    /\ cost = call[c].response.cost /\ cost \in Tokens /\ (Known(cost) => cost = Price[call[c].p])
    /\ call' = [call EXCEPT ![c] = x]
    /\ profiles' = Credited(call[c].p, call[c].role, TRUE, cost)
    /\ UNCHANGED <<served, registry, ledger, routes, bound, answers, deaths>>

LEMMA CreditsStep ==
    ASSUME RoutingInv, NEW c \in Clients, Credit(c), call[c].kind # "team"
    PROVE  \E x, cost : CreditStep(c, x, cost)
<1> DEFINE r == call[c]
           x == [r EXCEPT !.pc = "settle"]
<1>1. /\ r.pc = "credit" /\ UNCHANGED <<registry, ledger, routes, bound, answers, deaths>> /\ Become(c, x)
      /\ profiles' = Credited(r.p, r.role, TRUE, r.response.cost)
      BY DEF Credit, At, Goto
<1>2. r \in CallRows /\ Shape(r)
      BY <1>1, InCall DEF RoutingInv, Places
<1>3. /\ r.kind = "model" /\ r.role \in Roles /\ r.p \in AllProviders
      /\ r.response.cost \in Tokens /\ (Known(r.response.cost) => r.response.cost = Price[r.p])
      BY <1>1, <1>2 DEF Shape, Replies
<1>4. x \in CallRows
      BY <1>2, CallMoves DEF Places
<1>5. /\ x.pc = "settle" /\ x.kind = r.kind /\ x.p = r.p /\ x.role = r.role /\ x.id = r.id /\ x.capped = r.capped
      /\ x.response = r.response
      BY <1>2 DEF CallRows
<1>6. Shape(x)
  <2> HIDE DEF x
  <2>1. QED BY <1>1, <1>2, <1>3, <1>5 DEF Shape
<1>7. call' = [call EXCEPT ![c] = x] /\ served' = served
      BY <1>1 DEF Become
<1> HIDE DEF x
<1>8. CreditStep(c, x, r.response.cost)
      BY <1>1, <1>3, <1>4, <1>5, <1>6, <1>7 DEF CreditStep
<1>9. QED BY <1>8

LEMMA CreditOwn ==
    ASSUME RoutingInv, NEW c \in Clients, NEW x, NEW cost, CreditStep(c, x, cost)
    PROVE  /\ Own(c, x) /\ EnteredFor(c)' /\ RoutingTyped' /\ ProfilesGrow
           /\ call[c].id \in DOMAIN answers /\ call[c].id \notin DOMAIN usage
           /\ \A p \in AllProviders, role \in Roles :
                 call[c].id \in AnswersOf(p, role) => p = call[c].p /\ role = call[c].role
<1> DEFINE r == call[c]
           id == call[c].id
<1>1. Billed(r) /\ Crediting(r) /\ ~Asking(r) /\ Billed(x) /\ ~Asking(x) /\ ~Crediting(x) /\ x.id = id
      BY DEF CreditStep, Asking, Billed, Crediting
<1>2. /\ id \in DOMAIN answers /\ id \notin DOMAIN usage /\ id \notin DOMAIN observations
      /\ answers[id] = [provider |-> r.p, role |-> r.role, routed |-> Routed(c), capped |-> r.capped]
      BY <1>1 DEF RoutingInv, CallsInv, Entered, EnteredFor
<1>3. UNCHANGED <<served, registry, usage, observations, split, now, routes, answers, bound, deaths>>
      BY DEF CreditStep, ledger
<1>4. ~ByRoute(x)
      BY DEF CreditStep, ByRoute, Crediting
<1>5. x \in Requested /\ call' = [call EXCEPT ![c] = x] /\ x.pc # "set"
      BY DEF CreditStep, Requested, ModelCalls
<1>6. DOMAIN usage' \cup DOMAIN observations' \subseteq DOMAIN answers'
      BY <1>3 DEF RoutingInv, CallsInv, IdsDistinct
<1>7. Own(c, x)
      BY <1>1, <1>3, <1>4, <1>5, <1>6 DEF Own, Live
<1>8. call'[c] = x
      BY <1>5 DEF RoutingInv, RoutingTyped, CallsTyped
<1>9. EnteredFor(c)'
  <2>1. Routed(c)' = Routed(c)
        BY <1>3, <1>8 DEF CreditStep, Routed
  <2>2. answers[id] = [provider |-> x.p, role |-> x.role, routed |-> Routed(c)', capped |-> x.capped]
        BY <1>2, <2>1 DEF CreditStep
  <2>3. x.pc # "observe"
        BY DEF CreditStep
  <2>4. QED BY <1>1, <1>2, <1>3, <1>8, <2>2, <2>3 DEF EnteredFor, Asking, Billed, Crediting
<1>10. LedgerTyped'
       BY <1>3 DEF RoutingInv, RoutingTyped, LedgerTyped
<1>11. ProfilesGrow
       BY CreditGrows DEF CreditStep, RoutingInv
<1>12. answers'[id] \in AnswerRows
       BY <1>2, <1>3 DEF RoutingInv, RoutingTyped, RoutesTyped
<1>13. RoutingTyped'
       BY <1>7, <1>10, <1>11, <1>12, OwnTyped DEF RoutingInv, ProfilesGrow
<1>14. QED BY <1>2, <1>7, <1>9, <1>11, <1>13 DEF AnswersOf

\* The entry takes the call from those to credit.
LEMMA CreditTaken ==
    ASSUME RoutingInv, NEW c \in Clients, NEW x, NEW cost, CreditStep(c, x, cost)
    PROVE  ToCredit' = ToCredit \ {call[c].id} /\ call[c].id \in ToCredit
<1> DEFINE id == call[c].id
<1>1. \A o \in Clients : call'[o] = IF o = c THEN x ELSE call[o]
      BY DEF CreditStep, RoutingInv, RoutingTyped, CallsTyped
<1>2. ~Crediting(x) /\ Crediting(call[c]) /\ answers' = answers
      BY DEF CreditStep, Crediting
<1>3. \A o \in Clients : o # c /\ Crediting(call[o]) => call[o].id # id
      BY <1>2 DEF RoutingInv, CallsInv, IdsDistinct, Live, Billed
<1>4. id \in DOMAIN answers
      BY CreditOwn
<1>5. \A i \in DOMAIN answers :
          i \in ToCredit' <=> \E o \in Clients : Crediting(call'[o]) /\ call'[o].id = i
      BY <1>2 DEF ToCredit, Crediting
<1>6. \A i \in DOMAIN answers :
          i \in ToCredit <=> \E o \in Clients : Crediting(call[o]) /\ call[o].id = i
      BY DEF ToCredit
<1>7. \A i \in DOMAIN answers : i \in ToCredit' <=> i \in ToCredit /\ i # id
      BY <1>1, <1>2, <1>3, <1>5, <1>6
<1>8. ToCredit' \subseteq DOMAIN answers /\ ToCredit \subseteq DOMAIN answers
      BY <1>2 DEF ToCredit
<1>9. QED BY <1>2, <1>4, <1>6, <1>7, <1>8

LEMMA CreditCounts ==
    ASSUME RoutingInv, NEW c \in Clients, NEW x, NEW cost, CreditStep(c, x, cost)
    PROVE  AnswersEntered'
<1> DEFINE r == call[c]
           id == call[c].id
<1>1. UNCHANGED <<answers, deaths>>
      BY DEF CreditStep
<1>2. ToCredit' = ToCredit \ {id}
      BY CreditTaken
<1> SUFFICES ASSUME deaths' = 0, NEW p \in AllProviders, NEW role \in Roles
             PROVE  Cardinality((AnswersOf(p, role) \ ToCredit)') <= profiles'[<<p, role>>].successes
    BY DEF AnswersEntered
<1> DEFINE S == AnswersOf(p, role) \ ToCredit
           T == (AnswersOf(p, role) \ ToCredit)'
<1>3. Cardinality(S) <= profiles[<<p, role>>].successes
      BY <1>1 DEF RoutingInv, AnswersEntered
<1>4. IsFiniteSet(S) /\ Cardinality(S) \in Nat
      BY AnswersFinite DEF AnswersOf, RoutingInv, CallsInv
<1>5. AnswersOf(p, role)' = AnswersOf(p, role)
      BY <1>1 DEF AnswersOf
<1>6. /\ profiles[<<p, role>>].successes <= profiles'[<<p, role>>].successes
      /\ profiles[<<p, role>>].successes \in Nat /\ profiles'[<<p, role>>].successes \in Nat
      BY CreditOwn DEF ProfilesGrow, RoutingInv, RoutingTyped, RoutesTyped, ProfileRows
<1>7. CASE p = r.p /\ role = r.role
  <2>1. profiles'[<<p, role>>].successes = profiles[<<p, role>>].successes + 1
        BY <1>7, CreditGrows DEF CreditStep, RoutingInv
  <2>2. T \subseteq S \cup {id}
        BY <1>2, <1>5
  <2>3. IsFiniteSet(S \cup {id}) /\ Cardinality(S \cup {id}) \in {Cardinality(S), Cardinality(S) + 1}
        BY <1>4, FS_AddElement
  <2>4. T \in SUBSET (S \cup {id})
        BY <2>2
  <2> HIDE DEF S, T
  <2>5. Cardinality(T) <= Cardinality(S \cup {id}) /\ Cardinality(T) \in Nat
        BY <2>3, <2>4, FS_Subset, FS_CardinalityType
  <2>6. QED BY <1>3, <1>4, <1>6, <2>1, <2>3, <2>5 DEF T
<1>8. CASE ~(p = r.p /\ role = r.role)
  <2>1. id \notin AnswersOf(p, role)
        BY <1>8, CreditOwn
  <2>2. T = S
        BY <1>2, <1>5, <2>1
  <2>3. QED BY <1>3, <1>4, <1>6, <2>2
<1>9. QED BY <1>7, <1>8

LEMMA CreditCharges ==
    ASSUME RoutingInv, NEW c \in Clients, NEW x, NEW cost, CreditStep(c, x, cost)
    PROVE  CostsCharged'
<1> DEFINE r == call[c]
           id == call[c].id
<1>1. answers' = answers /\ usage' = usage
      BY DEF CreditStep, ledger
<1>2. ToCredit' = ToCredit \ {id} /\ id \in ToCredit
      BY CreditTaken
<1>3. \A o \in Clients : call'[o] = IF o = c THEN x ELSE call[o]
      BY DEF CreditStep, RoutingInv, RoutingTyped, CallsTyped
<1>4. id \in DOMAIN answers /\ id \notin DOMAIN usage
      BY CreditOwn
<1>5. x.id = id /\ x.response.cost = cost
      BY DEF CreditStep
<1> SUFFICES ASSUME NEW p \in AllProviders, NEW role \in Roles, profiles'[<<p, role>>].known
             PROVE  \E costs : Charges(p, role, costs)'
    BY DEF CostsCharged
<1>6. AnswersOf(p, role)' = AnswersOf(p, role)
      BY <1>1 DEF AnswersOf
<1>7. profiles[<<p, role>>].known
      BY CreditOwn DEF ProfilesGrow
<1>8. PICK costs : Charges(p, role, costs)
      BY <1>7 DEF RoutingInv, CostsCharged
<1>9. profiles[<<p, role>>].spent \in Nat
      BY DEF RoutingInv, RoutingTyped, RoutesTyped, ProfileRows
<1>10. SumFunction(costs) \in Nat /\ IsFiniteSet(DOMAIN costs) /\ costs \in [DOMAIN costs -> Nat]
       BY <1>8, SumType DEF Charges
<1>11. CASE p = r.p /\ role = r.role
  <2>0. PICK more : more = [i \in DOMAIN costs \cup {id} |-> IF i = id THEN cost ELSE costs[i]]
        OBVIOUS
  <2>1. cost \in Nat /\ profiles'[<<p, role>>].spent = profiles[<<p, role>>].spent + cost
    <3>1. profiles' = Credited(p, role, TRUE, cost) /\ cost \in Tokens /\ RoutingTyped
          BY <1>11 DEF CreditStep, RoutingInv
    <3>2. QED BY <3>1, CreditGrows
  <2>2. id \notin DOMAIN costs
        BY <1>2, <1>8 DEF Charges
  <2>3. /\ more \in [DOMAIN costs \cup {id} -> Nat] /\ more[id] = cost
        /\ \A i \in DOMAIN costs : more[i] = costs[i]
        BY <1>10, <2>0, <2>1, <2>2
  <2>4. DOMAIN more = DOMAIN costs \cup {id}
        BY <2>0
  <2>5. SumFunction(more) = SumFunction(costs) + cost
    <3> DEFINE A == DOMAIN costs
    <3>1. /\ IsFiniteSet(A) /\ costs \in [A -> Nat] /\ id \notin A /\ more \in [A \cup {id} -> Nat]
          /\ \A i \in A : more[i] = costs[i]
          BY <1>10, <2>2, <2>3
    <3> HIDE DEF A, id
    <3>2. SumFunction(more) = SumFunction(costs) + more[id]
          BY <3>1, SumGrows
    <3>3. QED BY <2>3, <3>2
  <2>6. SumFunction(more) <= profiles'[<<p, role>>].spent
        BY <1>8, <1>9, <1>10, <2>1, <2>5 DEF Charges
  <2>7. IsFiniteSet(DOMAIN more) /\ more \in [DOMAIN more -> Nat]
        BY <1>10, <2>3, <2>4, FS_AddElement
  <2>8. DOMAIN more \subseteq DOMAIN answers' \ ToCredit'
        BY <1>1, <1>2, <1>4, <1>8, <2>4 DEF Charges
  <2>9. \A i \in DOMAIN usage' \cap AnswersOf(p, role)' : i \in DOMAIN more /\ more[i] = usage'[i].cost
        BY <1>1, <1>4, <1>6, <1>8, <2>3, <2>4 DEF Charges
  <2>10. ASSUME NEW o \in Clients, call'[o].pc = "settle", call'[o].id \in AnswersOf(p, role)'
         PROVE  call'[o].id \in DOMAIN more /\ more[call'[o].id] = call'[o].response.cost
    <3>1. CASE o = c
          BY <1>3, <1>5, <2>3, <2>4, <3>1
    <3>2. CASE o # c
      <4>1. call'[o] = call[o]
            BY <1>3, <3>2
      <4>2. call[o].id \in DOMAIN costs /\ costs[call[o].id] = call[o].response.cost
            BY <1>6, <1>8, <2>10, <4>1 DEF Charges, At
      <4>3. QED BY <2>3, <2>4, <4>1, <4>2
    <3>3. QED BY <3>1, <3>2
  <2>11. Charges(p, role, more)'
         BY <2>6, <2>7, <2>8, <2>9, <2>10 DEF Charges, At
  <2>12. QED BY <2>11
<1>12. CASE ~(p = r.p /\ role = r.role)
  <2>1. id \notin AnswersOf(p, role)
        BY <1>12, CreditOwn
  <2>2. profiles[<<p, role>>].spent <= profiles'[<<p, role>>].spent /\ profiles'[<<p, role>>].spent \in Nat
        BY CreditOwn DEF ProfilesGrow, ProfileRows
  <2>3. SumFunction(costs) <= profiles'[<<p, role>>].spent
        BY <1>8, <1>9, <1>10, <2>2 DEF Charges
  <2>4. ASSUME NEW o \in Clients, call'[o].pc = "settle", call'[o].id \in AnswersOf(p, role)'
        PROVE  call'[o].id \in DOMAIN costs /\ costs[call'[o].id] = call'[o].response.cost
    <3>1. o # c /\ call'[o] = call[o]
          BY <1>3, <1>5, <1>6, <2>1, <2>4
    <3>2. QED BY <1>6, <1>8, <2>4, <3>1 DEF Charges, At
  <2>5. DOMAIN costs \subseteq DOMAIN answers' \ ToCredit'
        BY <1>1, <1>2, <1>8 DEF Charges
  <2>6. \A i \in DOMAIN usage' \cap AnswersOf(p, role)' : i \in DOMAIN costs /\ costs[i] = usage'[i].cost
        BY <1>1, <1>6, <1>8 DEF Charges
  <2>7. Charges(p, role, costs)'
        BY <1>10, <2>3, <2>4, <2>5, <2>6 DEF Charges, At
  <2>8. QED BY <2>7
<1>13. QED BY <1>11, <1>12

LEMMA CreditWithin ==
    ASSUME RoutingInv, NEW c \in Clients, NEW x, NEW cost, CreditStep(c, x, cost)
    PROVE  WithinAllowance'
<1> DEFINE r == call[c]
<1>1. UNCHANGED <<answers, bound, deaths>> /\ RoutingTyped
      BY DEF CreditStep, RoutingInv
<1>2. \A o \in Clients : call'[o] = IF o = c THEN x ELSE call[o]
      BY DEF CreditStep, RoutingInv, RoutingTyped, CallsTyped
<1> SUFFICES ASSUME NEW role \in Roles, OnlyCapped(role)'
             PROVE  /\ Paying(role)' + SumFunction(Sent(role)') <= Allowance
                    /\ (\A q \in AllProviders : profiles'[<<q, role>>].known) =>
                          Paying(role)' <= Spent(role)' + SumFunction(Due(role)')
    BY DEF WithinAllowance, Allowance
<1> DEFINE d == Due(role)
           e == Due(role)'
           f == [q \in AllProviders |-> profiles[<<q, role>>].spent]
           k == [q \in AllProviders |-> profiles'[<<q, role>>].spent]
<1>3. OnlyCapped(role) /\ Paying(role)' = Paying(role)
      BY <1>1 DEF OnlyCapped, Asked, Paying
<1>4. /\ Paying(role) + SumFunction(Sent(role)) <= Allowance
      /\ (\A q \in AllProviders : profiles[<<q, role>>].known) => Paying(role) <= Spent(role) + SumFunction(d)
      BY <1>3 DEF RoutingInv, WithinAllowance
<1>5. Sent(role)' = Sent(role)
  <2>1. ~Capped(x, role) /\ ~Capped(r, role)
        BY DEF Capped, CreditStep
  <2>2. QED BY <1>1, <1>2, <2>1 DEF Sent
<1>6. ASSUME \A q \in AllProviders : profiles'[<<q, role>>].known
      PROVE  Paying(role) <= Spent(role)' + SumFunction(e)
  <2>1. /\ \A q \in AllProviders : profiles[<<q, role>>].known
        /\ Spent(role) \in Nat /\ Spent(role)' \in Nat /\ Spent(role) <= Spent(role)'
        BY <1>1, <1>6, CreditOwn, SpentGrows
  <2>2. Paying(role) <= Spent(role) + SumFunction(d) /\ Paying(role) \in Nat
        BY <1>1, <1>4, <2>1, PayingTyped DEF RoutingInv, CallsInv
  <2>3. CASE r.role # role
    <3>1. e = d
          BY <1>2, <2>3 DEF Due, CreditStep, Crediting
    <3>2. SumFunction(d) \in Nat
          BY <1>1, PartsTyped, ModelRoutingAssumption, SumType
    <3>3. QED BY <2>1, <2>2, <3>1, <3>2
  <2>4. CASE r.role = role
    <3>1. /\ cost = Price[r.p] /\ cost \in Nat
          /\ profiles'[<<r.p, role>>].spent = profiles[<<r.p, role>>].spent + cost
          /\ \A q \in AllProviders \ {r.p} : profiles'[<<q, role>>] = profiles[<<q, role>>]
      <4>1. profiles'[<<r.p, role>>].known /\ r.p \in AllProviders
            BY <1>6 DEF CreditStep
      <4>2. cost \in Tokens /\ profiles' = Credited(r.p, role, TRUE, cost)
            BY <2>4 DEF CreditStep
      <4> HIDE DEF r
      <4>3. /\ Known(cost) /\ cost \in Nat
            /\ profiles'[<<r.p, role>>].spent = profiles[<<r.p, role>>].spent + cost
            /\ \A a \in AllProviders \X Roles : a # <<r.p, role>> => profiles'[a] = profiles[a]
            BY <1>1, <4>1, <4>2, CreditGrows
      <4>4. \A q \in AllProviders \ {r.p} : profiles'[<<q, role>>] = profiles[<<q, role>>]
            BY <4>3
      <4>5. QED BY <4>3, <4>4 DEF CreditStep, r
    <3>2. d[c] = cost /\ e[c] = 0 /\ \A o \in Clients \ {c} : e[o] = d[o]
          BY <1>2, <2>4, <3>1 DEF Due, CreditStep, Crediting
    <3>3. d \in [Clients -> Nat] /\ e \in [Clients -> Nat]
      <4>1. d \in [Clients -> Nat]
            BY <1>1, PartsTyped
      <4>2. e = [o \in Clients |-> e[o]]
            BY DEF Due
      <4>3. QED BY <3>2, <4>1, <4>2
    <3>4. f \in [AllProviders -> Nat] /\ k \in [AllProviders -> Nat]
          BY <1>1, CreditOwn DEF RoutingTyped, RoutesTyped, ProfilesGrow, ProfileRows
    <3>5. k[r.p] = f[r.p] + cost /\ r.p \in AllProviders /\ \A q \in AllProviders \ {r.p} : k[q] = f[q]
          BY <3>1 DEF CreditStep
    <3>6. Spent(role) = SumFunction(f) /\ Spent(role)' = SumFunction(k)
          BY DEF Spent
    <3> HIDE DEF d, e, f, k
    <3>7. SumFunction(e) + d[c] = SumFunction(d) + e[c]
          BY <3>2, <3>3, ModelRoutingAssumption, SumChanges
    <3>8. SumFunction(k) + f[r.p] = SumFunction(f) + k[r.p]
          BY <3>4, <3>5, RoutingAssumed, SumChanges
    <3>9. SumFunction(d) \in Nat /\ SumFunction(e) \in Nat
          BY <3>3, ModelRoutingAssumption, SumType
    <3>10. f[r.p] \in Nat
           BY <3>4, <3>5
    <3>11. SumFunction(e) + cost = SumFunction(d)
           BY <3>2, <3>7, <3>9
    <3>12. SumFunction(k) = SumFunction(f) + cost
      <4>1. SumFunction(k) \in Nat /\ SumFunction(f) \in Nat /\ k[r.p] = f[r.p] + cost
            BY <2>1, <3>5, <3>6
      <4>2. QED BY <3>1, <3>8, <3>10, <4>1
    <3>13. QED BY <2>1, <2>2, <3>1, <3>6, <3>9, <3>11, <3>12
  <2>5. QED BY <2>3, <2>4
<1>7. QED BY <1>3, <1>4, <1>5, <1>6

LEMMA CreditKeeps ==
    ASSUME RoutingInv, NEW c \in Clients, Credit(c)
    PROVE  RoutingInv'
<1>1. CASE call[c].kind = "team"
      BY <1>1, TeamCreditKeeps
<1>2. CASE call[c].kind # "team"
  <2>1. PICK x, cost : CreditStep(c, x, cost)
        BY <1>2, CreditsStep
  <2>2. Own(c, x) /\ EnteredFor(c)' /\ RoutingTyped' /\ call[c].id \notin DOMAIN usage
        BY <2>1, CreditOwn
  <2>3. usage' = usage
        BY <2>1 DEF CreditStep, ledger
  <2>4. CallsInv' /\ RegistryInv'
        BY <2>2, <2>3, OwnCalls, OwnRegistry DEF RoutingInv
  <2>5. AnswersEntered' /\ CostsCharged' /\ WithinAllowance'
        BY <2>1, CreditCounts, CreditCharges, CreditWithin
  <2>6. QED BY <2>2, <2>4, <2>5 DEF RoutingInv
<1>3. QED BY <1>1, <1>2

(***************************************************************************)
(* The two transactions of the telemetry                                   *)
(***************************************************************************)
SettleStep(c, x, row) ==
    /\ x \in CallRows /\ Shape(x) /\ x.pc = "observe" /\ x.row = row
    /\ x.kind = call[c].kind /\ x.p = call[c].p /\ x.role = call[c].role /\ x.id = call[c].id
    /\ x.capped = call[c].capped
    /\ call[c].pc = "settle"
    /\ row \in UsageRows /\ row.provider = call[c].p
    /\ Known(call[c].response.cost) => row.cost = call[c].response.cost
    /\ call' = [call EXCEPT ![c] = x]
    /\ usage' = Inserted(usage, call[c].id, row)
    /\ UNCHANGED <<served, registry, observations, now, split, routing, answers, deaths>>

LEMMA SettlesStep ==
    ASSUME RoutingInv, NEW c \in Clients, Settle(c), ~Leave(c, FALSE) \/ ledger' # ledger
    PROVE  \E x, row : SettleStep(c, x, row)
<1> DEFINE r == call[c]
<1>1. r.pc = "settle" /\ UNCHANGED <<registry, routing, answers, deaths>>
      BY DEF Settle, At
<1>2. r \in CallRows /\ Shape(r)
      BY <1>1, InCall DEF RoutingInv, Places
<1>3. PICK cost \in Costs(r.response) :
         /\ Record(r.id, Normalized(TaskOf(c), Scope(c), r.response, cost))
         /\ Become(c, [r EXCEPT !.pc = "observe", !.row = Normalized(TaskOf(c), Scope(c), r.response, cost)])
      BY DEF Settle
<1>4. PICK row : row = Normalized(TaskOf(c), Scope(c), r.response, cost)
      OBVIOUS
<1>5. r.response \in Replies /\ r.response.provider = r.p /\ r.p \in AllProviders
      BY <1>1, <1>2 DEF Shape
<1>6. cost \in Tokens /\ (Known(r.response.cost) => cost = r.response.cost)
      BY <1>5, RoutingAssumed DEF Costs, Replies, Tokens
<1>7. row \in UsageRows /\ row.provider = r.p /\ row.cost = cost
  <2>1. TaskOf(c) \in Clients \cup {None} /\ Scope(c) \in {"user_task", "diagnostic"} /\ now \in Nat
        BY DEF TaskOf, Scope, RoutingInv, RoutingTyped, LedgerTyped
  <2>2. r.response.tokens \in TokenCounts /\ r.response.source \in {"REPORTED", "ESTIMATED"}
        BY <1>5 DEF Replies
  <2>3. QED BY <1>4, <1>5, <1>6, <2>1, <2>2 DEF Normalized, UsageRows
<1>8. PICK x : x = [r EXCEPT !.pc = "observe", !.row = row]
      OBVIOUS
<1>9. x \in CallRows
      BY <1>2, <1>7, <1>8, CallMoves DEF Places
<1>10. /\ x.pc = "observe" /\ x.row = row /\ x.kind = r.kind /\ x.p = r.p /\ x.role = r.role /\ x.id = r.id
       /\ x.capped = r.capped /\ x.response = r.response
       BY <1>2, <1>8 DEF CallRows
<1>11. Shape(x)
       BY <1>1, <1>2, <1>7, <1>10 DEF Shape
<1>12. call' = [call EXCEPT ![c] = x] /\ served' = served
       BY <1>3, <1>4, <1>8 DEF Become
<1>13. usage' = Inserted(usage, r.id, row) /\ UNCHANGED <<observations, now, split>>
       BY <1>3, <1>4 DEF Record
<1>14. SettleStep(c, x, row)
       BY <1>1, <1>6, <1>7, <1>9, <1>10, <1>11, <1>12, <1>13 DEF SettleStep
<1>15. QED BY <1>14

LEMMA SettleStepKeeps ==
    ASSUME RoutingInv, NEW c \in Clients, NEW x, NEW row, SettleStep(c, x, row)
    PROVE  RoutingInv'
<1> DEFINE r == call[c]
           id == call[c].id
<1>1. Billed(r) /\ ~Crediting(r) /\ ~Asking(r) /\ Billed(x) /\ ~Asking(x) /\ ~Crediting(x) /\ x.id = id
      BY DEF SettleStep, Asking, Billed, Crediting
<1>2. /\ id \in DOMAIN answers /\ id \notin DOMAIN usage /\ id \notin DOMAIN observations
      /\ answers[id] = [provider |-> r.p, role |-> r.role, routed |-> Routed(c), capped |-> r.capped]
      BY <1>1 DEF SettleStep, RoutingInv, CallsInv, Entered, EnteredFor
<1>3. UNCHANGED <<served, registry, observations, split, now, routes, profiles, answers, bound, deaths>>
      BY DEF SettleStep, routing
<1>4. /\ DOMAIN usage' = DOMAIN usage \cup {id} /\ usage'[id] = row
      /\ \A i \in DOMAIN usage : usage'[i] = usage[i]
      BY <1>2 DEF SettleStep, Inserted
<1>5. x \in Requested /\ call' = [call EXCEPT ![c] = x] /\ x.pc # "set" /\ ~ByRoute(x)
      BY DEF SettleStep, Requested, ModelCalls, ByRoute, Crediting
<1>6. DOMAIN usage' \cup DOMAIN observations' \subseteq DOMAIN answers'
      BY <1>2, <1>3, <1>4 DEF RoutingInv, CallsInv, IdsDistinct
<1>7. Own(c, x)
      BY <1>1, <1>3, <1>4, <1>5, <1>6 DEF Own, Live
<1>8. \A o \in Clients : call'[o] = IF o = c THEN x ELSE call[o]
      BY <1>5 DEF RoutingInv, RoutingTyped, CallsTyped
<1>9. EnteredFor(c)'
  <2>1. Routed(c)' = Routed(c)
        BY <1>3, <1>8 DEF SettleStep, Routed
  <2>2. answers[id] = [provider |-> x.p, role |-> x.role, routed |-> Routed(c)', capped |-> x.capped]
        BY <1>2, <2>1 DEF SettleStep
  <2>3. x.pc = "observe" /\ x.row = row
        BY DEF SettleStep
  <2>4. QED BY <1>1, <1>2, <1>3, <1>4, <1>8, <2>2, <2>3 DEF EnteredFor, Asking, Billed, Crediting
<1>10. CallsInv'
  <2>1. usage'[id].provider = answers'[id].provider
        BY <1>2, <1>3, <1>4 DEF SettleStep
  <2>2. QED BY <1>2, <1>3, <1>7, <1>9, <2>1, OwnCalls DEF RoutingInv
<1>11. RegistryInv'
       BY <1>7, OwnRegistry DEF RoutingInv
<1>12. RoutingTyped'
  <2>1. LedgerTyped'
        BY <1>3, <1>4 DEF SettleStep, RoutingInv, RoutingTyped, LedgerTyped
  <2>2. answers'[id] \in AnswerRows
        BY <1>2, <1>3 DEF RoutingInv, RoutingTyped, RoutesTyped
  <2>3. profiles' \in [AllProviders \X Roles -> ProfileRows]
        BY <1>3 DEF RoutingInv, RoutingTyped, RoutesTyped
  <2>4. QED BY <1>7, <2>1, <2>2, <2>3, OwnTyped DEF RoutingInv
<1>13. ToCredit' = ToCredit
       BY <1>1, <1>3, <1>8 DEF ToCredit
<1>14. \A p \in AllProviders, role \in Roles : AnswersOf(p, role)' = AnswersOf(p, role)
       BY <1>3 DEF AnswersOf
<1>15. AnswersEntered'
       BY <1>3, <1>13, <1>14, CountKept, NothingGrows DEF RoutingInv, CallsInv
<1>16. CostsCharged'
  <2> SUFFICES ASSUME NEW p \in AllProviders, NEW role \in Roles, profiles'[<<p, role>>].known
               PROVE  \E costs : Charges(p, role, costs)'
      BY DEF CostsCharged
  <2>1. PICK costs : Charges(p, role, costs)
        BY <1>3 DEF RoutingInv, CostsCharged
  <2>2. id \in AnswersOf(p, role) => id \in DOMAIN costs /\ costs[id] = row.cost
    <3>1. ASSUME id \in AnswersOf(p, role) PROVE id \in DOMAIN costs /\ costs[id] = row.cost
      <4>1. id \in DOMAIN costs /\ costs[id] = r.response.cost /\ costs[id] \in Nat
            BY <2>1, <3>1 DEF Charges, At, SettleStep
      <4>2. Known(r.response.cost)
            BY <4>1, ModelRoutingAssumption DEF Known
      <4>3. QED BY <4>1, <4>2 DEF SettleStep
    <3>2. QED BY <3>1
  <2>3. \A i \in DOMAIN usage' \cap AnswersOf(p, role)' : i \in DOMAIN costs /\ costs[i] = usage'[i].cost
        BY <1>4, <1>14, <2>1, <2>2 DEF Charges
  <2>4. \A o \in Clients : call'[o].pc = "settle" => call'[o] = call[o]
        BY <1>8 DEF SettleStep
  <2>5. Charges(p, role, costs)'
        BY <1>3, <1>13, <1>14, <2>1, <2>3, <2>4 DEF Charges, At
  <2>6. QED BY <2>5
<1>17. WithinAllowance'
  <2>1. \A role \in Roles : Sent(role)' = Sent(role) /\ Due(role)' = Due(role)
    <3>1. \A role \in Roles : ~Capped(x, role) /\ ~Capped(r, role)
          BY DEF Capped, SettleStep
    <3>2. QED BY <1>1, <1>3, <1>8, <3>1 DEF Sent, Due
  <2>2. \A role \in Roles : Paying(role)' = Paying(role) /\ Spent(role)' = Spent(role)
        BY <1>3 DEF Paying, Asked, Spent
  <2>3. \A role \in Roles : OnlyCapped(role)' <=> OnlyCapped(role)
        BY <1>3 DEF OnlyCapped, Asked
  <2>4. Allowance' = Allowance
        BY DEF Allowance
  <2>5. QED BY <1>3, <2>1, <2>2, <2>3, <2>4 DEF RoutingInv, WithinAllowance
<1>18. QED BY <1>10, <1>11, <1>12, <1>15, <1>16, <1>17 DEF RoutingInv

LEMMA SettleKeeps ==
    ASSUME RoutingInv, NEW c \in Clients, Settle(c)
    PROVE  RoutingInv'
<1>1. CASE Leave(c, FALSE) /\ UNCHANGED ledger
      BY <1>1, QuitKeeps DEF Settle
<1>2. CASE ~(Leave(c, FALSE) /\ UNCHANGED ledger)
  <2>1. PICK x, row : SettleStep(c, x, row)
        BY <1>2, SettlesStep
  <2>2. QED BY <2>1, SettleStepKeeps
<1>3. QED BY <1>1, <1>2

LEMMA ObserveKeeps ==
    ASSUME RoutingInv, NEW c \in Clients, Observe(c)
    PROVE  RoutingInv'
<1> DEFINE r == call[c]
           id == call[c].id
<1>1. CASE UNCHANGED ledger
      BY <1>1, ObserveNothingKeeps
<1>2. CASE RecordObservation(id, r.row)
  <2>1. UNCHANGED <<registry, routes, profiles, bound, answers, deaths, usage, now, split>> /\ r.pc = "observe"
        BY <1>2 DEF Observe, routing, At, RecordObservation
  <2>2. PICK x : Goes(c, x) /\ x.pc \in {"idle", "get"}
        BY <2>1, AfterCallGoes DEF Observe
  <2>3. /\ DOMAIN observations' = DOMAIN observations \cup {id}
        /\ observations'[id] = [task |-> r.row.task, scope |-> r.row.scope, at |-> now]
        /\ \A i \in DOMAIN observations : i # id => observations'[i] = observations[i]
        BY <1>2 DEF RecordObservation, Inserted
  <2>4. Billed(r) /\ ~Live(x) /\ ~ByRoute(x)
        BY <2>1, <2>2 DEF Live, Asking, Billed, Crediting, ByRoute
  <2>5. id \in DOMAIN answers
        BY <2>4 DEF RoutingInv, CallsInv, Entered, EnteredFor
  <2>6. /\ x \in Requested /\ call' = [call EXCEPT ![c] = x] /\ x.pc # "set"
        /\ call'[c] = x
        BY <2>2 DEF Goes, RoutingInv, RoutingTyped, CallsTyped
  <2>7. served' = served
    <3>1. AfterCall(c)
          BY DEF Observe
    <3>2. r \in CallRows
          BY <2>1, InCall DEF RoutingInv, Places
    <3>3. QED BY <3>1, <3>2 DEF AfterCall, Finish, Become, CallRows, Kinds
  <2>8. DOMAIN usage' \cup DOMAIN observations' \subseteq DOMAIN answers'
        BY <2>1, <2>3, <2>5 DEF RoutingInv, CallsInv, IdsDistinct
  <2>9. Own(c, x)
        BY <2>1, <2>3, <2>4, <2>6, <2>7, <2>8 DEF Own, Live
  <2>10. EnteredFor(c)'
        BY <2>4, <2>6 DEF EnteredFor, Live, Asking, Billed, Crediting
  <2>11. id \in (DOMAIN usage' \cap DOMAIN observations') \ split =>
            /\ observations'[id].scope = usage'[id].scope
            /\ observations'[id].task = usage'[id].task
    <3>1. id \in DOMAIN usage \ split => usage[id].task = r.row.task /\ usage[id].scope = r.row.scope
          BY <2>1 DEF RoutingInv, CallsInv, Entered, EnteredFor
    <3>2. QED BY <2>1, <2>3, <3>1
  <2>12. CallsInv'
    <3>1. id \in DOMAIN usage' => usage'[id].provider = answers'[id].provider
          BY <2>1 DEF RoutingInv, CallsInv, Attributed
    <3>2. QED BY <2>9, <2>10, <2>11, <3>1, OwnCalls DEF RoutingInv
  <2>13. RegistryInv'
         BY <2>9, OwnRegistry DEF RoutingInv
  <2>14. ProfilesGrow /\ UsageShrinks
         BY <2>1, NothingGrows DEF RoutingInv, UsageShrinks
  <2>15. AnswersEntered' /\ CostsCharged' /\ WithinAllowance'
         BY <2>1, <2>2, <2>14, CountedStays, ChargedStays, AllowanceStays DEF RoutingInv, CallsInv
  <2>16. RoutingTyped'
    <3>1. r.row \in UsageRows /\ now \in Nat
          BY <2>1, InCall DEF RoutingInv, Places, Shape, RoutingTyped, LedgerTyped
    <3>2. observations'[id] \in ObservationRows
          BY <2>3, <3>1 DEF UsageRows, ObservationRows
    <3>3. LedgerTyped'
          BY <2>1, <2>3, <3>2 DEF RoutingInv, RoutingTyped, LedgerTyped
    <3>4. profiles' \in [AllProviders \X Roles -> ProfileRows] /\ answers'[id] \in AnswerRows
          BY <2>1, <2>5 DEF RoutingInv, RoutingTyped, RoutesTyped
    <3>5. QED BY <2>9, <3>3, <3>4, OwnTyped DEF RoutingInv
  <2>17. QED BY <2>12, <2>13, <2>15, <2>16 DEF RoutingInv
<1>3. QED BY <1>1, <1>2 DEF Observe

(***************************************************************************)
(* Scope, retention, the clock, and the death of the server                *)
(***************************************************************************)
LEMMA FadingKeeps ==
    ASSUME RoutingInv, NEW c \in Clients, NEW x, Goes(c, x), Fades, LedgerTyped',
           UNCHANGED <<registry, routing, answers, deaths>>,
           x = call[c] \/ (call[c].pc # "drop" /\ x.pc # "set")
    PROVE  RoutingInv'
<1>1. UNCHANGED <<routes, profiles, bound>>
      BY DEF routing
<1>2. CallsInv' /\ AnswersEntered' /\ CostsCharged' /\ WithinAllowance'
      BY <1>1, NothingGrows, AccountsStay DEF RoutingInv
<1>3. RoutingTyped'
  <2>1. CallsTyped'
        BY DEF Goes, RoutingInv, RoutingTyped, CallsTyped
  <2>2. RegistryTyped'
        BY DEF RoutingInv, RoutingTyped, RegistryTyped, registry, Stored
  <2>3. RoutesTyped'
        BY <1>1 DEF RoutingInv, RoutingTyped, RoutesTyped
  <2>4. QED BY <2>1, <2>2, <2>3 DEF RoutingTyped
<1>4. RegistryInv'
  <2>1. \A o \in Clients : call'[o] = IF o = c THEN x ELSE call[o]
        BY DEF Goes, RoutingInv, RoutingTyped, CallsTyped
  <2>2. DefaultIsOne'
        BY DEF RoutingInv, RegistryInv, DefaultIsOne, registry, Stored
  <2>3. KeysHaveProvider'
        BY <2>1 DEF RoutingInv, RegistryInv, KeysHaveProvider, registry, Stored, At
  <2>4. SavedInTime'
        BY <2>1 DEF RoutingInv, RegistryInv, SavedInTime, registry, Stored, At
  <2>5. QED BY <2>2, <2>3, <2>4 DEF RegistryInv
<1>5. QED BY <1>2, <1>3, <1>4 DEF RoutingInv

\* Relabelling a task keeps what is in the tables, but for the scope.
LEMMA RelabelledRows ==
    ASSUME NEW table, NEW mine
    PROVE  /\ DOMAIN Relabelled(table, mine) = DOMAIN table
           /\ \A id \in DOMAIN table :
                 IF table[id].task = mine
                 THEN Relabelled(table, mine)[id] = [table[id] EXCEPT !.scope = "diagnostic"]
                 ELSE Relabelled(table, mine)[id] = table[id]
BY DEF Relabelled

LEMMA SetScopeKeeps ==
    ASSUME RoutingInv, NEW mine, SetScope(mine), UNCHANGED <<registry, routing, answers, deaths>>
    PROVE  RoutingInv'
<1>1. PICK c \in Clients : TRUE
      BY ModelRoutingAssumption
<1>2. UNCHANGED <<call, served, bound, now>> /\ split' = split \cup Observing(mine)
      BY DEF SetScope, requests, routing
<1>3. Goes(c, call[c])
      BY <1>2, NobodyGoes DEF RoutingInv, CallsInv
<1>4. /\ DOMAIN usage' = DOMAIN usage /\ DOMAIN observations' = DOMAIN observations
      /\ \A id \in DOMAIN usage :
            usage'[id] = IF usage[id].task = mine THEN [usage[id] EXCEPT !.scope = "diagnostic"] ELSE usage[id]
      /\ \A id \in DOMAIN observations :
            observations'[id] = IF observations[id].task = mine
                                THEN [observations[id] EXCEPT !.scope = "diagnostic"] ELSE observations[id]
      BY RelabelledRows DEF SetScope
<1>5. ASSUME NEW id \in DOMAIN usage
      PROVE  /\ usage'[id] \in UsageRows /\ usage'[id].cost = usage[id].cost
             /\ usage'[id].provider = usage[id].provider /\ usage'[id].task = usage[id].task
             /\ usage'[id].scope = IF usage[id].task = mine THEN "diagnostic" ELSE usage[id].scope
      BY <1>4 DEF RoutingInv, RoutingTyped, LedgerTyped, UsageRows
<1>6. ASSUME NEW id \in DOMAIN observations
      PROVE  /\ observations'[id] \in ObservationRows /\ observations'[id].task = observations[id].task
             /\ observations'[id].scope =
                   IF observations[id].task = mine THEN "diagnostic" ELSE observations[id].scope
      BY <1>4 DEF RoutingInv, RoutingTyped, LedgerTyped, ObservationRows
<1>7. LedgerTyped'
      BY <1>2, <1>4, <1>5, <1>6 DEF RoutingInv, RoutingTyped, LedgerTyped
<1>8. Paired'
  <2>1. ASSUME NEW id \in DOMAIN usage, id \in DOMAIN observations, id \notin split
        PROVE  observations'[id].scope = usage'[id].scope /\ observations'[id].task = usage'[id].task
    <3>1. observations[id].scope = usage[id].scope /\ observations[id].task = usage[id].task
          BY <2>1 DEF RoutingInv, CallsInv, Paired
    <3>2. QED BY <1>5, <1>6, <2>1, <3>1
  <2>2. QED BY <1>2, <1>4, <2>1 DEF Paired
<1>9. ASSUME NEW d \in Clients, At(d, "observe"), call[d].id \in DOMAIN usage' \ split'
      PROVE  usage'[call[d].id].task = call[d].row.task /\ usage'[call[d].id].scope = call[d].row.scope
  <2> DEFINE id == call[d].id
  <2>1. id \in DOMAIN usage \ split /\ call[d].row.task # mine
        BY <1>2, <1>4, <1>9 DEF Observing
  <2>2. usage[id].task = call[d].row.task /\ usage[id].scope = call[d].row.scope
        BY <1>9, <2>1 DEF RoutingInv, CallsInv, Entered, EnteredFor, At
  <2>3. QED BY <1>5, <2>1, <2>2
<1>10. Fades
       BY <1>4, <1>5, <1>8, <1>9 DEF Fades
<1>11. QED BY <1>3, <1>7, <1>10, FadingKeeps

LEMMA PruneKeeps ==
    ASSUME RoutingInv, NEW c \in Clients, Prune(c), UNCHANGED <<registry, routing, answers, deaths>>
    PROVE  RoutingInv'
<1>1. call[c].pc = "prune" /\ Become(c, Idle) /\ UNCHANGED <<now, split, bound>>
      BY DEF Prune, At, Finish, routing
<1>2. Goes(c, Idle)
      BY <1>1, GoesAway DEF RoutingInv, Crediting
<1>3. /\ \A id \in DOMAIN usage' : id \in DOMAIN usage /\ usage'[id] = usage[id]
      /\ \A id \in DOMAIN observations' : id \in DOMAIN observations /\ observations'[id] = observations[id]
      BY DEF Prune, Kept
<1>4. LedgerTyped'
      BY <1>1, <1>3 DEF RoutingInv, RoutingTyped, LedgerTyped
<1>5. Fades
  <2>1. Paired'
        BY <1>1, <1>3 DEF Paired, RoutingInv, CallsInv
  <2>2. ASSUME NEW d \in Clients, At(d, "observe"), call[d].id \in DOMAIN usage' \ split'
        PROVE  usage'[call[d].id].task = call[d].row.task /\ usage'[call[d].id].scope = call[d].row.scope
        BY <1>1, <1>3, <2>2 DEF RoutingInv, CallsInv, Entered, EnteredFor, At
  <2>3. QED BY <1>3, <2>1, <2>2 DEF Fades
<1>6. QED BY <1>1, <1>2, <1>4, <1>5, FadingKeeps DEF Idle

LEMMA SetRetentionKeeps ==
    ASSUME RoutingInv, NEW c \in Clients, NEW forever \in BOOLEAN, SetRetention(c, forever),
           UNCHANGED <<registry, routing, answers, deaths>>
    PROVE  RoutingInv'
<1> DEFINE x == [pc |-> "prune"]
<1>1. Begin(c, x) /\ UNCHANGED <<usage, observations, now, split, pruned, bound>>
      BY DEF SetRetention, routing
<1>2. x \in Prunes
      BY DEF Prunes
<1>3. Goes(c, x) /\ call[c] = Idle
      BY <1>1, <1>2, GoesAnew DEF RoutingInv
<1>4. LedgerTyped'
      BY <1>1 DEF RoutingInv, RoutingTyped, LedgerTyped
<1>5. Fades
      BY <1>1 DEF Fades, RoutingInv, CallsInv, Entered, EnteredFor, Paired, At
<1>6. QED BY <1>3, <1>4, <1>5, FadingKeeps DEF Idle

LEMMA TickKeeps ==
    ASSUME RoutingInv, Tick, UNCHANGED <<registry, routing, answers, deaths>>
    PROVE  RoutingInv'
<1>1. PICK c \in Clients : TRUE
      BY ModelRoutingAssumption
<1>2. UNCHANGED <<call, served, bound, usage, observations, split>> /\ now' = now + 1
      BY DEF Tick, requests, routing
<1>3. Goes(c, call[c])
      BY <1>2, NobodyGoes DEF RoutingInv, CallsInv
<1>4. LedgerTyped'
      BY <1>2 DEF RoutingInv, RoutingTyped, LedgerTyped
<1>5. Fades
      BY <1>2 DEF Fades, RoutingInv, CallsInv, Entered, EnteredFor, Paired, At
<1>6. QED BY <1>3, <1>4, <1>5, FadingKeeps

LEMMA LedgerRequestKeeps ==
    ASSUME RoutingInv, LedgerRequest
    PROVE  RoutingInv'
BY SetScopeKeeps, PruneKeeps, SetRetentionKeeps, TickKeeps DEF LedgerRequest

LEMMA DieKeeps ==
    ASSUME RoutingInv, Die
    PROVE  RoutingInv'
<1>1. /\ deaths' = deaths + 1 /\ UNCHANGED <<served, usage, observations, now, split, routes, profiles, answers>>
      /\ RegistryAfterDeath
      BY DEF Die, ledger
<1>2. \A c \in Clients : call'[c] = Idle /\ bound'[c] = Unbound
      BY DEF Die
<1>3. ~Live(Idle) /\ ~ByRoute(Idle) /\ ~Asking(Idle) /\ ~Billed(Idle) /\ ~Crediting(Idle)
      BY DEF Idle, Live, Asking, Billed, Crediting, ByRoute
<1>4. RoutingTyped'
  <2>1. call' \in [Clients -> Requested]
        BY DEF Die, Requested
  <2>2. bound' \in [Clients -> [routed : BOOLEAN, with : SUBSET AllProviders]]
        BY DEF Die, Unbound
  <2>3. keys' \in [Providers -> SUBSET {"session", "secure"}]
        BY <1>1 DEF RegistryAfterDeath, RoutingInv, RoutingTyped, RegistryTyped
  <2>4. CallsTyped' /\ RegistryTyped'
        BY <1>1, <2>1, <2>3 DEF RegistryAfterDeath, RoutingInv, RoutingTyped, CallsTyped, RegistryTyped, Stored
  <2>5. LedgerTyped' /\ RoutesTyped'
        BY <1>1, <2>2 DEF RoutingInv, RoutingTyped, LedgerTyped, RoutesTyped
  <2>6. QED BY <2>4, <2>5 DEF RoutingTyped
<1>5. RegistryInv'
  <2>1. rows' = rows
        BY <1>1 DEF RegistryAfterDeath
  <2>2. DefaultIsOne'
        BY <2>1 DEF RoutingInv, RegistryInv, DefaultIsOne, Stored
  <2>3. SavedInTime'
        BY <1>2 DEF SavedInTime, At, Idle
  <2>4. ASSUME NEW p \in Providers \ Stored
        PROVE  keys'[p] = {} \/ p \in raced'
    <3>1. \/ keys[p] = {}
          \/ p \in raced
          \/ \E c \in Clients : At(c, "drop") /\ call[c].p = p
          BY DEF RoutingInv, RegistryInv, KeysHaveProvider
    <3>2. keys[p] = {} => keys'[p] = {}
          BY <1>1 DEF RegistryAfterDeath
    <3>3. QED BY <1>1, <3>1, <3>2 DEF RegistryAfterDeath
  <2>5. KeysHaveProvider'
        BY <2>1, <2>4 DEF KeysHaveProvider, Stored
  <2>6. QED BY <2>2, <2>3, <2>5 DEF RegistryInv
<1>6. CallsInv'
  <2>1. IdsDistinct'
        BY <1>1, <1>2, <1>3 DEF RoutingInv, CallsInv, IdsDistinct, Live, Asking, Billed, Crediting
  <2>2. RoutedRuns'
        BY <1>2, <1>3 DEF RoutedRuns, ByRoute, Crediting
  <2>3. Entered'
        BY <1>2, <1>3 DEF Entered, EnteredFor, Asking, Billed, Crediting, Idle
  <2>4. Attributed' /\ Paired'
        BY <1>1 DEF RoutingInv, CallsInv, Attributed, Paired
  <2>5. QED BY <2>1, <2>2, <2>3, <2>4 DEF CallsInv
<1>7. AnswersEntered' /\ WithinAllowance'
  <2>1. deaths' # 0
        BY <1>1 DEF RoutingInv, RoutingTyped, RoutesTyped
  <2>2. QED BY <2>1 DEF AnswersEntered, WithinAllowance, OnlyCapped
<1>8. CostsCharged'
  <2> SUFFICES ASSUME NEW p \in AllProviders, NEW role \in Roles, profiles'[<<p, role>>].known
               PROVE  \E costs : Charges(p, role, costs)'
      BY DEF CostsCharged
  <2>1. PICK costs : Charges(p, role, costs)
        BY <1>1 DEF RoutingInv, CostsCharged
  <2>2. ToCredit' = {} /\ AnswersOf(p, role)' = AnswersOf(p, role)
        BY <1>1, <1>2, <1>3 DEF ToCredit, AnswersOf, Crediting
  <2>3. Charges(p, role, costs)'
        BY <1>1, <1>2, <2>1, <2>2 DEF Charges, At, Idle
  <2>4. QED BY <2>3
<1>9. QED BY <1>4, <1>5, <1>6, <1>7, <1>8 DEF RoutingInv

(***************************************************************************)
(* The requests of the registry                                            *)
(***************************************************************************)
LEMMA RegistryKeeps ==
    ASSUME RoutingInv, NEW c \in Clients, NEW x, Goes(c, x), RegistryTyped', RegistryInv',
           UNCHANGED <<ledger, routing, answers, deaths>>
    PROVE  RoutingInv'
<1>1. UNCHANGED <<routes, profiles, bound>>
      BY DEF routing
<1>2. CallsInv' /\ AnswersEntered' /\ CostsCharged' /\ WithinAllowance'
      BY <1>1, NothingGrows, LedgerFades, AccountsStay DEF RoutingInv
<1>3. CallsTyped'
      BY DEF Goes, RoutingInv, RoutingTyped, CallsTyped
<1>4. LedgerTyped'
      BY DEF RoutingInv, RoutingTyped, LedgerTyped, ledger
<1>5. RoutesTyped'
      BY <1>1 DEF RoutingInv, RoutingTyped, RoutesTyped
<1>6. QED BY <1>2, <1>3, <1>4, <1>5 DEF RoutingInv, RoutingTyped

\* A request that leaves the tables of the registry alone.
LEMMA NothingStored ==
    ASSUME RoutingInv, NEW c \in Clients, NEW x, Goes(c, x), UNCHANGED <<registry, ledger, routing, answers, deaths>>,
           x = call[c] \/ (call[c].pc # "drop" /\ (x.pc = "set" => x.p \in Stored))
    PROVE  RoutingInv'
<1>1. \A o \in Clients : call'[o] = IF o = c THEN x ELSE call[o]
      BY DEF Goes, RoutingInv, RoutingTyped, CallsTyped
<1>2. RegistryTyped'
      BY DEF RoutingInv, RoutingTyped, RegistryTyped, registry, Stored
<1>3. DefaultIsOne'
      BY DEF RoutingInv, RegistryInv, DefaultIsOne, registry, Stored
<1>4. KeysHaveProvider'
      BY <1>1 DEF RoutingInv, RegistryInv, KeysHaveProvider, registry, Stored, At
<1>5. SavedInTime'
      BY <1>1 DEF RoutingInv, RegistryInv, SavedInTime, registry, Stored, At
<1>6. QED BY <1>2, <1>3, <1>4, <1>5, RegistryKeeps DEF RegistryInv

\* The writing of a default takes the mark from all others.
LEMMA DemotedRows ==
    ASSUME RegistryTyped, DefaultIsOne, NEW p, NEW default \in BOOLEAN
    PROVE  /\ DOMAIN Demoted(p, default) = Stored
           /\ \A q \in Stored :
                 /\ Demoted(p, default)[q] \in Row
                 /\ Demoted(p, default)[q].default => rows[q].default /\ (q = p \/ ~default)
<1>1. ASSUME NEW q \in Stored
      PROVE  /\ [rows[q] EXCEPT !.default = @ /\ (q = p \/ ~default)] \in Row
             /\ [rows[q] EXCEPT !.default = @ /\ (q = p \/ ~default)].default =>
                    rows[q].default /\ (q = p \/ ~default)
  <2> DEFINE b == rows[q].default /\ (q = p \/ ~default)
  <2>1. rows[q] \in Row
        BY DEF RegistryTyped
  <2>2. b \in BOOLEAN
        OBVIOUS
  <2>3. [rows[q] EXCEPT !.default = b] \in Row /\ [rows[q] EXCEPT !.default = b].default = b
    <3> HIDE DEF b
    <3>1. QED BY <2>1, <2>2 DEF Row
  <2>4. QED BY <2>3
<1>2. QED BY <1>1 DEF Demoted

LEMMA CreateKeeps ==
    ASSUME RoutingInv, NEW p \in Providers, NEW default \in BOOLEAN, Create(p, default),
           UNCHANGED <<ledger, routing, answers, deaths>>
    PROVE  RoutingInv'
<1>1. PICK c \in Clients : TRUE
      BY ModelRoutingAssumption
<1>2. UNCHANGED <<call, keys, raced, bound>> /\ served' = served + 1
      BY DEF Create, Serve, routing
<1>3. Goes(c, call[c])
      BY <1>2, NobodyGoes DEF RoutingInv, CallsInv
<1> DEFINE new == [default |-> default, found |-> FALSE]
           old == Demoted(p, default)
<1>4. /\ DOMAIN old = Stored
      /\ \A q \in Stored : old[q] \in Row /\ (old[q].default => rows[q].default /\ (q = p \/ ~default))
      BY DemotedRows DEF RoutingInv, RoutingTyped, RegistryInv
<1>5. new \in Row /\ new.default = default
      BY DEF Row
<1>6. rows' = Inserted(old, p, new)
      BY DEF Create
<1> HIDE DEF old, new
<1>7. /\ Stored' = Stored \cup {p} /\ rows'[p] = new
      /\ \A q \in Stored \ {p} : rows'[q] = old[q]
      BY <1>4, <1>6 DEF Inserted, Stored
<1>8. RegistryTyped'
      BY <1>2, <1>4, <1>5, <1>7 DEF RoutingInv, RoutingTyped, RegistryTyped
<1>9. DefaultIsOne'
      BY <1>4, <1>5, <1>7 DEF RoutingInv, RegistryInv, DefaultIsOne
<1>10. KeysHaveProvider'
       BY <1>2, <1>7 DEF RoutingInv, RegistryInv, KeysHaveProvider, At
<1>11. SavedInTime'
       BY <1>2, <1>7 DEF RoutingInv, RegistryInv, SavedInTime, At
<1>12. QED BY <1>3, <1>8, <1>9, <1>10, <1>11, RegistryKeeps DEF RegistryInv

LEMMA PutProviderKeeps ==
    ASSUME RoutingInv, NEW c \in Clients, NEW p \in Providers, NEW default \in BOOLEAN,
           PutProvider(c, p, default), UNCHANGED <<ledger, routing, answers, deaths>>
    PROVE  RoutingInv'
<1> DEFINE x == Update(p, IF default THEN "default" ELSE "plain", Idle)
<1>1. x \in RegistryCalls /\ x.pc = "get"
      BY DEF Update, RegistryCalls, Updates, Settings, Afterwards
<1>2. Begin(c, x) /\ UNCHANGED registry /\ bound' = bound
      BY DEF PutProvider, routing
<1> HIDE DEF x
<1>3. Goes(c, x) /\ call[c] = Idle
      BY <1>1, <1>2, GoesAnew DEF RoutingInv
<1>4. QED BY <1>1, <1>2, <1>3, NothingStored DEF Idle

LEMMA DiscoverModelsKeeps ==
    ASSUME RoutingInv, NEW c \in Clients, NEW p \in Providers, DiscoverModels(c, p),
           UNCHANGED <<ledger, routing, answers, deaths>>
    PROVE  RoutingInv'
<1>1. PICK after \in {Idle, Update(p, "status", Idle)} : Discover(c, p, after)
      BY DEF DiscoverModels
<1>2. Update(p, "status", Idle) \in Checks
      BY DEF Update, Checks, Settings, Afterwards
<1>3. PICK x : Begin(c, x) /\ x \in {[pc |-> "fetch", p |-> p, after |-> after], after} /\ x # Idle
  <2>1. [pc |-> "fetch", p |-> p, after |-> after] # Idle
        BY DEF Idle
  <2>2. QED BY <1>1, <2>1 DEF Discover
<1>4. x \in RegistryCalls /\ x.pc # "set"
  <2>1. CASE x = [pc |-> "fetch", p |-> p, after |-> after]
        BY <1>2, <2>1 DEF RegistryCalls, Fetches
  <2>2. CASE x = Update(p, "status", Idle)
        BY <2>2 DEF Update, RegistryCalls, Updates, Settings, Afterwards
  <2>3. QED BY <1>3, <2>1, <2>2
<1>5. UNCHANGED registry /\ bound' = bound
      BY <1>1 DEF Discover, routing
<1>6. Goes(c, x) /\ call[c] = Idle
      BY <1>3, <1>4, <1>5, GoesAnew DEF RoutingInv
<1>7. QED BY <1>4, <1>5, <1>6, NothingStored DEF Idle

LEMMA SaveCredentialKeeps ==
    ASSUME RoutingInv, NEW c \in Clients, NEW p \in Providers, NEW mode \in {"session", "secure"},
           SaveCredential(c, p, mode), UNCHANGED <<ledger, routing, answers, deaths>>
    PROVE  RoutingInv'
<1> DEFINE x == [pc |-> "set", p |-> p, mode |-> mode]
<1>1. x \in RegistryCalls /\ x.p = p
      BY DEF RegistryCalls, Savings
<1>2. Begin(c, x) /\ UNCHANGED registry /\ bound' = bound /\ p \in Stored
      BY DEF SaveCredential, routing
<1> HIDE DEF x
<1>3. Goes(c, x) /\ call[c] = Idle
      BY <1>1, <1>2, GoesAnew DEF RoutingInv
<1>4. QED BY <1>1, <1>2, <1>3, NothingStored DEF Idle

LEMMA DeleteCredentialKeeps ==
    ASSUME RoutingInv, NEW c \in Clients, NEW p \in Providers, DeleteCredential(c, p),
           UNCHANGED <<ledger, routing, answers, deaths>>
    PROVE  RoutingInv'
<1> DEFINE x == [pc |-> "drop", p |-> p]
<1>1. x \in RegistryCalls /\ x.pc = "drop"
      BY DEF RegistryCalls, Drops
<1>2. Begin(c, x) /\ UNCHANGED registry /\ bound' = bound
      BY DEF DeleteCredential, routing
<1> HIDE DEF x
<1>3. Goes(c, x) /\ call[c] = Idle
      BY <1>1, <1>2, GoesAnew DEF RoutingInv
<1>4. QED BY <1>1, <1>2, <1>3, NothingStored DEF Idle

LEMMA DeleteProviderKeeps ==
    ASSUME RoutingInv, NEW c \in Clients, NEW p \in Providers, DeleteProvider(c, p),
           UNCHANGED <<ledger, routing, answers, deaths>>
    PROVE  RoutingInv'
<1> DEFINE x == [pc |-> "drop", p |-> p]
<1>1. x \in RegistryCalls /\ x.pc = "drop" /\ x.p = p
      BY DEF RegistryCalls, Drops
<1>2. Begin(c, x) /\ UNCHANGED <<keys, bound>>
      BY DEF DeleteProvider, routing
<1> HIDE DEF x
<1>3. Goes(c, x) /\ call[c] = Idle
      BY <1>1, <1>2, GoesAnew DEF RoutingInv
<1>4. \A o \in Clients : call'[o] = IF o = c THEN x ELSE call[o]
      BY <1>3 DEF Goes, RoutingInv, RoutingTyped, CallsTyped
<1>5. Stored' = Stored \ {p} /\ \A q \in Stored' : rows'[q] = rows[q]
      BY DEF DeleteProvider, Stored
<1>6. raced \subseteq raced' /\ (Saving(p) => p \in raced')
      BY DEF DeleteProvider
<1>7. RegistryTyped'
      BY <1>2, <1>5 DEF RoutingInv, RoutingTyped, RegistryTyped
<1>8. DefaultIsOne'
      BY <1>5 DEF RoutingInv, RegistryInv, DefaultIsOne
<1>9. KeysHaveProvider'
  <2> SUFFICES ASSUME NEW q \in Providers, q \notin Stored'
               PROVE  \/ keys'[q] = {}
                      \/ q \in raced'
                      \/ \E o \in Clients : call'[o].pc = "drop" /\ call'[o].p = q
      BY DEF KeysHaveProvider, At
  <2>1. CASE q = p
        BY <1>1, <1>4, <2>1
  <2>2. CASE q # p
    <3>1. \/ keys[q] = {}
          \/ q \in raced
          \/ \E o \in Clients : call[o].pc = "drop" /\ call[o].p = q
          BY <1>5, <2>2 DEF RoutingInv, RegistryInv, KeysHaveProvider, At
    <3>2. ASSUME NEW o \in Clients, call[o].pc = "drop", call[o].p = q
          PROVE  call'[o].pc = "drop" /\ call'[o].p = q
          BY <1>3, <1>4, <3>2 DEF Idle
    <3>3. QED BY <1>2, <1>6, <3>1, <3>2
  <2>3. QED BY <2>1, <2>2
<1>10. SavedInTime'
  <2> SUFFICES ASSUME NEW o \in Clients, call'[o].pc = "set"
               PROVE  call'[o].p \in Stored' \cup raced'
      BY DEF SavedInTime, At
  <2>1. o # c /\ call'[o] = call[o]
        BY <1>1, <1>4
  <2>2. call[o].p \in Stored \cup raced
        BY <2>1 DEF RoutingInv, RegistryInv, SavedInTime, At
  <2>3. call[o].p = p => Saving(p)
        BY <2>1 DEF Saving, At
  <2>4. QED BY <1>5, <1>6, <2>1, <2>2, <2>3
<1>11. QED BY <1>3, <1>7, <1>8, <1>9, <1>10, RegistryKeeps DEF RegistryInv

\* An update goes on with what comes after it.
LEMMA GoesAfter ==
    ASSUME RoutingTyped, NEW c \in Clients, NEW x \in Afterwards \cup Checks, Become(c, x), bound' = bound,
           ~Crediting(call[c])
    PROVE  Goes(c, x)
<1>1. x \in Requested /\ ~Live(x) /\ ~ByRoute(x) /\ x.pc # "send"
      BY AfterwardsTyped
<1>2. served' = served /\ call' = [call EXCEPT ![c] = x]
      BY DEF Become, requests
<1>3. bound' \in [Clients -> [routed : BOOLEAN, with : SUBSET AllProviders]]
      BY DEF RoutingTyped, RoutesTyped
<1>4. QED BY <1>1, <1>2, <1>3 DEF Goes, Capped

LEMMA GetKeeps ==
    ASSUME RoutingInv, NEW c \in Clients, Get(c), UNCHANGED <<ledger, routing, answers, deaths>>
    PROVE  RoutingInv'
<1> DEFINE r == call[c]
           x == [pc |-> "write", p |-> r.p, after |-> r.after, row |-> Changed(rows[r.p], r.set)]
<1>1. r.pc = "get" /\ UNCHANGED registry /\ bound' = bound /\ ~Crediting(r)
      BY DEF Get, At, routing, Crediting
<1>2. r \in Updates
      BY <1>1, InHand DEF RoutingInv, RoutingTyped, CallsTyped
<1>3. CASE r.p \in Stored /\ Become(c, x)
  <2>1. rows[r.p] \in Row /\ r.set \in Settings
        BY <1>2, <1>3 DEF RoutingInv, RoutingTyped, RegistryTyped, Updates
  <2>2. Changed(rows[r.p], r.set) \in Row
        BY <2>1 DEF Changed, Settings, Row
  <2>3. x \in RegistryCalls /\ x.pc = "write"
        BY <1>2, <2>2 DEF Updates, RegistryCalls, RowWrites
  <2> HIDE DEF x
  <2>4. Goes(c, x)
        BY <1>1, <1>3, <2>3, GoesAway DEF RoutingInv
  <2>5. QED BY <1>1, <2>3, <2>4, NothingStored
<1>4. CASE Finish(c)
  <2>1. Goes(c, Idle)
        BY <1>1, <1>4, GoesAway DEF RoutingInv, Finish
  <2>2. QED BY <1>1, <2>1, NothingStored DEF Idle
<1>5. QED BY <1>3, <1>4 DEF Get

LEMMA WriteKeeps ==
    ASSUME RoutingInv, NEW c \in Clients, Write(c), UNCHANGED <<ledger, routing, answers, deaths>>
    PROVE  RoutingInv'
<1> DEFINE r == call[c]
           p == call[c].p
           old == Demoted(p, r.row.default)
<1>1. r.pc = "write" /\ UNCHANGED <<keys, created, raced, bound>> /\ ~Crediting(r) /\ Become(c, r.after)
      BY DEF Write, At, routing, Crediting, Continue
<1>2. r \in RowWrites
      BY <1>1, InHand DEF RoutingInv, RoutingTyped, CallsTyped
<1>3. r.row \in Row /\ r.row.default \in BOOLEAN /\ r.after \in Afterwards \cup Checks
      BY <1>2 DEF RowWrites, Row
<1>4. Goes(c, r.after) /\ r.after.pc \notin {"set", "drop"}
      BY <1>1, <1>3, GoesAfter, AfterwardsTyped DEF RoutingInv
<1>5. \A o \in Clients : call'[o] = IF o = c THEN r.after ELSE call[o]
      BY <1>4 DEF Goes, RoutingInv, RoutingTyped, CallsTyped
<1>6. /\ DOMAIN old = Stored
      /\ \A q \in Stored : old[q] \in Row /\ (old[q].default => rows[q].default /\ (q = p \/ ~r.row.default))
      BY <1>3, DemotedRows DEF RoutingInv, RoutingTyped, RegistryInv
<1>7. rows' = [q \in Stored |-> IF q = p THEN r.row ELSE old[q]]
      BY DEF Write
<1> HIDE DEF old
<1>8. Stored' = Stored /\ \A q \in Stored : rows'[q] = IF q = p THEN r.row ELSE old[q]
      BY <1>7 DEF Stored
<1>9. RegistryTyped'
      BY <1>1, <1>3, <1>6, <1>8 DEF RoutingInv, RoutingTyped, RegistryTyped
<1>10. DefaultIsOne'
  <2>1. ASSUME NEW q \in Stored, NEW s \in Stored, rows'[q].default, rows'[s].default PROVE q = s
    <3>1. CASE q = p /\ s # p
          BY <1>6, <1>8, <2>1, <3>1
    <3>2. CASE q # p /\ s = p
          BY <1>6, <1>8, <2>1, <3>2
    <3>3. CASE q # p /\ s # p
          BY <1>6, <1>8, <2>1, <3>3 DEF RoutingInv, RegistryInv, DefaultIsOne
    <3>4. QED BY <3>1, <3>2, <3>3
  <2>2. QED BY <1>8, <2>1 DEF DefaultIsOne
<1>11. KeysHaveProvider'
       BY <1>1, <1>5, <1>8 DEF RoutingInv, RegistryInv, KeysHaveProvider, At
<1>12. SavedInTime'
       BY <1>1, <1>4, <1>5, <1>8 DEF RoutingInv, RegistryInv, SavedInTime, At
<1>13. QED BY <1>4, <1>9, <1>10, <1>11, <1>12, RegistryKeeps DEF RegistryInv

LEMMA FetchedKeeps ==
    ASSUME RoutingInv, NEW c \in Clients, Fetched(c), UNCHANGED <<ledger, routing, answers, deaths>>
    PROVE  RoutingInv'
<1> DEFINE r == call[c]
<1>1. r.pc = "fetch" /\ UNCHANGED registry /\ bound' = bound /\ ~Crediting(r)
      BY DEF Fetched, At, routing, Crediting
<1>2. r \in Fetches
      BY <1>1, InHand DEF RoutingInv, RoutingTyped, CallsTyped
<1>3. r.after \in {Idle} \cup Checks /\ r.after \in Afterwards \cup Checks
      BY <1>2 DEF Fetches, Afterwards
<1>4. ASSUME NEW set \in {"models", "status"}, Become(c, Update(r.p, set, r.after))
      PROVE  RoutingInv'
  <2> DEFINE x == Update(r.p, set, r.after)
  <2>1. x \in RegistryCalls /\ x.pc = "get"
        BY <1>2, <1>3 DEF Update, Fetches, RegistryCalls, Updates, Settings
  <2>2. Become(c, x)
        BY <1>4
  <2> HIDE DEF x
  <2>3. Goes(c, x)
        BY <1>1, <2>1, <2>2, GoesAway DEF RoutingInv
  <2>4. QED BY <1>1, <2>1, <2>3, NothingStored
<1>5. CASE Continue(c)
  <2>1. Goes(c, r.after) /\ r.after.pc # "set"
        BY <1>1, <1>3, <1>5, GoesAfter, AfterwardsTyped DEF RoutingInv, Continue
  <2>2. QED BY <1>1, <2>1, NothingStored
<1>6. QED BY <1>4, <1>5 DEF Fetched

LEMMA SetSecretKeeps ==
    ASSUME RoutingInv, NEW c \in Clients, SetSecret(c), UNCHANGED <<ledger, routing, answers, deaths>>
    PROVE  RoutingInv'
<1> DEFINE r == call[c]
           p == call[c].p
<1>1. r.pc = "set" /\ UNCHANGED <<rows, created, raced, bound>> /\ ~Crediting(r) /\ Finish(c)
      BY DEF SetSecret, At, routing, Crediting
<1>2. r \in Savings /\ p \in Providers
      BY <1>1, InHand DEF RoutingInv, RoutingTyped, CallsTyped, Savings
<1>3. Goes(c, Idle)
      BY <1>1, GoesAway DEF RoutingInv, Finish
<1>4. \A o \in Clients : call'[o] = IF o = c THEN Idle ELSE call[o]
      BY <1>3 DEF Goes, RoutingInv, RoutingTyped, CallsTyped
<1>5. keys' \in [Providers -> SUBSET {"session", "secure"}] /\ \A q \in Providers : q # p => keys'[q] = keys[q]
      BY <1>2 DEF SetSecret, RoutingInv, RoutingTyped, RegistryTyped
<1>6. p \in Stored \cup raced
      BY <1>1 DEF RoutingInv, RegistryInv, SavedInTime, At
<1>7. Stored' = Stored
      BY <1>1 DEF Stored
<1>8. RegistryTyped'
      BY <1>1, <1>5, <1>7 DEF RoutingInv, RoutingTyped, RegistryTyped
<1>9. DefaultIsOne'
      BY <1>1, <1>7 DEF RoutingInv, RegistryInv, DefaultIsOne
<1>10. KeysHaveProvider'
       BY <1>1, <1>4, <1>5, <1>6, <1>7 DEF RoutingInv, RegistryInv, KeysHaveProvider, At
<1>11. SavedInTime'
       BY <1>1, <1>4, <1>7 DEF RoutingInv, RegistryInv, SavedInTime, At, Idle
<1>12. QED BY <1>3, <1>8, <1>9, <1>10, <1>11, RegistryKeeps DEF RegistryInv

LEMMA DropSecretKeeps ==
    ASSUME RoutingInv, NEW c \in Clients, DropSecret(c), UNCHANGED <<ledger, routing, answers, deaths>>
    PROVE  RoutingInv'
<1> DEFINE r == call[c]
           p == call[c].p
<1>1. r.pc = "drop" /\ UNCHANGED <<rows, created, raced, bound>> /\ ~Crediting(r) /\ Finish(c)
      BY DEF DropSecret, At, routing, Crediting
<1>2. r \in Drops /\ p \in Providers
      BY <1>1, InHand DEF RoutingInv, RoutingTyped, CallsTyped, Drops
<1>3. Goes(c, Idle)
      BY <1>1, GoesAway DEF RoutingInv, Finish
<1>4. \A o \in Clients : call'[o] = IF o = c THEN Idle ELSE call[o]
      BY <1>3 DEF Goes, RoutingInv, RoutingTyped, CallsTyped
<1>5. /\ keys' \in [Providers -> SUBSET {"session", "secure"}] /\ keys'[p] = {}
      /\ \A q \in Providers : q # p => keys'[q] = keys[q]
      BY <1>2 DEF DropSecret, Dropped, RoutingInv, RoutingTyped, RegistryTyped
<1>6. Stored' = Stored
      BY <1>1 DEF Stored
<1>7. RegistryTyped'
      BY <1>1, <1>5, <1>6 DEF RoutingInv, RoutingTyped, RegistryTyped
<1>8. DefaultIsOne'
      BY <1>1, <1>6 DEF RoutingInv, RegistryInv, DefaultIsOne
<1>9. KeysHaveProvider'
      BY <1>1, <1>4, <1>5, <1>6 DEF RoutingInv, RegistryInv, KeysHaveProvider, At
<1>10. SavedInTime'
       BY <1>1, <1>4, <1>6 DEF RoutingInv, RegistryInv, SavedInTime, At, Idle
<1>11. QED BY <1>3, <1>7, <1>8, <1>9, <1>10, RegistryKeeps DEF RegistryInv

LEMMA RegistryRequestKeeps ==
    ASSUME RoutingInv, NEW c \in Clients, RegistryRequest(c)
    PROVE  RoutingInv'
<1>1. UNCHANGED <<ledger, routing, answers, deaths>>
      BY DEF RegistryRequest
<1>2. ASSUME NEW p \in Providers, NEW default \in BOOLEAN, Create(p, default) \/ PutProvider(c, p, default)
      PROVE  RoutingInv'
      BY <1>1, <1>2, CreateKeeps, PutProviderKeeps
<1>3. ASSUME NEW p \in Providers,
             \/ DiscoverModels(c, p)
             \/ \E mode \in {"session", "secure"} : SaveCredential(c, p, mode)
             \/ DeleteCredential(c, p)
             \/ DeleteProvider(c, p)
      PROVE  RoutingInv'
      BY <1>1, <1>3, DiscoverModelsKeeps, SaveCredentialKeeps, DeleteCredentialKeeps, DeleteProviderKeeps
<1>4. ASSUME Get(c) \/ Write(c) \/ Fetched(c) \/ SetSecret(c) \/ DropSecret(c)
      PROVE  RoutingInv'
      BY <1>1, <1>4, GetKeeps, WriteKeeps, FetchedKeeps, SetSecretKeeps, DropSecretKeeps
<1>5. QED BY <1>2, <1>3, <1>4 DEF RegistryRequest, RegistryStep

LEMMA RoutingStarts == RoutingInit => RoutingInv
<1> SUFFICES ASSUME RoutingInit PROVE RoutingInv
    OBVIOUS
<1>1. /\ call = [c \in Clients |-> Idle] /\ served = 0 /\ deaths = 0 /\ now = 0
      /\ DOMAIN rows = {} /\ DOMAIN usage = {} /\ DOMAIN observations = {} /\ DOMAIN routes = {}
      /\ DOMAIN answers = {} /\ keys = [p \in Providers |-> {}]
      /\ profiles = [a \in AllProviders \X Roles |-> NoProfile] /\ bound = [c \in Clients |-> Unbound]
      BY DEF RoutingInit, RegistryInit, LedgerInit
<1>2. \A c \in Clients : /\ ~Asking(call[c]) /\ ~Billed(call[c]) /\ ~Live(call[c]) /\ ~ByRoute(call[c])
                         /\ ~Crediting(call[c]) /\ call[c].pc = "idle"
      BY <1>1 DEF Idle, Live, Asking, Billed, Crediting, ByRoute
<1>3. RoutingTyped
  <2>1. CallsTyped
        BY <1>1 DEF CallsTyped, Requested
  <2>2. RegistryTyped
        BY <1>1 DEF RegistryTyped, Stored
  <2>3. LedgerTyped
        BY <1>1 DEF LedgerTyped
  <2>4. RoutesTyped
        BY <1>1 DEF RoutesTyped, NoProfile, ProfileRows, Unbound
  <2>5. QED BY <2>1, <2>2, <2>3, <2>4 DEF RoutingTyped
<1>4. RegistryInv
      BY <1>1, <1>2 DEF RegistryInv, DefaultIsOne, KeysHaveProvider, SavedInTime, Stored, At
<1>5. CallsInv
      BY <1>1, <1>2 DEF CallsInv, IdsDistinct, RoutedRuns, Entered, EnteredFor, Attributed, Paired
<1>6. AnswersEntered
  <2> SUFFICES ASSUME NEW p \in AllProviders, NEW role \in Roles
               PROVE  Cardinality(AnswersOf(p, role) \ ToCredit) <= profiles[<<p, role>>].successes
      BY DEF AnswersEntered
  <2>1. AnswersOf(p, role) \ ToCredit = {}
        BY <1>1 DEF AnswersOf
  <2>2. profiles[<<p, role>>].successes = 0
        BY <1>1 DEF NoProfile
  <2>3. QED BY <2>1, <2>2, FS_EmptySet
<1>7. CostsCharged
  <2> SUFFICES ASSUME NEW p \in AllProviders, NEW role \in Roles
               PROVE  \E costs : Charges(p, role, costs)
      BY DEF CostsCharged
  <2>1. PICK costs : costs = [id \in {} |-> 0]
        OBVIOUS
  <2>2. DOMAIN costs = {} /\ costs \in [{} -> Nat]
        BY <2>1
  <2>3. SumFunction(costs) = 0
        BY <2>2, FS_EmptySet, SumType
  <2>4. profiles[<<p, role>>].spent = 0
        BY <1>1 DEF NoProfile
  <2>5. Charges(p, role, costs)
        BY <1>1, <1>2, <2>2, <2>3, <2>4, FS_EmptySet DEF Charges, AnswersOf, At
  <2>6. QED BY <2>5
<1>8. WithinAllowance
  <2> SUFFICES ASSUME NEW role \in Roles
               PROVE  /\ Paying(role) + SumFunction(Sent(role)) <= Allowance
                      /\ Paying(role) <= Spent(role) + SumFunction(Due(role))
      BY DEF WithinAllowance
  <2>1. Paying(role) = 0
    <3> DEFINE f == [id \in Asked(role) |-> Price[answers[id].provider]]
    <3>1. Asked(role) = {}
          BY <1>1 DEF Asked
    <3>2. f \in [{} -> Nat]
          BY <3>1
    <3> HIDE DEF f
    <3>3. SumFunction(f) = 0
          BY <3>2, FS_EmptySet, SumType
    <3>4. QED BY <3>3 DEF f, Paying
  <2> DEFINE s == Sent(role)
             d == Due(role)
  <2>2. s \in [Clients -> Nat] /\ d \in [Clients -> Nat]
        BY <1>3, PartsTyped
  <2>3. \A c \in Clients : s[c] <= 0
    <3>1. \A c \in Clients : ~Capped(call[c], role)
          BY <1>2 DEF Capped
    <3>2. \A c \in Clients : s[c] = 0
          BY <3>1 DEF Sent
    <3> HIDE DEF s
    <3>3. ASSUME NEW c \in Clients PROVE s[c] <= 0
      <4>1. s[c] = 0 /\ s[c] \in Nat
            BY <2>2, <3>2
      <4>2. QED BY <4>1
    <3>4. QED BY <3>3
  <2> HIDE DEF s, d
  <2>4. SumFunction(s) \in Nat /\ SumFunction(d) \in Nat
        BY <2>2, ModelRoutingAssumption, SumType
  <2>5. SumFunction(s) <= Cardinality(Clients) * 0
        BY <2>2, <2>3, ModelRoutingAssumption, SumBound
  <2>6. Cardinality(Clients) \in Nat /\ Cardinality(Clients) # 0
        BY ModelRoutingAssumption, FS_CardinalityType, FS_EmptySet
  <2>7. SumFunction(s) = 0
        BY <2>4, <2>5, <2>6
  <2>8. Allowance \in Nat
    <3>1. Cardinality(Clients) - 1 \in Nat
          BY <2>6
    <3>2. (Cardinality(Clients) - 1) * Highest \in Nat
          BY <3>1, HighestPrice
    <3>3. QED BY <3>2, ModelRoutingAssumption DEF Allowance, Highest
  <2>9. Spent(role) \in Nat
    <3> DEFINE f == [q \in AllProviders |-> profiles[<<q, role>>].spent]
    <3>1. f \in [AllProviders -> Nat]
          BY <1>3 DEF RoutingTyped, RoutesTyped, ProfileRows
    <3> HIDE DEF f
    <3>2. SumFunction(f) \in Nat
          BY <3>1, RoutingAssumed, SumType
    <3>3. QED BY <3>2 DEF f, Spent
  <2>10. QED BY <2>1, <2>4, <2>7, <2>8, <2>9 DEF s, d
<1>9. QED BY <1>3, <1>4, <1>5, <1>6, <1>7, <1>8 DEF RoutingInv

LEMMA RoutingGoesOn == RoutingInv /\ [RoutingNext]_routingVars => RoutingInv'
<1> SUFFICES ASSUME RoutingInv, [RoutingNext]_routingVars PROVE RoutingInv'
    OBVIOUS
<1>1. CASE Person
      BY <1>1, PersonKeeps
<1>2. ASSUME NEW c \in Clients, ModelCall(c) PROVE RoutingInv'
  <2>1. ASSUME NEW role \in Roles, Generate(c, role) \/ TestTeam(c, role) PROVE RoutingInv'
        BY <2>1, GenerateKeeps, TestTeamKeeps
  <2>2. ASSUME NEW p \in Providers, TestModel(c, p) PROVE RoutingInv'
        BY <2>2, TestModelKeeps
  <2>3. ASSUME StartRun(c) \/ Resolve(c) \/ Admit(c) \/ ProviderFails(c) PROVE RoutingInv'
        BY <2>3, StartRunKeeps, ResolveKeeps, AdmitKeeps, ProviderFailsKeeps
  <2>4. ASSUME ProviderAnswers(c) \/ Credit(c) \/ Fault(c) PROVE RoutingInv'
        BY <2>4, ProviderAnswersKeeps, CreditKeeps, FaultKeeps
  <2>5. ASSUME Settle(c) \/ Observe(c) PROVE RoutingInv'
        BY <2>5, SettleKeeps, ObserveKeeps
  <2>6. QED BY <1>2, <2>1, <2>2, <2>3, <2>4, <2>5 DEF ModelCall
<1>3. ASSUME NEW c \in Clients, RegistryRequest(c) PROVE RoutingInv'
      BY <1>3, RegistryRequestKeeps
<1>4. CASE LedgerRequest
      BY <1>4, LedgerRequestKeeps
<1>5. CASE Die
      BY <1>5, DieKeeps
<1>6. CASE UNCHANGED routingVars
  <2>1. PICK c \in Clients : TRUE
        BY ModelRoutingAssumption
  <2>2. UNCHANGED <<call, served, registry, ledger, routes, profiles, bound, answers, deaths>>
        BY <1>6 DEF routingVars, requests, routing
  <2>3. Goes(c, call[c])
        BY <2>2, NobodyGoes DEF RoutingInv, CallsInv
  <2>4. QED BY <2>2, <2>3, CalmStep
<1>7. QED BY <1>1, <1>2, <1>3, <1>4, <1>5, <1>6 DEF RoutingNext

LEMMA RoutingInvariant == RoutingSpec => []RoutingInv
BY RoutingStarts, RoutingGoesOn, PTL DEF RoutingSpec

(***************************************************************************)
(* The results                                                             *)
(***************************************************************************)
\* At most one provider is the default, and no key outlives its provider: what
\* ProviderStore and SecretResolver keep, whatever requests follow each other.
THEOREM RegistryStaysConsistent == RoutingSpec => []RegistryConsistent
<1>1. RoutingInv => RegistryConsistent
  <2> SUFFICES ASSUME RoutingInv PROVE RegistryConsistent
      OBVIOUS
  <2> DEFINE S == {p \in Stored : rows[p].default}
  <2>1. \A p, q \in S : p = q
        BY DEF RoutingInv, RegistryInv, DefaultIsOne
  <2>2. S = {} \/ \E p : S = {p}
        BY <2>1
  <2>3. Cardinality(S) <= 1
    <3> HIDE DEF S
    <3>1. CASE S = {}
          BY <3>1, FS_EmptySet
    <3>2. ASSUME NEW p, S = {p} PROVE Cardinality(S) = 1
          BY <3>2, FS_Singleton
    <3>3. QED BY <2>2, <3>1, <3>2
  <2>4. QED BY <2>3 DEF RegistryConsistent, OneDefault, RoutingInv, RegistryInv
<1>2. QED BY <1>1, RoutingInvariant, PTL

\* The cost budget of a role holds but for one call of each other run: the test of
\* _enforce_role_cost_budget against the table that record_call writes later.
THEOREM RoleBudgetRespected == RoutingSpec => []RoleBudgetHolds
<1>1. RoutingInv => RoleBudgetHolds
  <2> SUFFICES ASSUME RoutingInv, NEW role \in Roles, OnlyCapped(role)
               PROVE  Paying(role) <= Allowance
      BY DEF RoleBudgetHolds, OnlyCapped, Asked, Paying, Allowance
  <2>1. Paying(role) + SumFunction(Sent(role)) <= Allowance
        BY DEF RoutingInv, WithinAllowance
  <2>2. Paying(role) \in Nat
        BY PayingTyped DEF RoutingInv, CallsInv
  <2> DEFINE s == Sent(role)
  <2>3. s \in [Clients -> Nat]
        BY PartsTyped DEF RoutingInv
  <2> HIDE DEF s
  <2>4. SumFunction(s) \in Nat
        BY <2>3, ModelRoutingAssumption, SumType
  <2>5. Allowance \in Int
    <3>1. Cardinality(Clients) \in Nat
          BY ModelRoutingAssumption, FS_CardinalityType
    <3>2. (Cardinality(Clients) - 1) * Highest \in Int
          BY <3>1, HighestPrice
    <3>3. QED BY <3>2, ModelRoutingAssumption DEF Allowance, Highest
  <2>6. QED BY <2>1, <2>2, <2>4, <2>5 DEF s
<1>2. QED BY <1>1, RoutingInvariant, PTL

\* What is known of every row is its sum.
LEMMA SummedKnown ==
    ASSUME NEW S, IsFiniteSet(S), S # {}, NEW f \in [S -> Nat]
    PROVE  Summed(f) = SumFunction(f) /\ Summed(f) \in Nat
<1>1. DOMAIN f = S /\ {x \in DOMAIN f : Known(f[x])} = S
      BY ModelRoutingAssumption DEF Known
<1>2. [x \in S |-> f[x]] = f
      OBVIOUS
<1>3. Summed(f) = SumFunction(f)
      BY <1>1, <1>2 DEF Summed
<1>4. SumFunction(f) \in Nat
      BY SumType
<1>5. QED BY <1>3, <1>4

\* A reported miss, or else the difference, is the rest of an input that fits together.
LEMMA MissIsRest ==
    ASSUME NEW t \in TokenCounts, Known(t.cached), AddsUp(t)
    PROVE  /\ CacheMiss(t) \in Nat /\ t.input \in Nat /\ t.cached \in Nat
           /\ t.input = t.cached + CacheMiss(t)
<1>1. t.input \in Nat /\ t.cached \in Nat /\ t.cached <= t.input
      BY DEF TokenCounts, Tokens, Known, AddsUp
<1>2. CASE Known(t.miss)
  <2>1. t.miss \in Nat /\ t.cached + t.miss = t.input /\ CacheMiss(t) = t.miss
        BY <1>2 DEF TokenCounts, Tokens, Known, AddsUp, CacheMiss
  <2>2. QED BY <1>1, <2>1
<1>3. CASE ~Known(t.miss)
  <2> DEFINE a == t.input
             b == t.cached
  <2>1. Max({0, a - b}) = a - b
    <3> HIDE DEF a, b
    <3>1. \A x \in {0, a - b} : a - b >= x
          BY <1>1 DEF a, b
    <3>2. \A x \in {0, a - b} : (\A y \in {0, a - b} : x >= y) => x = a - b
          BY <1>1 DEF a, b
    <3>3. QED BY <3>1, <3>2 DEF Max
  <2>2. QED BY <1>1, <1>3, <2>1 DEF CacheMiss
<1>4. QED BY <1>2, <1>3

LEMMA HitsAddUp ==
    ASSUME RoutingInv
    PROVE  HitsAndMissesAddUp
<1> DEFINE ids == {id \in CacheRows(DOMAIN usage) : AddsUp(usage[id].tokens)}
<1> SUFFICES ASSUME ids # {}
             PROVE  CacheHits(ids) + CacheMisses(ids) = TokensOf(ids, "input")
    BY DEF HitsAndMissesAddUp
<1> DEFINE in == [id \in ids |-> usage[id].tokens["input"]]
           hit == [id \in ids |-> usage[id].tokens["cached"]]
           miss == [id \in ids |-> CacheMiss(usage[id].tokens)]
<1>1. IsFiniteSet(ids)
  <2>1. ids \in SUBSET DOMAIN answers
        BY DEF CacheRows, RoutingInv, CallsInv, IdsDistinct
  <2>2. QED BY <2>1, AnswersFinite DEF RoutingInv, CallsInv
<1>2. ASSUME NEW id \in ids
      PROVE  /\ in[id] \in Nat /\ hit[id] \in Nat /\ miss[id] \in Nat
             /\ in[id] = hit[id] + miss[id]
  <2> DEFINE t == usage[id].tokens
  <2>1. t \in TokenCounts /\ Known(t.cached) /\ AddsUp(t)
        BY DEF CacheRows, RoutingInv, RoutingTyped, LedgerTyped, UsageRows
  <2> HIDE DEF t
  <2>2. CacheMiss(t) \in Nat /\ t.input \in Nat /\ t.cached \in Nat /\ t.input = t.cached + CacheMiss(t)
        BY <2>1, MissIsRest
  <2>3. QED BY <2>2 DEF t
<1>3. in \in [ids -> Nat] /\ hit \in [ids -> Nat] /\ miss \in [ids -> Nat]
  <2>1. \A id \in ids : in[id] \in Nat /\ hit[id] \in Nat /\ miss[id] \in Nat
    <3> HIDE DEF ids, in, hit, miss
    <3>1. QED BY <1>2
  <2>2. QED BY <2>1
<1>4. CacheRows(ids) = ids
      BY DEF CacheRows
<1>5. CacheHits(ids) = Summed(hit) /\ CacheMisses(ids) = Summed(miss) /\ TokensOf(ids, "input") = Summed(in)
      BY <1>4 DEF CacheHits, CacheMisses, TokensOf
<1> HIDE DEF ids, in, hit, miss
<1>6. Summed(hit) = SumFunction(hit) /\ Summed(miss) = SumFunction(miss) /\ Summed(in) = SumFunction(in)
      BY <1>1, <1>3, SummedKnown
<1>7. \A id \in ids : in[id] = hit[id] + miss[id]
      BY <1>2
<1>8. SumFunction(in) = SumFunction(hit) + SumFunction(miss)
      BY <1>1, <1>3, <1>7, SumOfBoth
<1>9. QED BY <1>5, <1>6, <1>8

LEMMA CostsStayAgreed ==
    ASSUME RoutingInv
    PROVE  CostsAgree
<1> SUFFICES ASSUME NEW p \in AllProviders, NEW role \in Roles, profiles[<<p, role>>].known,
                    DOMAIN usage \cap AnswersOf(p, role) # {}
             PROVE  CostOf(DOMAIN usage \cap AnswersOf(p, role)) <= profiles[<<p, role>>].spent
  <2>1. \A p \in AllProviders, role \in Roles :
            {id \in DOMAIN usage : answers[id].routed /\ answers[id].provider = p /\ answers[id].role = role}
                = DOMAIN usage \cap AnswersOf(p, role)
        BY DEF AnswersOf, RoutingInv, CallsInv, IdsDistinct
  <2>2. QED BY <2>1 DEF CostsAgree
<1> DEFINE ids == DOMAIN usage \cap AnswersOf(p, role)
           f == [id \in ids |-> usage[id].cost]
<1>1. PICK costs : Charges(p, role, costs)
      BY DEF RoutingInv, CostsCharged
<1>2. ids \in SUBSET DOMAIN costs /\ f \in [ids -> Nat] /\ \A id \in ids : f[id] <= costs[id]
  <2>1. \A id \in ids : id \in DOMAIN costs /\ usage[id].cost = costs[id] /\ costs[id] \in Nat
        BY <1>1 DEF Charges
  <2>2. QED BY <2>1
<1>3. IsFiniteSet(DOMAIN costs) /\ costs \in [DOMAIN costs -> Nat] /\ SumFunction(costs) <= profiles[<<p, role>>].spent
      BY <1>1 DEF Charges
<1>4. IsFiniteSet(ids) /\ ids # {}
      BY <1>2, <1>3, FS_Subset
<1>5. CostOf(ids) = Summed(f)
  <2>1. \A id \in ids : Known(usage[id].cost)
        BY <1>2, ModelRoutingAssumption DEF Known
  <2>2. QED BY <2>1 DEF CostOf
<1>6. profiles[<<p, role>>].spent \in Nat
      BY DEF RoutingInv, RoutingTyped, RoutesTyped, ProfileRows
<1> HIDE DEF ids, f
<1>7. Summed(f) = SumFunction(f) /\ SumFunction(f) \in Nat
      BY <1>2, <1>4, SummedKnown
<1>8. SumFunction(f) <= SumFunction(costs)
  <2> DEFINE S == DOMAIN costs
  <2>1. IsFiniteSet(S) /\ ids \in SUBSET S /\ costs \in [S -> Nat]
        BY <1>2, <1>3
  <2> HIDE DEF S
  <2>2. QED BY <1>2, <2>1, SumMonotone
<1>9. SumFunction(costs) \in Nat
      BY <1>3, SumType
<1>10. QED BY <1>3, <1>5, <1>6, <1>7, <1>8, <1>9 DEF ids

\* The accounts of a call agree: the usage view's hits and misses add up, an observation
\* is shown with its call, a row names the provider that has answered, no answer is
\* missing from the performance table, and its costs are not below those of the usage
\* view.
THEOREM AccountsStayAgreed == RoutingSpec => []AccountsAgree
<1>1. RoutingInv => AccountsAgree
  <2> SUFFICES ASSUME RoutingInv PROVE AccountsAgree
      OBVIOUS
  <2>1. HitsAndMissesAddUp /\ CostsAgree
        BY HitsAddUp, CostsStayAgreed
  <2>2. ObservationsShown
        BY DEF ObservationsShown, Diagnosed, RoutingInv, CallsInv, Paired
  <2>3. AnswersCounted
    <3> SUFFICES ASSUME deaths = 0, \A c \in Clients : At(c, "idle"), NEW p \in AllProviders, NEW role \in Roles
                 PROVE  Cardinality(AnswersOf(p, role)) <= profiles[<<p, role>>].successes
        BY DEF AnswersCounted, AnswersOf
    <3>1. ToCredit = {}
          BY DEF ToCredit, Crediting, At
    <3>2. AnswersOf(p, role) \ ToCredit = AnswersOf(p, role)
          BY <3>1
    <3>3. QED BY <3>2 DEF RoutingInv, AnswersEntered
  <2>4. QED BY <2>1, <2>2, <2>3 DEF AccountsAgree, RoutingInv, CallsInv
<1>2. QED BY <1>1, RoutingInvariant, PTL
=============================================================================
