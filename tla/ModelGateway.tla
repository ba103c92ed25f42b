---------------------------- MODULE ModelGateway ----------------------------
(***************************************************************************)
(* Model calls of one task under its budgets: ModelGateway.generate        *)
(* (app/gateway/model_gateway.py), WorkflowCostGovernor                    *)
(* (app/core/workflow_cost.py), BudgetController (app/core/budget.py) and  *)
(* the budget_usage that app/runner.py keeps in the checkpoint.            *)
(*                                                                         *)
(* Branches are the node functions that may call a model at the same time  *)
(* (the fanned out exec_subtask tasks).  Tokens and cost are checked and   *)
(* recorded in the same way, so one amount stands for both.  The governor  *)
(* decides under its lock; record has no lock, but makes no call between   *)
(* its test and its additions, so a thread is not switched inside it.      *)
(***************************************************************************)
EXTENDS Naturals, FiniteSets, FiniteSetsExt

CONSTANTS
    Branches,     \* node functions that run in parallel
    Roles,        \* roles with a limit
    Fallback,     \* roles whose caller answers without the model on an error
    RoleLimit,    \* STANDARD_ROLE_LIMITS
    Complex,      \* the task is complex: no role limits and thresholds
    RecoveryAt,   \* RECOVERY_THRESHOLD
    MaxCalls,     \* max_model_calls, also the governor's hard_limit
    Budget,       \* token_budget or cost_budget
    Usages,       \* [est, act]: estimated and actual usage of a request
    MaxRetries,   \* max_retries of generate
    MaxResumes,   \* bound: resumes of the run
    MaxCrashes    \* bound: server deaths

ASSUME ModelGatewayAssumption ==
    /\ IsFiniteSet(Branches) /\ Branches # {}
    /\ RoleLimit \in [Roles -> Nat]
    /\ Complex \in BOOLEAN
    /\ RecoveryAt \in Nat /\ MaxCalls \in Nat /\ Budget \in Nat
    /\ Usages \subseteq [est : Nat, act : Nat]
    /\ \E u \in Usages : \A v \in Usages : v.act <= u.act  \* max_tokens
    /\ MaxRetries \in Nat /\ MaxResumes \in Nat /\ MaxCrashes \in Nat

VARIABLES
    run,        \* the run: "running", "paused", "failed", "completed", "lost"
    raised,     \* an exception has left a node: the run is going to fail
    used,       \* BudgetController: usage recorded
    calls,      \* BudgetController: calls recorded
    saved,      \* checkpoint: budget_usage
    roleCalls,  \* governor: _role_calls
    reserved,   \* governor: _reserved_total
    call,       \* the call each branch is making
    (* history *)
    paid,       \* what the providers have answered for
    answered,   \* how many requests they have answered
    asked,      \* requests of each role since the context was built
    resumes, crashes

budget == <<used, calls>>
governor == <<roleCalls, reserved>>
history == <<paid, answered, asked, resumes, crashes>>
vars == <<run, raised, budget, saved, governor, call, history>>

NoRole == "none"
Idle == [pc |-> "idle", role |-> NoRole, use |-> [est |-> 0, act |-> 0],
         seen |-> 0, attempt |-> 0]

Init ==
    /\ run = "running"
    /\ raised = FALSE
    /\ used = 0 /\ calls = 0
    /\ saved = [used |-> 0, calls |-> 0]
    /\ roleCalls = [r \in Roles |-> 0]
    /\ reserved = 0
    /\ call = [b \in Branches |-> Idle]
    /\ paid = 0
    /\ answered = 0
    /\ asked = [r \in Roles |-> 0]
    /\ resumes = 0
    /\ crashes = 0

Set(b, c) == call' = [call EXCEPT ![b] = c]

At(b, pc) == run = "running" /\ call[b].pc = pc

\* An error leaves generate: compose_summary returns None and plan goes on with the
\* deterministic planner; any other exception leaves the node, which makes no more
\* calls.
Leave(b) ==
    \/ call[b].role \in Fallback /\ Set(b, Idle) /\ UNCHANGED raised
    \/ call[b].role \notin Fallback /\ Set(b, [Idle EXCEPT !.pc = "dead"]) /\ raised' = TRUE

(***************************************************************************)
(* WorkflowCostGovernor.assess_and_reserve                                 *)
(***************************************************************************)
\* generate reads the recorded calls before it asks the governor, outside the lock.
Ask(b, role, use) ==
    /\ At(b, "idle")
    /\ Set(b, [Idle EXCEPT !.pc = "ask", !.role = role, !.use = use, !.seen = calls])
    /\ UNCHANGED <<run, raised, budget, saved, governor, history>>

\* ALLOW or WARNING: below the hard limit and, unless the task is complex, below
\* the limit of the role and the recovery threshold.
Allowed(c) ==
    LET effective == Max({c.seen, reserved})
    IN /\ effective < MaxCalls
       /\ Complex \/ (roleCalls[c.role] < RoleLimit[c.role] /\ effective < RecoveryAt)

\* Mutant: the call is counted when it is recorded, not reserved.
BugReserve(b) ==
    /\ At(b, "ask")
    /\ Allowed(call[b])
    /\ Set(b, [call[b] EXCEPT !.pc = "check"])
    /\ UNCHANGED <<run, raised, budget, saved, governor, history>>

Reserve(b) ==
    /\ At(b, "ask")
    /\ Allowed(call[b])
    /\ roleCalls' = [roleCalls EXCEPT ![call[b].role] = @ + 1]
    /\ reserved' = reserved + 1
    /\ Set(b, [call[b] EXCEPT !.pc = "check"])
    /\ UNCHANGED <<run, raised, budget, saved, history>>

\* STOP or RECOVERY: ProviderError BUDGET_INSUFFICIENT.
Stop(b) ==
    /\ At(b, "ask")
    /\ ~Allowed(call[b])
    /\ Leave(b)
    /\ UNCHANGED <<run, budget, saved, governor, history>>

(***************************************************************************)
(* can_call, the provider, record                                          *)
(***************************************************************************)
\* Mutant: the estimate is left out.
BugCanCall(est) == calls < MaxCalls /\ used <= Budget

CanCall(est) == calls < MaxCalls /\ used + est <= Budget

\* The check reserves nothing; the governor's reservation is not given back.
Check(b) ==
    /\ At(b, "check")
    /\ \/ /\ CanCall(call[b].use.est)
          /\ Set(b, [call[b] EXCEPT !.pc = "call"])
          /\ asked' = [asked EXCEPT ![call[b].role] = @ + 1]
          /\ UNCHANGED raised
       \/ /\ ~CanCall(call[b].use.est)
          /\ Leave(b)
          /\ UNCHANGED asked
    /\ UNCHANGED <<run, budget, saved, governor, paid, answered, resumes, crashes>>

\* The provider answers, and has to be paid.
Answer(b) ==
    /\ At(b, "call")
    /\ paid' = paid + call[b].use.act
    /\ answered' = answered + 1
    /\ Set(b, [call[b] EXCEPT !.pc = "record"])
    /\ UNCHANGED <<run, raised, budget, saved, governor, asked, resumes, crashes>>

\* A retryable error is retried without another check; other errors, and the
\* last retry, leave.
ProviderFails(b) ==
    /\ At(b, "call")
    /\ \/ /\ call[b].attempt < MaxRetries
          /\ Set(b, [call[b] EXCEPT !.attempt = @ + 1])
          /\ UNCHANGED raised
       \/ Leave(b)
    /\ UNCHANGED <<run, budget, saved, governor, history>>

\* Mutant: the usage is added without the test.
BugRecord(b) ==
    /\ At(b, "record")
    /\ used' = used + call[b].use.act
    /\ calls' = calls + 1
    /\ Set(b, Idle)
    /\ UNCHANGED <<run, raised, saved, governor, history>>

\* record adds the usage and the call, or raises BudgetExceeded and adds nothing.
Record(b) ==
    /\ At(b, "record")
    /\ IF used + call[b].use.act <= Budget
       THEN /\ used' = used + call[b].use.act
            /\ calls' = calls + 1
            /\ Set(b, Idle)
            /\ UNCHANGED raised
       ELSE /\ raised' = TRUE
            /\ Set(b, [Idle EXCEPT !.pc = "dead"])
            /\ UNCHANGED budget
    /\ UNCHANGED <<run, saved, governor, history>>

(***************************************************************************)
(* run_task, resume_task                                                   *)
(***************************************************************************)
\* Mutant: a pause does not write the usage.
BugEnd ==
    /\ run = "running"
    /\ \A b \in Branches : call[b].pc \in {"idle", "dead"}
    /\ run' \in IF raised THEN {"failed"} ELSE {"paused", "completed", "failed"}
    /\ saved' = IF run' = "paused" THEN saved ELSE [used |-> used, calls |-> calls]
    /\ UNCHANGED <<raised, budget, governor, call, history>>

\* The graph returns once every branch has: the run pauses, completes or fails
\* (because of an exception, or for reasons of its own), and the usage is written to the checkpoint.
End ==
    /\ run = "running"
    /\ \A b \in Branches : call[b].pc \in {"idle", "dead"}
    /\ run' \in IF raised THEN {"failed"} ELSE {"paused", "completed", "failed"}
    /\ saved' = [used |-> used, calls |-> calls]
    /\ UNCHANGED <<raised, budget, governor, call, history>>

\* _build_context: a BudgetController with the saved usage, a new governor.
Resume ==
    /\ run = "paused"
    /\ resumes < MaxResumes
    /\ resumes' = resumes + 1
    /\ run' = "running"
    /\ used' = saved.used
    /\ calls' = saved.calls
    /\ roleCalls' = [r \in Roles |-> 0]
    /\ reserved' = 0
    /\ asked' = [r \in Roles |-> 0]
    /\ call' = [b \in Branches |-> Idle]
    /\ UNCHANGED <<raised, saved, paid, answered, crashes>>

\* The server dies while the run executes.  The checkpoint of a run that was
\* resumed still says paused (until plan changes it), so it can be resumed.
Crash ==
    /\ run = "running"
    /\ crashes < MaxCrashes
    /\ crashes' = crashes + 1
    /\ run' \in IF resumes = 0 THEN {"lost"} ELSE {"lost", "paused"}
    /\ raised' = FALSE
    /\ call' = [b \in Branches |-> Idle]
    /\ UNCHANGED <<budget, saved, governor, paid, answered, asked, resumes>>

Generate(b) ==
    \/ \E role \in Roles, use \in Usages : Ask(b, role, use)
    \/ Reserve(b) \/ Stop(b)
    \/ Check(b) \/ Answer(b) \/ ProviderFails(b) \/ Record(b)

Next ==
    \/ \E b \in Branches : Generate(b)
    \/ End
    \/ Resume
    \/ Crash

Spec == Init /\ [][Next]_vars
----------------------------------------------------------------------------
Calls == [pc : {"idle", "ask", "check", "call", "record", "dead"}, role : Roles \cup {NoRole},
          use : [est : Nat, act : Nat], seen : Nat, attempt : 0..MaxRetries]

\* The shape of the budgets, the calls in flight and the history; what is
\* recorded never passes the budget.
TypeOK ==
    /\ run \in {"running", "paused", "failed", "completed", "lost"}
    /\ raised \in BOOLEAN
    /\ used \in 0..Budget
    /\ calls \in Nat
    /\ saved \in [used : 0..Budget, calls : Nat]
    /\ roleCalls \in [Roles -> Nat]
    /\ reserved \in Nat
    /\ call \in [Branches -> Calls]
    /\ \A b \in Branches : call[b].pc \in {"ask", "check", "call", "record"} => call[b].role \in Roles
    /\ paid \in Nat
    /\ answered \in Nat
    /\ asked \in [Roles -> Nat]
    /\ resumes \in 0..MaxResumes
    /\ crashes \in 0..MaxCrashes

\* "Atomically enforce role limits for parallel LangGraph branches": however the
\* branches interleave, a role makes no more requests than its limit between two
\* resumes of the run.
RoleLimitsHold == Complex \/ \A r \in Roles : asked[r] <= RoleLimit[r]

\* Branches that check before any of them records overshoot the budget, but by no
\* more than the largest request of each other branch, however long the task goes
\* on and however often it is resumed, as long as estimates cover the usage and no
\* usage was lost with the server.  A single branch stays within the budget.  In the
\* same way a task gets at most one answer for each other branch above max_model_calls.
OvershootBounded ==
    /\ (crashes = 0 /\ \A u \in Usages : u.act <= u.est)
           => paid <= Budget + (Cardinality(Branches) - 1) * Max({u.act : u \in Usages})
    /\ crashes = 0 => answered <= MaxCalls + Cardinality(Branches) - 1

\* "Recovery rebuilds the budget from the checkpoint": what a pause or the end of a
\* run leaves in the checkpoint accounts for every call that was paid for, unless the
\* server has died during a run.
SavedIsPaidWithoutCrash ==
    (crashes = 0 /\ run \in {"paused", "completed"}) => saved = [used |-> paid, calls |-> answered]

\* The budget bounds what the task spends, across branches, pauses and resumes.
BudgetHolds == OvershootBounded /\ SavedIsPaidWithoutCrash
=============================================================================
