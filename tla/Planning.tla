------------------------------ MODULE Planning ------------------------------
(***************************************************************************)
(* The plan the plan node installs (app/graph.py): the model's draft when  *)
(* it passes PlanningEnvelope, RoleRouter and validate_plan                *)
(* (app/core/orchestration.py, app/core/plan_validator.py), else a         *)
(* deterministic one, cut to size where it is too long.                    *)
(*                                                                         *)
(* A plan is a sequence of subtasks.  Of a subtask's texts only two facts  *)
(* are kept: it names an output and acceptance criteria (complete), and it *)
(* speaks of verification (verifies).  A tool is "read", "fixture" or      *)
(* "sandbox".                                                              *)
(***************************************************************************)
EXTENDS Integers, Sequences, FiniteSets, FiniteSetsExt

\* MAX_SUBTASKS
MaxSubtasks == 8

\* A subtask that names no capability has been given the one of the role it names.
Subtask(id, deps, capability, tools, budget) ==
    [id |-> id, deps |-> deps, capability |-> capability, role |-> "unrouted", tools |-> tools,
     budget |-> budget, complete |-> TRUE, verifies |-> FALSE]

NoPlan == << Subtask("none", {}, "none", {}, 0) >>

RoleOf(capability) == IF capability \in {"research", "analysis"} THEN "researcher" ELSE "executor"

ToolsOf(role) == IF role = "researcher" THEN {"read", "fixture"} ELSE {"sandbox", "fixture"}

(***************************************************************************)
(* PlanningEnvelope                                                        *)
(***************************************************************************)
SubtaskLimits == [trivial |-> [min |-> 0, max |-> 1], simple |-> [min |-> 1, max |-> 2],
                  standard |-> [min |-> 2, max |-> 4], complex |-> [min |-> 3, max |-> 6]]

CapabilitiesFor(shape) ==
    CASE shape = "direct_response" -> {}
      [] shape = "read_only_research" -> {"research"}
      [] shape = "code_analysis" -> {"analysis", "research"}
      [] shape \in {"code_change", "multi_step_delivery"} -> {"research", "code_change", "verification"}
      [] shape = "windows_action" -> {"windows_action", "verification"}

ReadOnly == {"read_only_research", "code_analysis"}

\* Only a trivial goal stays without a capability; read-only work gets two specialists.
Envelope(shape, complexity) ==
    LET kept == IF shape = "direct_response" /\ complexity # "trivial" THEN "read_only_research" ELSE shape
        bounds == SubtaskLimits[complexity]
    IN [shape |-> kept, allowed |-> CapabilitiesFor(kept), min |-> bounds.min,
        max |-> IF kept \in ReadOnly THEN Min({bounds.max, Max({2, bounds.min})}) ELSE bounds.max]

\* A call without an envelope only has the limit of the validator.
Open == [shape |-> "open", allowed |-> UNION {CapabilitiesFor(s) : s \in {"code_analysis", "code_change", "windows_action"}},
         min |-> 0, max |-> MaxSubtasks]

(***************************************************************************)
(* validate_plan                                                           *)
(***************************************************************************)
IdsOf(plan) == {plan[i].id : i \in DOMAIN plan}

DepsOf(plan, ids) == UNION {plan[i].deps : i \in {j \in DOMAIN plan : plan[j].id \in ids}}

\* _assert_acyclic: subtasks without a dependency among those left are taken away.
Acyclic(plan) ==
    LET left[n \in 0..Len(plan)] ==
            IF n = 0 THEN IdsOf(plan)
            ELSE {x \in left[n - 1] : DepsOf(plan, {x}) \cap left[n - 1] # {}}
    IN left[Len(plan)] = {}

TooComplex(plan, env) == Len(plan) <= MaxSubtasks /\ Len(plan) > env.max

Valid(plan, env, budget) ==
    /\ Len(plan) <= MaxSubtasks /\ env.min <= Len(plan) /\ Len(plan) <= env.max
    /\ Cardinality(IdsOf(plan)) = Len(plan)
    /\ DepsOf(plan, IdsOf(plan)) \subseteq IdsOf(plan)
    /\ Acyclic(plan)
    /\ MapThenSumSet(LAMBDA i : plan[i].budget, DOMAIN plan) <= budget
    /\ \A i \in DOMAIN plan :
        /\ plan[i].capability \in env.allowed
        /\ plan[i].role = RoleOf(plan[i].capability)
        /\ plan[i].complete
        /\ plan[i].tools \subseteq ToolsOf(plan[i].role)

(***************************************************************************)
(* From the draft to the plan                                              *)
(***************************************************************************)
Routed(plan) == [i \in DOMAIN plan |-> [plan[i] EXCEPT !.role = RoleOf(plan[i].capability)]]

Ancestors(plan, i) ==
    LET reached[n \in 0..Len(plan)] ==
            IF n = 0 THEN plan[i].deps ELSE reached[n - 1] \cup DepsOf(plan, reached[n - 1])
    IN reached[Len(plan)]

ChangesBefore(plan, i) ==
    \E j \in DOMAIN plan : plan[j].id \in Ancestors(plan, i) /\ plan[j].capability = "code_change"

\* calibrate_plan_capabilities: a check of a change that was made before is no change.
Calibrated(plan, env) ==
    IF env.shape # "code_change" THEN plan
    ELSE [i \in DOMAIN plan |->
            IF plan[i].capability = "code_change" /\ plan[i].verifies /\ ChangesBefore(plan, i)
            THEN [plan[i] EXCEPT !.capability = "verification"]
            ELSE plan[i]]

\* deterministic_simplification: the first subtasks, without what they waited for.
Simplified(plan, env) ==
    LET kept == SubSeq(plan, 1, env.max)
    IN IF Len(plan) <= env.max THEN plan
       ELSE [i \in DOMAIN kept |-> [kept[i] EXCEPT !.deps = @ \cap IdsOf(kept)]]

\* bounded_plan_for_shape: read-only work has a plan for its shape.
BoundedPlan(env, budget) ==
    LET each == Max({500, budget \div Max({env.min, 2})})
        research == << Subtask("research_discovery", {}, "research", {"read"}, each),
                       Subtask("research_comparison", {"research_discovery"}, "research", {"read"}, each),
                       Subtask("research_synthesis", {"research_discovery", "research_comparison"},
                               "research", {}, each) >>
        analysis == << Subtask("analysis_dependencies", {}, "analysis", {"read"}, each),
                       Subtask("analysis_risks", {}, "analysis", {"read"}, each),
                       Subtask("analysis_synthesis", {"analysis_dependencies", "analysis_risks"},
                               "analysis", {}, each) >>
        size == IF env.min >= 3 THEN 3 ELSE 2
    IN CASE env.shape = "read_only_research" -> SubSeq(research, 1, size)
         [] env.shape = "code_analysis" -> SubSeq(analysis, 1, size)
         [] OTHER -> NoPlan

\* make_plan: goals of the sandbox and of the tests have plans of their own.
ScenarioPlan(scenario) ==
    CASE scenario = "sandbox_code_fix_plan" ->
            << Subtask("s1", {}, "research", {"read"}, 2000),
               Subtask("s2", {"s1"}, "code_change", {"sandbox"}, 2000) >>
      [] scenario = "sandbox_create_readme_plan" ->
            << Subtask("s1", {}, "code_change", {"sandbox"}, 2000) >>
      [] scenario = "github_compare_plan" ->
            << Subtask("s1", {}, "research", {"fixture"}, 600), Subtask("s2", {}, "research", {"fixture"}, 600),
               Subtask("s3", {"s1", "s2"}, "research", {}, 600) >>
      [] scenario = "parallel_three_topics" ->
            << Subtask("t1", {}, "research", {"fixture"}, 500), Subtask("t2", {}, "research", {"fixture"}, 500),
               Subtask("t3", {}, "research", {"fixture"}, 500) >>
      [] scenario = "invalid_cycle_plan" ->
            << Subtask("c1", {"c2"}, "research", {"fixture"}, 600), Subtask("c2", {"c1"}, "research", {"fixture"}, 600) >>
      [] scenario = "over_budget_plan" ->
            << Subtask("o1", {}, "research", {"fixture"}, 4000), Subtask("o2", {}, "research", {"fixture"}, 4000) >>

\* _simple_research_plan
SimplePlan(budget) ==
    << Subtask("st1", {}, "research", {"fixture"}, Max({500, Min({2000, budget \div 4})})) >>

\* The plan without a model: without an envelope in fake mode.
Fallback(mode, env, scenario, budget) ==
    LET bounded == BoundedPlan(env, budget)
        plan == Routed(IF mode = "fake" \/ bounded = NoPlan THEN ScenarioPlan(scenario) ELSE bounded)
        limits == IF mode = "fake" THEN Open ELSE env
        short == Simplified(plan, env)
    IN IF Valid(plan, limits, budget) THEN plan
       ELSE IF TooComplex(plan, limits) /\ Valid(short, limits, budget) THEN short
       ELSE NoPlan

\* What the model's draft becomes before it is judged; bounded repairs give another draft.
Proposed(draft, env) == Routed(Calibrated(draft, env))

\* What the plan node installs; without a plan the run fails as planning_invalid, and
\* where the refused plan is the simple one nobody catches the error.
PlanNode(mode, draft, shape, complexity, scenario, replanning, budget) ==
    LET env == Envelope(shape, complexity)
        proposed == Proposed(draft, env)
    IN IF complexity = "trivial" /\ ~replanning THEN << >>
       ELSE IF complexity = "simple" /\ ~replanning
       THEN IF Valid(Routed(SimplePlan(budget)), Open, budget) THEN Routed(SimplePlan(budget)) ELSE NoPlan
       ELSE IF mode = "real" /\ ~replanning /\ Valid(proposed, env, budget) THEN proposed
       ELSE Fallback(mode, env, scenario, budget)

\* As the graph keeps it: dependencies and role, by id.
AsPlan(plan) ==
    [x \in IdsOf(plan) |-> LET i == CHOOSE i \in DOMAIN plan : plan[i].id = x
                           IN [deps |-> plan[i].deps, role |-> plan[i].role]]
=============================================================================
