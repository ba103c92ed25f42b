---------------------------- MODULE MCTaskGraph ----------------------------
(* A small instance of TaskGraph, with the plans that Planning installs. *)
EXTENDS TaskGraph

P == INSTANCE Planning

Budget == 10000

Draft(deps1, deps2) ==
    << P!Subtask("s1", deps1, "research", {"read"}, 600),
       P!Subtask("s2", deps2, "code_change", {"sandbox"}, 600) >>

\* A change and its evidence; drafts that are refused for a cycle or for a subtask nobody
\* has give the plan for any goal, which uses the same ids.
Installed ==
    {P!PlanNode("real", d, "code_change", "standard", "github_compare_plan", FALSE, Budget) :
        d \in {Draft({}, {"s1"}), Draft({"s2"}, {"s1"}), Draft({}, {"s4"})}}

ChangePlans == {P!AsPlan(plan) : plan \in Installed}

ChangeGoals == { [complexity |-> "standard", shape |-> "code_change"],
                 [complexity |-> "simple", shape |-> "read_only"],
                 [complexity |-> "trivial", shape |-> "direct"] }
----------------------------------------------------------------------------
(***************************************************************************)
(* Planning against reference definitions, over the drafts of two and      *)
(* three subtasks and over every envelope.                                 *)
(***************************************************************************)
Work == { [capability |-> "research", verifies |-> FALSE],
          [capability |-> "code_change", verifies |-> FALSE],
          [capability |-> "code_change", verifies |-> TRUE] }

\* The third subtask may repeat the id of the first one.
DraftsOf(n) ==
    { [i \in 1..n |->
         [P!Subtask(IF i = 3 THEN last ELSE <<"s1", "s2">>[i], deps[i], work[i].capability,
                    IF work[i].capability = "research" THEN {"read"} ELSE {"sandbox"}, 600)
             EXCEPT !.verifies = work[i].verifies]] :
      deps \in [1..n -> SUBSET {"s1", "s2"}], work \in [1..n -> Work],
      last \in IF n = 3 THEN {"s1", "s3"} ELSE {"s3"} }

TaskShapes == {"direct_response", "read_only_research", "code_analysis", "code_change",
               "windows_action", "multi_step_delivery"}

Scenarios == {"sandbox_code_fix_plan", "sandbox_create_readme_plan", "github_compare_plan",
              "parallel_three_topics", "invalid_cycle_plan", "over_budget_plan"}

\* What a plan must be for the graph to bring it to an end: every subtask has an id of its
\* own and a role with its tools, waits only for others of the plan, and in any part of
\* the plan there is one that waits for nothing of that part.
Executable(plan) ==
    /\ \A i, j \in DOMAIN plan : plan[i].id = plan[j].id => i = j
    /\ \A i \in DOMAIN plan : /\ plan[i].role \in Roles
                              /\ plan[i].tools \subseteq P!ToolsOf(plan[i].role)
                              /\ plan[i].deps \subseteq P!IdsOf(plan)
    /\ \A part \in (SUBSET DOMAIN plan) \ {{}} :
          \E i \in part : plan[i].deps \cap {plan[j].id : j \in part} = {}

\* A check that waits for a change is not made as another change.
ChangedOnce(plan) ==
    \A i, j \in DOMAIN plan :
        plan[j].id \in plan[i].deps /\ plan[i].verifies /\ plan[j].capability = "code_change"
            => plan[i].capability # "code_change"

\* A draft is taken exactly when it is executable and long enough.
ASSUME DraftsAreJudged ==
    \A n \in {2, 3}, complexity \in {"standard", "complex"} :
        LET env == P!Envelope("code_change", complexity)
        IN \A draft \in DraftsOf(n) :
              LET plan == P!Proposed(draft, env)
              IN /\ P!Valid(plan, env, Budget) <=> Executable(plan) /\ n >= env.min
                 /\ P!Valid(plan, env, Budget) => ChangedOnce(plan)

\* A plan made without a model is executable.
ASSUME FallbacksAreExecutable ==
    \A mode \in {"real", "fake"}, shape \in TaskShapes, complexity \in Complexities,
       scenario \in Scenarios, replanning \in BOOLEAN, budget \in {1000, 5000, Budget} :
        LET plan == P!PlanNode(mode, << >>, shape, complexity, scenario, replanning, budget)
        IN plan # P!NoPlan => Executable(plan)

\* A read-only goal always has such a plan, given the tokens for it.
ASSUME ReadOnlyGoalsHavePlans ==
    \A mode \in {"real", "fake"}, shape \in P!ReadOnly, complexity \in Complexities, replanning \in BOOLEAN :
        P!PlanNode(mode, << >>, shape, complexity, "github_compare_plan", replanning, 5000) # P!NoPlan
=============================================================================
