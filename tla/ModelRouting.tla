---------------------------- MODULE ModelRouting ----------------------------
(***************************************************************************)
(* Model calls through the role routes: TeamRoutingStore, RoleModelRouter  *)
(* and MultiProviderRoutedProvider (app/gateway/multi_provider.py) between *)
(* ModelGateway.generate, the providers that build_provider                *)
(* (app/runner.py) has bound when a run was started, the endpoints under   *)
(* /settings/ai-team, and the telemetry of each call.                      *)
(*                                                                         *)
(* A run keeps the providers and keys of its start and reads the routes at *)
(* every call.  The cost budget of a role is tested against the            *)
(* performance table before a call, and the table is written after it.     *)
(***************************************************************************)
EXTENDS ProviderRegistry, UsageLedger

CONSTANTS
    Builtin,      \* providers without a row (builtin:ollama)
    Roles,
    RouteChoices, \* routes a user may save
    InProject,    \* the threads whose run belongs to the project
    Diagnostic,   \* the threads whose run is a diagnostic one
    Price,        \* what a call costs; also the estimate of an adapter that gives one
    Estimated,    \* adapters that estimate costs; the two that build_provider makes do not
    CostBudget,   \* cost_budget of a route that has one
    Reports,      \* what a provider may report as usage
    Estimate,     \* the tokens estimated for the same call
    MaxRetries,   \* max_retries of generate
    MaxDeaths     \* bound: server deaths

None == "none"

AllProviders == Providers \cup Builtin

ASSUME ModelRoutingAssumption ==
    /\ Providers \cap Builtin = {} /\ Builtin # {}
    /\ IsFiniteSet(Providers) /\ IsFiniteSet(Builtin)
    /\ IsFiniteSet(Clients) /\ Clients # {}
    /\ RouteChoices \subseteq [provider : AllProviders, fallback : AllProviders \cup {None}, capped : BOOLEAN]
    /\ InProject \subseteq Clients /\ Diagnostic \subseteq Clients
    /\ Price \in [AllProviders -> Nat] /\ Estimated \subseteq AllProviders
    /\ CostBudget \in Nat
    /\ Unknown \notin Nat
    /\ Reports \subseteq [prompt : Tokens, completion : Tokens, cached : Tokens, miss : Tokens, total : Tokens]
    /\ Estimate \in [input : Tokens, output : Tokens, cached : Tokens, miss : Tokens, total : Tokens]

VARIABLES
    routes,    \* table role_model_routes, by scope and role
    profiles,  \* table model_performance, by provider and role
    bound,     \* providers that the run of a thread has bound
    (* history *)
    answers,   \* the answers of providers, by call
    deaths

routing == <<routes, profiles, bound>>
routingVars == <<requests, registry, ledger, routing, answers, deaths>>

NoProfile == [calls |-> 0, successes |-> 0, spent |-> 0, known |-> TRUE]

\* No provider is bound, or none is needed.
Unbound == [routed |-> FALSE, with |-> {}]

RoutingInit ==
    /\ call = [c \in Clients |-> Idle]
    /\ served = 0
    /\ RegistryInit
    /\ LedgerInit
    /\ routes = <<>>
    /\ profiles = [a \in AllProviders \X Roles |-> NoProfile]
    /\ bound = [c \in Clients |-> Unbound]
    /\ answers = <<>>
    /\ deaths = 0

(***************************************************************************)
(* Routes                                                                  *)
(***************************************************************************)
Exists(p) == p \in Stored \cup Builtin

\* save_team_route: both providers exist when the route is saved.
SaveRoute(scope, role, route) ==
    /\ Serve
    /\ Exists(route.provider)
    /\ route.fallback = None \/ Exists(route.fallback)
    /\ routes' = Inserted(routes, <<scope, role>>, route)
    /\ UNCHANGED <<call, registry, ledger, profiles, bound, answers, deaths>>

DeleteRoute(scope, role) ==
    /\ Serve
    /\ <<scope, role>> \in DOMAIN routes
    /\ routes' = [r \in DOMAIN routes \ {<<scope, role>>} |-> routes[r]]
    /\ UNCHANGED <<call, registry, ledger, profiles, bound, answers, deaths>>

\* RoleModelRouter.resolve: the project's route before the global one.
Resolved(role, project) ==
    LET scopes == (IF project THEN {"project"} ELSE {}) \cup {"global"}
        found == {s \in scopes : <<s, role>> \in DOMAIN routes}
    IN IF found = {} THEN {}
       ELSE {routes[<<IF "project" \in found THEN "project" ELSE "global", role>>]}

(***************************************************************************)
(* build_provider, when a run is started or resumed                        *)
(***************************************************************************)
StartRun(c) ==
    /\ At(c, "idle")
    /\ LET default == {p \in Stored : rows[p].default /\ Configured(p)}
       IN bound' = [bound EXCEPT ![c] =
              IF routes # <<>>
              THEN [routed |-> TRUE, with |-> {p \in Stored : Configured(p)} \cup Builtin]
              ELSE [routed |-> FALSE, with |-> default]]
    /\ bound' # bound
    /\ UNCHANGED <<requests, registry, ledger, routes, profiles, answers, deaths>>

(***************************************************************************)
(* ModelGateway.generate, MultiProviderRoutedProvider.generate             *)
(***************************************************************************)
Kinds == {"model", "probe", "team"}

\* A call to provider p: whose it is, what it falls back to, and whether the
\* provider has answered in place of another.
Call(id, kind, role, p, fallback, capped) ==
    [pc |-> "send", id |-> id, kind |-> kind, role |-> role, p |-> p, fallback |-> fallback,
     capped |-> capped, second |-> FALSE, attempt |-> 0, retry |-> FALSE,
     response |-> None, row |-> None]

Routed(c) == call[c].kind = "model" /\ bound[c].routed

\* estimate_usage resolves the route a first time; without one the call fails.
Generate(c, role) ==
    /\ \/ /\ bound[c].routed
          /\ Resolved(role, c \in InProject) # {}
          /\ Begin(c, [Call(served + 1, "model", role, None, None, FALSE) EXCEPT !.pc = "resolve"])
       \/ \E p \in bound[c].with :
             ~bound[c].routed /\ Begin(c, Call(served + 1, "model", role, p, None, FALSE))
    /\ UNCHANGED <<registry, ledger, routing, answers, deaths>>

\* generate resolves it again, at every attempt.
Resolve(c) ==
    /\ At(c, "resolve")
    /\ LET decision == Resolved(call[c].role, c \in InProject)
       IN \/ decision = {} /\ Finish(c)
          \/ \E route \in decision :
                Become(c, [call[c] EXCEPT !.pc = "admit", !.p = route.provider, !.second = FALSE,
                                          !.fallback = route.fallback, !.capped = route.capped])
    /\ UNCHANGED <<registry, ledger, routing, answers, deaths>>

\* The role's spending with all providers.
Spent(role) == SumFunction([q \in AllProviders |-> profiles[<<q, role>>].spent])

\* Mutant: an unknown cost counts as nothing.
BugWithinBudget(p, role) == p \in Estimated /\ Spent(role) + Price[p] <= CostBudget

\* _enforce_role_cost_budget: refused also when the adapter gives no estimate, or when
\* the cost of one earlier call of the role is unknown.
WithinBudget(p, role) ==
    /\ p \in Estimated
    /\ \A q \in AllProviders : profiles[<<q, role>>].known
    /\ Spent(role) + Price[p] <= CostBudget

\* An error leaves the routed provider.  generate retries a retryable one of a run;
\* the tests allow no retry and write the provider's status.
Leave(c, retryable) ==
    CASE call[c].kind = "probe" -> Become(c, Update(call[c].p, "status", Idle))
      [] call[c].kind = "team" -> Become(c, Update(call[c].p, "status", [call[c] EXCEPT !.pc = "fault"]))
      [] call[c].kind = "model" /\ retryable /\ call[c].attempt < MaxRetries ->
             Become(c, [call[c] EXCEPT !.pc = IF Routed(c) THEN "resolve" ELSE "send", !.attempt = @ + 1])
      [] OTHER -> Finish(c)

\* A ProviderError of the first provider is recorded, one of its fallback is not.
Raise(c, retryable) ==
    IF Routed(c) /\ ~call[c].second
    THEN Become(c, [call[c] EXCEPT !.pc = "fault", !.retry = retryable])
    ELSE Leave(c, retryable)

\* MultiProviderRoutedProvider._call
Admit(c) ==
    /\ At(c, "admit")
    /\ IF call[c].p \in bound[c].with /\ (call[c].capped => WithinBudget(call[c].p, call[c].role))
       THEN Goto(c, "send")
       ELSE Raise(c, FALSE)
    /\ UNCHANGED <<registry, ledger, routing, answers, deaths>>

ProviderFails(c) ==
    /\ At(c, "send")
    /\ \E retryable \in BOOLEAN : Raise(c, retryable)
    /\ UNCHANGED <<registry, ledger, routing, answers, deaths>>

\* _parse_success: the usage of the answer or, when it has none, the estimate; the cost
\* only from an adapter that knows it.
Response(p, tokens, source) ==
    [provider |-> p, tokens |-> tokens, source |-> source,
     cost |-> IF source = "REPORTED" /\ p \in Estimated THEN Price[p] ELSE Unknown]

Answered(c, response) ==
    /\ Become(c, [call[c] EXCEPT !.pc = IF Routed(c) THEN "credit" ELSE "settle",
                                 !.response = response])
    /\ answers' = Inserted(answers, call[c].id, [provider |-> call[c].p, role |-> call[c].role,
                                                 routed |-> Routed(c), capped |-> call[c].capped])
    /\ UNCHANGED <<registry, ledger, routing, deaths>>

\* The provider answers, and is to be paid.
ProviderAnswers(c) ==
    /\ At(c, "send")
    /\ \/ \E raw \in Reports : Answered(c, Response(call[c].p, OpenAIUsage(raw), "REPORTED"))
       \/ Answered(c, Response(call[c].p, Estimate, "ESTIMATED"))

(***************************************************************************)
(* TeamRoutingStore.record_call                                            *)
(***************************************************************************)
\* A success adds its cost; an unknown cost, also that of a failure, makes the sum
\* unknown from then on.
Credited(p, role, success, cost) ==
    [profiles EXCEPT ![<<p, role>>] =
        [calls |-> @.calls + 1,
         successes |-> @.successes + (IF success THEN 1 ELSE 0),
         spent |-> IF @.known /\ Known(cost) THEN @.spent + cost ELSE 0,
         known |-> @.known /\ Known(cost)]]

Credit(c) ==
    /\ At(c, "credit")
    /\ profiles' = Credited(call[c].p, call[c].role, TRUE, call[c].response.cost)
    /\ IF call[c].kind = "team" THEN Finish(c) ELSE Goto(c, "settle")
    /\ UNCHANGED <<registry, ledger, routes, bound, answers, deaths>>

Fault(c) ==
    /\ At(c, "fault")
    /\ profiles' = Credited(call[c].p, call[c].role, FALSE, Unknown)
    /\ CASE call[c].kind = "team" -> Finish(c)
         [] call[c].kind = "model" /\ call[c].fallback # None ->
                Become(c, [call[c] EXCEPT !.pc = "admit", !.p = call[c].fallback, !.second = TRUE])
         [] OTHER -> Leave(c, call[c].retry)
    /\ UNCHANGED <<registry, ledger, routes, bound, answers, deaths>>

(***************************************************************************)
(* ModelGateway.generate after the answer                                  *)
(***************************************************************************)
\* After a probe the provider's invocation status is written, whether or not the answer
\* has stood up to the schema; the team test then records the call of its role, as a
\* success or as a failure.  Requests for repair within a call are left out.
AfterCall(c) ==
    CASE call[c].kind = "model" -> Finish(c)
      [] call[c].kind = "probe" -> Become(c, Update(call[c].p, "status", Idle))
      [] call[c].kind = "team" ->
             \E verdict \in {"credit", "fault"} :
                Become(c, Update(call[c].p, "status", [call[c] EXCEPT !.pc = verdict]))

\* The price table is asked when the adapter gave no cost.
Costs(response) ==
    IF Known(response.cost) THEN {response.cost} ELSE {Unknown, Price[response.provider]}

Scope(c) == IF call[c].kind = "model" THEN "user_task" ELSE "diagnostic"

\* The run of a thread is its task; a probe is a task of its own.
TaskOf(c) == IF call[c].kind = "model" THEN c ELSE None

\* The budget of the task records the answer, or it is exceeded and nothing more is
\* written; otherwise the usage is.
Settle(c) ==
    /\ At(c, "settle")
    /\ \/ /\ Leave(c, FALSE)
          /\ UNCHANGED ledger
       \/ \E cost \in Costs(call[c].response) :
             LET row == Normalized(TaskOf(c), Scope(c), call[c].response, cost)
             IN /\ Record(call[c].id, row)
                /\ Become(c, [call[c] EXCEPT !.pc = "observe", !.row = row])
    /\ UNCHANGED <<registry, routing, answers, deaths>>

\* The second transaction; without a cache preparation it is left out.
Observe(c) ==
    /\ At(c, "observe")
    /\ \/ RecordObservation(call[c].id, call[c].row)
       \/ UNCHANGED ledger
    /\ AfterCall(c)
    /\ UNCHANGED <<registry, routing, answers, deaths>>

(***************************************************************************)
(* Tests of a provider's model and of the team                             *)
(***************************************************************************)
TestModel(c, p) ==
    /\ p \in Stored /\ Configured(p)
    /\ Begin(c, Call(served + 1, "probe", None, p, None, FALSE))
    /\ UNCHANGED <<registry, ledger, routing, answers, deaths>>

\* test_ai_team calls the provider of the role's global route; no cost budget is
\* tested.  A builtin provider is not called.
TestTeam(c, role) ==
    /\ \E route \in Resolved(role, FALSE) :
          /\ route.provider \in Stored /\ Configured(route.provider)
          /\ Begin(c, Call(served + 1, "team", role, route.provider, None, FALSE))
    /\ UNCHANGED <<registry, ledger, routing, answers, deaths>>

Die ==
    /\ deaths < MaxDeaths
    /\ deaths' = deaths + 1
    /\ RegistryAfterDeath
    /\ call' = [c \in Clients |-> Idle]
    /\ bound' = [c \in Clients |-> Unbound]
    /\ UNCHANGED <<served, ledger, routes, profiles, answers>>

Person ==
    \/ \E role \in Roles, scope \in {"project", "global"} :
          \/ \E route \in RouteChoices : SaveRoute(scope, role, route)
          \/ DeleteRoute(scope, role)

ModelCall(c) ==
    \/ StartRun(c)
    \/ \E role \in Roles : Generate(c, role) \/ TestTeam(c, role)
    \/ \E p \in Providers : TestModel(c, p)
    \/ Resolve(c) \/ Admit(c) \/ ProviderFails(c) \/ ProviderAnswers(c)
    \/ Credit(c) \/ Fault(c)
    \/ Settle(c) \/ Observe(c)

RegistryRequest(c) == RegistryStep(c) /\ UNCHANGED <<ledger, routing, answers, deaths>>

LedgerRequest ==
    /\ \/ \E t \in Diagnostic : SetScope(t)
       \/ \E c \in Clients : Prune(c) \/ \E forever \in BOOLEAN : SetRetention(c, forever)
       \/ Tick
    /\ UNCHANGED <<registry, routing, answers, deaths>>

RoutingNext ==
    \/ Person
    \/ \E c \in Clients : ModelCall(c) \/ RegistryRequest(c)
    \/ LedgerRequest
    \/ Die

RoutingSpec == RoutingInit /\ [][RoutingNext]_routingVars
----------------------------------------------------------------------------
\* "A configured per-role cost limit fails closed when cost cannot be verified": runs
\* that test the budget of a role before either has recorded its call overshoot it,
\* but by no more than one call of each other run, over all providers and fallbacks, as
\* long as every call of the role went through a route with a budget and the server
\* has not died between a call and its record.
RoleBudgetHolds ==
    \A role \in Roles :
        LET asked == {id \in DOMAIN answers : answers[id].role = role}
        IN (deaths = 0 /\ \A id \in asked : answers[id].routed /\ answers[id].capped)
               => SumFunction([id \in asked |-> Price[answers[id].provider]])
                      <= CostBudget + (Cardinality(Clients) - 1) * Max({Price[p] : p \in AllProviders})

\* A call is charged to the provider that has answered it, whatever route, fallback
\* or retry led there and however the routes were changed meanwhile.
Attributed ==
    \A id \in DOMAIN usage :
        /\ id \in DOMAIN answers
        /\ usage[id].provider = answers[id].provider

\* The two accounts of a role agree: while no call is under way, the performance table
\* counts every answer to a routed call once.
AnswersCounted ==
    (deaths = 0 /\ \A c \in Clients : At(c, "idle")) =>
        \A p \in AllProviders, role \in Roles :
            Cardinality({id \in DOMAIN answers : answers[id].routed /\ answers[id].provider = p
                                                  /\ answers[id].role = role})
                <= profiles[<<p, role>>].successes

\* Where the performance table knows the cost of a provider, the usage view never
\* shows more for the same calls.
CostsAgree ==
    \A p \in AllProviders, role \in Roles :
        LET ids == {id \in DOMAIN usage : answers[id].routed /\ answers[id].provider = p
                                           /\ answers[id].role = role}
        IN (profiles[<<p, role>>].known /\ ids # {}) => CostOf(ids) <= profiles[<<p, role>>].spent

\* The report of a call fits together: cached input is part of the input, and a miss that
\* the provider reports is the rest of it.
AddsUp(tokens) ==
    /\ Known(tokens.input) /\ tokens.cached <= tokens.input
    /\ Known(tokens.miss) => tokens.cached + tokens.miss = tokens.input

\* What the usage view calls cache hits and misses adds up to the input of the calls it
\* counts, each call once, whether its miss was reported or derived, for the calls whose
\* own report fits together; a provider's numbers that do not are shown as they came.
HitsAndMissesAddUp ==
    LET ids == {id \in CacheRows(DOMAIN usage) : AddsUp(usage[id].tokens)}
    IN ids # {} => CacheHits(ids) + CacheMisses(ids) = TokensOf(ids, "input")

AccountsAgree == HitsAndMissesAddUp /\ ObservationsShown /\ Attributed /\ AnswersCounted /\ CostsAgree

RegistryConsistent == OneDefault /\ KeysHaveProvider
=============================================================================
