----------------------------- MODULE UsageLedger -----------------------------
(***************************************************************************)
(* The telemetry of model calls: UsageStore (app/usage/store.py) with the  *)
(* rows that UsageReconciler (app/usage/reconciler.py) builds, the scope   *)
(* that a task list gives to diagnostic runs (app/runner.py) and the       *)
(* retention set under /settings/usage (app/api/server.py).                *)
(*                                                                         *)
(* A call is recorded in two transactions, its usage and its cache         *)
(* observation.                                                            *)
(***************************************************************************)
EXTENDS Requests, FiniteSets, FiniteSetsExt, Functions

CONSTANTS
    Unknown,   \* a value the provider has not given: NULL
    MaxTime    \* bound: the clock

VARIABLES
    usage,          \* table model_usage, by call_id
    observations,   \* table cache_observations, by call_id
    retained,       \* retention_days: TRUE for ever, FALSE only what is of today
    now,
    (* history *)
    split,          \* calls relabelled between their two transactions
    pruned          \* rows were deleted

ledger == <<usage, observations, retained, now, split, pruned>>

LedgerInit ==
    /\ usage = <<>>
    /\ observations = <<>>
    /\ retained = FALSE
    /\ now = 0
    /\ split = {}
    /\ pruned = FALSE

(***************************************************************************)
(* A call                                                                  *)
(***************************************************************************)
Known(value) == value # Unknown

\* A number of tokens, or NULL.
Tokens == Nat \cup {Unknown}

\* openai_usage and _reported_cache_miss: what a provider reports is taken as it is,
\* also where its numbers do not fit together; a missing total is the sum of what is
\* known.
OpenAIUsage(raw) ==
    [input |-> raw.prompt, output |-> raw.completion, cached |-> raw.cached, miss |-> raw.miss,
     total |-> IF Known(raw.total) THEN raw.total
               ELSE IF Known(raw.prompt) /\ Known(raw.completion) THEN raw.prompt + raw.completion
               ELSE Unknown]

\* UsageReconciler.response: the identity of the provider that has answered, and what
\* is missing stays unknown.
Normalized(task, scope, response, cost) ==
    [task |-> task, scope |-> scope, provider |-> response.provider,
     tokens |-> response.tokens, source |-> response.source, cost |-> cost, at |-> now]

Record(id, row) ==
    /\ usage' = Inserted(usage, id, row)
    /\ UNCHANGED <<observations, retained, now, split, pruned>>

RecordObservation(id, row) ==
    /\ observations' = Inserted(observations, id, [task |-> row.task, scope |-> row.scope, at |-> now])
    /\ UNCHANGED <<usage, retained, now, split, pruned>>

(***************************************************************************)
(* Scope, retention                                                        *)
(***************************************************************************)
\* Mutant: only the usage rows are relabelled.
BugRelabelled(table, task) == IF table = usage THEN [id \in DOMAIN table |->
    IF table[id].task = task THEN [table[id] EXCEPT !.scope = "diagnostic"] ELSE table[id]] ELSE table

Relabelled(table, task) ==
    [id \in DOMAIN table |->
        IF table[id].task = task THEN [table[id] EXCEPT !.scope = "diagnostic"] ELSE table[id]]

\* The calls of the task that are between their two transactions.
Observing(task) ==
    {call[c].id : c \in {d \in Clients : At(d, "observe") /\ call[d].row.task = task}}

\* set_scope, by every list of the tasks, for a run that turned out to be diagnostic.
SetScope(task) ==
    /\ usage' = Relabelled(usage, task)
    /\ observations' = Relabelled(observations, task)
    /\ split' = split \cup Observing(task)
    /\ UNCHANGED <<retained, now, pruned, requests>>

\* set_retention writes the setting and prunes in a transaction of its own.
SetRetention(c, forever) ==
    /\ forever # retained
    /\ retained' = forever
    /\ Begin(c, [pc |-> "prune"])
    /\ UNCHANGED <<usage, observations, now, split, pruned>>

Kept(table) == LET ids == {id \in DOMAIN table : table[id].at >= now}
               IN [id \in ids |-> table[id]]

\* prune reads the setting again: it may be another request's.
Prune(c) ==
    /\ At(c, "prune")
    /\ IF retained
       THEN UNCHANGED <<usage, observations, pruned>>
       ELSE /\ usage' = Kept(usage)
            /\ observations' = Kept(observations)
            /\ pruned' = TRUE
    /\ Finish(c)
    /\ UNCHANGED <<retained, now, split>>

Tick ==
    /\ now < MaxTime
    /\ now' = now + 1
    /\ UNCHANGED <<usage, observations, retained, split, pruned, requests>>

(***************************************************************************)
(* summary                                                                 *)
(***************************************************************************)
\* summed: what is missing does not count, and nothing at all is unknown.
Summed(values) ==
    LET known == {id \in DOMAIN values : Known(values[id])}
    IN IF known = {} THEN Unknown ELSE SumFunction([id \in known |-> values[id]])

TokensOf(ids, field) == Summed([id \in ids |-> usage[id].tokens[field]])

\* cost_total: unknown as soon as the cost of one call is.
CostOf(ids) ==
    IF \A id \in ids : Known(usage[id].cost) THEN Summed([id \in ids |-> usage[id].cost]) ELSE Unknown

\* Cache hits and misses count for calls with cached input of which the miss is
\* reported or can be derived.
CacheRows(ids) ==
    {id \in ids : /\ Known(usage[id].tokens.cached)
                  /\ Known(usage[id].tokens.miss) \/ Known(usage[id].tokens.input)}

CacheMiss(tokens) ==
    IF Known(tokens.miss) THEN tokens.miss ELSE Max({0, tokens.input - tokens.cached})

CacheHits(ids) == TokensOf(CacheRows(ids), "cached")

CacheMisses(ids) == Summed([id \in CacheRows(ids) |-> CacheMiss(usage[id].tokens)])

\* The observations that summary shows: those that agree with a selected call on its
\* scope and task.
Diagnosed(ids) ==
    {id \in ids \cap DOMAIN observations :
        observations[id].scope = usage[id].scope /\ observations[id].task = usage[id].task}
-----------------------------------------------------------------------------
\* A cache observation is shown with its call: its scope is that of the usage row,
\* however lists of the tasks come between, unless one came between the two
\* transactions of the call itself.
ObservationsShown ==
    LET both == DOMAIN usage \cap DOMAIN observations
    IN both \ split \subseteq Diagnosed(DOMAIN usage)
=============================================================================
