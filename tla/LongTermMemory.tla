--------------------------- MODULE LongTermMemory ---------------------------
(***************************************************************************)
(* Long-term memory and adaptive personalization: proposals, confirmed     *)
(* memories, their full-text index, forgetting, expiry and supersession    *)
(* (app/memory), preferences proposed from repeated signals and kept quiet *)
(* after a refusal (app/personalization), and the runs that take memories  *)
(* into their prompts (app/runner.py).                                     *)
(*                                                                         *)
(* Every request builds its own MemoryStore, so the store's lock excludes  *)
(* nobody.  What a call selects before its first write it has read outside *)
(* the transaction that writes: one step reads, a later one writes.        *)
(* User, type and predicate of a memory are the same everywhere and left   *)
(* out, so a fact is a scope and a subject.  So is version: an active      *)
(* memory has version 1 and leaves that status with a higher one.          *)
(***************************************************************************)
EXTENDS Naturals, Sequences, FiniteSets, SequencesExt

CONSTANTS
    Subjects, Values, Projects,
    Global,        \* project_id is NULL
    Wiped,         \* the empty value of a forgotten memory
    Tasks,         \* tasks that preference signals come from
    SettingsInputs, \* what a user may save: enabled, auto, detection, ttl
    Callers,       \* API threads, and the graph threads of runs
    SignalsNeeded, \* 3 distinct tasks before a preference is proposed
    Cooldown,      \* 3 tasks without a proposal after a refusal
    MaxProposals, MaxMemories, MaxRuns, MaxCalls, MaxTime \* bounds

Scopes == Projects \cup {Global}
ASSUME MemoryAssumption ==
    /\ Global \notin Projects /\ Wiped \notin Values
    /\ IsFiniteSet(Values) /\ IsFiniteSet(Subjects) /\ IsFiniteSet(Projects)
    /\ SignalsNeeded \in Nat \ {0} /\ Cooldown \in Nat
    /\ {MaxProposals, MaxMemories, MaxRuns, MaxCalls, MaxTime} \subseteq Nat

VARIABLES
    memories,   \* rows: scope, subject, value, status, due, from (supersedes), by (superseded_by)
    index,      \* memories in memories_fts
    proposals,  \* rows: scope, subject, value, status, due, observed
    settings,   \* memory_settings
    signals,    \* preference_signals
    refused,    \* personalization_suppressions
    started,    \* personalization_task_counters
    runs,       \* memory_refs and personalization_applied in the checkpoint
    now,        \* clock, in hours
    call,       \* what each caller is about to do
    calls,      \* calls so far
    decided,    \* history: decisions committed for each proposal
    overlapped  \* history: proposals that two calls decided at once

history == <<calls, decided, overlapped>>
store == <<memories, index, proposals>>
adaptive == <<signals, refused, started>>
vars == <<memories, index, proposals, settings, signals, refused, started, runs, now, call, history>>

None == 0
Never == MaxTime + 1
Facts == Scopes \X Subjects
Active(m) == memories[m].status = "active"
FactOf(row) == <<row.scope, row.subject>>
InForce(f) == {m \in DOMAIN memories : Active(m) /\ FactOf(memories[m]) = f}
Due == {m \in DOMAIN memories : Active(m) /\ memories[m].due <= now}

Init ==
    /\ memories = <<>> /\ index = {} /\ proposals = <<>>
    /\ settings = [enabled |-> TRUE, auto |-> FALSE, detection |-> TRUE, ttl |-> FALSE]
    /\ signals = {} /\ started = [s \in Scopes |-> 0]
    /\ refused = [f \in Facts |-> [until |-> 0, forever |-> FALSE]]
    /\ runs = <<>> /\ now = 0
    /\ call = [c \in Callers |-> [pc |-> "idle"]]
    /\ calls = 0 /\ decided = <<>> /\ overlapped = {}

(***************************************************************************)
(* Calls                                                                   *)
(***************************************************************************)
Idle == [pc |-> "idle"]
Goto(c, next) == call' = [call EXCEPT ![c] = next]
Begin(c, first) ==
    /\ call[c].pc = "idle" /\ calls < MaxCalls
    /\ calls' = calls + 1 /\ Goto(c, first)
At(c, pc) == call[c].pc = pc

\* get, list and search expire what is due first: the rows are selected, then updated.
AfterExpiry(next) == IF Due = {} THEN next ELSE [pc |-> "expire", due |-> Due, then |-> next]
\* The update asks for no status again.
Expire(c) ==
    /\ At(c, "expire")
    /\ memories' = [m \in DOMAIN memories |->
           IF m \in call[c].due THEN [memories[m] EXCEPT !.status = "expired"] ELSE memories[m]]
    /\ index' = index \ call[c].due
    /\ Goto(c, call[c].then)
    /\ UNCHANGED <<proposals, settings, adaptive, runs, now, history>>

(***************************************************************************)
(* Proposals and decisions                                                 *)
(***************************************************************************)
Proposal(f, value, due, observed) ==
    [scope |-> f[1], subject |-> f[2], value |-> value, status |-> "proposed",
     due |-> due, observed |-> observed]
\* A policy that refuses persists nothing.
AddProposal(row) ==
    /\ Len(proposals) < MaxProposals
    /\ proposals' = Append(proposals, row) /\ decided' = Append(decided, <<>>)

Propose(c, f, value) ==
    /\ Begin(c, Idle)
    /\ AddProposal(Proposal(f, value, Never, FALSE))
    /\ UNCHANGED <<memories, index, settings, adaptive, runs, now, overlapped>>

Deciding(p) == {d \in Callers : call[d].pc \in {"confirm", "reject"} /\ call[d].p = p}
\* The part of confirm_proposal before its first write.
ConfirmWith(p, value) ==
    LET row == proposals[p]
        old == InForce(FactOf(row))
    IN [pc |-> "confirm", p |-> p, value |-> value,
        old |-> IF old = {} THEN None ELSE CHOOSE m \in old : TRUE]
Confirm(c, p, value) ==
    /\ proposals[p].status = "proposed"
    /\ Begin(c, ConfirmWith(p, value))
    /\ overlapped' = overlapped \cup (IF Deciding(p) = {} THEN {} ELSE {p})
    /\ UNCHANGED <<store, settings, adaptive, runs, now, decided>>
\* The automatic confirmation, and that of a replacement, read in a step of their own.
ConfirmNext(c) ==
    /\ At(c, "confirmNext")
    /\ LET p == call[c].p
       IN IF proposals[p].status = "proposed"
          THEN /\ Goto(c, ConfirmWith(p, proposals[p].value))
               /\ overlapped' = overlapped \cup (IF Deciding(p) = {} THEN {} ELSE {p})
          ELSE Goto(c, Idle) /\ UNCHANGED overlapped
    /\ UNCHANGED <<store, settings, adaptive, runs, now, calls, decided>>

\* The old memory is superseded, the new one inserted, and the old one linked to it.
Superseding(old, new) ==
    IF old = None THEN memories
    ELSE [memories EXCEPT ![old].status = "superseded", ![old].by = new]
BugIndexed(old, new) == index \cup {new}
Indexed(old, new) == (index \ {old}) \cup {new}

\* One transaction; uq_active_memory_fact refuses it, with IntegrityError and a
\* rollback, when another memory of the fact is in force by now.
ConfirmWrite(c) ==
    /\ At(c, "confirm")
    /\ LET p == call[c].p
           row == proposals[p]
           old == call[c].old
           new == Len(memories) + 1
       IN IF InForce(FactOf(row)) \ {old} # {}
          THEN UNCHANGED <<store, decided>>
          ELSE /\ Len(memories) < MaxMemories
               /\ memories' = Append(Superseding(old, new),
                      [scope |-> row.scope, subject |-> row.subject, value |-> call[c].value,
                       status |-> "active", due |-> row.due, from |-> old, by |-> None])
               /\ index' = Indexed(old, new)
               /\ proposals' = [proposals EXCEPT ![p].status = "confirmed"]
               /\ decided' = [decided EXCEPT ![p] = Append(@, "confirmed")]
    /\ Goto(c, Idle)
    /\ UNCHANGED <<settings, adaptive, runs, now, calls, overlapped>>

\* reject_proposal; then what the personalization decision adds to it.
Reject(c, p, then) ==
    /\ proposals[p].status = "proposed"
    /\ Begin(c, [pc |-> "reject", p |-> p, then |-> then])
    /\ overlapped' = overlapped \cup (IF Deciding(p) = {} THEN {} ELSE {p})
    /\ UNCHANGED <<store, settings, adaptive, runs, now, decided>>
BugRefused(p) == proposals
Refused(p) == [proposals EXCEPT ![p].status = "rejected"]
RejectWrite(c) ==
    /\ At(c, "reject")
    /\ proposals' = Refused(call[c].p)
    /\ decided' = [decided EXCEPT ![call[c].p] = Append(@, "rejected")]
    /\ Goto(c, call[c].then)
    /\ UNCHANGED <<memories, index, settings, adaptive, runs, now, calls, overlapped>>

\* "no" and "suppress": the refusal is kept in another database.  (task_count is read
\* just before; a task that begins in between shortens the silence by itself.)
KeepQuiet(c) ==
    /\ At(c, "quiet")
    /\ LET f == FactOf(proposals[call[c].p])
       IN refused' = [refused EXCEPT ![f] = [until |-> started[f[1]] + Cooldown,
                                             forever |-> call[c].forever]]
    /\ Goto(c, Idle)
    /\ UNCHANGED <<store, settings, signals, started, runs, now, calls, decided, overlapped>>

\* "project": a confirmed proposal for the project takes its place.
Replace(c) ==
    /\ At(c, "replace")
    /\ LET old == proposals[call[c].p]
       IN AddProposal(Proposal(<<call[c].to, old.subject>>, old.value, Never, FALSE))
    /\ Goto(c, [pc |-> "confirmNext", p |-> Len(proposals) + 1])
    /\ UNCHANGED <<memories, index, settings, adaptive, runs, now, calls, overlapped>>

Decide(c, p) ==
    \/ \E v \in Values : Confirm(c, p, v)
    \/ Reject(c, p, Idle)
    \/ \E forever \in BOOLEAN : Reject(c, p, [pc |-> "quiet", p |-> p, forever |-> forever])
    \/ \E to \in Projects : Reject(c, p, [pc |-> "replace", p |-> p, to |-> to])

(***************************************************************************)
(* Forgetting                                                              *)
(***************************************************************************)
\* "Wipe content, not only status": whatever the status was.
Forgotten(m) == [memories EXCEPT ![m].status = "forgotten", ![m].value = Wiped]
Forget(c, m) ==
    /\ Begin(c, Idle)
    /\ memories' = Forgotten(m) /\ index' = index \ {m}
    /\ UNCHANGED <<proposals, settings, adaptive, runs, now, decided, overlapped>>

\* DELETE /memory lists the memories and forgets them one by one.
ForgetAll(c) ==
    /\ Begin(c, AfterExpiry([pc |-> "list"]))
    /\ UNCHANGED <<store, settings, adaptive, runs, now, decided, overlapped>>
List(c) ==
    /\ At(c, "list")
    /\ Goto(c, [pc |-> "forget",
                todo |-> {m \in DOMAIN memories :
                             memories[m].status \notin {"forgotten", "expired"}}])
    /\ UNCHANGED <<store, settings, adaptive, runs, now, history>>
ForgetNext(c) ==
    /\ At(c, "forget")
    /\ IF call[c].todo = {} THEN Goto(c, Idle) /\ UNCHANGED <<memories, index>>
       ELSE \E m \in call[c].todo :
            /\ memories' = Forgotten(m) /\ index' = index \ {m}
            /\ Goto(c, [call[c] EXCEPT !.todo = @ \ {m}])
    /\ UNCHANGED <<proposals, settings, adaptive, runs, now, history>>

(***************************************************************************)
(* Preference signals                                                      *)
(***************************************************************************)
CanPropose(f) == ~refused[f].forever /\ started[f[1]] >= refused[f].until

Observe(c, f, value, task) ==
    /\ settings.enabled /\ settings.detection /\ CanPropose(f)
    /\ Begin(c, [pc |-> "signal", f |-> f, value |-> value, task |-> task, at |-> now])
    /\ UNCHANGED <<store, settings, adaptive, runs, now, decided, overlapped>>
\* INSERT OR IGNORE: one signal of a value for each task, whatever its project.
SaveSignal(c) ==
    /\ At(c, "signal")
    /\ LET k == call[c]
           known == \E s \in signals : s.subject = k.f[2] /\ s.value = k.value /\ s.task = k.task
       IN signals' = IF known THEN signals
                     ELSE signals \cup {[subject |-> k.f[2], value |-> k.value,
                                         task |-> k.task, at |-> k.at]}
    /\ Goto(c, [call[c] EXCEPT !.pc = "count"])
    /\ UNCHANGED <<store, settings, refused, started, runs, now, history>>
\* Three tasks, an hour between two of them, and no such proposal pending.
Enough(subject, value) ==
    LET same == {s \in signals : s.subject = subject /\ s.value = value}
    IN /\ Cardinality(same) >= SignalsNeeded
       /\ \E s, t \in same : t.at > s.at
Pending(subject, value) == \E p \in DOMAIN proposals :
    proposals[p].status = "proposed" /\ proposals[p].subject = subject /\ proposals[p].value = value
CountSignals(c) ==
    /\ At(c, "count")
    /\ Goto(c, IF Enough(call[c].f[2], call[c].value) /\ ~Pending(call[c].f[2], call[c].value)
               THEN [call[c] EXCEPT !.pc = "observed"] ELSE Idle)
    /\ UNCHANGED <<store, settings, adaptive, runs, now, history>>
ProposeObserved(c) ==
    /\ At(c, "observed")
    /\ AddProposal(Proposal(call[c].f, call[c].value, Never, TRUE))
    /\ Goto(c, Idle)
    /\ UNCHANGED <<memories, index, settings, adaptive, runs, now, calls, overlapped>>

(***************************************************************************)
(* Runs                                                                    *)
(***************************************************************************)
InScope(m, scope) == memories[m].scope \in {scope, Global}
\* retrieve: active memories of the scope, one for a subject; which of them the query
\* and the budget leave is not modelled.
Retrieved(scope) ==
    {S \in SUBSET {m \in DOMAIN memories : Active(m) /\ InScope(m, scope)} :
        /\ settings.enabled \/ S = {}
        /\ \A m, n \in S : memories[m].subject = memories[n].subject => m = n}
\* derive prefers an active memory of the project to a global one.  It does not ask
\* settings.enabled.  Controls and the words of the goal may decide a subject instead.
Derived(scope) ==
    LET Pick(s) == IF InForce(<<scope, s>>) # {} THEN InForce(<<scope, s>>) ELSE InForce(<<Global, s>>)
    IN SUBSET UNION {{<<m, memories[m].value>> : m \in Pick(s)} : s \in Subjects}

\* run_task, up to the graph.
Start(c, scope) ==
    /\ Len(runs) < MaxRuns
    /\ Begin(c, AfterExpiry([pc |-> "refs", scope |-> scope]))
    /\ UNCHANGED <<store, settings, adaptive, runs, now, decided, overlapped>>
RefsForTask(c) ==
    /\ At(c, "refs")
    /\ \E refs \in Retrieved(call[c].scope) :
           Goto(c, [pc |-> "count task", scope |-> call[c].scope, refs |-> refs])
    /\ UNCHANGED <<store, settings, adaptive, runs, now, history>>
BeginTask(c) ==
    /\ At(c, "count task")
    /\ started' = [started EXCEPT ![call[c].scope] = @ + 1]
    /\ Goto(c, AfterExpiry([call[c] EXCEPT !.pc = "profile"]))
    /\ UNCHANGED <<store, settings, signals, refused, runs, now, history>>
Loading(r, refs, then) ==
    IF settings.enabled
    THEN [pc |-> "load", r |-> r, todo |-> refs, got |-> {},
          gone |-> {m \in DOMAIN memories : ~Active(m)}, then |-> then]
    ELSE then
Profile(c) ==
    /\ At(c, "profile") /\ Len(runs) < MaxRuns
    /\ LET k == call[c]
           r == Len(runs) + 1
       IN \E applied \in Derived(k.scope) :
          /\ runs' = Append(runs, [scope |-> k.scope, refs |-> k.refs, applied |-> applied,
                                   used |-> {}, ready |-> FALSE])
          /\ Goto(c, Loading(r, k.refs, [pc |-> "detect", r |-> r]))
    /\ UNCHANGED <<store, settings, adaptive, now, history>>
\* The goal may state a preference; it is saved at once when the settings allow it.
Detect(c) ==
    /\ At(c, "detect")
    /\ runs' = [runs EXCEPT ![call[c].r].ready = TRUE]
    /\ \/ Goto(c, Idle) /\ UNCHANGED <<proposals, decided>>
       \/ /\ settings.enabled
          /\ \E s \in Subjects, v \in Values :
                AddProposal(Proposal(<<runs[call[c].r].scope, s>>, v,
                                     IF settings.ttl THEN now + 1 ELSE Never, FALSE))
          /\ \/ Goto(c, Idle)
             \/ settings.auto /\ Goto(c, [pc |-> "confirmNext", p |-> Len(proposals) + 1])
    /\ UNCHANGED <<memories, index, settings, adaptive, now, calls, overlapped>>

\* A role's prompt: the references of the checkpoint are resolved one by one, and
\* personalization_applied is added as it is, also after a resume.
Prompt(c, r) ==
    /\ runs[r].ready
    /\ Begin(c, Loading(r, runs[r].refs, Idle))
    /\ UNCHANGED <<store, settings, adaptive, runs, now, decided, overlapped>>
LoadNext(c) ==
    /\ At(c, "load")
    /\ IF call[c].todo = {} THEN Goto(c, call[c].then)
       ELSE \E m \in call[c].todo : Goto(c, AfterExpiry([pc |-> "get", m |-> m, load |-> call[c]]))
    /\ UNCHANGED <<store, settings, adaptive, runs, now, history>>
BugUsable(m) == m \in DOMAIN memories
Usable(m) == Active(m)
Get(c) ==
    /\ At(c, "get")
    /\ LET m == call[c].m
           load == [call[c].load EXCEPT !.todo = @ \ {m}]
       IN Goto(c, IF Usable(m) THEN [pc |-> "use", m |-> m, value |-> memories[m].value,
                                     load |-> load]
                  ELSE load)
    /\ UNCHANGED <<store, settings, adaptive, runs, now, history>>
\* record_usage does not look at the memory again.
RecordUsage(c) ==
    /\ At(c, "use")
    /\ LET k == call[c]
       IN /\ runs' = [runs EXCEPT ![k.load.r].used = @ \cup {k.m}]
          /\ Goto(c, [k.load EXCEPT !.got = @ \cup {<<k.m, k.value>>}])
    /\ UNCHANGED <<store, settings, adaptive, now, history>>

(***************************************************************************)
(* The rest                                                                *)
(***************************************************************************)
SaveSettings(c, s) ==
    /\ Begin(c, Idle) /\ s # settings /\ settings' = s
    /\ UNCHANGED <<store, adaptive, runs, now, decided, overlapped>>
Tick ==
    /\ now < MaxTime /\ now' = now + 1
    /\ UNCHANGED <<store, settings, adaptive, runs, call, history>>
\* The server dies: what was committed stays.
Die ==
    /\ call' = [c \in Callers |-> Idle]
    /\ UNCHANGED <<store, settings, adaptive, runs, now, history>>

Person(c) ==
    \/ \E f \in Facts, v \in Values : Propose(c, f, v)
    \/ \E p \in DOMAIN proposals : Decide(c, p)
    \/ \E m \in DOMAIN memories : Forget(c, m)
    \/ ForgetAll(c)
    \/ \E s \in SettingsInputs : SaveSettings(c, s)
    \/ \E scope \in Scopes : Start(c, scope)
Agent(c) ==
    \/ \E f \in Facts, v \in Values, t \in Tasks : Observe(c, f, v, t)
    \/ \E r \in DOMAIN runs : Prompt(c, r)
Step(c) ==
    \/ Expire(c) \/ ConfirmNext(c) \/ ConfirmWrite(c) \/ RejectWrite(c) \/ KeepQuiet(c)
    \/ Replace(c) \/ List(c) \/ ForgetNext(c) \/ SaveSignal(c) \/ CountSignals(c)
    \/ ProposeObserved(c) \/ RefsForTask(c) \/ BeginTask(c) \/ Profile(c) \/ Detect(c)
    \/ LoadNext(c) \/ Get(c) \/ RecordUsage(c)
Next == Tick \/ Die \/ \E c \in Callers : Person(c) \/ Agent(c) \/ Step(c)
Spec == Init /\ [][Next]_vars

(***************************************************************************)
(* Properties                                                              *)
(***************************************************************************)
\* The full-text index holds exactly the active memories; a memory that was replaced is
\* not in force, and its successor knows it: whatever confirmations, expiries and
\* deletions selected before others wrote (store.py 262-330, 445-497, 640-690).
StoreConsistent ==
    /\ index = {m \in DOMAIN memories : Active(m)}
    /\ \A m \in DOMAIN memories :
           /\ memories[m].from # None => ~Active(memories[m].from)
           /\ memories[m].by # None => memories[memories[m].by].from = m

\* A decision is taken once: no memory comes from a rejected proposal, or two from one,
\* unless two calls decided it at the same time (store.py 235-245, 262-272).
DecidedOnce ==
    \A p \in DOMAIN proposals : p \in overlapped \/ Len(decided[p]) <= 1

\* "Every role resolves those references against the current database status": no role
\* is given a reference to a memory that had been forgotten, replaced or had expired when
\* the roles of the run began to load, and neither a reference nor a preference in the
\* checkpoint comes from another project (memory/service.py 288-338,
\* personalization/service.py 90-122).  The preferences in the checkpoint are values: they
\* outlive the memories they come from.
Given(c) == IF At(c, "load") THEN call[c].got ELSE {}
NoStaleMemory ==
    \A c \in Callers : \A g \in Given(c) :
        /\ g[1] \notin call[c].gone /\ g[2] # Wiped
        /\ \A h \in {g} \cup runs[call[c].r].applied : InScope(h[1], runs[call[c].r].scope)
=============================================================================
