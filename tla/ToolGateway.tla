---------------------------- MODULE ToolGateway ----------------------------
(***************************************************************************)
(* Tool calls of one task: ToolGateway._invoke                             *)
(* (app/gateway/tool_gateway.py) with its idempotency keys, result cache   *)
(* and evidence, the quotas of app/gateway/tool_policy.py, the snapshots   *)
(* of app/core/evidence.py, and the part of them that app/graph.py and     *)
(* app/runner.py keep in the checkpoint.                                   *)
(*                                                                         *)
(* Subtasks run in parallel in a superstep; a call holds the gateway's     *)
(* lock from start to end, so it is one action.  A key stands for a tool   *)
(* with valid arguments; calls the validators refuse change nothing.  The  *)
(* order and number of calls are the model's choice.  Agents call with a   *)
(* ToolExecutionContext, as they do with a real model.  tool_calls and     *)
(* approvals, which no later step of the gateway reads, are left out.      *)
(***************************************************************************)
EXTENDS Naturals, FiniteSets, FiniteSetsExt

CONSTANTS
    Subtasks,    \* subtask ids
    Executors,   \* those that stop at an approval interrupt after their calls
    Reads,       \* keys of read-only calls
    Writes,      \* keys of other calls (dangerous_write)
    Governed,    \* keys the permission mode may ask about
    Forbidden,   \* keys of FORBIDDEN actions, blocked in every mode
    Contents,    \* what the reads return
    ContentOf,   \* the content each read returns
    Size,        \* content_length
    Budget,      \* min(tool_call_budget, max_calls_per_subtask), one for all
    MaxEvidence, \* max_evidence_per_task
    MaxBytes,    \* max_read_bytes_per_task
    MaxCalls,    \* bound: calls of one execution
    MaxReworks,  \* bound: rejections of one subtask
    MaxResumes   \* bound: resumes of the run

Keys == Reads \cup Writes

\* Evidence that names no idempotency key.
NoKey == "none"

ASSUME ToolGatewayAssumption ==
    /\ Executors \subseteq Subtasks
    /\ Reads \cap Writes = {}
    /\ NoKey \notin Keys
    /\ Governed \subseteq Keys /\ Forbidden \subseteq Keys
    /\ Governed \cap Forbidden = {}
    /\ ContentOf \in [Reads -> Contents]
    /\ Size \in [Contents -> Nat]
    /\ Budget \in Nat /\ MaxEvidence \in Nat /\ MaxBytes \in Nat
    /\ MaxCalls \in Nat /\ MaxReworks \in Nat /\ MaxResumes \in Nat

VARIABLES
    (* ToolGateway, rebuilt by every resume *)
    seen,      \* _seen_keys
    cache,     \* _result_cache: the evidence id of each cached result
    evidence,  \* evidence: [id, key]
    quota,     \* ToolQuota._subtask_calls
    stored,    \* EvidenceWriter._hash_index: the id of each stored content
    (* the run *)
    run,       \* "running", "paused", "lost"
    task,      \* the subtasks and the executions under way
    pend,      \* writes of finished tasks of an open superstep
    saved,     \* checkpoint: idempotency_keys and evidence
    resumes,
    (* history *)
    nextId,    \* evidence ids used
    ran,       \* handlers run for each subtask by this gateway
    got,       \* evidence ids each key has produced
    asked,     \* approvals requested for each key
    again,     \* keys read though this gateway has stored their result
    forgotten  \* some resume has lost keys

gateway == <<seen, cache, evidence, quota, stored>>
history == <<nextId, ran, got, asked, again, forgotten>>
vars == <<gateway, run, task, pend, saved, resumes, history>>

\* Evidence ids are positive.
NoId == 0
Nothing == [keys |-> {}, evidence |-> {}]
Ids(ev) == {e.id : e \in ev}

Init ==
    /\ seen = {} /\ cache = [k \in Keys |-> NoId] /\ evidence = {}
    /\ quota = [s \in Subtasks |-> 0]
    /\ stored = [c \in Contents |-> NoId]
    /\ run = "running"
    /\ task = [s \in Subtasks |-> [st |-> "pending", calls |-> 0, refs |-> {}, rework |-> 0]]
    /\ pend = [s \in Subtasks |-> Nothing]
    /\ saved = Nothing
    /\ resumes = 0
    /\ nextId = 0
    /\ ran = [s \in Subtasks |-> 0]
    /\ got = [k \in Keys |-> {}]
    /\ asked = [k \in Keys |-> 0]
    /\ again = {}
    /\ forgotten = FALSE

In(st) == {s \in Subtasks : task[s].st = st}
Boundary == In("running") = {} /\ In("finished") = {} /\ In("waiting") = {}

(***************************************************************************)
(* Scheduling: dispatch sends pending subtasks, each runs, and the         *)
(* superstep commits when all have returned.                               *)
(***************************************************************************)
Dispatch(S) ==
    /\ run = "running" /\ Boundary /\ In("executed") = {}
    /\ S # {} /\ S \subseteq In("pending")
    /\ task' = [s \in Subtasks |->
                 IF s \in S THEN [task[s] EXCEPT !.st = "running", !.calls = 0, !.refs = {}]
                 ELSE task[s]]
    /\ UNCHANGED <<gateway, run, pend, saved, resumes, history>>

\* snapshot(): what every task writes back, whoever made the calls.
Snapshot == [keys |-> seen, evidence |-> Ids(evidence)]

Return(s) ==
    /\ run = "running" /\ s \in In("running")
    /\ task' = [task EXCEPT ![s].st = "finished", ![s].calls = 0]
    /\ pend' = [pend EXCEPT ![s] = Snapshot]
    /\ UNCHANGED <<gateway, run, saved, resumes, history>>

\* An executor waits for a person's approval; what it has done is dropped.
Interrupt(s) ==
    /\ run = "running" /\ s \in In("running") \cap Executors
    /\ task' = [task EXCEPT ![s].st = "waiting", ![s].calls = 0, ![s].refs = {}]
    /\ UNCHANGED <<gateway, run, pend, saved, resumes, history>>

\* Mutant: lists without reducers, the last write wins.
BugCommit ==
    /\ run = "running"
    /\ In("running") = {} /\ In("waiting") = {}
    /\ \E s \in In("finished") : saved' = pend[s]
    /\ pend' = [s \in Subtasks |-> Nothing]
    /\ task' = [s \in Subtasks |-> IF task[s].st = "finished"
                                   THEN [task[s] EXCEPT !.st = "executed"] ELSE task[s]]
    /\ UNCHANGED <<gateway, run, resumes, history>>

\* The reducers merge_keys and merge_evidence.
Commit ==
    /\ run = "running"
    /\ In("running") = {} /\ In("waiting") = {} /\ In("finished") # {}
    /\ saved' = [keys |-> saved.keys \cup UNION {pend[s].keys : s \in Subtasks},
                 evidence |-> saved.evidence \cup UNION {pend[s].evidence : s \in Subtasks}]
    /\ pend' = [s \in Subtasks |-> Nothing]
    /\ task' = [s \in Subtasks |-> IF task[s].st = "finished"
                                   THEN [task[s] EXCEPT !.st = "executed"] ELSE task[s]]
    /\ UNCHANGED <<gateway, run, resumes, history>>

\* DeterministicReviewer rejects references to unknown evidence; beyond that a
\* verdict is free.
Review(R) ==
    /\ run = "running" /\ In("executed") # {}
    /\ R \subseteq In("executed")
    /\ \A s \in In("executed") : task[s].refs \subseteq saved.evidence \/ s \in R
    /\ \A s \in R : task[s].rework < MaxReworks
    /\ task' = [s \in Subtasks |->
                 CASE s \in R -> [task[s] EXCEPT !.st = "pending", !.rework = @ + 1]
                   [] s \in In("executed") \ R -> [task[s] EXCEPT !.st = "passed"]
                   [] OTHER -> task[s]]
    /\ UNCHANGED <<gateway, run, pend, saved, resumes, history>>

(***************************************************************************)
(* ToolGateway._invoke                                                     *)
(***************************************************************************)
\* The scheduler says replay when it runs a rejected subtask again.
Replay(s) == task[s].rework > 0

Calling(s) == run = "running" /\ s \in In("running") /\ task[s].calls < MaxCalls

\* The call is answered with the evidence it may cite.
Answer(s, refs) ==
    task' = [task EXCEPT ![s].calls = @ + 1, ![s].refs = @ \cup refs]

\* Mutant: one call too many.
BugFull(s) == quota[s] > Budget

Full(s) == quota[s] >= Budget
NoMoreEvidence == Cardinality({c \in Contents : stored[c] # NoId}) >= MaxEvidence

\* check_and_reserve, then check_evidence: a call refused by the second has been
\* counted by the first.
\* (BugReserved, a mutant: what a replay runs is not counted.)
BugReserved(s) == IF Full(s) \/ Replay(s) THEN quota ELSE [quota EXCEPT ![s] = @ + 1]

Reserved(s) == IF Full(s) THEN quota ELSE [quota EXCEPT ![s] = @ + 1]
Refused(s) == Full(s) \/ NoMoreEvidence

\* A call that is no replay reserves before anything else, one that is a replay only
\* if it gets to the handler.
RefusedFirst(s) ==
    /\ ~Replay(s) /\ Refused(s)
    /\ quota' = Reserved(s)
    /\ Answer(s, {})
    /\ UNCHANGED <<seen, cache, evidence, stored, run, pend, saved, resumes, history>>

Admitted(s) == Replay(s) \/ ~Refused(s)
First(s) == IF Replay(s) THEN quota ELSE Reserved(s)

\* The cached result, or the evidence that names the key.
Hits(k) == IF cache[k] # NoId THEN {cache[k]} ELSE Ids({e \in evidence : e.key = k})

Cached(s, k) ==
    /\ Admitted(s)
    /\ k \in seen
    /\ \E id \in Hits(k) :
         /\ cache' = [cache EXCEPT ![k] = id]
         /\ Answer(s, {id})
    /\ quota' = First(s)
    /\ UNCHANGED <<seen, evidence, stored, run, pend, saved, resumes, history>>

\* A write whose key is known is never tried again.
Skipped(s, k) ==
    /\ Admitted(s)
    /\ k \in seen \cap Writes
    /\ Hits(k) = {}
    /\ quota' = First(s)
    /\ Answer(s, {})
    /\ UNCHANGED <<seen, cache, evidence, stored, run, pend, saved, resumes, history>>

\* The call gets past the keys: a new one, or a read without a cached result.
Fresh(s, k) ==
    /\ Admitted(s)
    /\ k \notin seen \/ (k \in Reads /\ Hits(k) = {})

\* The reservation of a replay is refused; the key is forgotten already.
RefusedReplay(s, k) ==
    /\ Fresh(s, k) /\ Replay(s) /\ Refused(s)
    /\ seen' = seen \ {k}
    /\ quota' = Reserved(s)
    /\ Answer(s, {})
    /\ UNCHANGED <<cache, evidence, stored, run, pend, saved, resumes, history>>

\* The call comes to the permission policy, in the quota.
AtPolicy(s, k) ==
    /\ Fresh(s, k)
    /\ Replay(s) => ~Refused(s)
    /\ quota' = Reserved(s)

\* The policy forbids the action.
Blocked(s, k) ==
    /\ k \in Forbidden
    /\ AtPolicy(s, k)
    /\ seen' = seen \ {k}
    /\ Answer(s, {})
    /\ UNCHANGED <<cache, evidence, stored, run, pend, saved, resumes, history>>

\* It lets the handler of k run; under another mode it may have asked.
AtHandler(s, k) == AtPolicy(s, k) /\ k \notin Forbidden

\* Evidence this gateway has made, not been built with.
Held == {e.id : e \in {x \in evidence : x.key # NoKey}}

Ran(s, k) ==
    /\ ran' = [ran EXCEPT ![s] = @ + 1]
    /\ again' = IF got[k] \cap Held # {} THEN again \cup {k} ELSE again

\* The permission mode asks: an approval is requested and the key is kept, so that
\* the write is skipped from now on.  A read is tried and asked about again.
AskApproval(s, k) ==
    /\ k \in Governed
    /\ AtPolicy(s, k)
    /\ seen' = seen \cup {k}
    /\ asked' = [asked EXCEPT ![k] = @ + 1]
    /\ Answer(s, {})
    /\ UNCHANGED <<cache, evidence, stored, run, pend, saved, resumes,
                   nextId, ran, got, again, forgotten>>

\* The handler raises; dangerous_write, when the mode allows it, always does.
HandlerFails(s, k) ==
    /\ AtHandler(s, k)
    /\ Ran(s, k)
    /\ seen' = seen \ {k}
    /\ Answer(s, {})
    /\ UNCHANGED <<cache, evidence, stored, run, pend, saved, resumes,
                   nextId, got, asked, forgotten>>

TooManyBytes(k) ==
    LET kept == {c \in Contents : stored[c] # NoId}
    IN MapThenSumSet(LAMBDA c : Size[c], kept) + Size[ContentOf[k]] > MaxBytes

\* The result may not be stored: it is refused with its key already in seen.
ResultRefused(s, k) ==
    /\ k \in Reads
    /\ AtHandler(s, k)
    /\ TooManyBytes(k)
    /\ Ran(s, k)
    /\ seen' = seen \cup {k}
    /\ Answer(s, {})
    /\ UNCHANGED <<cache, evidence, stored, run, pend, saved, resumes,
                   nextId, got, asked, forgotten>>

\* EvidenceWriter.write: a known content is not stored again.
IdOf(c) == IF stored[c] = NoId THEN nextId + 1 ELSE stored[c]

\* Mutant: the key of the result is not kept.
BugKeepResult(s, k) ==
    /\ k \in Reads
    /\ AtHandler(s, k)
    /\ ~TooManyBytes(k)
    /\ LET c == ContentOf[k]
           id == IdOf(c)
       IN /\ stored' = [stored EXCEPT ![c] = id]
          /\ nextId' = IF stored[c] = NoId THEN id ELSE nextId
          /\ evidence' = evidence \cup {[id |-> id, key |-> k]}
          /\ cache' = [cache EXCEPT ![k] = id]
          /\ got' = [got EXCEPT ![k] = @ \cup {id}]
          /\ Answer(s, {id})
    /\ Ran(s, k)
    /\ UNCHANGED <<seen, run, pend, saved, resumes, asked, forgotten>>

\* The result is stored, and found under its key from now on.
KeepResult(s, k) ==
    /\ k \in Reads
    /\ AtHandler(s, k)
    /\ ~TooManyBytes(k)
    /\ LET c == ContentOf[k]
           id == IdOf(c)
       IN /\ stored' = [stored EXCEPT ![c] = id]
          /\ nextId' = IF stored[c] = NoId THEN id ELSE nextId
          /\ evidence' = evidence \cup {[id |-> id, key |-> k]}
          /\ cache' = [cache EXCEPT ![k] = id]
          /\ got' = [got EXCEPT ![k] = @ \cup {id}]
          /\ Answer(s, {id})
    /\ Ran(s, k)
    /\ seen' = seen \cup {k}
    /\ UNCHANGED <<run, pend, saved, resumes, asked, forgotten>>

Invoke(s, k) ==
    /\ Calling(s)
    /\ \/ RefusedFirst(s)
       \/ Cached(s, k)
       \/ Skipped(s, k)
       \/ RefusedReplay(s, k)
       \/ Blocked(s, k)
       \/ AskApproval(s, k)
       \/ HandlerFails(s, k)
       \/ ResultRefused(s, k)
       \/ KeepResult(s, k)

(***************************************************************************)
(* Pause and resume.  A resumed run reads as paused while it executes and  *)
(* reviews, so it can be resumed after a crash; a first run cannot.        *)
(***************************************************************************)
\* A stop request at a node boundary, or approvals wait and nothing else runs.
Pause ==
    /\ run = "running"
    /\ Boundary \/ (In("running") = {} /\ In("waiting") # {})
    /\ run' = "paused"
    /\ UNCHANGED <<gateway, task, pend, saved, resumes, history>>

Crash ==
    /\ run = "running" /\ resumes > 0
    /\ run' = "lost"
    /\ UNCHANGED <<gateway, task, pend, saved, resumes, history>>

\* _build_context makes the gateway from the checkpoint's channel values: writes that
\* wait in an open superstep are not in them, and Evidence has no idempotency_key.
\* LangGraph runs the tasks that had not returned from their beginning.
Resume ==
    /\ run \in {"paused", "lost"}
    /\ resumes < MaxResumes
    /\ resumes' = resumes + 1
    /\ run' = "running"
    /\ seen' = saved.keys
    /\ evidence' = {[id |-> i, key |-> NoKey] : i \in saved.evidence}
    /\ cache' = [k \in Keys |-> NoId]
    /\ quota' = [s \in Subtasks |-> 0]
    /\ stored' = [c \in Contents |-> NoId]
    /\ task' = [s \in Subtasks |->
                 IF task[s].st \in {"running", "waiting"}
                 THEN [task[s] EXCEPT !.st = "running", !.calls = 0, !.refs = {}]
                 ELSE task[s]]
    /\ ran' = [s \in Subtasks |-> 0]
    /\ forgotten' = (forgotten \/ ~(seen \subseteq saved.keys))
    /\ UNCHANGED <<pend, saved, nextId, got, asked, again>>

Next ==
    \/ \E S \in SUBSET Subtasks : Dispatch(S) \/ Review(S)
    \/ \E s \in Subtasks : Return(s) \/ Interrupt(s) \/ \E k \in Keys : Invoke(s, k)
    \/ Commit
    \/ Pause
    \/ Crash
    \/ Resume

Spec == Init /\ [][Next]_vars

(***************************************************************************)
(* Properties                                                              *)
(***************************************************************************)
States == {"pending", "running", "waiting", "finished", "executed", "passed"}
Executions == [st : States, calls : 0 .. MaxCalls, refs : SUBSET Nat, rework : 0 .. MaxReworks]
Writeback == [keys : SUBSET Keys, evidence : SUBSET Nat]

\* Type invariant.
TypeOK ==
    /\ seen \subseteq Keys
    /\ cache \in [Keys -> Nat]
    /\ evidence \subseteq [id : Nat, key : Keys \cup {NoKey}]
    /\ quota \in [Subtasks -> 0 .. Budget]
    /\ stored \in [Contents -> Nat]
    /\ run \in {"running", "paused", "lost"}
    /\ task \in [Subtasks -> Executions]
    /\ pend \in [Subtasks -> Writeback]
    /\ saved \in Writeback
    /\ resumes \in 0 .. MaxResumes
    /\ nextId \in Nat
    /\ ran \in [Subtasks -> Nat]
    /\ got \in [Keys -> SUBSET Nat]
    /\ asked \in [Keys -> Nat]
    /\ again \subseteq Keys
    /\ forgotten \in BOOLEAN

\* The evidence a subtask cites when it reaches review is in the checkpoint, also when
\* a sibling made the call, the superstep was interrupted and the gateway rebuilt
\* without it (snapshot and merge_evidence).
CitedEvidenceSaved ==
    \A s \in Subtasks : task[s].st \in {"executed", "passed"} => task[s].refs \subseteq saved.evidence

\* A gateway runs no more handlers for a subtask than its quota, whether the calls are
\* replays or not (check_and_reserve has two places in _invoke).
HandlersWithinQuota == \A s \in Subtasks : ran[s] <= Budget

\* As long as no resume loses keys, one approval is requested for a write.  (One for
\* each attempt of a read: its key does not keep it from being tried.)
AskedOnce == ~forgotten => \A k \in Writes : asked[k] <= 1

\* A gateway does not read again what it has evidence of.
NotReadTwice == again = {}

\* Keys, cache and evidence together keep a gateway from doing again what was done.
DoneOnce == AskedOnce /\ NotReadTwice
=============================================================================
