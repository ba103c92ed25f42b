------------------------------ MODULE Approval ------------------------------
(***************************************************************************)
(* Approval of sandbox patches: ApprovalService over approvals.jsonl       *)
(* (app/core/approval.py), the executor that asks and applies              *)
(* (app/agents/executor.py), resume_task (app/runner.py) and the           *)
(* endpoints that decide (app/api/server.py), for one subtask.             *)
(*                                                                         *)
(* Endpoints are synchronous and run in a thread pool, so several calls    *)
(* may be inside resume_task at once; each reads approvals.jsonl into an   *)
(* ApprovalService of its own.  The target file is a revision number; a    *)
(* diff is the set of revisions its hunks fit on.                          *)
(***************************************************************************)
EXTENDS Naturals, Sequences

CONSTANTS
    Diffs,       \* diffs the executor may propose
    Calls,       \* endpoint calls
    FirstRun,    \* the call that is run_task
    MaxReqs,     \* bound: approval requests
    MaxReworks,  \* bound: rejections by the reviewer
    MaxCrashes   \* bound: server deaths

Reqs == 1..MaxReqs

ASSUME ApprovalAssumption ==
    /\ MaxReqs \in Nat /\ MaxReworks \in Nat /\ MaxCrashes \in Nat
    /\ Diffs \subseteq SUBSET Nat
    /\ FirstRun \in Calls

VARIABLES
    disk,     \* approvals.jsonl: the last line of each request
    expired,  \* requests past expires_at
    mode,     \* the permission mode allows patches without asking
    paused,   \* checkpoint: current_status is "paused"
    pending,  \* checkpoint: pending_approval_id, 0 for none
    open,     \* checkpoint: exec_subtask is stopped at its interrupt
    rev,      \* revision of the target file
    reports,  \* approvals with a test report of return code 0
    call,     \* the calls in progress
    (* history *)
    granted,  \* requests that a person or the policy approved
    applied,  \* patches applied: [appr, diff, rev]
    reworks, crashes,
    overlapped  \* a call has started while another was being served

checkpoint == <<paused, pending, open>>
history == <<granted, applied, reworks, crashes, overlapped>>
vars == <<disk, expired, mode, checkpoint, rev, reports, call, history>>

NoReq == [status |-> "absent", diff |-> {}, base |-> 0]

NewCall == [pc |-> "new", decision |-> "none", appr |-> 0, drop |-> 0,
            svc |-> [r \in Reqs |-> NoReq], diff |-> {}, base |-> 0, req |-> 0,
            allow |-> FALSE]

Init ==
    /\ disk = [r \in Reqs |-> NoReq]
    /\ expired = {}
    /\ mode \in {"ask", "allow"}
    /\ paused = FALSE
    /\ pending = 0
    /\ open = FALSE
    /\ rev = 0
    /\ reports = {}
    /\ call = [c \in Calls |-> IF c = FirstRun THEN [NewCall EXCEPT !.pc = "exec"] ELSE NewCall]
    /\ granted = {}
    /\ applied = <<>>
    /\ reworks = 0
    /\ crashes = 0
    /\ overlapped = FALSE

Exists(r) == disk[r].status # "absent"

\* Requests are numbered in the order of the file.
Newest(requests) == {r \in requests : \A q \in requests : q <= r}

Fresh == {r \in Reqs : ~Exists(r) /\ \A q \in Reqs : q < r => Exists(q)}

Goto(c, pc) == call' = [call EXCEPT ![c].pc = pc]

(***************************************************************************)
(* ApprovalService.decide on the requests svc a service has in memory      *)
(***************************************************************************)
\* Mutant: a rejected request can be approved.
BugVerdict(svc, r, decision) ==
    CASE r \in expired -> "expired"
      [] r \notin expired /\ svc[r].status = "approved" /\ decision = "approved" -> "same"
      [] r \notin expired /\ svc[r].status \notin {"pending", "approved", "rejected"} -> "refused"
      [] OTHER -> "set"

\* What decide does: the request is found expired (saved as such, an error),
\* already approved (idempotent), not decidable (an error), or decided and saved.
Verdict(svc, r, decision) ==
    CASE r \in expired -> "expired"
      [] r \notin expired /\ svc[r].status = "approved" /\ decision = "approved" -> "same"
      [] r \notin expired /\ svc[r].status \notin {"pending", "approved"} -> "refused"
      [] OTHER -> "set"

\* The requests after decide; saving appends the record to the file.
Decided(reqs, svc, r, decision) ==
    LET v == Verdict(svc, r, decision)
    IN CASE v = "expired" -> [reqs EXCEPT ![r].status = "expired"]
         [] v = "set" -> [reqs EXCEPT ![r].status = decision]
         [] OTHER -> reqs

Accepted(svc, r, decision) == Verdict(svc, r, decision) \in {"same", "set"}

(***************************************************************************)
(* _decide_pending_approval and resume_task                                *)
(***************************************************************************)
Start(c) ==
    /\ call[c].pc = "new"
    /\ overlapped' = (overlapped \/ \E o \in Calls : call[o].pc \notin {"new", "done"})

\* resume_task's check: the pending request, or an approval that is already
\* granted for the same subtask, which then replaces the pending one.
Matches(r, decision) ==
    \/ r = pending
    \/ pending # 0 /\ disk[r].status = "approved" /\ decision = "approved"

\* A person posts approve or reject: the checkpoint is read, then the file.
\* A run that is not paused only gets the decision on record.
Begin(c, r, decision) ==
    /\ Start(c)
    /\ Exists(r)
    /\ call' = [call EXCEPT ![c] =
          [@ EXCEPT !.pc = CASE ~paused -> "record"
                             [] paused /\ Matches(r, decision) -> "decide"
                             [] OTHER -> "done",
                    !.decision = decision, !.appr = r,
                    !.drop = IF paused /\ r # pending THEN pending ELSE 0,
                    !.svc = disk]]
    /\ UNCHANGED <<disk, expired, mode, checkpoint, rev, reports, granted, applied, reworks, crashes>>

\* put_permission_mode to a mode that allows patches saves the mode ...
SwitchMode(c) ==
    /\ Start(c)
    /\ mode = "ask"
    /\ mode' = "allow"
    /\ Goto(c, "reevaluate")
    /\ UNCHANGED <<disk, expired, checkpoint, rev, reports, granted, applied, reworks, crashes>>

\* ... and then approves what a paused run waits for.
Reevaluate(c) ==
    /\ call[c].pc = "reevaluate"
    /\ call' = [call EXCEPT ![c] =
          [@ EXCEPT !.pc = IF paused /\ pending # 0 THEN "decide" ELSE "done",
                    !.decision = "approved", !.appr = pending, !.svc = disk]]
    /\ UNCHANGED <<disk, expired, mode, checkpoint, rev, reports, history>>

Grant(svc, r, decision) ==
    granted' = IF decision = "approved" /\ Accepted(svc, r, decision)
               THEN granted \cup {r} ELSE granted

\* The decision is saved before the run goes on; an error is a 409.
Decide(c) ==
    LET m == call[c]
        free == m.drop = 0 \/ Accepted(m.svc, m.drop, "cancelled")
        dropped == IF m.drop = 0 THEN disk ELSE Decided(disk, m.svc, m.drop, "cancelled")
    IN /\ m.pc = "decide"
       /\ disk' = IF free THEN Decided(dropped, m.svc, m.appr, m.decision) ELSE dropped
       /\ IF free THEN Grant(m.svc, m.appr, m.decision) ELSE UNCHANGED granted
       /\ Goto(c, IF free /\ Accepted(m.svc, m.appr, m.decision) THEN "build" ELSE "done")
       /\ UNCHANGED <<expired, mode, checkpoint, rev, reports, applied, reworks, crashes, overlapped>>

Record(c) ==
    /\ call[c].pc = "record"
    /\ disk' = Decided(disk, call[c].svc, call[c].appr, call[c].decision)
    /\ Grant(call[c].svc, call[c].appr, call[c].decision)
    /\ Goto(c, "done")
    /\ UNCHANGED <<expired, mode, checkpoint, rev, reports, applied, reworks, crashes, overlapped>>

\* _build_context loads the file again, and the graph is invoked with the
\* decision as resume value.  When another call has moved the checkpoint on,
\* LangGraph either has nothing to resume or gives the value to the next interrupt.
Build(c) ==
    /\ call[c].pc = "build"
    /\ \E next \in IF open THEN {"exec"} ELSE {"exec", "done"} :
          call' = [call EXCEPT ![c].svc = disk, ![c].pc = next]
    /\ UNCHANGED <<disk, expired, mode, checkpoint, rev, reports, history>>

(***************************************************************************)
(* Executor.run                                                            *)
(***************************************************************************)
Approved(svc) == {r \in Reqs : svc[r].status = "approved"}

\* A successful, still approved attempt is reused without applying anything.
Replayable(c) == reports \cap Approved(call[c].svc) # {}

\* The diffs _propose may return: LLMExecutor returns the newest approved diff
\* while it still validates; otherwise a proposal fits on the file as it is.
Proposals(c) ==
    LET svc == call[c].svc
        approved == {svc[r].diff : r \in Newest(Approved(svc))}
    IN {d \in Diffs : rev \in d /\ (d \in approved \/ \A a \in approved : rev \notin a)}

Propose(c) ==
    /\ call[c].pc = "exec"
    /\ IF Replayable(c) \/ Proposals(c) = {}
       THEN Goto(c, "review")
       ELSE \E d \in Proposals(c) :
               call' = [call EXCEPT ![c].pc = "bind", ![c].diff = d]
    /\ UNCHANGED <<disk, expired, mode, checkpoint, rev, reports, history>>

\* Mutant: a rejected request is used again for the same diff.
BugReusable(c) ==
    {r \in Reqs : /\ call[c].svc[r].status \in {"pending", "approved", "rejected"}
                  /\ call[c].svc[r].diff = call[c].diff}

\* The decidable requests for the same diff.
Reusable(c) ==
    {r \in Reqs : /\ call[c].svc[r].status \in {"pending", "approved"}
                  /\ call[c].svc[r].diff = call[c].diff}

\* Hash the target, ask the permission policy, and take the newest reusable
\* request, or create one.
Bind(c) ==
    LET Ask(r) == [call[c] EXCEPT !.pc = "ask", !.req = r, !.base = rev, !.allow = mode = "allow"]
    IN /\ call[c].pc = "bind"
       /\ \/ /\ \E r \in Newest(Reusable(c)) : call' = [call EXCEPT ![c] = Ask(r)]
             /\ UNCHANGED disk
          \/ /\ Reusable(c) = {}
             /\ \E r \in Fresh :
                   LET new == [status |-> "pending", diff |-> call[c].diff, base |-> rev]
                   IN /\ disk' = [disk EXCEPT ![r] = new]
                      /\ call' = [call EXCEPT ![c] = [Ask(r) EXCEPT !.svc[r] = new]]
       /\ UNCHANGED <<expired, mode, checkpoint, rev, reports, history>>

\* The permission mode allows the patch: it is approved without a person.  An
\* expired request raises out of the graph.
AutoApprove(c) ==
    LET m == call[c]
    IN /\ m.pc = "ask"
       /\ m.allow
       /\ disk' = Decided(disk, m.svc, m.req, "approved")
       /\ Grant(m.svc, m.req, "approved")
       /\ call' = [call EXCEPT ![c].pc = IF Accepted(m.svc, m.req, "approved")
                                         THEN "verify" ELSE "done",
                               ![c].svc = Decided(m.svc, m.svc, m.req, "approved"),
                               ![c].decision = "approved", ![c].appr = m.req]
       /\ UNCHANGED <<expired, mode, checkpoint, rev, reports, applied, reworks, crashes, overlapped>>

\* No resume value: interrupt, and the run pauses on the request.
Interrupt(c) ==
    /\ call[c].pc = "ask"
    /\ ~call[c].allow
    /\ call[c].decision = "none"
    /\ paused' = TRUE
    /\ pending' = call[c].req
    /\ open' = TRUE
    /\ Goto(c, "done")
    /\ UNCHANGED <<disk, expired, mode, rev, reports, history>>

\* Rejected by the user: nothing is applied, a request made meanwhile is cancelled.
Refuse(c) ==
    LET m == call[c]
    IN /\ m.pc = "ask"
       /\ ~m.allow
       /\ m.decision = "rejected"
       /\ disk' = IF m.req = m.appr THEN disk ELSE Decided(disk, m.svc, m.req, "cancelled")
       /\ call' = [call EXCEPT ![c].pc = "review",
                      ![c].svc = IF m.req = m.appr THEN @ ELSE Decided(@, @, m.req, "cancelled")]
       /\ UNCHANGED <<expired, mode, checkpoint, rev, reports, history>>

Resume(c) ==
    /\ call[c].pc = "ask"
    /\ ~call[c].allow
    /\ call[c].decision = "approved"
    /\ Goto(c, "verify")
    /\ UNCHANGED <<disk, expired, mode, checkpoint, rev, reports, history>>

\* Mutant: neither hash is compared.
BugVerified(m) == m.svc[m.appr].status = "approved" /\ m.appr \notin expired

\* Mutant: the target hash is not compared.
BugUnbound(m) ==
    LET r == m.appr
    IN m.svc[r].status = "approved" /\ r \notin expired /\ m.svc[r].diff = m.svc[m.req].diff

\* verify_execution: status, expiry, parameter hash and target hash.
Verified(m) ==
    LET r == m.appr
    IN /\ m.svc[r].status = "approved"
       /\ r \notin expired
       /\ m.svc[r].diff = m.svc[m.req].diff
       /\ m.svc[r].base = m.base

Verify(c) ==
    LET m == call[c]
        late == m.svc[m.appr].status = "approved" /\ m.appr \in expired
    IN /\ m.pc = "verify"
       /\ disk' = IF late THEN [disk EXCEPT ![m.appr].status = "expired"] ELSE disk
       /\ call' = [call EXCEPT ![c].pc = IF Verified(m) THEN "apply" ELSE "review",
                      ![c].svc = IF late THEN [@ EXCEPT ![m.appr].status = "expired"] ELSE @]
       /\ UNCHANGED <<expired, mode, checkpoint, rev, reports, history>>

\* PatchApplier.apply: the hunks fit on the file as it is now, or it fails.
Apply(c) ==
    LET m == call[c]
    IN /\ m.pc = "apply"
       /\ IF rev \in m.diff
          THEN /\ rev' = rev + 1
               /\ applied' = Append(applied, [appr |-> m.appr, diff |-> m.diff, rev |-> rev])
               /\ Goto(c, "test")
          ELSE Goto(c, "review") /\ UNCHANGED <<rev, applied>>
       /\ UNCHANGED <<disk, expired, mode, checkpoint, reports, granted, reworks, crashes, overlapped>>

\* python_pytest, and its report under the approval.
Test(c) ==
    /\ call[c].pc = "test"
    /\ reports' \in {reports, reports \cup {call[c].appr}}
    /\ Goto(c, "review")
    /\ UNCHANGED <<disk, expired, mode, checkpoint, rev, history>>

(***************************************************************************)
(* The rest of the graph                                                   *)
(***************************************************************************)
\* The reviewer sends the subtask back: the executor runs again in this call,
\* with no resume value.
Rework(c) ==
    /\ call[c].pc = "review"
    /\ reworks < MaxReworks
    /\ reworks' = reworks + 1
    /\ open' = FALSE
    /\ call' = [call EXCEPT ![c].pc = "exec", ![c].decision = "none", ![c].appr = 0]
    /\ UNCHANGED <<disk, expired, mode, paused, pending, rev, reports, granted, applied, crashes, overlapped>>

\* The run ends, and the runner clears pending_approval_id.
End(c) ==
    /\ call[c].pc = "review"
    /\ open' = FALSE
    /\ paused' = FALSE
    /\ pending' = 0
    /\ Goto(c, "done")
    /\ UNCHANGED <<disk, expired, mode, rev, reports, history>>

\* Time: a request passes expires_at.
Expire(r) ==
    /\ Exists(r)
    /\ r \notin expired
    /\ expired' = expired \cup {r}
    /\ UNCHANGED <<disk, mode, checkpoint, rev, reports, call, history>>

\* The server dies with every call in progress; files and checkpoint stay.
Crash ==
    /\ crashes < MaxCrashes
    /\ crashes' = crashes + 1
    /\ \E c \in Calls : call[c].pc \notin {"new", "done"}
    /\ call' = [c \in Calls |-> IF call[c].pc \in {"new", "done"} THEN call[c]
                                ELSE [call[c] EXCEPT !.pc = "done"]]
    /\ UNCHANGED <<disk, expired, mode, checkpoint, rev, reports, granted, applied, reworks, overlapped>>

Serve(c) ==
    \/ Reevaluate(c) \/ Decide(c) \/ Record(c) \/ Build(c) \/ Propose(c) \/ Bind(c) \/ AutoApprove(c)
    \/ Interrupt(c) \/ Refuse(c) \/ Resume(c) \/ Verify(c) \/ Apply(c) \/ Test(c)
    \/ Rework(c) \/ End(c)

Post(c) ==
    \/ \E r \in Reqs, d \in {"approved", "rejected"} : Begin(c, r, d)
    \/ SwitchMode(c)

Next ==
    \/ \E c \in Calls : Post(c) \/ Serve(c)
    \/ \E r \in Reqs : Expire(r)
    \/ Crash

Spec == Init /\ [][Next]_vars
----------------------------------------------------------------------------
Statuses == {"absent", "pending", "approved", "rejected", "expired", "cancelled"}

Requests == [Reqs -> [status : Statuses, diff : Diffs \cup {{}}, base : Nat]]

\* The shape of the file, the checkpoint, the calls and the history; a run is
\* paused exactly while its checkpoint names a request.
TypeOK ==
    /\ disk \in Requests
    /\ expired \subseteq Reqs
    /\ mode \in {"ask", "allow"}
    /\ paused \in BOOLEAN /\ open \in BOOLEAN
    /\ pending \in Reqs \cup {0}
    /\ paused <=> pending # 0
    /\ rev \in Nat
    /\ reports \subseteq Reqs
    /\ \A c \in Calls :
          /\ call[c].pc \in {"new", "reevaluate", "decide", "record", "build", "exec", "bind", "ask",
                             "verify", "apply", "test", "review", "done"}
          /\ call[c].decision \in {"none", "approved", "rejected"}
          /\ call[c].appr \in Reqs \cup {0}
          /\ call[c].req \in Reqs \cup {0}
          /\ call[c].svc \in Requests
          /\ call[c].allow \in BOOLEAN
    /\ granted \subseteq Reqs
    /\ reworks \in 0..MaxReworks
    /\ crashes \in 0..MaxCrashes
    /\ overlapped \in BOOLEAN

\* A patch reaches the file only under a request that somebody approved, and it
\* is the diff this request shows, however many calls, retries and mode changes
\* race for it.  When calls are served one after another, it also meets the content
\* that it was approved for ...
AppliedAsShown ==
    \A k \in DOMAIN applied :
        /\ applied[k].appr \in granted /\ applied[k].diff = disk[applied[k].appr].diff
        /\ overlapped \/ applied[k].rev = disk[applied[k].appr].base

\* ... and it is applied once: approving again, dispatching the executor again after
\* rework or resuming after the server died does not use an approval twice.
AppliedOnceInTurn ==
    ~overlapped =>
        \A j, k \in DOMAIN applied : applied[j].appr = applied[k].appr => j = k

\* The user's decision governs what reaches the file.
AppliedAsApproved == AppliedAsShown /\ AppliedOnceInTurn

\* As long as calls are served one after another, a decision against a request is
\* final: it can expire but never becomes decidable or approved again.  (Overlapping
\* calls decide on copies of the file loaded before the refusal, and the last line
\* written wins.)
RefusalIsFinal ==
    [][~overlapped' => \A r \in Reqs : disk[r].status \in {"rejected", "cancelled", "expired"}
          => disk'[r].status \in {"rejected", "cancelled", "expired"}]_vars

\* As long as nothing has overlapped, expired or crashed, a paused run waits for a request that can
\* still be decided: the interrupt never waits for a decision nobody can make.
\* (An expired request strands the run by design; a crash between the saved
\* rejection and the resumed graph leaves it waiting for a decided request.)
PendingDecidable ==
    /\ paused /\ open /\ expired = {} /\ crashes = 0 /\ ~overlapped
    /\ \A c \in Calls : call[c].pc \in {"new", "done"}
    => disk[pending].status \in {"pending", "approved"}
=============================================================================
