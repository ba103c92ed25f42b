---------------------------- MODULE TaskControl ----------------------------
(***************************************************************************)
(* The task-control mailbox (app/core/task_control.py) of one run: a JSON  *)
(* file shared by the API handlers that steer the run (server.py,          *)
(* task_steer) and by the graph thread that inspects it at node boundaries *)
(* (graph.py, _respect_task_control and the plan / review_all nodes).      *)
(*                                                                         *)
(* Every caller builds its own TaskControlStore, hence its own RLock: the  *)
(* only atomic units are one read of the file (snapshot), one write of the *)
(* temporary file, and one rename over the file.  An operation is the      *)
(* sequence "read", "tmp", "rename" of its process.                        *)
(***************************************************************************)
EXTENDS Naturals, Sequences, FiniteSets, SequencesExt

CONSTANTS
    Clients,        \* API worker threads that serve POST /tasks/{id}/steer
    Instructions,   \* the texts users steer with
    MaxConstraints, \* constraints kept in the file (10 in the code)
    MaxPosts        \* bound: steering calls in one behaviour

ASSUME TaskControlAssumption ==
    /\ MaxConstraints \in Nat \ {0}
    /\ MaxPosts \in Nat
    /\ "graph" \notin Clients

VARIABLES
    file,      \* the mailbox file: [action, constraints]
    tmp,       \* the sibling .tmp file, NoFile when it does not exist
    op,        \* op[p]: the mailbox operation p is executing
    node,      \* where the graph thread is
    resumed,   \* the current node replays with a resume value
    (* History of what the users were told and what the graph received. *)
    owed,      \* texts that settled (see Alone) and were not yet handed to the planner
    given,     \* texts handed over by a take that settled, and not posted again since
    asked,     \* pauses and stops posted since the last resume, or still in a writer's hands then
    stopped,   \* a STOP settled, outside a resume, and the user has not resumed since
    posts      \* steering calls so far (bounded by MaxPosts)

store == <<file, tmp, op>>
history == <<owed, given, asked, stopped, posts>>
vars == <<store, node, resumed, history>>

Procs == Clients \cup {"graph"}
None == "none"
NoFile == [action |-> "no file", constraints |-> <<>>]
Empty == [action |-> None, constraints |-> <<>>]

\* Mutant: the slice is forgotten.
BugKeepAll(s) == s

\* list(...)[-10:] of snapshot, add_constraint and _write
KeepLast(s) == IF Len(s) > MaxConstraints
               THEN SubSeq(s, Len(s) - MaxConstraints + 1, Len(s)) ELSE s

Idle == [kind |-> "idle", arg |-> None, pc |-> "read", data |-> Empty]

Init ==
    /\ file = Empty
    /\ tmp = NoFile
    /\ op = [p \in Procs |-> Idle]
    /\ node = "boundary"
    /\ resumed = FALSE
    /\ owed = {}
    /\ given = {}
    /\ asked = {}
    /\ stopped = FALSE
    /\ posts = 0

(***************************************************************************)
(* The store's operations, as changes of the data read by snapshot.        *)
(***************************************************************************)
\* Mutant: a request starts a new mailbox, without the constraints not yet taken.
BugForgetConstraints(data, action) == [Empty EXCEPT !.action = action]

Request(data, action) == [data EXCEPT !.action = action]

\* Mutant: rewriting the file for a constraint forgets the requested action.
BugForgetAction(data, i) ==
    [action |-> None, constraints |-> KeepLast(Append(data.constraints, i))]

AddConstraint(data, i) ==
    [data EXCEPT !.constraints =
        KeepLast(IF i \in Range(@) THEN @ ELSE Append(@, i))]

ClearAction(data) == [data EXCEPT !.action = None]

TakeConstraints(data) == [data EXCEPT !.constraints = <<>>]

Modified(kind, arg, data) ==
    CASE kind = "request"  -> Request(data, arg)
      [] kind = "add"      -> AddConstraint(data, arg)
      [] kind \in {"clear", "resume"} -> ClearAction(data)
      [] kind = "take"     -> TakeConstraints(data)

\* snapshot(): one locked read; take_constraints writes nothing back when
\* there is nothing to take.
Read(p) ==
    /\ op[p].kind # "idle"
    /\ op[p].pc = "read"
    /\ LET nothing == op[p].kind = "take" /\ file.constraints = <<>>
       IN op' = [op EXCEPT ![p].pc = IF nothing THEN "done" ELSE "tmp",
                           ![p].data = file]
    /\ UNCHANGED <<file, tmp, node, resumed, history>>

\* _write(): write_text of the temporary file, whose name all writers share
WriteTmp(p) ==
    /\ op[p].pc = "tmp"
    /\ tmp' = Modified(op[p].kind, op[p].arg, op[p].data)
    /\ op' = [op EXCEPT ![p].pc = "rename"]
    /\ UNCHANGED <<file, node, resumed, history>>

(***************************************************************************)
(* History.  An operation that is past its read will write back what it    *)
(* read, whatever was written meanwhile (two renames, one lost update).    *)
(* A write settles when nobody is between its read and its rename.         *)
(***************************************************************************)
PastRead(p) == op[p].pc \in {"tmp", "rename"}
Alone(p) == \A q \in Procs \ {p} : ~PastRead(q)
Pending(p) == op[p].kind # "idle" /\ op[p].pc \in {"read", "tmp", "rename"}

Writes(p) == Modified(op[p].kind, op[p].arg, op[p].data)

\* The requests that are posted and not yet written, and those that a writer has
\* read and may write back.
MayReturn == {Writes(p).action : p \in {q \in Procs : Pending(q)}} \ {None}

\* The texts that are posted and not yet in the file.
Adding == {op[p].arg : p \in {q \in Procs : Pending(q) /\ op[q].kind = "add"}}

\* The constraint that has to make room for a new one.
PushedOut(data, i) ==
    IF i \notin Range(data.constraints) /\ Len(data.constraints) = MaxConstraints
    THEN {Head(data.constraints)} ELSE {}

\* What the additions under way have left out of the file they write.
Displaced ==
    (UNION {PushedOut(op[p].data, op[p].arg) :
                p \in {q \in Procs : op[q].kind = "add" /\ op[q].pc = "rename"}})
        \ Range(tmp.constraints)

Resuming == \E p \in Procs : op[p].kind = "resume"

\* From the resume until the graph has cleared the action it was paused for.
Replaying == resumed /\ op["graph"].pc # "done"

Settle(p) ==
    LET o == op[p]
        texts == Range(o.data.constraints)
    IN /\ owed' = (owed \ Displaced) \cup (IF Alone(p) /\ o.kind = "add" THEN {o.arg} ELSE {})
       /\ given' = given \cup (IF Alone(p) /\ o.kind = "take" THEN texts \ Adding ELSE {})
       /\ asked' = asked \cup (IF tmp.action = None \/ o.kind \in {"clear", "resume"} THEN MayReturn ELSE {})
       /\ stopped' = (stopped \/ (/\ Alone(p) /\ o.kind = "request" /\ o.arg = "stop"
                                  /\ ~Resuming /\ ~Replaying))

\* _write(): replace; FileNotFoundError when another writer renamed it first
Rename(p) ==
    /\ op[p].pc = "rename"
    /\ \/ /\ tmp = NoFile
          /\ op' = [op EXCEPT ![p].pc = "error"]
          /\ UNCHANGED <<file, tmp, owed, given, asked, stopped>>
       \/ /\ tmp # NoFile
          /\ file' = tmp
          /\ tmp' = NoFile
          /\ op' = [op EXCEPT ![p].pc = "done"]
          /\ Settle(p)
    /\ UNCHANGED <<node, resumed, posts>>

(***************************************************************************)
(* task_steer: a client posts PAUSE, STOP, RESUME or a constraint; 409 on  *)
(* a finished task, and RESUME only on a paused one.                       *)
(***************************************************************************)
Begin(p, kind, arg) ==
    /\ op[p].kind = "idle"
    /\ op' = [op EXCEPT ![p] = [Idle EXCEPT !.kind = kind, !.arg = arg]]
    /\ UNCHANGED <<file, tmp>>

SteerAction(c, action) ==
    /\ node \notin {"finished", "crashed"}
    /\ Begin(c, "request", action)
    /\ asked' = asked \cup {action}
    /\ UNCHANGED <<node, resumed, owed, given, stopped>>

SteerConstraint(c, i) ==
    /\ node \notin {"finished", "crashed"}
    /\ Begin(c, "add", i)
    /\ given' = given \ {i}
    /\ UNCHANGED <<node, resumed, owed, asked, stopped>>

SteerResume(c) ==
    /\ node = "paused"
    /\ Begin(c, "resume", None)
    /\ asked' = MayReturn
    /\ stopped' = FALSE
    /\ UNCHANGED <<node, resumed, owed, given>>

\* The handler returns: 200, or 500 when _write raised.  RESUME goes on to
\* resume_task, which replays the paused node with a resume value.
Answer(c) ==
    LET o == op[c]
        ok == o.pc = "done"
        replay == ok /\ o.kind = "resume" /\ node = "paused"
    IN /\ o.pc \in {"done", "error"}
       /\ op' = [op EXCEPT ![c] = Idle]
       /\ node' = IF replay THEN "boundary" ELSE node
       /\ resumed' = (resumed \/ replay)
       /\ UNCHANGED <<file, tmp, history>>

\* POST /tasks/{id}/resume: resume_task without clearing the mailbox first
ResumeEndpoint ==
    /\ node = "paused"
    /\ node' = "boundary"
    /\ resumed' = TRUE
    /\ asked' = MayReturn
    /\ stopped' = FALSE
    /\ UNCHANGED <<store, owed, given, posts>>

(***************************************************************************)
(* The graph thread.  _respect_task_control reads the mailbox before every *)
(* controlled node; interrupt() pauses the run, except in a replay, where  *)
(* it returns the resume value at once and clear_action follows.           *)
(***************************************************************************)
\* Mutant: only "pause" is looked for.
BugInspect ==
    /\ node = "boundary"
    /\ op["graph"].kind = "idle"
    /\ node' = IF file.action # "pause" THEN "body"
               ELSE IF resumed THEN "clearing" ELSE "paused"
    /\ resumed' = (resumed /\ file.action = "pause")
    /\ UNCHANGED <<store, history>>

Inspect ==
    /\ node = "boundary"
    /\ op["graph"].kind = "idle"
    /\ \/ /\ file.action = None
          /\ node' = "body"
          /\ resumed' = FALSE
       \/ /\ file.action # None
          /\ node' = IF resumed THEN "clearing" ELSE "paused"
          /\ UNCHANGED resumed
    /\ UNCHANGED <<store, history>>

GraphClear ==
    /\ node = "clearing"
    /\ Begin("graph", "clear", None)
    /\ UNCHANGED <<node, resumed, history>>

\* plan and review_all drain the constraints before they do anything else
GraphTake ==
    /\ node = "body"
    /\ Begin("graph", "take", None)
    /\ UNCHANGED <<node, resumed, history>>

\* A mailbox operation of the graph ends; an OSError of _write leaves the
\* node, and neither run_task nor resume_task catches it.
GraphReturn ==
    LET o == op["graph"] IN
    /\ o.pc \in {"done", "error"}
    /\ op' = [op EXCEPT !["graph"] = Idle]
    /\ node' = IF o.pc = "error" THEN "crashed"
               ELSE IF o.kind = "clear" THEN "body" ELSE "work"
    /\ resumed' = FALSE
    /\ owed' = IF o.pc = "error" THEN {}  \* nothing is handed to a run that crashed
               ELSE IF o.kind = "take" THEN owed \ Range(o.data.constraints) ELSE owed
    /\ UNCHANGED <<file, tmp, given, asked, stopped, posts>>

\* The node ends: its successor is another controlled node, or the run ends.
EndNode ==
    /\ node \in {"body", "work"}
    /\ op["graph"].kind = "idle"
    /\ node' \in {"boundary", "finished"}
    /\ UNCHANGED <<store, resumed, history>>

Graph == Inspect \/ GraphClear \/ GraphTake \/ GraphReturn \/ EndNode

StoreStep(p) == Read(p) \/ WriteTmp(p) \/ Rename(p)

Post(c) ==
    /\ posts < MaxPosts
    /\ posts' = posts + 1
    /\ \/ \E a \in {"pause", "stop"} : SteerAction(c, a)
       \/ \E i \in Instructions : SteerConstraint(c, i)
       \/ SteerResume(c)

Next ==
    \/ Graph
    \/ ResumeEndpoint
    \/ \E c \in Clients : Post(c) \/ Answer(c)
    \/ \E p \in Procs : StoreStep(p)

\* The server runs its handlers and the graph until they return; users may
\* stop posting at any time.
Fairness ==
    /\ WF_vars(Graph)
    /\ \A p \in Procs : WF_vars(StoreStep(p))
    /\ \A c \in Clients : WF_vars(Answer(c))

Spec == Init /\ [][Next]_vars /\ Fairness
----------------------------------------------------------------------------
Lists == {s \in Seq(Instructions) : Len(s) <= MaxConstraints}
Content == [action : {None, "pause", "stop"}, constraints : Lists]

\* The shape of the mailbox, the operations in flight and the history.
TypeOK ==
    /\ file \in Content
    /\ tmp \in Content \cup {NoFile}
    /\ op \in [Procs -> [kind : {"idle", "request", "add", "clear", "resume", "take"},
                        arg : {None, "pause", "stop"} \cup Instructions,
                        pc : {"read", "tmp", "rename", "done", "error"},
                        data : Content]]
    /\ node \in {"boundary", "clearing", "body", "work", "paused", "finished", "crashed"}
    /\ resumed \in BOOLEAN
    /\ owed \subseteq Instructions
    /\ given \subseteq Instructions
    /\ asked \subseteq {"pause", "stop"}
    /\ stopped \in BOOLEAN
    /\ posts \in 0..MaxPosts

\* "Your new requirement was added to the current task": a text that was written
\* while nobody else was between reading and writing stays in the file until the
\* graph has it in its hands, or until MaxConstraints later ones have pushed it
\* out, whatever races there are afterwards.
NoConstraintLost ==
    LET inHand == IF op["graph"].kind = "take" THEN Range(op["graph"].data.constraints) ELSE {}
    IN owed \subseteq Range(file.constraints) \cup inHand

\* "STOP: no further execution step begins" (task_steer's answer): once a STOP is
\* written the graph starts no node until the user resumes, unless the write raced
\* with another, or a resume was under way that clears it.
StopHonoured == [][stopped /\ node = "boundary" => node' # "body"]_vars

\* take_constraints hands a text over once: what an undisturbed take gave to the
\* planner is given to it again only if somebody posts it again.
DeliveredOnce ==
    [][op["graph"].kind = "take" /\ op["graph"].pc = "rename" /\ op'["graph"].pc = "done"
         => Range(op["graph"].data.constraints) \cap given = {}]_vars

\* The run pauses for task control only when a pause or stop was posted since the
\* user last resumed it, or was in the hands of a writer when the action was cleared.
PauseIsAsked == [][node # "paused" /\ node' = "paused" => asked # {}]_vars

\* The graph does what was asked, once, and only what was asked.
ControlHonoured == StopHonoured /\ DeliveredOnce /\ PauseIsAsked

\* A STOP that is written takes effect: the run pauses at the next node boundary or
\* ends there.
StopTakesEffect == stopped ~> (~stopped \/ node \in {"paused", "finished", "crashed"})
=============================================================================
