---------------------------- MODULE Conversation ----------------------------
(***************************************************************************)
(* The JARVIS conversation and the sandbox tasks it starts:                *)
(* ConversationSession (app/conversation/session.py), run_conversation_turn*)
(* (app/conversation/service.py) and the endpoints that load, change and   *)
(* save the session file (app/api/server.py).                              *)
(*                                                                         *)
(* Every request loads the file, works on its copy and writes the whole    *)
(* file back.  A turn and the saving of the scroll position hold the lock  *)
(* of the session; a voice turn, the steering of a task and a new          *)
(* conversation do not.                                                    *)
(***************************************************************************)
EXTENDS StorageRoots, Sequences

CONSTANTS KeptTurns   \* MAX_TURNS

VARIABLES
    file,        \* the session in the file, a fresh one when there is none
    torn,        \* the file is empty or not JSON
    lock,        \* the thread that holds _scroll_lock of the session
    (* history *)
    acked,       \* what the user has been told since the conversation began
    disturbed    \* a request without the lock has overlapped another one

conversation == <<file, torn, lock, acked, disturbed>>

Fresh == [turns |-> << >>, scroll |-> 0, noWrite |-> FALSE, plan |-> FALSE,
          task |-> FALSE, edit |-> FALSE]

ConversationInit ==
    /\ file = Fresh
    /\ torn = FALSE
    /\ lock = None
    /\ acked = [turns |-> << >>, scroll |-> 0, forbidden |-> FALSE]
    /\ disturbed = FALSE

LastTurns(turns) ==
    IF Len(turns) > KeptTurns THEN SubSeq(turns, 2, Len(turns)) ELSE turns

\* record_turn: a result without a task clears the reference to the current one.
RecordTurn(session, turn, said, ofTask) ==
    [session EXCEPT !.turns = LastTurns(Append(@, turn)), !.task = ofTask,
                    !.edit = said \in {"edit", "implement"}]

(***************************************************************************)
(* Requests.  A file that is torn cannot be loaded: the request fails.     *)
(***************************************************************************)
Loose == {"voice", "steer", "clear"}

\* Mutant: the scroll position is saved without the lock.
BugLocks(kind) == kind = "turn"

Locks(kind) == kind \in {"turn", "scroll"}

Talking(c) == call[c].pc \in {"run", "save", "write"}

Enter(c, request) ==
    /\ Begin(c, request)
    /\ request.kind # "clear" => ~torn
    /\ Locks(request.kind) => lock = None
    /\ lock' = IF Locks(request.kind) THEN c ELSE lock
    /\ disturbed' = (disturbed \/ \E o \in Clients :
                          Talking(o) /\ {request.kind, call[o].kind} \cap Loose # {})

Release(c) == lock' = IF lock = c THEN None ELSE lock

Save(kind, session, said) ==
    [pc |-> "save", kind |-> kind, id |-> served + 1, session |-> session, said |-> said,
     task |-> None, change |-> FALSE]

\* write_text empties the file, then writes it.  When another request wrote the file
\* in between, the rest of a longer text may stay behind the new one.
Truncate(c) ==
    /\ At(c, "save")
    /\ torn' = TRUE
    /\ Goto(c, "write")
    /\ UNCHANGED <<file, lock, acked, disturbed, storage>>

WriteSession(c) ==
    /\ At(c, "write")
    /\ file' = call[c].session
    /\ torn' \in {FALSE, ~torn}
    /\ acked' = CASE call[c].kind = "clear" -> [turns |-> << >>, scroll |-> 0, forbidden |-> FALSE]
                  [] call[c].kind = "scroll" -> [acked EXCEPT !.scroll = call[c].id]
                  [] OTHER -> [acked EXCEPT !.turns = LastTurns(Append(@, call[c].id)),
                                            !.forbidden = @ \/ call[c].said = "forbid"]
    /\ disturbed' = (disturbed /\ (call[c].kind = "clear" => torn' \/ \E o \in Clients \ {c} : Talking(o)))
    /\ Release(c)
    /\ Finish(c)
    /\ UNCHANGED storage

SaveScroll(c) ==
    /\ Enter(c, Save("scroll", [file EXCEPT !.scroll = served + 1], "scroll"))
    /\ UNCHANGED <<file, torn, acked, storage>>

Clear(c) ==
    /\ Enter(c, Save("clear", Fresh, "clear"))
    /\ UNCHANGED <<file, torn, acked, storage>>

\* The turn of a task that was steered, paused or stopped from the conversation.
Steer(c) ==
    /\ Enter(c, Save("steer", RecordTurn(file, served + 1, "steer", TRUE), "steer"))
    /\ UNCHANGED <<file, torn, acked, storage>>

(***************************************************************************)
(* Turns                                                                   *)
(***************************************************************************)
Said == {"forbid", "results", "plan", "implement", "continue", "first", "edit", "chat"}

\* The goal has a marker of a change and is not a plan.
AsksChange(session, said) ==
    said = "edit" \/ (said = "continue" /\ ~session.plan /\ session.task /\ session.edit)

\* "Plan" is in the goal: what the run answers is the pending plan from then on.
Plans(session, said) == said = "plan" \/ (said \in {"continue", "first"} /\ session.plan)

\* Mutant: a pending plan exempts every goal.
BugBlocked(session, said) == session.noWrite /\ AsksChange(session, said) /\ ~session.plan

Blocked(session, said) == session.noWrite /\ AsksChange(session, said)

Echoes(session, said) == said = "results" /\ session.turns # << >>

\* "Do not change", an echo of the last result, and a refusal run nothing.
Answer(c, kind, said) ==
    /\ said = "forbid" \/ Echoes(file, said) \/ Blocked(file, said)
    /\ LET session == IF said = "forbid" THEN [file EXCEPT !.noWrite = TRUE] ELSE file
       IN Enter(c, Save(kind, RecordTurn(session, served + 1, said, FALSE), said))
    /\ UNCHANGED <<file, torn, acked, storage>>

\* The turn runs a task and waits for it; "implement" lifts the ban and, when a
\* project is known, starts a sandbox task.
RunTurn(c, kind, said, task) ==
    /\ said # "forbid" /\ ~Echoes(file, said) /\ ~Blocked(file, said)
    /\ LET lifted == [file EXCEPT !.noWrite = @ /\ said # "implement"]
           planned == [lifted EXCEPT !.plan = @ \/ Plans(file, said)]
           saving == Save(kind, RecordTurn(planned, served + 1, said, TRUE), said)
       IN Enter(c, [saving EXCEPT !.pc = "run", !.task = task, !.change = AsksChange(file, said)])
    /\ acked' = [acked EXCEPT !.forbidden = @ /\ said # "implement"]
    /\ UNCHANGED <<file, torn>>
    /\ IF task = None
       THEN UNCHANGED storage
       ELSE said = "implement" /\ \E p \in Projects : StartTask(task, p)

Turn(c, kind) ==
    \E said \in Said :
        \/ Answer(c, kind, said)
        \/ \E task \in Tasks \cup {None} : RunTurn(c, kind, said, task)

RunOver(c) == At(c, "run") /\ (call[c].task # None => ~Live(call[c].task))

RunReturns(c) ==
    /\ RunOver(c)
    /\ Goto(c, "save")
    /\ UNCHANGED <<conversation, storage>>

\* The run raises: the turn is not recorded, and the ban is as it was.
RunFails(c) ==
    /\ RunOver(c)
    /\ Release(c)
    /\ Finish(c)
    /\ UNCHANGED <<file, torn, acked, disturbed, storage>>

ConversationStep ==
    \E c \in Clients :
        \/ Turn(c, "turn") \/ Turn(c, "voice") \/ SaveScroll(c) \/ Clear(c) \/ Steer(c)
        \/ RunReturns(c) \/ RunFails(c) \/ Truncate(c) \/ WriteSession(c)

Death ==
    /\ StorageAfterDeath
    /\ lock' = None
    /\ disturbed' = (disturbed \/ \E c \in Clients : At(c, "write"))
    /\ call' = [c \in Clients |-> Idle]
    /\ UNCHANGED <<served, file, torn, acked>>

JarvisInit == StorageInit /\ ConversationInit /\ call = [c \in Clients |-> Idle] /\ served = 0

JarvisNext ==
    \/ ConversationStep
    \/ StorageStep /\ UNCHANGED conversation
    \/ Death

jarvisVars == <<storage, conversation, requests>>

JarvisSpec == JarvisInit /\ [][JarvisNext]_jarvisVars
-----------------------------------------------------------------------------
\* "The lock keeps a saved scroll position from overwriting the messages of a
\* concurrent turn": the file holds exactly the last turns and the scroll position
\* that were acknowledged, unless a request without the lock has overlapped another
\* one, or the server died while it wrote the file.
TurnsKept ==
    \/ disturbed
    \/ \E c \in Clients : At(c, "write")
    \/ /\ ~torn
       /\ file.turns = acked.turns
       /\ file.scroll = acked.scroll

\* After "do not change the code" was confirmed no run that asks for a change starts
\* before the user says "implement", whatever turns, failed runs and deaths come
\* between, again unless requests without the lock have overlapped others.
NoWriteHeld ==
    \/ disturbed
    \/ ~acked.forbidden
    \/ \A c \in Clients : At(c, "run") => ~call[c].change

ConversationKept == TurnsKept /\ NoWriteHeld
=============================================================================
