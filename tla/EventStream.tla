----------------------------- MODULE EventStream -----------------------------
(***************************************************************************)
(* The events of one run: EventStore (app/core/events.py), the stream      *)
(* GET /tasks/{run_id}/events (app/api/server.py) and the subscription of  *)
(* the web client (web/src/api/client.ts, external).                       *)
(*                                                                         *)
(* Every event has the next sequence number and a label, the run's id or,  *)
(* where a caller knows no run, the task's.  The stream polls the store    *)
(* with one query for each label and, when nothing has come for a while,   *)
(* asks for the status of the run.                                         *)
(***************************************************************************)
EXTENDS Integers, Sequences, FiniteSets, Functions

CONSTANTS
    Limit,      \* rows a query returns (2000)
    MaxIdle,    \* empty polls before the status is asked for (3)
    MaxEvents,  \* bound: events stored
    MaxFaults   \* bound: lost connections, and server deaths

Labels == {"run", "task"}

VARIABLES
    log,        \* table events: the label of every row, by sequence
    opened,     \* the process has opened the store
    status,     \* current_status in the checkpoint
    executing,  \* run_task or resume_task is on the stack
    stream,     \* the generator that serves the subscription
    wire,       \* frames that were sent and not yet read
    client,     \* the subscription: [state, lastId]
    shown,      \* sequence numbers given to the activity feed, in order
    (* history *)
    raced,      \* events that came between two reads of one poll
    flooded,    \* a query was cut off by its limit
    ended,      \* rows the log had when the run got its final status
    faults

vars == <<log, opened, status, executing, stream, wire, client, shown, raced, flooded, ended, faults>>
observed == <<client, shown, flooded>>

Final == {"completed", "failed"}
Closed == [pc |-> "none", last |-> 0, idle |-> 0, batch |-> {}]
EndFrame == 0

Init ==
    /\ log = << >> /\ opened = TRUE
    /\ status = "running" /\ executing = TRUE
    /\ stream = Closed /\ wire = << >>
    /\ client = [state |-> "waiting", lastId |-> 0] /\ shown = << >>
    /\ raced = {} /\ flooded = FALSE /\ ended = -1 /\ faults = 0

(***************************************************************************)
(* The run                                                                 *)
(***************************************************************************)
\* Between the two queries an event with the label of the first one, and before the
\* status is read any event.
Raced(label) == (stream.pc = "merge" /\ label = "run") \/ stream.pc = "check"

Store(label) ==
    /\ log' = Append(log, label)
    /\ raced' = IF Raced(label) THEN raced \cup {Len(log')} ELSE raced

\* emit: without a store the event is gone.
Emit(label) ==
    /\ executing /\ Len(log) < MaxEvents
    /\ IF opened THEN Store(label) ELSE UNCHANGED <<log, raced>>
    /\ UNCHANGED <<opened, status, executing, stream, wire, client, shown, flooded, ended, faults>>

\* put_permission_mode: an event for every task that its list shows running or paused;
\* the task may be over by then.
PermissionChanged ==
    /\ Len(log) < MaxEvents
    /\ opened' = TRUE
    /\ Store("run")
    /\ UNCHANGED <<status, executing, stream, wire, client, shown, flooded, ended, faults>>

\* The graph writes the final status; the runner goes on to report it.
End ==
    /\ executing /\ status = "running"
    /\ status' \in Final
    /\ ended' = Len(log)
    /\ UNCHANGED <<log, opened, executing, stream, wire, observed, raced, faults>>

Pause ==
    /\ executing /\ status = "running"
    /\ status' = "paused"
    /\ UNCHANGED <<log, opened, executing, stream, wire, observed, raced, ended, faults>>

Return ==
    /\ executing /\ status # "running"
    /\ executing' = FALSE
    /\ UNCHANGED <<log, opened, status, stream, wire, observed, raced, ended, faults>>

\* resume_task does not open the store.
Resume ==
    /\ ~executing /\ status = "paused"
    /\ status' = "running" /\ executing' = TRUE
    /\ UNCHANGED <<log, opened, stream, wire, observed, raced, ended, faults>>

(***************************************************************************)
(* The stream                                                              *)
(***************************************************************************)
\* task_events opens the store if nobody has; the stream starts after the given number.
Connect ==
    /\ client.state = "waiting"
    /\ opened' = TRUE
    /\ stream' = [Closed EXCEPT !.pc = "poll", !.last = client.lastId]
    /\ client' = [client EXCEPT !.state = "open"]
    /\ UNCHANGED <<log, status, executing, wire, shown, raced, flooded, ended, faults>>

Waiting(label) == {s \in DOMAIN log : s > stream.last /\ log[s] = label}

\* list_events: the first rows, in the order of their numbers.
Rows(label) == {s \in Waiting(label) : Cardinality({r \in Waiting(label) : r <= s}) <= Limit}

PollRun ==
    /\ stream.pc = "poll"
    /\ stream' = [stream EXCEPT !.pc = "merge", !.batch = Rows("run")]
    /\ flooded' = (flooded \/ Rows("run") # Waiting("run"))
    /\ UNCHANGED <<log, opened, status, executing, wire, client, shown, raced, ended, faults>>

\* The second query, and whether it is time to ask for the status.
PollTask ==
    /\ stream.pc = "merge"
    /\ LET batch == stream.batch \cup Rows("task")
       IN stream' = IF batch # {} THEN [stream EXCEPT !.pc = "send", !.idle = 0, !.batch = batch]
                    ELSE [stream EXCEPT !.idle = IF @ < MaxIdle THEN @ + 1 ELSE @,
                                        !.pc = IF stream.idle + 1 >= MaxIdle THEN "check" ELSE "poll"]
    /\ flooded' = (flooded \/ Rows("task") # Waiting("task"))
    /\ UNCHANGED <<log, opened, status, executing, wire, client, shown, raced, ended, faults>>

\* Mutant: the rows of the second query are sent after those of the first.
BugIsNext(s) == \A r \in stream.batch : log[s] = log[r] => s <= r

\* The two results are sorted by number.
IsNext(s) == \A r \in stream.batch : s <= r

\* The frames are yielded one by one.
Send ==
    /\ stream.pc = "send"
    /\ \E s \in stream.batch :
          /\ IsNext(s)
          /\ wire' = Append(wire, s)
          /\ stream' = [stream EXCEPT !.last = s, !.batch = @ \ {s},
                                     !.pc = IF stream.batch = {s} THEN "poll" ELSE @]
    /\ UNCHANGED <<log, opened, status, executing, observed, raced, ended, faults>>

\* Mutant: a failed run is not final.
BugIsFinal == status = "completed"

IsFinal == status \in Final

\* A final status is sent as one more frame, and the stream ends.
Check ==
    /\ stream.pc = "check"
    /\ IF IsFinal
       THEN stream' = Closed /\ wire' = Append(wire, EndFrame)
       ELSE stream' = [stream EXCEPT !.pc = "poll"] /\ UNCHANGED wire
    /\ UNCHANGED <<log, opened, status, executing, observed, raced, ended, faults>>

(***************************************************************************)
(* subscribeEvents                                                         *)
(***************************************************************************)
\* The frame of a final status closes the subscription; any other is shown.
Receive ==
    /\ client.state = "open" /\ wire # << >>
    /\ wire' = Tail(wire)
    /\ IF Head(wire) = EndFrame
       THEN client' = [client EXCEPT !.state = "done"] /\ UNCHANGED shown
       ELSE /\ client' = [client EXCEPT !.lastId = IF @ < Head(wire) THEN Head(wire) ELSE @]
            /\ shown' = Append(shown, Head(wire))
    /\ UNCHANGED <<log, opened, status, executing, stream, raced, flooded, ended, faults>>

\* What was on the wire is gone; the client connects again after the last one it has.
Lost ==
    /\ faults < MaxFaults
    /\ faults' = faults + 1
    /\ stream' = Closed /\ wire' = << >>
    /\ client' = [client EXCEPT !.state = IF @ = "open" THEN "waiting" ELSE @]

Disconnect ==
    /\ client.state = "open"
    /\ Lost
    /\ UNCHANGED <<log, opened, status, executing, shown, raced, flooded, ended>>

\* The server dies: a run that was executing keeps the status it had.
Die ==
    /\ Lost
    /\ opened' = FALSE
    /\ executing' = FALSE
    /\ UNCHANGED <<log, status, shown, raced, flooded, ended>>

Run == End \/ Pause \/ Return \/ Resume \/ PermissionChanged \/ \E label \in Labels : Emit(label)

Stream == PollRun \/ PollTask \/ Send \/ Check

Next == Run \/ Connect \/ Stream \/ Receive \/ Disconnect \/ Die

\* The generator and the client go on by themselves, the run may stop anywhere.
Spec == Init /\ [][Next]_vars /\ WF_vars(Stream) /\ WF_vars(Connect) /\ WF_vars(Receive)
-----------------------------------------------------------------------------
\* The activity feed shows every event once and in order, over lost connections and
\* server deaths: what has a number up to the last one shown has been shown, unless it
\* came between the two queries of one poll or a query was cut off.
ShownInOrder ==
    /\ \A i, j \in DOMAIN shown : i < j => shown[i] < shown[j]
    /\ flooded \/ (1..client.lastId) \ raced \subseteq Range(shown)

\* A subscription that ends by itself has shown all that happened before the run got
\* its final status, with the same exceptions.
EndsComplete ==
    client.state = "done" =>
        /\ status \in Final
        /\ flooded \/ (1..ended) \ raced \subseteq Range(shown)

FeedComplete == ShownInOrder /\ EndsComplete

\* A client that stays subscribed to a run that ends is told so.
EndTold == (status \in Final) ~> (client.state = "done")
=============================================================================
