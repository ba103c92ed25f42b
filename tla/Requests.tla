------------------------------ MODULE Requests ------------------------------
(***************************************************************************)
(* Threads of the server process and the requests and runs they serve.  A  *)
(* component keeps what a request has read, and where it stands, in call;  *)
(* a server death ends every request.                                      *)
(***************************************************************************)
EXTENDS Naturals

CONSTANTS
    Clients,      \* the threads
    MaxRequests   \* bound: requests begun

VARIABLES
    call,    \* what each thread is doing
    served   \* requests begun, also the id of the last one

requests == <<call, served>>

Idle == [pc |-> "idle"]

At(c, pc) == call[c].pc = pc

\* A request that is served in one step.
Serve == served < MaxRequests /\ served' = served + 1

Begin(c, request) ==
    /\ At(c, "idle")
    /\ Serve
    /\ call' = [call EXCEPT ![c] = request]

Become(c, request) == call' = [call EXCEPT ![c] = request] /\ UNCHANGED served

Goto(c, pc) == Become(c, [call[c] EXCEPT !.pc = pc])

Finish(c) == Become(c, Idle)

\* INSERT OR REPLACE: the table with this row for the key.
Inserted(table, key, row) ==
    [k \in DOMAIN table \cup {key} |-> IF k = key THEN row ELSE table[k]]
=============================================================================
