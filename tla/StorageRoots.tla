---------------------------- MODULE StorageRoots ----------------------------
(***************************************************************************)
(* Where the tasks keep their files: StorageRegistry (app/core/storage.py),*)
(* the endpoints under /settings/storage, and the sandbox workspaces that  *)
(* the runner and WorkspaceManager put there (app/runner.py,               *)
(* app/core/workspace.py).                                                 *)
(*                                                                         *)
(* The server keeps one registry and its lock; a run reads storage.json    *)
(* afresh, and from then on uses the paths it found.  A migration copies,  *)
(* verifies, switches and deletes while runs write.  The workspace root is *)
(* modelled; the memory root moves by the same code.                       *)
(***************************************************************************)
EXTENDS Requests, FiniteSets

CONSTANTS
    Dirs,       \* directories, none inside another
    Default,    \* the one used when nothing is configured
    Projects,
    Tasks,      \* sandbox tasks
    None,
    MaxWrites,        \* bound: files a task writes after its workspace is made
    MaxStorageFaults  \* bound: failed copies and saves, files that resist deletion, deaths

ASSUME StorageAssumption == Default \in Dirs /\ None \notin Dirs \cup Clients

VARIABLES
    exists,     \* directories that exist
    files,      \* what each holds
    saved,      \* storage.json: the override of the root, those of the projects
    registry,   \* the same in the server's StorageRegistry
    holder,     \* the thread that holds the registry's lock
    run,        \* the tasks: home is the directory of the worktree that the manifest names
                \* (history: late, made in a root given up by then; gone, home was deleted)
    storageFaults,
    (* history *)
    written,    \* files whose writing succeeded
    exposed,    \* those a migration could not see: see Exposed
    moved       \* directories a migration has copied from or to

storage == <<exists, files, saved, registry, holder, run, storageFaults, written, exposed, moved>>

Unconfigured == [root |-> None, own |-> [p \in Projects |-> None]]
NoRun == [status |-> "none", project |-> None, root |-> None, home |-> None, writes |-> 0,
          own |-> None, late |-> FALSE, gone |-> FALSE]

StorageInit ==
    /\ exists = {Default}
    /\ files = [d \in Dirs |-> {}]
    /\ saved = Unconfigured
    /\ registry = Unconfigured
    /\ holder = None
    /\ run = [t \in Tasks |-> NoRun]
    /\ storageFaults = 0
    /\ written = {} /\ exposed = {} /\ moved = {}

\* resolve("workspace") and workspace_root
Root(config) == IF config.root = None THEN Default ELSE config.root
Workspace(config, p) == IF config.own[p] = None THEN Root(config) ELSE config.own[p]

Fault == storageFaults < MaxStorageFaults /\ storageFaults' = storageFaults + 1
Unlocked == holder = None

(***************************************************************************)
(* Files.  A task's file 0 is its manifest, written with the workspace;    *)
(* grows: the write changes the size of the tree.                          *)
(***************************************************************************)
File(t, n, grows) == [task |-> t, n |-> n, grows |-> grows]
Manifest(t) == File(t, 0, TRUE)
Size(dir) == Cardinality({f \in dir : f.grows})

\* A file written into the directory that is being copied is seen by the verification
\* if it changes the size in time; one written into the target is never spared.
Exposed(d, grows) ==
    \E c \in Clients :
        \/ ~At(c, "idle") /\ holder = c /\ call[c].to = d
        \/ /\ At(c, "copy") /\ call[c].from = d /\ ~grows
        \/ /\ At(c, "switch") \/ At(c, "delete")
           /\ call[c].from = d

StoreFile(d, f) ==
    /\ exists' = exists \cup {d}
    /\ files' = [files EXCEPT ![d] = @ \cup {f}]
    /\ written' = written \cup {f}
    /\ exposed' = IF Exposed(d, f.grows) THEN exposed \cup {f} ELSE exposed

(***************************************************************************)
(* migrate                                                                 *)
(***************************************************************************)
Migration(to) ==
    [pc |-> "copy", to |-> to, from |-> Root(registry), new |-> to \notin exists,
     manifest |-> files[Root(registry)], prior |-> registry.root]

\* The target is new or empty, and not the root in use.
Migrate(c, to) ==
    /\ Unlocked
    /\ to # Root(registry) /\ files[to] = {}
    /\ Begin(c, Migration(to))
    /\ holder' = c
    /\ moved' = moved \cup {to, Root(registry)}
    /\ UNCHANGED <<exists, files, saved, registry, run, storageFaults, written, exposed>>

ToCopy(c) == IF call[c].from \in exists THEN files[call[c].from] \ files[call[c].to] ELSE {}

\* copytree, one file after the other; a file that is written meanwhile may be copied
\* or not.
Copy(c) ==
    /\ At(c, "copy")
    /\ \E f \in ToCopy(c) : files' = [files EXCEPT ![call[c].to] = @ \cup {f}]
    /\ exists' = exists \cup {call[c].to}
    /\ UNCHANGED <<requests, saved, registry, holder, run, storageFaults, written, exposed, moved>>

\* Mutant: the copy is taken as it is.
BugVerified(c) == TRUE

\* The sizes now, and the list of files with their hashes from before the copy.
Verified(c) ==
    LET from == call[c].from
        to == call[c].to
    IN from \in exists => /\ Size(files[from]) = Size(files[to])
                          /\ call[c].manifest = files[to]

\* What is in the target goes, and so does the target if the migration has made it.
Restore(c) ==
    /\ files' = [files EXCEPT ![call[c].to] = {}]
    /\ exists' = IF call[c].new THEN exists \ {call[c].to} ELSE exists
    /\ registry' = [registry EXCEPT !.root = call[c].prior]
    /\ saved' = registry'
    /\ holder' = None
    /\ Finish(c)
    /\ UNCHANGED <<run, written, exposed, moved>>

CopyFails(c) ==
    /\ At(c, "copy")
    /\ Fault
    /\ Restore(c)

Verify(c) ==
    /\ At(c, "copy") /\ call[c].manifest \subseteq files[call[c].to]
    /\ IF Verified(c)
       THEN /\ exists' = exists \cup {call[c].to}
            /\ Goto(c, "switch")
            /\ UNCHANGED <<files, saved, registry, holder, run, storageFaults, written, exposed, moved>>
       ELSE Restore(c) /\ UNCHANGED storageFaults

\* Mutant: the new root is not written to storage.json.
BugSwitched(c) == saved

Switched(c) == [registry EXCEPT !.root = call[c].to]

Switch(c) ==
    /\ At(c, "switch")
    /\ \/ /\ registry' = [registry EXCEPT !.root = call[c].to]
          /\ saved' = Switched(c)
          /\ Goto(c, "delete")
          /\ UNCHANGED <<exists, files, holder, run, storageFaults, written, exposed, moved>>
       \/ Fault /\ Restore(c)

\* rmtree with ignore_errors: a file that is open stays.
Delete(c) ==
    /\ At(c, "delete")
    /\ LET from == call[c].from
       IN \/ /\ files' = [files EXCEPT ![from] = {}]
             /\ exists' = exists \ {from}
             /\ UNCHANGED storageFaults
          \/ /\ Fault
             /\ \E f \in files[from] : files' = [files EXCEPT ![from] = {f}]
             /\ UNCHANGED exists
    /\ run' = [t \in Tasks |->
                  IF run[t].home = call[c].from THEN [run[t] EXCEPT !.gone = TRUE] ELSE run[t]]
    /\ holder' = None
    /\ Finish(c)
    /\ UNCHANGED <<saved, registry, written, exposed, moved>>

(***************************************************************************)
(* set_project_workspace and set_project_profile: a project gets a         *)
(* directory of its own or loses it; nothing is moved.  When storage.json  *)
(* cannot be written the server keeps what it did not save.                *)
(***************************************************************************)
Reroute(p, d) ==
    /\ Unlocked
    /\ registry' = [registry EXCEPT !.own[p] = d]
    /\ \/ saved' = registry' /\ UNCHANGED storageFaults
       \/ Fault /\ UNCHANGED saved

\* workspace_override
Override(p, d) ==
    /\ Serve
    /\ Reroute(p, d)
    /\ UNCHANGED <<call, exists, files, holder, run, written, exposed, moved>>

(***************************************************************************)
(* Sandbox tasks                                                           *)
(***************************************************************************)
Live(t) == run[t].status \in {"starting", "running"}

\* _build_sandbox_context reads the root and makes the directory, then the workspace
\* in it; the manifest keeps the path of the worktree.
StartTask(t, p) ==
    /\ run[t].status = "none"
    /\ run' = [run EXCEPT ![t] = [NoRun EXCEPT !.status = "starting", !.project = p,
                                                !.root = Workspace(saved, p),
                                                !.own = saved.own[p]]]
    /\ exists' = exists \cup {Workspace(saved, p)}
    /\ UNCHANGED <<files, saved, registry, holder, storageFaults, written, exposed, moved>>

CreateWorkspace(t) ==
    /\ run[t].status = "starting"
    /\ StoreFile(run[t].root, Manifest(t))
    /\ run' = [run EXCEPT ![t].status = "running", ![t].home = run[t].root,
                          ![t].late = run[t].own = None /\ run[t].root # Root(saved)]
    /\ UNCHANGED <<requests, saved, registry, holder, storageFaults, moved>>

\* Patches go to the worktree, with the directories they need; a request for approval
\* is appended in the workspace, which must be there.
Write(t) ==
    /\ run[t].status = "running" /\ run[t].writes < MaxWrites
    /\ \E d \in {run[t].home, run[t].root}, grows \in BOOLEAN :
          /\ d = run[t].home \/ \E f \in files[d] : f.task = t
          /\ StoreFile(d, File(t, run[t].writes + 1, grows))
    /\ run' = [run EXCEPT ![t].writes = @ + 1]
    /\ UNCHANGED <<requests, saved, registry, holder, storageFaults, moved>>

\* The run pauses for an approval, ends, or fails.
Leave(t) ==
    /\ Live(t)
    /\ \E status \in {"ended"} \cup (IF run[t].status = "running" THEN {"paused"} ELSE {}) :
          run' = [run EXCEPT ![t].status = status]
    /\ UNCHANGED <<requests, exists, files, saved, registry, holder, storageFaults, written, exposed, moved>>

Roots == {Root(saved)} \cup ({saved.own[p] : p \in Projects} \ {None})

\* approval_show finds the request in any root; resume_task decides it in the root of
\* the project, and runs on with the worktree of the manifest, which a migration may have
\* deleted.
Findable(t) ==
    /\ \E d \in Roots : Manifest(t) \in files[d]
    /\ Manifest(t) \in files[Workspace(saved, run[t].project)]

Decide(t) ==
    /\ run[t].status = "paused" /\ Findable(t)
    /\ Serve
    /\ run' = [run EXCEPT ![t].status = "running", ![t].root = Workspace(saved, run[t].project)]
    /\ UNCHANGED <<call, exists, files, saved, registry, holder, storageFaults, written, exposed, moved>>

\* The server dies: a run that was live is not paused and cannot be resumed.
StorageAfterDeath ==
    /\ Fault
    /\ registry' = saved
    /\ holder' = None
    /\ run' = [t \in Tasks |-> IF Live(t) THEN [run[t] EXCEPT !.status = "ended"] ELSE run[t]]
    /\ UNCHANGED <<exists, files, saved, written, exposed, moved>>

StorageStep ==
    \/ \E c \in Clients :
          \/ \E d \in Dirs : Migrate(c, d)
          \/ Copy(c) \/ CopyFails(c) \/ Verify(c) \/ Switch(c) \/ Delete(c)
    \/ \E p \in Projects, d \in Dirs \cup {None} : Override(p, d)
    \/ \E t \in Tasks : CreateWorkspace(t) \/ Write(t) \/ Leave(t) \/ Decide(t)
-----------------------------------------------------------------------------
\* "A path changes by an atomic migration with verification and rollback": however a
\* migration fails or the server dies in it, and whatever tasks write meanwhile, a
\* file that was written is on the disk, unless it was written where the verification
\* could not see it.
NothingLost == \A f \in written \ exposed : \E d \in Dirs : f \in files[d]

\* A task that waits for approval is found, so that it can be decided, wherever the root
\* went: a migration takes its workspace along.  Not that of a project which has been
\* given another directory, or has one that a migration moved or chose, nor one that was
\* made in the old root because the run had read it before the switch.
PausedFindable ==
    \A t \in Tasks :
        LET own == saved.own[run[t].project]
        IN (/\ run[t].status = "paused" /\ run[t].own = own
            /\ own \notin moved /\ ~run[t].late /\ Manifest(t) \notin exposed) => Findable(t)

\* The worktree that its manifest names holds what the resumed run starts from as long as
\* no migration has got so far as to delete that directory: one that fails, is taken
\* back or is cut off leaves the task as it was.  After one that succeeds the manifest
\* still names the old directory, and the run finds no base.
BaseStays ==
    \A t \in Tasks :
        run[t].status = "paused" /\ ~run[t].gone /\ Manifest(t) \notin exposed
            => Manifest(t) \in files[run[t].home]

StorageKept == NothingLost /\ PausedFindable /\ BaseStays
=============================================================================
